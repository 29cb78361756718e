--------------------------- MODULE MigrationProps ---------------------------
(* What an operator may rely on across launches.                           *)
EXTENDS Migration

(* Rows of all launches together never bind one host port twice            *)
(* (mapper.go:251-253, ValidatePortsAgainst).                              *)
OncePerPort ==
    \A x, y \in rows : x.port # 0 /\ x.port = y.port => x = y

(* A v3 container is removed only when the row that takes its place has    *)
(* been committed, by this launch or an earlier one (README.md:256).       *)
TakeoverAfterCommit ==
    [][\A r \in Resources : v3c[r] # 0 /\ v3c'[r] = 0 =>
          \E x \in rows : x.res = r]_vars

(* A plan found on disk is backed: all its rows are in Postgres, whenever  *)
(* the launch that wrote it died.                                          *)
HandOffBacked == stateFile # NoPlan => PlanRows(stateFile) \subseteq rows

(* Whatever happens between two inserts, coolifygo gets all rows of a plan *)
(* or none (main.go:631-633).                                              *)
AllOrNothing == [][rows' # rows => PlanRows(plan) \subseteq rows']_vars

(* Once v3 is wiped none of its workload containers is left behind: each   *)
(* was matched and removed, or the gate held, even if the freeze failed    *)
(* and the SQLite copy was missing rows.  Holds while v3 deploys nothing,  *)
(* except for a container that discovery once failed to inspect.           *)
WipeLeavesNothing == coolify = "gone" => \A r \in Resources : v3c[r] = 0 \/ r \in missed

WipeLeavesNothingIfQuiet == deploys = 0 => WipeLeavesNothing

(* Once v3 is wiped every resource that v3 had a container for, and that   *)
(* no inspection failed on, has a coolifygo container.  Holds over any     *)
(* launches that met no fault, while v3 deploys nothing.                   *)
WipedMeansTakenOver ==
    coolify = "gone" => \A r \in ever \ missed : \E x \in newc : x.res = r

WipedMeansTakenOverIfCalm == faults = 0 /\ deploys = 0 => WipedMeansTakenOver

(* A fault costs at most one workload: those without a v3 container and    *)
(* without a successor are, but for the one in hand, no more than the      *)
(* calls that failed and the launches that died (main.go:708, 763).        *)
Lost == {r \in ever : v3c[r] = 0 /\ \A x \in newc : x.res # r}

OneLostPerFault == Cardinality(Lost \ taking) =< faults

(* --dry-run touches no row and no workload container, whatever the phase  *)
(* (README.md:98).                                                         *)
DryRunTakesNothingOver ==
    [][opts.dry => UNCHANGED <<rows, newc, v3c>>]_vars

-----------------------------------------------------------------------------
(* Succession: a row is the successor of its resource's v3 container.      *)
unremoved == {r \in Resources : v3c[r] # 0}

Heirs == INSTANCE Succession WITH
    Successors <- Row,
    heir <- [x \in Row |-> x.res], olds <- ever, serving <- unremoved, seated <- newc,
    dissolved <- coolify = "gone"

(* The launches of an operator replace containers the way one takeover     *)
(* does, as long as nothing fails and v3 deploys nothing, whatever phases  *)
(* are run, in any order, over rows and plans of earlier launches.         *)
CalmSuccession ==
    /\ Heirs!SuccessionInit
    /\ [][faults' = 0 /\ deploys' = 0 =>
             [Heirs!SuccessionNext]_(Heirs!successionVars)]_vars
=============================================================================
