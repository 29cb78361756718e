---------------------------- MODULE OldFixProps ----------------------------
(* What the repair mode must guarantee.                                    *)
EXTENDS OldFix

(* Matches are bijective (README.md:316): no run gives one container to    *)
(* two rows or two containers to one row, counting the rows it refreshed,  *)
(* the ones it adopted and the ones it is about to adopt, however rows     *)
(* share container ids and names, and whatever changes under its feet.     *)
OneToOne ==
    \A x, y \in written \cup targets \cup cur :
        x[1] = y[1] \/ x[2] = y[2] => x = y

(* A row is written only for a container that runs under that row's name,  *)
(* in a run in which no call failed and no container exited, vanished or   *)
(* was renamed since its listing; otherwise it may be written wrongly.     *)
WrittenIsTrue ==
    calm => \A x \in written : name[x[2]] = x[1] /\ up[x[2]] = "running"

(* Re-runnable (main.go:398-399): after a run that ended undisturbed, even *)
(* if earlier ones died half way, every row with a container running under *)
(* its name points to it, and no adoption is left but for a name that a    *)
(* stopped container occupies.                                             *)
Healed ==
    settled =>
        /\ \A a \in Apps : \A c \in Bearers(a, Now) :
              rows[a].cid = c /\ rows[a].status = "running"
        /\ \A ts \in MatchAdoptable(rows, Now) : \A x \in ts :
              ~CanRename(x[2], x[1])

(* After an undisturbed run every application that runs under its          *)
(* coolifygo name is on the coolifygo network, whatever failed in earlier  *)
(* runs (README.md:310, README.md:316).                                    *)
NetworkHealed ==
    settled => \A a \in Apps : Bearers(a, Now) \subseteq net

(* A safe no-op when nothing is broken (main.go:398-399): once an          *)
(* undisturbed run has ended, further runs change nothing.                 *)
NoOpWhenSettled ==
    [][settled /\ settled' => UNCHANGED <<rows, containers>>]_vars

(* A container without v3's label is never renamed (main.go:444-449).      *)
ForeignUntouched ==
    [][events' = events =>
          \A c \in Containers : host.kind[c] # "v3" => name'[c] = name[c]]_vars

(* An app reachable on a host port is never a bot: coolifygo would drop    *)
(* the binding at the next restart (cgo.go:336-339).                       *)
ExposedIsNoBot == \A a \in Apps : rows[a].port => ~rows[a].bot
=============================================================================
