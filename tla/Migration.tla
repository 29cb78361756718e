----------------------------- MODULE Migration -----------------------------
(***************************************************************************)
(* A migration as its operator sees it: launches of the binary (main.go    *)
(* run, runPreDocker, insertAll, saveState, loadState, runPostDocker,      *)
(* runTakeoverAndTeardown) with their --phase, --dry-run and --no-teardown *)
(* flags, against a v3 install that keeps working until it is frozen and a *)
(* coolifygo database that keeps the rows of earlier launches.             *)
(*                                                                         *)
(* How one takeover touches containers and volumes is PostDocker's         *)
(* subject; here a resource is taken over in two steps.                    *)
(***************************************************************************)
EXTENDS Naturals, FiniteSets

CONSTANTS
    NApps,        \* v3 applications
    NDBs,         \* v3 databases
    MaxPort,      \* host ports 1 .. MaxPort; 0 is "none published"
    MaxLaunches,  \* bound: launches of the binary
    MaxDeploys,   \* bound: deployments v3 makes while the migration runs
    MaxFaults     \* bound: failing calls and deaths

ASSUME MigrationAssumption ==
    {NApps, NDBs, MaxPort, MaxLaunches, MaxDeploys, MaxFaults} \subseteq Nat

(* Resources in the order of the plan: applications, then databases.       *)
Resources == 1 .. (NApps + NDBs)
Databases == (NApps + 1) .. (NApps + NDBs)

VARIABLES
    port,       \* the host port of a resource; fixed
    coolify,    \* v3's management container
    registry,   \* the resources in v3's SQLite
    v3c,        \* the id of a resource's v3 container, 0 when it has none
    rows,       \* committed coolifygo rows
    newc,       \* rows whose coolifygo-named container exists
    stateFile,  \* the plan handed from pre-docker to post-docker
    pc,         \* the next step of the launch in progress
    opts,       \* its flags
    found,      \* what discover.Inspect saw: container ids
    plan,       \* its plan
    tx,         \* rows inserted in the open transaction
    todo,       \* resources its takeover has still to do
    taking,     \* the one whose v3 container it has just removed
    ever,       \* history: resources that have had a v3 container
    missed,     \* history: resources whose container an inspection failed on
    launches, deploys, faults   \* counters of the bounds

vars == <<port, coolify, registry, v3c, rows, newc, stateFile, pc, opts, found,
          plan, tx, todo, taking, ever, missed, launches, deploys, faults>>

v3     == <<port, coolify, registry, v3c, ever, deploys>>
cgo    == <<rows, newc>>
memory == <<opts, found, plan, tx, todo, taking, launches, missed>>

Phases == {"all", "pre-docker", "post-docker"}
Ids    == 0 .. (MaxDeploys + 1)
Row    == [res : Resources, gen : 1 .. MaxLaunches, port : 0 .. MaxPort]
Plan   == [gen : 1 .. MaxLaunches, res : SUBSET Resources,
           claim : [Resources -> Ids], orphans : SUBSET Resources]
NoPlan == [gen |-> 0]
Steps  == {"idle", "discover", "freeze", "extract", "plan", "insert", "save",
           "load", "takeover", "create", "gate"}

TypeOK ==
    /\ port \in [Resources -> 0 .. MaxPort]
    /\ coolify \in {"running", "stopped", "gone"}
    /\ registry \subseteq Resources
    /\ v3c \in [Resources -> Ids]
    /\ rows \subseteq Row
    /\ newc \subseteq Row
    /\ stateFile \in Plan \cup {NoPlan}
    /\ pc \in Steps
    /\ opts \in [phase : Phases, dry : BOOLEAN, keep : BOOLEAN]
    /\ found \in [Resources -> Ids]
    /\ plan \in Plan \cup {NoPlan}
    /\ tx \subseteq Row
    /\ todo \subseteq Resources
    /\ taking \subseteq Resources
    /\ ever \subseteq Resources
    /\ missed \subseteq Resources
    /\ launches \in 0 .. MaxLaunches
    /\ deploys \in 0 .. MaxDeploys
    /\ faults \in 0 .. MaxFaults

NothingFound == [r \in Resources |-> 0]
NoOpts == [phase |-> "all", dry |-> FALSE, keep |-> FALSE]

(* A managed container may belong to no row of v3's SQLite, and a row may  *)
(* have no container.                                                      *)
Init ==
    /\ port \in [Resources -> 0 .. MaxPort]
    /\ coolify = "running"
    /\ registry \in SUBSET Resources
    /\ v3c \in [Resources -> {0, 1}]
    /\ ever = {r \in Resources : v3c[r] = 1}
    /\ missed = {}
    /\ rows = {} /\ newc = {}
    /\ stateFile = NoPlan
    /\ pc = "idle"
    /\ opts = NoOpts
    /\ found = NothingFound
    /\ plan = NoPlan
    /\ tx = {} /\ todo = {} /\ taking = {}
    /\ launches = 0 /\ deploys = 0 /\ faults = 0

-----------------------------------------------------------------------------
Goto(l) == pc' = l

(* A launch ends: its memory is gone and an open transaction rolls back.   *)
Quit ==
    /\ Goto("idle")
    /\ opts' = NoOpts
    /\ found' = NothingFound
    /\ plan' = NoPlan
    /\ tx' = {} /\ todo' = {} /\ taking' = {}
    /\ UNCHANGED <<launches, missed>>

Fault == faults < MaxFaults /\ faults' = faults + 1

(* v3 deploys a new resource or redeploys one, under a new container id,   *)
(* as long as its management container runs.                               *)
V3Deploys(r) ==
    /\ coolify = "running"
    /\ deploys < MaxDeploys
    /\ deploys' = deploys + 1
    /\ registry' = registry \cup {r}
    /\ v3c' = [v3c EXCEPT ![r] = deploys + 2]
    /\ ever' = ever \cup {r}
    /\ UNCHANGED <<port, coolify, cgo, stateFile, pc, memory, faults>>

Launch(o) ==
    /\ pc = "idle"
    /\ launches < MaxLaunches
    /\ launches' = launches + 1
    /\ opts' = o
    /\ Goto(IF o.phase = "post-docker" THEN "load" ELSE "discover")
    /\ UNCHANGED <<v3, cgo, stateFile, found, plan, tx, todo, taking, missed, faults>>

(* discover.Inspect lists the workload containers before v3 is frozen; the *)
(* coolify container must exist.  A container that is listed but cannot be *)
(* inspected is skipped without a word, and is no orphan later.            *)
Discover ==
    /\ pc = "discover"
    /\ IF coolify = "gone"
          THEN Quit /\ UNCHANGED faults
          ELSE /\ \/ found' = v3c /\ UNCHANGED <<missed, faults>>
                  \/ \E r \in {x \in Resources : v3c[x] # 0} :
                        /\ found' = [v3c EXCEPT ![r] = 0]
                        /\ missed' = missed \cup {r}
                        /\ Fault
               /\ Goto("freeze")
               /\ UNCHANGED <<opts, plan, tx, todo, taking, launches>>
    /\ UNCHANGED <<v3, cgo, stateFile>>

(* A failing stop of the management container is only warned about.        *)
Freeze ==
    /\ pc = "freeze"
    /\ \/ coolify' = "stopped" /\ UNCHANGED faults
       \/ UNCHANGED coolify /\ Fault
    /\ Goto("extract")
    /\ UNCHANGED <<port, registry, v3c, ever, deploys, cgo, stateFile, memory>>

(* Variant: orphans are not recorded.                                      *)
PlanForBlind(read) ==
    [gen     |-> launches,
     res     |-> read,
     claim   |-> [r \in Resources |-> IF r \in read THEN found[r] ELSE 0],
     orphans |-> {}]

(* Variant: a resource that was not read has no entry in the claims.       *)
PlanForPartial(read) ==
    [gen     |-> launches,
     res     |-> read,
     claim   |-> [r \in read |-> found[r]],
     orphans |-> {r \in Resources : found[r] # 0 /\ r \notin read}]

(* BuildPlan over the rows that were read and the containers that were     *)
(* found: an application's port comes from its container, a database's     *)
(* also from SQLite; a container no row claims is an orphan.               *)
PlanFor(read) ==
    [gen     |-> launches,
     res     |-> read,
     claim   |-> [r \in Resources |-> IF r \in read THEN found[r] ELSE 0],
     orphans |-> {r \in Resources : found[r] # 0 /\ r \notin read}]

PlanRows(p) ==
    {[res |-> r, gen |-> p.gen,
      port |-> IF p.claim[r] # 0 \/ r \in Databases THEN port[r] ELSE 0] : r \in p.res}

(* The copy of a SQLite file that v3 is still writing may miss rows.       *)
Extract ==
    /\ pc = "extract"
    /\ \E read \in IF coolify = "running" THEN SUBSET registry ELSE {registry} :
          IF read = {} THEN Quit      \* "nothing to migrate"
          ELSE /\ plan' = PlanFor(read)
               /\ Goto("plan")
               /\ UNCHANGED <<opts, found, tx, todo, taking, launches, missed>>
    /\ UNCHANGED <<v3, cgo, stateFile, faults>>

(* Variant: ports of database rows are forgotten.                          *)
UsedPortsOfApps == {x.port : x \in {y \in rows : y.res \notin Databases}} \ {0}

(* Host ports the rows coolifygo already has are bound to.                 *)
UsedPorts == {x.port : x \in rows} \ {0}

(* A host port taken twice inside the plan, or already used, ends the run. *)
TakenTwice(rs) == \E x, y \in rs : x # y /\ x.port # 0 /\ x.port = y.port
AlreadyUsed(rs) == \E x \in rs : x.port \in UsedPorts

PortClash(rs) == TakenTwice(rs) \/ AlreadyUsed(rs)

(* Variant: the hand-off file is written before the inserts.               *)
CheckPlanSaves ==
    /\ pc = "plan"
    /\ ~PortClash(PlanRows(plan))
    /\ ~opts.dry
    /\ Goto(IF opts.phase = "all" THEN "insert" ELSE "save")
    /\ UNCHANGED memory
    /\ UNCHANGED <<v3, cgo, stateFile, faults>>

CheckPlan ==
    /\ pc = "plan"
    /\ \/ PortClash(PlanRows(plan)) /\ Quit
       \/ ~PortClash(PlanRows(plan)) /\ opts.dry /\ Quit
       \/ ~opts.dry /\ Quit                            \* declined
       \/ /\ ~PortClash(PlanRows(plan))
          /\ ~opts.dry
          /\ Goto("insert")
          /\ UNCHANGED memory
    /\ UNCHANGED <<v3, cgo, stateFile, faults>>

(* Variant: every INSERT commits by itself.                                *)
InsertAutocommit ==
    /\ pc = "insert"
    /\ \E x \in PlanRows(plan) \ tx : tx' = tx \cup {x} /\ rows' = rows \cup {x}
    /\ UNCHANGED <<v3, newc, stateFile, pc, opts, found, plan, todo, taking, launches, missed, faults>>

(* insertAll: one transaction, one INSERT per resource.                    *)
Insert ==
    /\ pc = "insert"
    /\ \E x \in PlanRows(plan) \ tx : tx' = tx \cup {x}
    /\ UNCHANGED <<v3, cgo, stateFile, pc, opts, found, plan, todo, taking, launches, missed, faults>>

(* Variant: the deferred rollback runs without a commit before it.         *)
CommitForgotten ==
    /\ pc = "insert"
    /\ tx = PlanRows(plan)
    /\ tx' = {}
    /\ IF opts.phase = "all"
          THEN Goto("takeover") /\ todo' = {r \in plan.res : plan.claim[r] # 0}
          ELSE Goto("save") /\ UNCHANGED todo
    /\ UNCHANGED <<v3, cgo, stateFile, opts, found, plan, taking, launches, missed, faults>>

Commit ==
    /\ pc = "insert"
    /\ tx = PlanRows(plan)
    /\ rows' = rows \cup tx
    /\ tx' = {}
    /\ IF opts.phase = "all"
          THEN Goto("takeover") /\ todo' = {r \in plan.res : plan.claim[r] # 0}
          ELSE Goto("save") /\ UNCHANGED todo
    /\ UNCHANGED <<v3, newc, stateFile, opts, found, plan, taking, launches, missed, faults>>

(* saveState replaces the file atomically (written aside, then renamed).   *)
Save ==
    /\ pc = "save"
    /\ stateFile' = plan
    /\ Quit
    /\ UNCHANGED <<v3, cgo, faults>>

Load ==
    /\ pc = "load"
    /\ IF stateFile = NoPlan
          THEN Quit
          ELSE /\ plan' = stateFile
               /\ todo' = {r \in stateFile.res : stateFile.claim[r] # 0}
               /\ Goto("takeover")
               /\ UNCHANGED <<opts, found, tx, taking, launches, missed>>
    /\ UNCHANGED <<v3, cgo, stateFile, faults>>

(* Variant: the v3 containers are all removed up front.                    *)
RemoveOldUpFront(r) ==
    /\ pc = "takeover"
    /\ r \in todo /\ \A s \in todo : r =< s
    /\ v3c' = [q \in Resources |-> IF q \in todo /\ v3c[q] = plan.claim[q] THEN 0 ELSE v3c[q]]
    /\ todo' = todo \ {r} /\ taking' = {r}
    /\ Goto("create")
    /\ UNCHANGED <<port, coolify, registry, ever, deploys, cgo, stateFile, opts, found,
                   plan, tx, launches, missed, faults>>

(* stopAndRemove by container id: a container that is gone, or that v3     *)
(* replaced under another id, is "not found" and tolerated.                *)
RemoveOld(r) ==
    /\ pc = "takeover"
    /\ r \in todo /\ \A s \in todo : r =< s
    /\ v3c' = [v3c EXCEPT ![r] = IF @ = plan.claim[r] THEN 0 ELSE @]
    /\ todo' = todo \ {r} /\ taking' = {r}
    /\ Goto("create")
    /\ UNCHANGED <<port, coolify, registry, ever, deploys, cgo, stateFile, opts, found,
                   plan, tx, launches, missed, faults>>

(* The name of the new container derives from the row: it is taken if an   *)
(* earlier launch created it, and then the run ends.                       *)
CreateNew ==
    LET fresh == {x \in PlanRows(plan) : x.res \in taking}
    IN /\ pc = "create"
       /\ IF fresh \subseteq newc
             THEN Quit /\ UNCHANGED newc
             ELSE /\ newc' = newc \cup fresh
                  /\ taking' = {}
                  /\ Goto("takeover")
                  /\ UNCHANGED <<opts, found, plan, tx, todo, launches, missed>>
       /\ UNCHANGED <<v3, rows, stateFile, faults>>

EndTakeover ==
    /\ pc = "takeover"
    /\ todo = {}
    /\ Goto("gate")
    /\ UNCHANGED <<v3, cgo, stateFile, memory, faults>>

(* --no-teardown, orphans, or a declined prompt.                           *)
KeepV3 ==
    /\ pc = "gate"
    /\ Quit
    /\ UNCHANGED <<v3, cgo, stateFile, faults>>

Wipe ==
    /\ pc = "gate"
    /\ ~opts.keep
    /\ plan.orphans = {}
    /\ coolify' = "gone"
    /\ stateFile' = IF opts.phase = "post-docker" THEN NoPlan ELSE stateFile
    /\ Quit
    /\ UNCHANGED <<port, registry, v3c, ever, deploys, cgo, faults>>

Die ==
    /\ pc # "idle"
    /\ Fault
    /\ Quit
    /\ UNCHANGED <<v3, cgo, stateFile>>

Run ==
    \/ Discover \/ Freeze \/ Extract \/ CheckPlan \/ Insert \/ Commit \/ Save
    \/ Load \/ (\E r \in Resources : RemoveOld(r)) \/ CreateNew \/ EndTakeover
    \/ KeepV3 \/ Wipe

Next ==
    \/ \E r \in Resources : V3Deploys(r)
    \/ \E o \in [phase : Phases, dry : BOOLEAN, keep : BOOLEAN] : Launch(o)
    \/ Run
    \/ Die

Spec == Init /\ [][Next]_vars
=============================================================================
