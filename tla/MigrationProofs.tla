-------------------------- MODULE MigrationProofs --------------------------
(***************************************************************************)
(* Proofs of Migration's properties for any numbers of resources, ports,   *)
(* launches, deployments and faults.                                       *)
(*                                                                         *)
(* Rows: a plan that reaches its inserts clashes with nothing, a plan that *)
(* has left them is committed whole, so is one in the hand-off file.       *)
(* Containers: while v3 deploys nothing, ids only disappear, so a plan and *)
(* a hand-off file, however old, account for every container still there.  *)
(***************************************************************************)
EXTENDS MigrationProps, FiniteSetTheorems, TLAPS

Planning  == {"plan", "insert", "save", "takeover", "create", "gate"}
Adopting  == {"takeover", "create", "gate"}

(* Where a launch is tells what it holds.                                  *)
Position ==
    /\ pc # "idle" => launches # 0
    /\ pc \in Planning => plan \in Plan
    /\ pc \in Adopting => todo \subseteq plan.res
    /\ pc = "gate" => todo = {}
    /\ pc = "create" => taking # {} /\ taking \subseteq plan.res
    /\ pc # "create" => taking = {}
    /\ pc # "insert" => tx = {}

(* What is about to be committed clashes with nothing.                     *)
Inserting == pc = "insert" => ~PortClash(PlanRows(plan)) /\ tx \subseteq PlanRows(plan)

(* A plan past its inserts is committed.                                   *)
Committed == pc \in Adopting \cup {"save"} => PlanRows(plan) \subseteq rows

Seen(r) == r \in Resources \ missed /\ v3c[r] # 0

(* A plan accounts for every container that is there and was not missed.   *)
Covers(p) == \A r \in Resources : Seen(r) =>
                r \in p.orphans \/ (r \in p.res /\ p.claim[r] = v3c[r])

(* While v3 deploys nothing, what a launch knows of v3's containers is     *)
(* true of those that are left.                                            *)
Quiet ==
    /\ pc \in {"freeze", "extract"} => \A r \in Resources : Seen(r) => found[r] = v3c[r]
    /\ pc \in Planning => Covers(plan)
    /\ stateFile # NoPlan => Covers(stateFile)
    /\ pc \in Adopting => \A r \in Resources : Seen(r) => r \in plan.orphans \cup todo
    /\ WipeLeavesNothing

IInv ==
    /\ TypeOK
    /\ Position
    /\ Inserting
    /\ Committed
    /\ HandOffBacked
    /\ OncePerPort
    /\ deploys = 0 => Quiet

-----------------------------------------------------------------------------
(* A plan has one row for each of its resources.                           *)
LEMMA RowsOfPlan ==
    ASSUME TypeOK, NEW p \in Plan
    PROVE  /\ PlanRows(p) \subseteq Row
           /\ \A x \in PlanRows(p) : x.res \in p.res
           /\ \A r \in p.res : \E x \in PlanRows(p) : x.res = r
<1>1. \A r \in p.res : r \in Resources /\ port[r] \in 0 .. MaxPort /\ p.gen \in 1 .. MaxLaunches
  BY DEF Plan, TypeOK
<1>2. 0 \in 0 .. MaxPort
  BY MigrationAssumption
<1>. DEFINE PortOf(r) == IF p.claim[r] # 0 \/ r \in Databases THEN port[r] ELSE 0
            RowFor(r) == [res |-> r, gen |-> p.gen, port |-> PortOf(r)]
<1>3. PlanRows(p) = {RowFor(r) : r \in p.res}
  BY DEF PlanRows
<1>4. \A r \in p.res : PortOf(r) \in 0 .. MaxPort
  BY <1>1, <1>2
<1>5. \A r \in p.res : RowFor(r) \in Row /\ RowFor(r).res = r
  <2>. HIDE DEF PortOf
  <2>. QED
    BY <1>1, <1>4 DEF Row
<1>. HIDE DEF RowFor
<1>. QED
  BY <1>3, <1>5

(* A resource has one row in a plan.                                       *)
LEMMA OneRow ==
    ASSUME TypeOK, NEW p \in Plan, NEW r \in p.res
    PROVE  \E s \in Row : s.res = r /\ {x \in PlanRows(p) : x.res = r} = {s}
<1>1. PICK s \in PlanRows(p) : s.res = r
  BY RowsOfPlan
<1>2. s \in Row
  BY RowsOfPlan
<1>3. \A x \in PlanRows(p) : x.res = r => x = s
  BY <1>1 DEF PlanRows
<1>. QED
  BY <1>1, <1>2, <1>3

(* BuildPlan makes a plan.                                                 *)
LEMMA PlanForIsPlan ==
    ASSUME TypeOK, Position, pc # "idle", NEW read \in SUBSET Resources
    PROVE  PlanFor(read) \in Plan
<1>1. launches \in 1 .. MaxLaunches
  BY MigrationAssumption DEF TypeOK, Position
<1>2. \A r \in Resources : found[r] \in Ids
  BY DEF TypeOK
<1>3. 0 \in Ids
  BY MigrationAssumption DEF Ids
<1>. QED
  BY <1>1, <1>2, <1>3 DEF PlanFor, Plan

(* The invariant holds at first.                                           *)
LEMMA Initially == Init => IInv
<1>1. SUFFICES ASSUME Init PROVE IInv
  OBVIOUS
<1>2. 0 \in Ids /\ 1 \in Ids
  BY MigrationAssumption DEF Ids
<1>3. TypeOK
  BY <1>1, <1>2, MigrationAssumption
  DEF Init, TypeOK, Steps, NothingFound, NoOpts, Phases
<1>4. Position /\ Inserting /\ Committed /\ HandOffBacked /\ OncePerPort
  BY <1>1 DEF Init, Position, Inserting, Committed, HandOffBacked, OncePerPort,
              Planning, Adopting
<1>5. Quiet
  BY <1>1 DEF Init, Quiet, Planning, Adopting, WipeLeavesNothing
<1>. QED
  BY <1>3, <1>4, <1>5 DEF IInv

(* A launch that ends, with the host and Postgres as they are.             *)
LEMMA QuitKeeps ==
    ASSUME IInv, Quit, UNCHANGED <<v3, cgo, stateFile>>,
           faults' \in 0 .. MaxFaults
    PROVE  IInv'
<1>1. TypeOK'
  BY MigrationAssumption
  DEF IInv, TypeOK, Quit, Goto, v3, cgo, NothingFound, NoOpts, Phases, Steps, Ids
<1>2. Position' /\ Inserting' /\ Committed'
  BY DEF Quit, Goto, Position, Inserting, Committed, Planning, Adopting
<1>3. HandOffBacked' /\ OncePerPort'
  BY DEF IInv, HandOffBacked, OncePerPort, PlanRows, v3, cgo
<1>4. (deploys = 0 => Quiet)'
  BY DEF IInv, Quiet, Quit, Goto, Covers, Seen, WipeLeavesNothing, Planning, Adopting, v3
<1>. QED
  BY <1>1, <1>2, <1>3, <1>4 DEF IInv

LEMMA V3DeploysStep ==
    ASSUME IInv, NEW r \in Resources, V3Deploys(r)
    PROVE  IInv'
<1>1. deploys' \in 0 .. MaxDeploys /\ deploys' # 0 /\ deploys + 2 \in Ids
  BY MigrationAssumption DEF IInv, TypeOK, V3Deploys, Ids
<1>2. TypeOK'
  BY <1>1 DEF IInv, TypeOK, V3Deploys, cgo, memory
<1>3. Position' /\ Inserting' /\ Committed' /\ HandOffBacked' /\ OncePerPort'
  BY DEF IInv, V3Deploys, cgo, memory, Position, Inserting, Committed, HandOffBacked,
         OncePerPort, PlanRows, PortClash, TakenTwice, AlreadyUsed, UsedPorts
<1>. QED
  BY <1>1, <1>2, <1>3 DEF IInv

LEMMA LaunchStep ==
    ASSUME IInv, NEW o \in [phase : Phases, dry : BOOLEAN, keep : BOOLEAN], Launch(o)
    PROVE  IInv'
<1>1. launches' \in 0 .. MaxLaunches /\ launches' # 0 /\ pc = "idle" /\ pc' \in {"load", "discover"}
  BY MigrationAssumption DEF IInv, TypeOK, Launch, Goto
<1>2. TypeOK'
  BY <1>1 DEF IInv, TypeOK, Launch, v3, cgo, Steps
<1>3. Position' /\ Inserting' /\ Committed'
  BY <1>1 DEF IInv, Launch, Position, Inserting, Committed, Planning, Adopting
<1>4. HandOffBacked' /\ OncePerPort'
  BY DEF IInv, Launch, v3, cgo, HandOffBacked, OncePerPort, PlanRows
<1>5. (deploys = 0 => Quiet)'
  BY <1>1 DEF IInv, Quiet, Launch, Covers, Seen, WipeLeavesNothing, Planning, Adopting, v3
<1>. QED
  BY <1>2, <1>3, <1>4, <1>5 DEF IInv

LEMMA DiscoverStep == IInv /\ Discover => IInv'
<1>1. SUFFICES ASSUME IInv, Discover PROVE IInv'
  OBVIOUS
<1>2. pc = "discover" /\ UNCHANGED <<v3, cgo, stateFile>> /\ taking = {}
  BY <1>1 DEF Discover, IInv, Position
<1>3. CASE Quit /\ UNCHANGED faults
  BY <1>1, <1>2, <1>3, QuitKeeps DEF IInv, TypeOK
<1>4. CASE /\ \/ found' = v3c /\ UNCHANGED <<missed, faults>>
              \/ \E r \in {x \in Resources : v3c[x] # 0} :
                    /\ found' = [v3c EXCEPT ![r] = 0]
                    /\ missed' = missed \cup {r}
                    /\ Fault
           /\ Goto("freeze")
           /\ UNCHANGED <<opts, plan, tx, todo, taking, launches>>
  <2>1. /\ found' \in [Resources -> Ids] /\ missed' \subseteq Resources
        /\ missed \subseteq missed'
        /\ faults' \in 0 .. MaxFaults
        /\ faults' = 0 => faults = 0
        /\ \A r \in Resources : found'[r] = v3c[r] \/ r \in missed'
    BY <1>1, <1>4, MigrationAssumption DEF IInv, TypeOK, Fault, Ids
  <2>2. TypeOK'
    BY <1>1, <1>2, <1>4, <2>1 DEF IInv, TypeOK, v3, cgo, Goto, Steps
  <2>3. Position' /\ Inserting' /\ Committed'
    BY <1>1, <1>2, <1>4 DEF IInv, Goto, Position, Inserting, Committed, Planning, Adopting
  <2>4. HandOffBacked' /\ OncePerPort'
    BY <1>1, <1>2 DEF IInv, HandOffBacked, OncePerPort, PlanRows, v3, cgo
  <2>5. (deploys = 0 => Quiet)'
    BY <1>1, <1>2, <1>4, <2>1
    DEF IInv, Quiet, Goto, Covers, Seen, WipeLeavesNothing, Planning, Adopting, v3
  <2>. QED
    BY <2>2, <2>3, <2>4, <2>5 DEF IInv
<1>. QED
  BY <1>1, <1>3, <1>4 DEF Discover

LEMMA FreezeStep == IInv /\ Freeze => IInv'
<1>1. SUFFICES ASSUME IInv, Freeze PROVE IInv'
  OBVIOUS
<1>2. /\ faults' \in 0 .. MaxFaults /\ (faults' = 0 => faults = 0)
      /\ coolify' = coolify \/ coolify' = "stopped"
  BY <1>1, MigrationAssumption DEF IInv, TypeOK, Freeze, Fault
<1>3. TypeOK'
  BY <1>1, <1>2 DEF IInv, TypeOK, Freeze, cgo, memory, Goto, Steps
<1>4. Position' /\ Inserting' /\ Committed'
  BY <1>1 DEF IInv, Freeze, memory, cgo, Goto, Position, Inserting, Committed, Planning, Adopting
<1>5. HandOffBacked' /\ OncePerPort'
  BY <1>1 DEF IInv, Freeze, HandOffBacked, OncePerPort, PlanRows, cgo
<1>6. (deploys = 0 => Quiet)'
  BY <1>1, <1>2
  DEF IInv, Quiet, Freeze, memory, Goto, Covers, Seen, WipeLeavesNothing, Planning, Adopting
<1>. QED
  BY <1>3, <1>4, <1>5, <1>6 DEF IInv

LEMMA ExtractStep == IInv /\ Extract => IInv'
<1>1. SUFFICES ASSUME IInv, Extract PROVE IInv'
  OBVIOUS
<1>2. /\ pc = "extract" /\ UNCHANGED <<v3, cgo, stateFile, faults>> /\ taking = {}
      /\ registry \subseteq Resources
  BY <1>1 DEF Extract, IInv, Position, TypeOK
<1>3. CASE Quit
  BY <1>1, <1>2, <1>3, QuitKeeps DEF IInv, TypeOK
<1>4. ASSUME NEW read \in SUBSET Resources, plan' = PlanFor(read), Goto("plan"),
             UNCHANGED <<opts, found, tx, todo, taking, launches, missed>>
      PROVE  IInv'
  <2>1. plan' \in Plan
    BY <1>1, <1>2, <1>4, PlanForIsPlan DEF IInv
  <2>2. TypeOK'
    BY <1>1, <1>2, <1>4, <2>1 DEF IInv, TypeOK, v3, cgo, Goto, Steps
  <2>3. Position' /\ Inserting' /\ Committed'
    BY <1>1, <1>2, <1>4, <2>1
    DEF IInv, Goto, Position, Inserting, Committed, Planning, Adopting
  <2>4. HandOffBacked' /\ OncePerPort'
    BY <1>1, <1>2 DEF IInv, HandOffBacked, OncePerPort, PlanRows, v3, cgo
  <2>5. (deploys = 0 => Quiet)'
    <3>1. SUFFICES ASSUME deploys = 0 PROVE Quiet'
      BY <1>2 DEF v3
    <3>2. \A r \in Resources : Seen(r) => found[r] = v3c[r] /\ v3c[r] # 0
      BY <1>1, <1>2, <3>1 DEF IInv, Quiet, Seen
    <3>3. Covers(plan)'
      BY <1>2, <1>4, <3>2 DEF Covers, Seen, PlanFor, v3
    <3>. QED
      BY <1>1, <1>2, <1>4, <3>1, <3>3
      DEF IInv, Quiet, Goto, Covers, Seen, WipeLeavesNothing, Planning, Adopting, v3
  <2>. QED
    BY <2>2, <2>3, <2>4, <2>5 DEF IInv
<1>5. PICK read \in SUBSET Resources :
         \/ Quit
         \/ /\ plan' = PlanFor(read) /\ Goto("plan")
            /\ UNCHANGED <<opts, found, tx, todo, taking, launches, missed>>
  BY <1>1, <1>2 DEF Extract
<1>. QED
  BY <1>3, <1>4, <1>5

LEMMA CheckPlanStep == IInv /\ CheckPlan => IInv'
<1>1. SUFFICES ASSUME IInv, CheckPlan PROVE IInv'
  OBVIOUS
<1>2. pc = "plan" /\ UNCHANGED <<v3, cgo, stateFile, faults>> /\ taking = {}
  BY <1>1 DEF CheckPlan, IInv, Position
<1>3. CASE Quit
  BY <1>1, <1>2, <1>3, QuitKeeps DEF IInv, TypeOK
<1>4. CASE ~PortClash(PlanRows(plan)) /\ Goto("insert") /\ UNCHANGED memory
  <2>1. TypeOK'
    BY <1>1, <1>2, <1>4 DEF IInv, TypeOK, memory, v3, cgo, Goto, Steps
  <2>2. Position' /\ Committed'
    BY <1>1, <1>2, <1>4 DEF IInv, memory, Goto, Position, Committed, Planning, Adopting
  <2>3. Inserting'
    BY <1>1, <1>2, <1>4
    DEF IInv, Position, Inserting, memory, v3, cgo, PlanRows, PortClash, TakenTwice,
        AlreadyUsed, UsedPorts
  <2>4. HandOffBacked' /\ OncePerPort'
    BY <1>1, <1>2 DEF IInv, HandOffBacked, OncePerPort, PlanRows, v3, cgo
  <2>5. (deploys = 0 => Quiet)'
    BY <1>1, <1>2, <1>4
    DEF IInv, Quiet, memory, Goto, Covers, Seen, WipeLeavesNothing, Planning, Adopting, v3
  <2>. QED
    BY <2>1, <2>2, <2>3, <2>4, <2>5 DEF IInv
<1>. QED
  BY <1>1, <1>3, <1>4 DEF CheckPlan

LEMMA InsertStep == IInv /\ Insert => IInv'
<1>1. SUFFICES ASSUME IInv, Insert PROVE IInv'
  OBVIOUS
<1>2. PICK x \in PlanRows(plan) : tx' = tx \cup {x}
  BY <1>1 DEF Insert
<1>3. /\ pc = "insert" /\ plan \in Plan
      /\ UNCHANGED <<v3, cgo, stateFile, pc, opts, found, plan, todo, taking>>
      /\ UNCHANGED <<launches, missed, faults>>
  BY <1>1 DEF Insert, IInv, Position, Planning
<1>4. PlanRows(plan) \subseteq Row
  BY <1>1, <1>3, RowsOfPlan DEF IInv
<1>5. TypeOK'
  BY <1>1, <1>2, <1>3, <1>4 DEF IInv, TypeOK, v3, cgo
<1>6. Position' /\ Committed' /\ HandOffBacked' /\ OncePerPort'
  BY <1>1, <1>3 DEF IInv, Position, Committed, HandOffBacked, OncePerPort, PlanRows, v3, cgo,
                    Adopting
<1>7. Inserting'
  BY <1>1, <1>2, <1>3
  DEF IInv, Inserting, v3, cgo, PlanRows, PortClash, TakenTwice, AlreadyUsed, UsedPorts
<1>8. (deploys = 0 => Quiet)'
  BY <1>1, <1>3 DEF IInv, Quiet, Covers, Seen, WipeLeavesNothing, v3, cgo
<1>. QED
  BY <1>5, <1>6, <1>7, <1>8 DEF IInv

(* What is left to take over when a takeover begins.                       *)
LEMMA ToTakeOver ==
    ASSUME TypeOK, NEW p \in Plan, Covers(p)
    PROVE  \A r \in Resources : Seen(r) =>
              r \in p.orphans \cup {q \in p.res : p.claim[q] # 0}
BY DEF Covers, Seen

LEMMA CommitStep == IInv /\ Commit => IInv'
<1>1. SUFFICES ASSUME IInv, Commit PROVE IInv'
  OBVIOUS
<1>2. /\ pc = "insert" /\ plan \in Plan /\ taking = {}
      /\ tx = PlanRows(plan) /\ tx' = {} /\ rows' = rows \cup PlanRows(plan)
      /\ UNCHANGED <<v3, newc, stateFile, opts, found, plan, taking, launches, missed, faults>>
      /\ ~PortClash(PlanRows(plan))
      /\ launches # 0
  BY <1>1 DEF Commit, IInv, Position, Planning, Inserting
<1>3. \/ pc' = "takeover" /\ todo' = {r \in plan.res : plan.claim[r] # 0}
      \/ pc' = "save" /\ todo' = todo
  BY <1>1 DEF Commit, Goto
<1>4. PlanRows(plan) \subseteq Row /\ plan.res \subseteq Resources
  BY <1>1, <1>2, RowsOfPlan DEF IInv, Plan
<1>5. TypeOK'
  BY <1>1, <1>2, <1>3, <1>4 DEF IInv, TypeOK, v3, Steps
<1>6. Position' /\ Inserting'
  BY <1>1, <1>2, <1>3 DEF IInv, Position, Inserting, Adopting, Planning
<1>7. PlanRows(plan)' = PlanRows(plan)
  BY <1>2 DEF PlanRows, v3
<1>8. Committed'
  BY <1>2, <1>7 DEF Committed
<1>9. HandOffBacked'
  BY <1>1, <1>2 DEF IInv, HandOffBacked, PlanRows, v3
<1>10. OncePerPort'
  BY <1>1, <1>2 DEF IInv, OncePerPort, PortClash, TakenTwice, AlreadyUsed, UsedPorts
<1>11. (deploys = 0 => Quiet)'
  <2>1. SUFFICES ASSUME deploys = 0 PROVE Quiet'
    BY <1>2 DEF v3
  <2>2. Covers(plan) /\ Covers(plan)'
    BY <1>1, <1>2, <2>1 DEF IInv, Quiet, Planning, Covers, Seen, v3
  <2>3. \A r \in Resources : Seen(r)' =>
           r \in plan.orphans \cup {q \in plan.res : plan.claim[q] # 0}
    BY <1>1, <1>2, <2>2, ToTakeOver DEF IInv, Seen, v3
  <2>. QED
    BY <1>1, <1>2, <1>3, <2>1, <2>2, <2>3
    DEF IInv, Quiet, Covers, Seen, WipeLeavesNothing, Planning, Adopting, v3
<1>. QED
  BY <1>5, <1>6, <1>8, <1>9, <1>10, <1>11 DEF IInv

LEMMA SaveStep == IInv /\ Save => IInv'
<1>1. SUFFICES ASSUME IInv, Save PROVE IInv'
  OBVIOUS
<1>2. /\ pc = "save" /\ plan \in Plan /\ taking = {} /\ stateFile' = plan
      /\ Quit /\ UNCHANGED <<v3, cgo, faults>>
  BY <1>1 DEF Save, IInv, Position, Planning
<1>3. TypeOK'
  BY <1>1, <1>2, MigrationAssumption
  DEF IInv, TypeOK, Quit, Goto, v3, cgo, NothingFound, NoOpts, Phases, Steps, Ids
<1>4. Position' /\ Inserting' /\ Committed'
  BY <1>2 DEF Quit, Goto, Position, Inserting, Committed, Planning, Adopting
<1>5. HandOffBacked' /\ OncePerPort'
  BY <1>1, <1>2 DEF IInv, Committed, HandOffBacked, OncePerPort, PlanRows, v3, cgo
<1>6. (deploys = 0 => Quiet)'
  BY <1>1, <1>2
  DEF IInv, Quiet, Quit, Goto, Covers, Seen, WipeLeavesNothing, Planning, Adopting, v3
<1>. QED
  BY <1>3, <1>4, <1>5, <1>6 DEF IInv

LEMMA LoadStep == IInv /\ Load => IInv'
<1>1. SUFFICES ASSUME IInv, Load PROVE IInv'
  OBVIOUS
<1>2. /\ pc = "load" /\ taking = {} /\ tx = {} /\ launches # 0
      /\ UNCHANGED <<v3, cgo, stateFile, faults>>
  BY <1>1 DEF Load, IInv, Position
<1>3. CASE Quit
  BY <1>1, <1>2, <1>3, QuitKeeps DEF IInv, TypeOK
<1>4. CASE /\ stateFile # NoPlan /\ plan' = stateFile
           /\ todo' = {r \in stateFile.res : stateFile.claim[r] # 0}
           /\ Goto("takeover")
           /\ UNCHANGED <<opts, found, tx, taking, launches, missed>>
  <2>1. stateFile \in Plan /\ stateFile.res \subseteq Resources
    BY <1>1, <1>4 DEF IInv, TypeOK, Plan
  <2>2. TypeOK'
    BY <1>1, <1>2, <1>4, <2>1 DEF IInv, TypeOK, v3, cgo, Goto, Steps
  <2>3. Position' /\ Inserting'
    BY <1>1, <1>2, <1>4, <2>1 DEF Position, Inserting, Goto, Planning, Adopting
  <2>4. Committed' /\ HandOffBacked' /\ OncePerPort'
    BY <1>1, <1>2, <1>4 DEF IInv, Committed, HandOffBacked, OncePerPort, PlanRows, v3, cgo
  <2>5. (deploys = 0 => Quiet)'
    <3>1. SUFFICES ASSUME deploys = 0 PROVE Quiet'
      BY <1>2 DEF v3
    <3>2. Covers(stateFile) /\ Covers(stateFile)' /\ Covers(plan)'
      BY <1>1, <1>2, <1>4, <3>1 DEF IInv, Quiet, Covers, Seen, v3
    <3>3. \A r \in Resources : Seen(r)' => r \in plan'.orphans \cup todo'
      BY <1>1, <1>2, <1>4, <2>1, <3>2, ToTakeOver DEF IInv, Seen, v3
    <3>. QED
      BY <1>1, <1>2, <1>4, <3>1, <3>2, <3>3
      DEF IInv, Quiet, Goto, Seen, WipeLeavesNothing, Adopting, v3
  <2>. QED
    BY <2>2, <2>3, <2>4, <2>5 DEF IInv
<1>. QED
  BY <1>1, <1>3, <1>4 DEF Load

LEMMA RemoveOldStep ==
    ASSUME IInv, NEW r \in Resources, RemoveOld(r)
    PROVE  IInv'
<1>1. /\ pc = "takeover" /\ plan \in Plan /\ tx = {} /\ taking = {} /\ launches # 0
      /\ r \in todo /\ todo \subseteq plan.res /\ todo' = todo \ {r} /\ taking' = {r}
      /\ pc' = "create"
      /\ UNCHANGED <<port, coolify, registry, ever, deploys, cgo, stateFile, opts, found,
                     plan, tx, launches, missed, faults>>
  BY DEF RemoveOld, Goto, IInv, Position, Planning, Adopting
<1>2. /\ v3c' \in [Resources -> Ids]
      /\ \A q \in Resources : v3c'[q] = IF q = r /\ v3c[r] = plan.claim[r] THEN 0 ELSE v3c[q]
  BY MigrationAssumption DEF RemoveOld, IInv, TypeOK, Ids
<1>3. TypeOK'
  BY <1>1, <1>2 DEF IInv, TypeOK, cgo, Steps
<1>4. Position' /\ Inserting'
  BY <1>1 DEF Position, Inserting, Planning, Adopting
<1>5. Committed' /\ HandOffBacked' /\ OncePerPort'
  BY <1>1 DEF IInv, Committed, HandOffBacked, OncePerPort, PlanRows, Adopting, cgo
<1>6. (deploys = 0 => Quiet)'
  <2>1. SUFFICES ASSUME deploys = 0 PROVE Quiet'
    BY <1>1
  <2>2. \A q \in Resources : Seen(q)' => Seen(q) /\ v3c'[q] = v3c[q]
    BY <1>1, <1>2 DEF Seen
  <2>3. Covers(plan) /\ Covers(plan)' /\ (stateFile # NoPlan => Covers(stateFile)')
    BY <1>1, <2>1, <2>2 DEF IInv, Quiet, Covers, Planning
  <2>4. ASSUME NEW q \in Resources, Seen(q)' PROVE q \in plan'.orphans \cup todo'
    <3>1. Seen(q) /\ v3c'[q] = v3c[q] /\ v3c[q] # 0
      BY <2>2, <2>4 DEF Seen
    <3>2. q \in plan.orphans \cup todo
      BY <1>1, <2>1, <3>1 DEF IInv, Quiet, Adopting
    <3>3. CASE q = r
      BY <1>1, <1>2, <2>3, <3>1, <3>3 DEF Covers
    <3>. QED
      BY <1>1, <3>2, <3>3
  <2>5. WipeLeavesNothing'
    BY <1>1, <1>2, <2>1 DEF IInv, Quiet, WipeLeavesNothing
  <2>. QED
    BY <1>1, <2>3, <2>4, <2>5 DEF Quiet
<1>. QED
  BY <1>3, <1>4, <1>5, <1>6 DEF IInv

LEMMA CreateNewStep == IInv /\ CreateNew => IInv'
<1>1. SUFFICES ASSUME IInv, CreateNew PROVE IInv'
  OBVIOUS
<1>. DEFINE fresh == {x \in PlanRows(plan) : x.res \in taking}
<1>2. /\ pc = "create" /\ plan \in Plan /\ taking \subseteq plan.res /\ todo \subseteq plan.res
      /\ tx = {} /\ launches # 0
      /\ UNCHANGED <<v3, rows, stateFile, faults>>
  BY <1>1 DEF CreateNew, IInv, Position, Planning, Adopting
<1>3. fresh \subseteq Row /\ \A r \in taking : \E x \in fresh : x.res = r
  BY <1>1, <1>2, RowsOfPlan DEF IInv
<1>4. CASE fresh \subseteq newc /\ Quit /\ UNCHANGED newc
  BY <1>1, <1>2, <1>3, <1>4, QuitKeeps DEF IInv, TypeOK, cgo
<1>5. CASE /\ newc' = newc \cup fresh /\ taking' = {} /\ Goto("takeover")
           /\ UNCHANGED <<opts, found, plan, tx, todo, launches, missed>>
  <2>1. TypeOK'
    <3>. HIDE DEF fresh
    <3>. QED
      BY <1>1, <1>2, <1>3, <1>5 DEF IInv, TypeOK, v3, Goto, Steps
  <2>2. Position' /\ Inserting'
    BY <1>1, <1>2, <1>5 DEF Position, Inserting, Goto, Planning, Adopting
  <2>3. Committed' /\ HandOffBacked' /\ OncePerPort'
    BY <1>1, <1>2, <1>5 DEF IInv, Committed, HandOffBacked, OncePerPort, PlanRows, Adopting, v3
  <2>4. (deploys = 0 => Quiet)'
    BY <1>1, <1>2, <1>5
    DEF IInv, Quiet, Goto, Covers, Seen, WipeLeavesNothing, Planning, Adopting, v3
  <2>. QED
    BY <2>1, <2>2, <2>3, <2>4 DEF IInv
<1>. QED
  BY <1>1, <1>4, <1>5 DEF CreateNew

LEMMA EndTakeoverStep == IInv /\ EndTakeover => IInv'
<1>1. SUFFICES ASSUME IInv, EndTakeover PROVE IInv'
  OBVIOUS
<1>2. TypeOK'
  BY <1>1 DEF IInv, EndTakeover, TypeOK, v3, cgo, memory, Goto, Steps
<1>3. Position' /\ Inserting'
  BY <1>1 DEF IInv, EndTakeover, Position, Inserting, memory, Goto, Planning, Adopting
<1>4. Committed' /\ HandOffBacked' /\ OncePerPort'
  BY <1>1 DEF IInv, EndTakeover, Committed, HandOffBacked, OncePerPort, PlanRows, Adopting,
              v3, cgo, memory
<1>5. (deploys = 0 => Quiet)'
  BY <1>1 DEF IInv, EndTakeover, Quiet, memory, Goto, Covers, Seen, WipeLeavesNothing,
              Planning, Adopting, v3
<1>. QED
  BY <1>2, <1>3, <1>4, <1>5 DEF IInv

LEMMA WipeStep == IInv /\ Wipe => IInv'
<1>1. SUFFICES ASSUME IInv, Wipe PROVE IInv'
  OBVIOUS
<1>2. /\ pc = "gate" /\ todo = {} /\ taking = {} /\ plan.orphans = {}
      /\ coolify' = "gone" /\ stateFile' \in {stateFile, NoPlan} /\ Quit
      /\ UNCHANGED <<port, registry, v3c, ever, deploys, cgo, faults>>
  BY <1>1 DEF Wipe, IInv, Position, Adopting
<1>3. TypeOK'
  BY <1>1, <1>2, MigrationAssumption
  DEF IInv, TypeOK, Quit, Goto, cgo, NothingFound, NoOpts, Phases, Steps, Ids
<1>4. Position' /\ Inserting' /\ Committed'
  BY <1>2 DEF Quit, Goto, Position, Inserting, Committed, Planning, Adopting
<1>5. HandOffBacked' /\ OncePerPort'
  BY <1>1, <1>2 DEF IInv, HandOffBacked, OncePerPort, PlanRows, cgo
<1>6. (deploys = 0 => Quiet)'
  <2>1. SUFFICES ASSUME deploys = 0 PROVE Quiet'
    BY <1>2
  <2>2. \A r \in Resources : v3c[r] = 0 \/ r \in missed
    BY <1>1, <1>2, <2>1 DEF IInv, Quiet, Seen, Adopting
  <2>. QED
    BY <1>1, <1>2, <2>1, <2>2
    DEF IInv, Quiet, Quit, Goto, Covers, Seen, WipeLeavesNothing, Planning, Adopting
<1>. QED
  BY <1>3, <1>4, <1>5, <1>6 DEF IInv

(* Every step preserves the invariant.                                     *)
LEMMA Step == IInv /\ [Next]_vars => IInv'
<1>1. SUFFICES ASSUME IInv, [Next]_vars PROVE IInv'
  OBVIOUS
<1>2. ASSUME NEW r \in Resources, V3Deploys(r) PROVE IInv'
  BY <1>1, <1>2, V3DeploysStep
<1>3. ASSUME NEW o \in [phase : Phases, dry : BOOLEAN, keep : BOOLEAN], Launch(o) PROVE IInv'
  BY <1>1, <1>3, LaunchStep
<1>4. CASE Discover \/ Freeze \/ Extract \/ CheckPlan
  BY <1>1, <1>4, DiscoverStep, FreezeStep, ExtractStep, CheckPlanStep
<1>5. CASE Insert \/ Commit \/ Save \/ Load
  BY <1>1, <1>5, InsertStep, CommitStep, SaveStep, LoadStep
<1>6. ASSUME NEW r \in Resources, RemoveOld(r) PROVE IInv'
  BY <1>1, <1>6, RemoveOldStep
<1>7. CASE CreateNew \/ EndTakeover \/ Wipe
  BY <1>1, <1>7, CreateNewStep, EndTakeoverStep, WipeStep
<1>8. CASE KeepV3
  <2>1. taking = {}
    BY <1>1, <1>8 DEF KeepV3, IInv, Position
  <2>. QED
    BY <1>1, <1>8, <2>1, QuitKeeps DEF KeepV3, IInv, TypeOK
<1>9. CASE Die
  <2>1. faults' \in 0 .. MaxFaults /\ faults' # 0
    BY <1>1, <1>9, MigrationAssumption DEF Die, Fault, IInv, TypeOK
  <2>. QED
    BY <1>1, <1>9, <2>1, QuitKeeps DEF Die
<1>10. CASE UNCHANGED vars
  BY <1>1, <1>10
  DEF vars, IInv, TypeOK, Position, Inserting, Committed, HandOffBacked, OncePerPort, Quiet,
      Covers, Seen, WipeLeavesNothing, PlanRows, PortClash, TakenTwice,
      AlreadyUsed, UsedPorts
<1>. QED
  BY <1>1, <1>2, <1>3, <1>4, <1>5, <1>6, <1>7, <1>8, <1>9, <1>10 DEF Next, Run

(* The inductive invariant holds throughout.                               *)
THEOREM Invariance == Spec => []IInv
  BY Initially, Step, PTL DEF Spec

-----------------------------------------------------------------------------
(* Every variable keeps its type, whatever the launches and the flags.     *)
THEOREM TypeCorrect == Spec => []TypeOK
<1>1. IInv => TypeOK
  BY DEF IInv
<1>. QED
  BY <1>1, Invariance, PTL

(* Over all launches a host port is bound by one row.                      *)
THEOREM PortsOnce == Spec => []OncePerPort
<1>1. IInv => OncePerPort
  BY DEF IInv
<1>. QED
  BY <1>1, Invariance, PTL

(* The hand-off file never promises rows that are not committed.           *)
THEOREM HandOffIsBacked == Spec => []HandOffBacked
<1>1. IInv => HandOffBacked
  BY DEF IInv
<1>. QED
  BY <1>1, Invariance, PTL

(* A wipe leaves no workload behind while v3 deploys nothing.              *)
THEOREM NothingLeft == Spec => []WipeLeavesNothingIfQuiet
<1>1. IInv => WipeLeavesNothingIfQuiet
  BY DEF IInv, Quiet, WipeLeavesNothingIfQuiet
<1>. QED
  BY <1>1, Invariance, PTL

-----------------------------------------------------------------------------
(* Faults and losses.                                                      *)
LInv ==
    /\ pc = "create" => \E r \in Resources : taking = {r}
    /\ OneLostPerFault

LEMMA Finite ==
    ASSUME NEW S \in SUBSET Resources
    PROVE  IsFiniteSet(S) /\ Cardinality(S) \in Nat
<1>1. 1 \in Int /\ NApps + NDBs \in Int
  BY MigrationAssumption
<1>2. IsFiniteSet(Resources)
  BY <1>1, FS_Interval DEF Resources
<1>. QED
  BY <1>2, FS_Subset, FS_CardinalityType

LEMMA LInitially == Init => LInv
<1>. SUFFICES ASSUME Init PROVE LInv
  OBVIOUS
<1>1. Lost \ taking = {}
  BY DEF Init, Lost
<1>. QED
  BY <1>1, FS_EmptySet DEF Init, LInv, OneLostPerFault

(* If nothing is lost that was not in hand, nothing is owed to a fault.    *)
LEMMA NoneLost ==
    ASSUME IInv, LInv, faults' \in Nat, faults =< faults',
           Lost' \ taking' \subseteq Lost \ taking
    PROVE  OneLostPerFault'
<1>1. Lost \ taking \in SUBSET Resources
  BY DEF IInv, TypeOK, Lost
<1>2. Cardinality(Lost' \ taking') =< Cardinality(Lost \ taking)
  BY <1>1, Finite, FS_Subset
<1>3. Cardinality(Lost' \ taking') \in Nat /\ Cardinality(Lost \ taking) \in Nat
  BY <1>1, Finite
<1>4. Cardinality(Lost \ taking) =< faults /\ faults \in Nat
  BY DEF IInv, TypeOK, LInv, OneLostPerFault
<1>. QED
  BY <1>2, <1>3, <1>4 DEF OneLostPerFault

(* Without a fault only the workload in hand can be without a successor.   *)
LEMMA NothingLost ==
    ASSUME TypeOK, OneLostPerFault, faults = 0
    PROVE  Lost \ taking = {}
<1>1. Lost \ taking \in SUBSET Resources
  BY DEF TypeOK, Lost
<1>2. Cardinality(Lost \ taking) = 0
  BY <1>1, Finite DEF OneLostPerFault
<1>. QED
  BY <1>1, <1>2, Finite, FS_EmptySet

LEMMA LStep ==
    ASSUME IInv, LInv, [Next]_vars
    PROVE  LInv'
<1>1. faults \in Nat /\ (faults' = faults \/ faults' = faults + 1)
  BY DEF IInv, TypeOK, Fault, Next, Run, V3Deploys, Launch, Discover, Freeze, Extract,
         CheckPlan, Insert, Commit, Save, Load, RemoveOld, CreateNew, EndTakeover, KeepV3,
         Wipe, Die, vars
<1>2. /\ pc \notin {"create"} => taking = {}
      /\ ever \subseteq Resources /\ v3c \in [Resources -> Ids]
  BY DEF IInv, TypeOK, Position
<1>3. (pc = "create" => \E r \in Resources : taking = {r})'
  BY DEF LInv, Next, Run, V3Deploys, Launch, Discover, Freeze, Extract, CheckPlan, Insert,
         Commit, Save, Load, RemoveOld, CreateNew, EndTakeover, KeepV3, Wipe, Die, Quit,
         Goto, memory, vars
<1>. SUFFICES OneLostPerFault'
  BY <1>3 DEF LInv
<1>4. CASE UNCHANGED <<ever, v3c, newc>> /\ taking = {}
  <2>1. Lost' \ taking' \subseteq Lost \ taking
    BY <1>4 DEF Lost
  <2>. QED
    BY <1>1, <2>1, NoneLost
<1>5. ASSUME NEW r \in Resources, V3Deploys(r)
      PROVE  OneLostPerFault'
  <2>1. v3c'[r] # 0 /\ \A q \in Resources \ {r} : v3c'[q] = v3c[q]
    BY <1>2, <1>5 DEF V3Deploys, IInv, TypeOK
  <2>2. Lost' \ taking' \subseteq Lost \ taking
    BY <1>2, <1>5, <2>1 DEF V3Deploys, Lost, cgo, memory
  <2>. QED
    BY <1>1, <2>2, NoneLost
<1>6. ASSUME NEW r \in Resources, RemoveOld(r)
      PROVE  OneLostPerFault'
  <2>1. taking = {} /\ taking' = {r} /\ UNCHANGED <<ever, newc>>
    BY <1>2, <1>6 DEF RemoveOld, cgo
  <2>2. \A q \in Resources \ {r} : v3c'[q] = v3c[q]
    BY <1>2, <1>6 DEF RemoveOld
  <2>3. Lost' \ taking' \subseteq Lost \ taking
    BY <1>2, <2>1, <2>2 DEF Lost
  <2>. QED
    BY <1>1, <2>3, NoneLost
<1>7. CASE CreateNew
  <2>1. PICK r \in Resources : taking = {r}
    BY <1>7 DEF LInv, CreateNew
  <2>2. plan \in Plan /\ r \in plan.res
    BY <1>7, <2>1 DEF CreateNew, IInv, Position, Planning
  <2>3. PICK s \in Row : s.res = r /\ {x \in PlanRows(plan) : x.res = r} = {s}
    BY <2>2, OneRow DEF IInv
  <2>4. s \in newc' /\ newc \subseteq newc' /\ taking' = {} /\ UNCHANGED <<ever, v3c>>
    BY <1>7, <2>1, <2>3 DEF CreateNew, Quit, v3
  <2>5. Lost' \ taking' \subseteq Lost \ taking
    BY <2>1, <2>3, <2>4 DEF Lost
  <2>. QED
    BY <1>1, <2>5, NoneLost
<1>8. CASE Die /\ pc = "create"
  <2>1. PICK r \in Resources : taking = {r}
    BY <1>8 DEF LInv
  <2>2. faults' = faults + 1 /\ taking' = {} /\ UNCHANGED <<ever, v3c, newc>>
    BY <1>8 DEF Die, Fault, Quit, v3, cgo
  <2>3. Lost' \ taking' \subseteq (Lost \ taking) \cup {r}
    BY <2>1, <2>2 DEF Lost
  <2>4. Lost \ taking \in SUBSET Resources /\ (Lost \ taking) \cup {r} \in SUBSET Resources
    BY <1>2 DEF Lost
  <2>5. /\ Cardinality(Lost' \ taking') =< Cardinality((Lost \ taking) \cup {r})
        /\ Cardinality(Lost' \ taking') \in Nat
    BY <2>3, <2>4, Finite, FS_Subset
  <2>6. Cardinality((Lost \ taking) \cup {r}) =< Cardinality(Lost \ taking) + 1
    BY <2>4, Finite, FS_AddElement
  <2>7. /\ Cardinality((Lost \ taking) \cup {r}) \in Nat
        /\ Cardinality(Lost \ taking) \in Nat
    BY <2>4, Finite
  <2>8. Cardinality(Lost \ taking) =< faults
    BY DEF LInv, OneLostPerFault
  <2>. QED
    BY <1>1, <2>2, <2>5, <2>6, <2>7, <2>8 DEF OneLostPerFault
<1>9. \/ UNCHANGED <<ever, v3c, newc>> /\ taking = {}
      \/ \E r \in Resources : V3Deploys(r) \/ RemoveOld(r)
      \/ CreateNew \/ (Die /\ pc = "create")
      \/ UNCHANGED vars
  BY <1>2
  DEF Next, Run, Launch, Discover, Freeze, Extract, CheckPlan, Insert, Commit, Save, Load,
      EndTakeover, KeepV3, Wipe, Die, v3, cgo, vars
<1>10. CASE UNCHANGED vars
  BY <1>10 DEF vars, LInv, OneLostPerFault, Lost
<1>. QED
  BY <1>4, <1>5, <1>6, <1>7, <1>8, <1>9, <1>10

(* Whatever the launches, however v3 deploys between them, a failing call  *)
(* or a death costs one workload at most.                                  *)
THEOREM LossesAreCounted == Spec => []OneLostPerFault
<1>1. LInv => OneLostPerFault
  BY DEF LInv
<1>. QED
  BY <1>1, LInitially, LStep, Invariance, PTL DEF Spec

(* No container is removed before its row is committed.                    *)
THEOREM RowsFirst == Spec => TakeoverAfterCommit
<1>1. IInv /\ [Next]_vars =>
        [\A r \in Resources : v3c[r] # 0 /\ v3c'[r] = 0 => \E x \in rows : x.res = r]_vars
  <2>. SUFFICES ASSUME IInv, Next, NEW r \in Resources, v3c[r] # 0, v3c'[r] = 0
                PROVE  \E x \in rows : x.res = r
    OBVIOUS
  <2>1. CASE RemoveOld(r)
    <3>1. plan \in Plan /\ r \in plan.res /\ PlanRows(plan) \subseteq rows
      BY <2>1 DEF RemoveOld, IInv, Position, Committed, Planning, Adopting
    <3>. QED
      BY <3>1, RowsOfPlan DEF IInv
  <2>2. ASSUME NEW q \in Resources, RemoveOld(q), q # r PROVE FALSE
    BY <2>2 DEF RemoveOld, IInv, TypeOK
  <2>3. ASSUME NEW q \in Resources, V3Deploys(q) PROVE FALSE
    BY <2>3, MigrationAssumption DEF V3Deploys, IInv, TypeOK
  <2>4. CASE v3c' = v3c
    BY <2>4
  <2>. QED
    BY <2>1, <2>2, <2>3, <2>4
    DEF Next, Run, Launch, Discover, Freeze, Extract, CheckPlan, Insert, Commit, Save, Load,
        CreateNew, EndTakeover, KeepV3, Wipe, Die, v3
<1>. QED
  BY <1>1, Invariance, PTL DEF Spec, TakeoverAfterCommit

(* Postgres gets all rows of a plan at once, or none.                      *)
THEOREM AllRowsOrNone == Spec => AllOrNothing
<1>1. IInv /\ [Next]_vars => [rows' # rows => PlanRows(plan) \subseteq rows']_vars
  <2>. SUFFICES ASSUME Next, rows' # rows PROVE PlanRows(plan) \subseteq rows'
    OBVIOUS
  <2>1. Commit
    BY DEF Next, Run, V3Deploys, Launch, Discover, Freeze, Extract, CheckPlan, Insert, Save,
           Load, RemoveOld, CreateNew, EndTakeover, KeepV3, Wipe, Die, cgo
  <2>. QED
    BY <2>1 DEF Commit
<1>. QED
  BY <1>1, Invariance, PTL DEF Spec, AllOrNothing

-----------------------------------------------------------------------------
(* Succession.  While nothing fails and v3 deploys nothing, whatever a     *)
(* launch or the file believes about a container is either still true or   *)
(* was true of a container that has been removed since.                    *)
Truthful(ids) ==
    \A r \in Resources : ids[r] # 0 => r \in ever /\ v3c[r] \in {0, ids[r]}

Orderly ==
    /\ missed = {}
    /\ unremoved \subseteq ever
    /\ Truthful(found)
    /\ pc \in Planning => Truthful(plan.claim)
    /\ stateFile # NoPlan => Truthful(stateFile.claim)
    /\ pc = "freeze" => coolify # "gone"
    /\ \A r \in todo : pc \in Adopting /\ plan.claim[r] # 0
    /\ pc = "create" => \E r \in plan.res : taking = {r} /\ r \in ever /\ v3c[r] = 0

OInv == faults = 0 /\ deploys = 0 => Orderly

LEMMA OInitially == Init => OInv
  BY DEF Init, OInv, Orderly, Truthful, unremoved, NothingFound, Planning, Adopting

(* A step that meets no fault and no deployment now met none before.       *)
LEMMA CalmBefore ==
    ASSUME IInv, [Next]_vars, faults' = 0, deploys' = 0
    PROVE  faults = 0 /\ deploys = 0 /\ ~Fault /\ \A r \in Resources : ~V3Deploys(r)
<1>1. ~Fault /\ \A r \in Resources : ~V3Deploys(r)
  BY DEF IInv, TypeOK, Fault, V3Deploys
<1>. QED
  BY <1>1
  DEF Next, Run, Launch, Discover, Freeze, Extract, CheckPlan, Insert, Commit, Save, Load,
      RemoveOld, CreateNew, EndTakeover, KeepV3, Wipe, Die, Quit, v3, memory, vars

(* What is known stays truthful: containers only disappear.                *)
LEMMA TruthKept ==
    ASSUME NEW ids, Truthful(ids), ever' = ever,
           \A r \in Resources : v3c'[r] \in {0, v3c[r]}
    PROVE  Truthful(ids)'
  BY DEF Truthful

LEMMA OQuit ==
    ASSUME Orderly, Quit, UNCHANGED <<v3, stateFile>>
    PROVE  Orderly'
  BY DEF Orderly, Truthful, unremoved, Quit, Goto, v3, NothingFound, Planning, Adopting

LEMMA OStep ==
    ASSUME IInv, OInv, [Next]_vars
    PROVE  OInv'
<1>. SUFFICES ASSUME faults' = 0, deploys' = 0
              PROVE  Orderly'
  BY DEF OInv
<1>1. Orderly /\ ~Fault /\ \A r \in Resources : ~V3Deploys(r)
  BY CalmBefore DEF OInv
<1>2. ASSUME Quit, UNCHANGED <<v3, stateFile>> PROVE Orderly'
  BY <1>1, <1>2, OQuit
<1>3. ASSUME NEW o \in [phase : Phases, dry : BOOLEAN, keep : BOOLEAN], Launch(o)
      PROVE  Orderly'
  BY <1>1, <1>3
  DEF Launch, Goto, Orderly, Truthful, unremoved, v3, Planning, Adopting
<1>4. CASE Discover
  <2>1. CASE found' = v3c /\ UNCHANGED missed /\ pc' = "freeze"
    BY <1>1, <1>4, <2>1
    DEF Discover, Quit, Goto, Orderly, Truthful, unremoved, v3, Planning, Adopting
  <2>. QED
    BY <1>1, <1>2, <1>4, <2>1 DEF Discover, Goto
<1>5. CASE Freeze
  BY <1>1, <1>5 DEF Freeze, Goto, Orderly, Truthful, unremoved, memory, Planning, Adopting
<1>6. CASE Extract
  <2>1. ASSUME NEW read \in SUBSET Resources, plan' = PlanFor(read),
               UNCHANGED <<todo, found, missed>>, pc' = "plan"
        PROVE  Orderly'
    <3>1. Truthful(PlanFor(read).claim)
      BY <1>1 DEF Orderly, Truthful, PlanFor
    <3>2. todo = {}
      BY <1>1, <1>6 DEF Extract, Orderly, Adopting
    <3>. QED
      BY <1>1, <1>6, <2>1, <3>1, <3>2
      DEF Extract, Orderly, Truthful, unremoved, v3, Planning, Adopting
  <2>2. registry \in SUBSET Resources
    BY DEF IInv, TypeOK
  <2>. QED
    BY <1>2, <1>6, <2>1, <2>2 DEF Extract, Goto
<1>7. CASE CheckPlan
  <2>1. CASE pc' = "insert" /\ UNCHANGED memory
    BY <1>1, <1>7, <2>1
    DEF CheckPlan, Orderly, Truthful, unremoved, v3, memory, Planning, Adopting
  <2>. QED
    BY <1>2, <1>7, <2>1 DEF CheckPlan, Goto
<1>8. CASE Insert \/ EndTakeover
  BY <1>1, <1>8
  DEF Insert, EndTakeover, Goto, Orderly, Truthful, unremoved, v3, memory, Planning, Adopting
<1>9. CASE Commit
  <2>1. \A r \in todo' : plan.claim[r] # 0
    BY <1>1, <1>9 DEF Commit, Orderly
  <2>. QED
    BY <1>1, <1>9, <2>1 DEF Commit, Goto, Orderly, Truthful, unremoved, v3, Planning, Adopting
<1>10. CASE Save
  BY <1>1, <1>10
  DEF Save, Quit, Goto, Orderly, Truthful, unremoved, v3, NothingFound, Planning, Adopting
<1>11. CASE Load
  <2>1. CASE /\ stateFile # NoPlan
             /\ plan' = stateFile
             /\ todo' = {r \in stateFile.res : stateFile.claim[r] # 0}
             /\ pc' = "takeover" /\ UNCHANGED <<found, missed>>
    BY <1>1, <1>11, <2>1 DEF Load, Orderly, Truthful, unremoved, v3, Planning, Adopting
  <2>. QED
    BY <1>2, <1>11, <2>1 DEF Load, Goto
<1>12. ASSUME NEW r \in Resources, RemoveOld(r) PROVE Orderly'
  <2>1. \A q \in Resources : v3c'[q] \in {0, v3c[q]}
    BY <1>12 DEF RemoveOld, IInv, TypeOK
  <2>2. r \in plan.res /\ r \in ever /\ v3c'[r] = 0
    BY <1>1, <1>12
    DEF RemoveOld, IInv, TypeOK, Position, Adopting, Planning, Orderly, Truthful
  <2>3. /\ Truthful(found)' /\ Truthful(plan.claim)'
        /\ (stateFile # NoPlan => Truthful(stateFile.claim))'
    BY <1>1, <1>12, <2>1 DEF RemoveOld, Orderly, Truthful, Planning, Adopting
  <2>4. unremoved' \subseteq ever'
    BY <1>1, <1>12, <2>1 DEF RemoveOld, Orderly, unremoved
  <2>. QED
    BY <1>1, <1>12, <2>2, <2>3, <2>4 DEF RemoveOld, Goto, Orderly, Adopting
<1>13. CASE CreateNew
  <2>1. CASE pc' = "takeover" /\ UNCHANGED <<found, plan, todo, missed>>
    BY <1>1, <1>13, <2>1 DEF CreateNew, Orderly, Truthful, unremoved, v3, Planning, Adopting
  <2>. QED
    BY <1>2, <1>13, <2>1 DEF CreateNew, Goto
<1>14. CASE KeepV3
  BY <1>2, <1>14 DEF KeepV3
<1>15. CASE Wipe
  BY <1>1, <1>15
  DEF Wipe, Quit, Goto, Orderly, Truthful, unremoved, NothingFound, Planning, Adopting
<1>16. CASE UNCHANGED vars
  BY <1>1, <1>16 DEF vars, Orderly, Truthful, unremoved
<1>17. ~Die
  BY <1>1 DEF Die
<1>. QED
  BY <1>1, <1>3, <1>4, <1>5, <1>6, <1>7, <1>8, <1>9, <1>10, <1>11, <1>12, <1>13, <1>14,
     <1>15, <1>16, <1>17 DEF Next, Run

LEMMA CalmStep ==
    ASSUME IInv, OInv, OneLostPerFault, [Next]_vars, faults' = 0, deploys' = 0
    PROVE  [Heirs!SuccessionNext]_(Heirs!successionVars)
<1>. DEFINE Gone == coolify = "gone"
<1>1. /\ Orderly /\ Quiet /\ Lost \ taking = {}
      /\ ~Fault /\ \A r \in Resources : ~V3Deploys(r)
  BY CalmBefore, NothingLost DEF OInv, IInv
<1>2. ever' = ever
  BY <1>1
  DEF Next, Run, Launch, Discover, Freeze, Extract, CheckPlan, Insert, Commit, Save, Load,
      RemoveOld, CreateNew, EndTakeover, KeepV3, Wipe, Die, v3, vars
<1>3. ASSUME unremoved' = unremoved, newc' = newc, Gone' = Gone
      PROVE  UNCHANGED Heirs!successionVars
  BY <1>2, <1>3 DEF Heirs!successionVars
<1>4. CASE UNCHANGED <<v3c, newc, coolify>>
  BY <1>3, <1>4 DEF unremoved
<1>5. CASE Freeze
  <2>1. Gone' = Gone
    BY <1>1, <1>5 DEF Freeze, Orderly
  <2>. QED
    BY <1>3, <1>5, <2>1 DEF Freeze, unremoved, cgo
<1>6. ASSUME NEW r \in Resources, RemoveOld(r)
      PROVE  [Heirs!SuccessionNext]_(Heirs!successionVars)
  <2>1. newc' = newc /\ Gone' = Gone
    BY <1>6 DEF RemoveOld, cgo
  <2>2. plan \in Plan /\ r \in plan.res
    BY <1>6 DEF RemoveOld, IInv, Position, Planning, Adopting
  <2>3. CASE v3c[r] = 0
    BY <1>3, <1>6, <2>1, <2>3 DEF RemoveOld, IInv, TypeOK, unremoved
  <2>4. CASE v3c[r] # 0
    <3>1. v3c[r] = plan.claim[r] /\ r \in unremoved
      BY <1>1, <1>6, <2>4 DEF RemoveOld, Orderly, Truthful, Planning, unremoved
    <3>2. unremoved' = unremoved \ {r}
      BY <1>6, <3>1 DEF RemoveOld, IInv, TypeOK, unremoved
    <3>3. \A q \in ever \ unremoved : \E x \in newc : x.res = q
      BY <1>1, <1>6 DEF RemoveOld, Lost, IInv, TypeOK, Position, unremoved
    <3>4. \E s \in Row : s.res = r
      BY <2>2, OneRow DEF IInv
    <3>5. newc \subseteq Row
      BY DEF IInv, TypeOK
    <3>6. Heirs!Retire(r)
      BY <1>2, <2>1, <3>1, <3>2, <3>3, <3>4, <3>5
      DEF Heirs!Retire, Heirs!Retired, Heirs!Vacant
    <3>. QED
      BY <3>1, <3>6 DEF Heirs!SuccessionNext
  <2>. QED
    BY <2>3, <2>4
<1>7. CASE CreateNew
  <2>. DEFINE fresh == {x \in PlanRows(plan) : x.res \in taking}
  <2>1. unremoved' = unremoved /\ Gone' = Gone
    BY <1>7 DEF CreateNew, unremoved, v3
  <2>2. PICK r \in plan.res : taking = {r} /\ r \in ever /\ v3c[r] = 0
    BY <1>1, <1>7 DEF CreateNew, Orderly
  <2>3. PICK s \in Row : s.res = r /\ {x \in PlanRows(plan) : x.res = r} = {s}
    BY <1>7, OneRow DEF CreateNew, IInv, Position, Planning, Adopting
  <2>4. fresh = {s}
    BY <2>2, <2>3
  <2>5. CASE fresh \subseteq newc
    BY <1>3, <1>7, <2>1, <2>5 DEF CreateNew
  <2>6. CASE ~(fresh \subseteq newc)
    <3>1. newc' = newc \cup {s} /\ s \notin newc
      BY <1>7, <2>4, <2>6 DEF CreateNew
    <3>2. Heirs!Seat(s)
      BY <1>2, <2>1, <2>2, <2>3, <3>1 DEF Heirs!Seat, Heirs!Retired, unremoved
    <3>. QED
      BY <3>2 DEF Heirs!SuccessionNext
  <2>. QED
    BY <2>5, <2>6
<1>8. CASE Wipe
  <2>1. unremoved' = unremoved /\ newc' = newc /\ Gone'
    BY <1>8 DEF Wipe, unremoved, cgo
  <2>2. unremoved = {}
    BY <1>1, <1>8
    DEF Wipe, Quiet, Orderly, IInv, Position, Seen, Adopting, unremoved
  <2>3. \A r \in ever : \E x \in newc : x.res = r
    BY <1>1, <1>8, <2>2 DEF Wipe, Lost, IInv, TypeOK, Position, unremoved
  <2>4. newc \subseteq Row
    BY DEF IInv, TypeOK
  <2>5. Heirs!Dissolve
    BY <1>2, <2>1, <2>2, <2>3, <2>4 DEF Heirs!Dissolve, Heirs!Vacant
  <2>. QED
    BY <2>5 DEF Heirs!SuccessionNext
<1>9. \/ UNCHANGED <<v3c, newc, coolify>>
      \/ Freeze \/ (\E r \in Resources : RemoveOld(r)) \/ CreateNew \/ Wipe
  BY <1>1
  DEF Next, Run, Launch, Discover, Extract, CheckPlan, Insert, Commit, Save, Load,
      EndTakeover, KeepV3, Die, v3, cgo, vars
<1>. QED
  BY <1>4, <1>5, <1>6, <1>7, <1>8, <1>9

(* Any sequence of launches, over any rows and files of earlier ones,      *)
(* implements the succession of containers up to the first fault or        *)
(* deployment.                                                             *)
THEOREM CalmLaunchesSucceed == Spec => CalmSuccession
<1>1. Init => Heirs!SuccessionInit
  BY DEF Init, Heirs!SuccessionInit, unremoved
<1>2. IInv /\ OInv /\ OneLostPerFault /\ [Next]_vars =>
        [faults' = 0 /\ deploys' = 0 =>
            [Heirs!SuccessionNext]_(Heirs!successionVars)]_vars
  BY CalmStep
<1>3. IInv /\ OInv /\ [Next]_vars => OInv'
  BY OStep
<1>. QED
  BY <1>1, <1>2, <1>3, OInitially, Invariance, LossesAreCounted, PTL DEF Spec, CalmSuccession

(* After a wipe without a fault nothing is lost, nor ever will be.         *)
NoneLostInTheEnd == coolify = "gone" /\ faults = 0 /\ deploys = 0 => Lost = {}

LEMMA EndStep ==
    ASSUME IInv, OInv, OneLostPerFault, NoneLostInTheEnd, [Next]_vars
    PROVE  NoneLostInTheEnd'
<1>. SUFFICES ASSUME coolify' = "gone", faults' = 0, deploys' = 0
              PROVE  Lost' \subseteq {}
  BY DEF NoneLostInTheEnd
<1>1. /\ faults = 0 /\ deploys = 0 /\ Quiet /\ Orderly
      /\ ~Fault /\ \A r \in Resources : ~V3Deploys(r)
  BY CalmBefore DEF OInv, IInv
<1>2. CASE Wipe
  <2>1. Lost \ taking = {} /\ taking = {}
    BY <1>1, <1>2, NothingLost DEF Wipe, IInv, Position
  <2>. QED
    BY <1>2, <2>1 DEF Wipe, Lost, cgo
<1>3. CASE ~Wipe
  <2>1. coolify = "gone" /\ UNCHANGED ever
    BY <1>1, <1>3
    DEF Next, Run, Launch, Discover, Freeze, Extract, CheckPlan, Insert, Commit, Save, Load,
        RemoveOld, CreateNew, EndTakeover, KeepV3, Die, v3, vars
  <2>2. Lost = {}
    BY <1>1, <2>1 DEF NoneLostInTheEnd
  <2>3. \A r \in Resources : v3c[r] = 0
    BY <1>1, <2>1 DEF Quiet, WipeLeavesNothing, Orderly
  <2>4. newc \subseteq newc'
    BY <1>1, <1>3
    DEF Next, Run, Launch, Discover, Freeze, Extract, CheckPlan, Insert, Commit, Save, Load,
        RemoveOld, CreateNew, EndTakeover, KeepV3, Die, cgo, vars
  <2>5. ever \subseteq Resources
    BY DEF IInv, TypeOK
  <2>. QED
    BY <2>1, <2>2, <2>3, <2>4, <2>5 DEF Lost
<1>. QED
  BY <1>2, <1>3

(* After a wipe every workload has a successor, if nothing failed and v3   *)
(* deployed nothing.                                                       *)
THEOREM EveryoneTakenOver == Spec => []WipedMeansTakenOverIfCalm
<1>1. Init => NoneLostInTheEnd
  BY DEF Init, NoneLostInTheEnd
<1>2. IInv /\ NoneLostInTheEnd => WipedMeansTakenOverIfCalm
  <2>. SUFFICES ASSUME IInv, NoneLostInTheEnd, faults = 0, deploys = 0, coolify = "gone",
                       NEW r \in ever \ missed
                PROVE  \E x \in newc : x.res = r
    BY DEF WipedMeansTakenOverIfCalm, WipedMeansTakenOver
  <2>1. v3c[r] = 0
    BY DEF IInv, TypeOK, Quiet, WipeLeavesNothing
  <2>. QED
    BY <2>1 DEF Lost, NoneLostInTheEnd
<1>3. IInv /\ OInv /\ [Next]_vars => OInv'
  BY OStep
<1>4. IInv /\ OInv /\ OneLostPerFault /\ NoneLostInTheEnd /\ [Next]_vars => NoneLostInTheEnd'
  BY EndStep
<1>. QED
  BY <1>1, <1>2, <1>3, <1>4, OInitially, Invariance, LossesAreCounted, PTL DEF Spec
=============================================================================
