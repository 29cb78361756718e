---------------------------- MODULE OldFixProofs ----------------------------
(***************************************************************************)
(* Proofs about the repair mode for any rows, containers, names and        *)
(* resemblances between them, and any number of events and faults.         *)
(***************************************************************************)
EXTENDS OldFixProps, FiniteSetTheorems, TLAPS

Early  == {"idle", "list", "snapshot"}
Loop   == {"refresh", "join"}
Mating == {"prompt", "adopt", "attach", "write"}

(* What a run has in hand comes from its snapshot: in the first loop each  *)
(* pair is a container under its row's name, and rows done are not         *)
(* repeated; what is to be adopted is a candidate.                         *)
InHand ==
    /\ pc \in Early => written = {} /\ cur = {}
    /\ pc \in Early \cup Loop => targets = {}
    /\ pc \in Loop =>
          \A x \in written \cup cur :
              x[2] \in DOMAIN snap /\ snap[x[2]] = x[1] /\ x[1] \notin todo
    /\ pc \in {"refresh", "prompt", "adopt"} => cur = {}
    /\ targets \subseteq Broken(snap) \X Candidates(snap)

(* In an undisturbed run the snapshot stays true, but for the names the    *)
(* run itself has given.                                                   *)
Undisturbed ==
    /\ pc \in Loop \cup Mating => \A c \in DOMAIN snap : up[c] = "running"
    /\ pc \in Loop => \A c \in DOMAIN snap : name[c] = snap[c]
    /\ pc \in {"attach", "write"} => \A x \in cur : name[x[2]] = x[1] /\ x[2] \in DOMAIN snap

IInv ==
    /\ TypeOK
    /\ InHand
    /\ OneToOne
    /\ calm => Undisturbed
    /\ WrittenIsTrue

-----------------------------------------------------------------------------
(* MatchAdoptable pairs broken rows with candidates, one to one.           *)
LEMMA MatchingIsOneToOne ==
    ASSUME NEW r, NEW s, NEW ts \in MatchAdoptable(r, s)
    PROVE  /\ ts \subseteq Broken(s) \X Candidates(s)
           /\ \A x, y \in ts : x[1] = y[1] \/ x[2] = y[2] => x = y
<1>1. PICK T \in FirstPass(r, s) : ts = T \cup Bijective(ByName(s, T))
  BY DEF MatchAdoptable
<1>. DEFINE B == Bijective(ByName(s, T))
<1>2. /\ T \subseteq Broken(s) \X Candidates(s)
      /\ \A x \in T : r[x[1]].cid = x[2]
      /\ \A x, y \in T : x[2] = y[2] => x = y
  BY DEF FirstPass, ById
<1>3. \A x, y \in T : x[1] = y[1] => x = y
  BY <1>2
<1>4. /\ B \subseteq Broken(s) \X Candidates(s)
      /\ \A x, y \in B : x[1] = y[1] \/ x[2] = y[2] => x = y
      /\ \A x \in B, y \in T : x[1] # y[1] /\ x[2] # y[2]
  BY DEF Bijective, ByName
<1>. HIDE DEF B
<1>5. ts = T \cup B
  BY <1>1 DEF B
<1>. QED
  BY <1>2, <1>3, <1>4, <1>5

(* The invariant holds at first.                                           *)
LEMMA Initially == Init => IInv
<1>1. SUFFICES ASSUME Init PROVE IInv
  OBVIOUS
<1>2. PICK s \in Starts : host = s.host /\ rows = s.rows /\ name = s.name /\ up = s.up
  BY <1>1 DEF Init
<1>3. s \in StartType
  BY OldFixAssumption
<1>4. TypeOK
  <2>1. /\ host \in HostType /\ rows \in [Apps -> RowType]
        /\ name \in [Containers -> Apps \cup {None}]
        /\ up \in [Containers -> {"running", "stopped", "gone"}]
    BY <1>2, <1>3 DEF StartType
  <2>2. Unread \in [Apps -> RowType]
    BY DEF Unread, RowType
  <2>3. net \subseteq Containers /\ read \in [Apps -> RowType]
    BY <1>1, <2>2 DEF Init
  <2>4. pc \in Steps /\ calm \in BOOLEAN /\ settled \in BOOLEAN
    BY <1>1 DEF Init, Steps
  <2>5. DOMAIN snap \subseteq Containers /\ snap \in [DOMAIN snap -> Apps \cup {None}]
    BY <1>1 DEF Init
  <2>6. events \in 0 .. MaxEvents /\ faults \in 0 .. MaxFaults
    BY <1>1, OldFixAssumption DEF Init
  <2>7. /\ todo \subseteq Apps /\ targets \subseteq Pairs
        /\ cur \subseteq Pairs /\ written \subseteq Pairs
    BY <1>1 DEF Init
  <2>. QED
    BY <2>1, <2>3, <2>4, <2>5, <2>6, <2>7 DEF TypeOK
<1>5. InHand /\ OneToOne /\ Undisturbed /\ WrittenIsTrue
  BY <1>1 DEF Init, InHand, OneToOne, Undisturbed, WrittenIsTrue, Early, Loop, Mating
<1>. QED
  BY <1>4, <1>5 DEF IInv

(* A run that ends, with the host and the rows as they are.                *)
LEMMA QuitKeeps ==
    ASSUME TypeOK, Quit, UNCHANGED <<host, rows, containers, events>>,
           calm' \in BOOLEAN, settled' \in BOOLEAN, faults' \in 0 .. MaxFaults
    PROVE  IInv'
<1>1. TypeOK'
  BY DEF TypeOK, Quit, Goto, containers, Steps, Unread, RowType, Pairs
<1>2. InHand' /\ OneToOne' /\ Undisturbed' /\ WrittenIsTrue'
  BY DEF Quit, Goto, InHand, OneToOne, Undisturbed, WrittenIsTrue, Early, Loop, Mating
<1>. QED
  BY <1>1, <1>2 DEF IInv

(* A fault counts, and the run is calm no more.                            *)
LEMMA FaultCounts ==
    ASSUME TypeOK, Fault \/ Fine
    PROVE  /\ faults' \in 0 .. MaxFaults /\ calm' \in BOOLEAN /\ settled' \in BOOLEAN
           /\ calm' => calm /\ Fine
<1>1. CASE Fault
  <2>1. faults' \in 0 .. MaxFaults
    BY <1>1, OldFixAssumption DEF TypeOK, Fault
  <2>2. calm' = FALSE /\ settled' = FALSE
    BY <1>1 DEF Fault
  <2>. QED
    BY <2>1, <2>2
<1>2. CASE Fine
  <2>1. calm' = calm /\ settled' = settled /\ faults' = faults
    BY <1>2 DEF Fine
  <2>. QED
    BY <1>2, <2>1 DEF TypeOK
<1>. QED
  BY <1>1, <1>2

(* A row written from a container keeps its type.                          *)
LEMMA AdoptTypes ==
    ASSUME TypeOK, NEW a \in Apps, NEW c \in Containers, AdoptApplication(a, c)
    PROVE  rows' \in [Apps -> RowType]
<1>1. [cid |-> c, status |-> "running", port |-> rows[a].port \/ c \in host.exposed,
       bot |-> rows[a].bot /\ c \notin host.exposed] \in RowType
  BY DEF TypeOK, RowType
<1>. QED
  BY <1>1 DEF TypeOK, AdoptApplication

LEMMA StartingSteps ==
    ASSUME IInv, Launch \/ ListApplications \/ Snapshot
    PROVE  IInv'
<1>1. /\ pc \in Early /\ written = {} /\ cur = {} /\ targets = {}
      /\ UNCHANGED <<host, rows, containers, targets, cur, written, settled, faults, events>>
      /\ calm' \in BOOLEAN
  BY DEF IInv, TypeOK, InHand, Launch, ListApplications, Snapshot, memory, Fine, Early
<1>2. /\ pc' \in {"list", "snapshot", "refresh"}
      /\ pc' = "refresh" => snap' = Now
      /\ snap' \in {snap, Now}
      /\ read' \in {read, rows} /\ todo' \in {todo, Apps}
  BY DEF Launch, ListApplications, Snapshot, memory, Goto
<1>3. /\ DOMAIN Now \subseteq Containers /\ Now \in [DOMAIN Now -> Apps \cup {None}]
      /\ \A c \in DOMAIN Now : up[c] = "running" /\ Now[c] = name[c]
  BY DEF IInv, TypeOK, Now, Running
<1>4. TypeOK'
  BY <1>1, <1>2, <1>3 DEF IInv, TypeOK, containers, Steps
<1>5. InHand' /\ OneToOne' /\ WrittenIsTrue'
  BY <1>1, <1>2 DEF InHand, OneToOne, WrittenIsTrue, Early, Loop
<1>6. Undisturbed'
  BY <1>1, <1>2, <1>3 DEF Undisturbed, Loop, Mating, containers
<1>. QED
  BY <1>4, <1>5, <1>6 DEF IInv

LEMMA LeaveStep ==
    ASSUME IInv, NEW a \in Apps, Leave(a)
    PROVE  IInv'
<1>1. /\ todo' = todo \ {a}
      /\ UNCHANGED <<host, rows, containers, pc, read, snap, targets, cur, written, events,
                     calm, settled, faults>>
  BY DEF Leave, Fine
<1>2. TypeOK'
  BY <1>1 DEF IInv, TypeOK, containers
<1>3. InHand' /\ OneToOne' /\ WrittenIsTrue'
  BY <1>1 DEF IInv, InHand, OneToOne, WrittenIsTrue, containers, Broken, Bearers, Candidates
<1>4. (calm => Undisturbed)'
  BY <1>1 DEF IInv, Undisturbed, containers
<1>. QED
  BY <1>2, <1>3, <1>4 DEF IInv

LEMMA RefreshStep ==
    ASSUME IInv, NEW a \in Apps, Refresh(a)
    PROVE  IInv'
<1>1. /\ pc = "refresh" /\ a \in todo /\ todo' = todo \ {a} /\ cur = {} /\ targets = {}
      /\ UNCHANGED <<host, containers, read, snap, targets, events>>
  BY DEF Refresh, IInv, InHand, Early, Loop
<1>2. PICK c \in Bearers(a, snap) :
         \/ /\ AdoptApplication(a, c) /\ cur' = {<<a, c>>}
            /\ written' = written \cup {<<a, c>>} /\ pc' = "join" /\ Fine
         \/ Fault /\ UNCHANGED <<rows, cur, written, pc>>
  BY DEF Refresh, Goto
<1>3. c \in DOMAIN snap /\ c \in Containers /\ snap[c] = a
  BY DEF IInv, TypeOK, Bearers
<1>4. /\ faults' \in 0 .. MaxFaults /\ calm' \in BOOLEAN /\ settled' \in BOOLEAN
      /\ calm' => calm /\ Fine
  BY <1>2, FaultCounts DEF IInv
<1>5. rows' \in [Apps -> RowType]
  BY <1>2, <1>3, AdoptTypes DEF IInv, TypeOK
<1>6. TypeOK'
  BY <1>1, <1>2, <1>3, <1>4, <1>5 DEF IInv, TypeOK, containers, Steps, Pairs
<1>7. \A x \in written :
         x = <<x[1], x[2]>> /\ x[2] \in DOMAIN snap /\ snap[x[2]] = x[1] /\ x[1] \notin todo
  BY <1>1 DEF IInv, TypeOK, Pairs, InHand, Loop
<1>8. InHand'
  BY <1>1, <1>2, <1>3, <1>7 DEF InHand, Early, Loop
<1>9. OneToOne'
  BY <1>1, <1>2, <1>3, <1>7 DEF IInv, OneToOne
<1>10. (calm => Undisturbed)'
  BY <1>1, <1>2, <1>4 DEF IInv, Undisturbed, containers, Loop, Mating
<1>11. WrittenIsTrue'
  BY <1>1, <1>2, <1>3, <1>4 DEF IInv, WrittenIsTrue, Undisturbed, containers, Loop
<1>. QED
  BY <1>6, <1>8, <1>9, <1>10, <1>11 DEF IInv

(* Attaching changes nothing but the network.                              *)
LEMMA AttachKeeps ==
    ASSUME TypeOK, Attach
    PROVE  /\ net' \subseteq Containers
           /\ faults' \in 0 .. MaxFaults /\ calm' \in BOOLEAN /\ settled' \in BOOLEAN
           /\ calm' => calm
           /\ UNCHANGED <<host, rows, name, up, read, snap, todo, targets, written, events>>
<1>1. PICK x \in cur :
         \/ net' = (IF up[x[2]] = "gone" THEN net ELSE net \cup {x[2]}) /\ Fine
         \/ Fault /\ UNCHANGED net
  BY DEF Attach
<1>2. x[2] \in Containers
  BY DEF TypeOK, Pairs
<1>. QED
  BY <1>1, <1>2, FaultCounts DEF Attach, TypeOK

LEMMA AttachSteps ==
    ASSUME IInv, Join \/ AdoptAttach
    PROVE  IInv'
<1>1. /\ net' \subseteq Containers
      /\ faults' \in 0 .. MaxFaults /\ calm' \in BOOLEAN /\ settled' \in BOOLEAN
      /\ calm' => calm
      /\ UNCHANGED <<host, rows, name, up, read, snap, todo, targets, written, events>>
  BY AttachKeeps DEF IInv, Join, AdoptAttach
<1>2. \/ pc = "join" /\ pc' = "refresh" /\ cur' = {}
      \/ pc = "attach" /\ pc' = "write" /\ cur' = cur
  BY DEF Join, AdoptAttach, Goto
<1>3. TypeOK'
  BY <1>1, <1>2 DEF IInv, TypeOK, Steps
<1>4. InHand'
  BY <1>1, <1>2 DEF IInv, InHand, Early, Loop, Broken, Bearers, Candidates
<1>5. OneToOne' /\ WrittenIsTrue'
  BY <1>1, <1>2 DEF IInv, OneToOne, WrittenIsTrue
<1>6. (calm => Undisturbed)'
  BY <1>1, <1>2 DEF IInv, Undisturbed, Loop, Mating
<1>. QED
  BY <1>3, <1>4, <1>5, <1>6 DEF IInv

(* The rows matched had no container under their name, and the containers  *)
(* no name: they are none of those refreshed.                              *)
LEMMA MatchStep == IInv /\ Match => IInv'
<1>1. SUFFICES ASSUME IInv, Match PROVE IInv'
  OBVIOUS
<1>2. /\ pc = "refresh" /\ cur = {}
      /\ UNCHANGED <<host, rows, containers, calm, events, faults>>
      /\ settled' \in BOOLEAN
  BY <1>1 DEF IInv, TypeOK, InHand, Match, Settle
<1>3. CASE Quit
  BY <1>1, <1>2, <1>3, QuitKeeps DEF IInv, TypeOK
<1>4. ASSUME NEW ts \in MatchAdoptable(read, snap), targets' = ts, Goto("prompt"),
             UNCHANGED <<read, snap, todo, cur, written, settled>>
      PROVE  IInv'
  <2>1. /\ ts \subseteq Broken(snap) \X Candidates(snap)
        /\ \A x, y \in ts : x[1] = y[1] \/ x[2] = y[2] => x = y
    BY <1>4, MatchingIsOneToOne
  <2>2. Broken(snap) \subseteq Apps /\ Candidates(snap) \subseteq Containers
    BY <1>1 DEF IInv, TypeOK, Broken, Candidates
  <2>3. TypeOK'
    BY <1>1, <1>2, <1>4, <2>1, <2>2 DEF IInv, TypeOK, containers, Goto, Steps, Pairs
  <2>4. InHand'
    BY <1>1, <1>2, <1>4, <2>1
    DEF IInv, InHand, Goto, Early, Loop, Broken, Bearers, Candidates
  <2>5. \A x \in written, y \in ts : x[1] # y[1] /\ x[2] # y[2]
    BY <1>1, <1>2, <2>1, OldFixAssumption
    DEF IInv, TypeOK, Pairs, InHand, Loop, Broken, Bearers, Candidates
  <2>6. OneToOne'
    BY <1>1, <1>2, <1>4, <2>1, <2>5 DEF IInv, OneToOne
  <2>7. (calm => Undisturbed)' /\ WrittenIsTrue'
    BY <1>1, <1>2, <1>4 DEF IInv, Undisturbed, WrittenIsTrue, containers, Goto, Loop, Mating
  <2>. QED
    BY <2>3, <2>4, <2>6, <2>7 DEF IInv
<1>. QED
  BY <1>1, <1>3, <1>4 DEF Match

LEMMA ConfirmStep == IInv /\ Confirm => IInv'
<1>1. SUFFICES ASSUME IInv, Confirm PROVE IInv'
  OBVIOUS
<1>2. /\ pc = "prompt" /\ pc' = "adopt"
      /\ UNCHANGED <<host, rows, containers, memory, events, calm, settled, faults>>
  BY <1>1 DEF Confirm, Fine, Goto
<1>3. TypeOK'
  BY <1>1, <1>2 DEF IInv, TypeOK, containers, memory, Steps
<1>4. InHand'
  BY <1>1, <1>2 DEF IInv, InHand, memory, Early, Loop, Broken, Bearers, Candidates
<1>5. OneToOne' /\ WrittenIsTrue' /\ (calm => Undisturbed)'
  BY <1>1, <1>2
  DEF IInv, OneToOne, WrittenIsTrue, Undisturbed, containers, memory, Loop, Mating
<1>. QED
  BY <1>3, <1>4, <1>5 DEF IInv

LEMMA RenameStep == IInv /\ Rename => IInv'
<1>1. SUFFICES ASSUME IInv, Rename PROVE IInv'
  OBVIOUS
<1>2. /\ pc = "adopt" /\ cur = {}
      /\ UNCHANGED <<host, rows, up, net, read, snap, todo, written, events>>
  BY <1>1 DEF Rename, IInv, InHand
<1>3. PICK x \in targets :
         /\ targets' = targets \ {x}
         /\ \/ /\ name' = [name EXCEPT ![x[2]] = x[1]]
               /\ cur' = {x} /\ pc' = "attach" /\ Fine
            \/ (Fine \/ Fault) /\ UNCHANGED <<name, cur, pc>>
  BY <1>1 DEF Rename, Goto
<1>4. /\ x[1] \in Apps /\ x[2] \in Containers /\ x[2] \in DOMAIN snap
      /\ name' \in [Containers -> Apps \cup {None}]
  BY <1>1, <1>3 DEF IInv, TypeOK, Pairs, InHand, Candidates
<1>5. /\ faults' \in 0 .. MaxFaults /\ calm' \in BOOLEAN /\ settled' \in BOOLEAN
      /\ calm' => calm
  BY <1>1, <1>3, FaultCounts DEF IInv
<1>6. TypeOK'
  BY <1>1, <1>2, <1>3, <1>4, <1>5 DEF IInv, TypeOK, Steps
<1>7. InHand'
  BY <1>1, <1>2, <1>3 DEF IInv, InHand, Early, Loop, Broken, Bearers, Candidates
<1>8. OneToOne'
  BY <1>1, <1>2, <1>3 DEF IInv, OneToOne
<1>9. (calm => Undisturbed)'
  BY <1>1, <1>2, <1>3, <1>4, <1>5 DEF IInv, TypeOK, Undisturbed, Loop, Mating
<1>10. WrittenIsTrue'
  <2>1. SUFFICES ASSUME calm, NEW y \in written
                 PROVE  name'[y[2]] = y[1] /\ up[y[2]] = "running"
    BY <1>2, <1>5 DEF WrittenIsTrue
  <2>2. name[y[2]] = y[1] /\ up[y[2]] = "running"
    BY <1>1, <2>1 DEF IInv, WrittenIsTrue
  <2>3. y[1] \in Apps /\ y[2] \in Containers
    BY <1>1 DEF IInv, TypeOK, Pairs
  <2>4. x[2] = y[2] => x = y
    BY <1>1, <1>3 DEF IInv, OneToOne
  <2>. QED
    BY <1>1, <1>3, <1>4, <2>2, <2>3, <2>4 DEF IInv, TypeOK
<1>. QED
  BY <1>6, <1>7, <1>8, <1>9, <1>10 DEF IInv

LEMMA WriteBackStep == IInv /\ WriteBack => IInv'
<1>1. SUFFICES ASSUME IInv, WriteBack PROVE IInv'
  OBVIOUS
<1>2. /\ pc = "write" /\ pc' = "adopt" /\ cur' = {}
      /\ UNCHANGED <<host, containers, read, snap, todo, targets, events>>
  BY <1>1 DEF WriteBack, Goto
<1>3. PICK x \in cur :
         \/ AdoptApplication(x[1], x[2]) /\ written' = written \cup {x} /\ Fine
         \/ Fault /\ UNCHANGED <<rows, written>>
  BY <1>1 DEF WriteBack
<1>4. x \in Pairs /\ x[1] \in Apps /\ x[2] \in Containers
  BY <1>1, <1>3 DEF IInv, TypeOK, Pairs
<1>5. /\ faults' \in 0 .. MaxFaults /\ calm' \in BOOLEAN /\ settled' \in BOOLEAN
      /\ calm' => calm /\ Fine
  BY <1>1, <1>3, FaultCounts DEF IInv
<1>6. rows' \in [Apps -> RowType]
  BY <1>1, <1>3, <1>4, AdoptTypes DEF IInv, TypeOK
<1>7. TypeOK'
  BY <1>1, <1>2, <1>3, <1>4, <1>5, <1>6 DEF IInv, TypeOK, containers, Steps
<1>8. InHand'
  BY <1>1, <1>2 DEF IInv, InHand, Early, Loop, Broken, Bearers, Candidates
<1>9. OneToOne'
  BY <1>1, <1>2, <1>3 DEF IInv, OneToOne
<1>10. (calm => Undisturbed)'
  BY <1>1, <1>2, <1>5 DEF IInv, Undisturbed, containers, Loop, Mating
<1>11. WrittenIsTrue'
  BY <1>1, <1>2, <1>3, <1>4, <1>5 DEF IInv, WrittenIsTrue, Undisturbed, containers, Mating
<1>. QED
  BY <1>7, <1>8, <1>9, <1>10, <1>11 DEF IInv

(* Events touch containers only, and end the calm.                         *)
LEMMA EventStep ==
    ASSUME IInv, NEW c \in Containers,
           Exits(c) \/ Vanishes(c) \/ \E a \in Apps : RenamedByHand(c, a)
    PROVE  IInv'
<1>1. /\ UNCHANGED <<host, rows, pc, memory, faults>>
      /\ calm' = FALSE /\ settled' = FALSE /\ events' = events + 1 /\ events < MaxEvents
  BY DEF Exits, Vanishes, RenamedByHand, Event
<1>2. /\ name' \in [Containers -> Apps \cup {None}]
      /\ up' \in [Containers -> {"running", "stopped", "gone"}]
      /\ net' \subseteq Containers
  BY DEF IInv, TypeOK, Exits, Vanishes, RenamedByHand
<1>3. events' \in 0 .. MaxEvents
  BY <1>1, OldFixAssumption DEF IInv, TypeOK
<1>4. TypeOK'
  BY <1>1, <1>2, <1>3 DEF IInv, TypeOK, memory
<1>5. InHand' /\ OneToOne' /\ WrittenIsTrue'
  BY <1>1 DEF IInv, InHand, OneToOne, WrittenIsTrue, memory, Broken, Bearers, Candidates
<1>. QED
  BY <1>1, <1>4, <1>5 DEF IInv

(* Every step preserves the invariant.                                     *)
LEMMA Step == IInv /\ [Next]_vars => IInv'
<1>1. SUFFICES ASSUME IInv, [Next]_vars PROVE IInv'
  OBVIOUS
<1>2. CASE Launch \/ ListApplications \/ Snapshot
  BY <1>1, <1>2, StartingSteps
<1>3. ASSUME NEW a \in Apps, Leave(a) \/ Refresh(a) PROVE IInv'
  BY <1>1, <1>3, LeaveStep, RefreshStep
<1>4. CASE Join \/ AdoptAttach
  BY <1>1, <1>4, AttachSteps
<1>5. CASE Match \/ Confirm \/ Rename \/ WriteBack
  BY <1>1, <1>5, MatchStep, ConfirmStep, RenameStep, WriteBackStep
<1>6. CASE Decline \/ Done \/ Die
  <2>1. /\ Quit /\ UNCHANGED <<host, rows, containers, events>>
        /\ \/ Fine
           \/ Fault
           \/ UNCHANGED <<calm, faults>> /\ Settle
    BY <1>6 DEF Decline, Done, Die
  <2>2. faults' \in 0 .. MaxFaults /\ calm' \in BOOLEAN /\ settled' \in BOOLEAN
    BY <1>1, <2>1, FaultCounts DEF IInv, TypeOK, Settle
  <2>. QED
    BY <1>1, <2>1, <2>2, QuitKeeps DEF IInv
<1>7. ASSUME NEW c \in Containers,
             Exits(c) \/ Vanishes(c) \/ \E a \in Apps : RenamedByHand(c, a)
      PROVE  IInv'
  BY <1>1, <1>7, EventStep
<1>8. CASE UNCHANGED vars
  BY <1>1, <1>8
  DEF vars, containers, memory, IInv, TypeOK, InHand, OneToOne, Undisturbed, WrittenIsTrue,
      Broken, Bearers, Candidates
<1>. QED
  BY <1>1, <1>2, <1>3, <1>4, <1>5, <1>6, <1>7, <1>8 DEF Next, Run

(* The inductive invariant holds throughout.                               *)
THEOREM Invariance == Spec => []IInv
  BY Initially, Step, PTL DEF Spec

-----------------------------------------------------------------------------
(* Rows, snapshots and pairs have their types in every run.                *)
THEOREM TypeCorrect == Spec => []TypeOK
<1>1. IInv => TypeOK
  BY DEF IInv
<1>. QED
  BY <1>1, Invariance, PTL

(* No run gives a container to two rows or two containers to one row.      *)
THEOREM AdoptionIsOneToOne == Spec => []OneToOne
<1>1. IInv => OneToOne
  BY DEF IInv
<1>. QED
  BY <1>1, Invariance, PTL

(* What an undisturbed run has written is true of the containers.          *)
THEOREM WritesAreTrue == Spec => []WrittenIsTrue
<1>1. IInv => WrittenIsTrue
  BY DEF IInv
<1>. QED
  BY <1>1, Invariance, PTL

(* A run renames v3's containers only.                                     *)
THEOREM ForeignersUntouched == Spec => ForeignUntouched
<1>1. IInv /\ [Next]_vars =>
        [events' = events =>
            \A c \in Containers : host.kind[c] # "v3" => name'[c] = name[c]]_vars
  <2>. SUFFICES ASSUME IInv, Next, events' = events,
                       NEW c \in Containers, host.kind[c] # "v3"
                PROVE  name'[c] = name[c]
    OBVIOUS
  <2>1. CASE Rename
    <3>1. PICK x \in targets : name' = [name EXCEPT ![x[2]] = x[1]] \/ name' = name
      BY <2>1 DEF Rename
    <3>2. host.kind[x[2]] = "v3"
      BY DEF IInv, InHand, Candidates
    <3>. QED
      BY <3>1, <3>2 DEF IInv, TypeOK
  <2>2. ASSUME NEW d \in Containers,
               Exits(d) \/ Vanishes(d) \/ \E a \in Apps : RenamedByHand(d, a)
        PROVE  FALSE
    <3>1. events' = events + 1 /\ events \in Nat
      BY <2>2, OldFixAssumption DEF IInv, TypeOK, Exits, Vanishes, RenamedByHand, Event
    <3>. QED
      BY <3>1
  <2>3. CASE name' = name
    BY <2>3
  <2>. QED
    BY <2>1, <2>2, <2>3
    DEF Next, Run, Launch, ListApplications, Snapshot, Leave, Refresh, Join, Match, Confirm,
        Decline, AdoptAttach, Attach, WriteBack, Done, Die, containers
<1>. QED
  BY <1>1, Invariance, PTL DEF Spec, ForeignUntouched

(* A row that has a port is no bot, if none was before the first repair.   *)
THEOREM ExposedNeverBot ==
    ASSUME \A s \in Starts : \A a \in Apps : s.rows[a].port => ~s.rows[a].bot
    PROVE  Spec => []ExposedIsNoBot
<1>1. Init => ExposedIsNoBot
  BY DEF Init, ExposedIsNoBot
<1>2. IInv /\ ExposedIsNoBot /\ [Next]_vars => ExposedIsNoBot'
  <2>. SUFFICES ASSUME IInv, ExposedIsNoBot, [Next]_vars PROVE ExposedIsNoBot'
    OBVIOUS
  <2>1. ASSUME NEW a \in Apps, NEW c, AdoptApplication(a, c) PROVE ExposedIsNoBot'
    BY <2>1 DEF IInv, TypeOK, AdoptApplication, ExposedIsNoBot
  <2>2. CASE rows' = rows
    BY <2>2 DEF ExposedIsNoBot
  <2>3. ASSUME NEW a \in Apps, Refresh(a) PROVE ExposedIsNoBot'
    BY <2>1, <2>2, <2>3 DEF Refresh
  <2>4. CASE WriteBack
    <3>1. \A x \in cur : x[1] \in Apps
      BY DEF IInv, TypeOK, Pairs
    <3>. QED
      BY <2>1, <2>2, <2>4, <3>1 DEF WriteBack
  <2>. QED
    BY <2>2, <2>3, <2>4
    DEF Next, Run, Launch, ListApplications, Snapshot, Leave, Join, Match, Confirm, Decline,
        Rename, AdoptAttach, Attach, Done, Die, Exits, Vanishes, RenamedByHand, Event, vars
<1>. QED
  BY <1>1, <1>2, Invariance, PTL DEF Spec
-----------------------------------------------------------------------------
(* A run ends.  Each of its steps reaches a later part of it, or leaves    *)
(* less to do in this one: rows to look at, or containers to adopt.        *)
Part(l) ==
    CASE l = "list" -> 1 [] l = "snapshot" -> 2 [] l \in Loop -> 3 [] l = "prompt" -> 4
      [] OTHER -> 5

WorkLeft ==
    IF pc \in Loop
       THEN 2 * Cardinality(todo) + (IF pc = "join" THEN 1 ELSE 0)
       ELSE 3 * Cardinality(targets)
            + (IF pc = "attach" THEN 2 ELSE IF pc = "write" THEN 1 ELSE 0)

LEMMA LessWork ==
    ASSUME TypeOK, TypeOK',
           \/ /\ \E a \in todo : todo' = todo \ {a}
              /\ pc = "refresh" /\ pc' \in Loop
           \/ /\ \E x \in targets : targets' = targets \ {x}
              /\ pc = "adopt" /\ pc' \in {"adopt", "attach"}
           \/ todo' = todo /\ pc = "join" /\ pc' = "refresh"
           \/ targets' = targets /\ pc = "attach" /\ pc' = "write"
           \/ targets' = targets /\ pc = "write" /\ pc' = "adopt"
    PROVE  WorkLeft' \in Nat /\ WorkLeft' < WorkLeft
<1>. DEFINE m == Cardinality(todo)
            n == Cardinality(targets)
<1>1. /\ IsFiniteSet(todo) /\ IsFiniteSet(todo')
      /\ IsFiniteSet(targets) /\ IsFiniteSet(targets')
  <2>1. IsFiniteSet(Pairs)
    BY OldFixAssumption, FS_Product DEF Pairs
  <2>. QED
    BY <2>1, OldFixAssumption, FS_Subset DEF TypeOK
<1>2. m \in Nat /\ m' \in Nat /\ n \in Nat /\ n' \in Nat
  BY <1>1, FS_CardinalityType
<1>3. CASE /\ \E a \in todo : todo' = todo \ {a}
           /\ pc = "refresh" /\ pc' \in Loop
  <2>1. m' = m - 1
    BY <1>1, <1>3, FS_RemoveElement
  <2>2. WorkLeft = 2 * m /\ WorkLeft' \in {2 * m', 2 * m' + 1}
    BY <1>2, <1>3 DEF WorkLeft, Loop
  <2>. HIDE DEF m, n
  <2>. QED BY <1>2, <2>1, <2>2
<1>4. CASE /\ \E x \in targets : targets' = targets \ {x}
           /\ pc = "adopt" /\ pc' \in {"adopt", "attach"}
  <2>1. n' = n - 1
    BY <1>1, <1>4, FS_RemoveElement
  <2>2. WorkLeft = 3 * n /\ WorkLeft' \in {3 * n', 3 * n' + 2}
    BY <1>2, <1>4 DEF WorkLeft, Loop
  <2>. HIDE DEF m, n
  <2>. QED BY <1>2, <2>1, <2>2
<1>5. CASE todo' = todo /\ pc = "join" /\ pc' = "refresh"
  <2>1. m' = m /\ WorkLeft = 2 * m + 1 /\ WorkLeft' = 2 * m'
    BY <1>2, <1>5 DEF WorkLeft, Loop
  <2>. HIDE DEF m, n
  <2>. QED BY <1>2, <2>1
<1>6. CASE targets' = targets /\ pc = "attach" /\ pc' = "write"
  <2>1. n' = n /\ WorkLeft = 3 * n + 2 /\ WorkLeft' = 3 * n' + 1
    BY <1>2, <1>6 DEF WorkLeft, Loop
  <2>. HIDE DEF m, n
  <2>. QED BY <1>2, <2>1
<1>7. CASE targets' = targets /\ pc = "write" /\ pc' = "adopt"
  <2>1. n' = n /\ WorkLeft = 3 * n + 1 /\ WorkLeft' = 3 * n'
    BY <1>2, <1>7 DEF WorkLeft, Loop
  <2>. HIDE DEF m, n
  <2>. QED BY <1>2, <2>1
<1>. QED
  BY <1>3, <1>4, <1>5, <1>6, <1>7

(* A repair run has finitely many steps before it, whatever containers do  *)
(* meanwhile (runOldFix loops over what it has listed).                    *)
RunShrinks ==
    [][pc # "idle" /\ pc' # "idle" =>
          \/ Part(pc) < Part(pc')
          \/ Part(pc') = Part(pc) /\ WorkLeft' \in Nat /\ WorkLeft' < WorkLeft
          \/ ~Run /\ UNCHANGED <<pc, memory>>]_vars

THEOREM RunIsBounded == Spec => RunShrinks
<1>1. ASSUME IInv, IInv', Next, pc # "idle", pc' # "idle"
      PROVE  \/ Part(pc) < Part(pc')
             \/ Part(pc') = Part(pc) /\ WorkLeft' \in Nat /\ WorkLeft' < WorkLeft
             \/ ~Run /\ UNCHANGED <<pc, memory>>
  <2>. DEFINE Less == Part(pc') = Part(pc) /\ WorkLeft' \in Nat /\ WorkLeft' < WorkLeft
  <2>1. TypeOK /\ TypeOK'
    BY <1>1 DEF IInv
  <2>2. CASE ListApplications \/ Snapshot \/ Match \/ Confirm \/ Decline \/ Done
    BY <1>1, <2>2
    DEF ListApplications, Snapshot, Match, Confirm, Decline, Done, Quit, Goto, Part, Loop
  <2>3. ASSUME NEW a \in Apps, Leave(a) \/ Refresh(a)
        PROVE  Less
    <3>1. /\ \E b \in todo : todo' = todo \ {b}
          /\ pc = "refresh" /\ pc' \in Loop
      BY <2>3 DEF Leave, Refresh, Goto, Loop
    <3>. QED
      BY <2>1, <3>1, LessWork DEF Part, Loop
  <2>4. CASE Join
    BY <2>1, <2>4, LessWork DEF Join, Attach, Goto, Part, Loop
  <2>5. CASE Rename
    <3>1. /\ \E x \in targets : targets' = targets \ {x}
          /\ pc = "adopt" /\ pc' \in {"adopt", "attach"}
      BY <2>5 DEF Rename, Goto
    <3>. QED
      BY <2>1, <3>1, LessWork DEF Part, Loop
  <2>6. CASE AdoptAttach \/ WriteBack
    BY <2>1, <2>6, LessWork DEF AdoptAttach, WriteBack, Attach, Goto, Part, Loop
  <2>7. CASE ~Run
    BY <1>1, <2>7
    DEF Next, Launch, Die, Quit, Goto, Exits, Vanishes, RenamedByHand, Event, memory
  <2>. QED
    BY <2>2, <2>3, <2>4, <2>5, <2>6, <2>7 DEF Run
<1>. QED
  BY <1>1, Invariance, PTL DEF Spec, RunShrinks

(* The first pass of MatchAdoptable has a result: each container named by  *)
(* some broken rows goes to one of them.                                   *)
LEMMA SomePass ==
    ASSUME NEW r, NEW s
    PROVE  FirstPass(r, s) # {}
<1>. DEFINE P == ById(r, s)
            first(c) == CHOOSE x \in P : x[2] = c
            T == {x \in P : x = first(x[2])}
<1>1. \A x \in P : first(x[2]) \in P /\ first(x[2])[2] = x[2]
  OBVIOUS
<1>2. \A x \in P : \E y \in T : y[2] = x[2]
  <2>. SUFFICES ASSUME NEW x \in P
                PROVE  \E y \in T : y[2] = x[2]
    OBVIOUS
  <2>1. first(x[2]) \in P /\ first(x[2])[2] = x[2]
    BY <1>1
  <2>2. first(x[2]) = first(first(x[2])[2])
    BY <2>1
  <2>. QED
    BY <2>1, <2>2
<1>3. \A x, y \in T : x[2] = y[2] => x = y
  OBVIOUS
<1>4. T \in SUBSET P
  OBVIOUS
<1>. HIDE DEF T, P
<1>5. T \in FirstPass(r, s)
  BY <1>2, <1>3, <1>4 DEF FirstPass, P
<1>. QED
  BY <1>5

(* No run is wedged: in every state of one, some step of it can happen.    *)
CanGoOn ==
    \/ pc \in {"list", "snapshot", "prompt", "adopt"}
    \/ pc = "refresh" /\ \E a \in todo : Drifted(a) => Bearers(a, snap) # {}
    \/ pc = "refresh" /\ todo = {} /\ MatchAdoptable(read, snap) # {}
    \/ pc \in {"join", "attach", "write"} /\ cur # {}

THEOREM RunNeverWedged == Spec => [](pc # "idle" => CanGoOn)
<1>. DEFINE Holding == pc \in {"join", "attach", "write"} => cur # {}
<1>1. Init => Holding
  BY DEF Init
<1>2. Holding /\ [Next]_vars => Holding'
  BY DEF Next, Run, Launch, ListApplications, Snapshot, Leave, Refresh, Join, Match, Confirm,
         Decline, Rename, AdoptAttach, WriteBack, Attach, Done, Die, Quit, Goto, Exits,
         Vanishes, RenamedByHand, Event, memory, vars
<1>3. IInv /\ Holding /\ pc # "idle" => CanGoOn
  <2>1. MatchAdoptable(read, snap) # {}
    <3>1. PICK T : T \in FirstPass(read, snap)
      BY SomePass
    <3>2. T \cup Bijective(ByName(snap, T)) \in MatchAdoptable(read, snap)
      BY <3>1 DEF MatchAdoptable
    <3>. QED
      BY <3>2
  <2>. QED
    BY <2>1 DEF IInv, TypeOK, Steps, CanGoOn, Drifted
<1>. QED
  BY <1>1, <1>2, <1>3, Invariance, PTL DEF Spec
=============================================================================
