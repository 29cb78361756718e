---------------------------- MODULE FinishProofs ----------------------------
(***************************************************************************)
(* What a post-docker phase that meets no fault leaves behind, for every   *)
(* plan and every number of launches.                                      *)
(*                                                                         *)
(* Without faults there are three situations.  A launch is on its first    *)
(* walk over the plan: every entry behind it is handed over in full.  Or   *)
(* an earlier launch gave up after creating a container: then no launch    *)
(* gets past that container, so none reaches the wipe.  Or the first walk  *)
(* has finished, and nothing moves any more.                               *)
(*                                                                         *)
(* And, with any number of faults, how a launch ends: each of its steps    *)
(* leaves it with less to do, and in none of its states is it stuck.       *)
(***************************************************************************)
EXTENDS PostDockerProofs, FiniteSetTheorems

Expected(i) == IF Src(i) \in plan.running THEN "running" ELSE "created"

(* The entry's container runs as v3 ran it, its row names it and the       *)
(* volume it was copied from is remembered, or already reclaimed.          *)
HandedOver(j) ==
    /\ newc[j] = Expected(j)
    /\ row[j] = "new"
    /\ j \in Located => Src(j) \in reclaim \/ (pc = "reclaim" /\ srcVol[Src(j)] = "none")

FirstWalk ==
    /\ wiped = IF pc = "reclaim" THEN "begun" ELSE "no"
    /\ \A j \in Claimed : j < cur => HandedOver(j)
    /\ \A j \in Claimed : newc[j] # "none" => j < cur \/ (j = cur /\ pc \in {"start", "record"})
    /\ \A i \in DBs : helper[i] # "none" =>
          i = cur /\ pc \in {"copy_start", "copy_wait", "copying"}
    /\ pc \in {"copy_wait", "copying"} => helper[cur] = "running"
    /\ pc = "start" => Src(cur) \in plan.running
    /\ pc = "record" => newc[cur] = Expected(cur)

(* A container created by an earlier launch stands in the way: its name is *)
(* taken, so no launch gets past the creation step of its entry.           *)
StuckAt(j) ==
    /\ newc[j] # "none"
    /\ cur =< j
    /\ cur = j => pc \notin {"start", "record"}

Stuck == wiped = "no" /\ \E j \in Claimed : StuckAt(j)

AllTaken ==
    /\ TakenOver
    /\ \A i \in Claimed : row[i] = "new"
    /\ \A i \in Located : srcVol[Src(i)] = "none"

Migrated ==
    /\ pc = "idle" /\ ~stateFile
    /\ \A i \in DBs : helper[i] = "none" /\ strays[i] = 0
    /\ AllTaken

FInv == faults = 0 => FirstWalk \/ Stuck \/ Migrated

-----------------------------------------------------------------------------
(* A step that met no fault so far and meets none now.                     *)
LEMMA NoFault ==
    ASSUME TypeOK, faults' = 0, [Next]_vars
    PROVE  faults = 0 /\ ~Fault
  BY DEF TypeOK, Fault, Next, Process, Launch, SkipEntry, NoVolume, TakeEntry, Stop, Remove,
         ClearVolume, ClearInUse, ClearSkipped, CopyCreate, CopyStart, CopyWait, CopyEnds,
         CopyFails, StrayEnds, StrayFails, Create, CreateConflict, Start, Record,
         EndTakeover, KeepV3, BeginWipe,
         Reclaim, Finish, Fail, Stopped, vars

(* Nothing a launch, a helper or a fault does gets past a container that   *)
(* stands in the way.                                                      *)
LEMMA StuckStep ==
    ASSUME IInv, Stuck, [Next]_vars
    PROVE  Stuck'
<1>1. PICK j \in Claimed : StuckAt(j)
  BY DEF Stuck
<1>2. UNCHANGED plan
  BY DEF Next, Process, Launch, SkipEntry, NoVolume, TakeEntry, Stop, Remove, ClearVolume,
         ClearInUse, ClearSkipped, CopyCreate, CopyStart, CopyWait, CopyEnds, CopyFails,
         StrayEnds, StrayFails,
         Create, CreateConflict, Start, Record, EndTakeover, KeepV3, BeginWipe, Reclaim,
         Finish, Fail, Stopped, vars
<1>3. j \in Entries /\ j \in Nat /\ 1 =< j /\ cur \in Nat /\ Claimed' = Claimed
  BY <1>2, Sets, PlanFixed DEF IInv, Entries
<1>4. cur \in Entries
  BY <1>1, <1>3, ConstantsAssumption DEF IInv, TypeOK, StuckAt, Entries
<1>. SUFFICES StuckAt(j)' /\ wiped' = "no"
  BY <1>3 DEF Stuck
<1>5. CASE Quit /\ UNCHANGED <<docker, disk>>
  BY <1>1, <1>3, <1>5 DEF Stuck, StuckAt, Quit, Goto, docker, disk
<1>6. CASE /\ UNCHANGED <<newc, cur, wiped>>
           /\ pc' \notin {"start", "record"} \/ pc' = pc
  BY <1>1, <1>6 DEF Stuck, StuckAt
<1>7. CASE SkipEntry \/ Record
  <2>1. cur # j
    BY <1>1, <1>7 DEF StuckAt, SkipEntry, Record
  <2>2. cur + 1 =< j
    BY <2>1, <1>1, <1>3 DEF StuckAt
  <2>. QED
    BY <1>1, <1>3, <1>7, <2>2 DEF Stuck, StuckAt, SkipEntry, Record, Goto, docker, disk
<1>8. CASE Create \/ Start
  <2>1. cur # j
    BY <1>1, <1>8 DEF StuckAt, Create, Start
  <2>. QED
    BY <1>1, <1>3, <1>8, <2>1 DEF Stuck, StuckAt, Create, Start, memory, disk, helpers,
           IInv, TypeOK
<1>9. CASE NoVolume \/ ClearInUse \/ CreateConflict \/ Fail \/ CopyWait
  BY <1>5, <1>6, <1>9
  DEF NoVolume, ClearInUse, CreateConflict, Fail, CopyWait, Goto, docker, memory, disk
<1>14. CASE \E i \in DBs : StrayEnds(i) \/ StrayFails(i)
  BY <1>6, <1>14 DEF StrayEnds, StrayFails, memory, disk
<1>10. CASE \E i \in DBs : CopyEnds(i) \/ CopyFails(i)
  <2>1. PICK i \in DBs : CopyEnds(i) \/ CopyFails(i)
    BY <1>10
  <2>2. CASE CopyFails(i) /\ Waited(i)
    BY <1>1, <1>3, <2>2 DEF Stuck, StuckAt, CopyFails, Quit, Goto, disk
  <2>3. CASE CopyEnds(i) \/ ~Waited(i)
    BY <1>6, <2>1, <2>3 DEF CopyEnds, CopyFails, Goto, memory, disk
  <2>. QED
    BY <2>1, <2>2, <2>3
<1>11. CASE Launch \/ TakeEntry \/ Stop \/ Remove \/ ClearVolume \/ ClearSkipped
              \/ CopyCreate \/ CopyStart
  BY <1>6, <1>11 DEF Launch, TakeEntry, Stop, Remove, ClearVolume, ClearSkipped, CopyCreate,
                     CopyStart, Goto, docker, memory, disk
<1>12. CASE EndTakeover \/ KeepV3 \/ BeginWipe \/ Reclaim \/ Finish
  BY <1>4, <1>12
  DEF EndTakeover, KeepV3, BeginWipe, Reclaim, Finish, AfterLoop, IInv, Position
<1>13. CASE Stopped \/ UNCHANGED vars
  BY <1>6, <1>13 DEF Stopped, vars
<1>. QED
  BY <1>7, <1>8, <1>9, <1>10, <1>11, <1>12, <1>13, <1>14 DEF Next, Process

(* Without a fault no copy helper is ever left behind beside another.      *)
LEMMA NoneLeftBehind ==
    ASSUME IInv, faults = 0
    PROVE  \A i \in DBs : strays[i] = 0 /\ i \notin unstarted
<1>1. ~misread
  BY DEF IInv, Recalled
<1>. QED
  BY <1>1 DEF IInv, Recalled

(* Whatever stands when a walk ends early blocks every later launch, and   *)
(* when nothing stands the next launch starts from a clean slate.          *)
LEMMA WalkEnds ==
    ASSUME IInv, FirstWalk, Quit, UNCHANGED <<plan, docker, row, disk>>, wiped = "no",
           \A i \in DBs : helper[i] = "none"
    PROVE  FirstWalk' \/ Stuck'
<1>1. CASE \E j \in Claimed : newc[j] # "none"
  <2>1. PICK j \in Claimed : newc[j] # "none"
    BY <1>1
  <2>2. j \in Nat /\ 1 =< j /\ Claimed' = Claimed
    BY Sets, PlanFixed DEF IInv, Entries
  <2>3. StuckAt(j)'
    BY <2>1, <2>2 DEF StuckAt, Quit, Goto, docker
  <2>. QED
    BY <2>2, <2>3 DEF Stuck, disk
<1>2. CASE \A j \in Claimed : newc[j] = "none"
  <2>1. \A j \in Claimed : j \in Nat /\ ~(j < 1)
    BY Sets DEF IInv, Entries
  <2>. QED
    BY <1>2, <2>1, Sets, PlanFixed DEF IInv, FirstWalk, Quit, Goto, docker, disk
<1>. QED
  BY <1>1, <1>2

(* One lemma per group of steps of a first walk.                           *)
LEMMA WalkPlain ==
    ASSUME IInv, FirstWalk, Launch \/ SkipEntry \/ TakeEntry \/ Stop \/ Remove \/ EndTakeover
    PROVE  FirstWalk'
<1>1. UNCHANGED <<plan, reclaim, newc, helper, newVol, srcVol, row, wiped>>
  BY DEF Launch, SkipEntry, TakeEntry, Stop, Remove, EndTakeover, docker, disk, memory,
         helpers, earlier
<1>2. pc \notin {"start", "record", "copy_start", "copy_wait", "copying", "reclaim"}
        /\ pc' \notin {"start", "record", "copy_start", "copy_wait", "copying", "reclaim"}
  BY DEF Launch, SkipEntry, TakeEntry, Stop, Remove, EndTakeover, Goto
<1>3. \A j \in Claimed : j < cur' <=> j < cur
  BY Sets DEF IInv, Launch, SkipEntry, TakeEntry, Stop, Remove, EndTakeover, memory,
         helpers, earlier
<1>. QED
  BY <1>1, <1>2, <1>3, PlanFixed DEF FirstWalk, HandedOver, Expected, Src

LEMMA WalkCopy ==
    ASSUME IInv, FirstWalk, ~Fault,
           \/ ClearVolume \/ CopyCreate \/ CopyStart \/ CopyWait
           \/ \E i \in DBs : CopyEnds(i)
    PROVE  FirstWalk'
<1>1. UNCHANGED <<plan, cur, reclaim, newc, row, wiped>>
  BY DEF FirstWalk, ClearVolume, CopyCreate, CopyStart, CopyWait, CopyEnds, docker, disk,
         memory, helpers, earlier
<1>2. pc \in CopySteps /\ pc' \in CopySteps \cup {"create"}
  BY DEF FirstWalk, ClearVolume, CopyCreate, CopyStart, CopyWait, CopyEnds, Waited, Goto,
         CopySteps
<1>3. \A i \in DBs : helper'[i] # "none" =>
        i = cur /\ pc' \in {"copy_start", "copy_wait", "copying"}
  BY DEF FirstWalk, ClearVolume, CopyCreate, CopyStart, CopyWait, CopyEnds, Waited, Goto,
         docker, helpers, earlier, IInv, TypeOK
<1>4. pc' \in {"copy_wait", "copying"} => helper'[cur] = "running"
  BY Sets DEF FirstWalk, ClearVolume, CopyCreate, CopyStart, CopyWait, CopyEnds, Waited, Goto,
         docker, helpers, earlier, IInv, TypeOK, Position, CopySteps
<1>. QED
  BY <1>1, <1>2, <1>3, <1>4, PlanFixed DEF FirstWalk, HandedOver, Expected, Src, CopySteps

LEMMA WalkCreate ==
    ASSUME IInv, FirstWalk, Create \/ Start
    PROVE  FirstWalk'
<1>1. UNCHANGED <<plan, cur, reclaim, helper, row, wiped>> /\ cur \in Claimed
  BY Sets DEF Create, Start, disk, memory, helpers, earlier, IInv, Position, Working
<1>2. pc \in {"create", "start"} /\ pc' \in {"start", "record"}
  BY DEF Create, Start, Goto
<1>3. \A j \in Claimed : j # cur => newc'[j] = newc[j]
  BY Sets DEF Create, Start, IInv, TypeOK
<1>4. /\ pc' = "start" => Src(cur) \in plan.running
      /\ pc' = "record" => newc'[cur] = Expected(cur)
  BY <1>1, Sets DEF FirstWalk, Create, Start, Goto, Expected, IInv, TypeOK
<1>5. \A j \in Claimed : j < cur => j # cur
  BY Sets DEF IInv
<1>. QED
  BY <1>1, <1>2, <1>3, <1>4, <1>5, PlanFixed DEF FirstWalk, HandedOver, Expected, Src

LEMMA WalkRecord ==
    ASSUME IInv, FirstWalk, Record, ~Fault
    PROVE  FirstWalk'
<1>1. UNCHANGED <<plan, newc, helper, newVol, wiped>> /\ cur' = cur + 1 /\ pc = "record"
        /\ pc' = "entry" /\ row' = [row EXCEPT ![cur] = "new"]
        /\ reclaim \subseteq reclaim' /\ (cur \in DBs => Src(cur) \in reclaim')
  BY DEF Record, docker, disk, Goto
<1>2. \A j \in Claimed : j < cur + 1 <=> j < cur \/ j = cur
  BY Sets DEF IInv
<1>3. cur \in Claimed
  BY <1>1, Sets DEF IInv, Position, Working
<1>4. \A j \in Claimed : j < cur' => HandedOver(j)'
  BY <1>1, <1>2, <1>3, Sets, PlanFixed DEF FirstWalk, HandedOver, Expected, Src, IInv, TypeOK
<1>. QED
  BY <1>1, <1>2, <1>4, PlanFixed DEF FirstWalk

LEMMA WalkWipe ==
    ASSUME IInv, FirstWalk, faults = 0, ~Fault, BeginWipe \/ Reclaim
    PROVE  FirstWalk'
<1>1. UNCHANGED <<plan, cur, newc, helper, newVol, row>> /\ pc \in AfterLoop /\ pc' = "reclaim"
        /\ wiped' = "begun"
  BY DEF FirstWalk, BeginWipe, Reclaim, docker, memory, helpers, earlier, disk, AfterLoop, Goto
<1>2. \A i \in Located : srcVol[Src(i)] = "none" => srcVol'[Src(i)] = "none"
  BY Sets DEF BeginWipe, Reclaim, docker, IInv, TypeOK
<1>3. \A i \in Located : i < cur /\ Src(i) \in reclaim =>
        Src(i) \in reclaim' \/ srcVol'[Src(i)] = "none"
  <2>1. CASE BeginWipe
    BY <2>1 DEF BeginWipe, memory, helpers, earlier
  <2>2. CASE Reclaim
    <3>. SUFFICES ASSUME NEW i \in Located, i < cur, Src(i) \in reclaim, Src(i) \notin reclaim'
                  PROVE  srcVol'[Src(i)] = "none"
      OBVIOUS
    <3>1. v3c[Src(i)] = "gone" /\ Src(i) \in Workloads
      BY Sets DEF IInv, LoopDone, Replaced
    <3>2. \A k \in DBs : ~Helped(k)
      BY <2>2, NoneLeftBehind DEF FirstWalk, Reclaim, Helped
    <3>3. ~SrcVolInUse(Src(i))
      BY <3>1, <3>2 DEF SrcVolInUse
    <3>. QED
      BY <2>2, <3>1, <3>3 DEF Reclaim, IInv, TypeOK
  <2>. QED
    BY <2>1, <2>2
<1>. QED
  BY <1>1, <1>2, <1>3, PlanFixed DEF FirstWalk, HandedOver, Expected, Src, AfterLoop

LEMMA WalkFinish ==
    ASSUME IInv, FirstWalk, faults = 0, Finish
    PROVE  Migrated'
<1>1. \A j \in Claimed : HandedOver(j)
  <2>1. \A j \in Claimed : j < cur
    BY Sets, ConstantsAssumption DEF IInv, Finish, Position, AfterLoop, TypeOK, Entries
  <2>. QED
    BY <2>1 DEF FirstWalk
<1>2. Located \subseteq Claimed
  BY Sets DEF IInv
<1>. QED
  BY <1>1, <1>2, PlanFixed, NoneLeftBehind
  DEF FirstWalk, HandedOver, Expected, Finish, Migrated, AllTaken, TakenOver, Quit, Goto,
      docker, Src

LEMMA WalkStep ==
    ASSUME IInv, FirstWalk, faults = 0, [Next]_vars, ~Fault
    PROVE  FirstWalk' \/ Stuck' \/ Migrated'
<1>1. CASE ClearInUse \/ CreateConflict
  <2>1. cur \in Claimed /\ ~(cur < cur) /\ (pc = "clear" => cur \in DBs)
    BY <1>1, Sets DEF ClearInUse, CreateConflict, IInv, Position, Working, CopySteps
  <2>. QED
    BY <1>1, <2>1, NoneLeftBehind DEF ClearInUse, CreateConflict, NewVolInUse, Helped, FirstWalk
<1>2. CASE NoVolume \/ KeepV3
  BY <1>2, WalkEnds DEF NoVolume, KeepV3, FirstWalk
<1>3. CASE CopyWait /\ Quit
  BY <1>3 DEF FirstWalk, CopyWait, Quit, Goto
<1>4. CASE Stopped \/ UNCHANGED vars
  BY <1>4, PlanFixed DEF Stopped, vars, FirstWalk, HandedOver, Expected, Src
<1>5. ~\E i \in DBs : StrayEnds(i) \/ StrayFails(i)
  BY NoneLeftBehind DEF StrayEnds, StrayFails
<1>. QED
  BY <1>1, <1>2, <1>3, <1>4, <1>5, WalkPlain, WalkCopy, WalkCreate, WalkRecord, WalkWipe,
     WalkFinish
  DEF Next, Process, ClearSkipped, CopyFails, Fail

(* Once everything is taken over and the hand-off file is gone, nothing    *)
(* happens any more.                                                       *)
LEMMA MigratedStep ==
    ASSUME Migrated, [Next]_vars
    PROVE  Migrated'
<1>1. UNCHANGED vars
  BY DEF Migrated, Next, Process, Launch, SkipEntry, NoVolume, TakeEntry, Stop, Remove,
         ClearVolume, ClearInUse, ClearSkipped, CopyCreate, CopyStart, CopyWait, CopyEnds,
         CopyFails, StrayEnds, StrayFails, Create, CreateConflict, Start, Record,
         EndTakeover, KeepV3, BeginWipe,
         Reclaim, Finish, Fail, Stopped
<1>. QED
  BY <1>1, PlanFixed DEF vars, Migrated, AllTaken, TakenOver, Src

LEMMA FInvInit == Init => FInv
<1>. SUFFICES ASSUME Init PROVE FirstWalk
  BY DEF FInv
<1>1. TypeOK
  BY InitInv DEF IInv
<1>2. \A j \in Claimed : ~(j < 1)
  BY <1>1, Sets DEF Entries
<1>. QED
  BY <1>1, <1>2, Sets DEF Init, FirstWalk

LEMMA FInvNext == IInv /\ FInv /\ [Next]_vars => FInv'
<1>. SUFFICES ASSUME IInv, FInv, [Next]_vars, faults' = 0
              PROVE  FirstWalk' \/ Stuck' \/ Migrated'
  BY DEF FInv
<1>1. faults = 0 /\ ~Fault
  BY NoFault DEF IInv
<1>. QED
  BY <1>1, StuckStep, WalkStep, MigratedStep DEF FInv

(* A migration that met no fault leaves nothing behind: when the wipe is   *)
(* done every matched entry runs as v3 ran it, its row names its container *)
(* and the v3 volume it was copied from is gone.                           *)
THEOREM FaultlessRunFinishes == Spec => []FaultlessFinish
<1>1. IInv /\ FInv => FaultlessFinish
  BY DEF FInv, FirstWalk, Stuck, Migrated, AllTaken, FaultlessFinish
<1>2. Spec => []FInv
  BY FInvInit, FInvNext, Invariance, PTL DEF Spec
<1>. QED
  BY <1>1, <1>2, Invariance, PTL

(* Between two launches nothing is being worked on.                        *)
AtRest == pc = "idle" => cur = 1

LEMMA AtRestAlways == Spec => []AtRest
<1>1. Init => AtRest
  BY DEF Init, AtRest
<1>2. AtRest /\ [Next]_vars => AtRest'
  <2>. SUFFICES ASSUME AtRest, [Next]_vars, pc' = "idle"
                PROVE  cur' = 1
    BY DEF AtRest
  <2>1. Quit \/ UNCHANGED <<pc, cur>>
    BY DEF Next, Process, Launch, SkipEntry, NoVolume, TakeEntry, Stop, Remove, ClearVolume,
           ClearInUse, ClearSkipped, CopyCreate, CopyStart, CopyWait, CopyEnds, CopyFails,
           StrayEnds, StrayFails,
           Create, CreateConflict, Start, Record, EndTakeover, KeepV3, BeginWipe, Reclaim,
           Finish, Fail, Stopped, vars, memory, Goto
  <2>. QED
    BY <2>1 DEF Quit, AtRest
<1>. QED
  BY <1>1, <1>2, PTL DEF Spec

(* The other side of the same argument, with any number of faults and       *)
(* whatever VolumeInspect reports: once a launch has ended, however it     *)
(* ended, short of the wipe and with a container created, no later launch  *)
(* ever begins the wipe.                                                   *)
GivenUp == pc = "idle" /\ wiped = "no" /\ \E j \in Claimed : newc[j] # "none"

THEOREM GivenUpForGood == Spec => [](GivenUp => [](wiped = "no"))
<1>1. IInv /\ AtRest /\ GivenUp => Stuck
  BY Sets DEF IInv, AtRest, GivenUp, Stuck, StuckAt, Entries
<1>2. IInv /\ Stuck /\ [Next]_vars => Stuck'
  BY StuckStep
<1>3. Stuck => wiped = "no"
  BY DEF Stuck
<1>. QED
  BY <1>1, <1>2, <1>3, Invariance, AtRestAlways, PTL DEF Spec

-----------------------------------------------------------------------------
(* A launch ends.  What is left of it is a number that every step of the   *)
(* program lowers: entries to come, then steps of the entry, then volumes  *)
(* to reclaim.                                                             *)
Rank(l) ==
    CASE l = "entry" -> 1 [] l = "stop" -> 2 [] l = "remove" -> 3 [] l = "clear" -> 4
      [] l = "copy_create" -> 5 [] l = "copy_start" -> 6 [] l = "copy_wait" -> 7
      [] l = "copying" -> 8 [] l = "create" -> 9 [] l = "start" -> 10
      [] l = "record" -> 11 [] l = "gate" -> 12 [] l = "reclaim" -> 13
      [] OTHER -> 0

StepsLeft == 16 * (NApps + NDBs + 1 - cur) + (13 - Rank(pc)) + Cardinality(reclaim)

(* Nor is it ever without a next step: what the copy of a volume waits for *)
(* is there.                                                               *)
Attended ==
    /\ \A i \in DBs : NewVolInUse(i) => newVol[i] # "none"
    /\ pc = "copy_start" => helper[cur] = "created"
    /\ pc = "copy_wait" => helper[cur] \in {"running", "none"}
    /\ pc = "copying" => helper[cur] = "running"
    /\ pc = "create" /\ cur \in DBs => newVol[cur] # "none"

EInv == IsFiniteSet(reclaim) /\ Attended

LEMMA EInitially == Init => EInv
  BY InitInv, Sets, FS_EmptySet DEF Init, IInv, EInv, Attended, NewVolInUse, Helped

LEMMA AttendedStep ==
    ASSUME IInv, Attended, [Next]_vars
    PROVE  Attended'
<1>. DEFINE Waits == {"copy_start", "copy_wait", "copying", "create"}
<1>1. /\ DBs \subseteq Entries /\ Apps \cap DBs = {} /\ newVol \in [DBs -> VolumeStates]
      /\ helper \in [DBs -> {"none", "created", "running"}]
      /\ strays \in [DBs -> Nat]
      /\ newc \in [Entries -> {"none", "created", "running"}]
      /\ pc \in CopySteps => cur \in DBs
  BY Sets DEF IInv, TypeOK, Position
<1>2. CASE /\ UNCHANGED <<newc, helper, strays, unstarted, newVol>>
           /\ pc' \notin Waits \/ UNCHANGED <<pc, cur>>
  BY <1>2 DEF Attended, NewVolInUse, Helped
<1>11. CASE Remove
  BY <1>1, <1>11 DEF Attended, NewVolInUse, Helped, Remove, helpers, memory, Goto
<1>3. CASE ClearVolume
  BY <1>1, <1>3 DEF Attended, NewVolInUse, Helped, ClearVolume, helpers, Goto
<1>4. CASE CopyCreate
  <2>1. cur \in DBs /\ newVol'[cur] # "none" /\ helper'[cur] = "created"
    BY <1>1, <1>4 DEF CopyCreate, CopySteps
  <2>2. \A i \in DBs \ {cur} : /\ newVol'[i] = newVol[i] /\ helper'[i] = helper[i]
                              /\ strays'[i] = strays[i] /\ (i \in unstarted' <=> i \in unstarted)
    BY <1>1, <1>4 DEF CopyCreate
  <2>. QED
    BY <1>4, <2>1, <2>2 DEF Attended, NewVolInUse, Helped, CopyCreate, Goto, memory
<1>5. CASE CopyStart
  <2>1. cur \in DBs /\ helper'[cur] = "running"
    BY <1>1, <1>5 DEF CopyStart, CopySteps
  <2>2. newVol'[cur] # "none"
    BY <1>1, <1>5, <2>1 DEF CopyStart, Attended, NewVolInUse, Helped, Overwritten
  <2>3. \A i \in DBs \ {cur} : newVol'[i] = newVol[i] /\ helper'[i] = helper[i]
    BY <1>1, <1>5 DEF CopyStart
  <2>. QED
    BY <1>5, <2>1, <2>2, <2>3 DEF Attended, NewVolInUse, Helped, CopyStart, Goto, memory,
           earlier
<1>6. CASE CopyWait
  BY <1>6 DEF Attended, NewVolInUse, Helped, CopyWait, Quit, Goto, docker, memory
<1>7. ASSUME NEW i \in DBs, CopyEnds(i) \/ CopyFails(i)
      PROVE  Attended'
  <2>1. /\ helper[i] = "running" /\ helper'[i] = "none"
        /\ UNCHANGED <<newc, strays, unstarted>>
        /\ \A j \in DBs \ {i} : helper'[j] = helper[j]
    BY <1>1, <1>7 DEF CopyEnds, CopyFails, earlier
  <2>2. \A j \in DBs : newVol[j] # "none" => newVol'[j] # "none"
    BY <1>1, <1>7 DEF CopyEnds, CopyFails, Finished, CutOff
  <2>3. (\A j \in DBs : NewVolInUse(j) => newVol[j] # "none")'
    BY <2>1, <2>2 DEF Attended, NewVolInUse, Helped
  <2>4. CASE Waited(i)
    <3>1. newVol'[i] # "none"
      BY <2>1, <2>2 DEF Attended, NewVolInUse, Helped
    <3>2. pc' \notin Waits \/ (pc' = "create" /\ cur' = i)
      BY <1>7, <2>4 DEF CopyEnds, CopyFails, Waited, Quit, Goto, memory
    <3>. QED
      BY <2>3, <3>1, <3>2 DEF Attended
  <2>5. CASE ~Waited(i)
    <3>1. UNCHANGED <<pc, cur>>
      BY <1>7, <2>5 DEF CopyEnds, CopyFails, memory
    <3>. QED
      BY <1>1, <2>1, <2>2, <2>3, <2>5, <3>1 DEF Attended, Waited, CopySteps
  <2>. QED
    BY <2>4, <2>5
<1>12. ASSUME NEW i \in DBs, StrayEnds(i) \/ StrayFails(i)
       PROVE  Attended'
  <2>1. /\ UNCHANGED <<pc, cur, newc, helper, unstarted>>
        /\ \A j \in DBs : strays'[j] > 0 => strays[j] > 0
    BY <1>1, <1>12 DEF StrayEnds, StrayFails, memory
  <2>2. \A j \in DBs : newVol[j] # "none" => newVol'[j] # "none"
    BY <1>1, <1>12 DEF StrayEnds, StrayFails, Finished, CutOff
  <2>. QED
    BY <2>1, <2>2 DEF Attended, NewVolInUse, Helped
<1>8. CASE Create
  <2>1. cur \in DBs => newVol[cur] # "none"
    BY <1>8 DEF Attended, Create
  <2>2. \A i \in Entries \ {cur} : newc'[i] = newc[i]
    BY <1>1, <1>8 DEF Create
  <2>. QED
    BY <1>1, <1>8, <2>1, <2>2 DEF Attended, NewVolInUse, Helped, Create, helpers, Goto
<1>9. CASE Start
  <2>1. newc[cur] # "none" /\ \A i \in Entries \ {cur} : newc'[i] = newc[i]
    BY <1>1, <1>9 DEF Start, IInv, Position
  <2>2. \A i \in DBs : newVol[i] # "none" => newVol'[i] # "none"
    BY <1>9 DEF Start, Opened
  <2>. QED
    BY <1>1, <1>9, <2>1, <2>2 DEF Attended, NewVolInUse, Helped, Start, helpers, Goto
<1>10. \/ /\ UNCHANGED <<newc, helper, strays, unstarted, newVol>>
          /\ pc' \notin Waits \/ UNCHANGED <<pc, cur>>
       \/ Remove \/ ClearVolume \/ CopyCreate \/ CopyStart \/ CopyWait \/ Create \/ Start
       \/ \E i \in DBs : CopyEnds(i) \/ CopyFails(i) \/ StrayEnds(i) \/ StrayFails(i)
  BY DEF Next, Process, Launch, SkipEntry, NoVolume, TakeEntry, Stop, ClearInUse,
         ClearSkipped, CreateConflict, Record, EndTakeover, KeepV3, BeginWipe, Reclaim,
         Finish, Fail, Stopped, Quit, Goto, docker, helpers, vars
<1>. QED
  BY <1>2, <1>3, <1>4, <1>5, <1>6, <1>7, <1>8, <1>9, <1>10, <1>11, <1>12

LEMMA ReclaimFinite ==
    ASSUME IsFiniteSet(reclaim), [Next]_vars
    PROVE  IsFiniteSet(reclaim')
<1>1. CASE reclaim' = reclaim \/ reclaim' = {}
  BY <1>1, FS_EmptySet
<1>2. CASE Record
  BY <1>2, FS_AddElement DEF Record
<1>3. CASE Reclaim
  BY <1>3, FS_RemoveElement DEF Reclaim
<1>. QED
  BY <1>1, <1>2, <1>3
  DEF Next, Process, Launch, SkipEntry, NoVolume, TakeEntry, Stop, Remove, ClearVolume,
      ClearInUse, ClearSkipped, CopyCreate, CopyStart, CopyWait, CopyEnds, CopyFails,
      StrayEnds, StrayFails,
      Create, CreateConflict, Start, EndTakeover, KeepV3, BeginWipe, Finish, Fail,
      Stopped, Quit, memory, vars

LEMMA EStep == IInv /\ EInv /\ [Next]_vars => EInv'
  BY AttendedStep, ReclaimFinite DEF EInv

(* The three ways in which a step gets a launch further.                   *)
LEMMA Further ==
    ASSUME TypeOK, TypeOK', IsFiniteSet(reclaim), IsFiniteSet(reclaim'),
           \/ cur' = cur /\ reclaim' = reclaim /\ Rank(pc) < Rank(pc')
           \/ cur' = cur + 1 /\ reclaim' = reclaim /\ pc = "entry" /\ pc' = "entry"
           \/ /\ cur' = cur + 1 /\ pc = "record" /\ pc' = "entry"
              /\ \E w : reclaim' = reclaim \/ reclaim' = reclaim \cup {w}
           \/ /\ cur' = cur /\ pc' = pc
              /\ \E w \in reclaim : reclaim' = reclaim \ {w}
    PROVE  StepsLeft' \in Nat /\ StepsLeft' < StepsLeft
<1>. DEFINE n == Cardinality(reclaim)
            m == Cardinality(reclaim')
            t == NApps + NDBs + 1 - cur
<1>1. n \in Nat /\ m \in Nat
  BY FS_CardinalityType
<1>2. /\ NApps \in Nat /\ NDBs \in Nat /\ cur \in Nat /\ cur' \in Nat
      /\ t \in Nat /\ NApps + NDBs + 1 - cur' \in Nat
  <2>1. ASSUME NEW c, c \in 1 .. (NApps + NDBs + 1)
        PROVE  c \in Nat /\ NApps + NDBs + 1 - c \in Nat
    BY <2>1, ConstantsAssumption
  <2>2. cur \in 1 .. (NApps + NDBs + 1) /\ cur' \in 1 .. (NApps + NDBs + 1)
    BY DEF TypeOK
  <2>3. cur' \in Nat /\ NApps + NDBs + 1 - cur' \in Nat
    BY <2>1, <2>2
  <2>. QED
    BY <2>1, <2>2, <2>3, ConstantsAssumption
<1>3. \A l : Rank(l) \in 0 .. 13
  BY DEF Rank
<1>4. Rank("entry") = 1 /\ Rank("record") = 11
  BY DEF Rank
<1>5. StepsLeft' = 16 * (NApps + NDBs + 1 - cur') + (13 - Rank(pc')) + m
  BY DEF StepsLeft, Rank
<1>6. StepsLeft = 16 * t + (13 - Rank(pc)) + n
  BY DEF StepsLeft
<1>. DEFINE r == Rank(pc)
            q == Rank(pc')
<1>7. r \in 0 .. 13 /\ q \in 0 .. 13
  BY <1>3
<1>8. CASE cur' = cur /\ reclaim' = reclaim /\ r < q
  <2>. HIDE DEF r, q, n, m
  <2>1. 16 * (NApps + NDBs + 1 - cur') = 16 * t
    BY <1>8
  <2>2. m = n
    BY <1>8 DEF n, m
  <2>. QED
    BY <1>1, <1>2, <1>5, <1>6, <1>7, <1>8, <2>1, <2>2 DEF r, q
<1>9. CASE cur' = cur + 1 /\ reclaim' = reclaim /\ pc = "entry" /\ pc' = "entry"
  BY <1>1, <1>2, <1>4, <1>5, <1>6, <1>9
<1>10. CASE /\ cur' = cur + 1 /\ pc = "record" /\ pc' = "entry"
            /\ \E w : reclaim' = reclaim \/ reclaim' = reclaim \cup {w}
  <2>1. m =< n + 1
    BY <1>1, <1>10, FS_AddElement
  <2>. QED
    BY <1>1, <1>2, <1>4, <1>5, <1>6, <1>10, <2>1
<1>11. CASE cur' = cur /\ pc' = pc /\ \E w \in reclaim : reclaim' = reclaim \ {w}
  <2>1. m = n - 1
    BY <1>11, FS_RemoveElement
  <2>. QED
    BY <1>1, <1>2, <1>5, <1>6, <1>7, <1>11, <2>1
<1>. QED
  BY <1>8, <1>9, <1>10, <1>11

(* Every step of the program ends the launch or leaves it with less to do, *)
(* and nothing else gives it more: the safety half of RunReturns.          *)
LaunchesShrink ==
    [][pc # "idle" /\ pc' # "idle" =>
          \/ StepsLeft' \in Nat /\ StepsLeft' < StepsLeft
          \/ ~Process /\ UNCHANGED <<pc, memory>>]_vars

THEOREM LaunchIsBounded == Spec => LaunchesShrink
<1>1. ASSUME IInv, IInv', EInv, EInv', Next, pc # "idle", pc' # "idle"
      PROVE  \/ StepsLeft' \in Nat /\ StepsLeft' < StepsLeft
             \/ ~Process /\ UNCHANGED <<pc, memory>>
  <2>. DEFINE Shorter == StepsLeft' \in Nat /\ StepsLeft' < StepsLeft
  <2>1. TypeOK /\ TypeOK' /\ IsFiniteSet(reclaim) /\ IsFiniteSet(reclaim')
    BY <1>1 DEF IInv, EInv
  <2>2. CASE UNCHANGED memory /\ Rank(pc) < Rank(pc')
    BY <2>1, <2>2, Further DEF memory
  <2>3. CASE \/ TakeEntry \/ Stop \/ Remove \/ ClearVolume \/ ClearSkipped \/ CopyCreate
             \/ CopyStart \/ CopyWait \/ Create \/ Start \/ EndTakeover \/ BeginWipe
    <3>1. UNCHANGED memory /\ Rank(pc) < Rank(pc')
      BY <1>1, <2>3
      DEF TakeEntry, Stop, Remove, ClearVolume, ClearSkipped, CopyCreate, CopyStart, CopyWait,
          Create, Start, EndTakeover, BeginWipe, Quit, Goto, memory, Rank
    <3>. QED
      BY <2>2, <3>1
  <2>4. CASE SkipEntry
    BY <2>1, <2>4, Further DEF SkipEntry
  <2>5. CASE Record
    <3>1. \E w : reclaim' = reclaim \/ reclaim' = reclaim \cup {w}
      BY <2>5 DEF Record
    <3>. QED
      BY <2>1, <2>5, <3>1, Further DEF Record, Goto
  <2>6. CASE Reclaim
    BY <2>1, <2>6, Further DEF Reclaim
  <2>7. ASSUME NEW i \in DBs, CopyEnds(i) \/ CopyFails(i)
        PROVE  Shorter \/ (~Process /\ UNCHANGED <<pc, memory>>)
    <3>1. CASE Waited(i)
      <4>1. UNCHANGED memory /\ Rank(pc) < Rank(pc')
        BY <1>1, <2>7, <3>1 DEF CopyEnds, CopyFails, Waited, Quit, Goto, memory, Rank
      <4>. QED
        BY <2>2, <4>1
    <3>2. CASE ~Waited(i)
      <4>1. UNCHANGED <<pc, memory>>
        BY <2>7, <3>2 DEF CopyEnds, CopyFails
      <4>. QED
        BY <1>1, <2>3, <2>4, <2>5, <2>6, <4>1
        DEF Process, NoVolume, ClearInUse, CreateConflict, KeepV3, Finish, Quit, Goto, memory
    <3>. QED
      BY <3>1, <3>2
  <2>8. ASSUME NEW i \in DBs, StrayEnds(i) \/ StrayFails(i)
        PROVE  Shorter \/ (~Process /\ UNCHANGED <<pc, memory>>)
    <3>1. UNCHANGED <<pc, memory>>
      BY <2>8 DEF StrayEnds, StrayFails
    <3>. QED
      BY <1>1, <2>3, <2>4, <2>5, <2>6, <3>1
      DEF Process, NoVolume, ClearInUse, CreateConflict, KeepV3, Finish, Quit, Goto, memory
  <2>. QED
    BY <1>1, <2>3, <2>4, <2>5, <2>6, <2>7, <2>8
    DEF Next, Process, Launch, NoVolume, ClearInUse, CreateConflict, KeepV3, Finish, Fail,
        Stopped, Quit, Goto
<1>2. Spec => []EInv
  BY EInitially, EStep, Invariance, PTL DEF Spec
<1>. QED
  BY <1>1, <1>2, Invariance, PTL DEF Spec, LaunchesShrink

(* No launch is wedged: in every state of one, some step of the program or *)
(* the end of the copy it waits for can happen.                            *)
CanGoOn ==
    \/ pc = "entry" /\ cur \in (Entries \ Claimed) \cup ((Claimed \cap DBs) \ Located)
    \/ pc = "entry" /\ cur \in (Claimed \cap Apps) \cup Located
    \/ pc = "entry" /\ cur \notin Entries
    \/ pc \in {"stop", "remove", "copy_create", "copy_start", "create", "start", "record"}
    \/ pc = "clear" /\ (NewVolInUse(cur) => newVol[cur] # "none")
    \/ pc = "copy_wait" /\ helper[cur] \in {"running", "none"}
    \/ pc = "copying" /\ cur \in DBs /\ helper[cur] = "running"
    \/ pc \in {"gate", "reclaim"}

THEOREM LaunchNeverWedged == Spec => [](pc # "idle" => CanGoOn)
<1>1. ASSUME IInv, EInv, pc # "idle"
      PROVE  CanGoOn
  <2>1. CASE pc = "entry"
    BY <1>1, <2>1, Sets DEF IInv, CanGoOn
  <2>2. CASE pc \in {"clear", "copy_wait", "copying"}
    BY <1>1, <2>2, Sets DEF IInv, EInv, Attended, Position, CopySteps, CanGoOn
  <2>. QED
    BY <1>1, <2>1, <2>2 DEF IInv, TypeOK, Steps, CanGoOn
<1>2. Spec => []EInv
  BY EInitially, EStep, Invariance, PTL DEF Spec
<1>. QED
  BY <1>1, <1>2, Invariance, PTL

=============================================================================
