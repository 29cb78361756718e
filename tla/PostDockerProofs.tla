-------------------------- MODULE PostDockerProofs --------------------------
(***************************************************************************)
(* Proofs of PostDocker's safety properties for every number of entries,   *)
(* every plan and every number of faults.                                  *)
(*                                                                         *)
(* The heart of the inductive invariant is Prefix: because a launch walks  *)
(* the entries in a fixed order, gives up at the first failure and cannot  *)
(* get past a container it has already created, a v3 container is only     *)
(* ever removed when everything before it in the plan has been replaced.   *)
(***************************************************************************)
EXTENDS PostDockerProps, TLAPS

CopySteps == {"clear", "copy_create", "copy_start", "copy_wait", "copying"}
Working   == {"stop", "remove", "create", "start", "record"} \cup CopySteps
Removed   == {"create", "start", "record"} \cup CopySteps
AfterLoop == {"gate", "reclaim"}

(* Where a launch is tells which entry it works on and what it has done.   *)
Position ==
    /\ pc \in Working => cur \in (Claimed \cap Apps) \cup Located
    /\ pc \in CopySteps => cur \in Located
    /\ pc \in Removed => v3c[Src(cur)] = "gone"
    /\ pc \in {"start", "record"} => newc[cur] # "none"
    /\ pc \in AfterLoop => cur \notin Entries
    /\ pc = "reclaim" => Orphans = {}

(* Every matched entry before the current one has its container.           *)
LoopDone == \A j \in Claimed : j < cur => newc[j] # "none"

(* A removed v3 container belongs to an entry all of whose predecessors    *)
(* have their containers.                                                  *)
Prefix ==
    \A w \in Workloads : v3c[w] = "gone" =>
        \E m \in Claimed : Src(m) = w /\ \A j \in Claimed : j < m => newc[j] # "none"

(* Containers and helpers exist only where v3's container is gone.         *)
Replaced ==
    /\ \A i \in Entries : newc[i] # "none" =>
          /\ i \in (Claimed \cap Apps) \cup Located
          /\ v3c[Src(i)] = "gone"
    /\ \A i \in DBs : Helped(i) =>
          /\ i \in Located
          /\ v3c[Src(i)] = "gone"

(* An earlier helper is left beside a newer one only after a VolumeInspect *)
(* has failed, which is a fault.                                           *)
Recalled ==
    /\ misread => faults > 0
    /\ crowded => misread
    /\ crowded \/ \A i \in DBs : strays[i] = 0 /\ i \notin unstarted

(* Until then a helper meets neither a database nor another helper.        *)
Apart ==
    misread \/
    /\ \A i \in DBs : helper[i] = "none" \/ newc[i] = "none"
    /\ pc \in CopySteps \ {"clear"} => newc[cur] = "none"
    /\ pc = "copy_create" => helper[cur] = "none"

(* What a new volume holds while no container has been created on it, and  *)
(* what is copied when no two helpers of an entry have met.                *)
CopyState ==
    /\ \A i \in DBs : newc[i] = "none" => newVol[i] \notin {"live", "mixed"}
    /\ pc = "create" /\ cur \in DBs => helper[cur] = "none"

Copied ==
    crowded \/
    /\ \A i \in DBs : newc[i] = "none" /\ helper[i] = "running" => newVol[i] = "partial"
    /\ pc = "create" /\ cur \in DBs /\ newc[cur] = "none" => newVol[cur] = "copy"
    /\ pc \in {"start", "record"} /\ cur \in DBs => newVol[cur] \in Good

(* A source is given up only when the takeover is complete, and a good     *)
(* copy of it pinned unless two helpers have met.                          *)
StandsIn(i, w) == Src(i) = w /\ newc[i] # "none" /\ newVol[i] \in Good

SourceSafe ==
    \A w \in plan.vols : srcVol[w] = "data" \/
        /\ crowded \/ \E i \in Located : StandsIn(i, w)
        /\ \A j \in Claimed : newc[j] # "none"

(* What this launch will reclaim has a good copy.                          *)
ReclaimSafe ==
    crowded \/ \A w \in reclaim : \E i \in Located : i < cur /\ StandsIn(i, w)

(* Once the wipe has begun the takeover is complete for good.              *)
WipeSafe ==
    wiped # "no" => Orphans = {} /\ \A i \in Claimed : newc[i] # "none"

IInv ==
    /\ TypeOK
    /\ Position
    /\ LoopDone
    /\ Prefix
    /\ Replaced
    /\ Recalled
    /\ Apart
    /\ CopyState
    /\ Copied
    /\ SourceSafe
    /\ ReclaimSafe
    /\ WipeSafe

-----------------------------------------------------------------------------
(* What the type invariant says of the sets the model is built from.       *)
LEMMA Sets ==
    ASSUME TypeOK
    PROVE  /\ Apps \subseteq Entries /\ DBs \subseteq Entries
           /\ Entries \subseteq Apps \cup DBs /\ Apps \cap DBs = {}
           /\ Claimed \subseteq Entries
           /\ Located \subseteq Claimed \cap DBs
           /\ \A i \in Claimed : Src(i) \in Workloads
           /\ \A i \in Located : Src(i) \in plan.vols
           /\ \A i \in Entries : i \in Nat
           /\ cur \in Nat
  BY ConstantsAssumption DEF TypeOK, PlanType, Entries, Apps, DBs, Claimed, Located, Src

(* The plan never changes, and nothing derived from it does.               *)
LEMMA PlanFixed ==
    ASSUME UNCHANGED plan
    PROVE  /\ Claimed' = Claimed /\ Located' = Located /\ Orphans' = Orphans
           /\ \A i : plan'.claim[i] = plan.claim[i]
           /\ plan'.vols = plan.vols
  BY DEF Claimed, Located, Orphans, Src

(* A step that removes no v3 container and no coolifygo container keeps    *)
(* the prefix property.                                                    *)
LEMMA PrefixStable ==
    ASSUME TypeOK, Prefix, UNCHANGED plan,
           \A w \in Workloads : v3c'[w] = "gone" => v3c[w] = "gone",
           \A i \in Entries : newc[i] # "none" => newc'[i] # "none"
    PROVE  Prefix'
  BY Sets, PlanFixed DEF Prefix, Src

LEMMA SourceStable ==
    ASSUME TypeOK, SourceSafe, UNCHANGED plan, crowded => crowded',
           \A w \in plan.vols : srcVol[w] = "data" => srcVol'[w] = "data",
           \A i \in Entries : newc[i] # "none" => newc'[i] # "none",
           crowded' \/ \A i \in Located : newVol[i] \in Good /\ newc[i] # "none"
                                 /\ srcVol[Src(i)] # "data" => newVol'[i] \in Good
    PROVE  SourceSafe'
  BY Sets, PlanFixed DEF SourceSafe, StandsIn, Src

LEMMA ReclaimStable ==
    ASSUME TypeOK, ReclaimSafe, UNCHANGED plan, reclaim' \subseteq reclaim,
           cur' \in Nat, cur =< cur', crowded => crowded',
           \A i \in Entries : newc[i] # "none" => newc'[i] # "none",
           crowded' \/ \A i \in Located : i < cur /\ newVol[i] \in Good => newVol'[i] \in Good
    PROVE  ReclaimSafe'
  BY Sets, PlanFixed DEF ReclaimSafe, StandsIn, Src

LEMMA WipeStable ==
    ASSUME TypeOK, WipeSafe, UNCHANGED <<plan, wiped>>,
           \A i \in Entries : newc[i] # "none" => newc'[i] # "none"
    PROVE  WipeSafe'
  BY Sets, PlanFixed DEF WipeSafe

LEMMA RecalledStable ==
    ASSUME TypeOK, Recalled, UNCHANGED earlier, Fault \/ UNCHANGED faults
    PROVE  Recalled'
<1>1. faults > 0 => faults' > 0
  BY DEF TypeOK, Fault
<1>. QED
  BY <1>1 DEF Recalled, earlier

(* Past the last entry, every matched entry has its container.             *)
LEMMA AllDone ==
    ASSUME TypeOK, Position, LoopDone, pc \in AfterLoop
    PROVE  \A j \in Claimed : newc[j] # "none"
<1>1. cur \notin Entries /\ cur \in 1 .. (NApps + NDBs + 1)
  BY DEF TypeOK, Position
<1>2. \A j \in Entries : j < cur
  BY <1>1, ConstantsAssumption DEF Entries
<1>. QED
  BY <1>2, Sets DEF LoopDone

(* However a launch ends, what is left is consistent.                      *)
LEMMA QuitStep ==
    ASSUME IInv, Quit, UNCHANGED <<plan, docker, disk>>,
           row' = row, faults' \in 0 .. MaxFaults, Fault \/ UNCHANGED faults
    PROVE  IInv'
<1>1. TypeOK'
  BY ConstantsAssumption DEF IInv, TypeOK, Quit, Goto, docker, disk, Steps
<1>2. Position' /\ LoopDone' /\ ReclaimSafe'
  BY Sets, PlanFixed
  DEF IInv, Position, LoopDone, ReclaimSafe, Quit, Goto, Working, Removed, CopySteps,
      AfterLoop, Entries
<1>3. Prefix'
  BY PrefixStable DEF IInv, docker
<1>4. Replaced' /\ Apart' /\ CopyState' /\ Copied'
  BY PlanFixed
  DEF IInv, Replaced, Helped, Apart, CopyState, Copied, Src, Quit, Goto, CopySteps, docker
<1>7. Recalled'
  BY RecalledStable DEF IInv, earlier, docker
<1>5. SourceSafe'
  BY SourceStable DEF IInv, docker
<1>6. WipeSafe'
  BY WipeStable DEF IInv, docker, disk
<1>. QED
  BY <1>1, <1>2, <1>3, <1>4, <1>5, <1>6, <1>7 DEF IInv

-----------------------------------------------------------------------------
(* One lemma per action of Next.                                           *)
LEMMA LaunchStep ==
    ASSUME IInv, Launch
    PROVE  IInv'
<1>1. TypeOK'
  BY DEF Launch, IInv, TypeOK, Steps, docker, disk, memory, Goto
<1>2. Position'
  BY DEF Launch, IInv, Position, Working, Removed, CopySteps, AfterLoop, Goto
<1>3. LoopDone'
  BY PlanFixed DEF Launch, IInv, LoopDone, docker, memory
<1>4. Prefix'
  BY PrefixStable DEF Launch, IInv, docker
<1>5. Replaced'
  BY PlanFixed DEF Launch, IInv, Replaced, Helped, Src, docker
<1>6. Apart'
  BY DEF Launch, IInv, Apart, CopySteps, docker, Goto
<1>7. CopyState'
  BY DEF Launch, IInv, CopyState, docker, Goto
<1>11. Recalled'
  BY DEF Launch, IInv, Recalled, Apart, CopySteps, docker, Goto
<1>12. Copied'
  BY DEF Launch, IInv, Copied, CopyState, docker, Goto
<1>8. SourceSafe'
  BY SourceStable DEF Launch, IInv, docker
<1>9. ReclaimSafe'
  BY ReclaimStable DEF Launch, IInv, TypeOK, docker, memory
<1>10. WipeSafe'
  BY WipeStable DEF Launch, IInv, docker, disk
<1>. QED BY <1>1, <1>2, <1>3, <1>4, <1>5, <1>6, <1>7, <1>8, <1>9, <1>10, <1>11, <1>12 DEF IInv

LEMMA SkipEntryStep ==
    ASSUME IInv, SkipEntry
    PROVE  IInv'
<1>1. TypeOK'
  BY ConstantsAssumption DEF SkipEntry, IInv, TypeOK, Entries, docker, disk
<1>2. Position'
  BY DEF SkipEntry, IInv, Position, Working, Removed, CopySteps
<1>3. LoopDone'
  <2>1. \A j \in Claimed : j < cur + 1 => j < cur
    BY Sets DEF IInv, SkipEntry
  <2>. QED
    BY <2>1, PlanFixed DEF IInv, LoopDone, SkipEntry, docker
<1>4. Prefix'
  BY PrefixStable DEF SkipEntry, IInv, docker
<1>5. Replaced'
  BY PlanFixed DEF SkipEntry, IInv, Replaced, Helped, Src, docker
<1>6. Apart'
  BY DEF SkipEntry, IInv, Apart, CopySteps, docker
<1>7. CopyState'
  BY DEF SkipEntry, IInv, CopyState, docker
<1>11. Recalled'
  BY DEF SkipEntry, IInv, Recalled, Apart, CopySteps, docker
<1>12. Copied'
  BY DEF SkipEntry, IInv, Copied, CopyState, docker
<1>8. SourceSafe'
  BY SourceStable DEF SkipEntry, IInv, docker
<1>9. ReclaimSafe'
  BY ReclaimStable DEF SkipEntry, IInv, TypeOK, docker
<1>10. WipeSafe'
  BY WipeStable DEF SkipEntry, IInv, docker, disk
<1>. QED BY <1>1, <1>2, <1>3, <1>4, <1>5, <1>6, <1>7, <1>8, <1>9, <1>10, <1>11, <1>12 DEF IInv

LEMMA TakeEntryStep ==
    ASSUME IInv, TakeEntry
    PROVE  IInv'
<1>1. TypeOK'
  BY DEF TakeEntry, IInv, TypeOK, Steps, docker, disk, memory, Goto
<1>2. Position'
  BY PlanFixed
  DEF TakeEntry, IInv, Position, Removed, CopySteps, AfterLoop, memory, Goto
<1>3. LoopDone'
  BY PlanFixed DEF TakeEntry, IInv, LoopDone, docker, memory
<1>4. Prefix'
  BY PrefixStable DEF TakeEntry, IInv, docker
<1>5. Replaced'
  BY PlanFixed DEF TakeEntry, IInv, Replaced, Helped, Src, docker
<1>6. Apart'
  BY DEF TakeEntry, IInv, Apart, CopySteps, docker, Goto
<1>7. CopyState'
  BY DEF TakeEntry, IInv, CopyState, docker, Goto
<1>11. Recalled'
  BY DEF TakeEntry, IInv, Recalled, Apart, CopySteps, docker, Goto
<1>12. Copied'
  BY DEF TakeEntry, IInv, Copied, CopyState, docker, Goto
<1>8. SourceSafe'
  BY SourceStable DEF TakeEntry, IInv, docker
<1>9. ReclaimSafe'
  BY ReclaimStable DEF TakeEntry, IInv, TypeOK, docker, memory
<1>10. WipeSafe'
  BY WipeStable DEF TakeEntry, IInv, docker, disk
<1>. QED BY <1>1, <1>2, <1>3, <1>4, <1>5, <1>6, <1>7, <1>8, <1>9, <1>10, <1>11, <1>12 DEF IInv

LEMMA StopStep ==
    ASSUME IInv, Stop
    PROVE  IInv'
<1>1. TypeOK'
  BY DEF Stop, helpers, IInv, TypeOK, Steps, disk, memory, Goto
<1>2. Position'
  BY PlanFixed
  DEF Stop, helpers, IInv, Position, Working, Removed, CopySteps, AfterLoop, memory, Goto
<1>3. LoopDone'
  BY PlanFixed DEF Stop, helpers, IInv, LoopDone, memory
<1>4. Prefix'
  BY PrefixStable DEF Stop, helpers, IInv, TypeOK
<1>5. Replaced'
  BY Sets, PlanFixed DEF Stop, helpers, IInv, Replaced, Helped, TypeOK, Src
<1>6. Apart'
  BY DEF Stop, helpers, IInv, Apart, CopySteps, Goto
<1>7. CopyState'
  BY DEF Stop, helpers, IInv, CopyState, Goto
<1>11. Recalled'
  BY DEF Stop, helpers, IInv, Recalled, Apart, CopySteps, Goto
<1>12. Copied'
  BY DEF Stop, helpers, IInv, Copied, CopyState, Goto
<1>8. SourceSafe'
  BY SourceStable DEF Stop, helpers, IInv
<1>9. ReclaimSafe'
  BY ReclaimStable DEF Stop, helpers, IInv, TypeOK, memory
<1>10. WipeSafe'
  BY WipeStable DEF Stop, helpers, IInv, disk
<1>. QED BY <1>1, <1>2, <1>3, <1>4, <1>5, <1>6, <1>7, <1>8, <1>9, <1>10, <1>11, <1>12 DEF IInv

LEMMA RemoveStep ==
    ASSUME IInv, Remove
    PROVE  IInv'
<1>1. TypeOK'
  BY DEF Remove, helpers, IInv, TypeOK, Steps, disk, memory, Goto
<1>2. Position'
  BY Sets, PlanFixed
  DEF Remove, helpers, IInv, Position, Working, CopySteps, AfterLoop, Src, TypeOK, memory, Goto
<1>3. LoopDone'
  BY PlanFixed DEF Remove, helpers, IInv, LoopDone, memory
<1>4. Prefix'
  <2>. SUFFICES ASSUME NEW w \in Workloads, v3c'[w] = "gone"
                PROVE  \E m \in Claimed : plan.claim[m] = w
                          /\ \A j \in Claimed : j < m => newc[j] # "none"
    BY PlanFixed DEF Prefix, Src, Remove
  <2>1. CASE v3c[w] = "gone"
    BY <2>1 DEF IInv, Prefix, Src
  <2>2. CASE w = Src(cur)
    BY <2>2, Sets DEF IInv, Position, Working, LoopDone, Src, Remove
  <2>. QED
    BY <2>1, <2>2 DEF Remove, helpers
<1>5. Replaced'
  BY PlanFixed DEF Remove, helpers, IInv, Replaced, Helped, Src
<1>6. Apart'
  BY DEF Remove, helpers, IInv, Apart, CopySteps, Goto
<1>7. CopyState'
  BY Sets DEF Remove, helpers, IInv, CopyState, memory, Goto
<1>11. Recalled'
  BY DEF Remove, helpers, IInv, Recalled, Apart, CopySteps, Goto
<1>12. Copied'
  BY Sets DEF Remove, helpers, IInv, Copied, CopyState, memory, Goto
<1>8. SourceSafe'
  BY SourceStable DEF Remove, helpers, IInv
<1>9. ReclaimSafe'
  BY ReclaimStable DEF Remove, helpers, IInv, TypeOK, memory
<1>10. WipeSafe'
  BY WipeStable DEF Remove, helpers, IInv, disk
<1>. QED BY <1>1, <1>2, <1>3, <1>4, <1>5, <1>6, <1>7, <1>8, <1>9, <1>10, <1>11, <1>12 DEF IInv

LEMMA ClearVolumeStep ==
    ASSUME IInv, ClearVolume
    PROVE  IInv'
<1>1. TypeOK'
  BY DEF ClearVolume, helpers, IInv, TypeOK, Steps, VolumeStates, disk, memory, Goto
<1>2. Position'
  BY PlanFixed
  DEF ClearVolume, helpers, IInv, Position, Removed, CopySteps, AfterLoop, Src, memory, Goto
<1>3. LoopDone'
  BY PlanFixed DEF ClearVolume, helpers, IInv, LoopDone, memory
<1>4. Prefix'
  BY PrefixStable DEF ClearVolume, helpers, IInv
<1>5. Replaced'
  BY PlanFixed DEF ClearVolume, helpers, IInv, Replaced, Helped, Src
<1>6. Apart'
  BY DEF ClearVolume, helpers, IInv, Apart, NewVolInUse, Helped, memory
<1>7. CopyState'
  BY DEF ClearVolume, helpers, IInv, CopyState, NewVolInUse, Helped, memory, Goto
<1>11. Recalled'
  BY DEF ClearVolume, helpers, IInv, Recalled, Apart, NewVolInUse, Helped, memory
<1>12. Copied'
  BY DEF ClearVolume, helpers, IInv, Copied, CopyState, NewVolInUse, Helped, memory, Goto
<1>8. SourceSafe'
  BY SourceStable DEF ClearVolume, helpers, IInv, NewVolInUse, Helped
<1>9. ReclaimSafe'
  BY ReclaimStable DEF ClearVolume, helpers, IInv, TypeOK, memory
<1>10. WipeSafe'
  BY WipeStable DEF ClearVolume, helpers, IInv, disk
<1>. QED BY <1>1, <1>2, <1>3, <1>4, <1>5, <1>6, <1>7, <1>8, <1>9, <1>10, <1>11, <1>12 DEF IInv

LEMMA ClearSkippedStep ==
    ASSUME IInv, ClearSkipped
    PROVE  IInv'
<1>1. TypeOK'
  BY ConstantsAssumption
  DEF ClearSkipped, IInv, TypeOK, Steps, docker, disk, memory, Goto, Fault
<1>2. Position'
  BY PlanFixed
  DEF ClearSkipped, IInv, Position, Removed, CopySteps, AfterLoop, Src, docker, memory,
      Goto
<1>3. LoopDone'
  BY PlanFixed DEF ClearSkipped, IInv, LoopDone, docker, memory
<1>4. Prefix'
  BY PrefixStable DEF ClearSkipped, IInv, docker
<1>5. Replaced'
  BY PlanFixed DEF ClearSkipped, IInv, Replaced, Helped, Src, docker
<1>6. Apart'
  BY DEF ClearSkipped, IInv, Apart
<1>7. CopyState'
  BY DEF ClearSkipped, IInv, CopyState, docker, memory, Goto
<1>11. Recalled'
  <2>1. faults' > 0
    BY DEF ClearSkipped, IInv, TypeOK, Fault
  <2>. QED
    BY <2>1 DEF ClearSkipped, IInv, Recalled
<1>12. Copied'
  BY DEF ClearSkipped, IInv, Copied, CopyState, docker, memory, Goto
<1>8. SourceSafe'
  BY SourceStable DEF ClearSkipped, IInv, docker
<1>9. ReclaimSafe'
  BY ReclaimStable DEF ClearSkipped, IInv, TypeOK, docker, memory
<1>10. WipeSafe'
  BY WipeStable DEF ClearSkipped, IInv, docker, disk
<1>. QED BY <1>1, <1>2, <1>3, <1>4, <1>5, <1>6, <1>7, <1>8, <1>9, <1>10, <1>11, <1>12 DEF IInv

LEMMA CopyCreateStep ==
    ASSUME IInv, CopyCreate
    PROVE  IInv'
<1>0. cur \in Located /\ cur \in DBs
  BY Sets DEF CopyCreate, IInv, Position, CopySteps
<1>1. TypeOK'
  <2>1. strays' \in [DBs -> Nat]
    BY <1>0 DEF CopyCreate, IInv, TypeOK
  <2>. QED
    BY <1>0, <2>1
    DEF CopyCreate, IInv, TypeOK, Steps, VolumeStates, disk, memory, Goto
<1>2. Position'
  BY PlanFixed
  DEF CopyCreate, IInv, Position, Removed, CopySteps, AfterLoop, Src, memory, Goto
<1>3. LoopDone'
  BY PlanFixed DEF CopyCreate, IInv, LoopDone, memory
<1>4. Prefix'
  BY PrefixStable DEF CopyCreate, IInv
<1>5. Replaced'
  BY PlanFixed DEF CopyCreate, IInv, Replaced, Helped, Position, Removed, CopySteps, Src
<1>6. Apart'
  BY <1>0 DEF CopyCreate, IInv, TypeOK, Apart, CopySteps, memory, Goto
<1>7. CopyState'
  BY DEF CopyCreate, IInv, CopyState, Goto
<1>11. Recalled'
  <2>1. Helped(cur) => misread
    BY <1>0 DEF CopyCreate, IInv, TypeOK, Recalled, Apart, Helped
  <2>2. ~Helped(cur) => strays' = strays /\ unstarted' = unstarted
    BY <1>0 DEF CopyCreate, IInv, TypeOK, Helped
  <2>. QED
    BY <2>1, <2>2 DEF CopyCreate, IInv, Recalled
<1>12. Copied'
  BY <1>0 DEF CopyCreate, IInv, TypeOK, Copied, Goto
<1>8. SourceSafe'
  <2>1. \A j \in Located : newVol[j] \in Good => newVol'[j] = newVol[j]
    BY Sets DEF CopyCreate, IInv, TypeOK, Good
  <2>2. \A w \in plan.vols : srcVol[w] = "data" => srcVol'[w] = "data"
    BY <1>0, Sets DEF CopyCreate, IInv, TypeOK
  <2>. QED
    BY <2>1, <2>2, SourceStable DEF CopyCreate, IInv
<1>9. ReclaimSafe'
  BY ReclaimStable DEF CopyCreate, IInv, TypeOK, memory
<1>10. WipeSafe'
  BY WipeStable DEF CopyCreate, IInv, disk
<1>. QED BY <1>1, <1>2, <1>3, <1>4, <1>5, <1>6, <1>7, <1>8, <1>9, <1>10, <1>11, <1>12 DEF IInv

LEMMA CopyStartStep ==
    ASSUME IInv, CopyStart
    PROVE  IInv'
<1>1. TypeOK'
  BY DEF CopyStart, earlier, IInv, TypeOK, Steps, VolumeStates, Overwritten, disk, memory, Goto
<1>2. Position'
  BY PlanFixed
  DEF CopyStart, earlier, IInv, Position, Removed, CopySteps, AfterLoop, Src, memory, Goto
<1>3. LoopDone'
  BY PlanFixed DEF CopyStart, earlier, IInv, LoopDone, memory
<1>4. Prefix'
  BY PrefixStable DEF CopyStart, earlier, IInv
<1>5. Replaced'
  BY PlanFixed DEF CopyStart, earlier, IInv, Replaced, Helped, Position, Removed, CopySteps, Src
<1>6. Apart'
  BY DEF CopyStart, IInv, Apart, CopySteps, earlier, memory, Goto
<1>7. CopyState'
  BY Sets
  DEF CopyStart, earlier, IInv, CopyState, Position, TypeOK, CopySteps, SourceSafe, Overwritten,
      Goto
<1>11. Recalled'
  BY DEF CopyStart, earlier, IInv, Recalled, Apart, CopySteps, memory
<1>12. Copied'
  BY Sets
  DEF CopyStart, earlier, IInv, Copied, CopyState, Position, TypeOK, CopySteps, SourceSafe,
         Overwritten,
      Goto
<1>8. SourceSafe'
  <2>1. \A i \in Located : srcVol[Src(i)] # "data" => newVol'[i] = newVol[i]
    BY DEF CopyStart, earlier, Overwritten
  <2>2. srcVol' = srcVol /\ newc' = newc /\ crowded' = crowded /\ plan' = plan
    BY DEF CopyStart, earlier
  <2>. QED
    BY <2>1, <2>2, SourceStable DEF IInv
<1>9. ReclaimSafe'
  BY ReclaimStable DEF CopyStart, earlier, IInv, TypeOK, memory
<1>10. WipeSafe'
  BY WipeStable DEF CopyStart, earlier, IInv, disk
<1>. QED BY <1>1, <1>2, <1>3, <1>4, <1>5, <1>6, <1>7, <1>8, <1>9, <1>10, <1>11, <1>12 DEF IInv

LEMMA CopyWaitStep ==
    ASSUME IInv, CopyWait
    PROVE  IInv'
<1>1. TypeOK'
  BY ConstantsAssumption
  DEF CopyWait, IInv, TypeOK, Steps, docker, disk, memory, Goto, Quit
<1>2. Position'
  BY PlanFixed
  DEF CopyWait, IInv, Position, Working, Removed, CopySteps, AfterLoop, Src, docker,
      memory, Goto, Quit
<1>3. LoopDone'
  BY Sets, PlanFixed DEF CopyWait, IInv, LoopDone, TypeOK, docker, memory, Quit
<1>4. Prefix'
  BY PrefixStable DEF CopyWait, IInv, docker
<1>5. Replaced'
  BY PlanFixed DEF CopyWait, IInv, Replaced, Helped, Src, docker
<1>6. Apart'
  BY DEF CopyWait, IInv, Apart, CopySteps, docker, memory, Goto, Quit
<1>7. CopyState'
  BY DEF CopyWait, IInv, CopyState, docker, Goto, Quit
<1>11. Recalled'
  BY DEF CopyWait, IInv, Recalled, Apart, CopySteps, docker, memory, Goto, Quit
<1>12. Copied'
  BY DEF CopyWait, IInv, Copied, CopyState, docker, Goto, Quit
<1>8. SourceSafe'
  BY SourceStable DEF CopyWait, IInv, docker
<1>9. ReclaimSafe'
  <2>1. CASE UNCHANGED memory
    BY <2>1, Sets, ReclaimStable DEF IInv, CopyWait, docker, memory
  <2>2. CASE Quit
    BY <2>2 DEF ReclaimSafe, Quit
  <2>. QED
    BY <2>1, <2>2 DEF CopyWait
<1>10. WipeSafe'
  BY WipeStable DEF CopyWait, IInv, docker, disk
<1>. QED BY <1>1, <1>2, <1>3, <1>4, <1>5, <1>6, <1>7, <1>8, <1>9, <1>10, <1>11, <1>12 DEF IInv

LEMMA CreateStep ==
    ASSUME IInv, Create
    PROVE  IInv'
<1>1. TypeOK'
  BY DEF Create, helpers, IInv, TypeOK, Steps, disk, memory, Goto
<1>2. Position'
  BY Sets, PlanFixed
  DEF Create, helpers, IInv, Position, Working, Removed, CopySteps, AfterLoop, Src, TypeOK,
      memory, Goto
<1>3. LoopDone'
  BY PlanFixed DEF Create, helpers, IInv, LoopDone, memory
<1>4. Prefix'
  BY PrefixStable DEF Create, helpers, IInv
<1>5. Replaced'
  BY PlanFixed DEF Create, helpers, IInv, Replaced, Helped, Position, Working, Removed, Src
<1>6. Apart'
  BY DEF Create, helpers, IInv, Apart, CopyState, CopySteps, Goto
<1>7. CopyState'
  BY DEF Create, helpers, IInv, CopyState, Good, memory
<1>11. Recalled'
  BY DEF Create, helpers, IInv, Recalled, Apart, CopyState, CopySteps, Goto
<1>12. Copied'
  BY DEF Create, helpers, IInv, Copied, CopyState, Good, memory
<1>8. SourceSafe'
  BY SourceStable DEF Create, helpers, IInv
<1>9. ReclaimSafe'
  BY ReclaimStable DEF Create, helpers, IInv, TypeOK, memory
<1>10. WipeSafe'
  BY WipeStable DEF Create, helpers, IInv, disk
<1>. QED BY <1>1, <1>2, <1>3, <1>4, <1>5, <1>6, <1>7, <1>8, <1>9, <1>10, <1>11, <1>12 DEF IInv

LEMMA StartStep ==
    ASSUME IInv, Start
    PROVE  IInv'
<1>1. TypeOK'
  BY DEF Start, Opened, helpers, IInv, TypeOK, Steps, VolumeStates, disk, memory, Goto
<1>2. Position'
  BY PlanFixed
  DEF Start, Opened, helpers, IInv, Position, Working, Removed, CopySteps, AfterLoop, Src,
         memory, Goto
<1>3. LoopDone'
  BY PlanFixed DEF Start, Opened, helpers, IInv, LoopDone, memory
<1>4. Prefix'
  BY PrefixStable DEF Start, Opened, helpers, IInv
<1>5. Replaced'
  BY PlanFixed DEF Start, Opened, helpers, IInv, Replaced, Helped, Position, Src
<1>6. Apart'
  BY DEF Start, Opened, helpers, IInv, Apart, Position, CopySteps, Goto
<1>7. CopyState'
  BY DEF Start, Opened, helpers, IInv, CopyState, Position, Good, memory, Goto
<1>11. Recalled'
  BY DEF Start, Opened, helpers, IInv, Recalled, Apart, Position, CopySteps, Goto
<1>12. Copied'
  <2>. SUFFICES ASSUME ~crowded PROVE Copied'
    BY DEF Copied, Start, helpers
  <2>1. \A j \in DBs : strays[j] = 0
    BY DEF IInv, Recalled
  <2>2. ASSUME NEW j \in DBs
        PROVE  \/ newVol'[j] = newVol[j]
               \/ j = cur /\ newVol[j] = "copy" /\ newVol'[j] = "live"
    <3>1. newVol'[j] = IF j = cur THEN Opened(j) ELSE newVol[j]
      BY DEF Start
    <3>2. ~(strays[j] > 0)
      BY <2>1
    <3>. QED
      BY <3>1, <3>2 DEF Opened
  <2>3. newc[cur] # "none" /\ newc' = [newc EXCEPT ![cur] = "running"]
        /\ helper' = helper /\ cur' = cur /\ pc' = "record" /\ pc = "start"
    BY DEF Start, helpers, IInv, Position, memory, Goto
  <2>4. \A j \in DBs : newc'[j] = "none" => newc[j] = "none" /\ j # cur
    BY <2>3, Sets DEF IInv, TypeOK
  <2>5. ASSUME NEW j \in DBs, newc'[j] = "none", helper'[j] = "running"
        PROVE  newVol'[j] = "partial"
    <3>1. newVol'[j] = newVol[j] /\ newc[j] = "none" /\ helper[j] = "running"
      BY <2>2, <2>3, <2>4, <2>5
    <3>. QED
      BY <3>1 DEF IInv, Copied
  <2>6. cur \in DBs => newVol'[cur] \in Good
    BY <2>2, <2>3 DEF IInv, Copied, Good
  <2>. QED
    BY <2>3, <2>5, <2>6 DEF Copied
<1>13. crowded \/ \A j \in DBs : newVol[j] \in Good => newVol'[j] \in Good
  BY DEF Start, Opened, IInv, TypeOK, Recalled, Good
<1>8. SourceSafe'
  BY <1>13, Sets, SourceStable DEF Start, Opened, helpers, IInv, Good
<1>9. ReclaimSafe'
  BY <1>13, Sets, ReclaimStable DEF Start, Opened, helpers, IInv, memory
<1>10. WipeSafe'
  BY WipeStable DEF Start, Opened, helpers, IInv, disk
<1>. QED BY <1>1, <1>2, <1>3, <1>4, <1>5, <1>6, <1>7, <1>8, <1>9, <1>10, <1>11, <1>12 DEF IInv

LEMMA RecordStep ==
    ASSUME IInv, Record
    PROVE  IInv'
<1>1. TypeOK'
  <2>1. pc' \in Steps /\ cur' \in 1 .. (NApps + NDBs + 1)
    BY Sets, ConstantsAssumption
    DEF IInv, Position, Working, Record, Goto, Steps, Entries
  <2>2. reclaim' \subseteq Workloads
    BY Sets DEF IInv, TypeOK, Position, Working, Record
  <2>3. row' \in [Entries -> {"v3", "new"}] /\ faults' \in 0 .. MaxFaults
    BY ConstantsAssumption DEF IInv, TypeOK, Record, Fault
  <2>. QED
    BY <2>1, <2>2, <2>3 DEF IInv, TypeOK, Record, docker, disk
<1>2. Position'
  BY DEF Record, IInv, Position, Working, Removed, CopySteps, AfterLoop, Goto
<1>3. LoopDone'
  BY Sets, PlanFixed DEF Record, IInv, LoopDone, Position, docker
<1>4. Prefix'
  BY PrefixStable DEF Record, IInv, docker
<1>5. Replaced'
  BY PlanFixed DEF Record, IInv, Replaced, Helped, Src, docker
<1>6. Apart'
  BY DEF Record, IInv, Apart, CopySteps, docker, Goto
<1>7. CopyState'
  BY DEF Record, IInv, CopyState, docker, Goto
<1>11. Recalled'
  BY RecalledStable DEF Record, IInv, earlier, helpers, docker
<1>12. Copied'
  BY DEF Record, IInv, Copied, CopyState, docker, Goto
<1>8. SourceSafe'
  BY SourceStable DEF Record, IInv, docker
<1>9. ReclaimSafe'
  <2>. SUFFICES ASSUME ~crowded, NEW w \in reclaim'
                PROVE  \E i \in Located : i < cur + 1 /\ StandsIn(i, w)
    BY PlanFixed DEF ReclaimSafe, StandsIn, Src, Record, docker
  <2>1. CASE w \in reclaim
    BY <2>1, Sets DEF IInv, ReclaimSafe
  <2>2. CASE cur \in DBs /\ w = Src(cur)
    BY <2>2, Sets DEF IInv, Position, Working, Copied, StandsIn, Record
  <2>. QED
    BY <2>1, <2>2 DEF Record
<1>10. WipeSafe'
  BY WipeStable DEF Record, IInv, docker, disk
<1>. QED BY <1>1, <1>2, <1>3, <1>4, <1>5, <1>6, <1>7, <1>8, <1>9, <1>10, <1>11, <1>12 DEF IInv

LEMMA EndTakeoverStep ==
    ASSUME IInv, EndTakeover
    PROVE  IInv'
<1>1. TypeOK'
  BY DEF EndTakeover, IInv, TypeOK, Steps, docker, disk, memory, Goto
<1>2. Position'
  BY DEF EndTakeover, IInv, Position, Working, Removed, CopySteps, memory, Goto
<1>3. LoopDone'
  BY PlanFixed DEF EndTakeover, IInv, LoopDone, docker, memory
<1>4. Prefix'
  BY PrefixStable DEF EndTakeover, IInv, docker
<1>5. Replaced'
  BY PlanFixed DEF EndTakeover, IInv, Replaced, Helped, Src, docker
<1>6. Apart'
  BY DEF EndTakeover, IInv, Apart, CopySteps, docker, Goto
<1>7. CopyState'
  BY DEF EndTakeover, IInv, CopyState, docker, Goto
<1>11. Recalled'
  BY DEF EndTakeover, IInv, Recalled, Apart, CopySteps, docker, Goto
<1>12. Copied'
  BY DEF EndTakeover, IInv, Copied, CopyState, docker, Goto
<1>8. SourceSafe'
  BY SourceStable DEF EndTakeover, IInv, docker
<1>9. ReclaimSafe'
  BY ReclaimStable DEF EndTakeover, IInv, TypeOK, docker, memory
<1>10. WipeSafe'
  BY WipeStable DEF EndTakeover, IInv, docker, disk
<1>. QED BY <1>1, <1>2, <1>3, <1>4, <1>5, <1>6, <1>7, <1>8, <1>9, <1>10, <1>11, <1>12 DEF IInv

LEMMA BeginWipeStep ==
    ASSUME IInv, BeginWipe
    PROVE  IInv'
<1>1. TypeOK'
  BY DEF BeginWipe, IInv, TypeOK, Steps, docker, memory, Goto
<1>2. Position'
  BY PlanFixed
  DEF BeginWipe, IInv, Position, Working, Removed, CopySteps, AfterLoop, memory, Goto
<1>3. LoopDone'
  BY PlanFixed DEF BeginWipe, IInv, LoopDone, docker, memory
<1>4. Prefix'
  BY PrefixStable DEF BeginWipe, IInv, docker
<1>5. Replaced'
  BY PlanFixed DEF BeginWipe, IInv, Replaced, Helped, Src, docker
<1>6. Apart'
  BY DEF BeginWipe, IInv, Apart, CopySteps, docker, Goto
<1>7. CopyState'
  BY DEF BeginWipe, IInv, CopyState, docker, Goto
<1>11. Recalled'
  BY DEF BeginWipe, IInv, Recalled, Apart, CopySteps, docker, Goto
<1>12. Copied'
  BY DEF BeginWipe, IInv, Copied, CopyState, docker, Goto
<1>8. SourceSafe'
  BY SourceStable DEF BeginWipe, IInv, docker
<1>9. ReclaimSafe'
  BY ReclaimStable DEF BeginWipe, IInv, TypeOK, docker, memory
<1>10. WipeSafe'
  <2>1. \A j \in Claimed : newc[j] # "none"
    BY AllDone DEF IInv, BeginWipe, AfterLoop
  <2>. QED
    BY <2>1, PlanFixed DEF WipeSafe, BeginWipe, docker
<1>. QED BY <1>1, <1>2, <1>3, <1>4, <1>5, <1>6, <1>7, <1>8, <1>9, <1>10, <1>11, <1>12 DEF IInv

LEMMA ReclaimStep ==
    ASSUME IInv, Reclaim
    PROVE  IInv'
<1>1. TypeOK'
  BY ConstantsAssumption DEF Reclaim, helpers, IInv, TypeOK, disk, Fault
<1>2. Position'
  BY PlanFixed DEF Reclaim, helpers, IInv, Position, Removed, CopySteps
<1>3. LoopDone'
  BY PlanFixed DEF Reclaim, helpers, IInv, LoopDone
<1>4. Prefix'
  BY PrefixStable DEF Reclaim, helpers, IInv
<1>5. Replaced'
  BY PlanFixed DEF Reclaim, helpers, IInv, Replaced, Helped, Src
<1>6. Apart'
  BY DEF Reclaim, helpers, IInv, Apart
<1>7. CopyState'
  BY DEF Reclaim, helpers, IInv, CopyState
<1>11. Recalled'
  BY RecalledStable DEF Reclaim, IInv, earlier, helpers, docker
<1>12. Copied'
  BY DEF Reclaim, helpers, IInv, Copied, CopyState
<1>8. SourceSafe'
  <2>1. \A j \in Claimed : newc[j] # "none"
    BY AllDone DEF IInv, Reclaim, AfterLoop
  <2>2. PICK x \in reclaim : srcVol' = srcVol \/ srcVol' = [srcVol EXCEPT ![x] = "none"]
    BY DEF Reclaim, helpers
  <2>3. crowded \/ \E i \in Located : StandsIn(i, x)
    BY DEF IInv, ReclaimSafe
  <2>. SUFFICES ASSUME NEW w \in plan.vols, srcVol'[w] # "data", ~crowded
                PROVE  \E i \in Located : StandsIn(i, w)
    BY <2>1, PlanFixed DEF SourceSafe, StandsIn, Src, Reclaim, helpers
  <2>4. CASE w = x
    BY <2>3, <2>4
  <2>5. CASE srcVol[w] # "data"
    BY <2>5 DEF IInv, SourceSafe
  <2>. QED
    BY <2>2, <2>4, <2>5 DEF IInv, TypeOK, PlanType
<1>9. ReclaimSafe'
  BY ReclaimStable DEF Reclaim, helpers, IInv, TypeOK
<1>10. WipeSafe'
  BY WipeStable DEF Reclaim, helpers, IInv, disk
<1>. QED BY <1>1, <1>2, <1>3, <1>4, <1>5, <1>6, <1>7, <1>8, <1>9, <1>10, <1>11, <1>12 DEF IInv

LEMMA FinishStep ==
    ASSUME IInv, Finish
    PROVE  IInv'
<1>1. TypeOK'
  <2>1. /\ pc' = "idle" /\ cur' = 1 /\ reclaim' = {}
        /\ stateFile' = FALSE /\ wiped' = "done"
        /\ UNCHANGED <<plan, docker, row, faults>>
    BY DEF Finish, Quit, Goto
  <2>2. 1 \in 1 .. (NApps + NDBs + 1)
    BY ConstantsAssumption
  <2>. QED
    BY <2>1, <2>2 DEF IInv, TypeOK, Steps, docker
<1>2. Position'
  BY DEF Finish, IInv, Position, Working, Removed, CopySteps, AfterLoop, Goto, Quit
<1>3. LoopDone'
  BY Sets, PlanFixed DEF Finish, IInv, LoopDone, TypeOK, docker, Quit
<1>4. Prefix'
  BY PrefixStable DEF Finish, IInv, docker
<1>5. Replaced'
  BY PlanFixed DEF Finish, IInv, Replaced, Helped, Src, docker
<1>6. Apart'
  BY DEF Finish, IInv, Apart, CopySteps, docker, Goto, Quit
<1>7. CopyState'
  BY DEF Finish, IInv, CopyState, docker, Goto, Quit
<1>11. Recalled'
  BY DEF Finish, IInv, Recalled, Apart, CopySteps, docker, Goto, Quit
<1>12. Copied'
  BY DEF Finish, IInv, Copied, CopyState, docker, Goto, Quit
<1>8. SourceSafe'
  BY SourceStable DEF Finish, IInv, docker
<1>9. ReclaimSafe'
  BY DEF ReclaimSafe, Finish, Quit
<1>10. WipeSafe'
  <2>1. \A j \in Claimed : newc[j] # "none"
    BY AllDone DEF IInv, Finish, AfterLoop
  <2>2. Orphans = {}
    BY DEF IInv, Position, Finish
  <2>. QED
    BY <2>1, <2>2, PlanFixed DEF WipeSafe, Finish, docker
<1>. QED BY <1>1, <1>2, <1>3, <1>4, <1>5, <1>6, <1>7, <1>8, <1>9, <1>10, <1>11, <1>12 DEF IInv

LEMMA CopyEndsStep ==
    ASSUME IInv, NEW i \in DBs, CopyEnds(i)
    PROVE  IInv'
<1>1. TypeOK'
  BY ConstantsAssumption
  DEF CopyEnds, Finished, earlier, IInv, TypeOK, Steps, VolumeStates, disk, memory, Goto, Fault
<1>2. Position'
  <2>1. CASE Waited(i)
    BY PlanFixed
    DEF CopyEnds, Finished, earlier, Waited, IInv, Position, Removed, CopySteps, AfterLoop,
           Src, Goto,
        memory
  <2>2. CASE ~Waited(i)
    BY <2>2, PlanFixed DEF CopyEnds, Finished, earlier, IInv, Position, Src, memory
  <2>. QED
    BY <2>1, <2>2
<1>3. LoopDone'
  BY PlanFixed DEF CopyEnds, Finished, earlier, IInv, LoopDone, memory
<1>4. Prefix'
  BY PrefixStable DEF CopyEnds, Finished, earlier, IInv
<1>5. Replaced'
  BY PlanFixed DEF CopyEnds, Finished, earlier, IInv, Replaced, Helped, Src
<1>6. Apart'
  BY DEF CopyEnds, Finished, earlier, IInv, Apart, CopySteps, memory, Goto
<1>7. CopyState'
  BY Sets
  DEF CopyEnds, Finished, earlier, IInv, CopyState, Replaced, Helped, TypeOK, SourceSafe,
         Waited, Good, memory,
      Goto
<1>11. Recalled'
  BY RecalledStable DEF CopyEnds, IInv, earlier, helpers, docker
<1>12. Copied'
  <2>. SUFFICES ASSUME ~crowded PROVE Copied'
    BY DEF Copied, CopyEnds, earlier
  <2>1. strays[i] = 0 /\ newVol' = [newVol EXCEPT ![i] = Finished(i)]
    BY DEF CopyEnds, IInv, Recalled
  <2>2. newc[i] = "none" => srcVol[Src(i)] = "data" /\ newVol[i] = "partial"
    BY Sets DEF CopyEnds, IInv, Copied, Replaced, Helped, SourceSafe
  <2>3. newVol[i] \in Good => Finished(i) \in Good
    BY DEF Finished, Good
  <2>4. Waited(i) /\ newc'[i] = "none" => newVol'[i] = "copy"
    BY <2>1, <2>2 DEF CopyEnds, Finished, IInv, TypeOK
  <2>. QED
    BY <2>1, <2>3, <2>4 DEF CopyEnds, IInv, TypeOK, Copied, Waited, Goto, memory
<1>8. SourceSafe'
  BY SourceStable DEF CopyEnds, Finished, earlier, IInv
<1>9. ReclaimSafe'
  BY ReclaimStable DEF CopyEnds, Finished, earlier, IInv, TypeOK, Good, memory
<1>10. WipeSafe'
  BY WipeStable DEF CopyEnds, Finished, earlier, IInv, disk
<1>. QED BY <1>1, <1>2, <1>3, <1>4, <1>5, <1>6, <1>7, <1>8, <1>9, <1>10, <1>11, <1>12 DEF IInv

LEMMA CopyFailsStep ==
    ASSUME IInv, NEW i \in DBs, CopyFails(i)
    PROVE  IInv'
<1>0. \A j \in DBs : \/ newVol'[j] = newVol[j]
                     \/ newVol[j] = "partial" /\ newVol'[j] = "torn"
  BY DEF CopyFails, CutOff, IInv, TypeOK
<1>1. TypeOK'
  <2>1. newVol' \in [DBs -> VolumeStates]
    BY DEF CopyFails, CutOff, IInv, TypeOK, VolumeStates
  <2>2. pc' \in Steps /\ cur' \in 1 .. (NApps + NDBs + 1) /\ reclaim' \subseteq Workloads
    BY ConstantsAssumption DEF CopyFails, IInv, TypeOK, Steps, memory, Goto, Quit
  <2>3. helper' \in [DBs -> {"none", "created", "running"}] /\ faults' \in 0 .. MaxFaults
    BY ConstantsAssumption DEF CopyFails, IInv, TypeOK, Fault
  <2>. QED
    BY <2>1, <2>2, <2>3 DEF CopyFails, earlier, IInv, TypeOK, disk
<1>2. Position'
  BY PlanFixed
  DEF CopyFails, CutOff, earlier, IInv, Position, Working, Removed, CopySteps, AfterLoop,
         Src, memory,
      Goto, Quit
<1>3. LoopDone'
  BY Sets, PlanFixed DEF CopyFails, CutOff, earlier, IInv, LoopDone, TypeOK, memory, Quit
<1>4. Prefix'
  BY PrefixStable DEF CopyFails, CutOff, earlier, IInv
<1>5. Replaced'
  BY PlanFixed DEF CopyFails, CutOff, earlier, IInv, Replaced, Helped, Src
<1>6. Apart'
  BY DEF CopyFails, CutOff, earlier, IInv, Apart, CopySteps, memory, Goto, Quit
<1>7. CopyState'
  BY <1>0 DEF CopyFails, IInv, TypeOK, CopyState, memory, Goto, Quit
<1>11. Recalled'
  BY RecalledStable DEF CopyFails, IInv, earlier, helpers, docker
<1>12. Copied'
  <2>. SUFFICES ASSUME ~crowded PROVE Copied'
    BY DEF Copied, CopyFails, earlier
  <2>1. newVol' = newVol
    BY DEF CopyFails, CutOff, IInv, Recalled
  <2>. QED
    BY <2>1 DEF CopyFails, IInv, TypeOK, Copied, memory, Goto, Quit
<1>8. SourceSafe'
  BY <1>0, Sets, SourceStable DEF CopyFails, earlier, IInv, Good
<1>9. ReclaimSafe'
  <2>1. CASE Waited(i)
    BY <2>1 DEF ReclaimSafe, CopyFails, Quit
  <2>2. CASE ~Waited(i)
    BY <1>0, <2>2, Sets, ReclaimStable DEF IInv, CopyFails, earlier, Good, memory
  <2>. QED
    BY <2>1, <2>2
<1>10. WipeSafe'
  BY WipeStable DEF CopyFails, CutOff, earlier, IInv, disk
<1>. QED BY <1>1, <1>2, <1>3, <1>4, <1>5, <1>6, <1>7, <1>8, <1>9, <1>10, <1>11, <1>12 DEF IInv

LEMMA StrayStep ==
    ASSUME IInv, NEW i \in DBs, StrayEnds(i) \/ StrayFails(i)
    PROVE  IInv'
<1>. USE DEF StrayEnds, StrayFails
<1>1. /\ UNCHANGED <<plan, pc, memory, v3c, newc, helper, unstarted, srcVol, row, disk,
                     misread, crowded>>
      /\ \A j \in DBs : Helped(j)' => Helped(j)
  BY DEF IInv, TypeOK, Helped
<1>2. crowded
  BY DEF IInv, Recalled, TypeOK
<1>3. TypeOK'
  <2>1. strays' \in [DBs -> Nat] /\ faults' \in 0 .. MaxFaults
    BY ConstantsAssumption DEF IInv, TypeOK, Fault
  <2>2. newVol' \in [DBs -> VolumeStates]
    BY DEF IInv, TypeOK, Finished, CutOff, VolumeStates
  <2>. QED
    BY <1>1, <2>1, <2>2 DEF IInv, TypeOK, memory, disk
<1>4. Position' /\ LoopDone'
  BY <1>1, PlanFixed DEF IInv, Position, LoopDone, Src, memory
<1>5. Prefix'
  BY <1>1, PrefixStable DEF IInv
<1>6. Replaced'
  BY <1>1, PlanFixed DEF IInv, Replaced, Src
<1>7. Recalled' /\ Apart'
  BY <1>1, <1>2 DEF IInv, Recalled, Apart, Fault, TypeOK
<1>8. CopyState' /\ Copied'
  BY <1>1, <1>2 DEF IInv, TypeOK, CopyState, Copied, Finished, CutOff, memory
<1>9. SourceSafe' /\ ReclaimSafe'
  BY <1>1, <1>2, PlanFixed DEF IInv, SourceSafe, ReclaimSafe
<1>10. WipeSafe'
  BY <1>1, WipeStable DEF IInv, disk
<1>. QED BY <1>3, <1>4, <1>5, <1>6, <1>7, <1>8, <1>9, <1>10 DEF IInv

-----------------------------------------------------------------------------
LEMMA InitInv == Init => IInv
<1>. SUFFICES ASSUME Init PROVE IInv
  OBVIOUS
<1>. USE ConstantsAssumption
<1>1. TypeOK
  <2>1. plan \in PlanType /\ 1 \in 1 .. (NApps + NDBs + 1) /\ 0 \in 0 .. MaxFaults
    BY DEF Init
  <2>. QED
    BY <2>1 DEF Init, TypeOK, Steps, VolumeStates
<1>2. Position /\ LoopDone /\ Prefix /\ Replaced
  BY <1>1, Sets
  DEF Init, Position, LoopDone, Prefix, Replaced, Helped, Entries, Working, Removed, CopySteps,
      AfterLoop
<1>3. Recalled /\ Apart /\ CopyState /\ Copied
  BY DEF Init, Recalled, Apart, CopyState, Copied, CopySteps
<1>4. SourceSafe /\ ReclaimSafe /\ WipeSafe
  BY DEF Init, SourceSafe, ReclaimSafe, WipeSafe, PlanType
<1>. QED
  BY <1>1, <1>2, <1>3, <1>4 DEF IInv

(* The steps that end a launch without touching Docker.                    *)
LEMMA GiveUpStep ==
    ASSUME IInv, NoVolume \/ ClearInUse \/ CreateConflict \/ KeepV3 \/ Fail
    PROVE  IInv'
<1>1. Quit /\ UNCHANGED <<plan, docker, disk, row>> /\ (Fault \/ UNCHANGED faults)
  BY DEF NoVolume, ClearInUse, CreateConflict, KeepV3, Fail
<1>2. faults' \in 0 .. MaxFaults
  BY ConstantsAssumption
  DEF NoVolume, ClearInUse, CreateConflict, KeepV3, Fail, Fault, IInv, TypeOK
<1>. QED
  BY <1>1, <1>2, QuitStep

LEMMA StutterStep ==
    ASSUME IInv, UNCHANGED vars
    PROVE  IInv'
  BY DEF vars, IInv, TypeOK, Position, LoopDone, Prefix, Replaced, Helped, Recalled, Apart,
         CopyState, Copied,
         SourceSafe, ReclaimSafe, WipeSafe, StandsIn, Claimed, Located, Orphans, Src

LEMMA NextInv == IInv /\ [Next]_vars => IInv'
<1>. SUFFICES ASSUME IInv, [Next]_vars PROVE IInv'
  OBVIOUS
<1>1. CASE Launch          BY <1>1, LaunchStep
<1>2. CASE SkipEntry       BY <1>2, SkipEntryStep
<1>3. CASE TakeEntry       BY <1>3, TakeEntryStep
<1>4. CASE Stop            BY <1>4, StopStep
<1>5. CASE Remove          BY <1>5, RemoveStep
<1>6. CASE ClearVolume     BY <1>6, ClearVolumeStep
<1>7. CASE ClearSkipped    BY <1>7, ClearSkippedStep
<1>8. CASE CopyCreate      BY <1>8, CopyCreateStep
<1>9. CASE CopyStart       BY <1>9, CopyStartStep
<1>10. CASE CopyWait       BY <1>10, CopyWaitStep
<1>11. CASE Create         BY <1>11, CreateStep
<1>12. CASE Start          BY <1>12, StartStep
<1>13. CASE Record         BY <1>13, RecordStep
<1>14. CASE EndTakeover    BY <1>14, EndTakeoverStep
<1>15. CASE BeginWipe      BY <1>15, BeginWipeStep
<1>16. CASE Reclaim        BY <1>16, ReclaimStep
<1>17. CASE Finish         BY <1>17, FinishStep
<1>18. CASE \E i \in DBs : CopyEnds(i) \/ CopyFails(i) \/ StrayEnds(i) \/ StrayFails(i)
  BY <1>18, CopyEndsStep, CopyFailsStep, StrayStep
<1>19. CASE NoVolume \/ ClearInUse \/ CreateConflict \/ KeepV3 \/ Fail
  BY <1>19, GiveUpStep
<1>20. CASE Stopped \/ UNCHANGED vars
  BY <1>20, StutterStep DEF Stopped
<1>. QED
  BY <1>1, <1>2, <1>3, <1>4, <1>5, <1>6, <1>7, <1>8, <1>9, <1>10, <1>11, <1>12, <1>13,
     <1>14, <1>15, <1>16, <1>17, <1>18, <1>19, <1>20
  DEF Next, Process

(* IInv holds in every reachable state.                                    *)
THEOREM Invariance == Spec => []IInv
  BY InitInv, NextInv, PTL DEF Spec

-----------------------------------------------------------------------------
(* Every variable keeps its type: in particular no launch runs past the    *)
(* end of the plan or remembers a volume that is not a workload's.         *)
THEOREM TypeCorrect == Spec => []TypeOK
<1>1. IInv => TypeOK
  BY DEF IInv
<1>. QED
  BY <1>1, Invariance, PTL

(* The contents of every v3 database volume exist, at every moment of any  *)
(* sequence of launches in which no two copy helpers of a database have    *)
(* met, in the original or in a pinned complete copy.                      *)
THEOREM DataSafety == Spec => []DataKept
<1>1. IInv => DataKept
  BY DEF IInv, SourceSafe, StandsIn, DataNeverLost, DataKept
<1>. QED
  BY <1>1, Invariance, PTL

(* Two copy helpers meet only after a VolumeInspect has failed: where none *)
(* does, the data is never lost.                                           *)
THEOREM DataSafeWhereRead == Spec => [](misread \/ DataNeverLost)
<1>1. IInv => (misread \/ DataNeverLost)
  BY DEF IInv, Recalled, SourceSafe, StandsIn, DataNeverLost
<1>. QED
  BY <1>1, Invariance, PTL

(* No copy helper, of this launch or of a dead one, reads a volume whose   *)
(* v3 database still exists.                                               *)
THEOREM SourceIsQuiet == Spec => []QuietSource
<1>1. IInv => QuietSource
  BY Sets DEF IInv, TypeOK, Replaced, Helped, QuietSource
<1>. QED
  BY <1>1, Invariance, PTL

(* Until a VolumeInspect fails, a new volume never has a copy helper on it *)
(* together with a database or another copy helper.                        *)
THEOREM SingleUser == Spec => []OneUser
<1>1. IInv => OneUser
  BY DEF IInv, TypeOK, Recalled, Apart, OneUser, Helped
<1>. QED
  BY <1>1, Invariance, PTL

(* The wipe begins only after every discovered container was matched and   *)
(* every matched entry has its container.                                  *)
THEOREM CompleteBeforeWipe == Spec => []WipedOnlyWhenComplete
<1>1. IInv => WipedOnlyWhenComplete
  BY DEF IInv, WipeSafe, WipedOnlyWhenComplete
<1>. QED
  BY <1>1, Invariance, PTL

(* Until a VolumeInspect fails, no later launch removes or overwrites the  *)
(* volume of a database that has run.                                      *)
THEOREM LiveVolumesKept == Spec => LiveKept
<1>1. IInv /\ [Next]_vars =>
        [misread \/ \A i \in DBs : newVol[i] = "live" => newVol'[i] = "live"]_vars
  <2>. SUFFICES ASSUME IInv, Next, ~misread, NEW i \in DBs, newVol[i] = "live"
                PROVE  newVol'[i] = "live"
    OBVIOUS
  <2>1. /\ newc[i] # "none" /\ helper[i] = "none" /\ strays[i] = 0
        /\ pc \in CopySteps \ {"clear"} => cur # i
    BY DEF IInv, CopyState, Recalled, Apart
  <2>2. CASE ClearVolume \/ CopyCreate \/ CopyStart
    BY <2>1, <2>2
    DEF IInv, TypeOK, ClearVolume, NewVolInUse, Helped, CopyCreate, CopyStart, CopySteps
  <2>6. CASE Start
    BY <2>1, <2>6 DEF Start, Opened
  <2>3. CASE \E j \in DBs : CopyEnds(j) \/ CopyFails(j) \/ StrayEnds(j) \/ StrayFails(j)
    <3>1. PICK j \in DBs : CopyEnds(j) \/ CopyFails(j) \/ StrayEnds(j) \/ StrayFails(j)
      BY <2>3
    <3>2. \A k \in DBs : strays[k] = 0
      BY DEF IInv, Recalled
    <3>3. helper[j] = "running"
      BY <3>1, <3>2 DEF CopyEnds, CopyFails, StrayEnds, StrayFails
    <3>. QED
      BY <2>1, <3>1, <3>2, <3>3
      DEF IInv, TypeOK, CopyEnds, CopyFails, CutOff, StrayEnds, StrayFails
  <2>4. CASE UNCHANGED newVol
    BY <2>4
  <2>5. UNCHANGED newVol \/ ClearVolume \/ CopyCreate \/ CopyStart \/ Start
          \/ \E j \in DBs : CopyEnds(j) \/ CopyFails(j) \/ StrayEnds(j) \/ StrayFails(j)
    BY DEF Next, Process, Launch, SkipEntry, NoVolume, TakeEntry, Stop, Remove,
           ClearInUse, ClearSkipped, CopyWait, Create, CreateConflict, Record,
           EndTakeover, KeepV3, BeginWipe, Reclaim, Finish, Fail, Stopped, docker, vars
  <2>. QED
    BY <2>2, <2>3, <2>4, <2>5, <2>6
<1>. QED
  BY <1>1, Invariance, PTL DEF Spec, LiveKept

-----------------------------------------------------------------------------
(* PostDocker implements Custody: no step gives up an original before a    *)
(* complete copy of it is pinned, and no pinned copy is lost.              *)
LEMMA CustodyInitially == Init => Abstract!CustodyInit
  BY InitInv, Sets DEF IInv, Init, Abstract!CustodyInit, keptItems, pinnedCopies

LEMMA CustodyStep ==
    ASSUME ~misread, IInv, [Next]_vars
    PROVE  [Abstract!CustodyNext]_(Abstract!custodyVars)
<1>. DEFINE Same == UNCHANGED <<plan.claim, keptItems, pinnedCopies>>
<1>1. Same => UNCHANGED Abstract!custodyVars
  BY DEF Abstract!custodyVars
<1>2. plan' = plan
  BY DEF Next, Process, Launch, SkipEntry, NoVolume, TakeEntry, Stop, Remove,
         ClearVolume, ClearInUse, ClearSkipped, CopyCreate, CopyStart, CopyWait,
         CopyEnds, CopyFails, StrayEnds, StrayFails, Create, CreateConflict, Start, Record,
         EndTakeover,
         KeepV3, BeginWipe, Reclaim, Finish, Fail, Stopped, vars
<1>3. CASE UNCHANGED <<newc, newVol, srcVol>>
  BY <1>1, <1>2, <1>3 DEF keptItems, pinnedCopies
<1>4. CASE ClearVolume \/ CopyCreate \/ CopyStart \/ Start
  <2>1. keptItems' = keptItems
    BY <1>4 DEF IInv, TypeOK, keptItems, ClearVolume, CopyCreate, CopyStart, Start
  <2>2. ASSUME NEW i \in DBs
        PROVE  i \in pinnedCopies' <=> i \in pinnedCopies
    <3>1. CASE ClearVolume
      BY <3>1 DEF IInv, pinnedCopies, ClearVolume, NewVolInUse, Helped
    <3>2. CASE CopyCreate
      BY <3>2 DEF IInv, Apart, CopySteps, pinnedCopies, CopyCreate
    <3>3. CASE CopyStart
      BY <3>3 DEF IInv, Apart, CopySteps, pinnedCopies, CopyStart
    <3>4. CASE Start
      <4>1. strays[i] = 0 /\ newc[cur] # "none"
        BY <3>4 DEF IInv, Recalled, Position, Start
      <4>2. newVol'[i] \in Good <=> newVol[i] \in Good
        BY <3>4, <4>1 DEF Start, Opened, Good
      <4>3. newc'[i] # "none" <=> newc[i] # "none"
        BY <3>4, <4>1 DEF IInv, TypeOK, Start
      <4>. QED
        BY <4>2, <4>3 DEF pinnedCopies
    <3>. QED
      BY <1>4, <3>1, <3>2, <3>3, <3>4
  <2>3. pinnedCopies' = pinnedCopies
    BY <2>2 DEF pinnedCopies
  <2>. QED
    BY <1>1, <1>2, <2>1, <2>3
<1>5. CASE \E i \in DBs : CopyEnds(i) \/ CopyFails(i) \/ StrayEnds(i) \/ StrayFails(i)
  <2>1. keptItems' = keptItems
    BY <1>5 DEF keptItems, CopyEnds, CopyFails, StrayEnds, StrayFails
  <2>2. ASSUME NEW j \in DBs
        PROVE  j \in pinnedCopies' <=> j \in pinnedCopies
    <3>1. \A i \in DBs : strays[i] = 0
      BY DEF IInv, Recalled
    <3>2. PICK i \in DBs : CopyEnds(i) \/ CopyFails(i)
      BY <1>5, <3>1 DEF StrayEnds, StrayFails
    <3>3. newc' = newc /\ newc[i] = "none" /\ \A k \in DBs \ {i} : newVol'[k] = newVol[k]
      BY <3>2 DEF IInv, TypeOK, Apart, CopyEnds, CopyFails, CutOff
    <3>. QED
      BY <3>3 DEF pinnedCopies
  <2>3. pinnedCopies' = pinnedCopies
    BY <2>2 DEF pinnedCopies
  <2>. QED
    BY <1>1, <1>2, <2>1, <2>3
<1>6. CASE Create
  <2>1. keptItems' = keptItems
    BY <1>6 DEF keptItems, Create
  <2>2. CASE cur \in DBs
    <3>1. cur \in Located /\ newc[cur] = "none" /\ newVol[cur] = "copy"
      BY <1>6, <2>2, Sets DEF IInv, Position, Working, Recalled, Copied, Create
    <3>2. Src(cur) \in keptItems
      BY <3>1, Sets DEF IInv, SourceSafe, keptItems
    <3>3. cur \notin pinnedCopies
      BY <3>1 DEF pinnedCopies
    <3>4. pinnedCopies' = pinnedCopies \cup {cur}
      BY <1>6, <3>1, Sets DEF IInv, TypeOK, pinnedCopies, Create, Good
    <3>5. Abstract!Pin(cur)
      BY <1>2, <2>1, <2>2, <3>2, <3>3, <3>4 DEF Abstract!Pin, Src
    <3>. QED
      BY <2>2, <3>5 DEF Abstract!CustodyNext
  <2>3. CASE cur \notin DBs
    <3>1. \A i \in DBs : newc'[i] = newc[i]
      BY <1>6, <2>3 DEF Create
    <3>2. pinnedCopies' = pinnedCopies
      BY <1>6, <3>1 DEF pinnedCopies, Create
    <3>. QED
      BY <1>1, <1>2, <2>1, <3>2
  <2>. QED
    BY <2>2, <2>3
<1>7. CASE Reclaim
  <2>1. pinnedCopies' = pinnedCopies
    BY <1>7 DEF pinnedCopies, Reclaim
  <2>2. PICK w \in reclaim : srcVol' = srcVol \/ srcVol' = [srcVol EXCEPT ![w] = "none"]
    BY <1>7 DEF Reclaim
  <2>3. CASE srcVol' = srcVol
    BY <1>1, <1>2, <2>1, <2>3 DEF keptItems
  <2>4. CASE srcVol' = [srcVol EXCEPT ![w] = "none"]
    <3>1. PICK i \in Located : StandsIn(i, w)
      BY DEF IInv, Recalled, ReclaimSafe
    <3>2. i \in pinnedCopies /\ plan.claim[i] = w
      BY <3>1, Sets DEF IInv, StandsIn, pinnedCopies, Src
    <3>3. keptItems' = keptItems \ {w} /\ w \in Workloads
      BY <2>4 DEF IInv, TypeOK, keptItems
    <3>4. CASE w \in keptItems
      <4>1. Abstract!Release(w)
        BY <1>2, <2>1, <3>2, <3>3, <3>4 DEF Abstract!Release
      <4>. QED
        BY <3>3, <4>1 DEF Abstract!CustodyNext
    <3>5. CASE w \notin keptItems
      BY <1>1, <1>2, <2>1, <3>3, <3>5
    <3>. QED
      BY <3>4, <3>5
  <2>. QED
    BY <2>2, <2>3, <2>4
<1>8. \/ UNCHANGED <<newc, newVol, srcVol>>
      \/ ClearVolume \/ CopyCreate \/ CopyStart \/ Start
      \/ \E i \in DBs : CopyEnds(i) \/ CopyFails(i) \/ StrayEnds(i) \/ StrayFails(i)
      \/ Create \/ Reclaim
  BY DEF Next, Process, Launch, SkipEntry, NoVolume, TakeEntry, Stop, Remove,
         ClearInUse, ClearSkipped, CopyWait, CreateConflict, Record, EndTakeover,
         KeepV3, BeginWipe, Finish, Fail, Stopped, docker, vars
<1>. QED
  BY <1>3, <1>4, <1>5, <1>6, <1>7, <1>8

(* Up to the first failing VolumeInspect, the takeover and the teardown    *)
(* together implement data custody ...                                     *)
THEOREM CustodyUntilMisread == Spec => KeepsCustody
<1>1. IInv /\ [Next]_vars => misread \/ [Abstract!CustodyNext]_(Abstract!custodyVars)
  BY CustodyStep
<1>. QED
  BY <1>1, CustodyInitially, Invariance, PTL DEF Spec, KeepsCustody

(* ... and where none ever fails they implement it for good.               *)
THEOREM ImplementsCustody == Spec /\ []~misread => Abstract!CustodySpec
<1>1. IInv /\ ~misread /\ [Next]_vars => [Abstract!CustodyNext]_(Abstract!custodyVars)
  BY CustodyStep
<1>. QED
  BY <1>1, CustodyInitially, Invariance, PTL DEF Spec, Abstract!CustodySpec

-----------------------------------------------------------------------------
(* PostDocker implements Succession, whatever fails.                       *)
LEMMA SuccessionInitially == Init => Heirs!SuccessionInit
  BY DEF Init, Heirs!SuccessionInit, unremoved, created

(* At the removal of a v3 container the place of none is vacant.           *)
LEMMA NobodyWaits ==
    ASSUME IInv, pc = "remove", v3c[Src(cur)] # "gone",
           NEW w \in Workloads, v3c[w] = "gone"
    PROVE  \E i \in Claimed : Src(i) = w /\ newc[i] # "none"
<1>1. cur \in Claimed /\ cur \in Nat
  BY Sets DEF IInv, Position, Working
<1>2. PICK m \in Claimed : Src(m) = w /\ \A j \in Claimed : j < m => newc[j] # "none"
  BY DEF IInv, Prefix
<1>3. m \in Nat /\ m # cur
  BY <1>2, Sets DEF IInv
<1>4. CASE m < cur
  BY <1>2, <1>4 DEF IInv, LoopDone
<1>5. CASE cur < m
  <2>1. newc[cur] # "none"
    BY <1>1, <1>2, <1>5
  <2>. QED
    BY <1>1, <2>1, Sets DEF IInv, Replaced, Helped
<1>. QED
  BY <1>1, <1>3, <1>4, <1>5

LEMMA SuccessionStep ==
    ASSUME IInv, [Next]_vars
    PROVE  [Heirs!SuccessionNext]_(Heirs!successionVars)
<1>. DEFINE Fixed == UNCHANGED <<plan.claim, Workloads>>
            Over  == wiped # "no"
<1>1. plan' = plan
  BY DEF Next, Process, Launch, SkipEntry, NoVolume, TakeEntry, Stop, Remove,
         ClearVolume, ClearInUse, ClearSkipped, CopyCreate, CopyStart, CopyWait,
         CopyEnds, CopyFails, StrayEnds, StrayFails, Create, CreateConflict, Start, Record,
         EndTakeover,
         KeepV3, BeginWipe, Reclaim, Finish, Fail, Stopped, vars
<1>2. ASSUME unremoved' = unremoved, created' = created, Over' = Over
      PROVE  UNCHANGED Heirs!successionVars
  BY <1>1, <1>2 DEF Heirs!successionVars
<1>3. CASE UNCHANGED <<v3c, newc, wiped>>
  BY <1>2, <1>3 DEF unremoved, created
<1>4. CASE Stop
  <2>1. unremoved' = unremoved
    BY <1>4 DEF IInv, TypeOK, Stop, unremoved
  <2>. QED
    BY <1>2, <1>4, <2>1 DEF Stop, created, disk
<1>5. CASE Remove
  <2>1. cur \in Claimed /\ Src(cur) \in Workloads
    BY <1>5, Sets DEF IInv, Position, Working, Remove
  <2>2. unremoved' = unremoved \ {Src(cur)}
    BY <1>5 DEF IInv, TypeOK, Remove, unremoved
  <2>3. created' = created /\ Over' = Over
    BY <1>5 DEF Remove, created, disk
  <2>4. CASE v3c[Src(cur)] = "gone"
    BY <1>2, <2>2, <2>3, <2>4 DEF unremoved
  <2>5. CASE v3c[Src(cur)] # "gone"
    <3>1. \A w \in Workloads \ unremoved : \E i \in created : plan.claim[i] = w
      BY <1>5, <2>5, NobodyWaits, Sets DEF IInv, Remove, unremoved, created, Src
    <3>2. Src(cur) \in unremoved /\ cur \in Entries
      BY <2>1, <2>5, Sets DEF IInv, unremoved
    <3>3. Heirs!Retire(Src(cur))
      BY <1>1, <2>2, <2>3, <3>1, <3>2 DEF Heirs!Retire, Heirs!Retired, Heirs!Vacant, Src
    <3>. QED
      BY <3>2, <3>3 DEF Heirs!SuccessionNext
  <2>. QED
    BY <2>4, <2>5
<1>6. CASE Create
  <2>1. cur \in Entries /\ Src(cur) \in Workloads /\ v3c[Src(cur)] = "gone"
    BY <1>6, Sets DEF IInv, Position, Working, Removed, Create
  <2>2. created' = created \cup {cur} /\ cur \notin created
    BY <1>6, <2>1 DEF IInv, TypeOK, Create, created
  <2>3. unremoved' = unremoved /\ Over' = Over
    BY <1>6 DEF Create, unremoved, disk
  <2>4. Heirs!Seat(cur)
    BY <1>1, <2>1, <2>2, <2>3 DEF Heirs!Seat, Heirs!Retired, unremoved, Src
  <2>. QED
    BY <2>1, <2>4 DEF Heirs!SuccessionNext
<1>7. CASE Start
  <2>1. newc[cur] # "none"
    BY <1>7 DEF IInv, Position, Start
  <2>2. created' = created
    BY <1>7, <2>1 DEF Start, Opened, created
  <2>. QED
    BY <1>2, <1>7, <2>2 DEF Start, Opened, unremoved, disk
<1>8. CASE BeginWipe \/ Finish
  <2>1. unremoved' = unremoved /\ created' = created /\ Over'
    BY <1>8 DEF IInv, BeginWipe, Finish, unremoved, created, docker
  <2>2. pc \in AfterLoop /\ Orphans = {}
    BY <1>8 DEF IInv, Position, BeginWipe, Finish, AfterLoop
  <2>3. ASSUME NEW w \in Workloads
        PROVE  v3c[w] = "gone" /\ \E i \in created : plan.claim[i] = w
    <3>1. PICK i \in Claimed : Src(i) = w
      BY <2>2 DEF Orphans
    <3>2. newc[i] # "none" /\ i \in Entries
      BY <2>2, AllDone, Sets DEF IInv
    <3>. QED
      BY <3>1, <3>2 DEF IInv, Replaced, Helped, created, Src
  <2>4. Heirs!Dissolve
    BY <1>1, <2>1, <2>3 DEF Heirs!Dissolve, Heirs!Vacant, unremoved
  <2>. QED
    BY <2>4 DEF Heirs!SuccessionNext
<1>9. \/ UNCHANGED <<v3c, newc, wiped>>
      \/ Stop \/ Remove \/ Create \/ Start \/ BeginWipe \/ Finish
  BY DEF Next, Process, Launch, SkipEntry, NoVolume, TakeEntry, ClearVolume, ClearInUse,
         ClearSkipped, CopyCreate, CopyStart, CopyWait, CopyEnds, CopyFails, StrayEnds,
         StrayFails, CreateConflict, Record, EndTakeover, KeepV3, Reclaim, Fail, Stopped,
         docker,
         disk, vars
<1>. QED
  BY <1>3, <1>4, <1>5, <1>6, <1>7, <1>8, <1>9

(* Whatever fails, over any number of launches, the takeover implements    *)
(* the succession of containers.                                           *)
THEOREM ImplementsSuccession == Spec => KeepsSuccession
<1>1. IInv /\ [Next]_vars => [Heirs!SuccessionNext]_(Heirs!successionVars)
  BY SuccessionStep
<1>. QED
  BY <1>1, SuccessionInitially, Invariance, PTL
  DEF Spec, KeepsSuccession, Heirs!SuccessionSpec

(* However many launches were interrupted, at most one v3 container is     *)
(* gone without a replacement: Succession leaves no two places vacant.     *)
THEOREM OneDown == Spec => []AtMostOneDown
<1>1. ASSUME Heirs!OneVacancy
      PROVE  AtMostOneDown
  <2>1. ASSUME NEW w \in Workloads, Down(w)
        PROVE  Heirs!Vacant(w)
    <3>1. w \notin unremoved
      BY <2>1 DEF Down, unremoved
    <3>2. \A i \in created : plan.claim[i] # w
      BY <2>1, ConstantsAssumption DEF Down, created, Claimed, Src
    <3>. QED
      BY <3>1, <3>2 DEF Heirs!Vacant, Heirs!Retired
  <2>. QED
    BY <1>1, <2>1 DEF AtMostOneDown, Heirs!OneVacancy
<1>2. Heirs!SuccessionSpec => []Heirs!OneVacancy
  BY Heirs!OneAtATime
<1>. QED
  BY <1>1, <1>2, ImplementsSuccession, PTL DEF KeepsSuccession

=============================================================================
