---------------------------- MODULE InstallProofs ----------------------------
(***************************************************************************)
(* Proofs about the script and the wipe, for any objects of the host, any  *)
(* workloads, launches and faults.                                         *)
(***************************************************************************)
EXTENDS InstallProps, SequenceTheorems, FiniteSetTheorems, TLAPS

Importing == {"freeze", "upgrade", "docker", "install", "start", "env", "pre"}

(* A launch that has not imported yet has a batch to come.                 *)
Batches ==
    /\ batch =< launches
    /\ step \in Importing => batch < launches

(* What the first launch finds, up to the upgrade.                         *)
FirstLaunch ==
    /\ launches = 0 => step = "idle"
    /\ step = "idle" => launches = 0
    /\ launches = 0 \/ (launches = 1 /\ step = "freeze") => daemon /\ coolifygo = "absent"
    /\ launches = 1 /\ step = "upgrade" => coolifygo = "absent" /\ (calm => up = {})

Phase ==
    /\ wiping <=> step = "wipe"
    /\ step = "takeover" => state # NoPlan

(* What is still there is still to come, or reported.                      *)
Reported(o) == o \in warned \cup blind \/ (o \in DOMAIN PrefixOf /\ PrefixOf[o] \in warned)

Accounted ==
    wiping => \A o \in present \ (Range(SourceVolumes) \ Reclaimable) : o \in todo \/ Reported(o)

(* What must stay is there, and coolifygo's volumes are not to come.       *)
Guarded == StrangersKept /\ todo \cap Owned = {}

IInv ==
    /\ TypeOK
    /\ Batches
    /\ StateIsFresh
    /\ FirstLaunch
    /\ Phase
    /\ Accounted
    /\ Guarded

-----------------------------------------------------------------------------
(* The order of the steps.                                                 *)
LEMMA Order ==
    /\ After("freeze") = "upgrade" /\ After("upgrade") = "docker"
    /\ After("docker") = "install" /\ After("install") = "start"
    /\ After("start") = "env" /\ After("env") = "pre"
    /\ After("pre") = "load" /\ After("clean") = "done"
BY DEF After

(* Objects of different kinds are different.                               *)
LEMMA KindsDiffer ==
    /\ Range(V3Containers) \cap (Volumes \cup {Alpine}) = {}
    /\ Range(V3Images) \cap (Volumes \cup {Alpine}) = {}
    /\ Range(HostPaths) \cap (Volumes \cup {Alpine}) = {}
    /\ Network \notin Volumes \cup {Alpine}
    /\ Alpine \notin Volumes
    /\ Owned \subseteq Volumes
    /\ (Range(V3Images) \cup {Network} \cup Range(HostPaths)) \cap Range(V3Containers) = {}
<1>1. DOMAIN Kinds = 1 .. 6
  BY DEF Kinds
<1>2. /\ Kinds[1] = Range(V3Containers) /\ Kinds[2] = Volumes /\ Kinds[3] = Range(V3Images)
      /\ Kinds[4] = {Alpine} /\ Kinds[5] = {Network} /\ Kinds[6] = Range(HostPaths)
  BY DEF Kinds
<1>3. \A i, j \in 1 .. 6 : i # j => Kinds[i] \cap Kinds[j] = {}
  BY <1>1, TeardownAssumption
<1>4. /\ Kinds[1] \cap Kinds[2] = {} /\ Kinds[1] \cap Kinds[4] = {}
      /\ Kinds[3] \cap Kinds[2] = {} /\ Kinds[3] \cap Kinds[4] = {}
      /\ Kinds[6] \cap Kinds[2] = {} /\ Kinds[6] \cap Kinds[4] = {}
      /\ Kinds[5] \cap Kinds[2] = {} /\ Kinds[5] \cap Kinds[4] = {}
      /\ Kinds[4] \cap Kinds[2] = {}
      /\ Kinds[1] \cap Kinds[3] = {} /\ Kinds[1] \cap Kinds[5] = {} /\ Kinds[1] \cap Kinds[6] = {}
  BY <1>3
<1>5. Owned \subseteq Volumes
  BY TeardownAssumption DEF Volumes
<1>6. (Range(V3Images) \cup {Network} \cup Range(HostPaths)) \cap Range(V3Containers) = {}
  BY <1>2, <1>4
<1>. QED
  BY <1>2, <1>4, <1>5, <1>6

(* An object is passed once it is gone or reported; none goes that must    *)
(* stay.                                                                   *)
LEMMA Passing ==
    ASSUME IInv,
           UNCHANGED <<strangers, reclaim, wiping>>,
           warned \subseteq warned', blind \subseteq blind',
           todo' \subseteq todo, present' \subseteq present,
           \A x \in todo \ todo' : x \notin present' \/ Reported(x)',
           \A x \in present \ present' :
              x \in Volumes \cup {Alpine} => Holders[x] \cap strangers = {} /\ x \notin Owned
    PROVE  Accounted' /\ Guarded'
<1>1. \A o : Reported(o) => Reported(o)'
  BY DEF Reported
<1>2. Accounted'
  BY <1>1 DEF IInv, Accounted, Reclaimable
<1>3. Guarded'
  BY KindsDiffer DEF IInv, Guarded, StrangersKept
<1>. QED
  BY <1>2, <1>3

(* A call takes a fault from the bound, or none.                           *)
LEMMA CallCounts ==
    ASSUME TypeOK, Answered \/ Fails \/ Fault \/ UNCHANGED faults
    PROVE  faults' \in 0 .. MaxFaults
BY TeardownAssumption DEF TypeOK, TeardownTypeOK, Answered, Fails, Fault

LEMMA FreeRemoval ==
    ASSUME IInv, NEW o \in Objects, At(o), RemoveIfFree(o), Pass(o)
    PROVE  /\ TeardownTypeOK' /\ UNCHANGED <<strangers, reclaim, wiping>>
           /\ present' \subseteq present /\ Accounted' /\ Guarded'
<1>1. /\ wiping /\ o \in todo /\ todo' = todo \ {o}
      /\ UNCHANGED <<strangers, reclaim, wiping, cancelled>>
  BY DEF At, Pass
<1>2. \/ o \notin present /\ UNCHANGED <<present, warned, blind>>
      \/ ~InUse(o) /\ present' = present \ {o} /\ UNCHANGED <<warned, blind>>
      \/ warned' = warned \cup {o} /\ UNCHANGED <<present, blind>>
      \/ blind' = blind \cup {o} /\ UNCHANGED <<present, warned>>
  BY DEF RemoveIfFree, Kept, Gone, Warn, Unseen
<1>3. faults' \in 0 .. MaxFaults
  BY CallCounts DEF IInv, RemoveIfFree
<1>4. TeardownTypeOK'
  BY <1>1, <1>2, <1>3 DEF IInv, TypeOK, TeardownTypeOK
<1>5. /\ warned \subseteq warned' /\ blind \subseteq blind'
      /\ todo' \subseteq todo /\ present' \subseteq present
  BY <1>1, <1>2
<1>6. \A x \in todo \ todo' : x \notin present' \/ Reported(x)'
  BY <1>1, <1>2 DEF Reported
<1>7. \A x \in present \ present' : Holders[x] \cap strangers = {} /\ x \notin Owned
  BY <1>1, <1>2 DEF InUse, IInv, Guarded
<1>. QED
  BY <1>1, <1>4, <1>5, <1>6, <1>7, Passing

LEMMA ImageRemoval ==
    ASSUME IInv, NEW i \in Objects, RemoveImage(i)
    PROVE  /\ TeardownTypeOK' /\ UNCHANGED <<strangers, reclaim, wiping>>
           /\ present' \subseteq present /\ Accounted' /\ Guarded'
<1>1. /\ wiping /\ i \in todo /\ i \in Range(V3Images) /\ i \in DOMAIN PrefixOf
      /\ UNCHANGED <<strangers, reclaim, wiping, cancelled>>
  BY TeardownAssumption DEF RemoveImage, At, Pass
<1>2. \/ i \notin present /\ UNCHANGED <<present, warned, blind>> /\ todo' = todo \ {i}
      \/ present' = present \ {i} /\ UNCHANGED <<warned, blind>> /\ todo' = todo \ {i}
      \/ /\ warned' = warned \cup {PrefixOf[i]} /\ UNCHANGED <<present, blind>>
         /\ todo' = OtherPrefix(PrefixOf[i])
  BY DEF RemoveImage, Pass, Kept, Gone, Warn
<1>3. faults' \in 0 .. MaxFaults
  BY CallCounts DEF IInv, RemoveImage
<1>4. TeardownTypeOK'
  BY <1>1, <1>2, <1>3 DEF IInv, TypeOK, TeardownTypeOK, OtherPrefix, Range
<1>5. /\ warned \subseteq warned' /\ blind \subseteq blind'
      /\ todo' \subseteq todo /\ present' \subseteq present
  BY <1>1, <1>2 DEF OtherPrefix
<1>6. \A x \in todo \ todo' : x \notin present' \/ Reported(x)'
  BY <1>1, <1>2 DEF Reported, OtherPrefix
<1>7. \A x \in present \ present' : x \notin Volumes \cup {Alpine}
  BY <1>1, <1>2, KindsDiffer
<1>. QED
  BY <1>1, <1>4, <1>5, <1>6, <1>7, Passing

(* The network and the host paths are nobody's data.                       *)
LEMMA OtherRemoval ==
    ASSUME IInv, RemoveNetwork \/ \E p \in Objects : RemovePath(p)
    PROVE  /\ TeardownTypeOK' /\ UNCHANGED <<strangers, reclaim, wiping>>
           /\ present' \subseteq present /\ Accounted' /\ Guarded'
<1>1. PICK o \in Objects :
         /\ wiping /\ o \in todo /\ todo' = todo \ {o} /\ o \notin Volumes \cup {Alpine}
         /\ UNCHANGED <<strangers, reclaim, wiping, cancelled>>
         /\ \/ o \notin present /\ UNCHANGED <<present, warned, blind>>
            \/ present' = present \ {o} /\ UNCHANGED <<warned, blind>>
            \/ warned' = warned \cup {o} /\ UNCHANGED <<present, blind>>
  <2>1. CASE RemoveNetwork
    <3>1. Network \in Objects /\ Network \notin Volumes \cup {Alpine}
      BY KindsDiffer DEF Objects
    <3>. QED
      BY <2>1, <3>1 DEF RemoveNetwork, At, Pass, Kept, Gone, Warn
  <2>2. ASSUME NEW p \in Objects, RemovePath(p)
        PROVE  /\ wiping /\ p \in todo /\ todo' = todo \ {p} /\ p \notin Volumes \cup {Alpine}
               /\ UNCHANGED <<strangers, reclaim, wiping, cancelled>>
               /\ \/ p \notin present /\ UNCHANGED <<present, warned, blind>>
                  \/ present' = present \ {p} /\ UNCHANGED <<warned, blind>>
                  \/ warned' = warned \cup {p} /\ UNCHANGED <<present, blind>>
    BY <2>2, KindsDiffer DEF RemovePath, At, Pass, Kept, Gone, Warn
  <2>. QED
    BY <2>1, <2>2
<1>3. faults' \in 0 .. MaxFaults
  BY CallCounts DEF IInv, RemoveNetwork, RemovePath
<1>4. TeardownTypeOK'
  BY <1>1, <1>3 DEF IInv, TypeOK, TeardownTypeOK
<1>5. \A x \in todo \ todo' : x \notin present' \/ Reported(x)'
  BY <1>1 DEF Reported
<1>. QED
  BY <1>1, <1>4, <1>5, Passing

(* A step of the script that leaves the objects alone.                     *)
LEMMA Untouched ==
    ASSUME IInv, UNCHANGED <<strangers, present, todo, wiping, warned, blind>>,
           reclaim' = reclaim \/ (~wiping /\ reclaim' \subseteq Range(SourceVolumes)),
           cancelled' \in BOOLEAN, faults' \in 0 .. MaxFaults
    PROVE  TeardownTypeOK' /\ Accounted' /\ Guarded'
BY DEF IInv, TypeOK, TeardownTypeOK, Accounted, Reported, Reclaimable, Guarded, StrangersKept

-----------------------------------------------------------------------------
(* The invariant holds at first.                                           *)
LEMMA Initially == Init => IInv
<1>1. SUFFICES ASSUME Init PROVE IInv
  OBVIOUS
<1>2. TeardownTypeOK
  <2>1. strangers \subseteq Strangers /\ present \subseteq Objects
    BY <1>1 DEF Init, TeardownInit
  <2>2. faults \in 0 .. MaxFaults
    BY <1>1, TeardownAssumption DEF Init, TeardownInit
  <2>. QED
    BY <1>1, <2>1, <2>2 DEF Init, TeardownInit, TeardownTypeOK
<1>3. TypeOK
  <2>1. 0 \in 0 .. MaxLaunches /\ 0 \in 0 .. MaxWait
    BY InstallAssumption
  <2>2. owner \in [Workloads -> 0 .. MaxLaunches] /\ orphans \subseteq Workloads
    BY <1>1, <2>1 DEF Init
  <2>3. step = "idle" /\ state = NoPlan /\ coolifygo = "absent" /\ daemon = TRUE /\ env = FALSE
        /\ calm = TRUE /\ up = Mgmt /\ running = {}
        /\ launches = 0 /\ waited = 0 /\ batch = 0 /\ mine = 0
    BY <1>1 DEF Init
  <2>. QED
    BY <1>2, <2>1, <2>2, <2>3 DEF TypeOK
<1>4. Guarded
  BY <1>1, TeardownAssumption DEF Init, TeardownInit, Guarded, StrangersKept, Volumes, Objects
<1>. QED
  BY <1>1, <1>3, <1>4, InstallAssumption
  DEF Init, TeardownInit, IInv, Batches, StateIsFresh, FirstLaunch, Phase, Accounted, Importing

LEMMA LaunchStep == IInv /\ Launch => IInv'
<1>1. SUFFICES ASSUME IInv, Launch PROVE IInv'
  OBVIOUS
<1>2. TeardownTypeOK' /\ Accounted' /\ Guarded'
  <2>1. ~wiping /\ reclaim' \subseteq Range(SourceVolumes) /\ cancelled' \in BOOLEAN
    BY <1>1 DEF Launch, IInv, Phase
  <2>2. faults' \in 0 .. MaxFaults
    BY <1>1 DEF Launch, IInv, TypeOK, TeardownTypeOK
  <2>. QED
    BY <1>1, <2>1, <2>2, Untouched DEF Launch
<1>3. TypeOK'
  BY <1>1, <1>2, InstallAssumption DEF IInv, TypeOK, Launch, Steps, host
<1>4. Batches' /\ StateIsFresh' /\ Phase'
  BY <1>1, InstallAssumption
  DEF IInv, TypeOK, Batches, StateIsFresh, Phase, Launch, Importing, host
<1>5. FirstLaunch'
  BY <1>1, InstallAssumption DEF IInv, TypeOK, FirstLaunch, Launch, host
<1>. QED
  BY <1>2, <1>3, <1>4, <1>5 DEF IInv

(* Before the import: a wait, or one of the steps up to coolifygo.         *)
LEMMA WaitSteps ==
    ASSUME IInv, WaitDocker \/ WaitCoolifygo \/ LoadEnv
    PROVE  IInv'
<1>1. PICK s \in {"docker", "start", "env"} :
         \/ Done(s) /\ UNCHANGED calm
         \/ /\ step = s /\ waited < MaxWait /\ waited' = waited + 1
            /\ UNCHANGED <<step, calm>>
         \/ step = s /\ Abort /\ calm' = FALSE
  BY DEF WaitDocker, WaitCoolifygo, LoadEnv, Wait
<1>2. /\ step = s /\ calm' \in BOOLEAN /\ waited' \in 0 .. MaxWait
      /\ \/ step' = s
         \/ step' \in {"install", "env", "pre"}
         \/ step' = "failed"
  <2>1. CASE Done(s) /\ UNCHANGED calm
    BY <2>1, Order, InstallAssumption DEF IInv, TypeOK, Done
  <2>2. CASE /\ step = s /\ waited < MaxWait /\ waited' = waited + 1
             /\ UNCHANGED <<step, calm>>
    BY <2>2, InstallAssumption DEF IInv, TypeOK
  <2>3. CASE step = s /\ Abort /\ calm' = FALSE
    <3>1. 0 \in 0 .. MaxWait
      BY InstallAssumption
    <3>. QED
      BY <2>3, <3>1 DEF Abort
  <2>. QED
    BY <1>1, <2>1, <2>2, <2>3
<1>3. UNCHANGED <<launches, host, result, running, wipeVars>>
  BY DEF WaitDocker, WaitCoolifygo, LoadEnv
<1>4. TeardownTypeOK' /\ Accounted' /\ Guarded'
  BY <1>3, Untouched DEF IInv, TypeOK, TeardownTypeOK, wipeVars
<1>5. TypeOK'
  BY <1>2, <1>3, <1>4 DEF IInv, TypeOK, Steps, host, result
<1>6. Batches' /\ StateIsFresh' /\ Phase'
  BY <1>2, <1>3
  DEF IInv, Batches, StateIsFresh, Phase, Importing, result, wipeVars
<1>7. FirstLaunch'
  BY <1>2, <1>3 DEF IInv, FirstLaunch, host
<1>. QED
  BY <1>4, <1>5, <1>6, <1>7 DEF IInv

LEMMA EarlySteps ==
    ASSUME IInv, Freeze \/ Upgrade \/ InstallCoolifygo
    PROVE  IInv'
<1>1. /\ UNCHANGED <<launches, result, env, strangers, present, reclaim, todo, wiping, warned,
                     blind, cancelled>>
      /\ \/ step = "freeze" /\ step' = "upgrade"
         \/ step = "upgrade" /\ step' \in {"docker", "failed"}
         \/ step = "install" /\ step' = "start"
      /\ waited' = 0
  BY Order DEF Freeze, Upgrade, InstallCoolifygo, Done, Fail, Abort, Same, result, wipeVars
<1>2. faults' \in 0 .. MaxFaults
  BY CallCounts DEF IInv, Freeze, Upgrade, InstallCoolifygo, Fail, wipeVars
<1>3. /\ up' \subseteq Mgmt /\ daemon' \in BOOLEAN /\ calm' \in BOOLEAN
      /\ coolifygo' \in {"absent", "running", "crashed"}
      /\ running' \subseteq Mgmt \cup {"coolifygo"}
  BY DEF IInv, TypeOK, Freeze, Upgrade, InstallCoolifygo, Fail, Same
<1>4. TeardownTypeOK' /\ Accounted' /\ Guarded'
  BY <1>1, <1>2, Untouched DEF IInv, TypeOK, TeardownTypeOK
<1>5. TypeOK'
  BY <1>1, <1>3, <1>4, InstallAssumption DEF IInv, TypeOK, Steps, result
<1>6. Batches' /\ StateIsFresh' /\ Phase'
  BY <1>1 DEF IInv, Batches, StateIsFresh, Phase, Importing, result
<1>7. FirstLaunch'
  <2>1. CASE Freeze
    <3>1. step = "freeze" /\ step' = "upgrade" /\ UNCHANGED <<launches, daemon, coolifygo>>
      BY <1>1, <2>1 DEF Freeze, Done, Same
    <3>2. daemon => up' = {} \/ calm' = FALSE
      BY <2>1 DEF Freeze
    <3>. QED
      BY <3>1, <3>2 DEF IInv, FirstLaunch
  <2>2. CASE Upgrade \/ InstallCoolifygo
    <3>1. step' \in {"docker", "failed", "start"} /\ step # "idle" /\ UNCHANGED launches
      BY <1>1, <2>2 DEF Upgrade, InstallCoolifygo, Done, Fail
    <3>. QED
      BY <3>1 DEF IInv, FirstLaunch
  <2>. QED
    BY <2>1, <2>2
<1>. QED
  BY <1>4, <1>5, <1>6, <1>7 DEF IInv

(* The world's answers.                                                    *)
LEMMA WorldSteps ==
    ASSUME IInv, DaemonUp \/ CoolifygoStarts \/ CoolifygoWritesEnv
    PROVE  IInv'
<1>1. /\ UNCHANGED <<step, launches, waited, up, result, calm, running, wipeVars>>
      /\ daemon' \in BOOLEAN /\ env' \in BOOLEAN /\ (daemon => daemon')
      /\ coolifygo' = coolifygo \/ (coolifygo = "crashed" /\ coolifygo' = "running")
  BY DEF IInv, TypeOK, DaemonUp, CoolifygoStarts, CoolifygoWritesEnv
<1>2. TeardownTypeOK' /\ Accounted' /\ Guarded'
  BY <1>1, Untouched DEF IInv, TypeOK, TeardownTypeOK, wipeVars
<1>3. TypeOK'
  BY <1>1, <1>2 DEF IInv, TypeOK, result
<1>4. Batches' /\ StateIsFresh' /\ Phase' /\ FirstLaunch'
  BY <1>1 DEF IInv, Batches, StateIsFresh, Phase, FirstLaunch, result, wipeVars
<1>. QED
  BY <1>2, <1>3, <1>4 DEF IInv

(* A launch goes on past the import only with its own batch in the file.   *)
LEMMA ImportStep == IInv /\ PreDocker => IInv'
<1>1. SUFFICES ASSUME IInv, PreDocker PROVE IInv'
  OBVIOUS
<1>2. /\ step = "pre" /\ waited' = 0
      /\ UNCHANGED <<launches, orphans, running, daemon, coolifygo, env, owner, strangers,
                     present, reclaim, todo, wiping, warned, blind, cancelled>>
      /\ up' \in {up, {}} /\ calm' \in BOOLEAN
      /\ Fault \/ UNCHANGED faults
      /\ \/ step' = "failed"
         \/ step' = "load" /\ Import
      /\ \/ UNCHANGED <<batch, mine, state>>
         \/ Import
         \/ batch' = batch + 1 /\ mine' = batch + 1 /\ UNCHANGED state
  BY <1>1, Order DEF IInv, TypeOK, PreDocker, Done, Fail, Abort, Same
<1>3. faults' \in 0 .. MaxFaults
  BY <1>1, <1>2, CallCounts DEF IInv
<1>4. TeardownTypeOK' /\ Accounted' /\ Guarded'
  BY <1>1, <1>2, <1>3, Untouched DEF IInv, TypeOK, TeardownTypeOK
<1>5. batch \in Nat /\ batch < launches /\ launches =< MaxLaunches
  BY <1>1, <1>2, InstallAssumption DEF IInv, TypeOK, Batches, Importing
<1>6. batch' \in 0 .. MaxLaunches /\ mine' \in 0 .. MaxLaunches /\ state' \in Plan \cup {NoPlan}
  BY <1>1, <1>2, <1>5, InstallAssumption DEF IInv, TypeOK, Import, Plan
<1>7. TypeOK'
  BY <1>1, <1>2, <1>4, <1>6, InstallAssumption DEF IInv, TypeOK, Steps
<1>8. Batches' /\ Phase' /\ FirstLaunch'
  BY <1>1, <1>2, <1>5, InstallAssumption
  DEF IInv, TypeOK, Batches, Phase, FirstLaunch, Importing, Import
<1>9. StateIsFresh'
  BY <1>1, <1>2 DEF StateIsFresh, Import
<1>. QED
  BY <1>4, <1>7, <1>8, <1>9 DEF IInv

(* The post-docker phase up to the wipe.                                   *)
LEMMA TakeoverSteps ==
    ASSUME IInv, LoadState \/ TakeoverFails \/ \E w \in Workloads : TakeOver(w)
    PROVE  IInv'
<1>1. /\ UNCHANGED <<launches, orphans, running, host, batch, state, mine, strangers, present,
                     todo, wiping, warned, blind, cancelled>>
      /\ step \in {"load", "takeover"} /\ step' \in {"takeover", "failed"}
      /\ waited' \in {waited, 0} /\ calm' \in BOOLEAN
      /\ step' = "takeover" => state # NoPlan
      /\ Fault \/ UNCHANGED faults
  BY DEF IInv, TypeOK, Phase, LoadState, TakeoverFails, TakeOver, Fail, Abort, Same, wipeVars
<1>2. reclaim' \subseteq Range(SourceVolumes) /\ owner' \in [Workloads -> 0 .. MaxLaunches]
  <2>1. CASE LoadState \/ TakeoverFails
    BY <2>1 DEF LoadState, TakeoverFails, wipeVars, IInv, TypeOK, TeardownTypeOK
  <2>2. ASSUME NEW w \in Workloads, TakeOver(w)
        PROVE  /\ reclaim' \subseteq Range(SourceVolumes)
               /\ owner' \in [Workloads -> 0 .. MaxLaunches]
    <3>1. state \in Plan
      BY <2>2 DEF TakeOver, IInv, TypeOK, Phase
    <3>2. state.batch \in 0 .. MaxLaunches
      BY <3>1, InstallAssumption DEF Plan
    <3>3. {DataOf[x] : x \in {w} \cap DOMAIN DataOf} \subseteq Range(SourceVolumes)
      BY InstallAssumption DEF Range
    <3>. QED
      BY <2>2, <3>2, <3>3 DEF TakeOver, ReclaimOf, IInv, TypeOK, TeardownTypeOK
  <2>. QED
    BY <2>1, <2>2
<1>3. faults' \in 0 .. MaxFaults
  BY <1>1, CallCounts DEF IInv
<1>4. TeardownTypeOK' /\ Accounted' /\ Guarded'
  BY <1>1, <1>2, <1>3, Untouched DEF IInv, TypeOK, TeardownTypeOK, Phase
<1>5. TypeOK'
  BY <1>1, <1>2, <1>4, InstallAssumption DEF IInv, TypeOK, Steps, host
<1>6. Batches' /\ StateIsFresh' /\ Phase' /\ FirstLaunch'
  BY <1>1 DEF IInv, Batches, StateIsFresh, Phase, FirstLaunch, Importing, host
<1>. QED
  BY <1>4, <1>5, <1>6 DEF IInv

(* The wipe begins with every object still to come that it may remove.     *)
LEMMA GateStep == IInv /\ Gate => IInv'
<1>1. SUFFICES ASSUME IInv, Gate PROVE IInv'
  OBVIOUS
<1>2. /\ step = "takeover" /\ waited' = 0
      /\ UNCHANGED <<launches, orphans, running, host, batch, state, mine, owner, calm>>
  BY <1>1 DEF Gate, Same
<1>3. CASE StartWipe /\ step' = "wipe"
  <2>1. /\ todo' = (Objects \ Range(SourceVolumes)) \cup Range(V3Volumes) \cup Reclaimable
        /\ wiping' = TRUE /\ warned' = {} /\ blind' = {}
        /\ UNCHANGED <<strangers, present, reclaim, cancelled, faults>>
    BY <1>3 DEF StartWipe
  <2>2. Range(V3Volumes) \subseteq Objects /\ Range(SourceVolumes) \subseteq Objects
    BY DEF Objects
  <2>3. TeardownTypeOK'
    BY <1>1, <2>1, <2>2 DEF IInv, TypeOK, TeardownTypeOK, Reclaimable
  <2>4. Accounted'
    BY <1>1, <2>1 DEF IInv, TypeOK, TeardownTypeOK, Accounted, Reclaimable
  <2>5. Guarded'
    BY <1>1, <2>1, TeardownAssumption DEF IInv, Guarded, StrangersKept, Reclaimable
  <2>6. TypeOK'
    BY <1>1, <1>2, <1>3, <2>3, InstallAssumption DEF IInv, TypeOK, Steps, host
  <2>7. Batches' /\ StateIsFresh' /\ Phase' /\ FirstLaunch'
    BY <1>1, <1>2, <1>3, <2>1
    DEF IInv, Batches, StateIsFresh, Phase, FirstLaunch, Importing, host
  <2>. QED
    BY <2>4, <2>5, <2>6, <2>7 DEF IInv
<1>4. CASE step' = "clean" /\ UNCHANGED wipeVars
  <2>1. TeardownTypeOK' /\ Accounted' /\ Guarded'
    BY <1>1, <1>4, Untouched DEF IInv, TypeOK, TeardownTypeOK, wipeVars
  <2>2. TypeOK'
    BY <1>1, <1>2, <1>4, <2>1, InstallAssumption DEF IInv, TypeOK, Steps, host
  <2>3. Batches' /\ StateIsFresh' /\ Phase' /\ FirstLaunch'
    BY <1>1, <1>2, <1>4
    DEF IInv, Batches, StateIsFresh, Phase, FirstLaunch, Importing, host, wipeVars
  <2>. QED
    BY <2>1, <2>2, <2>3 DEF IInv
<1>. QED
  BY <1>1, <1>3, <1>4 DEF Gate

LEMMA WipeStep == IInv /\ Wipe => IInv'
<1>1. SUFFICES ASSUME IInv, Wipe PROVE IInv'
  OBVIOUS
<1>2. /\ step = "wipe" /\ up' \subseteq up /\ calm' \in BOOLEAN
      /\ UNCHANGED <<launches, orphans, running, step, waited, daemon, coolifygo, env, batch,
                     state, mine, owner>>
  BY <1>1 DEF Wipe, Same
<1>3. TeardownTypeOK' /\ wiping' = wiping /\ Accounted' /\ Guarded'
  <2>1. CASE Cancel
    <3>1. cancelled' \in BOOLEAN /\ faults' \in 0 .. MaxFaults
      BY <1>1, <2>1, CallCounts DEF Cancel, IInv
    <3>. QED
      BY <1>1, <2>1, <3>1, Untouched DEF Cancel
  <2>2. ASSUME NEW o \in Objects, RemoveContainer(o) \/ RemoveVolume(o)
        PROVE  TeardownTypeOK' /\ wiping' = wiping /\ Accounted' /\ Guarded'
    BY <1>1, <2>2, FreeRemoval DEF RemoveContainer, RemoveVolume
  <2>3. CASE RemoveAlpine
    BY <1>1, <2>3, FreeRemoval DEF RemoveAlpine, Objects
  <2>4. ASSUME NEW o \in Objects, RemoveImage(o)
        PROVE  TeardownTypeOK' /\ wiping' = wiping /\ Accounted' /\ Guarded'
    BY <1>1, <2>4, ImageRemoval
  <2>5. CASE RemoveNetwork \/ \E p \in Objects : RemovePath(p)
    BY <1>1, <2>5, OtherRemoval
  <2>. QED
    BY <1>1, <2>1, <2>2, <2>3, <2>4, <2>5 DEF Wipe, RemoveOne
<1>4. TypeOK'
  BY <1>1, <1>2, <1>3 DEF IInv, TypeOK
<1>5. Batches' /\ StateIsFresh' /\ Phase' /\ FirstLaunch'
  BY <1>1, <1>2, <1>3 DEF IInv, Batches, StateIsFresh, Phase, FirstLaunch
<1>. QED
  BY <1>3, <1>4, <1>5 DEF IInv

(* The end of a launch, well or not.                                       *)
LEMMA EndingSteps ==
    ASSUME IInv, EndWipe \/ Clean \/ Die
    PROVE  IInv'
<1>1. /\ UNCHANGED <<launches, orphans, running, host, batch, mine, owner, strangers, present,
                     reclaim, warned, blind, cancelled>>
      /\ step # "idle" /\ step' \in {"clean", "done", "failed"}
      /\ state' \in {state, NoPlan}
      /\ waited' = 0 /\ calm' \in BOOLEAN /\ wiping' = FALSE
      /\ todo' \subseteq todo
      /\ Fault \/ UNCHANGED faults
  <2>1. CASE EndWipe
    BY <2>1 DEF EndWipe, Same, IInv, TypeOK
  <2>2. CASE Clean
    BY <2>2, Order DEF Clean, Done, Same, IInv, TypeOK, TeardownTypeOK, Phase, wipeVars
  <2>3. CASE Die
    BY <2>3 DEF Die, Abort, Same, Steps
  <2>. QED
    BY <2>1, <2>2, <2>3
<1>2. faults' \in 0 .. MaxFaults
  BY <1>1, CallCounts DEF IInv
<1>3. TeardownTypeOK'
  BY <1>1, <1>2 DEF IInv, TypeOK, TeardownTypeOK
<1>4. Accounted' /\ Guarded'
  BY <1>1 DEF IInv, Accounted, Guarded, StrangersKept
<1>5. TypeOK'
  BY <1>1, <1>3, InstallAssumption DEF IInv, TypeOK, Steps, host
<1>6. Batches' /\ StateIsFresh' /\ Phase' /\ FirstLaunch'
  BY <1>1 DEF IInv, Batches, StateIsFresh, Phase, FirstLaunch, Importing, host
<1>. QED
  BY <1>4, <1>5, <1>6 DEF IInv

(* Every step preserves the invariant.                                     *)
LEMMA Step == IInv /\ [Next]_vars => IInv'
<1>1. SUFFICES ASSUME IInv, [Next]_vars PROVE IInv'
  OBVIOUS
<1>2. CASE Launch
  BY <1>1, <1>2, LaunchStep
<1>3. CASE WaitDocker \/ WaitCoolifygo \/ LoadEnv
  BY <1>1, <1>3, WaitSteps
<1>4. CASE Freeze \/ Upgrade \/ InstallCoolifygo
  BY <1>1, <1>4, EarlySteps
<1>5. CASE DaemonUp \/ CoolifygoStarts \/ CoolifygoWritesEnv
  BY <1>1, <1>5, WorldSteps
<1>6. CASE PreDocker
  BY <1>1, <1>6, ImportStep
<1>7. CASE LoadState \/ TakeoverFails \/ \E w \in Workloads : TakeOver(w)
  BY <1>1, <1>7, TakeoverSteps
<1>8. CASE Gate
  BY <1>1, <1>8, GateStep
<1>9. CASE Wipe
  BY <1>1, <1>9, WipeStep
<1>10. CASE EndWipe \/ Clean \/ Die
  BY <1>1, <1>10, EndingSteps
<1>11. CASE UNCHANGED vars
  <2>1. TeardownTypeOK' /\ Accounted' /\ Guarded'
    BY <1>1, <1>11, Untouched DEF vars, wipeVars, IInv, TypeOK, TeardownTypeOK
  <2>. QED
    BY <1>1, <1>11, <2>1
    DEF vars, scriptVars, wipeVars, IInv, TypeOK, Batches, StateIsFresh, FirstLaunch, Phase
<1>. QED
  BY <1>1, <1>2, <1>3, <1>4, <1>5, <1>6, <1>7, <1>8, <1>9, <1>10, <1>11 DEF Next, Script

(* The inductive invariant holds throughout.                               *)
THEOREM Invariance == Spec => []IInv
  BY Initially, Step, PTL DEF Spec

-----------------------------------------------------------------------------
(* Every variable keeps its type, whatever fails and is launched again.    *)
THEOREM TypeCorrect == Spec => []TypeOK
<1>1. IInv => TypeOK
  BY DEF IInv
<1>. QED
  BY <1>1, Invariance, PTL

(* The post-docker phase works on what its own launch committed.           *)
THEOREM OwnPlan == Spec => []StateIsFresh
<1>1. IInv => StateIsFresh
  BY DEF IInv
<1>. QED
  BY <1>1, Invariance, PTL

(* The wipe removes no volume and no alpine image that a container of the  *)
(* user holds, and none of coolifygo's volumes.                            *)
THEOREM UsersKeepTheirs == Spec => []StrangersKept
<1>1. IInv => StrangersKept
  BY DEF IInv, Guarded
<1>. QED
  BY <1>1, Invariance, PTL

(* What the wipe leaves behind it has reported.                            *)
THEOREM NothingLeftUnsaid == Spec => []LeftIsReported
<1>1. IInv => LeftIsReported
  BY DEF IInv, Accounted, Reported, LeftIsReported, Wiped
<1>. QED
  BY <1>1, Invariance, PTL

(* The daemon restart of a first launch meets nothing live but workloads.  *)
THEOREM FirstUpgradeIsQuiet == Spec => UpgradeDisruptsNothing
<1>1. IInv /\ [Next]_vars =>
        [(daemon /\ ~daemon' /\ launches = 1 /\ calm) => running' = {}]_vars
  <2>. SUFFICES ASSUME IInv, Next, daemon, ~daemon', launches = 1, calm
                PROVE  running' = {}
    OBVIOUS
  <2>1. /\ Upgrade /\ step = "upgrade"
        /\ running' = up \cup {c \in {"coolifygo"} : coolifygo = "running"}
    BY DEF Next, Script, Launch, Freeze, Upgrade, WaitDocker, InstallCoolifygo, WaitCoolifygo,
           LoadEnv, PreDocker, LoadState, TakeOver, TakeoverFails, Gate, Wipe, EndWipe, Clean,
           DaemonUp, CoolifygoStarts, CoolifygoWritesEnv, Die, Done, host
  <2>. QED
    BY <2>1 DEF IInv, FirstLaunch
<1>. QED
  BY <1>1, Invariance, PTL DEF Spec, UpgradeDisruptsNothing

-----------------------------------------------------------------------------
(***************************************************************************)
(* "All done": what a launch in which nothing failed leaves behind.        *)
(***************************************************************************)
Loaded == {"load", "takeover", "wipe", "clean", "done"}
Ended  == {"clean", "done"}

(* What this wipe may leave behind without a word of a failure.            *)
Excused(o) == HeldByUser(o) \/ o \in Range(SourceVolumes) \ Reclaimable

(* Who owns a workload, and that the sources of this launch are remembered.*)
Owners ==
    /\ \A w \in Workloads : owner[w] =< batch
    /\ step \in Loaded => \A w \in DOMAIN DataOf : owner[w] = batch => DataOf[w] \in reclaim

(* With no orphans, the plan and what is taken over are all there is.      *)
Matched ==
    orphans = {} =>
        /\ step \in {"load", "takeover"} => \A w \in Workloads : owner[w] # 0 \/ w \in state.claims
        /\ step \in {"wipe"} \cup Ended => \A w \in Workloads : owner[w] # 0

(* As long as nothing fails, only what is excused stays behind.            *)
Swept ==
    /\ calm => ~cancelled
    /\ wiping /\ calm => \A o \in present : o \in todo \/ Excused(o)
    /\ step \in Ended /\ calm /\ orphans = {} => \A o \in present : Excused(o)

GInv == Owners /\ Matched /\ Swept

(* The containers come first: a list that begins with them keeps doing so  *)
(* when objects of other kinds are appended.                               *)
ContainersLead(s) ==
    /\ s \in Seq(Objects)
    /\ Len(V3Containers) =< Len(s)
    /\ \A i \in 1 .. Len(s) :
          i =< Len(V3Containers) <=> s[i] \in Range(V3Containers)

LEMMA InRange ==
    ASSUME NEW S, NEW s \in Seq(S)
    PROVE  \A i \in 1 .. Len(s) : s[i] \in Range(s)
  BY DEF Range

LEMMA FromRange ==
    ASSUME NEW S, NEW s \in Seq(S)
    PROVE  \A x \in Range(s) : \E i \in 1 .. Len(s) : x = s[i]
  BY DEF Range

LEMMA Appended ==
    ASSUME NEW s, ContainersLead(s), NEW t \in Seq(Objects),
           Range(t) \cap Range(V3Containers) = {}
    PROVE  ContainersLead(s \o t) /\ Range(s \o t) = Range(s) \cup Range(t)
<1>1. s \in Seq(Objects) /\ Len(V3Containers) =< Len(s) /\ Len(V3Containers) \in Nat
  BY TeardownAssumption DEF ContainersLead
<1>2. s \o t \in Seq(Objects) /\ Len(s \o t) = Len(s) + Len(t)
  BY <1>1, ConcatProperties
<1>3. \A i \in 1 .. Len(s) + Len(t) :
        (s \o t)[i] = IF i =< Len(s) THEN s[i] ELSE t[i - Len(s)]
  BY <1>1, ConcatProperties
<1>4. Len(s) \in Nat /\ Len(t) \in Nat
  BY <1>1
<1>5. \A j \in 1 .. Len(t) : t[j] \in Range(t) \ Range(V3Containers)
  BY InRange
<1>6. ASSUME NEW i \in 1 .. Len(s) + Len(t)
      PROVE  i =< Len(V3Containers) <=> (s \o t)[i] \in Range(V3Containers)
  <2>1. CASE i =< Len(s)
    BY <1>3, <1>4, <2>1 DEF ContainersLead
  <2>2. CASE ~(i =< Len(s))
    <3>1. i - Len(s) \in 1 .. Len(t)
      BY <1>4, <2>2
    <3>. QED
      BY <1>1, <1>3, <1>4, <1>5, <2>2, <3>1
  <2>. QED
    BY <2>1, <2>2
<1>7. ContainersLead(s \o t)
  BY <1>1, <1>2, <1>4, <1>6 DEF ContainersLead
<1>8. \A i \in 1 .. Len(s) + Len(t) : (s \o t)[i] \in Range(s) \cup Range(t)
  <2>. TAKE i \in 1 .. Len(s) + Len(t)
  <2>1. CASE i =< Len(s)
    BY <1>1, <1>3, <1>4, <2>1, InRange
  <2>2. CASE ~(i =< Len(s))
    <3>1. i - Len(s) \in 1 .. Len(t)
      BY <1>4, <2>2
    <3>. QED
      BY <1>3, <2>2, <3>1, InRange
  <2>. QED
    BY <2>1, <2>2
<1>9. \A i \in 1 .. Len(s) : s[i] \in Range(s \o t)
  <2>. TAKE i \in 1 .. Len(s)
  <2>1. i \in 1 .. Len(s) + Len(t) /\ (s \o t)[i] = s[i]
    BY <1>3, <1>4
  <2>. QED
    BY <1>2, <2>1, InRange
<1>10. \A j \in 1 .. Len(t) : t[j] \in Range(s \o t)
  <2>. TAKE j \in 1 .. Len(t)
  <2>1. Len(s) + j \in 1 .. Len(s) + Len(t) /\ ~(Len(s) + j =< Len(s)) /\ (Len(s) + j) - Len(s) = j
    BY <1>4
  <2>2. (s \o t)[Len(s) + j] = t[j]
    BY <1>3, <2>1
  <2>. QED
    BY <1>2, <2>1, <2>2, InRange
<1>11. Range(s \o t) \subseteq Range(s) \cup Range(t)
  <2>1. \A x \in Range(s \o t) : \E i \in 1 .. Len(s) + Len(t) : x = (s \o t)[i]
    BY <1>2, FromRange
  <2>. QED
    BY <1>8, <2>1
<1>12. Range(s) \subseteq Range(s \o t) /\ Range(t) \subseteq Range(s \o t)
  BY <1>1, <1>9, <1>10, FromRange
<1>. QED
  BY <1>7, <1>11, <1>12

(* Wipe goes through the containers before anything else.                  *)
LEMMA ContainersFirst ==
    ASSUME NEW c \in Range(V3Containers), NEW o \in Objects, o \notin Range(V3Containers)
    PROVE  c \in Objects /\ ~(Place[o] =< Place[c])
<1>. DEFINE W1 == V3Containers \o V3Volumes
            W2 == W1 \o SourceVolumes
            W3 == W2 \o V3Images
            pair == <<Alpine, Network>>
            W4 == W3 \o pair
            W5 == W4 \o HostPaths
<1>1. /\ V3Containers \in Seq(Objects) /\ V3Volumes \in Seq(Objects)
      /\ SourceVolumes \in Seq(Objects) /\ V3Images \in Seq(Objects)
      /\ HostPaths \in Seq(Objects)
  BY TeardownAssumption
<1>2. pair \in Seq(Objects) /\ Range(pair) = {Alpine, Network}
  BY DEF Objects, Range
<1>3. /\ Range(V3Volumes) \cap Range(V3Containers) = {}
      /\ Range(SourceVolumes) \cap Range(V3Containers) = {}
      /\ Range(V3Images) \cap Range(V3Containers) = {}
      /\ {Alpine, Network} \cap Range(V3Containers) = {}
      /\ Range(HostPaths) \cap Range(V3Containers) = {}
  BY KindsDiffer DEF Volumes
<1>4. ContainersLead(V3Containers)
  BY <1>1, InRange, FromRange DEF ContainersLead
<1>5. ContainersLead(W1) /\ Range(W1) = Range(V3Containers) \cup Range(V3Volumes)
  BY <1>1, <1>3, <1>4, Appended
<1>6. ContainersLead(W2) /\ Range(W2) = Range(W1) \cup Range(SourceVolumes)
  <2>. HIDE DEF W1
  <2>. QED BY <1>1, <1>3, <1>5, Appended
<1>7. ContainersLead(W3) /\ Range(W3) = Range(W2) \cup Range(V3Images)
  <2>. HIDE DEF W2
  <2>. QED BY <1>1, <1>3, <1>6, Appended
<1>8. ContainersLead(W4) /\ Range(W4) = Range(W3) \cup {Alpine, Network}
  <2>. HIDE DEF W3, pair
  <2>. QED BY <1>2, <1>3, <1>7, Appended
<1>9. ContainersLead(W5) /\ Range(W5) = Range(W4) \cup Range(HostPaths)
  <2>. HIDE DEF W4
  <2>. QED BY <1>1, <1>3, <1>8, Appended
<1>10. WipeOrder = W5
  BY DEF WipeOrder
<1>11. Range(W5) = Objects
  <2>. HIDE DEF W1, W2, W3, W4, W5
  <2>. QED BY <1>5, <1>6, <1>7, <1>8, <1>9 DEF Objects
<1>. HIDE DEF W1, W2, W3, W4, W5
<1>12. \A x \in Objects : Place[x] \in 1 .. Len(W5) /\ W5[Place[x]] = x
  <2>. TAKE x \in Objects
  <2>1. DOMAIN W5 = 1 .. Len(W5)
    BY <1>9 DEF ContainersLead
  <2>2. \E i \in DOMAIN W5 : W5[i] = x
    BY <1>11 DEF Range
  <2>3. Place[x] = CHOOSE i \in DOMAIN W5 : W5[i] = x
    BY <1>10 DEF Place
  <2>. QED
    BY <2>1, <2>2, <2>3
<1>13. c \in Objects
  BY DEF Objects
<1>14. Place[c] =< Len(V3Containers) /\ ~(Place[o] =< Len(V3Containers))
  BY <1>9, <1>12, <1>13 DEF ContainersLead
<1>. QED
  BY <1>1, <1>12, <1>13, <1>14

LEMMA GInitially == Init => GInv
<1>1. SUFFICES ASSUME Init PROVE GInv
  OBVIOUS
<1>2. \A w \in Workloads : owner[w] =< batch
  BY <1>1 DEF Init
<1>. QED
  BY <1>1, <1>2 DEF Init, TeardownInit, GInv, Owners, Matched, Swept, Loaded, Ended

(* A step outside the post-docker phase that changes no owner and no batch.*)
LEMMA QuietStep ==
    ASSUME IInv, GInv, UNCHANGED <<owner, batch>>, step' \notin Loaded, ~wiping',
           calm' => ~cancelled'
    PROVE  GInv'
  BY DEF GInv, Owners, Matched, Swept, Loaded, Ended

LEMMA GSame ==
    ASSUME GInv, UNCHANGED <<step, owner, batch, reclaim, state, orphans, present, strangers,
                             todo, wiping, cancelled, calm>>
    PROVE  GInv'
  BY DEF GInv, Owners, Matched, Swept, Excused, HeldByUser, Reclaimable

LEMMA GBefore ==
    ASSUME IInv, GInv, \/ Launch \/ WaitDocker \/ WaitCoolifygo \/ LoadEnv
                       \/ Freeze \/ Upgrade \/ InstallCoolifygo
    PROVE  GInv'
<1>1. UNCHANGED <<owner, batch, wiping>>
  BY DEF Launch, WaitDocker, WaitCoolifygo, LoadEnv, Freeze, Upgrade, InstallCoolifygo,
         result, wipeVars
<1>2. step \notin Loaded /\ step' \notin Loaded
  BY Order DEF Launch, WaitDocker, WaitCoolifygo, LoadEnv, Wait, Freeze, Upgrade,
               InstallCoolifygo, Done, Fail, Abort, Loaded
<1>3. ~wiping
  BY <1>2 DEF IInv, Phase, Loaded
<1>4. calm' => ~cancelled'
  BY DEF GInv, Swept, Launch, WaitDocker, WaitCoolifygo, LoadEnv, Wait, Freeze, Upgrade,
         InstallCoolifygo, Fail, wipeVars
<1>. QED
  BY <1>1, <1>2, <1>3, <1>4, QuietStep

(* What is owned before the import belongs to an older batch.              *)
LEMMA GImport == IInv /\ GInv /\ PreDocker => GInv'
<1>1. SUFFICES ASSUME IInv, GInv, PreDocker PROVE GInv'
  OBVIOUS
<1>2. /\ UNCHANGED <<orphans, owner, wiping, cancelled>> /\ step = "pre"
      /\ step' = "failed" \/ (step' = "load" /\ Import)
      /\ batch' \in {batch, batch + 1} /\ (calm' => calm)
  BY <1>1, Order DEF PreDocker, Done, Fail, Abort, Same, Import
<1>3. \A w \in Workloads : owner[w] =< batch' /\ (batch' = batch + 1 => owner[w] # batch')
  <2>. TAKE w \in Workloads
  <2>1. owner[w] \in Nat /\ batch \in Nat /\ owner[w] =< batch
    BY <1>1, InstallAssumption DEF IInv, TypeOK, GInv, Owners
  <2>. QED
    BY <1>2, <2>1
<1>4. Owners'
  BY <1>2, <1>3, InstallAssumption DEF Owners, Import, Loaded
<1>5. Matched'
  <2>1. CASE step' = "failed"
    BY <2>1 DEF Matched, Ended
  <2>2. CASE step' = "load" /\ Import
    BY <1>2, <2>2 DEF Matched, Ended, Import
  <2>. QED
    BY <1>2, <2>1, <2>2
<1>6. Swept'
  BY <1>1, <1>2 DEF IInv, Phase, GInv, Swept, Ended
<1>. QED
  BY <1>4, <1>5, <1>6 DEF GInv

LEMMA GTakeover ==
    ASSUME IInv, GInv, LoadState \/ TakeoverFails \/ \E w \in Workloads : TakeOver(w)
    PROVE  GInv'
<1>1. /\ UNCHANGED <<batch, state, orphans, wiping, cancelled>>
      /\ step \in {"load", "takeover"} /\ step' \in {"takeover", "failed"} /\ (calm' => calm)
  BY DEF LoadState, TakeoverFails, TakeOver, Fail, Abort, Same, wipeVars
<1>2. Swept'
  BY <1>1 DEF IInv, Phase, GInv, Swept, Ended
<1>3. CASE LoadState \/ TakeoverFails
  <2>1. UNCHANGED <<owner, reclaim>>
    BY <1>3 DEF LoadState, TakeoverFails, wipeVars
  <2>. QED
    BY <1>1, <1>2, <2>1 DEF GInv, Owners, Matched, Loaded, Ended
<1>4. ASSUME NEW w \in Workloads, TakeOver(w)
      PROVE  GInv'
  <2>1. /\ owner' = [owner EXCEPT ![w] = state.batch] /\ step = "takeover"
        /\ reclaim' = reclaim \cup {DataOf[x] : x \in {w} \cap DOMAIN DataOf}
    BY <1>4 DEF TakeOver, ReclaimOf
  <2>2. state.batch = batch /\ batch # 0 /\ batch \in Nat
    <3>1. state.batch = batch /\ state \in Plan /\ batch \in Nat
      BY <2>1, InstallAssumption DEF IInv, StateIsFresh, Phase, TypeOK
    <3>2. state.batch # 0
      BY <3>1, InstallAssumption DEF Plan
    <3>. QED
      BY <3>1, <3>2
  <2>3. \A x \in Workloads : owner'[x] = IF x = w THEN batch ELSE owner[x]
    BY <2>1, <2>2 DEF IInv, TypeOK
  <2>4. Owners'
    BY <1>1, <2>1, <2>2, <2>3, InstallAssumption DEF GInv, Owners, Loaded
  <2>5. Matched'
    BY <1>1, <2>1, <2>2, <2>3 DEF GInv, Matched, Ended
  <2>. QED
    BY <1>2, <2>4, <2>5 DEF GInv
<1>. QED
  BY <1>3, <1>4

(* With no orphans the way to the end leads through the wipe, which begins *)
(* with everything still to come but what is excused.                      *)
LEMMA GGate == IInv /\ GInv /\ Gate => GInv'
<1>1. SUFFICES ASSUME IInv, GInv, Gate PROVE GInv'
  OBVIOUS
<1>2. /\ UNCHANGED <<batch, state, orphans, owner, calm, reclaim, strangers, present, cancelled>>
      /\ step = "takeover" /\ step' \in {"wipe", "clean"}
      /\ \A w \in state.claims : owner[w] # 0
      /\ orphans = {} => step' = "wipe" /\ StartWipe
      /\ step' = "wipe" => StartWipe
      /\ step' = "clean" => wiping' = wiping
  BY <1>1 DEF Gate, Same, StartWipe, wipeVars
<1>3. Owners'
  BY <1>1, <1>2 DEF GInv, Owners, Loaded
<1>4. Matched'
  BY <1>1, <1>2 DEF GInv, Matched, Ended
<1>5. Swept'
  <2>1. CASE step' = "clean"
    BY <1>1, <1>2, <2>1 DEF IInv, Phase, GInv, Swept
  <2>2. CASE step' = "wipe"
    <3>1. todo' = (Objects \ Range(SourceVolumes)) \cup Range(V3Volumes) \cup Reclaimable
      BY <1>2, <2>2 DEF StartWipe
    <3>2. \A o \in present : o \in todo' \/ o \in Range(SourceVolumes) \ Reclaimable
      BY <1>1, <3>1 DEF IInv, TypeOK, TeardownTypeOK
    <3>. QED
      BY <1>1, <1>2, <2>2, <3>2 DEF GInv, Swept, Excused, Reclaimable, Ended
  <2>. QED
    BY <1>2, <2>1, <2>2
<1>. QED
  BY <1>3, <1>4, <1>5 DEF GInv

(* A container is in nobody's way, and when anything else is looked at the *)
(* containers are gone: only the user can hold it.                         *)
LEMMA OnlyTheUser ==
    ASSUME IInv, GInv, wiping, calm, NEW o \in Objects, At(o), InUse(o)
    PROVE  Holders[o] \cap strangers # {}
<1>1. PICK c \in Holders[o] : c \in present \cup strangers
  BY DEF InUse
<1>2. c \in Range(V3Containers) \cup Strangers /\ o \notin Range(V3Containers)
  BY <1>1, TeardownAssumption
<1>3. CASE c \in strangers
  BY <1>1, <1>3
<1>4. CASE c \in present
  <2>1. c \in Objects /\ c \in Range(V3Containers)
    BY <1>2, <1>4, TeardownAssumption DEF IInv, TypeOK, TeardownTypeOK
  <2>2. ~HeldByUser(c) /\ c \notin Range(SourceVolumes)
    BY <2>1, KindsDiffer, TeardownAssumption DEF HeldByUser, Volumes
  <2>3. c \in todo
    BY <1>4, <2>2 DEF GInv, Swept, Excused
  <2>. QED
    BY <1>2, <2>1, <2>3, ContainersFirst DEF At
<1>. QED
  BY <1>1, <1>3, <1>4

(* A call of the wipe that does not fail passes an object only when it is  *)
(* gone or excused.                                                        *)
LEMMA GWipe == IInv /\ GInv /\ Wipe => GInv'
<1>1. SUFFICES ASSUME IInv, GInv, Wipe PROVE GInv'
  OBVIOUS
<1>2. /\ step = "wipe" /\ UNCHANGED <<step, batch, state, owner, orphans>>
      /\ calm' => calm /\ faults' = faults
      /\ RemoveOne \/ Cancel
  BY <1>1 DEF Wipe, Same
<1>3. wiping /\ UNCHANGED <<reclaim, strangers, wiping>>
  BY <1>1, <1>2 DEF IInv, Phase, RemoveOne, Cancel, RemoveContainer, RemoveVolume, RemoveImage,
                    RemovePath, RemoveAlpine, RemoveNetwork, Pass
<1>4. Owners' /\ Matched'
  BY <1>1, <1>2, <1>3 DEF GInv, Owners, Matched
<1>5. ASSUME calm'
      PROVE  /\ ~cancelled'
             /\ \A x \in present' : x \in todo' \/ Excused(x)'
  <2>1. calm /\ ~cancelled /\ ~Fault /\ faults' = faults
    BY <1>1, <1>2, <1>5 DEF GInv, Swept, Fault, IInv, TypeOK, TeardownTypeOK
  <2>2. RemoveOne /\ ~Fails
    BY <1>2, <2>1 DEF Cancel, Fails
  <2>3. ~cancelled'
    BY <2>1, <2>2 DEF RemoveOne, RemoveContainer, RemoveVolume, RemoveImage, RemovePath,
                      RemoveAlpine, RemoveNetwork, Pass
  <2>4. \A x : Excused(x)' <=> Excused(x)
    BY <1>3 DEF Excused, HeldByUser, Reclaimable
  <2>5. PICK o \in Objects : At(o) /\ present' \subseteq present /\
           \/ todo' = todo \ {o} /\ (o \notin present' \/ InUse(o))
           \/ /\ o \in Range(V3Images) /\ InUse(o)
              /\ todo' = OtherPrefix(PrefixOf[o])
    <3>1. ASSUME NEW o \in Objects, At(o), RemoveIfFree(o), Pass(o)
          PROVE  /\ todo' = todo \ {o} /\ (o \notin present' \/ InUse(o))
                 /\ present' \subseteq present
      BY <2>2, <3>1 DEF RemoveIfFree, Pass, Kept, Gone, Warn
    <3>2. CASE \E o \in Objects : RemoveContainer(o) \/ RemoveVolume(o)
      BY <3>1, <3>2 DEF RemoveContainer, RemoveVolume
    <3>3. CASE RemoveAlpine
      BY <3>1, <3>3 DEF RemoveAlpine, Objects
    <3>4. CASE RemoveNetwork
      BY <2>2, <3>4 DEF RemoveNetwork, Pass, Kept, Gone, Warn, Objects
    <3>5. CASE \E o \in Objects : RemovePath(o)
      BY <2>1, <3>5 DEF RemovePath, Pass, Kept, Gone
    <3>6. CASE \E o \in Objects : RemoveImage(o)
      BY <2>2, <3>6 DEF RemoveImage, Pass, Kept, Gone, Warn
    <3>. QED
      BY <2>2, <3>2, <3>3, <3>4, <3>5, <3>6 DEF RemoveOne
  <2>6. InUse(o) => Holders[o] \cap strangers # {}
    BY <1>1, <1>3, <2>1, <2>5, OnlyTheUser
  <2>7. \A x \in present : x \in todo \/ Excused(x)
    BY <1>1, <1>3, <2>1 DEF GInv, Swept
  <2>8. CASE todo' = todo \ {o} /\ (o \notin present' \/ InUse(o))
    BY <2>3, <2>4, <2>5, <2>6, <2>7, <2>8 DEF Excused, HeldByUser
  <2>9. CASE o \in Range(V3Images) /\ InUse(o) /\ todo' = OtherPrefix(PrefixOf[o])
    <3>1. \A x \in todo \ todo' : x \in Range(V3Images) /\ PrefixOf[x] = PrefixOf[o]
      BY <2>9, TeardownAssumption DEF OtherPrefix
    <3>2. \A x \in todo \ todo' : Excused(x)
      BY <2>6, <2>9, <3>1 DEF Excused, HeldByUser
    <3>. QED
      BY <2>3, <2>4, <2>5, <2>7, <3>2
  <2>. QED
    BY <2>5, <2>8, <2>9
<1>6. Swept'
  BY <1>2, <1>5 DEF Swept, Ended
<1>. QED
  BY <1>4, <1>6 DEF GInv

LEMMA GEnding ==
    ASSUME IInv, GInv, EndWipe \/ Clean \/ Die
    PROVE  GInv'
<1>1. CASE Die
  <2>1. UNCHANGED <<owner, batch>> /\ step' \notin Loaded /\ ~wiping' /\ ~calm'
    BY <1>1 DEF Die, Abort, Loaded
  <2>. QED
    BY <2>1, QuietStep
<1>2. CASE EndWipe \/ Clean
  <2>1. /\ UNCHANGED <<batch, owner, orphans, calm, strangers, present, reclaim, cancelled>>
        /\ step \in {"wipe", "clean"} /\ step' \in Ended /\ ~wiping'
        /\ step = "wipe" => wiping /\ todo = {}
    BY <1>2, Order DEF EndWipe, Clean, Done, Same, Wiped, IInv, Phase, Ended, wipeVars
  <2>2. Owners' /\ Matched'
    BY <2>1 DEF GInv, Owners, Matched, Loaded, Ended
  <2>3. calm => ~cancelled
    BY DEF GInv, Swept
  <2>4. calm /\ orphans = {} => \A o \in present : Excused(o)
    BY <2>1 DEF GInv, Swept, Ended
  <2>5. Swept'
    BY <2>1, <2>3, <2>4 DEF Swept, Excused, HeldByUser, Reclaimable
  <2>. QED
    BY <2>2, <2>5 DEF GInv
<1>. QED
  BY <1>1, <1>2

LEMMA GStep == IInv /\ GInv /\ [Next]_vars => GInv'
<1>1. SUFFICES ASSUME IInv, GInv, [Next]_vars PROVE GInv'
  OBVIOUS
<1>2. CASE DaemonUp \/ CoolifygoStarts \/ CoolifygoWritesEnv \/ UNCHANGED vars
  BY <1>1, <1>2, GSame
  DEF DaemonUp, CoolifygoStarts, CoolifygoWritesEnv, vars, scriptVars, wipeVars, result
<1>. QED
  BY <1>1, <1>2, GBefore, GImport, GTakeover, GGate, GWipe, GEnding DEF Next, Script

(* "All done -- Coolify v3 is gone" is true of a launch in which nothing   *)
(* failed and every workload was matched, for any objects, any user        *)
(* containers and any number of earlier launches, failed or not.           *)
THEOREM AllDoneIsTrue == Spec => []DoneMeansGone
<1>1. IInv /\ GInv => DoneMeansGone
  <2>1. SUFFICES ASSUME IInv, GInv, step = "done", calm, orphans = {}
                 PROVE  /\ \A w \in Workloads : owner[w] # 0
                        /\ \A o \in present :
                              \/ HeldByUser(o)
                              \/ o \in Owned
                              \/ \E w \in DOMAIN DataOf : o = DataOf[w] /\ owner[w] < batch
    BY DEF DoneMeansGone
  <2>2. \A w \in Workloads : owner[w] # 0
    BY <2>1 DEF GInv, Matched, Ended
  <2>3. ASSUME NEW o \in present, ~HeldByUser(o), o \notin Owned
        PROVE  \E w \in DOMAIN DataOf : o = DataOf[w] /\ owner[w] < batch
    <3>1. o \in Range(SourceVolumes) /\ o \notin reclaim
      BY <2>1, <2>3 DEF GInv, Swept, Ended, Excused, Reclaimable
    <3>2. PICK w \in DOMAIN DataOf : o = DataOf[w]
      BY <3>1, InstallAssumption DEF Range
    <3>3. w \in Workloads /\ owner[w] # batch /\ owner[w] =< batch
      BY <2>1, <3>1, <3>2, InstallAssumption DEF GInv, Owners, Loaded
    <3>4. owner[w] \in Nat /\ batch \in Nat
      BY <2>1, <3>3, InstallAssumption DEF IInv, TypeOK
    <3>5. owner[w] < batch
      BY <3>3, <3>4
    <3>. QED
      BY <3>2, <3>5
  <2>. QED
    BY <2>2, <2>3
<1>2. Spec => []GInv
  BY GInitially, GStep, Invariance, PTL DEF Spec
<1>. QED
  BY <1>1, <1>2, Invariance, PTL
-----------------------------------------------------------------------------
(* A launch ends.  Every command of the script takes it to a later step,   *)
(* or leaves less to do in this one: seconds to wait, workloads to take    *)
(* over, objects to wipe, a signal to come.                                *)
StepNo(s) ==
    CASE s = "freeze" -> 1 [] s = "upgrade" -> 2 [] s = "docker" -> 3 [] s = "install" -> 4
      [] s = "start" -> 5 [] s = "env" -> 6 [] s = "pre" -> 7 [] s = "load" -> 8
      [] s = "takeover" -> 9 [] s = "wipe" -> 10 [] s = "clean" -> 11 [] OTHER -> 12

Unserved == {w \in Workloads : owner[w] = 0}
progress == <<waited, owner, todo, cancelled>>

ToDo ==
    (MaxWait - waited) + Cardinality(Unserved) + Cardinality(todo)
    + (IF cancelled THEN 0 ELSE 1)

LEMMA RangeIsFinite ==
    ASSUME NEW S, NEW s \in Seq(S)
    PROVE  IsFiniteSet(Range(s))
<1>1. 1 \in Int /\ Len(s) \in Int
  OBVIOUS
<1>2. IsFiniteSet(1 .. Len(s))
  BY <1>1, FS_Interval
<1>3. s \in Surjection(1 .. Len(s), Range(s))
  BY DEF Surjection, Range
<1>. QED
  BY <1>2, <1>3, FS_Surjection

(* The wipe goes through finitely many objects.                            *)
LEMMA ObjectsAreFinite == IsFiniteSet(Objects)
<1>1. /\ IsFiniteSet(Range(V3Containers)) /\ IsFiniteSet(Range(V3Volumes))
      /\ IsFiniteSet(Range(SourceVolumes)) /\ IsFiniteSet(Range(V3Images))
      /\ IsFiniteSet(Range(HostPaths))
  BY TeardownAssumption, RangeIsFinite
<1>2. IsFiniteSet({Alpine, Network})
  <2>1. {Alpine, Network} = ({} \cup {Alpine}) \cup {Network}
    OBVIOUS
  <2>. QED
    BY <2>1, FS_EmptySet, FS_AddElement
<1>. QED
  BY <1>1, <1>2, FS_Union DEF Objects

LEMMA LessToDo ==
    ASSUME TypeOK, TypeOK',
           \/ waited' = waited + 1 /\ UNCHANGED <<owner, todo, cancelled>>
           \/ /\ \E w \in Unserved : Unserved' = Unserved \ {w}
              /\ UNCHANGED <<waited, todo, cancelled>>
           \/ /\ \E o \in todo : todo' \subseteq todo \ {o}
              /\ UNCHANGED <<waited, owner, cancelled>>
           \/ ~cancelled /\ cancelled' /\ UNCHANGED <<waited, owner, todo>>
    PROVE  ToDo' \in Nat /\ ToDo' < ToDo
<1>. DEFINE u == Cardinality(Unserved)
            v == Cardinality(todo)
            c == IF cancelled THEN 0 ELSE 1
<1>1. /\ IsFiniteSet(Unserved) /\ IsFiniteSet(Unserved')
      /\ IsFiniteSet(todo) /\ IsFiniteSet(todo')
  BY InstallAssumption, ObjectsAreFinite, FS_Subset DEF Unserved, TypeOK, TeardownTypeOK
<1>2. u \in Nat /\ u' \in Nat /\ v \in Nat /\ v' \in Nat /\ c \in {0, 1} /\ c' \in {0, 1}
  BY <1>1, FS_CardinalityType
<1>3. MaxWait - waited \in Nat /\ MaxWait - waited' \in Nat /\ waited \in Nat /\ waited' \in Nat
  BY InstallAssumption DEF TypeOK
<1>4. ToDo = (MaxWait - waited) + u + v + c /\ ToDo' = (MaxWait - waited') + u' + v' + c'
  BY DEF ToDo
<1>5. ToDo' \in Nat
  <2>. HIDE DEF u, v, c
  <2>. QED BY <1>2, <1>3, <1>4
<1>6. CASE waited' = waited + 1 /\ UNCHANGED <<owner, todo, cancelled>>
  <2>1. u' = u /\ v' = v /\ c' = c
    BY <1>6 DEF Unserved
  <2>2. MaxWait - waited' = (MaxWait - waited) - 1
    BY <1>3, <1>6, InstallAssumption
  <2>. HIDE DEF u, v, c
  <2>. QED BY <1>2, <1>3, <1>4, <1>5, <2>1, <2>2
<1>7. CASE /\ \E w \in Unserved : Unserved' = Unserved \ {w}
           /\ UNCHANGED <<waited, todo, cancelled>>
  <2>1. u' = u - 1
    BY <1>1, <1>7, FS_RemoveElement
  <2>2. v' = v /\ c' = c /\ waited' = waited
    BY <1>7
  <2>. HIDE DEF u, v, c
  <2>. QED BY <1>2, <1>3, <1>4, <1>5, <2>1, <2>2
<1>8. CASE /\ \E o \in todo : todo' \subseteq todo \ {o}
           /\ UNCHANGED <<waited, owner, cancelled>>
  <2>1. PICK o \in todo : todo' \subseteq todo \ {o}
    BY <1>8
  <2>2. IsFiniteSet(todo \ {o}) /\ Cardinality(todo \ {o}) = v - 1
    BY <1>1, FS_RemoveElement
  <2>3. v' =< v - 1
    BY <2>1, <2>2, FS_Subset
  <2>4. u' = u /\ c' = c /\ waited' = waited
    BY <1>8 DEF Unserved
  <2>. HIDE DEF u, v, c
  <2>. QED BY <1>2, <1>3, <1>4, <1>5, <2>3, <2>4
<1>9. CASE ~cancelled /\ cancelled' /\ UNCHANGED <<waited, owner, todo>>
  <2>1. c = 1 /\ c' = 0
    BY <1>9
  <2>2. u' = u /\ v' = v /\ waited' = waited
    BY <1>9 DEF Unserved
  <2>. HIDE DEF u, v, c
  <2>. QED BY <1>2, <1>3, <1>4, <1>5, <2>1, <2>2
<1>. QED
  BY <1>5, <1>6, <1>7, <1>8, <1>9

(* Each removal passes an object, whatever Docker answers.                 *)
LEMMA WipeMovesOn ==
    ASSUME RemoveOne
    PROVE  \E o \in todo : todo' \subseteq todo \ {o}
BY TeardownAssumption
DEF RemoveOne, RemoveContainer, RemoveVolume, RemoveImage, RemovePath, RemoveAlpine,
    RemoveNetwork, At, Pass, OtherPrefix

(* A launch of the script has finitely many commands before it, whatever   *)
(* dockerd and coolifygo do: the safety half of ScriptReturns.             *)
ScriptShrinks ==
    [][(step \in Steps /\ step' \in Steps) =>
          \/ StepNo(step) < StepNo(step')
          \/ step' = step /\ ToDo' \in Nat /\ ToDo' < ToDo
          \/ ~Script /\ UNCHANGED <<step, progress>>]_vars

THEOREM ScriptIsBounded == Spec => ScriptShrinks
<1>1. ASSUME IInv, IInv', Next, step \in Steps, step' \in Steps
      PROVE  \/ StepNo(step) < StepNo(step')
             \/ step' = step /\ ToDo' \in Nat /\ ToDo' < ToDo
             \/ ~Script /\ UNCHANGED <<step, progress>>
  <2>. DEFINE Later == StepNo(step) < StepNo(step')
              Less  == step' = step /\ ToDo' \in Nat /\ ToDo' < ToDo
  <2>1. TypeOK /\ TypeOK'
    BY <1>1 DEF IInv
  <2>2. ASSUME NEW s \in Steps \ {"load", "takeover", "wipe"}, Done(s)
        PROVE  Later
    BY <1>1, <2>2, Order DEF Done, Steps, StepNo
  <2>3. ASSUME NEW s \in {"docker", "start", "env"}, NEW ready, Wait(s, ready),
               UNCHANGED <<owner, todo, cancelled>>
        PROVE  Later \/ Less
    <3>1. CASE Done(s)
      BY <2>2, <3>1 DEF Steps
    <3>2. CASE waited' = waited + 1 /\ step' = step
      BY <2>1, <2>3, <3>2, LessToDo
    <3>. QED
      BY <1>1, <2>3, <3>1, <3>2 DEF Wait, Abort, Steps
  <2>4. CASE Freeze \/ Upgrade \/ InstallCoolifygo \/ PreDocker \/ Clean
    <3>1. Done("freeze") \/ Done("upgrade") \/ Done("install") \/ Done("pre") \/ Done("clean")
      BY <1>1, <2>4
      DEF Freeze, Upgrade, InstallCoolifygo, PreDocker, Clean, Fail, Abort, Steps
    <3>. QED
      BY <2>2, <3>1 DEF Steps
  <2>5. CASE WaitDocker \/ WaitCoolifygo \/ LoadEnv
    <3>1. UNCHANGED <<owner, todo, cancelled>>
      BY <2>5 DEF WaitDocker, WaitCoolifygo, LoadEnv, result, wipeVars
    <3>. QED
      BY <2>3, <2>5, <3>1 DEF WaitDocker, WaitCoolifygo, LoadEnv
  <2>6. CASE LoadState \/ Gate
    BY <1>1, <2>6 DEF LoadState, Gate, Abort, Steps, StepNo
  <2>7. ASSUME NEW w \in Workloads, TakeOver(w)
        PROVE  Less
    <3>1. state.batch # 0
      BY <1>1, <2>1, <2>7, InstallAssumption DEF TakeOver, IInv, Phase, TypeOK, Plan
    <3>2. w \in Unserved /\ Unserved' = Unserved \ {w}
      BY <2>1, <2>7, <3>1 DEF TakeOver, Unserved, TypeOK
    <3>. QED
      BY <2>1, <2>7, <3>2, LessToDo DEF TakeOver
  <2>8. CASE Wipe
    <3>1. UNCHANGED <<step, waited, owner>>
      BY <2>8 DEF Wipe
    <3>2. CASE RemoveOne
      <4>1. cancelled' = cancelled
        BY <3>2 DEF RemoveOne, RemoveContainer, RemoveVolume, RemoveImage, RemovePath,
                    RemoveAlpine, RemoveNetwork, Pass
      <4>. QED
        BY <2>1, <3>1, <3>2, <4>1, WipeMovesOn, LessToDo
    <3>3. CASE Cancel
      BY <2>1, <3>1, <3>3, LessToDo DEF Cancel
    <3>. QED
      BY <2>8, <3>2, <3>3 DEF Wipe
  <2>9. CASE EndWipe
    BY <2>9 DEF EndWipe, StepNo
  <2>10. CASE ~Script
    BY <1>1, <2>10
    DEF Next, Launch, DaemonUp, CoolifygoStarts, CoolifygoWritesEnv, Die, Abort, Steps,
        result, wipeVars, progress
  <2>. QED
    BY <1>1, <2>4, <2>5, <2>6, <2>7, <2>8, <2>9, <2>10
    DEF Script, TakeoverFails, Fail, Abort, Steps
<1>. QED
  BY <1>1, Invariance, PTL DEF Spec, ScriptShrinks

=============================================================================
