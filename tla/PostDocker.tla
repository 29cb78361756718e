----------------------------- MODULE PostDocker -----------------------------
(***************************************************************************)
(* The half of a run that touches containers and volumes: main.go          *)
(* runPostDocker and runTakeoverAndTeardown, the loops of runTakeover,     *)
(* takeover.TakeoverApp, takeover.TakeoverDB and copyVolume, and the part  *)
(* of teardown.Wipe that reclaims the v3 database volumes.                 *)
(*                                                                         *)
(* One plan is worked on by a sequence of launches.  A launch walks the    *)
(* plan's entries in order, applications first.  It can die at any step    *)
(* (the process is killed, its context is cancelled, a Docker call fails)  *)
(* and the operator starts the post-docker phase again from the state      *)
(* file.  Docker's own state, and a copy helper that is still running,     *)
(* survive the death of a launch; a later launch may then, if its          *)
(* VolumeInspect fails, set a second helper to work on the same volume.    *)
(***************************************************************************)
EXTENDS Naturals, FiniteSets

CONSTANTS
    NApps,         \* applications in the plan
    NDBs,          \* databases in the plan
    Workloads,     \* the v3 workload containers discovery listed
    None,          \* an entry for which no v3 container was matched
    Plans,         \* the plans a run may start from
    MaxFaults      \* bound: faults the environment may inject

Entries == 1 .. (NApps + NDBs)
Apps    == 1 .. NApps
DBs     == (NApps + 1) .. (NApps + NDBs)

(* mapper.Plan, reduced to what the takeover reads: the workload matched to *)
(* each entry, which workloads v3 had running, and on which of them        *)
(* FindDataVolume finds a data volume.  Nothing makes claim injective.     *)
PlanType == [claim   : [Entries -> Workloads \cup {None}],
             running : SUBSET Workloads,
             vols    : SUBSET Workloads]

ASSUME ConstantsAssumption ==
    /\ NApps \in Nat
    /\ NDBs \in Nat
    /\ None \notin Workloads
    /\ Plans \subseteq PlanType
    /\ MaxFaults \in Nat

VARIABLES
    plan,       \* the plan, fixed for the whole behaviour
    pc,         \* the next step of the launch in progress, "idle" when none is
    cur,        \* the entry being taken over
    reclaim,    \* runTakeover's reclaimVols, in the memory of this launch
    v3c,        \* the v3 workload containers
    newc,       \* the coolifygo-named containers, one per entry
    helper,     \* the last volume copy container created for a database entry
    strays,     \* how many earlier ones of the entry are still running
    unstarted,  \* the entries with an earlier one that was never started
    srcVol,     \* the v3 data volume of a workload
    newVol,     \* the coolifygo-db- volume of a database entry
    row,        \* the container an entry's Postgres row names
    stateFile,  \* is the plan on disk for the next launch?
    wiped,      \* how far the v3 stack has been wiped
    faults,     \* faults injected so far
    misread,    \* history: VolumeInspect has failed on a volume that exists
    crowded     \* history: a helper was created beside an earlier one

vars == <<plan, pc, cur, reclaim, v3c, newc, helper, strays, unstarted, srcVol,
          newVol, row, stateFile, wiped, faults, misread, crowded>>

Steps == {"idle", "entry", "stop", "remove", "clear", "copy_create",
          "copy_start", "copy_wait", "copying", "create", "start", "record",
          "gate", "reclaim"}

(* What a coolifygo-db- volume holds: nothing useful yet ("partial"), a     *)
(* complete copy, the data of a database that has run on it ("live"), such  *)
(* data overwritten with the v3 files ("mixed"), or a copy in which a       *)
(* failed helper cut off files another one had already copied ("torn").     *)
VolumeStates == {"none", "partial", "copy", "live", "mixed", "torn"}

TypeOK ==
    /\ plan \in PlanType
    /\ pc \in Steps
    /\ cur \in 1 .. (NApps + NDBs + 1)
    /\ reclaim \subseteq Workloads
    /\ v3c \in [Workloads -> {"running", "stopped", "gone"}]
    /\ newc \in [Entries -> {"none", "created", "running"}]
    /\ helper \in [DBs -> {"none", "created", "running"}]
    /\ strays \in [DBs -> Nat]
    /\ unstarted \subseteq DBs
    /\ srcVol \in [Workloads -> {"none", "data", "empty"}]
    /\ newVol \in [DBs -> VolumeStates]
    /\ row \in [Entries -> {"v3", "new"}]
    /\ stateFile \in BOOLEAN
    /\ wiped \in {"no", "begun", "done"}
    /\ faults \in 0 .. MaxFaults
    /\ misread \in BOOLEAN
    /\ crowded \in BOOLEAN

-----------------------------------------------------------------------------
Src(i)    == plan.claim[i]
Claimed   == {i \in Entries : Src(i) # None}
Orphans   == Workloads \ {Src(i) : i \in Claimed}
Located   == {i \in Claimed \cap DBs : Src(i) \in plan.vols}
Good      == {"copy", "live"}

(* A copy helper of the entry exists, of whatever launch.                  *)
Helped(i) == helper[i] # "none" \/ strays[i] > 0 \/ i \in unstarted

(* Docker refuses to remove a volume any container mounts, running or not, *)
(* whatever the force flag says.                                           *)
NewVolInUse(i) == newc[i] # "none" \/ Helped(i)
SrcVolInUse(w) == v3c[w] # "gone" \/ \E i \in DBs : Src(i) = w /\ Helped(i)

Goto(l) == pc' = l

(* A launch ends, well or badly: its memory is gone.                       *)
Quit == Goto("idle") /\ cur' = 1 /\ reclaim' = {}

Fault == faults < MaxFaults /\ faults' = faults + 1

Init ==
    /\ plan \in Plans
    /\ cur = 1
    /\ reclaim = {}
    /\ v3c = [w \in Workloads |-> IF w \in plan.running THEN "running" ELSE "stopped"]
    /\ newc = [i \in Entries |-> "none"]
    /\ helper = [i \in DBs |-> "none"]
    /\ strays = [i \in DBs |-> 0]
    /\ unstarted = {}
    /\ srcVol = [w \in Workloads |-> IF w \in plan.vols THEN "data" ELSE "none"]
    /\ newVol = [i \in DBs |-> "none"]
    /\ row = [i \in Entries |-> "v3"]
    /\ wiped = "no"
    /\ faults = 0
    /\ misread = FALSE
    /\ crowded = FALSE
    /\ \/ pc = "idle" /\ stateFile = TRUE      \* --phase=post-docker
       \/ pc = "entry" /\ stateFile = FALSE    \* --phase=all: no hand-off file

earlier == <<strays, unstarted, misread, crowded>>
helpers == <<helper, strays, unstarted, misread, crowded>>
docker  == <<v3c, newc, helper, strays, unstarted, srcVol, newVol, misread, crowded>>
disk    == <<stateFile, wiped>>
memory  == <<cur, reclaim>>

-----------------------------------------------------------------------------
(* The operator (or install.sh) runs --phase=post-docker: loadState needs  *)
(* the file; EnsureNetwork is idempotent and leaves no state modelled here. *)
Launch ==
    /\ pc = "idle"
    /\ stateFile
    /\ Goto("entry")
    /\ UNCHANGED <<plan, memory, docker, row, disk, faults>>

(* Variant: the walk goes on past the last entry.                          *)
SkipEntryPastEnd ==
    /\ pc = "entry"
    /\ cur \notin Claimed
    /\ cur' = cur + 1
    /\ UNCHANGED <<plan, pc, reclaim, docker, row, disk, faults>>

(* A nil workload is warned about and left alone.                          *)
SkipEntry ==
    /\ pc = "entry"
    /\ cur \in Entries \ Claimed
    /\ cur' = cur + 1
    /\ UNCHANGED <<plan, pc, reclaim, docker, row, disk, faults>>

(* TakeoverDB gives up before touching anything when FindDataVolume is "". *)
NoVolume ==
    /\ pc = "entry"
    /\ cur \in (Claimed \cap DBs) \ Located
    /\ Quit
    /\ UNCHANGED <<plan, docker, row, disk, faults>>

TakeEntry ==
    /\ pc = "entry"
    /\ cur \in (Claimed \cap Apps) \cup Located
    /\ Goto("stop")
    /\ UNCHANGED <<plan, memory, docker, row, disk, faults>>

(* stopAndRemove ignores the outcome of the stop ...                       *)
Stop ==
    /\ pc = "stop"
    /\ \/ v3c[Src(cur)] = "running" /\ v3c' = [v3c EXCEPT ![Src(cur)] = "stopped"]
       \/ UNCHANGED v3c
    /\ Goto("remove")
    /\ UNCHANGED <<plan, memory, newc, helpers, srcVol, newVol, row, disk, faults>>

(* Variant: a "not found" from the removal is an error.                    *)
RemoveStrict ==
    /\ pc = "remove"
    /\ v3c' = [v3c EXCEPT ![Src(cur)] = "gone"]
    /\ IF v3c[Src(cur)] = "gone"
          THEN Quit
          ELSE Goto(IF cur \in Apps THEN "create" ELSE "clear") /\ UNCHANGED memory
    /\ UNCHANGED <<plan, newc, helpers, srcVol, newVol, row, disk, faults>>

(* Variant: the removal is not waited for.                                 *)
RemoveForgotten ==
    /\ pc = "remove"
    /\ Goto(IF cur \in Apps THEN "create" ELSE "clear")
    /\ UNCHANGED <<plan, memory, docker, row, disk, faults>>

(* ... and then removes by force, "not found" being as good as removed.    *)
(* The named volumes of the container stay.                                *)
Remove ==
    /\ pc = "remove"
    /\ v3c' = [v3c EXCEPT ![Src(cur)] = "gone"]
    /\ Goto(IF cur \in Apps THEN "create" ELSE "clear")
    /\ UNCHANGED <<plan, memory, newc, helpers, srcVol, newVol, row, disk, faults>>

-----------------------------------------------------------------------------
(* Variant: the stale volume is replaced whoever mounts it.                *)
ClearVolumeForced ==
    /\ pc = "clear"
    /\ newVol' = [newVol EXCEPT ![cur] = "none"]
    /\ Goto("copy_create")
    /\ UNCHANGED <<plan, memory, v3c, newc, helpers, srcVol, row, disk, faults>>

(* copyVolume: a volume left by an earlier launch is removed first ...     *)
ClearVolume ==
    /\ pc = "clear"
    /\ ~NewVolInUse(cur)
    /\ newVol' = [newVol EXCEPT ![cur] = "none"]
    /\ Goto("copy_create")
    /\ UNCHANGED <<plan, memory, v3c, newc, helpers, srcVol, row, disk, faults>>

(* ... which Docker refuses while the new database or an earlier copy      *)
(* helper mounts it: the takeover ends with "clear stale new vol".         *)
ClearInUse ==
    /\ pc = "clear"
    /\ NewVolInUse(cur)
    /\ newVol[cur] # "none"
    /\ Quit
    /\ UNCHANGED <<plan, docker, row, disk, faults>>

(* Any error of VolumeInspect is read as "no such volume": the clearing of *)
(* a volume that does exist is skipped, whoever uses it.                   *)
ClearSkipped ==
    /\ pc = "clear"
    /\ newVol[cur] # "none"
    /\ Fault
    /\ misread' = TRUE
    /\ Goto("copy_create")
    /\ UNCHANGED <<plan, memory, v3c, newc, helper, strays, unstarted, srcVol, newVol,
                   row, disk, crowded>>

(* Creating the helper mounts both volumes; Docker creates a missing one.  *)
(* Its name is random, so a helper of an earlier launch is no obstacle.    *)
CopyCreate ==
    /\ pc = "copy_create"
    /\ helper' = [helper EXCEPT ![cur] = "created"]
    /\ strays' = [strays EXCEPT ![cur] = IF helper[cur] = "running" THEN @ + 1 ELSE @]
    /\ unstarted' = IF helper[cur] = "created" THEN unstarted \cup {cur} ELSE unstarted
    /\ crowded' = (crowded \/ Helped(cur))
    /\ srcVol' = [srcVol EXCEPT ![Src(cur)] = IF @ = "none" THEN "empty" ELSE @]
    /\ newVol' = [newVol EXCEPT ![cur] = IF @ = "none" THEN "partial" ELSE @]
    /\ Goto("copy_start")
    /\ UNCHANGED <<plan, memory, v3c, newc, row, disk, faults, misread>>

(* cp starts overwriting what the new volume holds.                        *)
Overwritten(i) ==
    IF srcVol[Src(i)] # "data" THEN newVol[i]
    ELSE IF newVol[i] \in {"live", "mixed"} THEN "mixed" ELSE "partial"

CopyStart ==
    /\ pc = "copy_start"
    /\ helper' = [helper EXCEPT ![cur] = "running"]
    /\ newVol' = [newVol EXCEPT ![cur] = Overwritten(cur)]
    /\ Goto("copy_wait")
    /\ UNCHANGED <<plan, memory, v3c, newc, earlier, srcVol, row, disk, faults>>

(* Variant: a helper that is gone is waited for like any other.            *)
CopyWaitBlind ==
    /\ pc = "copy_wait"
    /\ Goto("copying")
    /\ UNCHANGED <<plan, memory, docker, row, disk, faults>>

(* ContainerWait is called after the start: a helper that has already      *)
(* finished and removed itself is an error (no such container).            *)
CopyWait ==
    /\ pc = "copy_wait"
    /\ \/ helper[cur] = "running" /\ Goto("copying") /\ UNCHANGED memory
       \/ helper[cur] = "none" /\ Quit
    /\ UNCHANGED <<plan, docker, row, disk, faults>>

(* The helper runs by itself, with or without a launch waiting for it, and *)
(* removes itself when it ends.  Ending before the wait is registered is   *)
(* counted as a fault of timing.                                           *)
Waited(i) == pc = "copying" /\ cur = i

(* The volume when the last helper at work on it has finished ...          *)
Finished(i) == IF srcVol[Src(i)] = "data" /\ newVol[i] = "partial" THEN "copy" ELSE newVol[i]

(* ... or one of them has failed; what it cut off last may be lost on the  *)
(* others.  If the last of them fails, the volume counts as incomplete,    *)
(* although an earlier one may have finished and this one cut nothing off. *)
CutOff(i, beside) ==
    {newVol} \cup IF beside /\ newVol[i] = "partial"
                  THEN {[newVol EXCEPT ![i] = "torn"]} ELSE {}

CopyEnds(i) ==
    /\ helper[i] = "running"
    /\ helper' = [helper EXCEPT ![i] = "none"]
    /\ newVol' = [newVol EXCEPT ![i] = IF strays[i] = 0 THEN Finished(i) ELSE @]
    /\ IF Waited(i) THEN Goto("create") ELSE UNCHANGED pc
    /\ IF pc = "copy_wait" /\ cur = i THEN Fault ELSE UNCHANGED faults
    /\ UNCHANGED <<plan, memory, v3c, newc, earlier, srcVol, row, disk>>

(* Variant: the exit status of cp is not looked at.                        *)
CopyFailsUnseen(i) ==
    /\ helper[i] = "running"
    /\ helper' = [helper EXCEPT ![i] = "none"]
    /\ IF Waited(i) THEN Goto("create") ELSE UNCHANGED pc
    /\ Fault
    /\ UNCHANGED <<plan, memory, v3c, newc, earlier, srcVol, newVol, row, disk>>

(* cp exits with a non-zero status.                                        *)
CopyFails(i) ==
    /\ helper[i] = "running"
    /\ helper' = [helper EXCEPT ![i] = "none"]
    /\ newVol' \in CutOff(i, strays[i] > 0)
    /\ IF Waited(i) THEN Quit ELSE UNCHANGED <<pc, memory>>
    /\ Fault
    /\ UNCHANGED <<plan, v3c, newc, earlier, srcVol, row, disk>>

(* An earlier helper of the entry ends or fails; nobody waits for it.      *)
StrayEnds(i) ==
    /\ strays[i] > 0
    /\ strays' = [strays EXCEPT ![i] = @ - 1]
    /\ newVol' = [newVol EXCEPT ![i] = IF strays[i] = 1 /\ helper[i] # "running"
                                       THEN Finished(i) ELSE @]
    /\ UNCHANGED <<plan, pc, memory, v3c, newc, helper, unstarted, srcVol, row, disk,
                   faults, misread, crowded>>

StrayFails(i) ==
    /\ strays[i] > 0
    /\ strays' = [strays EXCEPT ![i] = @ - 1]
    /\ newVol' \in CutOff(i, strays[i] > 1 \/ helper[i] = "running")
    /\ Fault
    /\ UNCHANGED <<plan, pc, memory, v3c, newc, helper, unstarted, srcVol, row, disk,
                   misread, crowded>>

-----------------------------------------------------------------------------
(* ContainerCreate under the coolifygo name.                               *)
Create ==
    /\ pc = "create"
    /\ newc[cur] = "none"
    /\ newc' = [newc EXCEPT ![cur] = "created"]
    /\ Goto(IF Src(cur) \in plan.running THEN "start" ELSE "record")
    /\ UNCHANGED <<plan, memory, v3c, helpers, srcVol, newVol, row, disk, faults>>

(* The name belongs to the container an earlier launch created.            *)
CreateConflict ==
    /\ pc = "create"
    /\ newc[cur] # "none"
    /\ Quit
    /\ UNCHANGED <<plan, docker, row, disk, faults>>

(* A database runs on its volume, beside a helper that still overwrites it *)
(* or alone.                                                               *)
Opened(i) ==
    IF strays[i] > 0 /\ srcVol[Src(i)] = "data" THEN "mixed"
    ELSE IF newVol[i] = "copy" THEN "live" ELSE newVol[i]

Start ==
    /\ pc = "start"
    /\ newc' = [newc EXCEPT ![cur] = "running"]
    /\ newVol' = [i \in DBs |-> IF i = cur THEN Opened(i) ELSE newVol[i]]
    /\ Goto("record")
    /\ UNCHANGED <<plan, memory, v3c, helpers, srcVol, row, disk, faults>>

(* Variant: only the volumes of started databases are remembered.          *)
RecordStarted ==
    /\ pc = "record"
    /\ reclaim' = reclaim \cup (IF cur \in DBs /\ newc[cur] = "running" THEN {Src(cur)} ELSE {})
    /\ \/ row' = [row EXCEPT ![cur] = "new"] /\ UNCHANGED faults
       \/ UNCHANGED row /\ Fault
    /\ cur' = cur + 1
    /\ Goto("entry")
    /\ UNCHANGED <<plan, docker, disk>>

(* Back in runTakeover: the copied-from volume is remembered and the row   *)
(* updated; a failing update is only warned about, and so is WaitHealthy,  *)
(* which is bounded in time and changes nothing.                           *)
Record ==
    /\ pc = "record"
    /\ reclaim' = reclaim \cup (IF cur \in DBs THEN {Src(cur)} ELSE {})
    /\ \/ row' = [row EXCEPT ![cur] = "new"] /\ UNCHANGED faults
       \/ UNCHANGED row /\ Fault
    /\ cur' = cur + 1
    /\ Goto("entry")
    /\ UNCHANGED <<plan, docker, disk>>

EndTakeover ==
    /\ pc = "entry"
    /\ cur \notin Entries
    /\ Goto("gate")
    /\ UNCHANGED <<plan, memory, docker, row, disk, faults>>

-----------------------------------------------------------------------------
(* --no-teardown, the completeness gate, or a declined prompt: v3 stays    *)
(* and so does the state file.                                             *)
KeepV3 ==
    /\ pc = "gate"
    /\ Quit
    /\ UNCHANGED <<plan, docker, row, disk, faults>>

(* Variant: the completeness gate is left out.                             *)
BeginWipeUngated ==
    /\ pc = "gate"
    /\ wiped' = IF wiped = "no" THEN "begun" ELSE wiped
    /\ Goto("reclaim")
    /\ UNCHANGED <<plan, memory, docker, row, stateFile, faults>>

(* The wipe needs every discovered container to have been matched.         *)
BeginWipe ==
    /\ pc = "gate"
    /\ Orphans = {}
    /\ wiped' = IF wiped = "no" THEN "begun" ELSE wiped
    /\ Goto("reclaim")
    /\ UNCHANGED <<plan, memory, docker, row, stateFile, faults>>

(* reclaimSourceVolumes: removed unforced, so a volume in use is kept; an  *)
(* error keeps it too and is only warned about.                            *)
Reclaim ==
    /\ pc = "reclaim"
    /\ \E w \in reclaim :
          /\ reclaim' = reclaim \ {w}
          /\ \/ ~SrcVolInUse(w) /\ srcVol' = [srcVol EXCEPT ![w] = "none"] /\ UNCHANGED faults
             \/ SrcVolInUse(w) /\ UNCHANGED <<srcVol, faults>>
             \/ Fault /\ UNCHANGED srcVol
    /\ UNCHANGED <<plan, pc, cur, v3c, newc, helpers, newVol, row, disk>>

(* The rest of Wipe, then the state file goes whatever Wipe reported.      *)
Finish ==
    /\ pc = "reclaim"
    /\ reclaim = {}
    /\ wiped' = "done"
    /\ stateFile' = FALSE
    /\ Quit
    /\ UNCHANGED <<plan, docker, row, faults>>

(* Variant: a failing entry is logged and the takeover goes on.            *)
FailContinues ==
    /\ pc \notin {"idle", "gate", "reclaim"}
    /\ cur \in Entries
    /\ Fault
    /\ cur' = cur + 1
    /\ Goto("entry")
    /\ UNCHANGED <<plan, reclaim, docker, row, disk>>

(* A launch dies between two steps, or the call it is making fails.        *)
Fail ==
    /\ pc # "idle"
    /\ Fault
    /\ Quit
    /\ UNCHANGED <<plan, docker, row, disk>>

(* Nothing left to run.                                                    *)
Stopped ==
    /\ pc = "idle"
    /\ ~stateFile
    /\ UNCHANGED vars

Process ==
    \/ SkipEntry \/ NoVolume \/ TakeEntry \/ Stop \/ Remove
    \/ ClearVolume \/ ClearInUse \/ CopyCreate \/ CopyStart \/ CopyWait
    \/ Create \/ CreateConflict \/ Start \/ Record \/ EndTakeover
    \/ KeepV3 \/ BeginWipe \/ Reclaim \/ Finish

Next ==
    \/ Launch
    \/ Process
    \/ ClearSkipped
    \/ \E i \in DBs : CopyEnds(i) \/ CopyFails(i) \/ StrayEnds(i) \/ StrayFails(i)
    \/ Fail
    \/ Stopped

Spec == Init /\ [][Next]_vars

(* A launch keeps executing, cp terminates, and an operator who sees a     *)
(* failed post-docker phase runs it again.                                 *)
Fairness ==
    /\ WF_vars(Process)
    /\ WF_vars(Launch)
    /\ \A i \in DBs : WF_vars(CopyEnds(i)) /\ WF_vars(StrayEnds(i))

FairSpec == Spec /\ Fairness
=============================================================================
