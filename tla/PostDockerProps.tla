-------------------------- MODULE PostDockerProps --------------------------
(* What PostDocker must guarantee.                                         *)
EXTENDS PostDocker

(* The contents of a v3 database volume always exist somewhere safe: in    *)
(* the original volume, or in a complete copy held by a container that     *)
(* stops Docker from removing it: v3's data volumes are never destroyed by *)
(* a failed takeover, and reclaimed only after they were copied            *)
(* (README.md:240-241 and 257-260).                                        *)
DataNeverLost ==
    \A w \in plan.vols :
        \/ srcVol[w] = "data"
        \/ \E i \in Located : Src(i) = w /\ newc[i] # "none" /\ newVol[i] \in Good

(* This holds whatever fails, a VolumeInspect included, unless a copy      *)
(* helper was created beside an earlier one that was still there.          *)
DataKept == crowded \/ DataNeverLost

(* The copy never reads a volume whose v3 database could still be writing  *)
(* ("Stop v3 DB first so SQLite/PG/Redis flush", takeover.go:165), not     *)
(* even when the copy outlives the launch that started it.                 *)
QuietSource ==
    \A i \in DBs : helper[i] = "running" \/ strays[i] > 0 => v3c[Src(i)] = "gone"

(* As long as VolumeInspect tells the truth, a new database volume is      *)
(* never mounted by its database and by a copy helper at once, nor by two  *)
(* helpers, whatever earlier launches left behind.                         *)
OneUser ==
    misread \/ (~crowded /\ \A i \in DBs : ~Helped(i) \/ newc[i] = "none")

(* v3 is wiped only when the picture is complete: no discovered container  *)
(* went unmatched and every matched one has its replacement, counting the  *)
(* work of all launches (main.go:355-358).                                 *)
WipedOnlyWhenComplete ==
    wiped # "no" => Orphans = {} /\ \A i \in Claimed : newc[i] # "none"

(* However often the takeover is interrupted and restarted, at most one v3 *)
(* container has been removed without any replacement standing in for it.  *)
Down(w) == v3c[w] = "gone" /\ \A i \in Claimed : Src(i) = w => newc[i] = "none"

AtMostOneDown ==
    \A w, x \in Workloads : Down(w) /\ Down(x) => w = x

(* A migration that met no fault leaves nothing behind: every matched      *)
(* entry runs as v3 ran it, its row names its container, and every copied  *)
(* v3 volume is reclaimed.                                                 *)
TakenOver ==
    \A i \in Claimed :
        newc[i] = IF Src(i) \in plan.running THEN "running" ELSE "created"

FaultlessFinish ==
    wiped = "done" /\ faults = 0 =>
        /\ TakenOver
        /\ \A i \in Claimed : row[i] = "new"
        /\ \A i \in Located : srcVol[Src(i)] = "none"

(* As long as VolumeInspect tells the truth, no launch removes a volume    *)
(* that a new database has run on, or copies v3 data over it.              *)
LiveKept ==
    [][misread \/ \A i \in DBs : newVol[i] = "live" => newVol'[i] = "live"]_vars

(* No launch hangs: every one of them ends, whatever the copy does.        *)
RunReturns == pc # "idle" ~> pc = "idle"

(* A failed first attempt that created no container costs nothing but      *)
(* time: once faults stop, running the post-docker phase again takes       *)
(* everything over, even if a copy helper of the dead launch is still at   *)
(* work (takeover.go:320-321).                                             *)
CleanSlate ==
    /\ faults = MaxFaults
    /\ pc = "idle" /\ stateFile
    /\ Located = Claimed \cap DBs
    /\ \A i \in Entries : newc[i] = "none"
    /\ \A i \in DBs : helper[i] # "created" /\ i \notin unstarted

CleanRestart == CleanSlate ~> TakenOver

(* A post-docker phase that was interrupted anywhere can be picked up      *)
(* where it left off (README.md, Re-runs).                                 *)
Interrupted ==
    /\ faults = MaxFaults
    /\ pc = "idle" /\ stateFile
    /\ Located = Claimed \cap DBs

Resumes == Interrupted ~> TakenOver

-----------------------------------------------------------------------------
(* Data custody: the original of a database's contents is where it was, or *)
(* a complete copy is pinned by the container created on it.               *)
keptItems    == {w \in Workloads : srcVol[w] = "data"}
pinnedCopies == {i \in DBs : newc[i] # "none" /\ newVol[i] \in Good}

Abstract == INSTANCE Custody WITH
    Items <- Workloads, Copies <- DBs,
    origin <- plan.claim, kept <- keptItems, pinned <- pinnedCopies

(* Every step is a step of Custody or leaves it alone, so no original is   *)
(* released before its copy is complete and pinned, and no pinned copy is  *)
(* ever lost, up to the first failing VolumeInspect.                       *)
KeepsCustody ==
    /\ Abstract!CustodyInit
    /\ [][misread \/ [Abstract!CustodyNext]_(Abstract!custodyVars)]_vars

-----------------------------------------------------------------------------
(* Succession: v3's containers are replaced one at a time, whatever fails  *)
(* and however often the takeover starts again.                            *)
unremoved == {w \in Workloads : v3c[w] # "gone"}
created   == {i \in Entries : newc[i] # "none"}

Heirs == INSTANCE Succession WITH
    Successors <- Entries,
    heir <- plan.claim, olds <- Workloads, serving <- unremoved, seated <- created,
    dissolved <- wiped # "no"

(* Every step is a step of Succession or leaves it alone: no v3 container  *)
(* is removed while the place of another is vacant, no new one is created  *)
(* beside the one it replaces, none created is lost, and v3 is wiped only  *)
(* when each has a successor (main.go:708 and 763 end the takeover at the  *)
(* first failing entry).                                                   *)
KeepsSuccession == Heirs!SuccessionSpec
=============================================================================
