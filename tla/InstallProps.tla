---------------------------- MODULE InstallProps ----------------------------
(***************************************************************************)
(* What the script promises when it ends, and what it must not break on    *)
(* the way.                                                                *)
(***************************************************************************)
EXTENDS Install

(* An object that outlives the wipe was reported, itself or by the prefix  *)
(* of its images, unless it could not even be looked up or is a source     *)
(* volume that is coolifygo's or that this launch did not copy (Wipe's     *)
(* nonFatal list).                                                         *)
LeftIsReported ==
    Wiped =>
        \A o \in present \ (Range(SourceVolumes) \ Reclaimable) :
            \/ o \in warned \cup blind
            \/ o \in DOMAIN PrefixOf /\ PrefixOf[o] \in warned

(* What a container of the user still mounts or refers to is never         *)
(* removed, nor is a volume of coolifygo's, whatever the wipe goes through *)
(* (reclaimSourceVolumes and removeImageIfUnused do not force).            *)
StrangersKept ==
    /\ \A o \in Volumes \cup {Alpine} : Holders[o] \cap strangers # {} => o \in present
    /\ Owned \subseteq present

(* The daemon restart of a first launch in which nothing failed disrupts   *)
(* nothing live but workloads: v3 is frozen and coolifygo is not up yet    *)
(* (install.sh, upgrade_docker).                                           *)
UpgradeDisruptsNothing ==
    [][(daemon /\ ~daemon' /\ launches = 1 /\ calm) => running' = {}]_vars

(* The post-docker phase works on the plan of the same launch, over the    *)
(* rows it has just committed, whatever failed launches left on disk.      *)
StateIsFresh ==
    step \in {"load", "takeover", "wipe"} => state.batch = mine /\ mine = batch

(* What a container of the user mounts, runs or joins; and the images of a *)
(* prefix of which the user runs one, for removeImagesByPrefix gives up.   *)
HeldByUser(o) ==
    \/ Holders[o] \cap strangers # {}
    \/ /\ o \in Range(V3Images)
       /\ \E i \in Range(V3Images) : PrefixOf[i] = PrefixOf[o] /\ Holders[i] \cap strangers # {}

(* "All done -- Coolify v3 is gone": after a launch in which nothing       *)
(* failed, with every workload matched, nothing of v3 is left that the     *)
(* user does not hold, except coolifygo's own volumes and source volumes   *)
(* of workloads that an earlier launch took over; and every workload runs  *)
(* for some batch.                                                         *)
DoneMeansGone ==
    (step = "done" /\ calm /\ orphans = {}) =>
        /\ \A w \in Workloads : owner[w] # 0
        /\ \A o \in present :
              \/ HeldByUser(o)
              \/ o \in Owned
              \/ \E w \in DOMAIN DataOf : o = DataOf[w] /\ owner[w] < batch

(* A launch of the script ends: its waits are bounded, and nothing in it   *)
(* waits for dockerd or coolifygo to answer.                               *)
ScriptReturns == step \in Steps ~> step \in {"failed", "done"}

(* teardown.go: host paths are removed after the Docker objects, "so a     *)
(* partial failure earlier leaves the host state intact and re-runnable".  *)
(* They are removed whatever failed before.                                *)
HostPathsLast ==
    (\E p \in Range(HostPaths) : p \notin present) =>
        \A o \in Range(V3Containers) \cup Range(V3Volumes) : o \notin present
=============================================================================
