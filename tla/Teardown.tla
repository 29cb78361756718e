------------------------------ MODULE Teardown ------------------------------
(***************************************************************************)
(* internal/teardown: Wipe and its helpers, one action per object that is  *)
(* looked up and removed.  A failing lookup and a failing removal are not  *)
(* the same: Wipe skips the object silently after the first and reports it *)
(* after the second.  Only the Docker calls follow the context.            *)
(***************************************************************************)
EXTENDS Naturals, Sequences, Functions

CONSTANTS
    V3Containers, V3Volumes, SourceVolumes, V3Images, HostPaths,
                    \* sequences, in the order Wipe goes through them
    Alpine,         \* the image of the copy helper
    Network,        \* coolify-infra
    PrefixOf,       \* v3's images: the prefix removeImagesByPrefix finds them by
    Owned,          \* volumes named coolifygo-...
    Holders,        \* object: the containers that mount, run or join it
    Strangers,      \* containers of the user's that may be there
    MaxFaults       \* bound: failing calls and deaths

Objects == Range(V3Containers) \cup Range(V3Volumes) \cup Range(SourceVolumes)
           \cup Range(V3Images) \cup {Alpine, Network} \cup Range(HostPaths)
Volumes == Range(V3Volumes) \cup Range(SourceVolumes)

Kinds == <<Range(V3Containers), Volumes, Range(V3Images), {Alpine}, {Network}, Range(HostPaths)>>

ASSUME TeardownAssumption ==
    /\ MaxFaults \in Nat
    /\ \A i, j \in DOMAIN Kinds : i # j => Kinds[i] \cap Kinds[j] = {}
    /\ DOMAIN PrefixOf = Range(V3Images)
    /\ Owned \subseteq Range(SourceVolumes) \ Range(V3Volumes)
    /\ {V3Containers, V3Volumes, SourceVolumes, V3Images, HostPaths} \subseteq Seq(Objects)
    /\ Strangers \cap Objects = {}
    /\ Holders \in [Objects -> SUBSET (Range(V3Containers) \cup Strangers)]
    /\ \A c \in Range(V3Containers) : Holders[c] = {}

VARIABLES
    strangers,  \* the containers of the user's that are there; fixed
    present,    \* the objects on the host
    reclaim,    \* reclaimVols: the source volumes takeover copied from
    todo,       \* the objects Wipe has still to go through
    wiping,     \* Wipe is running
    warned,     \* nonFatal: objects, and prefixes of images
    blind,      \* history: objects whose lookup failed
    cancelled,  \* the context is cancelled (SIGINT, SIGTERM)
    faults

wipeVars == <<strangers, present, reclaim, todo, wiping, warned, blind, cancelled, faults>>

TeardownTypeOK ==
    /\ strangers \subseteq Strangers
    /\ present \subseteq Objects
    /\ reclaim \subseteq Range(SourceVolumes)
    /\ todo \subseteq Objects
    /\ wiping \in BOOLEAN
    /\ warned \subseteq Objects \cup Range(PrefixOf)
    /\ blind \subseteq Objects
    /\ cancelled \in BOOLEAN
    /\ faults \in 0 .. MaxFaults

TeardownInit ==
    /\ strangers \in {{}, Strangers}
    /\ present = Objects
    /\ reclaim = {}
    /\ todo = {}
    /\ wiping = FALSE
    /\ warned = {} /\ blind = {}
    /\ cancelled = FALSE
    /\ faults = 0

-----------------------------------------------------------------------------
Fault == faults < MaxFaults /\ faults' = faults + 1

(* A Docker call is answered, or fails: by itself, or because the context  *)
(* is cancelled.                                                           *)
Answered == ~cancelled /\ UNCHANGED faults
Fails    == (cancelled /\ UNCHANGED faults) \/ (~cancelled /\ Fault)

InUse(o) == \E c \in Holders[o] : c \in present \cup strangers

Kept      == UNCHANGED <<present, warned, blind>>
Gone(o)   == present' = present \ {o} /\ UNCHANGED <<warned, blind>>
Unseen(o) == blind' = blind \cup {o} /\ UNCHANGED <<present, warned>>

(* Variant: the error of a removal is dropped.                             *)
WarnNot(x) == UNCHANGED <<present, warned, blind>>

(* nonFatal = append(nonFatal, ...)                                        *)
Warn(x) == warned' = warned \cup {x} /\ UNCHANGED <<present, blind>>

(* reclaimSourceVolumes skips duplicates and coolifygo's own volumes.      *)
Reclaimable == reclaim \ Owned

WipeOrder ==
    V3Containers \o V3Volumes \o SourceVolumes \o V3Images \o <<Alpine, Network>> \o HostPaths

Place == [o \in Objects |-> CHOOSE i \in DOMAIN WipeOrder : WipeOrder[i] = o]

StartWipe ==
    /\ todo' = (Objects \ Range(SourceVolumes)) \cup Range(V3Volumes) \cup Reclaimable
    /\ wiping' = TRUE
    /\ warned' = {} /\ blind' = {}
    /\ UNCHANGED <<strangers, present, reclaim, cancelled, faults>>

At(o)   == wiping /\ o \in todo /\ \A p \in todo : Place[o] =< Place[p]
Pass(o) == todo' = todo \ {o} /\ UNCHANGED <<strangers, reclaim, wiping, cancelled>>

(* Looked up, then removed.  Docker refuses to remove a volume that a      *)
(* container mounts, and, without force, an image that one refers to.      *)
RemoveIfFree(o) ==
    \/ Answered /\ o \notin present /\ Kept
    \/ Answered /\ o \in present /\ ~InUse(o) /\ Gone(o)
    \/ Answered /\ o \in present /\ InUse(o) /\ Warn(o)
    \/ Fails /\ Unseen(o)
    \/ o \in present /\ ~cancelled /\ Fails /\ Warn(o)

(* A container is stopped, which may fail, and removed by force.           *)
RemoveContainer(c) == At(c) /\ c \in Range(V3Containers) /\ RemoveIfFree(c) /\ Pass(c)

(* V3Volumes, then reclaimSourceVolumes.                                   *)
RemoveVolume(v) == At(v) /\ v \in Volumes /\ RemoveIfFree(v) /\ Pass(v)

(* Variant: force=true, which takes an image away from its containers.     *)
RemoveAlpineForced ==
    /\ At(Alpine)
    /\ \/ Answered /\ Gone(Alpine)
       \/ Fails /\ Unseen(Alpine)
    /\ Pass(Alpine)

(* removeImageIfUnused                                                     *)
RemoveAlpine == At(Alpine) /\ RemoveIfFree(Alpine) /\ Pass(Alpine)

OtherPrefix(x) == {i \in todo : i \notin DOMAIN PrefixOf \/ PrefixOf[i] # x}

(* removeImagesByPrefix: the first failure, of the list or of a removal,   *)
(* ends the prefix.  A running container defends its image even from force.*)
RemoveImage(i) ==
    /\ At(i) /\ i \in Range(V3Images)
    /\ \/ Answered /\ i \notin present /\ Kept /\ Pass(i)
       \/ Answered /\ i \in present /\ Gone(i) /\ Pass(i)
       \/ /\ Fails \/ (Answered /\ i \in present /\ InUse(i))
          /\ Warn(PrefixOf[i])
          /\ todo' = OtherPrefix(PrefixOf[i])
          /\ UNCHANGED <<strangers, reclaim, wiping, cancelled>>

(* removeNetwork does not look first; "not found" is success.              *)
RemoveNetwork ==
    /\ At(Network)
    /\ \/ Answered /\ Network \notin present /\ Kept
       \/ Answered /\ Network \in present /\ ~InUse(Network) /\ Gone(Network)
       \/ Answered /\ Network \in present /\ InUse(Network) /\ Warn(Network)
       \/ Fails /\ Warn(Network)
    /\ Pass(Network)

(* The host paths go whatever happened before.                             *)
RemovePath(p) ==
    /\ At(p) /\ p \in Range(HostPaths)
    /\ \/ p \notin present /\ Kept /\ UNCHANGED faults
       \/ p \in present /\ Gone(p) /\ UNCHANGED faults
       \/ p \in present /\ Fault /\ Warn(p)
    /\ Pass(p)

(* A signal: nothing ends at once, every later Docker call fails.          *)
Cancel ==
    /\ wiping /\ ~cancelled
    /\ cancelled' = TRUE
    /\ Fault
    /\ UNCHANGED <<strangers, present, reclaim, todo, wiping, warned, blind>>

(* Wipe returns; its warnings are printed and end nothing.                 *)
Wiped == wiping /\ todo = {}

RemoveOne ==
    \/ \E o \in Objects :
          RemoveContainer(o) \/ RemoveVolume(o) \/ RemoveImage(o) \/ RemovePath(o)
    \/ RemoveAlpine \/ RemoveNetwork
=============================================================================
