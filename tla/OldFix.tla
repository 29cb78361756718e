------------------------------- MODULE OldFix -------------------------------
(***************************************************************************)
(* The repair mode: main.go runOldFix, mapper.MatchAdoptable, takeover's   *)
(* AdoptApp and AttachToCoolifygoNetwork, cgo's AdoptApplication.  A run   *)
(* reads the application rows and takes one snapshot of the running        *)
(* containers, and works from these two while containers exit, disappear   *)
(* and are renamed by hand, while calls fail and while the run itself may  *)
(* die between any two of them.  It can be launched again and again.       *)
(***************************************************************************)
EXTENDS Naturals, FiniteSets

CONSTANTS
    Apps,         \* application rows; an app also stands for its coolifygo name
    Containers,   \* containers on the host
    None,         \* no container; a container's original name
    Starts,       \* the hosts and rows a repair may find
    MaxEvents,    \* bound: containers changing by themselves or by hand
    MaxFaults     \* bound: failing calls and deaths

RowType == [cid : Containers \cup {None}, status : {"running", "stopped"},
            port : BOOLEAN, bot : BOOLEAN]

(* kind: left by v3 (label coolify.managed), created by coolifygo (label   *)
(* coolifygo.managed), or somebody else's.  alike: nameMatch of an app's   *)
(* name and a container's original name.  exposed: containers that publish *)
(* a host port.                                                            *)
HostType == [kind : [Containers -> {"v3", "new", "other"}],
             alike : SUBSET (Apps \X Containers),
             exposed : SUBSET Containers]

StartType == [host : HostType, rows : [Apps -> RowType],
              name : [Containers -> Apps \cup {None}],
              up : [Containers -> {"running", "stopped", "gone"}]]

ASSUME OldFixAssumption ==
    /\ IsFiniteSet(Apps) /\ IsFiniteSet(Containers)
    /\ None \notin Containers \cup Apps
    /\ Starts \subseteq StartType
    /\ MaxEvents \in Nat
    /\ MaxFaults \in Nat

VARIABLES
    host,       \* what never changes about the containers
    rows,       \* the applications table
    name,       \* the app whose coolifygo name a container bears, or None
    up,         \* a container's state
    net,        \* containers on the coolifygo network
    pc,         \* the next step of the run, "idle" when there is none
    read,       \* the rows as this run listed them
    snap,       \* the running containers and their names, as this run saw them
    todo,       \* rows the first loop has still to look at
    targets,    \* adoptions still to make: <<app, container>>
    cur,        \* the pair being refreshed or adopted
    written,    \* history: the pairs this run has written to the table
    calm,       \* history: no call has failed, nothing else has changed in this run
    settled,    \* history: an undisputed run has ended calmly, all has been calm since
    events, faults

vars == <<host, rows, name, up, net, pc, read, snap, todo, targets, cur,
          written, calm, settled, events, faults>>

containers == <<name, up, net>>
memory     == <<read, snap, todo, targets, cur, written>>

Steps == {"idle", "list", "snapshot", "refresh", "join", "prompt", "adopt",
          "attach", "write"}
Pairs == Apps \X Containers

TypeOK ==
    /\ host \in HostType
    /\ rows \in [Apps -> RowType]
    /\ name \in [Containers -> Apps \cup {None}]
    /\ up \in [Containers -> {"running", "stopped", "gone"}]
    /\ net \subseteq Containers
    /\ pc \in Steps
    /\ read \in [Apps -> RowType]
    /\ DOMAIN snap \subseteq Containers
    /\ snap \in [DOMAIN snap -> Apps \cup {None}]
    /\ todo \subseteq Apps
    /\ targets \subseteq Pairs
    /\ cur \subseteq Pairs
    /\ written \subseteq Pairs
    /\ calm \in BOOLEAN
    /\ settled \in BOOLEAN
    /\ events \in 0 .. MaxEvents
    /\ faults \in 0 .. MaxFaults

-----------------------------------------------------------------------------
Running == {c \in Containers : up[c] = "running"}
Now     == [c \in Running |-> name[c]]

(* byName: the running container that bears an app's coolifygo name.       *)
Bearers(a, s) == {c \in DOMAIN s : s[c] = a}
Broken(s)     == {a \in Apps : Bearers(a, s) = {}}

(* Variant: the coolify.managed label is not asked for.                    *)
CandidatesAny(s) == {c \in DOMAIN s : s[c] = None}

(* Variant: containers that already bear a coolifygo name stay in.         *)
CandidatesTwice(s) == {c \in DOMAIN s : host.kind[c] = "v3"}

Candidates(s) == {c \in DOMAIN s : host.kind[c] = "v3" /\ s[c] = None}

(* Pass 1 pairs a row with the candidate its container_id names; of rows   *)
(* naming the same one the first listed wins, and any may be listed first. *)
ById(r, s) == {x \in Broken(s) \X Candidates(s) : r[x[1]].cid = x[2]}
FirstPass(r, s) ==
    {T \in SUBSET ById(r, s) :
        /\ \A x \in ById(r, s) : \E y \in T : y[2] = x[2]
        /\ \A x, y \in T : x[2] = y[2] => x = y}

(* Variant: pairs the other way round.                                     *)
ByNameSwapped(s, T) ==
    {x \in Candidates(s) \X Broken(s) :
        <<x[2], x[1]>> \in host.alike /\ \A y \in T : x[1] # y[2] /\ x[2] # y[1]}

(* Pass 2 looks at the names of what pass 1 left ...                       *)
ByName(s, T) ==
    {x \in (Broken(s) \X Candidates(s)) \cap host.alike :
        \A y \in T : x[1] # y[1] /\ x[2] # y[2]}

(* Variant: a container that other apps match as well is taken.            *)
Injective(H) == {x \in H : \A y \in H : y[1] = x[1] => y = x}

(* ... and takes a pair only if neither side matches anything else.        *)
Bijective(H) == {x \in H : \A y \in H : y[1] = x[1] \/ y[2] = x[2] => y = x}

MatchAdoptable(r, s) == {T \cup Bijective(ByName(s, T)) : T \in FirstPass(r, s)}

(* A row found running under its name is rewritten only if it has drifted. *)
Drifted(a) ==
    \E c \in Bearers(a, snap) : ~(read[a].cid = c /\ read[a].status = "running")

(* Variant: the bot flag is left as it was.                                *)
AdoptApplicationKeepBot(a, c) ==
    rows' = [rows EXCEPT ![a] =
        [cid |-> c, status |-> "running",
         port |-> @.port \/ c \in host.exposed, bot |-> @.bot]]

(* A published port is recorded and makes the app no bot; without one both *)
(* columns stay.                                                           *)
AdoptApplication(a, c) ==
    rows' = [rows EXCEPT ![a] =
        [cid |-> c, status |-> "running",
         port |-> @.port \/ c \in host.exposed,
         bot |-> @.bot /\ c \notin host.exposed]]

-----------------------------------------------------------------------------
Unread == [a \in Apps |-> [cid |-> None, status |-> "stopped",
                           port |-> FALSE, bot |-> FALSE]]

Init ==
    /\ \E s \in Starts :
          host = s.host /\ rows = s.rows /\ name = s.name /\ up = s.up
    /\ net = {c \in Containers : host.kind[c] = "new"}
    /\ pc = "idle"
    /\ read = Unread
    /\ snap = <<>>
    /\ todo = {} /\ targets = {} /\ cur = {} /\ written = {}
    /\ calm = TRUE /\ settled = FALSE
    /\ events = 0 /\ faults = 0

Goto(l) == pc' = l

Quit ==
    /\ Goto("idle")
    /\ read' = Unread /\ snap' = <<>>
    /\ todo' = {} /\ targets' = {} /\ cur' = {} /\ written' = {}

Fault == /\ faults < MaxFaults
         /\ faults' = faults + 1
         /\ calm' = FALSE /\ settled' = FALSE

Fine  == UNCHANGED <<calm, settled, faults>>

(* Rows inserted twice (README.md:280-282) may name one v3 container; which *)
(* of them a run lists first is not defined, and may differ in the next.   *)
Contested ==
    \E a, b \in Broken(Now) :
        a # b /\ rows[a].cid = rows[b].cid /\ rows[a].cid # None

Settle == settled' = (settled \/ (calm /\ ~Contested))

Launch ==
    /\ pc = "idle"
    /\ Goto("list")
    /\ calm' = TRUE
    /\ UNCHANGED <<host, rows, containers, memory, settled, events, faults>>

ListApplications ==
    /\ pc = "list"
    /\ read' = rows
    /\ Goto("snapshot")
    /\ Fine
    /\ UNCHANGED <<host, rows, containers, snap, todo, targets, cur, written, events>>

Snapshot ==
    /\ pc = "snapshot"
    /\ snap' = Now
    /\ todo' = Apps
    /\ Goto("refresh")
    /\ Fine
    /\ UNCHANGED <<host, rows, containers, read, targets, cur, written, events>>

(* Variant: a row that is found running is always left alone.              *)
LeaveFound(a) ==
    /\ pc = "refresh"
    /\ a \in todo
    /\ todo' = todo \ {a}
    /\ Fine
    /\ UNCHANGED <<host, rows, containers, pc, read, snap, targets, cur, written, events>>

(* First loop: a row is broken, or found running and accurate.             *)
Leave(a) ==
    /\ pc = "refresh"
    /\ a \in todo
    /\ ~Drifted(a)
    /\ todo' = todo \ {a}
    /\ Fine
    /\ UNCHANGED <<host, rows, containers, pc, read, snap, targets, cur, written, events>>

(* ... or it is written again; a failing write is skipped.                 *)
Refresh(a) ==
    /\ pc = "refresh"
    /\ a \in todo
    /\ Drifted(a)
    /\ todo' = todo \ {a}
    /\ \E c \in Bearers(a, snap) :
          \/ /\ AdoptApplication(a, c)
             /\ cur' = {<<a, c>>} /\ written' = written \cup {<<a, c>>}
             /\ Goto("join")
             /\ Fine
          \/ Fault /\ UNCHANGED <<rows, cur, written, pc>>
    /\ UNCHANGED <<host, containers, read, snap, targets, events>>

(* AttachToCoolifygoNetwork: best effort, a failure is only warned about.  *)
Attach ==
    /\ \E x \in cur :
          \/ /\ net' = IF up[x[2]] = "gone" THEN net ELSE net \cup {x[2]}
             /\ Fine
          \/ Fault /\ UNCHANGED net
    /\ UNCHANGED <<host, rows, name, up, read, snap, todo, targets, written, events>>

Join == pc = "join" /\ Attach /\ cur' = {} /\ Goto("refresh")

(* Nothing to adopt ends the run; otherwise the operator is asked.         *)
Match ==
    /\ pc = "refresh"
    /\ todo = {}
    /\ \E ts \in MatchAdoptable(read, snap) :
          IF ts = {}
             THEN Quit /\ Settle
             ELSE /\ targets' = ts
                  /\ Goto("prompt")
                  /\ UNCHANGED <<read, snap, todo, cur, written, settled>>
    /\ UNCHANGED <<host, rows, containers, calm, events, faults>>

Confirm ==
    /\ pc = "prompt"
    /\ Goto("adopt")
    /\ Fine
    /\ UNCHANGED <<host, rows, containers, memory, events>>

Decline ==
    /\ pc = "prompt"
    /\ Quit
    /\ Fine
    /\ UNCHANGED <<host, rows, containers, events>>

(* Docker renames a container, running or not, if the name is free.        *)
CanRename(c, a) == up[c] # "gone" /\ \A d \in Containers \ {c} : name[d] # a

(* Variant: a failing rename does not stop the adoption.                   *)
RenameAnyway ==
    /\ pc = "adopt"
    /\ \E x \in targets :
          /\ targets' = targets \ {x}
          /\ cur' = {x} /\ Goto("attach")
          /\ \/ /\ name' = IF CanRename(x[2], x[1]) THEN [name EXCEPT ![x[2]] = x[1]]
                           ELSE name
                /\ Fine
             \/ Fault /\ UNCHANGED name
    /\ UNCHANGED <<host, rows, up, net, read, snap, todo, written, events>>

(* AdoptApp: a container that is gone, or a name that is taken, is warned  *)
(* about and skipped.                                                      *)
Rename ==
    /\ pc = "adopt"
    /\ \E x \in targets :
          /\ targets' = targets \ {x}
          /\ \/ /\ CanRename(x[2], x[1])
                /\ name' = [name EXCEPT ![x[2]] = x[1]]
                /\ cur' = {x} /\ Goto("attach")
                /\ Fine
             \/ ~CanRename(x[2], x[1]) /\ Fine /\ UNCHANGED <<name, cur, pc>>
             \/ Fault /\ UNCHANGED <<name, cur, pc>>
    /\ UNCHANGED <<host, rows, up, net, read, snap, todo, written, events>>

AdoptAttach == pc = "attach" /\ Attach /\ UNCHANGED cur /\ Goto("write")

WriteBack ==
    /\ pc = "write"
    /\ \E x \in cur :
          \/ AdoptApplication(x[1], x[2]) /\ written' = written \cup {x} /\ Fine
          \/ Fault /\ UNCHANGED <<rows, written>>
    /\ cur' = {}
    /\ Goto("adopt")
    /\ UNCHANGED <<host, containers, read, snap, todo, targets, events>>

Done ==
    /\ pc = "adopt"
    /\ targets = {}
    /\ Quit
    /\ Settle
    /\ UNCHANGED <<host, rows, containers, calm, events, faults>>

(* The run dies, or one of the calls that end it fails.                    *)
Die ==
    /\ pc # "idle"
    /\ Fault
    /\ Quit
    /\ UNCHANGED <<host, rows, containers, events>>

-----------------------------------------------------------------------------
(* The host does not stand still.                                          *)
Event ==
    /\ events < MaxEvents
    /\ events' = events + 1
    /\ calm' = FALSE /\ settled' = FALSE
    /\ UNCHANGED <<host, rows, pc, memory, faults>>

Exits(c) ==
    /\ up[c] = "running"
    /\ up' = [up EXCEPT ![c] = "stopped"]
    /\ Event /\ UNCHANGED <<name, net>>

Vanishes(c) ==
    /\ up[c] # "gone"
    /\ up' = [up EXCEPT ![c] = "gone"]
    /\ name' = [name EXCEPT ![c] = None]
    /\ net' = net \ {c}
    /\ Event

(* The run prints the name it expects, for the operator to docker rename.  *)
RenamedByHand(c, a) ==
    /\ CanRename(c, a)
    /\ name' = [name EXCEPT ![c] = a]
    /\ Event /\ UNCHANGED <<up, net>>

Run ==
    \/ ListApplications \/ Snapshot
    \/ \E a \in Apps : Leave(a) \/ Refresh(a)
    \/ Join \/ Match \/ Confirm \/ Decline
    \/ Rename \/ AdoptAttach \/ WriteBack \/ Done

Next ==
    \/ Launch \/ Run \/ Die
    \/ \E c \in Containers : Exits(c) \/ Vanishes(c)
    \/ \E c \in Containers, a \in Apps : RenamedByHand(c, a)

Spec == Init /\ [][Next]_vars
=============================================================================
