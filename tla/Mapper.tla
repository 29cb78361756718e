------------------------------- MODULE Mapper -------------------------------
(***************************************************************************)
(* From v3's rows to coolifygo's: the reads of internal/v3, BuildPlan with *)
(* indexWorkloads and its port and completeness checks, ValidatePortsAgainst*)
(* and SetGitSourceID of internal/mapper, the inserts of internal/cgo, and *)
(* the port bindings takeover gives the containers of the plan.            *)
(*                                                                         *)
(* A behaviour maps one input.  The order of its steps is that of          *)
(* runPreDocker and insertAll; what a failure between them leaves behind   *)
(* is Migration's subject.                                                 *)
(***************************************************************************)
EXTENDS Naturals, Sequences

CONSTANTS
    Apps, DBs,      \* v3 rows, named by their ids (cuids)
    Workloads,      \* containers labelled coolify.managed
    Sources,        \* v3 git sources
    Tokens,         \* ids, and whatever else may stand in a label or a name
    Prefix,         \* the first eight characters of a token that has eight
    None,           \* no prefix, no container, no git source
    MaxPort,        \* host and container ports are 1 .. MaxPort
    Inputs          \* what a migration may find

Ports   == 1 .. MaxPort
PortMap == UNION {[S -> Ports] : S \in SUBSET Ports}

(* named: rows with a name.  legible: every secret decrypts.  scope: rows  *)
(* of a supported build pack or database type.  usable: git sources with a *)
(* complete GithubApp row.  signals: the label, the name and the last part *)
(* of the name of a container.  forwards: host port to container port.     *)
(* used: the host ports coolifygo's rows have.                             *)
InputType ==
    [named : SUBSET (Apps \cup DBs \cup Sources), legible : BOOLEAN,
     scope : SUBSET (Apps \cup DBs), bot : SUBSET Apps,
     src : [Apps -> Sources \cup {None}], usable : SUBSET Sources,
     dbPort : [DBs -> 0 .. MaxPort], list : Seq(Workloads),
     signals : [Workloads -> SUBSET Tokens], forwards : [Workloads -> PortMap],
     used : SUBSET Ports]

ASSUME MapperAssumption ==
    /\ MaxPort \in Nat
    /\ Apps \cup DBs \subseteq Tokens
    /\ Apps \cap DBs = {}
    /\ None \notin Workloads \cup Sources
    /\ DOMAIN Prefix = Tokens
    /\ Inputs \subseteq InputType

VARIABLES
    in,         \* the input, fixed
    pc,         \* the next step
    apps,       \* plan.Apps: the rows to insert, by v3 id
    dbs,        \* plan.Databases
    orphans,    \* plan.OrphanWorkloads
    warned,     \* the applications of plan.GitLinkWarnings
    linked,     \* git sources inserted so far
    rows        \* the application rows as inserted

vars == <<in, pc, apps, dbs, orphans, warned, linked, rows>>

AppRow == [workload : Workloads \cup {None}, port : 0 .. MaxPort, bot : BOOLEAN,
           git : Sources \cup {None}]
DBRow  == [workload : Workloads \cup {None}, public : 0 .. MaxPort]

TypeOK ==
    /\ in \in InputType
    /\ pc \in {"read", "plan", "ports", "insert", "insertDBs", "done", "refused"}
    /\ DOMAIN apps \subseteq Apps /\ apps \in [DOMAIN apps -> AppRow]
    /\ DOMAIN dbs \subseteq DBs /\ dbs \in [DOMAIN dbs -> DBRow]
    /\ orphans \subseteq Workloads
    /\ warned \subseteq Apps
    /\ linked \subseteq Sources
    /\ DOMAIN rows \subseteq Apps /\ rows \in [DOMAIN rows -> AppRow]

Init ==
    /\ in \in Inputs
    /\ pc = "read"
    /\ apps = <<>> /\ dbs = <<>>
    /\ orphans = {} /\ warned = {} /\ linked = {}
    /\ rows = <<>>

Plan == <<apps, dbs, orphans, warned>>

-----------------------------------------------------------------------------
(* The v3 reader skips rows without a name, and git sources without one.   *)
ReadApps    == Apps \cap in.named
ReadDBs     == DBs \cap in.named
ReadSources == Sources \cap in.named

(* A secret that does not decrypt ends the run.                            *)
Read ==
    /\ pc = "read"
    /\ pc' = IF in.legible THEN "plan" ELSE "refused"
    /\ UNCHANGED <<in, Plan, linked, rows>>

Listed == {in.list[i] : i \in DOMAIN in.list}

(* byFull and byShort: positions of the containers that show a token, and  *)
(* of those that show some token beginning with p.                         *)
Carriers(t)   == {i \in DOMAIN in.list : t \in in.signals[in.list[i]]}
Lookalikes(p) == {i \in DOMAIN in.list :
                     \E t \in in.signals[in.list[i]] : Prefix[t] = p}

Least(S) == CHOOSE i \in S : \A j \in S : i =< j

(* The container listed first keeps its place in both maps.                *)
FirstOf(S) == in.list[Least(S)]

(* Variant: the prefix is tried first.                                     *)
MatchShort(id) ==
    IF Prefix[id] # None /\ Lookalikes(Prefix[id]) # {} THEN FirstOf(Lookalikes(Prefix[id]))
    ELSE IF Carriers(id) # {} THEN FirstOf(Carriers(id)) ELSE None

(* indexWorkloads: the full id first, the prefix as a fallback.            *)
Match(id) ==
    IF Carriers(id) # {} THEN FirstOf(Carriers(id))
    ELSE IF Prefix[id] # None /\ Lookalikes(Prefix[id]) # {}
         THEN FirstOf(Lookalikes(Prefix[id]))
         ELSE None

(* firstHostPort: the lowest published host port, 0 if there is none.      *)
FirstHostPort(f) ==
    IF DOMAIN f = {} THEN 0 ELSE Least(DOMAIN f)

Published(w) == IF w = None THEN 0 ELSE FirstHostPort(in.forwards[w])

(* Variant: the bot flag of an exposed application is kept.                *)
AppPlanKeepBot(a) ==
    [workload |-> Match(a), port |-> Published(Match(a)), bot |-> a \in in.bot,
     git |-> None]

(* An application's port is the one its container publishes; one that      *)
(* publishes a port is no bot.                                             *)
AppPlan(a) ==
    [workload |-> Match(a), port |-> Published(Match(a)),
     bot |-> a \in in.bot /\ Published(Match(a)) = 0,
     git |-> None]

(* A database's public port is the one published, else the one in SQLite.  *)
DBPlan(d) ==
    [workload |-> Match(d),
     public |-> IF Published(Match(d)) # 0 THEN Published(Match(d)) ELSE in.dbPort[d]]

(* Variant: only applications' ports are compared with each other.         *)
PortConflictOfApps ==
    \E a, b \in ReadApps : a # b /\ AppPlan(a).port # 0 /\ AppPlan(a).port = AppPlan(b).port

(* usedPorts: two resources of the plan bind the same host port.           *)
PlannedPort(r) == IF r \in Apps THEN AppPlan(r).port ELSE DBPlan(r).public
PortConflict ==
    \E r, s \in ReadApps \cup ReadDBs :
        r # s /\ PlannedPort(r) # 0 /\ PlannedPort(r) = PlannedPort(s)

(* The GithubApp rows that have an app id.                                 *)
Usable == in.usable

Imported == ReadSources \cap Usable

OutOfScope == ~(ReadApps \cup ReadDBs \subseteq in.scope)

Unlinked == {a \in ReadApps : in.src[a] # None /\ in.src[a] \notin Imported}

(* Variant: a container with a full id on it is never an orphan.           *)
UnmatchedAnonymous ==
    {w \in Listed : /\ \A r \in ReadApps \cup ReadDBs : Match(r) # w
                    /\ in.signals[w] \cap (Apps \cup DBs) = {}}

(* The completeness guard: containers no row claims.                       *)
Unmatched == {w \in Listed : \A r \in ReadApps \cup ReadDBs : Match(r) # w}

BuildPlan ==
    /\ pc = "plan"
    /\ IF ReadApps \cup ReadDBs = {} \/ OutOfScope \/ PortConflict
          THEN pc' = "refused" /\ UNCHANGED Plan
          ELSE /\ apps' = [a \in ReadApps |-> AppPlan(a)]
               /\ dbs' = [d \in ReadDBs |-> DBPlan(d)]
               /\ orphans' = Unmatched
               /\ warned' = Unlinked
               /\ pc' = "ports"
    /\ UNCHANGED <<in, linked, rows>>

(* Variant: the databases' ports are not compared with coolifygo's.        *)
PlanPortsOfApps == {apps[a].port : a \in DOMAIN apps}

(* The ports to compare with coolifygo's; 0 is no port.                    *)
PlanPorts == {apps[a].port : a \in DOMAIN apps} \cup {dbs[d].public : d \in DOMAIN dbs}

ValidatePortsAgainst ==
    /\ pc = "ports"
    /\ pc' = IF PlanPorts \cap in.used = {} THEN "insert" ELSE "refused"
    /\ UNCHANGED <<in, Plan, linked, rows>>

(* Variant: the application's own id is written back.                      *)
LinkOwn(a, s) == [apps[a] EXCEPT !.git = a]

(* SetGitSourceID: the application gets the id of the new row of s.        *)
Link(a, s) == [apps[a] EXCEPT !.git = s]

(* InsertGitSource, then SetGitSourceID: the applications of the source    *)
(* get the id of its new row.                                              *)
InsertSource(s) ==
    /\ pc = "insert"
    /\ s \in Imported \ linked
    /\ linked' = linked \cup {s}
    /\ apps' = [a \in DOMAIN apps |->
                  IF in.src[a] = s THEN Link(a, s) ELSE apps[a]]
    /\ UNCHANGED <<in, pc, dbs, orphans, warned, rows>>

(* Variant: the applications are inserted before the git sources.          *)
InsertAppsFirst ==
    /\ pc = "insert"
    /\ rows' = apps
    /\ pc' = "insertDBs"
    /\ UNCHANGED <<in, Plan, linked>>

(* InsertApplication, for each one, once all git sources are in.           *)
InsertApps ==
    /\ pc = "insert"
    /\ linked = Imported
    /\ rows' = apps
    /\ pc' = "insertDBs"
    /\ UNCHANGED <<in, Plan, linked>>

(* InsertDatabase, for each one: the rows are those of dbs.                *)
InsertDBs ==
    /\ pc = "insertDBs"
    /\ pc' = "done"
    /\ UNCHANGED <<in, Plan, linked, rows>>

Next ==
    \/ Read \/ BuildPlan \/ ValidatePortsAgainst
    \/ \E s \in Sources : InsertSource(s)
    \/ InsertApps \/ InsertDBs

Spec == Init /\ [][Next]_vars

-----------------------------------------------------------------------------
(* What the containers will publish: TakeoverApp binds Port unless the app *)
(* is a bot, and forwards it to the same port inside; TakeoverDB binds     *)
(* PublicPort.                                                             *)
AppBinds(a) == IF apps[a].workload # None /\ ~apps[a].bot THEN apps[a].port ELSE 0
DBBinds(d)  == IF dbs[d].workload # None THEN dbs[d].public ELSE 0
Binds(r)    == IF r \in DOMAIN apps THEN AppBinds(r) ELSE DBBinds(r)
ForwardsTo(a) == AppBinds(a)
=============================================================================
