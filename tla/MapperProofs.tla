---------------------------- MODULE MapperProofs ----------------------------
(***************************************************************************)
(* Proofs of Mapper's properties for every set of rows and containers and  *)
(* every input.                                                            *)
(*                                                                         *)
(* Once BuildPlan has accepted, the plan stays what it computed from the   *)
(* input, but for the git links (FromInput), coolifygo's ports stay clear  *)
(* of it (PortsFree), and an application has the link of its source        *)
(* exactly when the source is inserted (LinkState).  The rest is arithmetic of *)
(* minima: the container listed first and the lowest port.                 *)
(***************************************************************************)
EXTENDS MapperProps, TLAPS, WellFoundedInduction

(* A nonempty set of natural numbers has a least element.                  *)
LEMMA LeastIsLeast ==
    ASSUME NEW S \in SUBSET Nat, S # {}
    PROVE  Least(S) \in S /\ \A n \in S : Least(S) =< n
<1> DEFINE Below == {p \in Nat \X Nat : p[1] < p[2]}
<1>1. IsWellFoundedOn(Below, Nat)
  BY NatLessThanWellFounded DEF OpToRel
<1>2. PICK m \in S : \A n \in S : ~(<<n, m>> \in Below)
  <2>. HIDE DEF Below
  <2>. QED
    BY <1>1, WFMin
<1>3. \A n \in S : ~(n < m)
  BY <1>2
<1>4. \A n \in S : m =< n
  BY <1>3
<1>. QED
  BY <1>4 DEF Least

(* What a listing consists of.                                             *)
LEMMA Listing ==
    ASSUME in \in InputType
    PROVE  /\ Listed \subseteq Workloads
           /\ DOMAIN in.list \subseteq Nat
           /\ \A w \in Workloads : in.signals[w] \subseteq Tokens
           /\ \A w \in Workloads : in.forwards[w] \in PortMap
BY DEF InputType, Listed

(* The first of some positions is one of them.                             *)
LEMMA FirstOfIsListed ==
    ASSUME in \in InputType, NEW S \in SUBSET DOMAIN in.list, S # {}
    PROVE  \E i \in S : FirstOf(S) = in.list[i]
BY Listing, LeastIsLeast DEF FirstOf

(* A row is matched with a listed container, or with none.                 *)
LEMMA MatchIsListed ==
    ASSUME in \in InputType, NEW r
    PROVE  Match(r) = None \/ Match(r) \in Listed
<1>1. Carriers(r) \subseteq DOMAIN in.list /\ Lookalikes(Prefix[r]) \subseteq DOMAIN in.list
  BY DEF Carriers, Lookalikes
<1>2. \A i \in DOMAIN in.list : in.list[i] \in Listed
  BY DEF Listed
<1>. QED
  BY <1>1, <1>2, FirstOfIsListed DEF Match

(* The indexed full id takes precedence over any prefix.                   *)
LEMMA FullIdFirst ==
    ASSUME in \in InputType, NEW r, NEW w \in Listed, r \in in.signals[w]
    PROVE  Match(r) \in Listed /\ r \in in.signals[Match(r)]
<1>1. Carriers(r) # {} /\ Carriers(r) \subseteq DOMAIN in.list
  BY DEF Carriers, Listed
<1>2. PICK i \in Carriers(r) : Match(r) = in.list[i]
  BY <1>1, FirstOfIsListed DEF Match
<1>. QED
  BY <1>2 DEF Carriers, Listed

(* firstHostPort is the lowest port of the map, or 0.                      *)
LEMMA FirstHostPortIsLowest ==
    ASSUME NEW f \in PortMap
    PROVE  /\ FirstHostPort(f) \in 0 .. MaxPort
           /\ DOMAIN f = {} => FirstHostPort(f) = 0
           /\ DOMAIN f # {} => /\ FirstHostPort(f) \in DOMAIN f
                               /\ FirstHostPort(f) # 0
                               /\ \A p \in DOMAIN f : FirstHostPort(f) =< p
<1>1. PICK S \in SUBSET Ports : f \in [S -> Ports]
  BY DEF PortMap
<1>2. DOMAIN f \subseteq Ports /\ Ports \subseteq Nat /\ 0 \notin Ports
  BY <1>1, MapperAssumption DEF Ports
<1>3. DOMAIN f # {} => Least(DOMAIN f) \in DOMAIN f /\ \A p \in DOMAIN f : Least(DOMAIN f) =< p
  BY <1>2, LeastIsLeast
<1>. QED
  BY <1>2, <1>3, MapperAssumption DEF FirstHostPort, Ports

(* What the git links leave of AppPlan.                                    *)
AppFacts(a) ==
    /\ apps[a].workload = Match(a)
    /\ apps[a].port = Published(Match(a))
    /\ apps[a].bot => Published(Match(a)) = 0

(* The plan is what BuildPlan makes of the input.                          *)
FromInput ==
    /\ pc \in {"read", "plan"} => Planned = {}
    /\ pc \in {"ports", "insert", "insertDBs", "done"} => Planned # {}
    /\ Planned # {} =>
          /\ DOMAIN apps = ReadApps /\ DOMAIN dbs = ReadDBs
          /\ orphans = Unmatched /\ warned = Unlinked
          /\ ~PortConflict
    /\ \A a \in DOMAIN apps : AppFacts(a)
    /\ \A d \in DOMAIN dbs : dbs[d] = DBPlan(d)

(* No port of an accepted plan is one of coolifygo's.                      *)
PortsFree == Accepted => PlanPorts \cap in.used = {}

(* What the inserts have linked so far.                                    *)
LinkState ==
    /\ linked \subseteq Imported
    /\ pc \in {"read", "plan", "ports"} => linked = {}
    /\ \A a \in DOMAIN apps :
          /\ in.src[a] \in linked => apps[a].git = in.src[a]
          /\ apps[a].git # None => apps[a].git \in linked
    /\ pc \in {"insertDBs", "done"} => rows = apps /\ linked = Imported

IInv == TypeOK /\ FromInput /\ PortsFree /\ LinkState

(* BuildPlan makes rows of the right types.                                *)
LEMMA PlanTypes ==
    ASSUME in \in InputType
    PROVE  /\ \A a \in Apps : AppPlan(a) \in AppRow
           /\ \A d \in DBs : DBPlan(d) \in DBRow
<1>1. ASSUME NEW r
      PROVE  Match(r) \in Workloads \cup {None} /\ Published(Match(r)) \in 0 .. MaxPort
  <2>1. Match(r) \in Workloads \cup {None}
    BY MatchIsListed, Listing
  <2>2. Match(r) # None => in.forwards[Match(r)] \in PortMap
    BY <2>1, Listing
  <2>. QED
    BY <2>1, <2>2, FirstHostPortIsLowest, MapperAssumption DEF Published
<1>2. ASSUME NEW d \in DBs PROVE in.dbPort[d] \in 0 .. MaxPort
  BY DEF InputType
<1>. QED
  BY <1>1, <1>2 DEF AppPlan, DBPlan, AppRow, DBRow

(* A step fixes the input, so what depends on it only is fixed too.        *)
LEMMA InputFixed ==
    ASSUME in' = in
    PROVE  /\ Listed' = Listed /\ ReadApps' = ReadApps /\ ReadDBs' = ReadDBs
           /\ \A r : Match(r)' = Match(r)
           /\ \A w : Published(w)' = Published(w)
           /\ \A d : DBPlan(d)' = DBPlan(d)
           /\ Unmatched' = Unmatched /\ Unlinked' = Unlinked /\ Imported' = Imported
           /\ PortConflict' = PortConflict
BY DEF Listed, ReadApps, ReadDBs, Match, Published, DBPlan, Unmatched, Unlinked, Imported,
       PortConflict, PlannedPort, AppPlan, Carriers, Lookalikes, FirstOf, FirstHostPort,
       ReadSources, Usable

(* Nothing is planned at first.                                            *)
LEMMA Initially == Init => IInv
<1>1. SUFFICES ASSUME Init PROVE IInv
  OBVIOUS
<1>2. DOMAIN apps = {} /\ DOMAIN dbs = {} /\ DOMAIN rows = {}
  BY <1>1 DEF Init
<1>3. TypeOK
  BY <1>1, <1>2, MapperAssumption DEF Init, TypeOK
<1>. QED
  BY <1>1, <1>2, <1>3 DEF Init, IInv, FromInput, PortsFree, LinkState, Planned, Accepted

(* Steps that leave the plan and the links alone.                          *)
LEMMA SamePlan ==
    ASSUME IInv, in' = in, UNCHANGED <<Plan, linked>>,
           rows' = rows \/ rows' = apps,
           pc' \in {"plan", "ports", "insert", "insertDBs", "done", "refused"},
           pc' = "plan" => pc = "read",
           pc' = "ports" => pc = "ports",
           pc' = "insert" => pc \in {"ports", "insert"} /\ PlanPorts \cap in.used = {},
           pc' \in {"insertDBs", "done"} =>
               Accepted /\ rows' = apps /\ linked = Imported
    PROVE  IInv'
<1>1. TypeOK'
  BY DEF IInv, TypeOK, Plan
<1>2. FromInput'
  BY InputFixed DEF IInv, FromInput, Planned, AppFacts, Accepted, Plan
<1>3. PortsFree'
  BY DEF IInv, PortsFree, Accepted, PlanPorts, Plan
<1>4. LinkState'
  BY InputFixed DEF IInv, LinkState, Plan
<1>. QED
  BY <1>1, <1>2, <1>3, <1>4 DEF IInv

(* BuildPlan establishes the invariant about the plan, or refuses.         *)
LEMMA BuildPlanStep == IInv /\ BuildPlan => IInv'
<1>1. SUFFICES ASSUME IInv, BuildPlan PROVE IInv'
  OBVIOUS
<1>2. in' = in /\ linked' = linked /\ rows' = rows /\ pc = "plan"
  BY <1>1 DEF BuildPlan
<1>3. CASE pc' = "refused" /\ UNCHANGED Plan
  BY <1>1, <1>2, <1>3, SamePlan DEF Plan
<1>4. CASE /\ pc' = "ports"
           /\ ~PortConflict
           /\ ReadApps \cup ReadDBs # {}
           /\ apps' = [a \in ReadApps |-> AppPlan(a)]
           /\ dbs' = [d \in ReadDBs |-> DBPlan(d)]
           /\ orphans' = Unmatched
           /\ warned' = Unlinked
  <2>1. ReadApps \subseteq Apps /\ ReadDBs \subseteq DBs
    BY DEF ReadApps, ReadDBs
  <2>2. in \in InputType
    BY <1>1 DEF IInv, TypeOK
  <2>3. Unmatched \subseteq Workloads /\ Unlinked \subseteq Apps
    BY <2>1, <2>2, Listing DEF Unmatched, Unlinked
  <2>4. TypeOK'
    BY <1>1, <1>2, <1>4, <2>1, <2>2, <2>3, PlanTypes DEF IInv, TypeOK
  <2>5. \A a \in ReadApps : AppFacts(a)' /\ apps'[a].git = None
    BY <1>2, <1>4, InputFixed DEF AppFacts, AppPlan
  <2>6. FromInput'
    BY <1>2, <1>4, <2>5, InputFixed DEF FromInput, Planned
  <2>7. PortsFree'
    BY <1>4 DEF PortsFree, Accepted
  <2>8. LinkState'
    BY <1>1, <1>2, <1>4, <2>5, InputFixed DEF IInv, LinkState
  <2>. QED
    BY <2>4, <2>6, <2>7, <2>8 DEF IInv
<1>. QED
  BY <1>1, <1>3, <1>4 DEF BuildPlan

(* An inserted source changes links and nothing else.                      *)
LEMMA InsertSourceStep ==
    ASSUME IInv, NEW s \in Sources, InsertSource(s)
    PROVE  IInv'
<1>1. /\ in' = in /\ pc' = pc /\ dbs' = dbs /\ orphans' = orphans /\ warned' = warned
      /\ rows' = rows /\ pc = "insert" /\ linked' = linked \cup {s} /\ s \in Imported
      /\ DOMAIN apps' = DOMAIN apps
      /\ \A a \in DOMAIN apps : apps'[a] = IF in.src[a] = s THEN Link(a, s) ELSE apps[a]
  BY DEF InsertSource
<1>2. \A a \in DOMAIN apps :
         /\ apps'[a] \in AppRow
         /\ apps'[a].workload = apps[a].workload
         /\ apps'[a].port = apps[a].port
         /\ apps'[a].bot = apps[a].bot
         /\ apps'[a].git = IF in.src[a] = s THEN s ELSE apps[a].git
  BY <1>1 DEF IInv, TypeOK, Link, AppRow
<1>3. TypeOK'
  BY <1>1, <1>2 DEF IInv, TypeOK, InsertSource
<1>4. FromInput'
  BY <1>1, <1>2, InputFixed DEF IInv, FromInput, Planned, AppFacts
<1>5. PlanPorts' = PlanPorts
  BY <1>1, <1>2 DEF PlanPorts
<1>6. PortsFree'
  BY <1>1, <1>5 DEF IInv, PortsFree, Accepted
<1>7. LinkState'
  BY <1>1, <1>2, InputFixed DEF IInv, LinkState
<1>. QED
  BY <1>3, <1>4, <1>6, <1>7 DEF IInv

(* Every step preserves the invariant.                                     *)
LEMMA Step == IInv /\ [Next]_vars => IInv'
<1>1. SUFFICES ASSUME IInv, [Next]_vars PROVE IInv'
  OBVIOUS
<1>2. CASE Read
  BY <1>1, <1>2, SamePlan DEF Read
<1>3. CASE BuildPlan
  BY <1>1, <1>3, BuildPlanStep
<1>4. CASE ValidatePortsAgainst
  BY <1>1, <1>4, SamePlan DEF ValidatePortsAgainst
<1>5. ASSUME NEW s \in Sources, InsertSource(s) PROVE IInv'
  BY <1>1, <1>5, InsertSourceStep
<1>6. CASE InsertApps
  BY <1>1, <1>6, SamePlan DEF InsertApps, Accepted, Plan
<1>7. CASE InsertDBs
  BY <1>1, <1>7, SamePlan DEF InsertDBs, Accepted, IInv, LinkState
<1>8. CASE UNCHANGED vars
  BY <1>1, <1>8, InputFixed DEF vars, IInv, TypeOK, FromInput, PortsFree, LinkState, Planned,
     AppFacts, Accepted, PlanPorts
<1>. QED
  BY <1>1, <1>2, <1>3, <1>4, <1>5, <1>6, <1>7, <1>8 DEF Next

(* The inductive invariant holds throughout.                               *)
THEOREM Invariance == Spec => []IInv
  BY Initially, Step, PTL DEF Spec

(* Plans, rows and ports have their types for every input.                 *)
THEOREM TypeCorrect == Spec => []TypeOK
<1>1. IInv => TypeOK
  BY DEF IInv
<1>. QED
  BY <1>1, Invariance, PTL

-----------------------------------------------------------------------------
(* What a planned row claims, advertises and binds.                        *)
LEMMA PlannedRow ==
    ASSUME IInv, NEW r \in Planned
    PROVE  /\ r \in ReadApps \cup ReadDBs
           /\ r \in DOMAIN apps <=> r \in Apps
           /\ Claim(r) = Match(r)
           /\ RowPort(r) = PlannedPort(r)
           /\ Match(r) # None => Binds(r) = PlannedPort(r)
           /\ Binds(r) # 0 => Binds(r) = PlannedPort(r)
           /\ Published(Match(r)) # 0 => PlannedPort(r) = Published(Match(r))
<1>1. /\ in \in InputType
      /\ DOMAIN apps = ReadApps /\ ReadApps \subseteq Apps
      /\ DOMAIN dbs = ReadDBs /\ ReadDBs \subseteq DBs
  BY DEF IInv, TypeOK, FromInput, ReadApps, ReadDBs
<1>2. CASE r \in DOMAIN apps
  <2>1. r \in Apps /\ AppFacts(r) /\ PlannedPort(r) = Published(Match(r))
    BY <1>1, <1>2 DEF IInv, FromInput, PlannedPort, AppPlan
  <2>2. apps[r] \in AppRow
    BY <1>2 DEF IInv, TypeOK
  <2>. QED
    BY <1>1, <1>2, <2>1, <2>2 DEF AppFacts, Claim, RowPort, Binds, AppBinds, AppRow
<1>3. CASE r \notin DOMAIN apps
  <2>1. r \in DOMAIN dbs /\ r \in DBs /\ r \notin Apps
    BY <1>1, <1>3, MapperAssumption DEF Planned
  <2>2. dbs[r] = DBPlan(r) /\ PlannedPort(r) = DBPlan(r).public
    BY <2>1 DEF IInv, FromInput, PlannedPort
  <2>. QED
    BY <1>1, <1>3, <2>1, <2>2 DEF DBPlan, Claim, RowPort, Binds, DBBinds
<1>. QED
  BY <1>2, <1>3

(* A container publishes a port exactly when firstHostPort finds one.      *)
LEMMA PublishedIsLowest ==
    ASSUME in \in InputType, NEW w \in Workloads
    PROVE  /\ DOMAIN in.forwards[w] # {} <=> Published(w) # 0
           /\ DOMAIN in.forwards[w] # {} =>
                 /\ Published(w) \in DOMAIN in.forwards[w]
                 /\ \A p \in DOMAIN in.forwards[w] : Published(w) =< p
BY Listing, FirstHostPortIsLowest, MapperAssumption DEF Published

(* The full id of a container takes precedence over any look-alike.        *)
THEOREM FullIdsWin == Spec => []FullIdWins
<1>1. IInv => FullIdWins
  <2>. SUFFICES ASSUME IInv, NEW r \in Planned, NEW w \in Listed, r \in in.signals[w]
                PROVE  Claim(r) \in Listed /\ r \in in.signals[Claim(r)]
    BY DEF FullIdWins
  <2>. QED
    BY PlannedRow, FullIdFirst DEF IInv, TypeOK
<1>. QED
  BY <1>1, Invariance, PTL

(* A container two rows claim publishes nothing, or their ports collide.   *)
LEMMA Sharing == IInv => SharedPublishesNothing
<1>. SUFFICES ASSUME IInv, NEW r \in Planned, NEW s \in Planned,
                     r # s, Claim(r) = Claim(s), Claim(r) # None,
                     DOMAIN in.forwards[Claim(r)] # {}
              PROVE  FALSE
  BY DEF SharedPublishesNothing
<1>1. in \in InputType /\ ~PortConflict
  BY DEF IInv, TypeOK, FromInput
<1>2. Claim(r) = Match(r) /\ Claim(s) = Match(r)
  BY PlannedRow
<1>3. Match(r) \in Workloads
  BY <1>1, <1>2, MatchIsListed, Listing
<1>4. Published(Match(r)) # 0
  BY <1>1, <1>2, <1>3, PublishedIsLowest
<1>5. PlannedPort(r) = Published(Match(r)) /\ PlannedPort(s) = Published(Match(r))
  BY <1>2, <1>4, PlannedRow
<1>. QED
  BY <1>1, <1>4, <1>5, PlannedRow DEF PortConflict

(* Rows share a container only when it publishes nothing.                  *)
THEOREM SharingIsHarmless == Spec => []SharedPublishesNothing
  BY Sharing, Invariance, PTL

(* A host port is bound by one container, and by none of coolifygo's.      *)
THEOREM PortsBoundOnce == Spec => []BoundOnce
<1>1. IInv => BoundOnce
  <2>. SUFFICES ASSUME IInv, Accepted, NEW r \in Planned, Binds(r) # 0
                PROVE  /\ Binds(r) \notin in.used
                       /\ \A s \in Planned : Binds(s) = Binds(r) => s = r
    BY DEF BoundOnce
  <2>1. ~PortConflict /\ PlanPorts \cap in.used = {}
    BY DEF IInv, FromInput, PortsFree
  <2>2. Binds(r) = RowPort(r) /\ Binds(r) = PlannedPort(r)
    BY PlannedRow
  <2>3. RowPort(r) \in PlanPorts
    BY DEF RowPort, PlanPorts, Planned
  <2>4. \A s \in Planned : Binds(s) = Binds(r) => PlannedPort(s) = PlannedPort(r)
    BY <2>2, PlannedRow
  <2>. QED
    BY <2>1, <2>2, <2>3, <2>4, PlannedRow DEF PortConflict
<1>. QED
  BY <1>1, Invariance, PTL

(* What a row tells is the lowest port its container publishes.            *)
LEMMA RowTells == IInv => RowTellsBinding
<1>. SUFFICES ASSUME IInv, NEW r \in Planned, Claim(r) # None
              PROVE  /\ Binds(r) = RowPort(r)
                     /\ DOMAIN in.forwards[Claim(r)] # {} =>
                           /\ Binds(r) \in DOMAIN in.forwards[Claim(r)]
                           /\ \A p \in DOMAIN in.forwards[Claim(r)] : Binds(r) =< p
  BY DEF RowTellsBinding
<1>1. in \in InputType
  BY DEF IInv, TypeOK
<1>2. Claim(r) = Match(r) /\ Match(r) \in Workloads
  BY <1>1, PlannedRow, MatchIsListed, Listing
<1>3. Binds(r) = RowPort(r) /\ Binds(r) = PlannedPort(r)
  BY <1>2, PlannedRow
<1>4. Published(Match(r)) # 0 => Binds(r) = Published(Match(r))
  BY <1>3, PlannedRow
<1>. QED
  BY <1>1, <1>2, <1>3, <1>4, PublishedIsLowest

(* A matched row advertises what its container binds.                      *)
THEOREM RowsTellBindings == Spec => []RowTellsBinding
  BY RowTells, Invariance, PTL

(* With no orphan, every container that published a port is inherited by   *)
(* exactly one row, which binds one of its ports.                          *)
THEOREM ExposedAreInherited == Spec => []ExposedInherited
<1>1. IInv => ExposedInherited
  <2>. SUFFICES ASSUME IInv, Accepted, orphans = {},
                       NEW w \in Listed, DOMAIN in.forwards[w] # {}
                PROVE  \E r \in Planned :
                          /\ Claim(r) = w /\ Binds(r) \in DOMAIN in.forwards[w]
                          /\ \A s \in Planned \ {r} : Claim(s) # w
    BY DEF ExposedInherited
  <2>1. Planned = ReadApps \cup ReadDBs /\ orphans = Unmatched
    BY DEF IInv, FromInput, Planned, Accepted
  <2>2. w \in Workloads /\ w # None
    BY Listing, MapperAssumption DEF IInv, TypeOK
  <2>3. PICK r \in Planned : Match(r) = w
    BY <2>1 DEF Unmatched
  <2>4. Claim(r) = w
    BY <2>3, PlannedRow
  <2>5. Binds(r) \in DOMAIN in.forwards[w]
    BY <2>2, <2>4, RowTells DEF RowTellsBinding
  <2>6. \A s \in Planned \ {r} : Claim(s) # w
    BY <2>2, <2>4, Sharing DEF SharedPublishesNothing
  <2>. QED
    BY <2>4, <2>5, <2>6
<1>. QED
  BY <1>1, Invariance, PTL

(* A git link is kept, or its loss reported.                               *)
THEOREM LinksKept == Spec => []LinkedOrWarned
<1>1. IInv => LinkedOrWarned
  <2>. SUFFICES ASSUME IInv, pc = "done", NEW a \in DOMAIN rows
                PROVE  /\ in.src[a] # None => rows[a].git = in.src[a] \/ a \in warned
                       /\ rows[a].git # None => rows[a].git \in linked
    BY DEF LinkedOrWarned
  <2>1. rows = apps /\ linked = Imported
    BY DEF IInv, LinkState
  <2>2. a \in ReadApps /\ warned = Unlinked
    BY <2>1 DEF IInv, FromInput, Planned
  <2>. QED
    BY <2>1, <2>2 DEF IInv, LinkState, Unlinked
<1>. QED
  BY <1>1, Invariance, PTL
=============================================================================
