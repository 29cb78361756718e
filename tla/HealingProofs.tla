--------------------------- MODULE HealingProofs ---------------------------
(***************************************************************************)
(* Proof that repairs converge: a run that ends undisturbed leaves nothing *)
(* that a repair could repair, and later runs change nothing.              *)
(*                                                                         *)
(* A calm run sees what is there, so each row it does not adopt is left as *)
(* it was read.  What a later run would match, this run has matched: pairs *)
(* it adopted had no rival, so taking them out makes no other pair         *)
(* unambiguous (NothingNew).                                               *)
(***************************************************************************)
EXTENDS OldFixProofs

(* Docker's names are unique.                                              *)
Unique(n) == \A c, d \in Containers : n[c] = n[d] /\ n[c] # None => c = d

OneAtATime == \A x, y \in cur : x = y

Recorded == \A x \in written : rows[x[1]].cid = x[2] /\ rows[x[1]].status = "running"

(* A row the run has not written is as it was read.                        *)
RowsAsRead ==
    pc \in {"snapshot"} \cup Loop \cup Mating =>
        \A a \in Apps : rows[a] = read[a] \/ \E x \in written : x[1] = a

(* A name is as it was seen, or the run gave it to a candidate.            *)
NamesAsSeen ==
    pc \in Loop \cup Mating =>
        /\ DOMAIN snap = Running
        /\ \A c \in DOMAIN snap :
              name[c] = snap[c] \/ \E x \in written \cup cur : x[2] = c /\ snap[c] = None

(* Rows the first loop has passed are accurate.                            *)
Passed ==
    /\ pc \in Loop \cup Mating =>
          \A a \in Apps \ todo : \A c \in Bearers(a, snap) :
              (read[a].cid = c /\ read[a].status = "running") \/ <<a, c>> \in written
    /\ pc \in Mating => todo = {}

(* Each pair matched is adopted, still to come, or out of reach.           *)
Follows(ts) ==
    /\ targets \cup cur \subseteq ts
    /\ \A x \in ts : x \in targets \cup cur \cup written \/ ~CanRename(x[2], x[1])
    /\ \A x \in written : snap[x[2]] = x[1] \/ x \in ts

Matched == pc \in Mating => \E ts \in MatchAdoptable(read, snap) : Follows(ts)

CalmRun == RowsAsRead /\ NamesAsSeen /\ Passed /\ Matched

(* Nothing is left to repair: what Healed promises.                        *)
Cured ==
    /\ \A a \in Apps : \A c \in Bearers(a, Now) :
          rows[a].cid = c /\ rows[a].status = "running"
    /\ \A ts \in MatchAdoptable(rows, Now) : \A x \in ts : ~CanRename(x[2], x[1])

(* Once it is so, runs have nothing to do.                                 *)
Idle ==
    /\ calm
    /\ Cured
    /\ written = {}
    /\ pc \notin {"join", "attach", "write"}
    /\ \A x \in targets : ~CanRename(x[2], x[1])

HInv ==
    /\ IInv
    /\ Unique(name)
    /\ OneAtATime
    /\ Recorded
    /\ calm => CalmRun
    /\ settled => Idle

-----------------------------------------------------------------------------
(* When a calm run is over, what it did not adopt is as it was read.       *)
LEMMA LeftAlone ==
    ASSUME IInv, RowsAsRead, NamesAsSeen, calm, pc \in {"refresh", "adopt"},
           NEW ts \in MatchAdoptable(read, snap), Follows(ts)
    PROVE  /\ Broken(Now) \subseteq Broken(snap)
           /\ Candidates(Now) \subseteq Candidates(snap)
           /\ \A a \in Broken(Now) :
                 rows[a] = read[a] /\ \A y \in written : y[1] # a
           /\ \A c \in Candidates(Now), y \in written : y[2] # c
           /\ \A a \in Broken(snap) \ Broken(Now) : \E y \in written \cap ts : y[1] = a
           /\ \A c \in Candidates(snap) \ Candidates(Now) : \E y \in written \cap ts : y[2] = c
<1>1. /\ cur = {} /\ DOMAIN snap = Running /\ DOMAIN Now = Running
      /\ \A c \in Running : c \in Containers /\ Now[c] = name[c] /\ up[c] = "running"
  BY DEF IInv, InHand, NamesAsSeen, Now, Running, Loop, Mating
<1>2. \A c \in Running : name[c] = snap[c] \/ \E y \in written : y[2] = c /\ snap[c] = None
  BY <1>1 DEF NamesAsSeen, Loop, Mating
<1>3. \A y \in written :
         y \in Pairs /\ y[1] \in Apps /\ y[2] \in Running /\ name[y[2]] = y[1] /\ y[1] # None
  BY OldFixAssumption DEF IInv, TypeOK, WrittenIsTrue, Pairs, Running
<1>4. \A y \in written : snap[y[2]] = None => y \in ts
  BY <1>3 DEF Follows
<1>5. Broken(Now) \subseteq Broken(snap)
  BY <1>1, <1>2, OldFixAssumption DEF Broken, Bearers
<1>6. Candidates(Now) \subseteq Candidates(snap)
  BY <1>1, <1>2 DEF Candidates
<1>7. ASSUME NEW a \in Broken(Now) PROVE rows[a] = read[a] /\ \A y \in written : y[1] # a
  <2>1. \A y \in written : y[1] # a
    BY <1>1, <1>3 DEF Broken, Bearers
  <2>. QED
    BY <2>1 DEF RowsAsRead, Loop, Mating, Broken
<1>8. \A c \in Candidates(Now), y \in written : y[2] # c
  BY <1>1, <1>3 DEF Candidates
<1>9. ASSUME NEW a \in Broken(snap) \ Broken(Now) PROVE \E y \in written \cap ts : y[1] = a
  <2>1. PICK c \in Running : name[c] = a /\ snap[c] # a
    BY <1>1 DEF Broken, Bearers
  <2>2. PICK y \in written : y[2] = c /\ snap[c] = None
    BY <1>2, <2>1
  <2>. QED
    BY <1>3, <1>4, <2>1, <2>2
<1>10. ASSUME NEW c \in Candidates(snap) \ Candidates(Now)
       PROVE  \E y \in written \cap ts : y[2] = c
  <2>1. c \in Running /\ snap[c] = None /\ name[c] # None
    BY <1>1 DEF Candidates
  <2>. QED
    BY <1>2, <1>4, <2>1
<1>. QED
  BY <1>5, <1>6, <1>7, <1>8, <1>9, <1>10

(* What a repair would match now, this run has matched.                    *)
LEMMA NothingNew ==
    ASSUME IInv, RowsAsRead, NamesAsSeen, calm, ~Contested, pc \in {"refresh", "adopt"},
           targets = {},
           NEW ts \in MatchAdoptable(read, snap), Follows(ts),
           NEW now \in MatchAdoptable(rows, Now), NEW x \in now
    PROVE  ~CanRename(x[2], x[1])
<1>1. PICK T \in FirstPass(read, snap) : ts = T \cup Bijective(ByName(snap, T))
  BY DEF MatchAdoptable
<1>2. PICK N \in FirstPass(rows, Now) : now = N \cup Bijective(ByName(Now, N))
  BY DEF MatchAdoptable
<1>. DEFINE H == ByName(snap, T)
            G == ByName(Now, N)
<1>3. /\ Broken(Now) \subseteq Broken(snap)
      /\ Candidates(Now) \subseteq Candidates(snap)
      /\ \A a \in Broken(Now) : rows[a] = read[a] /\ \A y \in written : y[1] # a
      /\ \A c \in Candidates(Now), y \in written : y[2] # c
      /\ \A a \in Broken(snap) \ Broken(Now) : \E y \in written \cap ts : y[1] = a
      /\ \A c \in Candidates(snap) \ Candidates(Now) : \E y \in written \cap ts : y[2] = c
  BY LeftAlone
<1>4. \A y, z \in ts : y[1] = z[1] \/ y[2] = z[2] => y = z
  BY MatchingIsOneToOne
<1>5. cur = {}
  BY DEF IInv, InHand
<1>6. \A y \in ts : y \notin written => ~CanRename(y[2], y[1])
  BY <1>5 DEF Follows
<1>7. /\ \A y \in T : /\ y \in Broken(snap) \X Candidates(snap)
                      /\ read[y[1]].cid = y[2]
      /\ \A y \in Broken(snap) \X Candidates(snap) :
            read[y[1]].cid = y[2] => \E z \in T : z[2] = y[2]
  BY DEF FirstPass, ById
<1>8. /\ \A y \in N : /\ y \in Broken(Now) \X Candidates(Now)
                      /\ rows[y[1]].cid = y[2]
      /\ \A y \in Broken(Now) \X Candidates(Now) :
            rows[y[1]].cid = y[2] => \E z \in N : z[2] = y[2]
  BY DEF FirstPass, ById
<1>9. \A a, b \in Broken(Now), c \in Candidates(Now) :
         rows[a].cid = c /\ rows[b].cid = c => a = b
  BY OldFixAssumption DEF Contested, Candidates, Now, Running
<1>10. ASSUME NEW y \in T, y \notin written PROVE y \in N
  <2>1. y[1] \in Broken(Now) /\ y[2] \in Candidates(Now)
    BY <1>1, <1>3, <1>4, <1>7, <1>10
  <2>2. y \in Broken(Now) \X Candidates(Now) /\ rows[y[1]].cid = y[2]
    BY <1>3, <1>7, <2>1
  <2>3. PICK z \in N : z[2] = y[2]
    BY <1>8, <2>2
  <2>4. z[1] = y[1]
    BY <1>8, <1>9, <2>2, <2>3
  <2>. QED
    BY <1>8, <2>2, <2>3, <2>4
<1>11. ASSUME NEW y \in N PROVE y \in T
  <2>1. y \in Broken(snap) \X Candidates(snap) /\ read[y[1]].cid = y[2]
    BY <1>3, <1>8
  <2>2. PICK z \in T : z[2] = y[2]
    BY <1>7, <2>1
  <2>3. z \in N
    BY <1>3, <1>8, <1>10, <2>2
  <2>4. z[1] = y[1]
    BY <1>8, <1>9, <2>2, <2>3
  <2>. QED
    BY <1>7, <2>1, <2>2, <2>4
<1>12. ASSUME NEW y \in H, y[1] \notin Broken(Now) \/ y[2] \notin Candidates(Now)
       PROVE  y \in written
  <2>1. y \in Broken(snap) \X Candidates(snap) /\ \A z \in T : y[1] # z[1] /\ y[2] # z[2]
    BY DEF ByName
  <2>2. PICK z \in written \cap ts : z[1] = y[1] \/ z[2] = y[2]
    BY <1>3, <1>12, <2>1
  <2>3. z \in Bijective(H)
    BY <1>1, <2>1, <2>2
  <2>. QED
    BY <2>2, <2>3 DEF Bijective
<1>13. CASE x \in N
  <2>1. x \in ts /\ x \notin written
    BY <1>1, <1>3, <1>8, <1>11, <1>13
  <2>. QED
    BY <1>6, <2>1
<1>14. CASE x \in Bijective(G)
  <2>1. /\ x \in Broken(Now) \X Candidates(Now) /\ x \in host.alike
        /\ \A z \in N : x[1] # z[1] /\ x[2] # z[2]
        /\ \A y \in G : y[1] = x[1] \/ y[2] = x[2] => y = x
    BY <1>14 DEF Bijective, ByName
  <2>2. \A y \in written : y[1] # x[1] /\ y[2] # x[2]
    BY <1>3, <2>1
  <2>3. x \in H
    <3>1. \A z \in T : x[1] # z[1] /\ x[2] # z[2]
      BY <1>10, <2>1, <2>2
    <3>. QED
      BY <1>3, <2>1, <3>1 DEF ByName
  <2>4. ASSUME NEW y \in H, y[1] = x[1] \/ y[2] = x[2] PROVE y = x
    <3>1. y[1] \in Broken(Now) /\ y[2] \in Candidates(Now)
      BY <1>12, <2>2, <2>4
    <3>2. y \in Broken(snap) \X Candidates(snap) /\ y \in host.alike
          /\ \A z \in T : y[1] # z[1] /\ y[2] # z[2]
      BY DEF ByName
    <3>3. y \in G
      BY <1>11, <3>1, <3>2 DEF ByName
    <3>. QED
      BY <2>1, <2>4, <3>3
  <2>5. x \in ts
    BY <1>1, <2>3, <2>4 DEF Bijective
  <2>. QED
    BY <1>6, <2>2, <2>5
<1>. QED
  BY <1>2, <1>13, <1>14

(* A run that ends so leaves nothing to repair.                            *)
LEMMA CalmRunCures ==
    ASSUME HInv, calm, ~Contested, pc \in {"refresh", "adopt"}, todo = {}, targets = {},
           NEW ts \in MatchAdoptable(read, snap), Follows(ts)
    PROVE  Cured
<1>1. IInv /\ RowsAsRead /\ NamesAsSeen /\ Passed
  BY DEF HInv, CalmRun
<1>2. ASSUME NEW a \in Apps, NEW c \in Bearers(a, Now)
      PROVE  rows[a].cid = c /\ rows[a].status = "running"
  <2>1. /\ c \in Running /\ c \in Containers /\ name[c] = a /\ c \in DOMAIN snap
        /\ cur = {} /\ a # None
    BY <1>1, OldFixAssumption DEF Bearers, Now, Running, NamesAsSeen, IInv, InHand, Loop, Mating
  <2>2. \A x \in written : x = <<x[1], x[2]>> /\ x[2] \in Containers /\ name[x[2]] = x[1]
    BY <1>1 DEF IInv, TypeOK, Pairs, WrittenIsTrue
  <2>3. ASSUME NEW x \in written, x[1] = a PROVE x[2] = c
    BY <2>1, <2>2, <2>3 DEF HInv, Unique
  <2>4. \/ \E x \in written : x[2] = c
        \/ snap[c] = a
    BY <1>1, <2>1 DEF NamesAsSeen, Loop, Mating
  <2>5. CASE \E x \in written : x[1] = a
    BY <2>3, <2>5 DEF HInv, Recorded
  <2>6. CASE snap[c] = a /\ ~\E x \in written : x[1] = a
    <3>1. <<a, c>> \notin written
      BY <2>6
    <3>2. read[a].cid = c /\ read[a].status = "running"
      BY <1>1, <2>1, <2>6, <3>1 DEF Passed, Bearers, Loop, Mating
    <3>. QED
      BY <1>1, <2>6, <3>2 DEF RowsAsRead, Loop, Mating
  <2>. QED
    BY <2>1, <2>2, <2>4, <2>5, <2>6
<1>3. \A now \in MatchAdoptable(rows, Now) : \A x \in now : ~CanRename(x[2], x[1])
  BY <1>1, NothingNew
<1>. QED
  BY <1>2, <1>3 DEF Cured

(* What a step leaves alone stays cured, and matches alike.                *)
LEMMA CuredStays ==
    ASSUME Cured, UNCHANGED <<host, rows, name, up>>
    PROVE  Cured'
<1>1. Now' = Now
  BY DEF Now, Running
<1>2. MatchAdoptable(rows, Now)' = MatchAdoptable(rows, Now)
  BY <1>1 DEF MatchAdoptable, FirstPass, ById, Bijective, ByName, Candidates, Broken, Bearers
<1>3. \A a \in Apps : Bearers(a, Now)' = Bearers(a, Now)
  BY <1>1 DEF Bearers
<1>. QED
  BY <1>2, <1>3 DEF Cured, CanRename

LEMMA SameMatches ==
    ASSUME UNCHANGED <<host, read, snap>>
    PROVE  MatchAdoptable(read, snap)' = MatchAdoptable(read, snap)
BY DEF MatchAdoptable, FirstPass, ById, Bijective, ByName, Candidates, Broken, Bearers

-----------------------------------------------------------------------------
(* The stronger invariant holds at first, if names are unique then.        *)
LEMMA HealingInitially ==
    ASSUME \A s \in Starts : Unique(s.name)
    PROVE  Init => HInv
<1>1. SUFFICES ASSUME Init PROVE HInv
  OBVIOUS
<1>2. IInv
  BY <1>1, Initially
<1>3. Unique(name)
  BY <1>1 DEF Init
<1>. QED
  BY <1>1, <1>2, <1>3
  DEF Init, HInv, OneAtATime, Recorded, CalmRun, RowsAsRead, NamesAsSeen, Passed, Matched,
      Loop, Mating

(* A run that ends forgets; what it settles must be so.                    *)
LEMMA QuitForgets ==
    ASSUME HInv, IInv', Quit, UNCHANGED <<host, rows, containers>>,
           settled' => calm' /\ Cured
    PROVE  HInv'
<1>1. Unique(name)' /\ OneAtATime' /\ Recorded'
  BY DEF HInv, Quit, containers, Unique, OneAtATime, Recorded
<1>2. CalmRun'
  BY DEF Quit, Goto, CalmRun, RowsAsRead, NamesAsSeen, Passed, Matched, Loop, Mating
<1>3. settled' => Idle'
  BY CuredStays DEF Quit, Goto, Idle, containers
<1>. QED
  BY <1>1, <1>2, <1>3 DEF HInv

LEMMA HealingStarts ==
    ASSUME HInv, IInv', Launch \/ ListApplications \/ Snapshot
    PROVE  HInv'
<1>1. /\ written = {} /\ cur = {} /\ targets = {}
      /\ UNCHANGED <<host, rows, name, up, targets, cur, written, settled>>
      /\ calm => calm'
      /\ pc' \in {"list", "snapshot", "refresh"}
  BY DEF HInv, IInv, InHand, Launch, ListApplications, Snapshot, containers, memory, Fine, Early,
         Goto
<1>2. Unique(name)' /\ OneAtATime' /\ Recorded'
  BY <1>1 DEF HInv, Unique, OneAtATime, Recorded
<1>3. calm' => RowsAsRead'
  BY <1>1 DEF HInv, CalmRun, Launch, ListApplications, Snapshot, RowsAsRead, Fine, Goto,
              Loop, Mating
<1>4. pc' = "refresh" => snap' = Now /\ todo' = Apps
  BY DEF Launch, ListApplications, Snapshot, Goto
<1>5. NamesAsSeen' /\ Passed' /\ Matched'
  BY <1>1, <1>4 DEF NamesAsSeen, Passed, Matched, Loop, Mating, Now, Running
<1>6. settled' => Idle'
  <2>1. settled => Cured'
    BY <1>1, CuredStays DEF HInv, Idle
  <2>. QED
    BY <1>1, <2>1 DEF HInv, Idle, CanRename
<1>. QED
  BY <1>2, <1>3, <1>5, <1>6 DEF HInv, CalmRun

LEMMA HealingLeave ==
    ASSUME HInv, IInv', NEW a \in Apps, Leave(a)
    PROVE  HInv'
<1>1. /\ pc = "refresh" /\ ~Drifted(a) /\ todo' = todo \ {a}
      /\ UNCHANGED <<host, rows, name, up, pc, read, snap, targets, cur, written, calm, settled>>
  BY DEF Leave, Fine, containers
<1>2. Unique(name)' /\ OneAtATime' /\ Recorded'
  BY <1>1 DEF HInv, Unique, OneAtATime, Recorded
<1>3. calm => RowsAsRead' /\ NamesAsSeen' /\ Matched'
  BY <1>1 DEF HInv, CalmRun, RowsAsRead, NamesAsSeen, Matched, Running, Mating
<1>4. calm => Passed'
  BY <1>1 DEF HInv, CalmRun, Passed, Bearers, Drifted, Loop, Mating
<1>5. settled => Idle'
  BY <1>1, CuredStays DEF HInv, Idle, CanRename
<1>. QED
  BY <1>1, <1>2, <1>3, <1>4, <1>5 DEF HInv, CalmRun

(* Once settled, rows and names are as this run has seen them.             *)
LEMMA SeenAsIs ==
    ASSUME HInv, settled, pc \in Loop \cup Mating
    PROVE  read = rows /\ snap = Now
<1>1. calm /\ written = {} /\ cur = {} /\ TypeOK /\ RowsAsRead /\ NamesAsSeen
  BY DEF HInv, CalmRun, Idle, IInv, InHand, Loop, Mating
<1>2. \A a \in Apps : rows[a] = read[a]
  BY <1>1 DEF RowsAsRead
<1>3. DOMAIN snap = Running /\ \A c \in Running : snap[c] = name[c]
  BY <1>1 DEF NamesAsSeen
<1>. QED
  BY <1>1, <1>2, <1>3 DEF TypeOK, Now

(* The written row is now accurate; the others are not touched.            *)
LEMMA RecordedStays ==
    ASSUME HInv, NEW x \in Pairs, AdoptApplication(x[1], x[2]), written' = written \cup {x},
           \A y \in written : y[1] = x[1] => y = x
    PROVE  Recorded'
<1>1. /\ x[1] \in Apps /\ rows \in [Apps -> RowType]
      /\ \A y \in written : y[1] \in Apps
  BY DEF HInv, IInv, TypeOK, Pairs
<1>2. /\ rows'[x[1]].cid = x[2] /\ rows'[x[1]].status = "running"
      /\ \A a \in Apps \ {x[1]} : rows'[a] = rows[a]
  BY <1>1 DEF AdoptApplication
<1>. QED
  BY <1>1, <1>2 DEF HInv, Recorded

LEMMA HealingRefresh ==
    ASSUME HInv, IInv', NEW a \in Apps, Refresh(a)
    PROVE  HInv'
<1>1. /\ pc = "refresh" /\ Drifted(a) /\ a \in todo /\ todo' = todo \ {a} /\ cur = {}
      /\ targets = {}
      /\ UNCHANGED <<host, name, up, read, snap, targets>>
  BY DEF HInv, IInv, InHand, Refresh, containers, Early, Loop
<1>2. ~settled
  <2>1. SUFFICES ASSUME settled PROVE ~Drifted(a)
    BY <1>1
  <2>. QED
    BY <1>1, <2>1, SeenAsIs DEF HInv, Idle, Cured, Drifted, Loop
<1>3. PICK c \in Bearers(a, snap) :
         \/ /\ AdoptApplication(a, c) /\ cur' = {<<a, c>>}
            /\ written' = written \cup {<<a, c>>} /\ pc' = "join" /\ Fine
         \/ Fault /\ UNCHANGED <<rows, cur, written, pc>>
  BY DEF Refresh, Goto
<1>4. Unique(name)' /\ OneAtATime' /\ ~settled'
  BY <1>1, <1>2, <1>3 DEF HInv, Unique, OneAtATime, Fault, Fine
<1>5. CASE Fault /\ UNCHANGED <<rows, cur, written, pc>>
  BY <1>4, <1>5 DEF HInv, Recorded, Fault
<1>6. CASE /\ AdoptApplication(a, c) /\ cur' = {<<a, c>>}
           /\ written' = written \cup {<<a, c>>} /\ pc' = "join" /\ Fine
  <2>1. /\ c \in Containers /\ <<a, c>> \in Pairs /\ calm' = calm
        /\ \A y \in written : y[1] # a
        /\ rows \in [Apps -> RowType] /\ c \in DOMAIN snap /\ snap[c] = a
    BY <1>1, <1>6 DEF HInv, IInv, TypeOK, InHand, Loop, Pairs, Bearers, Fine
  <2>2. Recorded'
    BY <1>6, <2>1, RecordedStays
  <2>3. calm => RowsAsRead'
    <3>1. \A b \in Apps \ {a} : rows'[b] = rows[b]
      BY <1>6, <2>1 DEF AdoptApplication
    <3>2. calm => \A b \in Apps : rows[b] = read[b] \/ \E x \in written : x[1] = b
      BY <1>1 DEF HInv, CalmRun, RowsAsRead, Loop
    <3>3. <<a, c>> \in written' /\ <<a, c>>[1] = a /\ written \subseteq written'
      BY <1>6
    <3>. QED
      BY <1>1, <3>1, <3>2, <3>3 DEF RowsAsRead
  <2>4. calm => NamesAsSeen' /\ Matched'
    BY <1>1, <1>6
    DEF HInv, IInv, Undisturbed, CalmRun, NamesAsSeen, Matched, Running, Loop, Mating
  <2>5. calm => Passed'
    <3>1. SUFFICES ASSUME calm, NEW d \in Bearers(a, snap) PROVE d = c
      BY <1>1, <1>6 DEF HInv, CalmRun, Passed, Bearers, Loop, Mating
    <3>2. name[c] = a /\ name[d] = a /\ d \in Containers
      BY <1>1, <2>1, <3>1 DEF HInv, IInv, TypeOK, Undisturbed, Bearers, Loop
    <3>. QED
      BY <2>1, <3>2, OldFixAssumption DEF HInv, Unique
  <2>. QED
    BY <1>4, <2>1, <2>2, <2>3, <2>4, <2>5 DEF HInv, CalmRun
<1>. QED
  BY <1>3, <1>5, <1>6

LEMMA HealingJoin ==
    ASSUME HInv, IInv', Join
    PROVE  HInv'
<1>1. /\ pc = "join" /\ pc' = "refresh" /\ cur' = {} /\ (calm' => calm)
      /\ UNCHANGED <<host, rows, name, up, read, snap, todo, targets, written>>
  BY AttachKeeps DEF HInv, IInv, Join, Goto
<1>2. Unique(name)' /\ OneAtATime' /\ Recorded'
  BY <1>1 DEF HInv, Unique, OneAtATime, Recorded
<1>3. ~settled'
  BY <1>1 DEF HInv, Idle, Join, Attach, Fine, Fault
<1>4. calm' => RowsAsRead' /\ Passed' /\ Matched'
  BY <1>1 DEF HInv, CalmRun, RowsAsRead, Passed, Matched, Bearers, Loop, Mating
<1>5. calm' => NamesAsSeen'
  BY <1>1 DEF HInv, IInv, Undisturbed, CalmRun, NamesAsSeen, Running, Loop, Mating
<1>. QED
  BY <1>2, <1>3, <1>4, <1>5 DEF HInv, CalmRun

(* A settled run finds nothing in reach to adopt; a calm one with nothing  *)
(* to adopt is over, and has healed.                                       *)
LEMMA HealingMatch ==
    ASSUME HInv, IInv', Match
    PROVE  HInv'
<1>1. /\ pc = "refresh" /\ todo = {} /\ cur = {} /\ targets = {}
      /\ UNCHANGED <<host, rows, name, up, net, calm>>
  BY DEF HInv, IInv, InHand, Match, containers, Early, Loop
<1>2. PICK ts \in MatchAdoptable(read, snap) :
         \/ ts = {} /\ Quit /\ Settle
         \/ /\ targets' = ts /\ pc' = "prompt"
            /\ UNCHANGED <<read, snap, todo, cur, written, settled>>
  BY DEF Match, Goto
<1>3. \A x \in written : snap[x[2]] = x[1]
  BY <1>1 DEF HInv, IInv, InHand, Loop
<1>4. CASE ts = {} /\ Quit /\ Settle
  <2>1. ASSUME calm, ~Contested PROVE Cured
    <3>1. Follows(ts)
      BY <1>1, <1>3, <1>4 DEF Follows
    <3>. QED
      BY <1>1, <2>1, <3>1, CalmRunCures
  <2>2. settled' => calm' /\ Cured
    BY <1>1, <1>4, <2>1 DEF Settle, HInv, Idle
  <2>. QED
    BY <1>1, <1>4, <2>2, QuitForgets DEF containers
<1>5. CASE /\ targets' = ts /\ pc' = "prompt"
           /\ UNCHANGED <<read, snap, todo, cur, written, settled>>
  <2>1. Unique(name)' /\ OneAtATime' /\ Recorded'
    BY <1>1, <1>5 DEF HInv, Unique, OneAtATime, Recorded
  <2>2. calm => RowsAsRead' /\ NamesAsSeen' /\ Passed'
    BY <1>1, <1>5
    DEF HInv, CalmRun, RowsAsRead, NamesAsSeen, Passed, Bearers, Running, Loop, Mating
  <2>3. Matched'
    <3>1. Follows(ts)'
      BY <1>1, <1>3, <1>5 DEF Follows
    <3>. QED
      BY <1>1, <1>5, <3>1, SameMatches DEF Matched
  <2>4. ASSUME settled PROVE Idle'
    <3>1. /\ read = rows /\ snap = Now /\ Cured /\ calm /\ written = {}
      BY <1>1, <2>4, SeenAsIs DEF HInv, Idle, Loop
    <3>2. \A x \in ts : ~CanRename(x[2], x[1])
      BY <3>1 DEF Cured
    <3>3. Cured'
      BY <1>1, <3>1, CuredStays
    <3>. QED
      BY <1>1, <1>5, <3>1, <3>2, <3>3 DEF Idle, CanRename
  <2>. QED
    BY <1>1, <1>5, <2>1, <2>2, <2>3, <2>4 DEF HInv, CalmRun
<1>. QED
  BY <1>2, <1>4, <1>5

LEMMA HealingConfirm ==
    ASSUME HInv, IInv', Confirm
    PROVE  HInv'
<1>1. /\ pc = "prompt" /\ pc' = "adopt"
      /\ UNCHANGED <<host, rows, name, up, read, snap, todo, targets, cur, written, calm, settled>>
  BY DEF Confirm, Fine, Goto, containers, memory
<1>2. Unique(name)' /\ OneAtATime' /\ Recorded'
  BY <1>1 DEF HInv, Unique, OneAtATime, Recorded
<1>3. calm => RowsAsRead' /\ NamesAsSeen' /\ Passed'
  BY <1>1 DEF HInv, CalmRun, RowsAsRead, NamesAsSeen, Passed, Bearers, Running, Loop, Mating
<1>4. calm => Matched'
  BY <1>1, SameMatches DEF HInv, CalmRun, Matched, Follows, CanRename, Mating
<1>5. settled => Idle'
  BY <1>1, CuredStays DEF HInv, Idle, CanRename
<1>. QED
  BY <1>1, <1>2, <1>3, <1>4, <1>5 DEF HInv, CalmRun

(* The name that is given was nobody's, and no one loses one.              *)
LEMMA HealingRename ==
    ASSUME HInv, IInv', Rename
    PROVE  HInv'
<1>1. /\ pc = "adopt" /\ cur = {}
      /\ UNCHANGED <<host, rows, up, read, snap, todo, written>>
  BY DEF HInv, IInv, InHand, Rename
<1>2. PICK x \in targets :
         /\ targets' = targets \ {x}
         /\ \/ /\ CanRename(x[2], x[1])
               /\ name' = [name EXCEPT ![x[2]] = x[1]]
               /\ cur' = {x} /\ pc' = "attach" /\ Fine
            \/ ~CanRename(x[2], x[1]) /\ Fine /\ UNCHANGED <<name, cur, pc>>
            \/ Fault /\ UNCHANGED <<name, cur, pc>>
  BY DEF Rename, Goto
<1>3. /\ x[1] \in Apps /\ x[2] \in Containers /\ x[1] # None
      /\ name \in [Containers -> Apps \cup {None}]
      /\ snap[x[2]] = None /\ x[2] \in DOMAIN snap
      /\ \A y \in written : y \in Pairs /\ (x[2] = y[2] => x = y)
  BY <1>2, OldFixAssumption DEF HInv, IInv, TypeOK, Pairs, InHand, Candidates, OneToOne
<1>4. /\ OneAtATime' /\ Recorded'
  BY <1>1, <1>2 DEF HInv, OneAtATime, Recorded
<1>5. CASE Fault /\ UNCHANGED <<name, cur, pc>>
  BY <1>1, <1>4, <1>5 DEF HInv, Unique, Fault
<1>6. CASE ~CanRename(x[2], x[1]) /\ Fine /\ UNCHANGED <<name, cur, pc>>
  <2>1. /\ Unique(name)' /\ calm' = calm /\ settled' = settled
    BY <1>6 DEF HInv, Unique, Fine
  <2>2. calm => RowsAsRead' /\ NamesAsSeen' /\ Passed'
    BY <1>1, <1>6
    DEF HInv, CalmRun, RowsAsRead, NamesAsSeen, Passed, Bearers, Running, Loop, Mating
  <2>3. calm => Matched'
    BY <1>1, <1>2, <1>6, SameMatches
    DEF HInv, CalmRun, Matched, Follows, CanRename, Mating
  <2>4. settled => Idle'
    BY <1>1, <1>2, <1>6, <2>1, CuredStays DEF HInv, Idle, CanRename
  <2>. QED
    BY <1>4, <2>1, <2>2, <2>3, <2>4 DEF HInv, CalmRun
<1>7. CASE /\ CanRename(x[2], x[1])
           /\ name' = [name EXCEPT ![x[2]] = x[1]]
           /\ cur' = {x} /\ pc' = "attach" /\ Fine
  <2>1. /\ Unique(name)' /\ calm' = calm /\ ~settled'
    BY <1>2, <1>3, <1>7 DEF HInv, Unique, CanRename, Idle, Fine
  <2>2. calm => RowsAsRead' /\ Passed'
    BY <1>1, <1>7 DEF HInv, CalmRun, RowsAsRead, Passed, Bearers, Loop, Mating
  <2>3. calm => NamesAsSeen'
    BY <1>1, <1>3, <1>7 DEF HInv, IInv, TypeOK, CalmRun, NamesAsSeen, Running, Loop, Mating
  <2>4. ASSUME calm PROVE name[x[2]] \in {None, x[1]}
    BY <1>1, <1>3, <2>4 DEF HInv, IInv, CalmRun, NamesAsSeen, WrittenIsTrue, Mating
  <2>5. ASSUME calm, NEW c, NEW a \in Apps, ~CanRename(c, a) PROVE ~CanRename(c, a)'
    BY <1>1, <1>3, <1>7, <2>4, <2>5, OldFixAssumption DEF CanRename
  <2>6. ASSUME calm PROVE Matched'
    <3>1. PICK ts \in MatchAdoptable(read, snap) : Follows(ts)
      BY <1>1, <2>6 DEF HInv, CalmRun, Matched, Mating
    <3>2. \A y \in ts : y[1] \in Apps
      BY <3>1, MatchingIsOneToOne DEF Broken
    <3>3. Follows(ts)'
      BY <1>1, <1>2, <1>7, <2>5, <2>6, <3>1, <3>2 DEF Follows
    <3>. QED
      BY <1>1, <3>1, <3>3, SameMatches DEF Matched
  <2>. QED
    BY <1>4, <2>1, <2>2, <2>3, <2>6 DEF HInv, CalmRun
<1>. QED
  BY <1>2, <1>5, <1>6, <1>7

LEMMA HealingAttach ==
    ASSUME HInv, IInv', AdoptAttach
    PROVE  HInv'
<1>1. /\ pc = "attach" /\ pc' = "write" /\ cur' = cur /\ (calm' => calm)
      /\ UNCHANGED <<host, rows, name, up, read, snap, todo, targets, written>>
  BY AttachKeeps DEF HInv, IInv, AdoptAttach, Goto
<1>2. Unique(name)' /\ OneAtATime' /\ Recorded'
  BY <1>1 DEF HInv, Unique, OneAtATime, Recorded
<1>3. ~settled'
  BY <1>1 DEF HInv, Idle, AdoptAttach, Attach, Fine, Fault
<1>4. calm' => RowsAsRead' /\ NamesAsSeen' /\ Passed'
  BY <1>1 DEF HInv, CalmRun, RowsAsRead, NamesAsSeen, Passed, Bearers, Running, Loop, Mating
<1>5. calm' => Matched'
  BY <1>1, SameMatches DEF HInv, CalmRun, Matched, Follows, CanRename, Mating
<1>. QED
  BY <1>2, <1>3, <1>4, <1>5 DEF HInv, CalmRun

LEMMA HealingWriteBack ==
    ASSUME HInv, IInv', WriteBack
    PROVE  HInv'
<1>1. /\ pc = "write" /\ pc' = "adopt" /\ cur' = {}
      /\ UNCHANGED <<host, name, up, read, snap, todo, targets>>
  BY DEF WriteBack, Goto, containers
<1>2. PICK x \in cur :
         \/ AdoptApplication(x[1], x[2]) /\ written' = written \cup {x} /\ Fine
         \/ Fault /\ UNCHANGED <<rows, written>>
  BY DEF WriteBack
<1>3. /\ x \in Pairs /\ x[1] \in Apps /\ rows \in [Apps -> RowType]
      /\ \A y \in written : y[1] = x[1] => y = x
      /\ \A y \in cur : y = x
  BY <1>2 DEF HInv, IInv, TypeOK, OneToOne, OneAtATime, Pairs
<1>4. Unique(name)' /\ OneAtATime' /\ ~settled'
  BY <1>1, <1>2 DEF HInv, Idle, Unique, OneAtATime, Fault, Fine
<1>5. CASE Fault /\ UNCHANGED <<rows, written>>
  BY <1>4, <1>5 DEF HInv, Recorded, Fault
<1>6. CASE AdoptApplication(x[1], x[2]) /\ written' = written \cup {x} /\ Fine
  <2>1. Recorded' /\ calm' = calm
    BY <1>3, <1>6, RecordedStays DEF Fine
  <2>2. calm => RowsAsRead'
    <3>1. \A b \in Apps \ {x[1]} : rows'[b] = rows[b]
      BY <1>3, <1>6 DEF AdoptApplication
    <3>2. calm => \A b \in Apps : rows[b] = read[b] \/ \E y \in written : y[1] = b
      BY <1>1 DEF HInv, CalmRun, RowsAsRead, Mating
    <3>. QED
      BY <1>1, <1>6, <3>1, <3>2 DEF RowsAsRead
  <2>3. calm => NamesAsSeen' /\ Passed'
    BY <1>1, <1>3, <1>6
    DEF HInv, CalmRun, NamesAsSeen, Passed, Bearers, Running, Loop, Mating
  <2>4. ASSUME calm PROVE Matched'
    <3>1. PICK ts \in MatchAdoptable(read, snap) : Follows(ts)
      BY <1>1, <2>4 DEF HInv, CalmRun, Matched, Mating
    <3>2. Follows(ts)'
      BY <1>1, <1>2, <1>3, <1>6, <3>1 DEF Follows, CanRename
    <3>. QED
      BY <1>1, <3>1, <3>2, SameMatches DEF Matched
  <2>. QED
    BY <1>4, <2>1, <2>2, <2>3, <2>4 DEF HInv, CalmRun
<1>. QED
  BY <1>2, <1>5, <1>6

(* Events keep names unique, and end the calm.                             *)
LEMMA HealingEvent ==
    ASSUME HInv, IInv', NEW c \in Containers,
           Exits(c) \/ Vanishes(c) \/ \E a \in Apps : RenamedByHand(c, a)
    PROVE  HInv'
<1>1. UNCHANGED <<rows, written, cur>> /\ calm' = FALSE /\ settled' = FALSE
  BY DEF Exits, Vanishes, RenamedByHand, Event, memory
<1>2. \/ name' = name
      \/ name' = [name EXCEPT ![c] = None]
      \/ \E a \in Apps : CanRename(c, a) /\ name' = [name EXCEPT ![c] = a]
  BY DEF Exits, Vanishes, RenamedByHand
<1>3. Unique(name)'
  BY <1>2 DEF HInv, IInv, TypeOK, Unique, CanRename
<1>. QED
  BY <1>1, <1>3 DEF HInv, OneAtATime, Recorded

(* Every step preserves the stronger invariant.                            *)
LEMMA HealingStep == HInv /\ [Next]_vars => HInv'
<1>1. SUFFICES ASSUME HInv, [Next]_vars PROVE HInv'
  OBVIOUS
<1>2. IInv'
  BY <1>1, Step DEF HInv
<1>3. CASE Launch \/ ListApplications \/ Snapshot
  BY <1>1, <1>2, <1>3, HealingStarts
<1>4. ASSUME NEW a \in Apps, Leave(a) \/ Refresh(a) PROVE HInv'
  BY <1>1, <1>2, <1>4, HealingLeave, HealingRefresh
<1>5. CASE Join \/ Match \/ Confirm
  BY <1>1, <1>2, <1>5, HealingJoin, HealingMatch, HealingConfirm
<1>6. CASE Rename \/ AdoptAttach \/ WriteBack
  BY <1>1, <1>2, <1>6, HealingRename, HealingAttach, HealingWriteBack
<1>7. CASE Decline \/ Die
  <2>1. settled' => calm' /\ Cured
    BY <1>1, <1>7 DEF Decline, Die, Fine, Fault, HInv, Idle
  <2>. QED
    BY <1>1, <1>2, <1>7, <2>1, QuitForgets DEF Decline, Die
<1>8. CASE Done
  <2>1. pc = "adopt" /\ targets = {} /\ Quit /\ Settle /\ UNCHANGED <<host, rows, containers, calm>>
    BY <1>8 DEF Done
  <2>2. ASSUME calm, ~Contested PROVE Cured
    BY <1>1, <2>1, <2>2, CalmRunCures DEF HInv, CalmRun, Matched, Passed, Mating
  <2>3. settled' => calm' /\ Cured
    BY <1>1, <2>1, <2>2 DEF Settle, HInv, Idle
  <2>. QED
    BY <1>1, <1>2, <2>1, <2>3, QuitForgets
<1>9. ASSUME NEW c \in Containers,
             Exits(c) \/ Vanishes(c) \/ \E a \in Apps : RenamedByHand(c, a)
      PROVE  HInv'
  BY <1>1, <1>2, <1>9, HealingEvent
<1>10. CASE UNCHANGED vars
  <2>1. UNCHANGED <<host, rows, name, up, net, pc, read, snap, todo, targets, cur, written,
                    calm, settled>>
    BY <1>10 DEF vars
  <2>2. settled => Cured'
    BY <1>1, <2>1, CuredStays DEF HInv, Idle
  <2>. QED
    BY <1>1, <1>2, <2>1, <2>2, SameMatches
    DEF HInv, Unique, OneAtATime, Recorded, CalmRun, RowsAsRead, NamesAsSeen, Passed, Matched,
        Follows, Idle, Bearers, Running, CanRename
<1>. QED
  BY <1>1, <1>3, <1>4, <1>5, <1>6, <1>7, <1>8, <1>9, <1>10 DEF Next, Run

-----------------------------------------------------------------------------
(* After a run that ended undisturbed nothing is left that a repair could  *)
(* repair, if Docker's names were unique before the first.                 *)
THEOREM RepairsConverge ==
    ASSUME \A s \in Starts : Unique(s.name)
    PROVE  Spec => []Healed
<1>1. HInv => Healed
  BY DEF HInv, Idle, Cured, Healed
<1>. QED
  BY <1>1, HealingInitially, HealingStep, PTL DEF Spec

(* Further runs change neither rows nor containers.                        *)
THEOREM LaterRunsAreIdle ==
    ASSUME \A s \in Starts : Unique(s.name)
    PROVE  Spec => NoOpWhenSettled
<1>1. HInv /\ [Next]_vars =>
        [settled /\ settled' => UNCHANGED <<rows, containers>>]_vars
  <2>. SUFFICES ASSUME HInv, Next, settled, settled'
                PROVE  UNCHANGED <<rows, containers>>
    OBVIOUS
  <2>1. Idle
    BY DEF HInv
  <2>2. ASSUME NEW a \in Apps, Refresh(a) PROVE FALSE
    <3>1. read = rows /\ snap = Now
      BY <2>2, SeenAsIs DEF Refresh, Loop
    <3>. QED
      BY <2>1, <2>2, <3>1 DEF Refresh, Drifted, Idle, Cured
  <2>3. CASE Rename
    BY <2>1, <2>3 DEF Rename, Idle, containers
  <2>4. CASE Join \/ AdoptAttach \/ WriteBack
    BY <2>1, <2>4 DEF Join, AdoptAttach, WriteBack, Idle
  <2>5. ASSUME NEW c \in Containers,
               Exits(c) \/ Vanishes(c) \/ \E a \in Apps : RenamedByHand(c, a)
        PROVE  FALSE
    BY <2>5 DEF Exits, Vanishes, RenamedByHand, Event
  <2>. QED
    BY <2>2, <2>3, <2>4, <2>5
    DEF Next, Run, Launch, ListApplications, Snapshot, Leave, Match, Confirm, Decline, Done, Die
<1>. QED
  BY <1>1, HealingInitially, HealingStep, PTL DEF Spec, NoOpWhenSettled
=============================================================================
