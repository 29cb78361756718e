----------------------------- MODULE Succession -----------------------------
(***************************************************************************)
(* What the migration promises about v3's containers, without saying how   *)
(* it replaces one: they retire one at a time, none while another's place  *)
(* is vacant; a successor comes only once its predecessor has retired, and *)
(* stays; and v3 is dissolved only when every predecessor has a successor. *)
(* PostDocker implements this specification, and so does Migration while   *)
(* nothing fails and v3 deploys nothing.                                   *)
(***************************************************************************)
EXTENDS TLAPS

CONSTANT Successors     \* those that may come

VARIABLES
    heir,       \* the predecessor each successor would stand in for; fixed
    olds,       \* the predecessors there were at first; fixed
    serving,    \* the predecessors that have not retired
    seated,     \* the successors that have come
    dissolved   \* is the predecessors' house dissolved?

successionVars == <<heir, olds, serving, seated, dissolved>>

Retired   == olds \ serving
Vacant(x) == x \in Retired /\ \A s \in seated : heir[s] # x

SuccessionInit ==
    /\ serving = olds
    /\ seated = {}
    /\ dissolved = FALSE

Retire(x) ==
    /\ x \in serving
    /\ \E s \in Successors : heir[s] = x
    /\ \A y \in Retired : ~Vacant(y)
    /\ serving' = serving \ {x}
    /\ UNCHANGED <<heir, olds, seated, dissolved>>

(* Two successors may stand in for one predecessor.                        *)
Seat(s) ==
    /\ s \in Successors \ seated
    /\ heir[s] \in Retired
    /\ seated' = seated \cup {s}
    /\ UNCHANGED <<heir, olds, serving, dissolved>>

Dissolve ==
    /\ serving = {}
    /\ \A x \in olds : ~Vacant(x)
    /\ dissolved' = TRUE
    /\ UNCHANGED <<heir, olds, serving, seated>>

SuccessionNext ==
    \/ \E x \in serving : Retire(x)
    \/ \E s \in Successors : Seat(s)
    \/ Dissolve

SuccessionSpec == SuccessionInit /\ [][SuccessionNext]_successionVars

-----------------------------------------------------------------------------
(* At most one place is vacant; and a dissolved house has left none.       *)
OneVacancy ==
    /\ \A x, y \in olds : Vacant(x) /\ Vacant(y) => x = y
    /\ dissolved => \A x \in olds : ~Vacant(x) /\ x \notin serving

(* Succession promises what it is meant to promise.                        *)
THEOREM OneAtATime == SuccessionSpec => []OneVacancy
<1>1. SuccessionInit => OneVacancy
  BY DEF SuccessionInit, OneVacancy, Vacant, Retired
<1>2. ASSUME OneVacancy, [SuccessionNext]_successionVars
      PROVE  OneVacancy'
  <2>1. CASE UNCHANGED successionVars
    BY <1>2, <2>1 DEF OneVacancy, Vacant, Retired, successionVars
  <2>2. ASSUME NEW x \in serving, Retire(x)
        PROVE  OneVacancy'
    BY <1>2, <2>2 DEF OneVacancy, Vacant, Retired, Retire
  <2>3. ASSUME NEW s \in Successors, Seat(s)
        PROVE  OneVacancy'
    BY <1>2, <2>3 DEF OneVacancy, Vacant, Retired, Seat
  <2>4. CASE Dissolve
    BY <1>2, <2>4 DEF OneVacancy, Vacant, Retired, Dissolve
  <2>. QED
    BY <1>2, <2>1, <2>2, <2>3, <2>4 DEF SuccessionNext
<1>. QED
  BY <1>1, <1>2, PTL DEF SuccessionSpec
=============================================================================
