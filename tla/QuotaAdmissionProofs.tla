------------------------- MODULE QuotaAdmissionProofs -------------------------
(***************************************************************************)
(* The promise of QuotaAdmission, proved for every set of jobs, demands,   *)
(* priorities and quotas: the jobs holding quota never demand more than    *)
(* the quota in force.                                                     *)
(***************************************************************************)
EXTENDS QuotaAdmission, FiniteSetTheorems, TLAPS

\* The unit slots Load counts.
Slots(S) == {p \in S \X (1..MaxDemand) : p[2] <= Demand[p[1]]}

\* The inductive invariant: the holders are finitely many, so that their
\* load shrinks with them, and the quota is one of the plans' quotas.
AInv == IsFiniteSet(holders) /\ quota \in QuotaPlans /\ QuotaRespected

\* Finitely many jobs have finitely many slots.
LEMMA SlotsFinite ==
    ASSUME MaxDemand \in Nat, NEW S, IsFiniteSet(S)
    PROVE  IsFiniteSet(Slots(S))
<1>1. IsFiniteSet(1..MaxDemand)
  BY FS_Interval
<1>2. IsFiniteSet(S \X (1..MaxDemand))
  BY <1>1, FS_Product
<1>. QED
  BY <1>2, FS_Subset DEF Slots

\* Fewer jobs demand no more.
LEMMA LoadMonotone ==
    ASSUME MaxDemand \in Nat, NEW S, IsFiniteSet(S), NEW T \in SUBSET S
    PROVE  Load(T) <= Load(S)
<1>1. IsFiniteSet(Slots(S)) /\ Slots(T) \subseteq Slots(S)
  BY SlotsFinite DEF Slots
<1>. QED
  BY <1>1, FS_Subset DEF Load, Slots

\* No job demands nothing.
LEMMA LoadEmpty == Load({}) = 0
<1>1. {p \in {} \X (1..MaxDemand) : p[2] <= Demand[p[1]]} = {}
  OBVIOUS
<1>. QED
  BY <1>1, FS_EmptySet DEF Load

\* Admitting one job into a finite set of holders leaves it finite.
LEMMA AdmitFinite ==
    ASSUME NEW S, IsFiniteSet(S), NEW V, NEW c
    PROVE  IsFiniteSet((S \ V) \cup {c})
BY FS_Difference, FS_AddElement

LEMMA InitAInv ==
    ASSUME QuotaPlans \subseteq Nat
    PROVE  Init => AInv
BY LoadEmpty, FS_EmptySet DEF Init, AInv, QuotaRespected, Within

LEMMA NextAInv ==
    ASSUME MaxDemand \in Nat, QuotaPlans \subseteq Nat
    PROVE  AInv /\ [Next]_<<holders, quota>> => AInv'
<1> SUFFICES ASSUME AInv, [Next]_<<holders, quota>> PROVE AInv'
  OBVIOUS
<1>1. CASE \E c \in AWs, V \in SUBSET AWs : Admit(c, V)
  BY <1>1, AdmitFinite DEF Admit, AdmitFrom, AInv, QuotaRespected
<1>2. CASE \E q \in QuotaPlans, K \in SUBSET AWs : Requota(q, K)
  BY <1>2, FS_Subset DEF Requota, Survivors, AInv, QuotaRespected
<1>3. CASE \E q \in QuotaPlans, c \in AWs, V \in SUBSET AWs : RequotaAdmit(q, c, V)
  <2>1. PICK q \in QuotaPlans, c \in AWs, V \in SUBSET AWs : RequotaAdmit(q, c, V)
    BY <1>3
  <2>2. PICK K \in Survivors(holders, q) : AdmitFrom(K, q, c, V)
    BY <2>1 DEF RequotaAdmit
  <2>3. IsFiniteSet(K)
    BY FS_Subset DEF Survivors, AInv
  <2>. QED
    BY <2>1, <2>2, <2>3, AdmitFinite DEF AdmitFrom, AInv, QuotaRespected
<1>4. CASE \E c \in AWs : Release(c)
  <2>1. PICK c \in AWs : Release(c)
    BY <1>4
  <2>2. IsFiniteSet(holders') /\ Load(holders') <= Load(holders)
    BY <2>1, FS_RemoveElement, LoadMonotone DEF Release, AInv
  <2>3. Load(holders') \in Nat /\ Load(holders) \in Nat
    BY <2>2, FS_RemoveElement, FS_CardinalityType, SlotsFinite DEF AInv, Load, Slots
  <2>. QED
    BY <2>1, <2>2, <2>3 DEF Release, AInv, QuotaRespected, Within
<1>5. CASE \E q \in QuotaPlans : Reset(q)
  BY <1>5, LoadEmpty, FS_EmptySet DEF Reset, AInv, QuotaRespected, Within
<1>6. CASE UNCHANGED <<holders, quota>>
  BY <1>6 DEF AInv, QuotaRespected, Within, Load
<1>. QED
  BY <1>1, <1>2, <1>3, <1>4, <1>5, <1>6 DEF Next

\* For every instance, the jobs holding quota never demand more than the
\* quota in force: an admission checks it, a new quota keeps only holders
\* that fit, and a release or a reset only lowers the load.
THEOREM AdmissionWithinQuota ==
    ASSUME MaxDemand \in Nat, QuotaPlans \subseteq Nat
    PROVE  Spec => []QuotaRespected
<1>1. Init => AInv
  BY InitAInv
<1>2. AInv /\ [Next]_<<holders, quota>> => AInv'
  BY NextAInv
<1>. QED
  BY <1>1, <1>2, PTL DEF Spec, AInv
==============================================================================
