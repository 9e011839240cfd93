-------------------------- MODULE QuotaManagerProofs --------------------------
(***************************************************************************)
(* Proofs, for every set of jobs, demands, priorities, trees, labels and   *)
(* plans, that the QuotaManager model is well typed and that the backend   *)
(* never holds quota for a job that is not running.                        *)
(***************************************************************************)
EXTENDS QuotaManager, TLAPS

\* The inductive invariant: the type invariant and NoQuotaLeak itself.
IInv == TypeOK /\ NoQuotaLeak

\* A consumer a refresh keeps allocated was allocated before it.
LEMMA KeptSubset ==
    ASSUME NEW alloc, NEW q, NEW K \in Kept(alloc, q)
    PROVE  K \subseteq alloc
BY DEF Kept

\* An outcome of AllocateForest is a decision and a set of victims taken
\* from the consumers allocated so far.
LEMMA OutcomeType ==
    ASSUME NEW alloc, NEW c, NEW q, NEW o \in AllocOutcomes(alloc, c, q)
    PROVE  /\ o.allocated \in BOOLEAN
           /\ o.preempted \subseteq alloc
<1>1. \A V \in VictimSets(alloc, c, q) : V \subseteq alloc
  BY DEF VictimSets, Preemptible
<1>2. CASE FitsIn(alloc \cup {c}, q)
  <2>1. o = [allocated |-> TRUE, preempted |-> {}]
    BY <1>2 DEF AllocOutcomes
  <2>. QED
    BY <2>1
<1>3. CASE ~FitsIn(alloc \cup {c}, q) /\ VictimSets(alloc, c, q) # {}
  <2>1. PICK V \in VictimSets(alloc, c, q) : o = [allocated |-> TRUE, preempted |-> V]
    BY <1>3 DEF AllocOutcomes
  <2>. QED
    BY <1>1, <2>1
<1>4. CASE ~FitsIn(alloc \cup {c}, q) /\ VictimSets(alloc, c, q) = {}
  <2>1. o = [allocated |-> FALSE, preempted |-> {}]
    BY <1>4 DEF AllocOutcomes
  <2>. QED
    BY <2>1
<1>. QED
  BY <1>2, <1>3, <1>4

\* What one call of Fits may do: a refused job leaves the allocation no
\* larger; an admitted job is the only consumer it adds, and every victim
\* it shows the caller has lost its allocation.
LEMMA FitsEffect ==
    ASSUME TypeOK, NEW aw \in AWs, NEW fit, NEW shown, Fits(aw, fit, shown)
    PROVE  /\ shown \subseteq AWs
           /\ fit => allocated' \subseteq (allocated \ shown) \cup {aw}
           /\ ~fit => allocated' \subseteq allocated
           /\ registered' \subseteq AWs /\ reported' \subseteq AWs
           /\ bquota' \in QuotaPlans /\ resplanChanged' \in BOOLEAN
           /\ mode' = mode
<1>1. CASE mode = Maintenance /\ phase = "up"
  BY <1>1 DEF Fits, backend, TypeOK
<1>2. CASE ~(mode = Maintenance /\ phase = "up")
  <2>1. PICK K \in SUBSET AWs :
          /\ IF resplanChanged
             THEN RefreshForest(K)
             ELSE K = allocated /\ UNCHANGED <<bquota, resplanChanged, reported>>
          /\ IF DesignationMissing(aw)
             THEN /\ fit = FALSE /\ shown = {}
                  /\ registered' = registered /\ allocated' = K
             ELSE /\ registered' = registered \cup {aw}
                  /\ \E o \in AllocOutcomes(K, aw, bquota') :
                       /\ allocated' = IF o.allocated
                                       THEN (K \ o.preempted) \cup {aw} ELSE K
                       /\ fit = o.allocated
                       /\ shown = getAppWrappers(o.preempted)
    BY <1>2 DEF Fits
  <2>2. /\ K \subseteq allocated
        /\ reported' \subseteq AWs /\ bquota' \in QuotaPlans
        /\ resplanChanged' \in BOOLEAN
    <3>1. CASE resplanChanged
      BY <2>1, <3>1, KeptSubset DEF RefreshForest, TypeOK
    <3>2. CASE ~resplanChanged
      BY <2>1, <3>2 DEF TypeOK
    <3>. QED
      BY <3>1, <3>2
  <2>3. mode' = mode
    BY <1>2 DEF Fits
  <2>4. CASE DesignationMissing(aw)
    BY <2>1, <2>2, <2>3, <2>4 DEF TypeOK
  <2>5. CASE ~DesignationMissing(aw)
    <3>1. PICK o \in AllocOutcomes(K, aw, bquota') :
            /\ allocated' = IF o.allocated THEN (K \ o.preempted) \cup {aw} ELSE K
            /\ fit = o.allocated
            /\ shown = getAppWrappers(o.preempted)
      BY <2>1, <2>5
    <3>2. o.allocated \in BOOLEAN /\ o.preempted \subseteq K
      BY OutcomeType
    <3>3. shown \subseteq o.preempted
      BY <3>1 DEF getAppWrappers
    <3>4. registered' \subseteq AWs
      BY <2>1, <2>5 DEF TypeOK
    <3>. QED
      BY <2>2, <2>3, <3>1, <3>2, <3>3, <3>4
  <2>. QED
    BY <2>4, <2>5
<1>. QED
  BY <1>1, <1>2

\* The replay of one dispatched job keeps IInv: it allocates at most the
\* replayed job, which is running, and names only jobs in its error.
LEMMA ReplayIInv ==
    ASSUME IInv, NEW aw \in AWs, loadDispatchedAWs(aw)
    PROVE  IInv'
<1>1. CASE getDispatchedAppWrapper(aw)
  <2>1. PICK fit \in BOOLEAN, shown \in SUBSET AWs :
          Fits(aw, fit, shown) /\ initErr' = ReplayErr(initErr, aw, fit, shown)
    BY <1>1 DEF loadDispatchedAWs
  <2>2. allocated' \subseteq allocated \cup {aw}
    BY <2>1, FitsEffect DEF IInv
  <2>3. initErr' \subseteq AWs
    BY <2>1 DEF ReplayErr, IInv, TypeOK
  <2>. QED
    BY <1>1, <2>1, <2>2, <2>3, FitsEffect
       DEF loadDispatchedAWs, getDispatchedAppWrapper, IInv, TypeOK, NoQuotaLeak
<1>2. CASE ~getDispatchedAppWrapper(aw)
  BY <1>2 DEF loadDispatchedAWs, backend, IInv, TypeOK, NoQuotaLeak
<1>. QED
  BY <1>1, <1>2

\* A dispatch keeps IInv: the only job Fits adds is the one the caller
\* starts, and the victims it evicts are the ones the backend deallocated.
LEMMA DispatchIInv ==
    ASSUME IInv, NEW aw \in AWs, Dispatch(aw)
    PROVE  IInv'
<1>1. PICK fit \in BOOLEAN, shown \in SUBSET AWs :
        /\ Fits(aw, fit, shown)
        /\ running' = IF fit THEN (running \ shown) \cup {aw} ELSE running
  BY DEF Dispatch
<1>2. NoQuotaLeak'
  <2>1. CASE fit
    BY <1>1, <2>1, FitsEffect DEF IInv, NoQuotaLeak
  <2>2. CASE ~fit
    BY <1>1, <2>2, FitsEffect DEF IInv, NoQuotaLeak
  <2>. QED
    BY <2>1, <2>2
<1>3. TypeOK'
  BY <1>1, FitsEffect DEF Dispatch, IInv, TypeOK, NoQuotaLeak
<1>. QED
  BY <1>2, <1>3 DEF IInv

\* Every other step keeps IInv.
LEMMA OtherStepsIInv ==
    ASSUME IInv,
           \/ NewQuotaManager
           \/ FinishInit
           \/ \E aw \in AWs : Release(aw)
           \/ \E q \in QuotaPlans : ChangePlan(q)
           \/ \E m \in Modes : SetMode(m)
           \/ Crash
           \/ UNCHANGED vars
    PROVE  IInv'
<1>1. CASE NewQuotaManager
  BY <1>1 DEF NewQuotaManager, IInv, TypeOK, NoQuotaLeak, Phases
<1>2. CASE FinishInit
  BY <1>2 DEF FinishInit, IInv, TypeOK, NoQuotaLeak, Modes, Phases
<1>3. CASE \E aw \in AWs : Release(aw)
  BY <1>3 DEF Release, IInv, TypeOK, NoQuotaLeak
<1>4. CASE \E q \in QuotaPlans : ChangePlan(q)
  BY <1>4 DEF ChangePlan, IInv, TypeOK, NoQuotaLeak
<1>5. CASE \E m \in Modes : SetMode(m)
  BY <1>5 DEF SetMode, IInv, TypeOK, NoQuotaLeak
<1>6. CASE Crash
  BY <1>6, MaxRestartsAssumption DEF Crash, IInv, TypeOK, NoQuotaLeak, Phases
<1>7. CASE UNCHANGED vars
  BY <1>7 DEF vars, IInv, TypeOK, NoQuotaLeak
<1>. QED
  BY <1>1, <1>2, <1>3, <1>4, <1>5, <1>6, <1>7

\* IInv is inductive.
LEMMA NextIInv == IInv /\ [Next]_vars => IInv'
<1> SUFFICES ASSUME IInv, [Next]_vars PROVE IInv'
  OBVIOUS
<1>1. CASE \E aw \in AWs : loadDispatchedAWs(aw)
  BY <1>1, ReplayIInv
<1>2. CASE \E aw \in AWs : Dispatch(aw)
  BY <1>2, DispatchIInv
<1>3. CASE ~(\E aw \in AWs : loadDispatchedAWs(aw)) /\ ~(\E aw \in AWs : Dispatch(aw))
  BY <1>3, OtherStepsIInv DEF Next
<1>. QED
  BY <1>1, <1>2, <1>3

\* The initial state, before the first NewQuotaManager, satisfies IInv.
LEMMA InitIInv == Init => IInv
<1> SUFFICES ASSUME Init PROVE IInv
  OBVIOUS
<1>1. restarts \in 0..MaxRestarts
  BY MaxRestartsAssumption DEF Init
<1>2. bquota \in QuotaPlans /\ plan \in QuotaPlans
  BY DEF Init
<1>. QED
  BY <1>1, <1>2 DEF Init, IInv, TypeOK, NoQuotaLeak, Modes, Phases

\* The variables keep their types through every step; the refinement
\* below needs it.
LEMMA QuotaTypeCorrect == Spec => []TypeOK
<1>1. Spec => []IInv
  BY InitIInv, NextIInv, PTL DEF Spec
<1>. QED
  BY <1>1, PTL DEF IInv

\* For every instance, the quota backend never holds an allocation for a
\* job that is not running: Release deallocates an ending job, the replay
\* after a restart re-admits only jobs whose CanRun is set, and every
\* victim Fits returns has already been deallocated by the backend.
THEOREM NoQuotaLeakInvariant == Spec => []NoQuotaLeak
<1>1. Spec => []IInv
  BY InitIInv, NextIInv, PTL DEF Spec
<1>. QED
  BY <1>1, PTL DEF IInv

-----------------------------------------------------------------------------
(* Refinement of QuotaAdmission, with allocated as the holders and bquota *)
(* as the quota.                                                           *)

\* The abstract quota check is the backend's.
LEMMA WithinIsFitsIn ==
    ASSUME NEW S, NEW q
    PROVE  QA!Within(S, q) <=> FitsIn(S, q)
BY DEF QA!Within, QA!Load, QA!Cardinality, Cardinality, FitsIn, DemandSum, DemandSlots

\* The consumers a refresh keeps are the ones the abstract quota lets stand.
LEMMA KeptAreSurvivors ==
    ASSUME NEW S, NEW q
    PROVE  Kept(S, q) = QA!Survivors(S, q)
BY WithinIsFitsIn DEF Kept, QA!Survivors

\* An allocating outcome of AllocateForest evicts only lower-priority
\* consumers allocated so far, only when preemption is enabled, and leaves
\* the allocation within the quota.
LEMMA AllocatingOutcome ==
    ASSUME NEW alloc, NEW c, NEW q, NEW o \in AllocOutcomes(alloc, c, q), o.allocated
    PROVE  /\ o.preempted \subseteq alloc
           /\ PreemptionEnabled \/ o.preempted = {}
           /\ \A x \in o.preempted : Priority[x] < Priority[c]
           /\ FitsIn((alloc \ o.preempted) \cup {c}, q)
<1>1. CASE FitsIn(alloc \cup {c}, q)
  <2>1. o = [allocated |-> TRUE, preempted |-> {}]
    BY <1>1 DEF AllocOutcomes
  <2>2. (alloc \ {}) \cup {c} = alloc \cup {c}
    OBVIOUS
  <2>. QED
    BY <1>1, <2>1, <2>2
<1>2. CASE ~FitsIn(alloc \cup {c}, q) /\ VictimSets(alloc, c, q) # {}
  <2>1. PICK V \in VictimSets(alloc, c, q) : o = [allocated |-> TRUE, preempted |-> V]
    BY <1>2 DEF AllocOutcomes
  <2>2. V \subseteq Preemptible(alloc, c) /\ V # {} /\ FitsIn((alloc \ V) \cup {c}, q)
    BY DEF VictimSets
  <2>3. PreemptionEnabled
    BY <2>2 DEF Preemptible
  <2>. QED
    BY <2>1, <2>2, <2>3 DEF Preemptible
<1>3. CASE ~FitsIn(alloc \cup {c}, q) /\ VictimSets(alloc, c, q) = {}
  <2>1. o = [allocated |-> FALSE, preempted |-> {}]
    BY <1>3 DEF AllocOutcomes
  <2>. QED
    BY <2>1
<1>. QED
  BY <1>1, <1>2, <1>3

\* Every call of Fits is a step of QuotaAdmission or leaves the holders
\* and the quota alone: the maintenance gate and a refused or undesignated
\* job without a refresh change nothing, a refresh is a Requota, an
\* allocation an Admit, and a refresh followed by an allocation a
\* RequotaAdmit.
LEMMA FitsRefines ==
    ASSUME TypeOK, NEW aw \in AWs, NEW fit, NEW shown, Fits(aw, fit, shown)
    PROVE  [QA!Next]_<<allocated, bquota>>
<1>1. CASE mode = Maintenance /\ phase = "up"
  BY <1>1 DEF Fits, backend
<1>2. CASE ~(mode = Maintenance /\ phase = "up")
  <2>1. PICK K \in SUBSET AWs :
          /\ IF resplanChanged
             THEN RefreshForest(K)
             ELSE K = allocated /\ UNCHANGED <<bquota, resplanChanged, reported>>
          /\ IF DesignationMissing(aw)
             THEN /\ fit = FALSE /\ shown = {}
                  /\ registered' = registered /\ allocated' = K
             ELSE /\ registered' = registered \cup {aw}
                  /\ \E o \in AllocOutcomes(K, aw, bquota') :
                       /\ allocated' = IF o.allocated
                                       THEN (K \ o.preempted) \cup {aw} ELSE K
                       /\ fit = o.allocated
                       /\ shown = getAppWrappers(o.preempted)
    BY <1>2 DEF Fits
  <2>2. CASE resplanChanged
    <3>1. K \in QA!Survivors(allocated, plan) /\ bquota' = plan /\ plan \in QuotaPlans
      BY <2>1, <2>2, KeptAreSurvivors DEF RefreshForest, TypeOK
    <3>2. CASE allocated' = K
      BY <3>1, <3>2 DEF QA!Next, QA!Requota
    <3>3. CASE allocated' # K
      <4>1. PICK o \in AllocOutcomes(K, aw, plan) :
              o.allocated /\ allocated' = (K \ o.preempted) \cup {aw}
        BY <2>1, <3>1, <3>3
      <4>2. /\ o.preempted \subseteq K
            /\ PreemptionEnabled \/ o.preempted = {}
            /\ \A x \in o.preempted : Priority[x] < Priority[aw]
            /\ QA!Within((K \ o.preempted) \cup {aw}, plan)
        BY <4>1, AllocatingOutcome, WithinIsFitsIn
      <4>3. QA!AdmitFrom(K, plan, aw, o.preempted)
        BY <3>1, <4>1, <4>2 DEF QA!AdmitFrom
      <4>4. QA!RequotaAdmit(plan, aw, o.preempted)
        BY <3>1, <4>3 DEF QA!RequotaAdmit
      <4>. QED
        BY <3>1, <4>4, <4>2 DEF QA!Next, TypeOK
    <3>. QED
      BY <3>2, <3>3
  <2>3. CASE ~resplanChanged
    <3>1. K = allocated /\ bquota' = bquota
      BY <2>1, <2>3
    <3>2. CASE allocated' = K
      BY <3>1, <3>2
    <3>3. CASE allocated' # K
      <4>1. PICK o \in AllocOutcomes(K, aw, bquota) :
              o.allocated /\ allocated' = (K \ o.preempted) \cup {aw}
        BY <2>1, <3>1, <3>3
      <4>2. /\ o.preempted \subseteq K
            /\ PreemptionEnabled \/ o.preempted = {}
            /\ \A x \in o.preempted : Priority[x] < Priority[aw]
            /\ QA!Within((K \ o.preempted) \cup {aw}, bquota)
        BY <4>1, AllocatingOutcome, WithinIsFitsIn
      <4>3. QA!Admit(aw, o.preempted)
        BY <3>1, <4>1, <4>2 DEF QA!Admit, QA!AdmitFrom
      <4>. QED
        BY <3>1, <4>3, <4>2 DEF QA!Next, TypeOK
    <3>. QED
      BY <3>2, <3>3
  <2>. QED
    BY <2>2, <2>3
<1>. QED
  BY <1>1, <1>2

\* Every step of the QuotaManager with its caller is a step of
\* QuotaAdmission or leaves the holders and the quota alone.
LEMMA NextRefines == TypeOK /\ [Next]_vars => [QA!Next]_<<allocated, bquota>>
<1> SUFFICES ASSUME TypeOK, [Next]_vars PROVE [QA!Next]_<<allocated, bquota>>
  OBVIOUS
<1>1. CASE NewQuotaManager
  <2>1. QA!Reset(plan) /\ plan \in QuotaPlans
    BY <1>1 DEF NewQuotaManager, QA!Reset, TypeOK
  <2>. QED
    BY <2>1 DEF QA!Next
<1>2. CASE \E aw \in AWs : loadDispatchedAWs(aw)
  <2>1. PICK aw \in AWs : loadDispatchedAWs(aw)
    BY <1>2
  <2>2. CASE getDispatchedAppWrapper(aw)
    BY <2>1, <2>2, FitsRefines DEF loadDispatchedAWs
  <2>3. CASE ~getDispatchedAppWrapper(aw)
    BY <2>1, <2>3 DEF loadDispatchedAWs, backend
  <2>. QED
    BY <2>2, <2>3
<1>3. CASE \E aw \in AWs : Dispatch(aw)
  BY <1>3, FitsRefines DEF Dispatch
<1>4. CASE \E aw \in AWs : Release(aw)
  BY <1>4 DEF Release, QA!Next, QA!Release
<1>5. CASE Crash
  <2>1. QA!Reset(bquota) /\ bquota \in QuotaPlans
    BY <1>5 DEF Crash, QA!Reset, TypeOK
  <2>. QED
    BY <2>1 DEF QA!Next
<1>6. CASE FinishInit \/ (\E q \in QuotaPlans : ChangePlan(q)) \/ (\E m \in Modes : SetMode(m))
  BY <1>6 DEF FinishInit, ChangePlan, SetMode
<1>7. CASE UNCHANGED vars
  BY <1>7 DEF vars
<1>. QED
  BY <1>1, <1>2, <1>3, <1>4, <1>5, <1>6, <1>7 DEF Next

\* The QuotaManager, through restarts, replays, dispatches, releases, plan
\* changes and maintenance periods, implements the abstract admission
\* specification QuotaAdmission under the mapping holders <- allocated,
\* quota <- bquota.
THEOREM Implementation == Spec => QuotaAdmissionSpec
<1>1. Init => QA!Init
  BY DEF Init, QA!Init
<1>2. Spec => []TypeOK
  BY QuotaTypeCorrect
<1>3. TypeOK /\ [Next]_vars => [QA!Next]_<<allocated, bquota>>
  BY NextRefines
<1>. QED
  BY <1>1, <1>2, <1>3, PTL DEF Spec, QuotaAdmissionSpec, QA!Spec

\* The abstract proofs, read under the refinement mapping.
QAP == INSTANCE QuotaAdmissionProofs WITH holders <- allocated, quota <- bquota

\* For every instance, the jobs the backend has allocated never demand
\* more than the quota of the plan it has realised: Implementation carries
\* AdmissionWithinQuota of the abstract specification over to the code.
THEOREM QuotaNeverExceeded == Spec => [](FitsIn(allocated, bquota))
<1>1. Spec => QAP!Spec
  <2>1. ASSUME NEW S, NEW q PROVE QA!Within(S, q) <=> QAP!Within(S, q)
    BY DEF QA!Within, QAP!Within, QA!Load, QAP!Load, QA!Cardinality, QAP!Cardinality
  <2>2. QA!Init <=> QAP!Init
    BY DEF QA!Init, QAP!Init
  <2>3. QA!Next <=> QAP!Next
    BY <2>1 DEF QA!Next, QAP!Next, QA!Admit, QAP!Admit, QA!AdmitFrom, QAP!AdmitFrom,
       QA!Requota, QAP!Requota, QA!RequotaAdmit, QAP!RequotaAdmit,
       QA!Release, QAP!Release, QA!Reset, QAP!Reset, QA!Survivors, QAP!Survivors
  <2>. QED
    BY <2>2, <2>3, Implementation, PTL DEF QuotaAdmissionSpec, QA!Spec, QAP!Spec
<1>2. QAP!Spec => []QAP!QuotaRespected
  BY QAP!AdmissionWithinQuota, MaxDemandAssumption, QuotaPlansAssumption
<1>3. QAP!QuotaRespected <=> FitsIn(allocated, bquota)
  BY DEF QAP!QuotaRespected, QAP!Within, QAP!Load, QAP!Cardinality, Cardinality,
     FitsIn, DemandSum, DemandSlots
<1>. QED
  BY <1>1, <1>2, <1>3, PTL

==============================================================================
