------------------------ MODULE QuotaManagerHoldProofs ------------------------
(***************************************************************************)
(* Proofs that every running job holds quota or was reported, under each  *)
(* of the two conditions that rule out the lost replay error of           *)
(* loadDispatchedAWs: a plan that never changes, or no restart at all.    *)
(* Both also need every preempted id to resolve in the AppWrapper lister, *)
(* or a victim the caller is not told of keeps running without quota.    *)
(***************************************************************************)
EXTENDS QuotaManagerProofs, FiniteSetTheorems

\* With a fixed plan nothing is ever refreshed or reported, the replay
\* re-admits every running job (they fitted together before the restart),
\* so the replay error stays empty, and the running jobs fit the quota.
FixedPlanInv ==
    /\ IInv
    /\ ~resplanChanged /\ reported = {} /\ initErr = {}
    /\ IsFiniteSet(running)
    /\ \A aw \in running : ~DesignationMissing(aw)
    /\ FitsIn(running, bquota)
    /\ phase = "init" => running \subseteq allocated \cup pending
    /\ phase = "up" => running \subseteq allocated

\* Without a restart no job is running before the QuotaManager is up, and
\* once it is up every running job holds quota or a refresh reported it.
NoRestartInv ==
    /\ IInv
    /\ restarts = 0
    /\ phase # "up" => running = {}
    /\ RunningHoldQuota
-----------------------------------------------------------------------------
(* Lemmas about the demand of a set of jobs and about Fits.               *)

\* Fewer jobs, out of finitely many, demand no more.
LEMMA DemandMonotone ==
    ASSUME NEW S, IsFiniteSet(S), NEW T \in SUBSET S
    PROVE  DemandSum(T) <= DemandSum(S) /\ DemandSum(T) \in Nat
<1>0. IsFiniteSet(1..MaxDemand)
  BY MaxDemandAssumption, FS_Interval
<1>1. IsFiniteSet(S \X (1..MaxDemand))
  BY <1>0, FS_Product
<1>2. IsFiniteSet(DemandSlots(S)) /\ DemandSlots(T) \subseteq DemandSlots(S)
  BY <1>1, FS_Subset DEF DemandSlots
<1>. QED
  BY <1>2, FS_Subset, FS_CardinalityType DEF DemandSum

\* A subset of jobs that fit in a quota fits in it too.
LEMMA FitsInSubset ==
    ASSUME NEW S, IsFiniteSet(S), NEW T \in SUBSET S, NEW q \in Int, FitsIn(S, q)
    PROVE  FitsIn(T, q)
<1>1. DemandSum(T) <= DemandSum(S) /\ DemandSum(T) \in Nat /\ DemandSum(S) \in Nat
  BY DemandMonotone, FS_Subset
<1>. QED
  BY <1>1 DEF FitsIn

\* The outcomes of Fits with the plan unchanged, with the allocation after
\* it as a parameter: a refusal, or an allocation that evicts victims.
FitsResult(aw, fit, shown, after) ==
    \/ fit = FALSE /\ shown = {} /\ after = allocated
    \/ \E o \in AllocOutcomes(allocated, aw, bquota) :
          /\ o.allocated /\ ~DesignationMissing(aw) /\ fit
          /\ after = (allocated \ o.preempted) \cup {aw}
          /\ shown = getAppWrappers(o.preempted)

\* Fits when the plan has not changed: it refuses and changes no
\* allocation, or it allocates the job, evicting the victims it shows; and
\* past the maintenance gate a designated job with room is allocated.
LEMMA FitsNoRefresh ==
    ASSUME TypeOK, ~resplanChanged, NEW aw \in AWs, NEW fit, NEW shown,
           Fits(aw, fit, shown)
    PROVE  /\ bquota' = bquota /\ resplanChanged' = resplanChanged /\ reported' = reported
           /\ FitsResult(aw, fit, shown, allocated')
           /\ (/\ ~(mode = Maintenance /\ phase = "up")
               /\ ~DesignationMissing(aw)
               /\ FitsIn(allocated \cup {aw}, bquota))
              => fit /\ shown = {} /\ allocated' = allocated \cup {aw}
<1>1. CASE mode = Maintenance /\ phase = "up"
  BY <1>1 DEF Fits, backend, FitsResult
<1>2. CASE ~(mode = Maintenance /\ phase = "up")
  <2>1. PICK K \in SUBSET AWs :
          /\ K = allocated /\ UNCHANGED <<bquota, resplanChanged, reported>>
          /\ IF DesignationMissing(aw)
             THEN /\ fit = FALSE /\ shown = {}
                  /\ registered' = registered /\ allocated' = K
             ELSE /\ registered' = registered \cup {aw}
                  /\ \E o \in AllocOutcomes(K, aw, bquota') :
                       /\ allocated' = IF o.allocated
                                       THEN (K \ o.preempted) \cup {aw} ELSE K
                       /\ fit = o.allocated
                       /\ shown = getAppWrappers(o.preempted)
    BY <1>2 DEF Fits
  <2>2. CASE DesignationMissing(aw)
    BY <2>1, <2>2 DEF FitsResult
  <2>3. CASE ~DesignationMissing(aw)
    <3>1. PICK o \in AllocOutcomes(allocated, aw, bquota) :
            /\ allocated' = IF o.allocated THEN (allocated \ o.preempted) \cup {aw}
                            ELSE allocated
            /\ fit = o.allocated
            /\ shown = getAppWrappers(o.preempted)
      BY <2>1, <2>3
    <3>2. FitsIn(allocated \cup {aw}, bquota)
          => fit /\ shown = {} /\ allocated' = allocated \cup {aw}
      <4>1. FitsIn(allocated \cup {aw}, bquota) => o = [allocated |-> TRUE, preempted |-> {}]
        BY DEF AllocOutcomes
      <4>. QED
        BY <3>1, <4>1 DEF getAppWrappers
    <3>3. CASE o.allocated
      BY <2>1, <2>3, <3>1, <3>2, <3>3 DEF FitsResult
    <3>4. CASE ~o.allocated
      <4>1. o = [allocated |-> FALSE, preempted |-> {}]
        BY <3>4 DEF AllocOutcomes
      <4>. QED
        BY <2>1, <3>1, <3>2, <4>1 DEF getAppWrappers, FitsResult
    <3>. QED
      BY <2>1, <3>2, <3>3, <3>4
  <2>. QED
    BY <2>2, <2>3
<1>. QED
  BY <1>1, <1>2
-----------------------------------------------------------------------------
(* FixedPlanInv is inductive when QuotaPlans has a single plan.            *)

\* The start before any NewQuotaManager.
LEMMA InitFixedPlanInv ==
    ASSUME Init PROVE FixedPlanInv
<1>1. DemandSlots({}) = {}
  BY DEF DemandSlots
<1>2. FitsIn({}, bquota)
  BY <1>1, FS_EmptySet, QuotaPlansAssumption DEF Init, FitsIn, DemandSum
<1>. QED
  BY <1>2, InitIInv, FS_EmptySet DEF Init, FixedPlanInv

\* Every running job fitted with the others, so the replay re-admits it
\* with no preemption and the replay error stays empty.
LEMMA ReplayFixedPlanInv ==
    ASSUME FixedPlanInv, NEW aw \in AWs, loadDispatchedAWs(aw)
    PROVE  FixedPlanInv'
<1>1. IInv'
  BY ReplayIInv DEF FixedPlanInv
<1>2. /\ phase = "init" /\ phase' = "init" /\ pending' = pending \ {aw}
      /\ running' = running
  BY DEF loadDispatchedAWs
<1>3. CASE aw \notin running
  <2>1. UNCHANGED <<backend, initErr>>
    BY <1>3 DEF loadDispatchedAWs, getDispatchedAppWrapper
  <2>. QED
    BY <1>1, <1>2, <1>3, <2>1 DEF FixedPlanInv, backend
<1>4. CASE aw \in running
  <2>1. PICK fit \in BOOLEAN, shown \in SUBSET AWs :
          Fits(aw, fit, shown) /\ initErr' = ReplayErr(initErr, aw, fit, shown)
    BY <1>4 DEF loadDispatchedAWs, getDispatchedAppWrapper
  <2>2. FitsIn(allocated \cup {aw}, bquota)
    <3>1. allocated \cup {aw} \subseteq running
      BY <1>4 DEF FixedPlanInv, IInv, NoQuotaLeak
    <3>2. bquota \in Int
      BY QuotaPlansAssumption DEF FixedPlanInv, IInv, TypeOK
    <3>. QED
      BY <3>1, <3>2, FitsInSubset DEF FixedPlanInv
  <2>3. /\ bquota' = bquota /\ resplanChanged' = resplanChanged /\ reported' = reported
        /\ fit /\ shown = {} /\ allocated' = allocated \cup {aw}
    BY <1>2, <1>4, <2>1, <2>2, FitsNoRefresh DEF FixedPlanInv, IInv
  <2>4. initErr' = {}
    BY <2>1, <2>3 DEF ReplayErr, FixedPlanInv
  <2>5. running' \subseteq allocated' \cup pending'
    BY <1>2, <2>3 DEF FixedPlanInv
  <2>. QED
    BY <1>1, <1>2, <2>3, <2>4, <2>5 DEF FixedPlanInv
<1>. QED
  BY <1>3, <1>4
\* A dispatch that allocates evicts exactly the victims it shows, when
\* every victim resolves; the running jobs are then the allocated ones.
LEMMA DispatchFixedPlanInv ==
    ASSUME FixedPlanInv, Listed = AWs, NEW aw \in AWs, Dispatch(aw)
    PROVE  FixedPlanInv'
<1>1. IInv'
  BY DispatchIInv DEF FixedPlanInv
<1>2. PICK fit \in BOOLEAN, shown \in SUBSET AWs :
        /\ Fits(aw, fit, shown)
        /\ running' = IF fit THEN (running \ shown) \cup {aw} ELSE running
  BY DEF Dispatch
<1>3. /\ phase = "up" /\ phase' = "up" /\ aw \notin running
      /\ UNCHANGED <<pending, initErr>>
  BY DEF Dispatch
<1>4. running = allocated
  BY <1>3 DEF FixedPlanInv, IInv, NoQuotaLeak
<1>5. /\ bquota' = bquota /\ resplanChanged' = resplanChanged /\ reported' = reported
      /\ FitsResult(aw, fit, shown, allocated')
  <2>1. TypeOK /\ ~resplanChanged
    BY DEF FixedPlanInv, IInv
  <2>2. Fits(aw, fit, shown)
    BY <1>2
  <2>. QED
    BY <2>1, <2>2, FitsNoRefresh
<1>6. CASE fit = FALSE
  BY <1>1, <1>2, <1>3, <1>5, <1>6 DEF FixedPlanInv, FitsResult
<1>7. CASE fit = TRUE
  <2>1. PICK o \in AllocOutcomes(allocated, aw, bquota) :
               /\ o.allocated /\ ~DesignationMissing(aw)
               /\ allocated' = (allocated \ o.preempted) \cup {aw}
               /\ shown = getAppWrappers(o.preempted)
    BY <1>5, <1>7 DEF FitsResult
  <2>2. o.preempted \subseteq allocated /\ FitsIn((allocated \ o.preempted) \cup {aw}, bquota)
    BY <2>1, AllocatingOutcome
  <2>3. shown = o.preempted
    BY <2>1, <2>2 DEF getAppWrappers, FixedPlanInv, IInv, TypeOK
  <2>4. running' = allocated'
    BY <1>2, <1>4, <1>7, <2>1, <2>3
  <2>5. IsFiniteSet(running')
    BY <1>2, <1>7, FS_Difference, FS_AddElement DEF FixedPlanInv
  <2>6. \A x \in running' : ~DesignationMissing(x)
    BY <1>2, <1>7, <2>1 DEF FixedPlanInv
  <2>. QED
    BY <1>1, <1>3, <1>5, <2>1, <2>2, <2>4, <2>5, <2>6 DEF FixedPlanInv
<1>. QED
  BY <1>6, <1>7

\* The other steps: a fresh backend, the end of the replay, a release, a
\* mode change and a crash; a plan change cannot happen with one plan.
LEMMA OtherStepsFixedPlanInv ==
    ASSUME FixedPlanInv, NEW q0, QuotaPlans = {q0},
           \/ NewQuotaManager
           \/ FinishInit
           \/ \E aw \in AWs : Release(aw)
           \/ \E q \in QuotaPlans : ChangePlan(q)
           \/ \E m \in Modes : SetMode(m)
           \/ Crash
           \/ UNCHANGED vars
    PROVE  FixedPlanInv'
<1>1. IInv'
  BY OtherStepsIInv DEF FixedPlanInv
<1>2. CASE NewQuotaManager
  <2>1. bquota' = bquota
    BY <1>2 DEF NewQuotaManager, FixedPlanInv, IInv, TypeOK
  <2>. QED
    BY <1>1, <1>2, <2>1 DEF NewQuotaManager, FixedPlanInv
<1>3. CASE FinishInit
  BY <1>1, <1>3 DEF FinishInit, FixedPlanInv
<1>4. CASE \E aw \in AWs : Release(aw)
  <2>1. PICK aw \in AWs : Release(aw)
    BY <1>4
  <2>2. running' \subseteq running /\ IsFiniteSet(running')
    BY <2>1, FS_Subset DEF Release, FixedPlanInv
  <2>3. FitsIn(running', bquota')
    BY <2>1, <2>2, FitsInSubset, QuotaPlansAssumption DEF Release, FixedPlanInv, IInv, TypeOK
  <2>. QED
    BY <1>1, <2>1, <2>2, <2>3 DEF Release, FixedPlanInv
<1>5. CASE \E q \in QuotaPlans : ChangePlan(q)
  BY <1>5 DEF ChangePlan, FixedPlanInv, IInv, TypeOK
<1>6. CASE \E m \in Modes : SetMode(m)
  BY <1>1, <1>6 DEF SetMode, FixedPlanInv
<1>7. CASE Crash
  BY <1>1, <1>7 DEF Crash, FixedPlanInv
<1>8. CASE UNCHANGED vars
  BY <1>1, <1>8 DEF vars, FixedPlanInv
<1>. QED
  BY <1>2, <1>3, <1>4, <1>5, <1>6, <1>7, <1>8
\* FixedPlanInv is inductive with one plan and every victim resolved.
LEMMA NextFixedPlanInv ==
    ASSUME NEW q0, QuotaPlans = {q0}, Listed = AWs
    PROVE  FixedPlanInv /\ [Next]_vars => FixedPlanInv'
<1> SUFFICES ASSUME FixedPlanInv, [Next]_vars PROVE FixedPlanInv'
  OBVIOUS
<1>1. CASE \E aw \in AWs : loadDispatchedAWs(aw)
  BY <1>1, ReplayFixedPlanInv
<1>2. CASE \E aw \in AWs : Dispatch(aw)
  BY <1>2, DispatchFixedPlanInv
<1>3. CASE ~(\E aw \in AWs : loadDispatchedAWs(aw)) /\ ~(\E aw \in AWs : Dispatch(aw))
  BY <1>3, OtherStepsFixedPlanInv DEF Next
<1>. QED
  BY <1>1, <1>2, <1>3

\* With a single ResourcePlan, one that is never edited, every running job
\* holds quota once NewQuotaManager has returned, through any number of
\* controller restarts: the replay in loadDispatchedAWs re-admits every
\* job whose CanRun is set, because they all fitted together before, and
\* the dispatch loop evicts every victim Fits names.  Both conditions are
\* needed: the run quota_replay_error shows a restart after a plan shrink
\* losing the replay error, and a victim that getAppWrappers does not
\* resolve (the mutant getAppWrappersNone) keeps running without quota.
THEOREM RunningHoldQuotaFixedPlan ==
    ASSUME NEW q0, QuotaPlans = {q0}, Listed = AWs
    PROVE  Spec => []RunningHoldQuota
<1>1. Init => FixedPlanInv
  BY InitFixedPlanInv
<1>2. FixedPlanInv /\ [Next]_vars => FixedPlanInv'
  BY NextFixedPlanInv
<1>3. FixedPlanInv => RunningHoldQuota
  BY DEF FixedPlanInv, RunningHoldQuota
<1>. QED
  BY <1>1, <1>2, <1>3, PTL DEF Spec
-----------------------------------------------------------------------------
(* NoRestartInv is inductive when the controller never restarts.           *)

\* What Fits does to the jobs the backend allocated or reported: each one
\* stays allocated, is reported by the refresh, or is a victim shown to
\* the caller, when every preempted id resolves; and nothing is shown
\* unless the job was admitted.
LEMMA FitsCovers ==
    ASSUME TypeOK, Listed = AWs, NEW aw \in AWs, NEW fit, NEW shown,
           Fits(aw, fit, shown)
    PROVE  /\ allocated \cup reported \subseteq allocated' \cup reported' \cup shown
           /\ fit => aw \in allocated'
           /\ ~fit => shown = {}
<1>1. CASE mode = Maintenance /\ phase = "up"
  BY <1>1 DEF Fits, backend
<1>2. CASE ~(mode = Maintenance /\ phase = "up")
  <2>1. PICK K \in SUBSET AWs :
          /\ IF resplanChanged
             THEN RefreshForest(K)
             ELSE K = allocated /\ UNCHANGED <<bquota, resplanChanged, reported>>
          /\ IF DesignationMissing(aw)
             THEN /\ fit = FALSE /\ shown = {}
                  /\ registered' = registered /\ allocated' = K
             ELSE /\ registered' = registered \cup {aw}
                  /\ \E o \in AllocOutcomes(K, aw, bquota') :
                       /\ allocated' = IF o.allocated
                                       THEN (K \ o.preempted) \cup {aw} ELSE K
                       /\ fit = o.allocated
                       /\ shown = getAppWrappers(o.preempted)
    BY <1>2 DEF Fits
  <2>2. allocated \cup reported \subseteq K \cup reported'
    <3>1. CASE resplanChanged
      BY <2>1, <3>1 DEF RefreshForest
    <3>2. CASE ~resplanChanged
      BY <2>1, <3>2
    <3>. QED
      BY <3>1, <3>2
  <2>3. CASE DesignationMissing(aw)
    BY <2>1, <2>2, <2>3
  <2>4. CASE ~DesignationMissing(aw)
    <3>1. PICK o \in AllocOutcomes(K, aw, bquota') :
            /\ allocated' = IF o.allocated THEN (K \ o.preempted) \cup {aw} ELSE K
            /\ fit = o.allocated
            /\ shown = getAppWrappers(o.preempted)
      BY <2>1, <2>4
    <3>2. o.preempted \subseteq K
      BY OutcomeType
    <3>3. shown = o.preempted
      BY <2>1, <3>1, <3>2 DEF getAppWrappers
    <3>4. CASE o.allocated
      BY <2>2, <3>1, <3>3, <3>4
    <3>5. CASE ~o.allocated
      <4>1. o = [allocated |-> FALSE, preempted |-> {}]
        BY <3>5 DEF AllocOutcomes
      <4>. QED
        BY <2>2, <3>1, <3>3, <3>5, <4>1
    <3>. QED
      BY <3>4, <3>5
  <2>. QED
    BY <2>3, <2>4
<1>. QED
  BY <1>1, <1>2
\* A dispatch evicts every victim Fits shows, so each running job is still
\* allocated, reported, or named in the error NewQuotaManager returned.
LEMMA DispatchNoRestartInv ==
    ASSUME NoRestartInv, Listed = AWs, NEW aw \in AWs, Dispatch(aw)
    PROVE  NoRestartInv'
<1>1. IInv'
  BY DispatchIInv DEF NoRestartInv
<1>2. PICK fit \in BOOLEAN, shown \in SUBSET AWs :
        /\ Fits(aw, fit, shown)
        /\ running' = IF fit THEN (running \ shown) \cup {aw} ELSE running
  BY DEF Dispatch
<1>3. /\ phase = "up" /\ phase' = "up"
      /\ UNCHANGED <<pending, initErr, restarts>>
  BY DEF Dispatch
<1>4. /\ allocated \cup reported \subseteq allocated' \cup reported' \cup shown
      /\ fit => aw \in allocated'
      /\ ~fit => shown = {}
  BY <1>2, FitsCovers DEF NoRestartInv, IInv
<1>5. running \subseteq allocated \cup initErr \cup reported
  BY <1>3 DEF NoRestartInv, RunningHoldQuota
<1>6. running' \subseteq allocated' \cup initErr' \cup reported'
  BY <1>2, <1>3, <1>4, <1>5
<1>. QED
  BY <1>1, <1>3, <1>6 DEF NoRestartInv, RunningHoldQuota

\* Before the QuotaManager is up nothing runs, so the replay re-admits
\* nothing; a release forgets the job everywhere; the other steps leave the
\* running jobs and their allocations alone, and no crash is possible.
LEMMA OtherStepsNoRestartInv ==
    ASSUME NoRestartInv, MaxRestarts = 0,
           \/ NewQuotaManager
           \/ \E aw \in AWs : loadDispatchedAWs(aw)
           \/ FinishInit
           \/ \E aw \in AWs : Release(aw)
           \/ \E q \in QuotaPlans : ChangePlan(q)
           \/ \E m \in Modes : SetMode(m)
           \/ Crash
           \/ UNCHANGED vars
    PROVE  NoRestartInv'
<1>1. CASE NewQuotaManager
  BY <1>1, OtherStepsIInv DEF NewQuotaManager, NoRestartInv, RunningHoldQuota
<1>2. CASE \E aw \in AWs : loadDispatchedAWs(aw)
  BY <1>2, ReplayIInv DEF loadDispatchedAWs, NoRestartInv, RunningHoldQuota
<1>3. CASE FinishInit
  BY <1>3, OtherStepsIInv DEF FinishInit, NoRestartInv, RunningHoldQuota
<1>4. CASE \E aw \in AWs : Release(aw)
  BY <1>4, OtherStepsIInv DEF Release, NoRestartInv, RunningHoldQuota
<1>5. CASE \E q \in QuotaPlans : ChangePlan(q)
  BY <1>5, OtherStepsIInv DEF ChangePlan, NoRestartInv, RunningHoldQuota
<1>6. CASE \E m \in Modes : SetMode(m)
  BY <1>6, OtherStepsIInv DEF SetMode, NoRestartInv, RunningHoldQuota
<1>7. CASE Crash
  BY <1>7 DEF Crash, NoRestartInv
<1>8. CASE UNCHANGED vars
  BY <1>8, OtherStepsIInv DEF vars, NoRestartInv, RunningHoldQuota
<1>. QED
  BY <1>1, <1>2, <1>3, <1>4, <1>5, <1>6, <1>7, <1>8

\* NoRestartInv is inductive without restarts and with every victim resolved.
LEMMA NextNoRestartInv ==
    ASSUME MaxRestarts = 0, Listed = AWs
    PROVE  NoRestartInv /\ [Next]_vars => NoRestartInv'
<1> SUFFICES ASSUME NoRestartInv, [Next]_vars PROVE NoRestartInv'
  OBVIOUS
<1>1. CASE \E aw \in AWs : Dispatch(aw)
  BY <1>1, DispatchNoRestartInv
<1>2. CASE ~(\E aw \in AWs : Dispatch(aw))
  BY <1>2, OtherStepsNoRestartInv DEF Next
<1>. QED
  BY <1>1, <1>2

\* Until the controller restarts, every running job holds quota or was
\* reported, whatever plans are realised and whether preemption is on:
\* a forest refresh in Fits reports every consumer it unallocates, and the
\* dispatch loop evicts every victim Fits names.  A restart breaks it
\* through the replay error (the run quota_replay_error); an unresolved
\* victim (the mutant getAppWrappersNone) breaks it without one.
THEOREM RunningHoldQuotaNoRestart ==
    ASSUME MaxRestarts = 0, Listed = AWs
    PROVE  Spec => []RunningHoldQuota
<1>1. Init => NoRestartInv
  BY InitIInv DEF Init, NoRestartInv, RunningHoldQuota
<1>2. NoRestartInv /\ [Next]_vars => NoRestartInv'
  BY NextNoRestartInv
<1>3. NoRestartInv => RunningHoldQuota
  BY DEF NoRestartInv
<1>. QED
  BY <1>1, <1>2, <1>3, PTL DEF Spec
-----------------------------------------------------------------------------
(* No step withdraws quota silently.                                        *)

\* A stopped QuotaManager holds no allocation: the backend lives in the
\* controller's memory and a crash loses it.
DownInv ==
    /\ IInv
    /\ phase = "down" => allocated = {}

LEMMA InitDownInv == Init => DownInv
BY InitIInv DEF Init, DownInv

LEMMA NextDownInv == DownInv /\ [Next]_vars => DownInv'
<1> SUFFICES ASSUME DownInv, [Next]_vars PROVE DownInv'
  OBVIOUS
<1>1. IInv'
  BY NextIInv DEF DownInv
<1>2. CASE \E aw \in AWs : loadDispatchedAWs(aw) \/ Dispatch(aw)
  BY <1>1, <1>2 DEF loadDispatchedAWs, Dispatch, DownInv
<1>3. CASE ~(\E aw \in AWs : loadDispatchedAWs(aw) \/ Dispatch(aw))
  BY <1>1, <1>3 DEF Next, DownInv, NewQuotaManager, FinishInit, Release,
                    ChangePlan, SetMode, Crash, vars
<1>. QED
  BY <1>2, <1>3

\* The step formula of QuotaWithdrawnOpenly.
Withdrawn ==
    \A x \in allocated \ allocated' :
        \/ x \notin running'
        \/ x \in reported' \cup initErr'
        \/ phase' = "down"

\* Each step of the QuotaManager satisfies it when every victim resolves.
LEMMA StepWithdrawn ==
    ASSUME DownInv, Listed = AWs, [Next]_vars
    PROVE  Withdrawn
<1>1. CASE \E aw \in AWs : loadDispatchedAWs(aw)
  <2>1. PICK aw \in AWs : loadDispatchedAWs(aw)
    BY <1>1
  <2>2. CASE aw \in running
    <3>1. PICK fit \in BOOLEAN, shown \in SUBSET AWs :
            Fits(aw, fit, shown) /\ initErr' = ReplayErr(initErr, aw, fit, shown)
      BY <2>1, <2>2 DEF loadDispatchedAWs, getDispatchedAppWrapper
    <3>2. allocated \cup reported \subseteq allocated' \cup reported' \cup shown
      BY <3>1, FitsCovers DEF DownInv, IInv
    <3>3. shown \subseteq initErr'
      BY <3>1 DEF ReplayErr
    <3>. QED
      BY <3>2, <3>3 DEF Withdrawn
  <2>3. CASE aw \notin running
    BY <2>1, <2>3 DEF loadDispatchedAWs, getDispatchedAppWrapper, backend, Withdrawn
  <2>. QED
    BY <2>2, <2>3
<1>2. CASE \E aw \in AWs : Dispatch(aw)
  <2>1. PICK aw \in AWs : Dispatch(aw)
    BY <1>2
  <2>2. PICK fit \in BOOLEAN, shown \in SUBSET AWs :
          /\ Fits(aw, fit, shown)
          /\ running' = IF fit THEN (running \ shown) \cup {aw} ELSE running
    BY <2>1 DEF Dispatch
  <2>3. /\ allocated \cup reported \subseteq allocated' \cup reported' \cup shown
        /\ ~fit => shown = {}
    BY <2>2, FitsCovers DEF DownInv, IInv
  <2>4. aw \notin allocated
    BY <2>1 DEF Dispatch, DownInv, IInv, NoQuotaLeak
  <2>. QED
    BY <2>2, <2>3, <2>4 DEF Withdrawn
<1>3. CASE \E aw \in AWs : Release(aw)
  BY <1>3 DEF Release, Withdrawn
<1>4. CASE NewQuotaManager
  BY <1>4 DEF NewQuotaManager, DownInv, Withdrawn
<1>5. CASE Crash
  BY <1>5 DEF Crash, Withdrawn
<1>6. CASE FinishInit \/ (\E q \in QuotaPlans : ChangePlan(q))
           \/ (\E m \in Modes : SetMode(m)) \/ UNCHANGED vars
  BY <1>6 DEF FinishInit, ChangePlan, SetMode, vars, Withdrawn
<1>. QED
  BY <1>1, <1>2, <1>3, <1>4, <1>5, <1>6 DEF Next

\* Whatever the plans, the restarts and the preemption setting, no step
\* of the QuotaManager and its dispatch loop takes quota from a job that
\* keeps running without naming it, as reported by a refresh or in the
\* replay error, unless the step is a crash; it needs every preempted id
\* to resolve in the lister (the mutant getAppWrappersNone breaks it).
THEOREM QuotaWithdrawnOpenlyHolds ==
    ASSUME Listed = AWs
    PROVE  Spec => QuotaWithdrawnOpenly
<1>1. Spec => []DownInv
  BY InitDownInv, NextDownInv, PTL DEF Spec
<1>2. DownInv /\ [Next]_vars => [Withdrawn]_vars
  BY StepWithdrawn
<1>. QED
  BY <1>1, <1>2, PTL DEF Spec, QuotaWithdrawnOpenly, Withdrawn
==============================================================================
