----------------------------- MODULE QuotaManager -----------------------------
(***************************************************************************)
(* The quota admission facade of the dispatcher (package quotamanager,     *)
(* type QuotaManager) together with the two parties it talks to:          *)
(*                                                                         *)
(*  - the quota-forest backend (qmbackend.Manager, an external library),  *)
(*    abstracted to the consumers registered with it, the consumers it    *)
(*    has allocated, its mode and the quota of the plan it has realised;  *)
(*    it is given the contract it promises: an allocation never takes     *)
(*    the allocated demand above the quota, it allocates when there is    *)
(*    room, and otherwise preempts lower-priority preemptable consumers   *)
(*    or refuses;                                                         *)
(*  - the dispatch loop that calls it: Fits before it runs a job, then it *)
(*    evicts the victims Fits names and runs the job; Release when a job  *)
(*    ends.  The set of running jobs (AppWrappers with Status.CanRun) is  *)
(*    kept in the API server and survives a restart of the controller.    *)
(*                                                                         *)
(* A restart builds a fresh backend and replays every dispatched job       *)
(* through Fits (NewQuotaManager, loadDispatchedAWs), one job per step in  *)
(* an order chosen freely, as Go's map iteration does.  Demands are one   *)
(* scalar per job (the per-tree, per-resource-type vectors collapse to    *)
(* one quantity: the conversions are modelled in QuotaDemand), and all    *)
(* jobs share one quota tree.                                             *)
(***************************************************************************)
EXTENDS Integers, FiniteSets

CONSTANTS
    AWs,               \* AppWrapper ids (namespace/name)
    Demand,            \* Demand[aw]: the job's converted quota demand
    MaxDemand,         \* bound on one job's demand
    Priority,          \* Priority[aw]: aw.Spec.Priority
    Trees,             \* the tree names of the forest (GetTreeNames)
    Labels,            \* Labels[aw]: the label keys of aw that name trees
    QuotaPlans,        \* the quotas a ResourcePlan may set
    PreemptionEnabled, \* serverOptions.Preemption
    Listed,            \* the ids the AppWrapper lister resolves
    MaxRestarts        \* bound on the number of controller restarts

ASSUME DemandAssumption == Demand \in [AWs -> 1..MaxDemand]
ASSUME MaxDemandAssumption == MaxDemand \in Nat
ASSUME PriorityAssumption == Priority \in [AWs -> Int]
ASSUME LabelsAssumption == Labels \in [AWs -> SUBSET Trees]
ASSUME QuotaPlansAssumption == QuotaPlans \subseteq Nat /\ QuotaPlans # {}
ASSUME PreemptionAssumption == PreemptionEnabled \in BOOLEAN
ASSUME ListedAssumption == Listed \subseteq AWs
ASSUME MaxRestartsAssumption == MaxRestarts \in Nat

\* Backend modes (qmbackend.Normal, qmbackend.Maintenance).
Normal == "Normal"
Maintenance == "Maintenance"
Modes == {Normal, Maintenance}

\* Life of the controller process: not started (or crashed), replaying
\* dispatched jobs inside NewQuotaManager, or initialised.
Phases == {"down", "init", "up"}

VARIABLES
    phase,          \* "up" iff qm.initializationDone
    pending,        \* keys of dispatchedAWDemands not yet replayed
    initErr,        \* the jobs named in the error loadDispatchedAWs builds
    reported,       \* jobs a forest refresh reported as left unallocated
    mode,           \* the backend's mode
    bquota,         \* the quota of the plan realised in the backend
    plan,           \* the quota of the ResourcePlan in the cache
    resplanChanged, \* resourcePlanManager.IsResplanChanged()
    registered,     \* consumers added to the backend (AddConsumer)
    allocated,      \* consumers the backend has allocated
    running,        \* jobs with Status.CanRun, kept by the API server
    restarts        \* number of restarts so far

backend == <<mode, bquota, resplanChanged, registered, allocated, reported>>
vars == <<phase, pending, initErr, reported, mode, bquota, plan,
          resplanChanged, registered, allocated, running, restarts>>

-----------------------------------------------------------------------------
(* The backend's quota accounting.  The demand of a set of consumers is   *)
(* counted as the number of its unit slots, which needs no recursion.      *)

DemandSlots(S) == {p \in S \X (1..MaxDemand) : p[2] <= Demand[p[1]]}
DemandSum(S) == Cardinality(DemandSlots(S))
FitsIn(S, q) == DemandSum(S) <= q

\* UpdateForest: the consumers kept allocated when the forest is rebuilt
\* with quota q, a maximal subset of the allocated ones that fits; the
\* rest are returned as unallocated consumers.
Kept(alloc, q) ==
    {K \in SUBSET alloc :
        /\ FitsIn(K, q)
        /\ \A x \in alloc \ K : ~FitsIn(K \cup {x}, q)}

\* AllocateForest for consumer c: the decision and the preempted ids.
\* Room left: allocate.  No room: preempt a minimal set of lower-priority
\* consumers (only when preemption is enabled, since every consumer is
\* registered UnPreemptable = !preemptionEnabled), or refuse.
\* Mutant: UnPreemptable set to preemptionEnabled, the negation of line
\* 463 dropped.
PreemptibleInverted(alloc, c) ==
    IF ~PreemptionEnabled THEN {x \in alloc : Priority[x] < Priority[c]} ELSE {}
Preemptible(alloc, c) ==
    IF PreemptionEnabled THEN {x \in alloc : Priority[x] < Priority[c]} ELSE {}
VictimSets(alloc, c, q) ==
    {V \in SUBSET Preemptible(alloc, c) :
        /\ V # {}
        /\ FitsIn((alloc \ V) \cup {c}, q)
        /\ \A x \in V : ~FitsIn((alloc \ (V \ {x})) \cup {c}, q)}
AllocOutcomes(alloc, c, q) ==
    IF FitsIn(alloc \cup {c}, q)
    THEN {[allocated |-> TRUE, preempted |-> {}]}
    ELSE IF VictimSets(alloc, c, q) # {}
         THEN {[allocated |-> TRUE, preempted |-> V] : V \in VictimSets(alloc, c, q)}
         ELSE {[allocated |-> FALSE, preempted |-> {}]}

-----------------------------------------------------------------------------
(* The QuotaManager's own logic.                                           *)

\* getDispatchedAppWrapper: a key names a job to replay only if CanRun.
getDispatchedAppWrapper(aw) == aw \in running

\* getQuotaDesignation fails when some tree has no label on the job.
DesignationMissing(aw) == ~(Trees \subseteq Labels[aw])

\* Mutant: the preempted ids are dropped instead of resolved.
getAppWrappersNone(ids) == {}

\* getAppWrappers: preempted ids that parse and that the lister resolves.
getAppWrappers(ids) == ids \cap Listed

\* updateForestFromCache after LoadResourcePlansIntoBackend, as Fits does
\* it when the plan changed: the backend realises the cached plan and
\* reports the consumers it could not keep allocated.
RefreshForest(K) ==
    /\ K \in Kept(allocated, plan)
    /\ bquota' = plan
    /\ resplanChanged' = FALSE
    /\ reported' = reported \cup (allocated \ K)

\* Fits(aw) with result fit and the resolved victims shown.  The gate on
\* maintenance mode applies only once initializationDone is set.
Fits(aw, fit, shown) ==
    \/ /\ mode = Maintenance /\ phase = "up"
       /\ fit = FALSE /\ shown = {}
       /\ UNCHANGED backend
    \/ /\ ~(mode = Maintenance /\ phase = "up")
       /\ \E K \in SUBSET AWs :
            /\ IF resplanChanged
               THEN RefreshForest(K)
               ELSE K = allocated /\ UNCHANGED <<bquota, resplanChanged, reported>>
            /\ IF DesignationMissing(aw)
               THEN /\ fit = FALSE /\ shown = {}
                    /\ registered' = registered /\ allocated' = K
               ELSE /\ registered' = registered \cup {aw}
                    /\ \E o \in AllocOutcomes(K, aw, bquota') :
                         /\ allocated' = IF o.allocated
                                         THEN (K \ o.preempted) \cup {aw} ELSE K
                         /\ fit = o.allocated
                         /\ shown = getAppWrappers(o.preempted)
       /\ UNCHANGED mode

-----------------------------------------------------------------------------
(* Operations.                                                             *)

Init ==
    /\ phase = "down"
    /\ pending = {} /\ initErr = {} /\ reported = {}
    /\ mode = Normal
    /\ plan \in QuotaPlans /\ bquota = plan /\ resplanChanged = FALSE
    /\ registered = {} /\ allocated = {}
    /\ running = {}
    /\ restarts = 0

\* NewQuotaManager up to the replay: a fresh backend with the forest
\* added, a resource-plan manager whose plan updateForestFromCache realises
\* (no consumers yet, so nothing is reported), and the keys of
\* dispatchedAWDemands the caller passes, among them every running job.
NewQuotaManager ==
    /\ phase = "down"
    /\ phase' = "init"
    /\ \E m \in Modes : mode' = m
    /\ bquota' = plan /\ resplanChanged' = FALSE
    /\ registered' = {} /\ allocated' = {}
    /\ \E D \in SUBSET AWs : running \subseteq D /\ pending' = D
    /\ initErr' = {} /\ reported' = {}
    /\ UNCHANGED <<plan, running, restarts>>

\* The error loadDispatchedAWs holds after replaying aw: a failed fit
\* replaces it by a fresh error naming aw alone; an invalid preemption
\* wraps it and names aw and the victims.
ReplayErr(e, aw, fit, shown) ==
    LET e1 == IF fit THEN e ELSE {aw}
    IN  IF shown # {} THEN e1 \cup {aw} \cup shown ELSE e1

\* One iteration of the replay loop of loadDispatchedAWs.
loadDispatchedAWs(aw) ==
    /\ phase = "init" /\ aw \in pending
    /\ pending' = pending \ {aw}
    /\ IF getDispatchedAppWrapper(aw)
       THEN \E fit \in BOOLEAN, shown \in SUBSET AWs :
              /\ Fits(aw, fit, shown)
              /\ initErr' = ReplayErr(initErr, aw, fit, shown)
       ELSE UNCHANGED <<backend, initErr>>
    /\ UNCHANGED <<phase, plan, running, restarts>>

\* The rest of NewQuotaManager once the loop is done: mode Normal and
\* initializationDone; the combined error is initErr.
FinishInit ==
    /\ phase = "init" /\ pending = {}
    /\ phase' = "up" /\ mode' = Normal
    /\ UNCHANGED <<pending, initErr, reported, bquota, plan, resplanChanged,
                   registered, allocated, running, restarts>>

\* The dispatch loop asks Fits for a job that is not running; on a fit it
\* evicts the victims Fits returned and runs the job.
Dispatch(aw) ==
    /\ phase = "up" /\ aw \notin running
    /\ \E fit \in BOOLEAN, shown \in SUBSET AWs :
         /\ Fits(aw, fit, shown)
         /\ running' = IF fit THEN (running \ shown) \cup {aw} ELSE running
    /\ UNCHANGED <<phase, pending, initErr, plan, restarts>>

\* Mutant: Release removes the consumer but never deallocates it.
ReleaseNoDeallocate(aw) ==
    /\ phase = "up" /\ aw \in running
    /\ running' = running \ {aw}
    /\ registered' = registered \ {aw}
    /\ UNCHANGED <<phase, pending, initErr, reported, mode, bquota, plan,
                   resplanChanged, allocated, restarts>>

\* A running job ends and the dispatch loop calls Release: DeAllocateForest,
\* then RemoveConsumer, both on the backend, whatever the first returned.
Release(aw) ==
    /\ phase = "up" /\ aw \in running
    /\ running' = running \ {aw}
    /\ allocated' = allocated \ {aw}
    /\ registered' = registered \ {aw}
    /\ UNCHANGED <<phase, pending, initErr, reported, mode, bquota, plan,
                   resplanChanged, restarts>>

\* A ResourcePlan is edited; the informer marks the plan changed.
ChangePlan(q) ==
    /\ q # plan
    /\ plan' = q /\ resplanChanged' = TRUE
    /\ UNCHANGED <<phase, pending, initErr, reported, mode, bquota,
                   registered, allocated, running, restarts>>

\* The backend enters or leaves maintenance mode on its own.
SetMode(m) ==
    /\ phase # "down" /\ m # mode
    /\ mode' = m
    /\ UNCHANGED <<phase, pending, initErr, reported, bquota, plan,
                   resplanChanged, registered, allocated, running, restarts>>

\* The controller process dies: the backend lives in its memory and is
\* lost; the jobs' CanRun status and the plans persist.
Crash ==
    /\ phase # "down" /\ restarts < MaxRestarts
    /\ phase' = "down" /\ restarts' = restarts + 1
    /\ registered' = {} /\ allocated' = {}
    /\ pending' = {} /\ initErr' = {} /\ reported' = {}
    /\ UNCHANGED <<mode, bquota, plan, resplanChanged, running>>

Next ==
    \/ NewQuotaManager
    \/ \E aw \in AWs : loadDispatchedAWs(aw)
    \/ FinishInit
    \/ \E aw \in AWs : Dispatch(aw) \/ Release(aw)
    \/ \E q \in QuotaPlans : ChangePlan(q)
    \/ \E m \in Modes : SetMode(m)
    \/ Crash

Spec == Init /\ [][Next]_vars

-----------------------------------------------------------------------------
(* Properties.                                                             *)

TypeOK ==
    /\ phase \in Phases
    /\ pending \subseteq AWs /\ initErr \subseteq AWs /\ reported \subseteq AWs
    /\ mode \in Modes
    /\ bquota \in QuotaPlans /\ plan \in QuotaPlans
    /\ resplanChanged \in BOOLEAN
    /\ registered \subseteq AWs /\ allocated \subseteq AWs /\ running \subseteq AWs
    /\ restarts \in 0..MaxRestarts

\* Quota is never held for a job that is not running: Release frees the
\* allocation of a job that ends, the replay after a restart allocates
\* only jobs whose CanRun is set, and victims lose theirs in the backend.
NoQuotaLeak == allocated \subseteq running

\* Once NewQuotaManager has returned, every running job either holds an
\* allocation in the backend or the QuotaManager said it does not: it is
\* named in the error NewQuotaManager returned, or a forest refresh
\* reported it unallocated.  The replay must surface every job it failed
\* to re-admit; Fits must hand every victim back to the dispatch loop.
RunningHoldQuota == phase = "up" => running \subseteq allocated \cup initErr \cup reported

\* No step takes quota from a job that keeps running unless the
\* QuotaManager names it: a refresh in Fits reports every consumer it
\* unallocates, the replay names the victims of a preemption in its error,
\* the dispatch loop stops every victim Fits returns, and Release ends the
\* job.  Only a crash, which loses the backend with the process, is exempt.
QuotaWithdrawnOpenly ==
    [][\A x \in allocated \ allocated' :
          \/ x \notin running'
          \/ x \in reported' \cup initErr'
          \/ phase' = "down"]_vars

\* The abstract promise of admission, with the backend's allocated
\* consumers as the holders and the realised plan as the quota.
QA == INSTANCE QuotaAdmission WITH holders <- allocated, quota <- bquota

\* The QuotaManager with its caller implements QuotaAdmission: every Fits
\* (maintenance gate, refresh, designation check, allocation), every
\* replayed job, Release, a restart and a fresh NewQuotaManager change the
\* jobs holding quota only as the abstract specification allows.
QuotaAdmissionSpec == QA!Spec
==============================================================================
