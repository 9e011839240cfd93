# TLA+ models of the dispatcher's resource accounting and quota admission

This directory holds TLA+ specifications of two parts of the repository:
- the per-node resource ledger, `src/pkg/controller/clusterstate/api/node_info.go`;
- the quota admission facade `QuotaManager`, `src/unnamed/part_000`, package `quotamanager`.

It also holds TLC models that check them on small instances, and TLAPS proofs, for every instance, of the ledger's main invariant and of the QuotaManager's quota-leak freedom.

## The system and its parts

| Part | Source | Module | Status |
|---|---|---|---|
| ResourceVector (`Resource`: Add, Sub, EmptyResource) | outside `src/` | `NodeInfo` (Add, Sub, EmptyResource) | modelled from the spec |
| TaskRecord (`TaskInfo` as the ledger stores it) | node_info.go | `NodeInfo` | modelled |
| NodeLedger (`NodeInfo`) | node_info.go | `NodeInfo`; abstract `NodeLedger`; proofs in `NodeInfoProofs`, `NodeInfoPoolProofs`, `NodeInfoRefinementProofs` | modelled |
| QuotaManager | part_000 | `QuotaManager`, `QuotaManagerProofs` | partly: a job's demand is one scalar |
| Request building (designation, demand conversions) | part_000 | `QuotaDemand`, `QuotaDemandProofs` | modelled |
| QuotaForest backend (`qmbackend.Manager`) | external library | `QuotaManager`, `QuotaAdmission` | its contract, from the spec; `QuotaAdmission` states what admission promises |
| ResourcePlanSource (`resplanmgr`) | external | `QuotaManager` | plan quota and "changed" flag |
| Dispatch loop (caller of Fits/Release) | outside `src/` | `QuotaManager` | from the spec |
| Deployment values (`values.yaml`) | values.yaml | none | static configuration |

How the parts interact:
- The scheduling loop places tasks on node ledgers.
- Before it dispatches a job that is subject to quota, it asks `QuotaManager.Fits`. Fits turns the job into a consumer request, registers it with the backend and asks the backend to allocate it. The answer is a fit decision and a list of victims to preempt.
- When a job ends, the loop calls `Release`.
- After a controller restart, `NewQuotaManager` builds a fresh backend. It then replays every dispatched job through `Fits` (`loadDispatchedAWs`).

## NodeInfo: the node ledger

**State.** The variables are the fields of `NodeInfo` that take part in accounting:
- `node` is `NoNode` (nil) or the bound node's allocatable vector.
- `releasing`, `idle`, `used` and `allocatable` are vectors over `Dims`.
- `tasks` is a function from the keys present to `[resreq, status]`. This is the ledger's private clone.
- `err` is the last operation's result: ok, DuplicateTask or TaskNotFound.

Labels, taints, capability and schedulability are copied by SetNode but never read by the accounting, so they are left out. The only status distinction the ledger makes is "Releasing or not", and a task's status is abstracted to exactly that.

**Actions.** There is one action per method. `Init` is `NewNodeInfo` (nil or not).
- `SetNode(n)` replays the stored tasks only when the ledger was unbound. The replay loop is written in closed form: the sums of the stored requests (`SumResreq`) are added to or subtracted from the pools.
- `PipelineTask` and `AddTask` fail on a duplicate key. Otherwise they store the task and, if bound, adjust Releasing, Idle and Used exactly as lines 151-158 and 176-186 do. PipelineTask never touches Idle.
- `RemoveTask` uses the stored task's status and request.
- `UpdateTask` is RemoveTask followed by AddTask, composed in one step, because the code runs both in one call.

**`Resource.Sub`.** It is not in this repository, and the spec leaves its underflow behaviour open (section 9). The constant `SubClamps` selects:
- clamp each negative dimension to 0 (TRUE), or
- keep the raw difference (FALSE).

**Sums without recursion.** `SumResreq(tk, S)[d]` is the cardinality of the set of "unit slots" `{<<t, i>> : t \in S, i \in 1..tk[t].resreq[d]}`. This keeps the module free of RECURSIVE, and lets the proofs use the FiniteSetTheorems facts about cardinality.

**Runs** (`MCNodeInfo`). The instance has:
- two dimensions (cpu, gpu) and three task ids, with symmetry over the ids (they are interchangeable);
- three request vectors;
- one or two node sizes;
- a constraint `MCPoolBound` that keeps Releasing and Idle in -4..4. It is needed because repeated pipeline/remove cycles drift Idle and Releasing without bound, and each of those states is distinct. The constraint cuts states off from the runs only; the NodeInfo theorems below hold for every state, the cut ones included.

| Run | Properties | Result | What it shows |
|---|---|---|---|
| nodeinfo_accounting | TypeOK, UsedMatchesTasks, ReleasingWithinUsed | pass, ~83,000 states | Used is always the sum of the stored requests, and Releasing ≤ Used, with every operation enabled, node updates included |
| nodeinfo_conservation | Conservation, NodeLedgerSpec | pass, 386 states | without pipelining and with a fixed node object, Idle+Used = Allocatable, and the ledger implements `NodeLedger`: its pools are always what Clone rebuilds by replaying the tasks |
| nodeinfo_pipeline_drift | IdleWithinAllocatable | violation | PipelineTask then UpdateTask: RemoveTask gives back Idle that PipelineTask never took |
| nodeinfo_node_update | Conservation | violation | SetNode on a bound ledger with a larger node replaces Allocatable but not Idle |
| nodeinfo_clamping_sub | Conservation | violation | with a clamping Sub on a node with one gpu, a first AddTask of one gpu leaves Idle 0 and Used 1; a second one clamps Idle at 0 while Used grows to 2, so Idle+Used exceeds Allocatable |

The three violations are findings: spec section 8 states `Idle + Used == Allocatable` after every call. The passing conservation run shows the invariant does hold when three conditions hold together:
- nothing is pipelined;
- the node object keeps its allocatable;
- Sub keeps negative differences.

## NodeLedger: what a node ledger promises

`NodeLedger` is the abstract specification of a node ledger, written from spec sections 3, 4.2, 7 and 8. It keeps no pool of its own accord:
- `node` and `tasks` are as in `NodeInfo`, and `pools` is the record `[releasing, idle, used, allocatable]`.
- After every step, `pools` is `Pools(node, tasks)`, the replay of the stored tasks from scratch. It is zero while unbound. Once bound, Releasing is the Releasing tasks' requests, Used is all the requests, Idle is the node less Used, and Allocatable is the node.
- `Bind`, `Store`, `Replace` and `Drop` are SetNode, a successful AddTask, a successful UpdateTask and a successful RemoveTask.
- `Refuse(t)` is a failed call. It sets the error and changes nothing else.

`NodeInfo` defines `NL == INSTANCE NodeLedger WITH pools <- [releasing |-> releasing, ...]`. The refinement mapping is the identity on `node`, `tasks` and `err`, and the record of the four pool variables for `pools`. `NodeLedgerSpec == NL!Spec` is checked as a PROPERTY on the conservation run.

Two points about the mapping:
- PipelineTask is not a NodeLedger step. It leaves Idle alone, so Idle stops being the replay. The refinement is therefore stated for `SpecNoPipeline`.
- The mutant `AddTaskNoDuplicateCheck` adjusts the pools on a duplicate key while keeping the one stored task. It keeps Conservation, because Idle and Used move together. `NodeLedgerSpec` catches it, because the pools are no longer the replay of the tasks.

## QuotaManager: admission, replay and release

**State.**
- The QuotaManager's own variables:
  - `phase` is `down`, `init` (inside NewQuotaManager) or `up` (`initializationDone`).
  - `pending` is the keys of `dispatchedAWDemands` not yet replayed.
  - `initErr` is the set of jobs named in the error loadDispatchedAWs is building.
- The backend: `registered` and `allocated` consumers, `mode`, and `bquota`, the quota of the realised plan.
- The resource-plan source: `plan` and `resplanChanged`.
- The caller: `running`, the jobs with CanRun set. It is kept in the API server and survives a crash.
- `reported` is the set of jobs a refresh logged as left unallocated.

A job's demand is one scalar, and all jobs share one quota tree. The designation check is kept as "some tree has no label on the job". For that, the tree set is a constant with two trees, and the instance's job a4 lacks one of the labels.

**The backend's contract**, from spec sections 3 and 6:
- It allocates a consumer when the demand fits in the quota.
- Otherwise it preempts a minimal set of lower-priority consumers, and only when preemption is enabled (every consumer is registered `UnPreemptable = !preemptionEnabled`).
- Otherwise it refuses.
- A refresh with a new plan keeps a maximal subset of the allocated consumers that fits and returns the rest as unallocated.
- It enters and leaves maintenance mode on its own.

**Actions.**
- `NewQuotaManager` covers lines 108-139: a fresh backend, the initial `updateForestFromCache`, and the caller's keys (a superset of the running jobs).
- `loadDispatchedAWs(aw)` is one loop iteration, in any order, as Go map iteration allows. It skips a job whose CanRun is not set. Otherwise it calls `Fits` and composes the error the way lines 181-199 do: a failed fit *replaces* the error, while an invalid preemption *wraps* it.
- `FinishInit` covers lines 150-160.
- `Fits(aw, fit, shown)` is an operator used by both the replay and `Dispatch`. It follows this order:
  1. the maintenance gate (only when `up`);
  2. the plan refresh when the plan changed;
  3. `buildRequest` failing on a missing designation;
  4. `AddConsumer`;
  5. `AllocateForest`;
  6. `getAppWrappers`, which keeps only the ids the lister resolves (`Listed`).
- `Dispatch(aw)`: the caller evicts the returned victims and runs the job if it fits.
- `Release(aw)`: DeAllocateForest and RemoveConsumer.
- `ChangePlan` is the informer step, `SetMode` is a backend mode change, and `Crash` is a controller restart, bounded by `MaxRestarts`.

**Properties.**
- `NoQuotaLeak`: the backend allocates only running jobs.
- `RunningHoldQuota`: once initialised, every running job holds quota, or the QuotaManager said otherwise. Saying otherwise means naming the job in the error NewQuotaManager returned, or a refresh reporting it unallocated. This is the contract of spec section 4.3: the replay surfaces every job it fails to re-admit, and Fits hands every victim back to the caller.
  What counts as a report follows the spec. Section 3 step 3 says a consumer left unallocated by a refresh is reported as a non-fatal diagnostic; the code's only such diagnostic is the log at line 227, so `reported` models it. The replay's report is the error NewQuotaManager returns (section 4.3 step 4). The log at line 190 is not counted on its own: it comes with the error that line 196 wraps, so when the error is intact it names the same victims. The log at line 596 is not a report either: Fits's contract is to hand every victim back to the caller, and a victim dropped there is lost to the dispatch loop whatever the log says.
- `QuotaWithdrawnOpenly`, an action property: no step takes quota from a job that keeps running unless the QuotaManager names it, or the step is a crash.
- `QuotaAdmissionSpec`: the model implements the abstract `QuotaAdmission` (next section), with `allocated` as the holders and `bquota` as the quota.

**Runs** (`MCQuotaManager`). The instance has:
- four jobs, where a3 needs twice the quota of a1 and has the top priority, and a4 is missing a tree label;
- either quota 2 fixed, or quotas that change between 1 and 3.

| Run | Properties | Result | What it shows |
|---|---|---|---|
| quota_restarts | NoQuotaLeak, RunningHoldQuota | pass | with a fixed plan, preemption enabled, maintenance mode and two restarts with replay, quota is held exactly by the running jobs |
| quota_plan_changes | QuotaAdmissionSpec | pass, ~2,900 states | with preemption disabled (the chart's default) and plans that grow and shrink while up, every step is a step of the abstract admission: a refresh may drop holders only to fit the new quota, and no allocation ever evicts a job |
| quota_withdrawn_openly | QuotaWithdrawnOpenly | pass, ~26,000 states | with preemption enabled, changing plans and a restart: no step takes quota from a running job without the refresh report or the replay error naming it (a crash excepted) |
| quota_replay_error | RunningHoldQuota | violation | a plan shrink, then a restart: during replay a2 preempts a1 (the error names both), then a3 no longer fits and its fresh error replaces the first, so a1 runs without quota and the returned error no longer names it; only the log line at 190 mentions the preemption |

The last run is a code bug: line 185 should wrap `err` the way line 196 does.

## QuotaAdmission: what admission promises

`QuotaAdmission` is the abstract specification of quota admission. It has two variables:
- `holders`, the jobs that hold quota;
- `quota`, the quota in force.

Its steps are:
- `Admit(c, V)`: admit `c` and evict victims `V`. Every victim must have strictly lower priority than `c`. Victims are allowed only when preemption is enabled. The result must fit the quota.
- `Requota(q, K)`: realise a new quota `q`, keeping a maximal fitting subset `K` of the holders (`Survivors`).
- `RequotaAdmit`: a new quota followed at once by an admission. This is one step because Fits refreshes and allocates in a single call.
- `Release(c)`: a job gives back its quota.
- `Reset(q)`: the backend is rebuilt empty.

The QuotaManager maps to it with `holders <- allocated` and `quota <- bquota` (`QA`, at the end of `QuotaManager.tla`). Each detailed step maps as follows:
- Fits without a plan change maps to `Admit`, or to a stutter when it refuses.
- Fits after a plan change maps to `Requota` or `RequotaAdmit`.
- `Release` maps to `Release`.
- `NewQuotaManager` and `Crash` map to `Reset`.
- Every other step (`ChangePlan`, `SetMode`, `FinishInit`, the caller's bookkeeping) maps to a stutter.

The property `QuotaAdmissionSpec == QA!Spec` is checked by TLC on the quota_plan_changes run, and proved (`Implementation`). It would break if:
- a refresh kept allocations that no longer fit;
- a preemption evicted a job of equal or higher priority;
- the backend evicted while preemption is off (the `!` of line 463).

## QuotaDemand: building the consumer request

`QuotaDemand` models the pure functions `Fits` uses to build a consumer:
- `getQuotaDesignation` and `isValidQuota`: the groups are the job's label keys that name trees. There is an error exactly when fewer groups than trees are found, and the missing trees appear in `GetTreeNames()` order (`missing`). The label values and the wording of the message are left out.
- `getQuotaTreeResourceTypesDemands`: a fold (`FoldLeft`) over the tree's type names. For each name, the cpu, memory and gpu tests run in the code's order (`DemandStep`, `MatchKeyword`). Each test sets the demand, counts one processed entry and records an overflow error. A type name is abstracted to the set of keywords its lower-cased name contains (`TypeKeywords`).
- `convertFloat64Demand` and `convertInt64Demand`, with the number widths as parameters:
  - `ToFloat(n)` rounds to `FloatPrecision` significant bits, ties to even. This is what `float64(MaxInt)` does.
  - `GoInt` is Go's out-of-range float-to-int conversion. It depends on the platform: MinInt on amd64, saturation on arm (`SaturatingConversion`).

The state machine is a client that makes one call per step, on every input of the instance. `call` holds the arguments and `result` the return value.

**Properties.**
- `DesignationNamesMissing`: the designation fails exactly when a tree is missing, and names exactly those trees (spec section 8's example).
- `DemandClamped`: every type that names one keyword receives min(demand, MaxInt) (spec section 4.3).
- `MismatchReported`: the mismatch is reported exactly when some type matches no keyword.

**Runs** (`MCQuotaDemand`). The instance has:
- a 6-bit int and a 3-bit significand, so `float64(MaxInt) = float64(31) = 32 = 2^(IntWidth-1)`, the same relation as 2^63-1 and 2^63 with 53 bits. No real platform pairs these widths: the instance is int64 and float64 scaled down, keeping the one relation the rounding edge depends on, an int wider than the float's significand (64 > 53, here 6 > 3);
- float demands 0, 1, 8 (9 rounded), 28, 32 and 40;
- GPU counts up to 127;
- two trees plus a non-tree label key.

| Run | Properties | Result | What it shows |
|---|---|---|---|
| quota_designation_demands | TypeOK, DesignationNamesMissing, DemandClamped | pass | with int narrower than int64 and a saturating conversion, every demand is clamped correctly and every designation error is exact |
| demand_overflow_x86 | DemandClamped | violation | with int = int64 and amd64's conversion, a cpu demand of exactly float64(MaxInt) passes the `>` check and is submitted as MinInt |
| type_double_count | MismatchReported | violation | "memory-per-cpu" counts twice, which hides the unmatched "ephemeral-storage" from the count check at line 431 |

Both violations are findings: the spec says such a demand is clamped, and that an unmatched type is reported.

## Bounds

| Instance | Bounds | Why they are enough |
|---|---|---|
| NodeInfo | three task ids, requests up to 2, two dimensions | gives duplicate keys, both statuses, overcommit of both dimensions, and a node update that changes allocatable |
| QuotaDemand | 6-bit int, 3-bit significand, demands to 40 | reaches a value that rounds, the exact rounding edge float64(MaxInt), values above it, and int64 values above MaxInt |
| QuotaManager | four jobs, two restarts | gives a refused job, a preempting job, a job with a missing label, a refresh that unallocates, and a restart whose replay meets each of these cases |

## Fairness

No fairness is assumed, and the project states no liveness property. The replay in `loadDispatchedAWs` is a `for ... range` over a finite map: it visits every key once and no error stops it, so it ends by the shape of the code, and a property saying so would check nothing the loop could get wrong. `Dispatch`, `Release`, `ChangePlan` and `SetMode` are driven by the scheduling loop and by users, and the code gives no guarantee that a job is ever admitted.

## Proofs (checked by tlapm)

### `NodeInfoProofs`

The proved theorems:
- `TypeCorrect == Spec => []TypeOK`
- `UsedMatchesTasksInvariant == Spec => []UsedMatchesTasks`

These hold for every finite set of dimensions and task ids, every bound on requests, every set of request and node vectors, and either Sub semantics. The assumptions used are the module's named ASSUMEs: finiteness of the sets, requests in `[Dims -> 0..MaxReq]`, and node sizes in `[Dims -> Nat]`.

Neither property is inductive on its own. The inductive invariant is `IInv == TypeOK /\ UsedMatchesTasks /\ UnboundUsedEmpty`, where `UnboundUsedEmpty` says an unbound ledger's Used is zero. SetNode's first bind *adds* the stored requests to Used, so Used must be zero beforehand. `IInv` holds under the TLC runs too.

The argument rests on lemmas about `SumResreq`:
- it is a vector of naturals;
- it depends only on the tasks summed;
- it is empty over no tasks;
- storing under a new key adds the request;
- deleting a key removes it.

These are proved from the cardinality of a disjoint union of finite sets (`FS_Union`, `FS_Product`, `FS_Interval`). There is one lemma per action, and `NextIInv` combines them.

### `NodeInfoPoolProofs`

The proved theorems:
- `ReleasingWithinUsedInvariant == Spec => []ReleasingWithinUsed`. It holds for every instance, with either Sub semantics and with pipelining allowed.
- `ConservationInvariant`: `SpecNoPipeline => []Conservation`. It has two hypotheses: `~SubClamps`, and `NodeAllocs = {a}` (a single node object).
  - `SpecNoPipeline`, defined in `NodeInfo`, is `Spec` without the PipelineTask action. It is the caller discipline of the conservation claim.
  - Each hypothesis is needed, and a violation run shows it:
    - pipelining breaks conservation (nodeinfo_pipeline_drift);
    - a clamping Sub breaks it (nodeinfo_clamping_sub);
    - a node object whose allocatable changes breaks it (nodeinfo_node_update).

Neither `ReleasingWithinUsed` nor `Conservation` is inductive alone.
- For Releasing, the strengthening is `RInv == IInv /\ UnboundPoolsEmpty /\ ReleasingWithinReleasingTasks`:
  - `UnboundPoolsEmpty`: an unbound ledger's Releasing and Idle are zero, because SetNode's first bind adds to them.
  - `ReleasingWithinReleasingTasks`: Releasing is at most the summed requests of the stored Releasing tasks.
  - The bound holds with "at most" rather than "equals" for two reasons. PipelineTask subtracts its request from Releasing for every status (line 152), where AddTask adds it for Releasing tasks only; a subtraction can only lower Releasing below the bound. A clamping Sub can only lower a pool. With `Used = SumResreq(all tasks)` (from `IInv`), the bound gives `ReleasingWithinUsed`.
- For conservation, the strengthening is `CInv == IInv /\ UnboundPoolsEmpty /\ PoolsMatchTasks`. `PoolsMatchTasks` says a bound ledger's pools equal their recomputation from the stored tasks:
  - Releasing is the Releasing tasks' sum;
  - Idle is the node minus all requests;
  - Allocatable is the node.
  Conservation is a consequence of it. `PoolsMatchTasks` is also what Clone relies on: Clone rebuilds a ledger by replaying the tasks through AddTask, and the refinement below (`NodeLedgerSpec`) states that the pools always equal that replay.
- The lemmas over `SumResreq` that the proofs need:
  - monotonicity;
  - the split into a task and the rest;
  - the frame of a task outside the sum.
- `SwapRequest` is a vector identity over `[Dims -> Int]`. `UpdateTaskCInv` needs it.

TLC checked `RInv` on MCNodeInfo.cfg with either Sub before it was proved, and `CInv` on the conservation configuration.

### `NodeInfoRefinementProofs`

The proved theorem:
- `NodeLedgerRefinement`: `SpecNoPipeline => NodeLedgerSpec`, under the same two hypotheses as conservation (`~SubClamps`, `NodeAllocs = {a}`).

How the proof goes:
- The invariant is `LInv == CInv /\ UnboundAllocEmpty`. `UnboundAllocEmpty` adds that an unbound ledger's Allocatable is the empty resource of `NewNodeInfo(nil)`; the abstract pools of an unbound ledger are all zero. `InitLInv` and `NextLInv` show that `LInv` is inductive; `CInv`'s part comes from `NextNoPipelineCInv`.
- `PoolsOf` says that pools matching the tasks the way `CInv` says (`PoolsMatch`) equal `NL!Pools`. It is stated for arbitrary values, so that it applies both to a state and to its successor. It rests on `LoadIsSum`, which says NodeLedger's `Load` is NodeInfo's `SumResreq`.
- `StepRefines` maps each step between two `LInv` states to an abstract step:
  - SetNode to `Bind`;
  - AddTask to `Store` or, on a duplicate, to `Refuse`;
  - UpdateTask to `Replace` or `Refuse`;
  - RemoveTask to `Drop` or `Refuse`;
  - a stutter to a stutter.
- `InitRefines` maps `Init` to `NL!Init`.
- The theorem combines `[]LInv`, the step lemma and the initial mapping by PTL.

TLC checked the refinement on the conservation run before it was proved.

### `QuotaDemandProofs`

The proved theorem:
- `DesignationFailsExactlyInvariant == Spec => []DesignationFailsExactly`. A designation call fails exactly when some tree of the forest has no label on the job, and the groups returned are the job's labels that name trees. This is the error-and-groups half of `DesignationNamesMissing`.

The argument:
- `DInv` says a designation call's result is `getQuotaDesignation` of its labels. It is inductive by itself.
- `DesignationExact` proves the claim for every set of labels.
  - The code counts: it fails when `len(groups) < len(qmTreeIDs)`.
  - `TreeCount` shows that the forest has `Len(TreeList)` trees. TreeList, as a function on `1..Len(TreeList)`, is a bijection onto its names (`TreeListAssumption`: names do not repeat), so `FS_Bijection` applies.
  - The groups are a subset of the trees. By `FS_Subset`, they are fewer exactly when they are not all of them.
- The only assumption used is `TreeListAssumption`: the tree names are a sequence without repeats. `GetTreeNames` lists a forest's trees, so this is justified. The `<=` mutant on the quota_designation_demands run breaks this half.

### `QuotaManagerProofs`

The proved theorem `NoQuotaLeakInvariant == Spec => []NoQuotaLeak` rests on the lemma `QuotaTypeCorrect == Spec => []TypeOK`, which `Implementation` also uses.

It holds for every set of jobs, demands, priorities, trees, label sets, plans and restart bound, with preemption enabled or not. The inductive invariant is `TypeOK /\ NoQuotaLeak`. The argument is:
- `FitsEffect`: a call of Fits, on every path (maintenance gate, refresh, missing designation, each allocation outcome), adds at most the job it was asked about. When the job is refused, Fits adds nothing. Every victim it returns is removed from the allocation.
- `OutcomeType` and `KeptSubset`: the victims come from the allocated consumers, and a refresh keeps a subset of them.
- `ReplayIInv`: the replay only re-admits running jobs.
- `DispatchIInv`: the caller starts the job that fit and evicts the returned victims.
- `Release` deallocates.
- `Crash` clears the backend.

The further proved theorems:
- `Implementation == Spec => QuotaAdmissionSpec`. This holds for every instance.
  - `FitsRefines`: every path of Fits is a `QA!Next` step or a stutter of `<<allocated, bquota>>`.
  - `AllocatingOutcome` and `KeptAreSurvivors`: the two lemmas that rest on the backend's contract.
  - `WithinIsFitsIn`: the abstract `Within` equals the detailed `FitsIn`.
  - `NextRefines`: does one case per action.
- `QuotaNeverExceeded == Spec => [](FitsIn(allocated, bquota))`. This is obtained from `Implementation` and the abstract theorem below, through a second instance `QAP` of `QuotaAdmissionProofs`.
  - TLAPS treats the `Cardinality` of the two instances as different operators. For that reason the proof first shows that `QA!Init`/`QAP!Init` and `QA!Next`/`QAP!Next` agree, and only then carries the temporal formula across.

### `QuotaManagerHoldProofs`

`RunningHoldQuota` is false in general: the replay error is replaced (finding part_000:185, run quota_replay_error). The module proves it under each of the two conditions that rule that path out:
- `RunningHoldQuotaFixedPlan`: `ASSUME NEW q0, QuotaPlans = {q0}, Listed = AWs PROVE Spec => []RunningHoldQuota`. There is one plan that is never edited, and any number of restarts.
- `RunningHoldQuotaNoRestart`: `ASSUME MaxRestarts = 0, Listed = AWs PROVE Spec => []RunningHoldQuota`. Any plans are allowed, with preemption on or off.

`Listed = AWs` says the lister resolves every preempted id. Without it, a victim that `getAppWrappers` drops keeps running without quota. The mutant `getAppWrappersNone` shows this on quota_restarts.

The inductive invariants:
- `FixedPlanInv` (fixed plan). With one plan, nothing is ever refreshed or reported, and the replay error stays empty. The running jobs are finite, all have a designation, and together they fit the quota. During the replay, each one is allocated or still pending; once up, each one is allocated.
  - The fit is what makes the replay succeed: the allocated jobs plus the one replayed are a subset of the running ones, so they fit (`FitsInSubset`, from `DemandMonotone`). Fits then allocates the job without preemption (`FitsNoRefresh`), and `ReplayErr` keeps the empty error.
  - In Dispatch, running equals allocated. The victims shown are the ones preempted, so running stays equal to allocated, which fits (`AllocatingOutcome`).
- `NoRestartInv` (no restarts). No job runs before the manager is up, and `RunningHoldQuota` holds.
  - `FitsCovers`: a job allocated or reported before Fits is, after it, allocated, reported or shown as a victim. When the job is refused, nothing is shown.
  - The dispatch loop then removes exactly the shown victims from running.

The action property `QuotaWithdrawnOpenly` is also proved: `QuotaWithdrawnOpenlyHolds == ASSUME Listed = AWs PROVE Spec => QuotaWithdrawnOpenly`. No step takes quota from a job that keeps running without naming it, unless the step is a crash. A job is named when a refresh reports it or the replay error contains it. This holds for any plans, restarts and preemption setting.
- It rests on `DownInv == IInv /\ (phase = "down" => allocated = {})`, so that NewQuotaManager's fresh backend withdraws nothing.
- It also rests on `FitsCovers`. A victim of the replay lands in the error (`ReplayErr` adds every shown victim), and a victim of the dispatch loop stops running.
- It is weaker than `RunningHoldQuota`: it says a withdrawal is announced, not that the announcement survives. A later replay failure replaces the error, which is finding part_000:185. For that reason it holds where `RunningHoldQuota` fails, with plan changes and restarts together.

TLC checked both invariants as invariants of the runs before they were proved:
- `FixedPlanInv` on MCQuotaManager.cfg;
- `NoRestartInv` on MCQuotaManagerPlans.cfg, with preemption off and on.

### `QuotaAdmissionProofs`

- `AdmissionWithinQuota == Spec => []QuotaRespected`. It assumes only that `MaxDemand` is a natural and the quotas are naturals.
- The inductive invariant is `AInv == IsFiniteSet(holders) /\ quota \in QuotaPlans /\ QuotaRespected`.
  - Finiteness is needed so that removing holders lowers the load (`LoadMonotone`, through `FS_Subset`). With it, `AWs` need not be assumed finite.
  - Each step keeps `AInv`:
    - `Admit` checks the fit.
    - `Requota` keeps a fitting subset.
    - `Release` shrinks the holders.
    - `Reset` empties them.

### Only model-checked

- `RunningHoldQuota` with plan changes *and* restarts together. There it is false (finding part_000:185), and the runs show it.
- `IdleWithinAllocatable` and the violations of `Conservation` under pipelining, a clamping Sub or a changing node. These are counterexamples, found by TLC.
- The QuotaDemand properties `TypeOK` and `DemandClamped`, and the half of `DesignationNamesMissing` that says which trees the message names. `getQuotaTreeResourceTypesDemands` folds over the resource types with `FoldLeft`, and the missing trees come from `SelectSeq`. Both are recursive functions over the list. What they compute for every list is induction over data, and the induction theorems of the library take an operator parameter that the installed provers cannot instantiate. The error-and-groups half of `DesignationNamesMissing` needs no induction, and `QuotaDemandProofs` proves it.
- `NodeLedgerSpec` with pipelining, a clamping Sub or a changing node. The refinement implies conservation (the replayed Idle plus Used is the node), so the three conservation violations refute it too.


## Not modelled

- **The demand conversions inside `QuotaManager`.** There they are a scalar demand per job. `QuotaDemand` checks them separately, and the two modules are not composed.
- **The backend's tree algorithm, and what it does with a consumer left registered** after a refused allocation.
- **The empty-forest case** (no trees: every job passes with no quota).
- **`addChildrenNodes`, `buildRequest`'s assembly of the consumer record, and `String`.**
- **Labels, taints and capability of a node.**
- **The Helm values.**

## Plan for the next sittings

1. A refinement of `RunningHoldQuota`'s intent: an abstract spec in which every running job either holds quota or is reported. The QuotaManager refines it when the replay error is wrapped.
2. A proof that the error composition of loadDispatchedAWs keeps every failed job named when line 185 wraps (a fixed `ReplayErr`).
