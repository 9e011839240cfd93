------------------------------- MODULE NodeInfo -------------------------------
(***************************************************************************)
(* The per-node resource ledger of the cluster-state cache                 *)
(* (pkg/controller/clusterstate/api/node_info.go, type NodeInfo).          *)
(*                                                                         *)
(* A ledger is unbound (Node == nil, a placeholder) or bound to a node     *)
(* object.  It keeps the pools Releasing, Idle and Used, the node's        *)
(* Allocatable, and a private copy of every task placed on it, keyed by    *)
(* task id.  The node object is abstracted to its allocatable vector; its  *)
(* capacity, labels, taints and schedulability are copied by SetNode but   *)
(* take no part in the accounting and are left out.  A task is abstracted *)
(* to its request vector and to whether its status is Releasing: that is   *)
(* the only distinction the ledger makes among task statuses.              *)
(***************************************************************************)
EXTENDS Integers, FiniteSets

CONSTANTS
    Dims,       \* resource dimensions of a Resource (milli-cpu, memory, gpu)
    TaskIDs,    \* task keys (PodKey of the task's pod)
    MaxReq,     \* bound on one dimension of a task's request
    Requests,   \* the request vectors a task may carry
    NodeAllocs, \* the allocatable vectors a node object may declare
    NoNode,     \* the nil node of an unbound ledger
    SubClamps   \* TRUE: Resource.Sub clamps an underflowing dimension to 0

Quantity == 0..MaxReq
Vector == [Dims -> Int]

ASSUME DimsAssumption == IsFiniteSet(Dims)
ASSUME TaskIDsAssumption == IsFiniteSet(TaskIDs)
ASSUME MaxReqAssumption == MaxReq \in Nat
ASSUME RequestsAssumption == Requests \subseteq [Dims -> Quantity]
ASSUME NodeAllocsAssumption == NodeAllocs \subseteq [Dims -> Nat]
ASSUME NoNodeAssumption == NoNode \notin NodeAllocs
ASSUME SubClampsAssumption == SubClamps \in BOOLEAN

\* The two task statuses the ledger distinguishes.
Releasing == "Releasing"
Running == "Running"
Statuses == {Releasing, Running}

\* A TaskInfo as the ledger stores it (its private clone).
TaskInfo == [resreq : Requests, status : Statuses]

\* Results of the ledger's operations.
Errors == {"ok", "DuplicateTask", "TaskNotFound"}

VARIABLES
    node,        \* ni.Node: NoNode or the bound node's allocatable
    releasing,   \* ni.Releasing
    idle,        \* ni.Idle
    used,        \* ni.Used
    allocatable, \* ni.Allocatable
    tasks,       \* ni.Tasks: a function from the keys present to TaskInfo
    err          \* the error returned by the last operation

vars == <<node, releasing, idle, used, allocatable, tasks, err>>

-----------------------------------------------------------------------------
(* Resource arithmetic (the Resource type, outside this repository).      *)

EmptyResource == [d \in Dims |-> 0]

\* Resource.Add: componentwise sum.
Add(r, rr) == [d \in Dims |-> r[d] + rr[d]]

\* Resource.Sub: componentwise difference.  Its callers here only log the
\* underflow error, so the result is what Sub leaves in the receiver: the
\* raw difference, or 0 in an underflowing dimension when it clamps.
Sub(r, rr) ==
    [d \in Dims |-> IF SubClamps /\ r[d] < rr[d] THEN 0 ELSE r[d] - rr[d]]

\* The sum of the requests of the tasks of tk with keys in S.  The sum of
\* the d-components is counted as the number of unit slots <<t, k>> with
\* t in S and k no larger than tk[t].resreq[d]; stated as a cardinality
\* it needs no recursion.
ReqSlots(tk, S, d) == {p \in S \X (1..MaxReq) : p[2] <= tk[p[1]].resreq[d]}
SumResreq(tk, S) == [d \in Dims |-> Cardinality(ReqSlots(tk, S, d))]

\* The keys of the tasks of tk whose status is Releasing.
ReleasingKeys(tk) == {t \in DOMAIN tk : tk[t].status = Releasing}

\* tk with key t mapped to ti, and tk without key t.
PutTask(tk, t, ti) == [x \in DOMAIN tk \cup {t} |-> IF x = t THEN ti ELSE tk[x]]
DeleteTask(tk, t) == [x \in DOMAIN tk \ {t} |-> tk[x]]

Bound == node # NoNode

-----------------------------------------------------------------------------
(* Construction.                                                           *)

\* NewNodeInfo(n): unbound with empty pools for nil, else Idle and
\* Allocatable from the node's allocatable.  No task yet.
NewNodeInfo(n) ==
    /\ node = n
    /\ releasing = EmptyResource
    /\ used = EmptyResource
    /\ idle = IF n = NoNode THEN EmptyResource ELSE n
    /\ allocatable = IF n = NoNode THEN EmptyResource ELSE n
    /\ tasks = [t \in {} |-> CHOOSE ti \in TaskInfo : TRUE]
    /\ err = "ok"

Init == \E n \in NodeAllocs \cup {NoNode} : NewNodeInfo(n)

\* Clone(): NewNodeInfo(ni.Node) with every task replayed through AddTask.
\* The replay's repeated Idle.Sub clamps to the same value as one Sub of
\* the total, requests being non-negative; its result is order-free.
Clone ==
    IF ~Bound
    THEN [releasing |-> EmptyResource, idle |-> EmptyResource,
          used |-> EmptyResource]
    ELSE [releasing |-> SumResreq(tasks, ReleasingKeys(tasks)),
          idle |-> Sub(node, SumResreq(tasks, DOMAIN tasks)),
          used |-> SumResreq(tasks, DOMAIN tasks)]

-----------------------------------------------------------------------------
(* Plausible faults of the operations below, each a small change of the   *)
(* code; the properties' runs must tell them from the code.               *)

\* SetNode without its `ni.Node == nil` guard: reconciles on every call.
SetNodeAlwaysReplay(n) ==
    /\ releasing' = Add(releasing, SumResreq(tasks, ReleasingKeys(tasks)))
    /\ idle' = Sub(n, SumResreq(tasks, DOMAIN tasks))
    /\ used' = Add(used, SumResreq(tasks, DOMAIN tasks))
    /\ node' = n
    /\ allocatable' = n
    /\ err' = "ok"
    /\ UNCHANGED tasks

\* AddTask whose duplicate check does not return: a task already stored is
\* overwritten and its request charged a second time.
AddTaskNoDuplicateCheck(t, r, s) ==
    /\ releasing' = IF Bound /\ s = Releasing THEN Add(releasing, r) ELSE releasing
    /\ idle' = IF Bound THEN Sub(idle, r) ELSE idle
    /\ used' = IF Bound THEN Add(used, r) ELSE used
    /\ tasks' = PutTask(tasks, t, [resreq |-> r, status |-> s])
    /\ err' = "ok"
    /\ UNCHANGED <<node, allocatable>>

\* RemoveTask that forgets to give the request back to Idle.
RemoveTaskNoIdle(t) ==
    IF t \notin DOMAIN tasks
    THEN /\ err' = "TaskNotFound"
         /\ UNCHANGED <<node, releasing, idle, used, allocatable, tasks>>
    ELSE /\ releasing' =
              IF Bound /\ tasks[t].status = Releasing
              THEN Sub(releasing, tasks[t].resreq) ELSE releasing
         /\ used' = IF Bound THEN Sub(used, tasks[t].resreq) ELSE used
         /\ tasks' = DeleteTask(tasks, t)
         /\ err' = "ok"
         /\ UNCHANGED <<node, idle, allocatable>>

\* UpdateTask whose removal half reads the new snapshot's status instead
\* of the stored one.
UpdateTaskNewStatus(t, r, s) ==
    IF t \notin DOMAIN tasks
    THEN /\ err' = "TaskNotFound"
         /\ UNCHANGED <<node, releasing, idle, used, allocatable, tasks>>
    ELSE LET old == tasks[t].resreq
             rel1 == IF Bound /\ s = Releasing THEN Sub(releasing, old)
                     ELSE releasing
         IN /\ releasing' = IF Bound /\ s = Releasing THEN Add(rel1, r) ELSE rel1
            /\ idle' = IF Bound THEN Sub(Add(idle, old), r) ELSE idle
            /\ used' = IF Bound THEN Add(Sub(used, old), r) ELSE used
            /\ tasks' = [tasks EXCEPT ![t] = [resreq |-> r, status |-> s]]
            /\ err' = "ok"
            /\ UNCHANGED <<node, allocatable>>

\* UpdateTask that confuses the stored request with the new one when it
\* moves Used: it takes out the new request and puts back the old.
UpdateTaskSwapped(t, r, s) ==
    IF t \notin DOMAIN tasks
    THEN /\ err' = "TaskNotFound"
         /\ UNCHANGED <<node, releasing, idle, used, allocatable, tasks>>
    ELSE LET old == tasks[t]
             rel1 == IF Bound /\ old.status = Releasing
                     THEN Sub(releasing, old.resreq) ELSE releasing
         IN /\ releasing' = IF Bound /\ s = Releasing THEN Add(rel1, r) ELSE rel1
            /\ idle' = IF Bound THEN Sub(Add(idle, old.resreq), r) ELSE idle
            /\ used' = IF Bound THEN Add(Sub(used, r), old.resreq) ELSE used
            /\ tasks' = [tasks EXCEPT ![t] = [resreq |-> r, status |-> s]]
            /\ err' = "ok"
            /\ UNCHANGED <<node, allocatable>>

-----------------------------------------------------------------------------
(* The operations.                                                         *)

\* SetNode(n): on the first binding, Idle restarts from the node's
\* allocatable and every stored task is charged to the pools; on a later
\* call only Node and Allocatable are replaced.
SetNode(n) ==
    /\ IF ~Bound
       THEN /\ releasing' = Add(releasing, SumResreq(tasks, ReleasingKeys(tasks)))
            /\ idle' = Sub(n, SumResreq(tasks, DOMAIN tasks))
            /\ used' = Add(used, SumResreq(tasks, DOMAIN tasks))
       ELSE UNCHANGED <<releasing, idle, used>>
    /\ node' = n
    /\ allocatable' = n
    /\ err' = "ok"
    /\ UNCHANGED tasks

\* PipelineTask(ti): stores a clone of a new task; when bound it takes the
\* request out of Releasing and adds it to Used, leaving Idle alone.
PipelineTask(t, r, s) ==
    IF t \in DOMAIN tasks
    THEN /\ err' = "DuplicateTask"
         /\ UNCHANGED <<node, releasing, idle, used, allocatable, tasks>>
    ELSE /\ releasing' = IF Bound THEN Sub(releasing, r) ELSE releasing
         /\ used' = IF Bound THEN Add(used, r) ELSE used
         /\ tasks' = PutTask(tasks, t, [resreq |-> r, status |-> s])
         /\ err' = "ok"
         /\ UNCHANGED <<node, idle, allocatable>>

\* AddTask(ti): stores a clone of a new task; when bound it charges the
\* request to Releasing (Releasing status only), Idle and Used.
AddTask(t, r, s) ==
    IF t \in DOMAIN tasks
    THEN /\ err' = "DuplicateTask"
         /\ UNCHANGED <<node, releasing, idle, used, allocatable, tasks>>
    ELSE /\ releasing' = IF Bound /\ s = Releasing THEN Add(releasing, r)
                         ELSE releasing
         /\ idle' = IF Bound THEN Sub(idle, r) ELSE idle
         /\ used' = IF Bound THEN Add(used, r) ELSE used
         /\ tasks' = PutTask(tasks, t, [resreq |-> r, status |-> s])
         /\ err' = "ok"
         /\ UNCHANGED <<node, allocatable>>

\* RemoveTask(ti): looks the task up by key and, when bound, gives the
\* STORED task's request back by its STORED status; then drops the entry.
RemoveTask(t) ==
    IF t \notin DOMAIN tasks
    THEN /\ err' = "TaskNotFound"
         /\ UNCHANGED <<node, releasing, idle, used, allocatable, tasks>>
    ELSE /\ releasing' =
              IF Bound /\ tasks[t].status = Releasing
              THEN Sub(releasing, tasks[t].resreq) ELSE releasing
         /\ idle' = IF Bound THEN Add(idle, tasks[t].resreq) ELSE idle
         /\ used' = IF Bound THEN Sub(used, tasks[t].resreq) ELSE used
         /\ tasks' = DeleteTask(tasks, t)
         /\ err' = "ok"
         /\ UNCHANGED <<node, allocatable>>

\* UpdateTask(ti): RemoveTask(ti) and, if it succeeded, AddTask(ti), which
\* then cannot fail: the key has just been removed.
UpdateTask(t, r, s) ==
    IF t \notin DOMAIN tasks
    THEN /\ err' = "TaskNotFound"
         /\ UNCHANGED <<node, releasing, idle, used, allocatable, tasks>>
    ELSE LET old == tasks[t]
             rel1 == IF Bound /\ old.status = Releasing
                     THEN Sub(releasing, old.resreq) ELSE releasing
         IN /\ releasing' = IF Bound /\ s = Releasing THEN Add(rel1, r) ELSE rel1
            /\ idle' = IF Bound THEN Sub(Add(idle, old.resreq), r) ELSE idle
            /\ used' = IF Bound THEN Add(Sub(used, old.resreq), r) ELSE used
            /\ tasks' = [tasks EXCEPT ![t] = [resreq |-> r, status |-> s]]
            /\ err' = "ok"
            /\ UNCHANGED <<node, allocatable>>

Next ==
    \/ \E n \in NodeAllocs : SetNode(n)
    \/ \E t \in TaskIDs, r \in Requests, s \in Statuses :
          \/ PipelineTask(t, r, s)
          \/ AddTask(t, r, s)
          \/ UpdateTask(t, r, s)
    \/ \E t \in TaskIDs : RemoveTask(t)

Spec == Init /\ [][Next]_vars

\* The caller discipline of the conservation claim: the scheduler's cache
\* never pipelines a task onto the node.
NextNoPipeline ==
    \/ \E n \in NodeAllocs : SetNode(n)
    \/ \E t \in TaskIDs, r \in Requests, s \in Statuses :
          \/ AddTask(t, r, s)
          \/ UpdateTask(t, r, s)
    \/ \E t \in TaskIDs : RemoveTask(t)

SpecNoPipeline == Init /\ [][NextNoPipeline]_vars

-----------------------------------------------------------------------------
(* Properties.                                                             *)

\* The ledger's variables keep their types; Used, a sum of requests, is
\* never driven below zero by the Used.Sub of RemoveTask or UpdateTask.
TypeOK ==
    /\ node \in NodeAllocs \cup {NoNode}
    /\ releasing \in Vector
    /\ idle \in Vector
    /\ used \in [Dims -> Nat]
    /\ allocatable \in [Dims -> Nat]
    /\ DOMAIN tasks \subseteq TaskIDs
    /\ tasks \in [DOMAIN tasks -> TaskInfo]
    /\ err \in Errors

\* Used is exactly the sum of the requests of the tasks on a bound node,
\* whatever mix of SetNode, Add/Pipeline/Update/RemoveTask produced it: the
\* first SetNode charges the tasks stored while unbound, later ones not.
UsedMatchesTasks == Bound => used = SumResreq(tasks, DOMAIN tasks)

\* Releasing never exceeds Used in any dimension (Releasing is part of
\* Used), although PipelineTask and RemoveTask take from Releasing and
\* UpdateTask moves a task in or out of the Releasing status.
ReleasingWithinUsed == \A d \in Dims : releasing[d] <= used[d]

\* The conservation law of a bound ledger: Idle + Used == Allocatable.
Conservation == Bound => Add(idle, used) = allocatable

\* A bound ledger never reports more idle capacity than the node has
\* (Idle + Used == Allocatable with Used >= 0).
IdleWithinAllocatable == Bound => \A d \in Dims : idle[d] <= allocatable[d]


\* The ledger as its callers see it: NodeLedger, whose pools are always the
\* from-scratch replay of the stored tasks and whose failed calls change
\* nothing, with NodeInfo's pools as the abstract pools.
NL == INSTANCE NodeLedger
        WITH pools <- [releasing |-> releasing, idle |-> idle,
                       used |-> used, allocatable |-> allocatable]

\* NodeInfo implements NodeLedger: every call leaves the incrementally kept
\* pools equal to a replay of the stored tasks (SetNode's, AddTask's,
\* RemoveTask's and UpdateTask's arithmetic agrees with the recomputation),
\* and a DuplicateTask or TaskNotFound result changes no pool and no task.
NodeLedgerSpec == NL!Spec
=============================================================================
