------------------------------ MODULE NodeLedger ------------------------------
(***************************************************************************)
(* What a node ledger promises its callers (spec sections 3, 4.2, 7, 8):  *)
(* it stores a private map from task ids to tasks, is unbound or bound to *)
(* a node, and its pools are at every moment what replaying the stored    *)
(* tasks from scratch gives: zero while unbound; once bound, Releasing    *)
(* the requests of the Releasing tasks, Used all requests, Idle the node  *)
(* less Used (so Idle + Used = Allocatable) and Allocatable the node.  A  *)
(* call that fails (DuplicateTask, TaskNotFound) changes nothing else.    *)
(* Nothing is said of how the pools are kept: NodeInfo keeps them         *)
(* incrementally.                                                          *)
(***************************************************************************)
EXTENDS Integers, FiniteSets

CONSTANTS Dims, TaskIDs, MaxReq, Requests, NodeAllocs, NoNode

VARIABLES
    node,   \* NoNode or the bound node's allocatable vector
    tasks,  \* the stored tasks: a function from ids to [resreq, status]
    pools,  \* [releasing, idle, used, allocatable]
    err     \* the result of the last call

vars == <<node, tasks, pools, err>>

Statuses == {"Releasing", "Running"}
TaskInfo == [resreq : Requests, status : Statuses]
Zero == [d \in Dims |-> 0]

\* The summed requests of the tasks of tk with keys in S, per dimension.
Load(tk, S) ==
    [d \in Dims |-> Cardinality({p \in S \X (1..MaxReq) : p[2] <= tk[p[1]].resreq[d]})]

\* The pools of a ledger holding tk, unbound (n = NoNode) or bound to n.
Pools(n, tk) ==
    IF n = NoNode
    THEN [releasing |-> Zero, idle |-> Zero, used |-> Zero, allocatable |-> Zero]
    ELSE LET all == Load(tk, DOMAIN tk)
         IN  [releasing   |-> Load(tk, {t \in DOMAIN tk : tk[t].status = "Releasing"}),
              idle        |-> [d \in Dims |-> n[d] - all[d]],
              used        |-> all,
              allocatable |-> n]

\* A new ledger, for a node or none, with no task.
Init ==
    /\ node \in NodeAllocs \cup {NoNode}
    /\ tasks = [t \in {} |-> CHOOSE ti \in TaskInfo : TRUE]
    /\ pools = Pools(node, tasks)
    /\ err = "ok"

\* Bind: the node is (re)attached and the pools follow it.
Bind(n) ==
    /\ node' = n /\ err' = "ok"
    /\ pools' = Pools(n, tasks)
    /\ UNCHANGED tasks

\* A task with a new id is stored (AddTask).
Store(t, ti) ==
    /\ t \notin DOMAIN tasks
    /\ tasks' = [x \in DOMAIN tasks \cup {t} |-> IF x = t THEN ti ELSE tasks[x]]
    /\ pools' = Pools(node, tasks') /\ err' = "ok"
    /\ UNCHANGED node

\* A stored task is dropped (RemoveTask).
Drop(t) ==
    /\ t \in DOMAIN tasks
    /\ tasks' = [x \in DOMAIN tasks \ {t} |-> tasks[x]]
    /\ pools' = Pools(node, tasks') /\ err' = "ok"
    /\ UNCHANGED node

\* A stored task is replaced by a new snapshot (UpdateTask).
Replace(t, ti) ==
    /\ t \in DOMAIN tasks
    /\ tasks' = [tasks EXCEPT ![t] = ti]
    /\ pools' = Pools(node, tasks') /\ err' = "ok"
    /\ UNCHANGED node

\* A call refused: a duplicate id, or an id not stored; nothing changes
\* but the result.
Refuse(t) ==
    /\ err' = IF t \in DOMAIN tasks THEN "DuplicateTask" ELSE "TaskNotFound"
    /\ UNCHANGED <<node, tasks, pools>>

Next ==
    \/ \E n \in NodeAllocs : Bind(n)
    \/ \E t \in TaskIDs, ti \in TaskInfo : Store(t, ti) \/ Replace(t, ti)
    \/ \E t \in TaskIDs : Drop(t) \/ Refuse(t)

Spec == Init /\ [][Next]_vars
==============================================================================
