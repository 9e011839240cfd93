-------------------------- MODULE NodeInfoPoolProofs --------------------------
(***************************************************************************)
(* Proofs about the Releasing and Idle pools of NodeInfo.  Releasing is    *)
(* bounded by Used for every instance; Idle + Used = Allocatable under    *)
(* the conditions the violation runs show to be needed: no PipelineTask,   *)
(* a Sub that does not clamp, and a node object whose allocatable does    *)
(* not change.                                                             *)
(***************************************************************************)
EXTENDS NodeInfoProofs

\* The sum of the requests of the stored tasks in the Releasing status.
SumReleasing == SumResreq(tasks, ReleasingKeys(tasks))

\* An unbound ledger keeps Releasing and Idle at zero: no operation
\* touches a pool before the first SetNode.
UnboundPoolsEmpty == ~Bound => releasing = EmptyResource /\ idle = EmptyResource

\* Releasing is at most the requests of the Releasing tasks: it gains a
\* request only with a task in that status, and PipelineTask and a clamping
\* Sub only take more away.
ReleasingWithinReleasingTasks == \A d \in Dims : releasing[d] <= SumReleasing[d]

RInv == IInv /\ UnboundPoolsEmpty /\ ReleasingWithinReleasingTasks

\* Without pipelining and clamping, a bound ledger's pools are exactly
\* those the stored tasks determine.
PoolsMatchTasks ==
    Bound => /\ releasing = SumReleasing
             /\ idle = Sub(node, SumResreq(tasks, DOMAIN tasks))
             /\ allocatable = node

CInv == IInv /\ UnboundPoolsEmpty /\ PoolsMatchTasks

-----------------------------------------------------------------------------
(* Lemmas about sums over part of the stored tasks.                        *)

\* The requests of the Releasing tasks other than t.
Base(tk, t) == SumResreq(tk, ReleasingKeys(tk) \ {t})

\* A sum over fewer tasks is no larger.
LEMMA SumMonotone ==
    ASSUME NEW tk, NEW S \in SUBSET TaskIDs, NEW T \in SUBSET S, NEW d \in Dims
    PROVE  SumResreq(tk, T)[d] <= SumResreq(tk, S)[d]
<1>1. IsFiniteSet(ReqSlots(tk, S, d))
  BY SlotsFinite
<1>2. ReqSlots(tk, T, d) \subseteq ReqSlots(tk, S, d)
  BY DEF ReqSlots
<1>. QED
  BY <1>1, <1>2, FS_Subset DEF SumResreq

\* The sum over the Releasing tasks splits into task t's request, when t
\* is one of them, and the sum over the others.
LEMMA ReleasingSplit ==
    ASSUME NEW tk, DOMAIN tk \subseteq TaskIDs, tk \in [DOMAIN tk -> TaskInfo], NEW t
    PROVE  SumResreq(tk, ReleasingKeys(tk))
           = IF t \in ReleasingKeys(tk) THEN Add(Base(tk, t), tk[t].resreq)
             ELSE Base(tk, t)
<1>1. CASE t \in ReleasingKeys(tk)
  <2>1. ReleasingKeys(tk) = (ReleasingKeys(tk) \ {t}) \cup {t}
    BY <1>1
  <2>2. ReleasingKeys(tk) \ {t} \in SUBSET TaskIDs /\ t \in TaskIDs \ (ReleasingKeys(tk) \ {t})
    BY <1>1 DEF ReleasingKeys
  <2>3. tk[t].resreq \in [Dims -> Quantity]
    BY <1>1, RequestsAssumption DEF ReleasingKeys, TaskInfo
  <2>. QED
    BY <1>1, <2>1, <2>2, <2>3, SumAdd DEF Base
<1>2. CASE t \notin ReleasingKeys(tk)
  BY <1>2 DEF Base
<1>. QED
  BY <1>1, <1>2

\* The sum over the Releasing tasks other than t depends only on them.
LEMMA BaseFrame ==
    ASSUME NEW tk, NEW tk2, NEW t, DOMAIN tk2 \ {t} = DOMAIN tk \ {t},
           \A x \in DOMAIN tk \ {t} : tk2[x] = tk[x]
    PROVE  Base(tk2, t) = Base(tk, t)
<1>1. ReleasingKeys(tk2) \ {t} = ReleasingKeys(tk) \ {t}
  BY DEF ReleasingKeys
<1>2. \A x \in ReleasingKeys(tk) \ {t} : tk[x] = tk2[x]
  BY DEF ReleasingKeys
<1>3. SumResreq(tk, ReleasingKeys(tk) \ {t}) = SumResreq(tk2, ReleasingKeys(tk) \ {t})
  BY <1>2, SumFrame
<1>. QED
  BY <1>1, <1>3 DEF Base

\* Sub leaves a dimension below any non-negative bound above the raw
\* difference, whether it clamps or not.
LEMMA SubBelow ==
    ASSUME NEW x \in Vector, NEW r \in [Dims -> Nat], NEW d \in Dims,
           NEW b \in Nat, x[d] - r[d] <= b
    PROVE  Sub(x, r)[d] <= b
BY SubClampsAssumption DEF Sub, Vector
-----------------------------------------------------------------------------
(* RInv is inductive.                                                      *)

\* The stored tasks, and their Releasing ones, are keyed by task ids.
LEMMA TasksShape ==
    ASSUME IInv
    PROVE  /\ DOMAIN tasks \subseteq TaskIDs
           /\ tasks \in [DOMAIN tasks -> TaskInfo]
           /\ ReleasingKeys(tasks) \subseteq DOMAIN tasks
           /\ releasing \in Vector
BY DEF IInv, TypeOK, ReleasingKeys

LEMMA InitRInv == Init => RInv
<1> SUFFICES ASSUME NEW n \in NodeAllocs \cup {NoNode}, NewNodeInfo(n)
             PROVE  RInv
  BY DEF Init
<1>1. IInv
  BY InitIInv DEF Init
<1>2. ReleasingKeys(tasks) = {}
  BY DEF NewNodeInfo, ReleasingKeys
<1>3. SumReleasing = EmptyResource
  BY <1>2, SumEmpty DEF SumReleasing
<1>. QED
  BY <1>1, <1>3 DEF NewNodeInfo, RInv, UnboundPoolsEmpty, Bound,
     ReleasingWithinReleasingTasks, EmptyResource

\* Taking a stored task's request out of Releasing by its stored status
\* leaves Releasing below the requests of the other Releasing tasks.
LEMMA RemovalBelow ==
    ASSUME RInv, Bound, NEW t \in DOMAIN tasks
    PROVE  LET rel1 == IF tasks[t].status = Releasing
                       THEN Sub(releasing, tasks[t].resreq) ELSE releasing
           IN  /\ rel1 \in Vector
               /\ \A d \in Dims : rel1[d] <= Base(tasks, t)[d]
<1> DEFINE q == tasks[t].resreq
<1>1. q \in [Dims -> Quantity] /\ releasing \in Vector
  BY TasksShape, RequestsAssumption DEF RInv, TaskInfo
<1>2. Base(tasks, t) \in [Dims -> Nat]
  BY TasksShape, SumType DEF RInv, Base
<1>3. SumReleasing = IF t \in ReleasingKeys(tasks) THEN Add(Base(tasks, t), q)
                     ELSE Base(tasks, t)
  BY TasksShape, ReleasingSplit DEF RInv, SumReleasing
<1>4. t \in ReleasingKeys(tasks) <=> tasks[t].status = Releasing
  BY DEF ReleasingKeys
<1>5. \A d \in Dims : releasing[d] <= SumReleasing[d]
  BY DEF RInv, ReleasingWithinReleasingTasks
<1>6. CASE tasks[t].status = Releasing
  <2>1. \A d \in Dims : releasing[d] - q[d] <= Base(tasks, t)[d]
    BY <1>1, <1>2, <1>3, <1>4, <1>5, <1>6 DEF Add, Quantity, Vector
  <2>2. \A d \in Dims : Sub(releasing, q)[d] <= Base(tasks, t)[d]
    BY <1>1, <1>2, <2>1, SubBelow, MaxReqAssumption DEF Quantity
  <2>. QED
    BY <1>1, <1>6, <2>2, SubClampsAssumption DEF Sub, Vector, Quantity
<1>7. CASE tasks[t].status # Releasing
  BY <1>1, <1>3, <1>4, <1>5, <1>7
<1>. QED
  BY <1>6, <1>7
\* Storing a new task adds its request to the Releasing sum exactly when
\* its status is Releasing.
LEMMA PutReleasing ==
    ASSUME IInv, NEW t \in TaskIDs \ DOMAIN tasks, NEW r \in Requests,
           NEW s \in Statuses
    PROVE  LET nt == PutTask(tasks, t, [resreq |-> r, status |-> s])
           IN  /\ SumReleasing = Base(tasks, t)
               /\ SumResreq(nt, ReleasingKeys(nt))
                  = IF s = Releasing THEN Add(Base(tasks, t), r) ELSE Base(tasks, t)
               /\ SumResreq(nt, ReleasingKeys(nt)) \in [Dims -> Nat]
<1> DEFINE nt == PutTask(tasks, t, [resreq |-> r, status |-> s])
<1>1. DOMAIN nt = DOMAIN tasks \cup {t} /\ nt \in [DOMAIN nt -> TaskInfo]
      /\ DOMAIN nt \subseteq TaskIDs
  BY TasksShape DEF PutTask, TaskInfo
<1>2. Base(nt, t) = Base(tasks, t)
  <2>1. DOMAIN nt \ {t} = DOMAIN tasks \ {t} /\ \A x \in DOMAIN tasks \ {t} : nt[x] = tasks[x]
    BY <1>1 DEF PutTask
  <2>. QED
    BY <2>1, BaseFrame
<1>3. SumReleasing = Base(tasks, t)
  BY TasksShape, ReleasingSplit DEF SumReleasing, ReleasingKeys
<1>4. t \in ReleasingKeys(nt) <=> s = Releasing
  BY <1>1 DEF ReleasingKeys, PutTask
<1>5. nt[t].resreq = r
  BY DEF PutTask
<1>6. SumResreq(nt, ReleasingKeys(nt))
      = IF s = Releasing THEN Add(Base(tasks, t), r) ELSE Base(tasks, t)
  BY <1>1, <1>2, <1>4, <1>5, ReleasingSplit
<1>7. SumResreq(nt, ReleasingKeys(nt)) \in [Dims -> Nat]
  BY <1>1, SumType DEF ReleasingKeys
<1>. QED
  BY <1>3, <1>6, <1>7

LEMMA AddTaskRInv ==
    ASSUME RInv, NEW t \in TaskIDs, NEW r \in Requests, NEW s \in Statuses,
           AddTask(t, r, s)
    PROVE  RInv'
<1>1. IInv'
  BY AddTaskIInv DEF RInv
<1>2. CASE t \in DOMAIN tasks
  BY <1>1, <1>2 DEF AddTask, RInv, UnboundPoolsEmpty, Bound,
     ReleasingWithinReleasingTasks, SumReleasing
<1>3. CASE t \notin DOMAIN tasks
  <2> DEFINE nt == PutTask(tasks, t, [resreq |-> r, status |-> s])
  <2>1. tasks' = nt /\ UNCHANGED node
    BY <1>3 DEF AddTask
  <2>2. /\ SumReleasing = Base(tasks, t)
        /\ SumReleasing' = SumResreq(nt, ReleasingKeys(nt))
        /\ SumReleasing' = IF s = Releasing THEN Add(Base(tasks, t), r) ELSE Base(tasks, t)
        /\ SumReleasing' \in [Dims -> Nat]
    <3>1. /\ SumReleasing = Base(tasks, t)
          /\ SumResreq(nt, ReleasingKeys(nt))
             = IF s = Releasing THEN Add(Base(tasks, t), r) ELSE Base(tasks, t)
          /\ SumResreq(nt, ReleasingKeys(nt)) \in [Dims -> Nat]
      BY <1>3, PutReleasing DEF RInv
    <3>2. SumReleasing' = SumResreq(nt, ReleasingKeys(nt))
      BY <2>1 DEF SumReleasing
    <3>. QED
      BY <3>1, <3>2
  <2>3. CASE Bound
    <3>1. releasing' = IF s = Releasing THEN Add(releasing, r) ELSE releasing
      BY <1>3, <2>3 DEF AddTask
    <3>2. r \in [Dims -> Quantity] /\ releasing \in Vector
      BY TasksShape, RequestsAssumption DEF RInv
    <3>3. Base(tasks, t) \in [Dims -> Nat]
      BY TasksShape, SumType DEF RInv, Base
    <3>4. ASSUME NEW d \in Dims PROVE releasing'[d] <= SumReleasing'[d]
      <4>1. releasing[d] <= Base(tasks, t)[d]
        BY <2>2 DEF RInv, ReleasingWithinReleasingTasks
      <4>. QED
        BY <2>2, <3>1, <3>2, <3>3, <4>1 DEF Add, Vector, Quantity
    <3>5. ReleasingWithinReleasingTasks'
      BY <3>4 DEF ReleasingWithinReleasingTasks
    <3>. QED
      BY <1>1, <2>1, <2>3, <3>5 DEF RInv, UnboundPoolsEmpty, Bound
  <2>4. CASE ~Bound
    <3>1. releasing' = EmptyResource /\ idle' = EmptyResource
      BY <1>3, <2>4 DEF AddTask, RInv, UnboundPoolsEmpty
    <3>. QED
      BY <1>1, <2>2, <3>1 DEF RInv, UnboundPoolsEmpty, ReleasingWithinReleasingTasks,
         EmptyResource
  <2>. QED
    BY <2>3, <2>4
<1>. QED
  BY <1>2, <1>3

LEMMA PipelineTaskRInv ==
    ASSUME RInv, NEW t \in TaskIDs, NEW r \in Requests, NEW s \in Statuses,
           PipelineTask(t, r, s)
    PROVE  RInv'
<1>1. IInv'
  BY PipelineTaskIInv DEF RInv
<1>2. CASE t \in DOMAIN tasks
  BY <1>1, <1>2 DEF PipelineTask, RInv, UnboundPoolsEmpty, Bound,
     ReleasingWithinReleasingTasks, SumReleasing
<1>3. CASE t \notin DOMAIN tasks
  <2> DEFINE nt == PutTask(tasks, t, [resreq |-> r, status |-> s])
  <2>1. tasks' = nt /\ UNCHANGED <<node, idle>>
    BY <1>3 DEF PipelineTask
  <2>2. /\ SumReleasing = Base(tasks, t)
        /\ SumReleasing' = SumResreq(nt, ReleasingKeys(nt))
        /\ SumReleasing' = IF s = Releasing THEN Add(Base(tasks, t), r) ELSE Base(tasks, t)
        /\ SumReleasing' \in [Dims -> Nat]
    <3>1. /\ SumReleasing = Base(tasks, t)
          /\ SumResreq(nt, ReleasingKeys(nt))
             = IF s = Releasing THEN Add(Base(tasks, t), r) ELSE Base(tasks, t)
          /\ SumResreq(nt, ReleasingKeys(nt)) \in [Dims -> Nat]
      BY <1>3, PutReleasing DEF RInv
    <3>2. SumReleasing' = SumResreq(nt, ReleasingKeys(nt))
      BY <2>1 DEF SumReleasing
    <3>. QED
      BY <3>1, <3>2
  <2>3. CASE Bound
    <3>1. releasing' = Sub(releasing, r)
      BY <1>3, <2>3 DEF PipelineTask
    <3>2. r \in [Dims -> Quantity] /\ releasing \in Vector /\ Base(tasks, t) \in [Dims -> Nat]
      BY TasksShape, RequestsAssumption, SumType DEF RInv, Base
    <3>3. ASSUME NEW d \in Dims PROVE releasing[d] - r[d] <= SumReleasing'[d]
      <4>1. releasing[d] <= Base(tasks, t)[d]
        BY <2>2 DEF RInv, ReleasingWithinReleasingTasks
      <4>. QED
        BY <2>2, <3>2, <4>1 DEF Add, Vector, Quantity
    <3>4. \A d \in Dims : Sub(releasing, r)[d] <= SumReleasing'[d]
      BY <2>2, <3>2, <3>3, SubBelow, MaxReqAssumption DEF Quantity
    <3>. QED
      BY <1>1, <2>1, <2>3, <3>1, <3>4 DEF RInv, UnboundPoolsEmpty, Bound,
         ReleasingWithinReleasingTasks
  <2>4. CASE ~Bound
    <3>1. releasing' = EmptyResource /\ idle' = EmptyResource
      BY <1>3, <2>4 DEF PipelineTask, RInv, UnboundPoolsEmpty
    <3>. QED
      BY <1>1, <2>2, <3>1 DEF RInv, UnboundPoolsEmpty, ReleasingWithinReleasingTasks,
         EmptyResource
  <2>. QED
    BY <2>3, <2>4
<1>. QED
  BY <1>2, <1>3
\* Dropping a stored task leaves the requests of the other Releasing tasks.
LEMMA DeleteReleasing ==
    ASSUME IInv, NEW t \in DOMAIN tasks
    PROVE  /\ SumResreq(DeleteTask(tasks, t), ReleasingKeys(DeleteTask(tasks, t)))
              = Base(tasks, t)
           /\ Base(tasks, t) \in [Dims -> Nat]
<1> DEFINE nt == DeleteTask(tasks, t)
<1>1. ReleasingKeys(nt) = ReleasingKeys(tasks) \ {t}
  BY DEF DeleteTask, ReleasingKeys
<1>2. \A x \in ReleasingKeys(tasks) \ {t} : nt[x] = tasks[x]
  BY DEF DeleteTask, ReleasingKeys
<1>3. SumResreq(nt, ReleasingKeys(tasks) \ {t}) = Base(tasks, t)
  BY <1>2, SumFrame DEF Base
<1>4. Base(tasks, t) \in [Dims -> Nat]
  BY TasksShape, SumType DEF Base
<1>. QED
  BY <1>1, <1>3, <1>4

\* Replacing a stored task counts the new request in the Releasing sum
\* exactly when the new status is Releasing.
LEMMA ExceptReleasing ==
    ASSUME IInv, NEW t \in DOMAIN tasks, NEW r \in Requests, NEW s \in Statuses
    PROVE  LET nt == [tasks EXCEPT ![t] = [resreq |-> r, status |-> s]]
           IN  /\ SumResreq(nt, ReleasingKeys(nt))
                  = IF s = Releasing THEN Add(Base(tasks, t), r) ELSE Base(tasks, t)
               /\ Base(tasks, t) \in [Dims -> Nat]
<1> DEFINE nt == [tasks EXCEPT ![t] = [resreq |-> r, status |-> s]]
<1>1. DOMAIN nt = DOMAIN tasks /\ nt \in [DOMAIN nt -> TaskInfo] /\ DOMAIN nt \subseteq TaskIDs
  BY TasksShape DEF TaskInfo
<1>2. Base(nt, t) = Base(tasks, t)
  BY <1>1, BaseFrame
<1>3. t \in ReleasingKeys(nt) <=> s = Releasing
  BY <1>1 DEF ReleasingKeys
<1>4. SumResreq(nt, ReleasingKeys(nt))
      = IF s = Releasing THEN Add(Base(tasks, t), r) ELSE Base(tasks, t)
  BY <1>1, <1>2, <1>3, ReleasingSplit
<1>5. Base(tasks, t) \in [Dims -> Nat]
  BY TasksShape, SumType DEF Base
<1>. QED
  BY <1>4, <1>5

LEMMA RemoveTaskRInv ==
    ASSUME RInv, NEW t \in TaskIDs, RemoveTask(t)
    PROVE  RInv'
<1>1. IInv'
  BY RemoveTaskIInv DEF RInv
<1>2. CASE t \notin DOMAIN tasks
  BY <1>1, <1>2 DEF RemoveTask, RInv, UnboundPoolsEmpty, Bound,
     ReleasingWithinReleasingTasks, SumReleasing
<1>3. CASE t \in DOMAIN tasks
  <2>1. tasks' = DeleteTask(tasks, t) /\ UNCHANGED node
    BY <1>3 DEF RemoveTask
  <2>2. SumReleasing' = Base(tasks, t) /\ Base(tasks, t) \in [Dims -> Nat]
    <3>1. SumResreq(DeleteTask(tasks, t), ReleasingKeys(DeleteTask(tasks, t))) = Base(tasks, t)
          /\ Base(tasks, t) \in [Dims -> Nat]
      BY <1>3, DeleteReleasing DEF RInv
    <3>. QED
      BY <2>1, <3>1 DEF SumReleasing
  <2>3. CASE Bound
    <3>1. releasing' = IF tasks[t].status = Releasing
                       THEN Sub(releasing, tasks[t].resreq) ELSE releasing
      BY <1>3, <2>3 DEF RemoveTask
    <3>2. \A d \in Dims : releasing'[d] <= Base(tasks, t)[d]
      BY <1>3, <2>3, <3>1, RemovalBelow
    <3>. QED
      BY <1>1, <2>1, <2>2, <2>3, <3>2 DEF RInv, UnboundPoolsEmpty, Bound,
         ReleasingWithinReleasingTasks
  <2>4. CASE ~Bound
    <3>1. releasing' = EmptyResource /\ idle' = EmptyResource
      BY <1>3, <2>4 DEF RemoveTask, RInv, UnboundPoolsEmpty
    <3>. QED
      BY <1>1, <2>2, <3>1 DEF RInv, UnboundPoolsEmpty, ReleasingWithinReleasingTasks,
         EmptyResource
  <2>. QED
    BY <2>3, <2>4
<1>. QED
  BY <1>2, <1>3
LEMMA UpdateTaskRInv ==
    ASSUME RInv, NEW t \in TaskIDs, NEW r \in Requests, NEW s \in Statuses,
           UpdateTask(t, r, s)
    PROVE  RInv'
<1>1. IInv'
  BY UpdateTaskIInv DEF RInv
<1>2. CASE t \notin DOMAIN tasks
  BY <1>1, <1>2 DEF UpdateTask, RInv, UnboundPoolsEmpty, Bound,
     ReleasingWithinReleasingTasks, SumReleasing
<1>3. CASE t \in DOMAIN tasks
  <2> DEFINE nt == [tasks EXCEPT ![t] = [resreq |-> r, status |-> s]]
             rel1 == IF tasks[t].status = Releasing
                     THEN Sub(releasing, tasks[t].resreq) ELSE releasing
  <2>1. tasks' = nt /\ UNCHANGED node
    BY <1>3 DEF UpdateTask
  <2>2. /\ SumReleasing' = IF s = Releasing THEN Add(Base(tasks, t), r) ELSE Base(tasks, t)
        /\ Base(tasks, t) \in [Dims -> Nat]
    <3>1. /\ SumResreq(nt, ReleasingKeys(nt))
             = IF s = Releasing THEN Add(Base(tasks, t), r) ELSE Base(tasks, t)
          /\ Base(tasks, t) \in [Dims -> Nat]
      BY <1>3, ExceptReleasing DEF RInv
    <3>. QED
      BY <2>1, <3>1 DEF SumReleasing
  <2>3. CASE Bound
    <3>1. releasing' = IF s = Releasing THEN Add(rel1, r) ELSE rel1
      BY <1>3, <2>3 DEF UpdateTask
    <3>2. rel1 \in Vector /\ \A d \in Dims : rel1[d] <= Base(tasks, t)[d]
      BY <1>3, <2>3, RemovalBelow
    <3>3. r \in [Dims -> Quantity]
      BY RequestsAssumption
    <3>4. ASSUME NEW d \in Dims PROVE releasing'[d] <= SumReleasing'[d]
      BY <2>2, <3>1, <3>2, <3>3 DEF Add, Vector, Quantity
    <3>. QED
      BY <1>1, <2>1, <2>3, <3>4 DEF RInv, UnboundPoolsEmpty, Bound,
         ReleasingWithinReleasingTasks
  <2>4. CASE ~Bound
    <3>1. releasing' = EmptyResource /\ idle' = EmptyResource
      BY <1>3, <2>4 DEF UpdateTask, RInv, UnboundPoolsEmpty
    <3>2. SumReleasing' \in [Dims -> Nat]
      BY <2>2, RequestsAssumption DEF Add, Quantity
    <3>. QED
      BY <1>1, <3>1, <3>2 DEF RInv, UnboundPoolsEmpty, ReleasingWithinReleasingTasks,
         EmptyResource
  <2>. QED
    BY <2>3, <2>4
<1>. QED
  BY <1>2, <1>3

\* The first SetNode charges exactly the Releasing tasks to an empty
\* Releasing; a later one leaves the pools and the tasks alone.
LEMMA SetNodeRInv ==
    ASSUME RInv, NEW n \in NodeAllocs, SetNode(n)
    PROVE  RInv'
<1>1. IInv' /\ Bound'
  BY SetNodeIInv, NoNodeAssumption DEF RInv, SetNode, Bound
<1>2. SumReleasing' = SumReleasing /\ SumReleasing \in [Dims -> Nat]
  BY TasksShape, SumType DEF SetNode, SumReleasing, RInv
<1>3. CASE ~Bound
  <2>1. releasing' = Add(EmptyResource, SumReleasing)
    BY <1>3 DEF SetNode, RInv, UnboundPoolsEmpty, SumReleasing
  <2>. QED
    BY <1>1, <1>2, <2>1 DEF RInv, UnboundPoolsEmpty, ReleasingWithinReleasingTasks,
       Add, EmptyResource
<1>4. CASE Bound
  BY <1>1, <1>2, <1>4 DEF SetNode, RInv, UnboundPoolsEmpty, ReleasingWithinReleasingTasks
<1>. QED
  BY <1>3, <1>4

LEMMA NextRInv == RInv /\ [Next]_vars => RInv'
<1> SUFFICES ASSUME RInv, [Next]_vars PROVE RInv'
  OBVIOUS
<1>1. CASE \E n \in NodeAllocs : SetNode(n)
  BY <1>1, SetNodeRInv
<1>2. CASE \E t \in TaskIDs, r \in Requests, s \in Statuses : PipelineTask(t, r, s)
  BY <1>2, PipelineTaskRInv
<1>3. CASE \E t \in TaskIDs, r \in Requests, s \in Statuses : AddTask(t, r, s)
  BY <1>3, AddTaskRInv
<1>4. CASE \E t \in TaskIDs, r \in Requests, s \in Statuses : UpdateTask(t, r, s)
  BY <1>4, UpdateTaskRInv
<1>5. CASE \E t \in TaskIDs : RemoveTask(t)
  BY <1>5, RemoveTaskRInv
<1>6. CASE UNCHANGED vars
  BY <1>6, NextIInv DEF vars, RInv, UnboundPoolsEmpty, ReleasingWithinReleasingTasks,
     SumReleasing, Bound
<1>. QED
  BY <1>1, <1>2, <1>3, <1>4, <1>5, <1>6 DEF Next

\* Releasing is part of Used: the Releasing tasks are among the stored ones.
LEMMA RInvWithinUsed == RInv => ReleasingWithinUsed
<1> SUFFICES ASSUME RInv, NEW d \in Dims PROVE releasing[d] <= used[d]
  BY DEF ReleasingWithinUsed
<1>1. releasing[d] <= SumReleasing[d] /\ releasing \in Vector /\ used \in [Dims -> Nat]
  BY TasksShape DEF RInv, ReleasingWithinReleasingTasks, IInv, TypeOK
<1>2. CASE Bound
  <2>1. used = SumResreq(tasks, DOMAIN tasks)
    BY <1>2 DEF RInv, IInv, UsedMatchesTasks
  <2>2. SumReleasing[d] <= SumResreq(tasks, DOMAIN tasks)[d]
    BY TasksShape, SumMonotone DEF RInv, SumReleasing
  <2>3. SumReleasing \in [Dims -> Nat] /\ SumResreq(tasks, DOMAIN tasks) \in [Dims -> Nat]
    BY TasksShape, SumType DEF RInv, SumReleasing
  <2>. QED
    BY <1>1, <2>1, <2>2, <2>3 DEF Vector
<1>3. CASE ~Bound
  BY <1>1, <1>3 DEF RInv, UnboundPoolsEmpty, EmptyResource
<1>. QED
  BY <1>2, <1>3

(* Releasing never exceeds Used, in any dimension, for every instance and  *)
(* with either Sub semantics: the ledger's Releasing pool of node_info.go  *)
(* stays part of Used through PipelineTask, which takes from Releasing,    *)
(* RemoveTask, which gives back by the stored status, and UpdateTask,      *)
(* which moves a task in and out of the Releasing status.                  *)
THEOREM ReleasingWithinUsedInvariant == Spec => []ReleasingWithinUsed
<1>1. Spec => []RInv
  BY InitRInv, NextRInv, PTL DEF Spec
<1>. QED
  BY <1>1, RInvWithinUsed, PTL
-----------------------------------------------------------------------------
(* CInv is inductive for the callers that never pipeline, when Sub does   *)
(* not clamp and the node object keeps one allocatable.                    *)

\* Without clamping, Sub is the componentwise difference.
LEMMA SubExact ==
    ASSUME ~SubClamps, NEW x, NEW r
    PROVE  Sub(x, r) = [d \in Dims |-> x[d] - r[d]]
BY DEF Sub

\* The sum over the stored tasks splits into task t's request and the rest.
LEMMA AllSplit ==
    ASSUME IInv, NEW tk, DOMAIN tk \subseteq TaskIDs, tk \in [DOMAIN tk -> TaskInfo],
           NEW t \in DOMAIN tk
    PROVE  SumResreq(tk, DOMAIN tk) = Add(SumResreq(tk, DOMAIN tk \ {t}), tk[t].resreq)
<1>1. DOMAIN tk = (DOMAIN tk \ {t}) \cup {t}
  OBVIOUS
<1>2. tk[t].resreq \in [Dims -> Quantity]
  BY RequestsAssumption DEF TaskInfo
<1>. QED
  BY <1>1, <1>2, SumAdd

\* A bound ledger's node is one of the node objects.
LEMMA BoundNode ==
    ASSUME IInv, Bound
    PROVE  node \in NodeAllocs /\ node \in [Dims -> Nat]
BY NodeAllocsAssumption DEF IInv, TypeOK, Bound

LEMMA InitCInv == Init => CInv
<1> SUFFICES ASSUME NEW n \in NodeAllocs \cup {NoNode}, NewNodeInfo(n)
             PROVE  CInv
  BY DEF Init
<1>1. IInv
  BY InitIInv DEF Init
<1>2. ReleasingKeys(tasks) = {} /\ DOMAIN tasks = {}
  BY DEF NewNodeInfo, ReleasingKeys
<1>3. SumReleasing = EmptyResource /\ SumResreq(tasks, DOMAIN tasks) = EmptyResource
  BY <1>2, SumEmpty DEF SumReleasing
<1>4. n # NoNode => Sub(n, EmptyResource) = n
  BY NodeAllocsAssumption, SubClampsAssumption DEF Sub, EmptyResource
<1>. QED
  BY <1>1, <1>3, <1>4 DEF NewNodeInfo, CInv, UnboundPoolsEmpty, PoolsMatchTasks, Bound

LEMMA SetNodeCInv ==
    ASSUME CInv, ~SubClamps, NEW a, NodeAllocs = {a}, NEW n \in NodeAllocs, SetNode(n)
    PROVE  CInv'
<1>1. IInv' /\ Bound' /\ node' = n /\ allocatable' = n /\ UNCHANGED tasks
  BY SetNodeIInv, NoNodeAssumption DEF CInv, SetNode, Bound
<1>2. SumReleasing' = SumReleasing /\ SumReleasing \in [Dims -> Nat]
  BY TasksShape, SumType DEF SetNode, SumReleasing, CInv
<1>3. CASE ~Bound
  <2>1. releasing' = SumReleasing
    <3>1. releasing' = Add(EmptyResource, SumReleasing)
      BY <1>3 DEF SetNode, CInv, UnboundPoolsEmpty, SumReleasing
    <3>2. Add(EmptyResource, SumReleasing) = SumReleasing
      BY <1>2 DEF Add, EmptyResource
    <3>. QED
      BY <3>1, <3>2
  <2>2. idle' = Sub(n, SumResreq(tasks, DOMAIN tasks))
    BY <1>3 DEF SetNode
  <2>. QED
    BY <1>1, <1>2, <2>1, <2>2 DEF CInv, UnboundPoolsEmpty, PoolsMatchTasks, SumReleasing
<1>4. CASE Bound
  <2>1. node = n
    BY <1>4, BoundNode DEF CInv
  <2>. QED
    BY <1>1, <1>2, <1>4, <2>1 DEF SetNode, CInv, UnboundPoolsEmpty, PoolsMatchTasks
<1>. QED
  BY <1>3, <1>4
LEMMA AddTaskCInv ==
    ASSUME CInv, ~SubClamps, NEW t \in TaskIDs, NEW r \in Requests, NEW s \in Statuses,
           AddTask(t, r, s)
    PROVE  CInv'
<1>1. IInv'
  BY AddTaskIInv DEF CInv
<1>2. CASE t \in DOMAIN tasks
  BY <1>1, <1>2 DEF AddTask, CInv, UnboundPoolsEmpty, PoolsMatchTasks, Bound, SumReleasing
<1>3. CASE t \notin DOMAIN tasks
  <2> DEFINE nt == PutTask(tasks, t, [resreq |-> r, status |-> s])
             all == SumResreq(tasks, DOMAIN tasks)
  <2>1. tasks' = nt /\ UNCHANGED <<node, allocatable>>
    BY <1>3 DEF AddTask
  <2>2. /\ SumReleasing = Base(tasks, t)
        /\ SumReleasing' = IF s = Releasing THEN Add(Base(tasks, t), r) ELSE Base(tasks, t)
    <3>1. /\ SumReleasing = Base(tasks, t)
          /\ SumResreq(nt, ReleasingKeys(nt))
             = IF s = Releasing THEN Add(Base(tasks, t), r) ELSE Base(tasks, t)
      BY <1>3, PutReleasing DEF CInv
    <3>. QED
      BY <2>1, <3>1 DEF SumReleasing
  <2>3. SumResreq(tasks', DOMAIN tasks') = Add(all, r) /\ all \in [Dims -> Nat]
    <3>1. DOMAIN nt = DOMAIN tasks \cup {t}
          /\ SumResreq(nt, DOMAIN tasks \cup {t}) = Add(all, r)
      BY <1>3, SumPut DEF CInv, IInv, TaskInfo
    <3>2. all \in [Dims -> Nat]
      BY TasksShape, SumType DEF CInv
    <3>. QED
      BY <2>1, <3>1, <3>2
  <2>4. CASE Bound
    <3>1. releasing' = IF s = Releasing THEN Add(releasing, r) ELSE releasing
      BY <1>3, <2>4 DEF AddTask
    <3>8. idle' = Sub(idle, r)
      BY <1>3, <2>4 DEF AddTask
    <3>2. releasing = SumReleasing /\ idle = Sub(node, all) /\ allocatable = node
      BY <2>4 DEF CInv, PoolsMatchTasks
    <3>3. node \in [Dims -> Nat] /\ r \in [Dims -> Quantity]
      BY <2>4, BoundNode, RequestsAssumption DEF CInv
    <3>4. Sub(Sub(node, all), r) = Sub(node, Add(all, r))
      BY <2>3, <3>3, SubExact DEF Add, Quantity
    <3>5. releasing' = SumReleasing'
      BY <2>2, <3>1, <3>2
    <3>6. idle' = Sub(node', SumResreq(tasks', DOMAIN tasks')) /\ allocatable' = node'
      BY <2>1, <2>3, <3>2, <3>4, <3>8
    <3>7. Bound'
      BY <2>1, <2>4 DEF Bound
    <3>. QED
      BY <1>1, <3>5, <3>6, <3>7 DEF CInv, UnboundPoolsEmpty, PoolsMatchTasks
  <2>5. CASE ~Bound
    BY <1>1, <1>3, <2>1, <2>5 DEF AddTask, CInv, UnboundPoolsEmpty, PoolsMatchTasks, Bound
  <2>. QED
    BY <2>4, <2>5
<1>. QED
  BY <1>2, <1>3

LEMMA RemoveTaskCInv ==
    ASSUME CInv, ~SubClamps, NEW t \in TaskIDs, RemoveTask(t)
    PROVE  CInv'
<1>1. IInv'
  BY RemoveTaskIInv DEF CInv
<1>2. CASE t \notin DOMAIN tasks
  BY <1>1, <1>2 DEF RemoveTask, CInv, UnboundPoolsEmpty, PoolsMatchTasks, Bound, SumReleasing
<1>3. CASE t \in DOMAIN tasks
  <2> DEFINE nt == DeleteTask(tasks, t)
             q == tasks[t].resreq
             rest == SumResreq(tasks, DOMAIN tasks \ {t})
  <2>1. tasks' = nt /\ UNCHANGED <<node, allocatable>>
    BY <1>3 DEF RemoveTask
  <2>2. SumReleasing' = Base(tasks, t)
        /\ SumReleasing = IF t \in ReleasingKeys(tasks) THEN Add(Base(tasks, t), q)
                          ELSE Base(tasks, t)
    <3>1. SumResreq(nt, ReleasingKeys(nt)) = Base(tasks, t)
      BY <1>3, DeleteReleasing DEF CInv
    <3>2. SumReleasing = IF t \in ReleasingKeys(tasks) THEN Add(Base(tasks, t), q)
                         ELSE Base(tasks, t)
      BY TasksShape, ReleasingSplit DEF CInv, SumReleasing
    <3>. QED
      BY <2>1, <3>1, <3>2 DEF SumReleasing
  <2>3. SumResreq(tasks', DOMAIN tasks') = rest
        /\ SumResreq(tasks, DOMAIN tasks) = Add(rest, q)
    <3>1. DOMAIN nt = DOMAIN tasks \ {t} /\ \A x \in DOMAIN tasks \ {t} : nt[x] = tasks[x]
      BY DEF DeleteTask
    <3>2. SumResreq(nt, DOMAIN tasks \ {t}) = rest
      BY <3>1, SumFrame
    <3>3. SumResreq(tasks, DOMAIN tasks) = Add(rest, q)
      BY <1>3, TasksShape, AllSplit DEF CInv
    <3>. QED
      BY <2>1, <3>1, <3>2, <3>3
  <2>4. CASE Bound
    <3>1. releasing' = IF tasks[t].status = Releasing THEN Sub(releasing, q) ELSE releasing
      BY <1>3, <2>4 DEF RemoveTask
    <3>8. idle' = Add(idle, q)
      BY <1>3, <2>4 DEF RemoveTask
    <3>2. releasing = SumReleasing /\ idle = Sub(node, Add(rest, q)) /\ allocatable = node
      BY <2>3, <2>4 DEF CInv, PoolsMatchTasks
    <3>3. node \in [Dims -> Nat] /\ q \in [Dims -> Quantity]
          /\ rest \in [Dims -> Nat] /\ Base(tasks, t) \in [Dims -> Nat]
      BY <1>3, <2>4, BoundNode, TasksShape, SumType, RequestsAssumption
         DEF CInv, TaskInfo, Base
    <3>4. Add(Sub(node, Add(rest, q)), q) = Sub(node, rest)
      BY <3>3 DEF Add, Sub, Quantity
    <3>5. t \in ReleasingKeys(tasks) <=> tasks[t].status = Releasing
      BY <1>3 DEF ReleasingKeys
    <3>6. Sub(Add(Base(tasks, t), q), q) = Base(tasks, t)
      BY <3>3, SubExact DEF Add, Quantity
    <3>7. releasing' = Base(tasks, t)
      BY <2>2, <3>1, <3>2, <3>5, <3>6
    <3>9. idle' = Sub(node', SumResreq(tasks', DOMAIN tasks')) /\ allocatable' = node'
      BY <2>1, <2>3, <3>2, <3>4, <3>8
    <3>10. Bound'
      BY <2>1, <2>4 DEF Bound
    <3>. QED
      BY <1>1, <2>2, <3>7, <3>9, <3>10 DEF CInv, UnboundPoolsEmpty, PoolsMatchTasks
  <2>5. CASE ~Bound
    BY <1>1, <1>3, <2>1, <2>5 DEF RemoveTask, CInv, UnboundPoolsEmpty, PoolsMatchTasks, Bound
  <2>. QED
    BY <2>4, <2>5
<1>. QED
  BY <1>2, <1>3
\* Without clamping, giving a request back to Idle and charging another
\* one moves Idle by their difference.
LEMMA SwapRequest ==
    ASSUME ~SubClamps, NEW x \in [Dims -> Int], NEW y \in [Dims -> Int],
           NEW q \in [Dims -> Int], NEW r \in [Dims -> Int]
    PROVE  Sub(Add(Sub(x, Add(y, q)), q), r) = Sub(x, Add(y, r))
<1>1. Sub(Add(Sub(x, Add(y, q)), q), r) = [d \in Dims |-> x[d] - (y[d] + q[d]) + q[d] - r[d]]
  BY SubClampsAssumption DEF Add, Sub
<1>2. Sub(x, Add(y, r)) = [d \in Dims |-> x[d] - (y[d] + r[d])]
  BY SubClampsAssumption DEF Add, Sub
<1>. QED
  BY <1>1, <1>2

LEMMA UpdateTaskCInv ==
    ASSUME CInv, ~SubClamps, NEW t \in TaskIDs, NEW r \in Requests, NEW s \in Statuses,
           UpdateTask(t, r, s)
    PROVE  CInv'
<1>1. IInv'
  BY UpdateTaskIInv DEF CInv
<1>2. CASE t \notin DOMAIN tasks
  BY <1>1, <1>2 DEF UpdateTask, CInv, UnboundPoolsEmpty, PoolsMatchTasks, Bound, SumReleasing
<1>3. CASE t \in DOMAIN tasks
  <2> DEFINE nt == [tasks EXCEPT ![t] = [resreq |-> r, status |-> s]]
             q == tasks[t].resreq
             rest == SumResreq(tasks, DOMAIN tasks \ {t})
             rel1 == IF tasks[t].status = Releasing THEN Sub(releasing, q) ELSE releasing
  <2>1. tasks' = nt /\ UNCHANGED <<node, allocatable>>
    BY <1>3 DEF UpdateTask
  <2>2. /\ SumReleasing' = IF s = Releasing THEN Add(Base(tasks, t), r) ELSE Base(tasks, t)
        /\ SumReleasing = IF t \in ReleasingKeys(tasks) THEN Add(Base(tasks, t), q)
                          ELSE Base(tasks, t)
    <3>1. SumResreq(nt, ReleasingKeys(nt))
          = IF s = Releasing THEN Add(Base(tasks, t), r) ELSE Base(tasks, t)
      BY <1>3, ExceptReleasing DEF CInv
    <3>2. SumReleasing = IF t \in ReleasingKeys(tasks) THEN Add(Base(tasks, t), q)
                         ELSE Base(tasks, t)
      BY TasksShape, ReleasingSplit DEF CInv, SumReleasing
    <3>. QED
      BY <2>1, <3>1, <3>2 DEF SumReleasing
  <2>3. /\ SumResreq(tasks', DOMAIN tasks') = Add(rest, r)
        /\ SumResreq(tasks, DOMAIN tasks) = Add(rest, q)
    <3>1. DOMAIN nt = DOMAIN tasks /\ nt \in [DOMAIN nt -> TaskInfo]
          /\ DOMAIN nt \subseteq TaskIDs
      BY <1>3, TasksShape DEF CInv, TaskInfo
    <3>2. SumResreq(nt, DOMAIN nt) = Add(SumResreq(nt, DOMAIN nt \ {t}), nt[t].resreq)
      BY <1>3, <3>1, AllSplit DEF CInv
    <3>3. SumResreq(nt, DOMAIN tasks \ {t}) = rest
      BY SumFrame
    <3>4. SumResreq(tasks, DOMAIN tasks) = Add(rest, q)
      BY <1>3, TasksShape, AllSplit DEF CInv
    <3>. QED
      BY <1>3, <2>1, <3>1, <3>2, <3>3, <3>4
  <2>4. CASE Bound
    <3>1. releasing' = IF s = Releasing THEN Add(rel1, r) ELSE rel1
      BY <1>3, <2>4 DEF UpdateTask
    <3>2. idle' = Sub(Add(idle, q), r)
      BY <1>3, <2>4 DEF UpdateTask
    <3>3. releasing = SumReleasing /\ idle = Sub(node, Add(rest, q)) /\ allocatable = node
      BY <2>3, <2>4 DEF CInv, PoolsMatchTasks
    <3>4. node \in [Dims -> Nat] /\ q \in [Dims -> Quantity] /\ r \in [Dims -> Quantity]
          /\ rest \in [Dims -> Nat] /\ Base(tasks, t) \in [Dims -> Nat]
      BY <1>3, <2>4, BoundNode, TasksShape, SumType, RequestsAssumption
         DEF CInv, TaskInfo, Base
    <3>5. Sub(Add(Sub(node, Add(rest, q)), q), r) = Sub(node, Add(rest, r))
      <4> HIDE DEF rest, q
      <4>1. node \in [Dims -> Int] /\ rest \in [Dims -> Int]
            /\ q \in [Dims -> Int] /\ r \in [Dims -> Int]
        BY <3>4 DEF Quantity
      <4>. QED
        BY <4>1, SwapRequest
    <3>6. t \in ReleasingKeys(tasks) <=> tasks[t].status = Releasing
      BY <1>3 DEF ReleasingKeys
    <3>7. Sub(Add(Base(tasks, t), q), q) = Base(tasks, t)
      BY <3>4 DEF Add, Sub, Quantity
    <3>8. rel1 = Base(tasks, t)
      BY <2>2, <3>3, <3>6, <3>7
    <3>9. releasing' = SumReleasing'
      BY <2>2, <3>1, <3>8
    <3>10. idle' = Sub(node', SumResreq(tasks', DOMAIN tasks')) /\ allocatable' = node'
      BY <2>1, <2>3, <3>2, <3>3, <3>5
    <3>11. Bound'
      BY <2>1, <2>4 DEF Bound
    <3>. QED
      BY <1>1, <3>9, <3>10, <3>11 DEF CInv, UnboundPoolsEmpty, PoolsMatchTasks
  <2>5. CASE ~Bound
    BY <1>1, <1>3, <2>1, <2>5 DEF UpdateTask, CInv, UnboundPoolsEmpty, PoolsMatchTasks, Bound
  <2>. QED
    BY <2>4, <2>5
<1>. QED
  BY <1>2, <1>3

LEMMA NextNoPipelineCInv ==
    ASSUME ~SubClamps, NEW a, NodeAllocs = {a}
    PROVE  CInv /\ [NextNoPipeline]_vars => CInv'
<1> SUFFICES ASSUME CInv, [NextNoPipeline]_vars PROVE CInv'
  OBVIOUS
<1>1. CASE \E n \in NodeAllocs : SetNode(n)
  BY <1>1, SetNodeCInv
<1>2. CASE \E t \in TaskIDs, r \in Requests, s \in Statuses : AddTask(t, r, s)
  BY <1>2, AddTaskCInv
<1>3. CASE \E t \in TaskIDs, r \in Requests, s \in Statuses : UpdateTask(t, r, s)
  BY <1>3, UpdateTaskCInv
<1>4. CASE \E t \in TaskIDs : RemoveTask(t)
  BY <1>4, RemoveTaskCInv
<1>5. CASE UNCHANGED vars
  BY <1>5, NextIInv DEF vars, CInv, UnboundPoolsEmpty, PoolsMatchTasks, SumReleasing, Bound
<1>. QED
  BY <1>1, <1>2, <1>3, <1>4, <1>5 DEF NextNoPipeline

\* Idle + Used is the node's allocatable once the pools match the tasks.
LEMMA CInvConservation ==
    ASSUME ~SubClamps
    PROVE  CInv => Conservation
<1> SUFFICES ASSUME CInv, Bound PROVE Add(idle, used) = allocatable
  BY DEF Conservation
<1>1. used = SumResreq(tasks, DOMAIN tasks) /\ used \in [Dims -> Nat]
  BY DEF CInv, IInv, UsedMatchesTasks, TypeOK
<1>2. idle = Sub(node, used) /\ allocatable = node /\ node \in [Dims -> Nat]
  BY <1>1, BoundNode DEF CInv, PoolsMatchTasks
<1>. QED
  BY <1>1, <1>2 DEF Add, Sub

LEMMA CInvInvariant ==
    ASSUME ~SubClamps, NEW a, NodeAllocs = {a}
    PROVE  SpecNoPipeline => []CInv
BY InitCInv, NextNoPipelineCInv, PTL DEF SpecNoPipeline

(* Idle + Used = Allocatable on a bound ledger, for every set of            *)
(* dimensions, tasks and requests, when the caller never pipelines, Sub    *)
(* does not clamp, and the node object keeps one allocatable: the          *)
(* conservation law of node_info.go's AddTask, RemoveTask, UpdateTask and  *)
(* SetNode.  The runs nodeinfo_pipeline_drift, nodeinfo_clamping_sub and   *)
(* nodeinfo_node_update show that each of the three conditions is needed.  *)
THEOREM ConservationInvariant ==
    ASSUME ~SubClamps, NEW a, NodeAllocs = {a}
    PROVE  SpecNoPipeline => []Conservation
BY CInvInvariant, CInvConservation, PTL
=============================================================================
