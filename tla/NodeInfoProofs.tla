---------------------------- MODULE NodeInfoProofs ----------------------------
(***************************************************************************)
(* Proofs about the node ledger of NodeInfo, for every value of the       *)
(* constants that satisfies the module's assumptions.                      *)
(***************************************************************************)
EXTENDS NodeInfo, FiniteSetTheorems, TLAPS

-----------------------------------------------------------------------------
(* Lemmas about SumResreq, the sum of the requests of a set of tasks.     *)

\* The unit slots of the tasks with keys in a set of task ids are finite.
LEMMA SlotsFinite ==
    ASSUME NEW tk, NEW S \in SUBSET TaskIDs, NEW d
    PROVE  IsFiniteSet(ReqSlots(tk, S, d))
<1>1. IsFiniteSet(1..MaxReq)
  BY MaxReqAssumption, FS_Interval
<1>2. IsFiniteSet(TaskIDs \X (1..MaxReq))
  BY <1>1, TaskIDsAssumption, FS_Product
<1>3. ReqSlots(tk, S, d) \subseteq TaskIDs \X (1..MaxReq)
  BY DEF ReqSlots
<1>. QED
  BY <1>2, <1>3, FS_Subset

\* A sum of requests is a vector of naturals.
LEMMA SumType ==
    ASSUME NEW tk, NEW S \in SUBSET TaskIDs
    PROVE  SumResreq(tk, S) \in [Dims -> Nat]
BY SlotsFinite, FS_CardinalityType DEF SumResreq

\* The sum over a set of keys depends only on the tasks with those keys.
LEMMA SumFrame ==
    ASSUME NEW tk, NEW tk2, NEW S, \A x \in S : tk[x] = tk2[x]
    PROVE  SumResreq(tk, S) = SumResreq(tk2, S)
<1>. \A d : ReqSlots(tk, S, d) = ReqSlots(tk2, S, d)
  BY DEF ReqSlots
<1>. QED
  BY DEF SumResreq

\* The sum over the empty set is the empty resource.
LEMMA SumEmpty ==
    ASSUME NEW tk
    PROVE  SumResreq(tk, {}) = EmptyResource
<1>. \A d : ReqSlots(tk, {}, d) = {}
  BY DEF ReqSlots
<1>. QED
  BY FS_EmptySet DEF SumResreq, EmptyResource

\* Adding a task with a new key adds its request to the sum.
LEMMA SumAdd ==
    ASSUME NEW tk, NEW S \in SUBSET TaskIDs, NEW t \in TaskIDs \ S,
           tk[t].resreq \in [Dims -> Quantity]
    PROVE  SumResreq(tk, S \cup {t}) = Add(SumResreq(tk, S), tk[t].resreq)
<1> SUFFICES ASSUME NEW d \in Dims
             PROVE  Cardinality(ReqSlots(tk, S \cup {t}, d))
                    = Cardinality(ReqSlots(tk, S, d)) + tk[t].resreq[d]
  BY DEF SumResreq, Add
<1> DEFINE q == tk[t].resreq[d]
           A == ReqSlots(tk, S, d)
           B == {t} \X (1..q)
<1>1. q \in 0..MaxReq
  BY DEF Quantity
<1>2. ReqSlots(tk, S \cup {t}, d) = A \cup B
  <2>1. ASSUME NEW p \in ReqSlots(tk, S \cup {t}, d) PROVE p \in A \cup B
    BY <1>1, MaxReqAssumption DEF ReqSlots
  <2>2. ASSUME NEW p \in A \cup B PROVE p \in ReqSlots(tk, S \cup {t}, d)
    <3>1. CASE p \in A
      BY <3>1 DEF ReqSlots
    <3>2. CASE p \in B
      BY <3>2, <1>1, MaxReqAssumption DEF ReqSlots
    <3>. QED
      BY <3>1, <3>2
  <2>. QED
    BY <2>1, <2>2
<1>3. A \cap B = {}
  BY DEF ReqSlots
<1>4. IsFiniteSet(B) /\ Cardinality(B) = q
  <2>1. q \in Nat
    BY <1>1, MaxReqAssumption
  <2>2. IsFiniteSet(1..q) /\ Cardinality(1..q) = q
    <3>0. 1 \in Int /\ q \in Int
      BY <2>1
    <3>1. IsFiniteSet(1..q) /\ Cardinality(1..q) = IF 1 > q THEN 0 ELSE q - 1 + 1
      BY <3>0, FS_Interval, Zenon
    <3>. QED
      BY <2>1, <3>1
  <2>3. IsFiniteSet({t}) /\ Cardinality({t}) = 1
    BY FS_Singleton
  <2>4. IsFiniteSet({t} \X (1..q)) /\ Cardinality({t} \X (1..q)) = 1 * q
    BY <2>2, <2>3, FS_Product
  <2>. QED
    BY <2>1, <2>4
<1>5. IsFiniteSet(A)
  BY SlotsFinite
<1>6. Cardinality(A \cup B) = Cardinality(A) + Cardinality(B) - Cardinality(A \cap B)
  BY <1>4, <1>5, FS_Union
<1>7. Cardinality(A) \in Nat
  BY <1>5, FS_CardinalityType
<1>8. Cardinality(A \cap B) = 0
  BY <1>3, FS_EmptySet
<1>9. q \in Nat
  BY <1>1, MaxReqAssumption
<1>10. Cardinality(A \cup B) = Cardinality(A) + q
  BY <1>4, <1>6, <1>7, <1>8, <1>9
<1>. QED
  BY <1>2, <1>10
-----------------------------------------------------------------------------
(* The inductive invariant behind TypeOK and UsedMatchesTasks.  Used is   *)
(* not negative because it is the sum of the requests of the stored tasks *)
(* (so RemoveTask's Used.Sub never underflows), and that sum is kept      *)
(* through the first SetNode only because an unbound ledger's Used is     *)
(* still empty when SetNode charges every stored task to it.              *)

UnboundUsedEmpty == ~Bound => used = EmptyResource

IInv == TypeOK /\ UsedMatchesTasks /\ UnboundUsedEmpty

\* The sum over the stored tasks is a vector of naturals.
LEMMA SumTasksType ==
    ASSUME TypeOK, NEW S \in SUBSET DOMAIN tasks
    PROVE  SumResreq(tasks, S) \in [Dims -> Nat]
BY SumType DEF TypeOK

\* NewNodeInfo, bound or not, starts in a state of IInv.
LEMMA InitIInv == Init => IInv
<1> SUFFICES ASSUME NEW n \in NodeAllocs \cup {NoNode}, NewNodeInfo(n)
             PROVE  IInv
  BY DEF Init
<1>1. DOMAIN tasks = {}
  BY DEF NewNodeInfo
<1>2. SumResreq(tasks, {}) = EmptyResource
  BY SumEmpty
<1>3. TypeOK
  BY NodeAllocsAssumption DEF NewNodeInfo, TypeOK, EmptyResource, Vector, Errors
<1>. QED
  BY <1>1, <1>2, <1>3 DEF NewNodeInfo, IInv, UsedMatchesTasks, UnboundUsedEmpty

\* SetNode, first binding with replay or rebinding, preserves IInv.
LEMMA SetNodeIInv ==
    ASSUME IInv, NEW n \in NodeAllocs, SetNode(n)
    PROVE  IInv'
<1>1. SumResreq(tasks, DOMAIN tasks) \in [Dims -> Nat]
      /\ SumResreq(tasks, ReleasingKeys(tasks)) \in [Dims -> Nat]
  BY SumTasksType DEF IInv, ReleasingKeys
<1>2. n \in [Dims -> Nat] /\ Bound'
  BY NodeAllocsAssumption, NoNodeAssumption DEF SetNode, Bound
<1>3. CASE ~Bound
  <2>1. used' = SumResreq(tasks, DOMAIN tasks)
    BY <1>1, <1>3 DEF SetNode, IInv, UnboundUsedEmpty, Add, EmptyResource
  <2>2. TypeOK'
    BY <1>1, <1>2, <1>3, <2>1, SubClampsAssumption
       DEF SetNode, IInv, TypeOK, Add, Sub, Vector, Errors
  <2>. QED
    BY <1>2, <2>1, <2>2 DEF SetNode, IInv, UsedMatchesTasks, UnboundUsedEmpty
<1>4. CASE Bound
  BY <1>2, <1>4, NodeAllocsAssumption
     DEF SetNode, IInv, TypeOK, UsedMatchesTasks, UnboundUsedEmpty, Errors
<1>. QED
  BY <1>3, <1>4

\* Storing a task under a new key adds its request to the sum over the
\* stored tasks.
LEMMA SumPut ==
    ASSUME TypeOK, NEW t \in TaskIDs \ DOMAIN tasks, NEW ti \in TaskInfo
    PROVE  /\ DOMAIN PutTask(tasks, t, ti) = DOMAIN tasks \cup {t}
           /\ SumResreq(PutTask(tasks, t, ti), DOMAIN tasks \cup {t})
              = Add(SumResreq(tasks, DOMAIN tasks), ti.resreq)
<1> DEFINE tk2 == PutTask(tasks, t, ti)
<1>1. DOMAIN tk2 = DOMAIN tasks \cup {t} /\ tk2[t] = ti
  BY DEF PutTask
<1>2. SumResreq(tk2, DOMAIN tasks) = SumResreq(tasks, DOMAIN tasks)
  <2>1. \A x \in DOMAIN tasks : tk2[x] = tasks[x]
    BY DEF PutTask
  <2>. QED
    BY <2>1, SumFrame
<1>3. ti.resreq \in [Dims -> Quantity]
  BY RequestsAssumption DEF TaskInfo
<1>4. SumResreq(tk2, DOMAIN tasks \cup {t}) = Add(SumResreq(tk2, DOMAIN tasks), tk2[t].resreq)
  BY <1>1, <1>3, SumAdd DEF TypeOK
<1>. QED
  BY <1>1, <1>2, <1>4

\* Removing the task with a present key takes its request out of the sum.
LEMMA SumDelete ==
    ASSUME TypeOK, NEW t \in DOMAIN tasks
    PROVE  /\ DOMAIN DeleteTask(tasks, t) = DOMAIN tasks \ {t}
           /\ SumResreq(tasks, DOMAIN tasks)
              = Add(SumResreq(DeleteTask(tasks, t), DOMAIN tasks \ {t}),
                    tasks[t].resreq)
<1> DEFINE S == DOMAIN tasks \ {t}
<1>1. DOMAIN DeleteTask(tasks, t) = S
  BY DEF DeleteTask
<1>2. SumResreq(DeleteTask(tasks, t), S) = SumResreq(tasks, S)
  BY SumFrame DEF DeleteTask
<1>3. tasks[t].resreq \in [Dims -> Quantity]
  BY RequestsAssumption DEF TypeOK, TaskInfo
<1>4. S \cup {t} = DOMAIN tasks
  OBVIOUS
<1>5. SumResreq(tasks, S \cup {t}) = Add(SumResreq(tasks, S), tasks[t].resreq)
  BY <1>3, SumAdd DEF TypeOK
<1>. QED
  BY <1>1, <1>2, <1>4, <1>5

\* AddTask preserves IInv, on a duplicate key and on a new one.
LEMMA AddTaskIInv ==
    ASSUME IInv, NEW t \in TaskIDs, NEW r \in Requests, NEW s \in Statuses,
           AddTask(t, r, s)
    PROVE  IInv'
<1>1. CASE t \in DOMAIN tasks
  BY <1>1 DEF AddTask, IInv, TypeOK, UsedMatchesTasks, UnboundUsedEmpty, Bound, Errors
<1>2. CASE t \notin DOMAIN tasks
  <2> DEFINE ti == [resreq |-> r, status |-> s]
  <2>1. ti \in TaskInfo
    BY DEF TaskInfo
  <2>2. r \in [Dims -> Quantity]
    BY RequestsAssumption
  <2>3. tasks' = PutTask(tasks, t, ti) /\ UNCHANGED <<node, allocatable>>
    BY <1>2 DEF AddTask
  <2>4. DOMAIN tasks' = DOMAIN tasks \cup {t}
        /\ SumResreq(tasks', DOMAIN tasks') = Add(SumResreq(tasks, DOMAIN tasks), r)
    BY <1>2, <2>1, <2>3, SumPut DEF IInv
  <2>5. tasks' \in [DOMAIN tasks' -> TaskInfo]
    BY <2>1, <2>3 DEF PutTask, IInv, TypeOK
  <2>6. CASE Bound
    <3>1. used' = Add(used, r) /\ used = SumResreq(tasks, DOMAIN tasks)
      BY <1>2, <2>6 DEF AddTask, IInv, UsedMatchesTasks
    <3>2. UsedMatchesTasks'
      BY <2>3, <2>4, <3>1 DEF UsedMatchesTasks, Bound
    <3>3. TypeOK'
      BY <1>2, <2>2, <2>3, <2>4, <2>5, <2>6, SubClampsAssumption
         DEF AddTask, IInv, TypeOK, Add, Sub, Vector, Errors, Quantity
    <3>. QED
      BY <2>3, <2>6, <3>2, <3>3 DEF IInv, UnboundUsedEmpty, Bound
  <2>7. CASE ~Bound
    <3>1. TypeOK'
      BY <1>2, <2>3, <2>4, <2>5, <2>7 DEF AddTask, IInv, TypeOK, Errors
    <3>. QED
      BY <1>2, <2>3, <2>7, <3>1 DEF AddTask, IInv, UnboundUsedEmpty, UsedMatchesTasks, Bound
  <2>. QED
    BY <2>6, <2>7
<1>. QED
  BY <1>1, <1>2

\* PipelineTask preserves IInv: Used grows by exactly the pipelined request.
LEMMA PipelineTaskIInv ==
    ASSUME IInv, NEW t \in TaskIDs, NEW r \in Requests, NEW s \in Statuses,
           PipelineTask(t, r, s)
    PROVE  IInv'
<1>1. CASE t \in DOMAIN tasks
  BY <1>1 DEF PipelineTask, IInv, TypeOK, UsedMatchesTasks, UnboundUsedEmpty, Bound, Errors
<1>2. CASE t \notin DOMAIN tasks
  <2> DEFINE ti == [resreq |-> r, status |-> s]
  <2>1. ti \in TaskInfo
    BY DEF TaskInfo
  <2>2. r \in [Dims -> Quantity]
    BY RequestsAssumption
  <2>3. tasks' = PutTask(tasks, t, ti) /\ UNCHANGED <<node, idle, allocatable>>
    BY <1>2 DEF PipelineTask
  <2>4. DOMAIN tasks' = DOMAIN tasks \cup {t}
        /\ SumResreq(tasks', DOMAIN tasks') = Add(SumResreq(tasks, DOMAIN tasks), r)
    BY <1>2, <2>1, <2>3, SumPut DEF IInv
  <2>5. tasks' \in [DOMAIN tasks' -> TaskInfo]
    BY <2>1, <2>3 DEF PutTask, IInv, TypeOK
  <2>6. CASE Bound
    <3>1. used' = Add(used, r) /\ used = SumResreq(tasks, DOMAIN tasks)
      BY <1>2, <2>6 DEF PipelineTask, IInv, UsedMatchesTasks
    <3>2. UsedMatchesTasks'
      BY <2>3, <2>4, <3>1 DEF UsedMatchesTasks, Bound
    <3>3. TypeOK'
      BY <1>2, <2>2, <2>3, <2>4, <2>5, <2>6, SubClampsAssumption
         DEF PipelineTask, IInv, TypeOK, Add, Sub, Vector, Errors, Quantity
    <3>. QED
      BY <2>3, <2>6, <3>2, <3>3 DEF IInv, UnboundUsedEmpty, Bound
  <2>7. CASE ~Bound
    <3>1. TypeOK'
      BY <1>2, <2>3, <2>4, <2>5, <2>7 DEF PipelineTask, IInv, TypeOK, Errors
    <3>. QED
      BY <1>2, <2>3, <2>7, <3>1 DEF PipelineTask, IInv, UnboundUsedEmpty, UsedMatchesTasks, Bound
  <2>. QED
    BY <2>6, <2>7
<1>. QED
  BY <1>1, <1>2

\* RemoveTask preserves IInv: Used loses exactly the stored request.
LEMMA RemoveTaskIInv ==
    ASSUME IInv, NEW t \in TaskIDs, RemoveTask(t)
    PROVE  IInv'
<1>1. CASE t \notin DOMAIN tasks
  BY <1>1 DEF RemoveTask, IInv, TypeOK, UsedMatchesTasks, UnboundUsedEmpty, Bound, Errors
<1>2. CASE t \in DOMAIN tasks
  <2> DEFINE rest == SumResreq(DeleteTask(tasks, t), DOMAIN tasks \ {t})
             q == tasks[t].resreq
  <2>1. tasks' = DeleteTask(tasks, t) /\ UNCHANGED <<node, allocatable>>
    BY <1>2 DEF RemoveTask
  <2>2. DOMAIN tasks' = DOMAIN tasks \ {t}
        /\ SumResreq(tasks, DOMAIN tasks) = Add(rest, q)
    BY <1>2, <2>1, SumDelete DEF IInv
  <2>3. tasks' \in [DOMAIN tasks' -> TaskInfo]
    BY <2>1, <2>2 DEF DeleteTask, IInv, TypeOK
  <2>4. rest \in [Dims -> Nat] /\ q \in [Dims -> Quantity]
    BY <1>2, SumType, RequestsAssumption DEF IInv, TypeOK, TaskInfo
  <2>5. CASE Bound
    <3>1. used = Add(rest, q) /\ used' = Sub(used, q)
      BY <1>2, <2>2, <2>5 DEF RemoveTask, IInv, UsedMatchesTasks
    <3>2. used' = rest
      <4> HIDE DEF rest
      <4>1. \A d \in Dims : Sub(Add(rest, q), q)[d] = rest[d]
        BY <2>4, SubClampsAssumption DEF Add, Sub, Quantity
      <4>2. Sub(Add(rest, q), q) \in [Dims -> Int]
        BY <2>4 DEF Add, Sub, Quantity
      <4>. QED
        BY <2>4, <3>1, <4>1, <4>2
    <3>3. TypeOK'
      <4> HIDE DEF rest
      <4>. QED
        BY <2>1, <2>2, <2>3, <2>4, <2>5, <3>2, SubClampsAssumption
           DEF RemoveTask, IInv, TypeOK, Add, Sub, Vector, Errors, Quantity
    <3>. QED
      BY <2>1, <2>2, <2>5, <3>2, <3>3 DEF IInv, UsedMatchesTasks, UnboundUsedEmpty, Bound
  <2>6. CASE ~Bound
    <3>1. TypeOK'
      BY <1>2, <2>1, <2>2, <2>3, <2>6 DEF RemoveTask, IInv, TypeOK, Errors
    <3>. QED
      BY <1>2, <2>1, <2>6, <3>1 DEF RemoveTask, IInv, UnboundUsedEmpty, UsedMatchesTasks, Bound
  <2>. QED
    BY <2>5, <2>6
<1>. QED
  BY <1>1, <1>2

\* UpdateTask preserves IInv: Used swaps the old request for the new one.
LEMMA UpdateTaskIInv ==
    ASSUME IInv, NEW t \in TaskIDs, NEW r \in Requests, NEW s \in Statuses,
           UpdateTask(t, r, s)
    PROVE  IInv'
<1>1. CASE t \notin DOMAIN tasks
  BY <1>1 DEF UpdateTask, IInv, TypeOK, UsedMatchesTasks, UnboundUsedEmpty, Bound, Errors
<1>2. CASE t \in DOMAIN tasks
  <2> DEFINE D == DOMAIN tasks
             rest == SumResreq(DeleteTask(tasks, t), D \ {t})
             q == tasks[t].resreq
             ti == [resreq |-> r, status |-> s]
             nt == [tasks EXCEPT ![t] = ti]
  <2>1. tasks' = nt /\ UNCHANGED <<node, allocatable>>
    BY <1>2 DEF UpdateTask
  <2>2. ti \in TaskInfo /\ r \in [Dims -> Quantity]
    BY RequestsAssumption DEF TaskInfo
  <2>3. DOMAIN nt = D /\ nt \in [D -> TaskInfo]
    BY <1>2, <2>2 DEF IInv, TypeOK
  <2>4. SumResreq(tasks, D) = Add(rest, q)
    BY <1>2, SumDelete DEF IInv
  <2>5. SumResreq(nt, D \ {t}) = rest
    <3>1. \A x \in D \ {t} : nt[x] = DeleteTask(tasks, t)[x]
      BY DEF DeleteTask
    <3>. QED
      BY <3>1, SumFrame
  <2>6. SumResreq(nt, D) = Add(rest, r)
    <3>1. D = (D \ {t}) \cup {t}
      BY <1>2
    <3>2. D \ {t} \in SUBSET TaskIDs /\ t \in TaskIDs \ (D \ {t})
      BY DEF IInv, TypeOK
    <3>3. nt[t].resreq \in [Dims -> Quantity]
      BY <1>2, <2>2
    <3>4. SumResreq(nt, (D \ {t}) \cup {t}) = Add(SumResreq(nt, D \ {t}), nt[t].resreq)
      BY <3>2, <3>3, SumAdd
    <3>. QED
      BY <1>2, <3>1, <3>4, <2>5
  <2>7. rest \in [Dims -> Nat] /\ q \in [Dims -> Quantity]
    BY <1>2, SumType, RequestsAssumption DEF IInv, TypeOK, TaskInfo
  <2>8. CASE Bound
    <3>1. used = Add(rest, q) /\ used' = Add(Sub(used, q), r)
      BY <1>2, <2>4, <2>8 DEF UpdateTask, IInv, UsedMatchesTasks
    <3>2. used' = Add(rest, r)
      <4> HIDE DEF rest, q
      <4>1. \A d \in Dims : Add(Sub(Add(rest, q), q), r)[d] = Add(rest, r)[d]
        BY <2>2, <2>7, SubClampsAssumption DEF Add, Sub, Quantity
      <4>2. Add(Sub(Add(rest, q), q), r) \in [Dims -> Int] /\ Add(rest, r) \in [Dims -> Int]
        BY <2>2, <2>7 DEF Add, Sub, Quantity
      <4>. QED
        BY <3>1, <4>1, <4>2
    <3>3. TypeOK'
      <4> HIDE DEF rest
      <4>1. releasing' \in Vector
        <5> DEFINE rel1 == IF Bound /\ tasks[t].status = Releasing
                           THEN Sub(releasing, q) ELSE releasing
        <5>1. rel1 \in Vector
          BY <2>7, SubClampsAssumption DEF IInv, TypeOK, Sub, Vector, Quantity
        <5>2. releasing' = IF Bound /\ s = Releasing THEN Add(rel1, r) ELSE rel1
          BY <1>2 DEF UpdateTask
        <5>. QED
          BY <2>2, <5>1, <5>2 DEF Add, Vector, Quantity
      <4>2. idle' \in Vector
        BY <1>2, <2>2, <2>7, <2>8, SubClampsAssumption
           DEF UpdateTask, IInv, TypeOK, Add, Sub, Vector, Quantity
      <4>3. used' \in [Dims -> Nat]
        BY <2>2, <2>7, <3>2 DEF Add, Quantity
      <4>4. err' \in Errors
        BY <1>2 DEF UpdateTask, Errors
      <4>. QED
        BY <2>1, <2>3, <4>1, <4>2, <4>3, <4>4 DEF IInv, TypeOK
    <3>. QED
      BY <2>1, <2>3, <2>6, <2>8, <3>2, <3>3 DEF IInv, UsedMatchesTasks, UnboundUsedEmpty, Bound
  <2>9. CASE ~Bound
    <3>1. TypeOK'
      BY <1>2, <2>1, <2>2, <2>3, <2>9 DEF UpdateTask, IInv, TypeOK, Errors
    <3>. QED
      BY <1>2, <2>1, <2>9, <3>1 DEF UpdateTask, IInv, UnboundUsedEmpty, UsedMatchesTasks, Bound
  <2>. QED
    BY <2>8, <2>9
<1>. QED
  BY <1>1, <1>2

\* IInv is inductive: every step of Next, and every stutter, preserves it.
LEMMA NextIInv == IInv /\ [Next]_vars => IInv'
<1> SUFFICES ASSUME IInv, [Next]_vars PROVE IInv'
  OBVIOUS
<1>1. CASE \E n \in NodeAllocs : SetNode(n)
  BY <1>1, SetNodeIInv
<1>2. CASE \E t \in TaskIDs, r \in Requests, s \in Statuses : PipelineTask(t, r, s)
  BY <1>2, PipelineTaskIInv
<1>3. CASE \E t \in TaskIDs, r \in Requests, s \in Statuses : AddTask(t, r, s)
  BY <1>3, AddTaskIInv
<1>4. CASE \E t \in TaskIDs, r \in Requests, s \in Statuses : UpdateTask(t, r, s)
  BY <1>4, UpdateTaskIInv
<1>5. CASE \E t \in TaskIDs : RemoveTask(t)
  BY <1>5, RemoveTaskIInv
<1>6. CASE UNCHANGED vars
  BY <1>6 DEF vars, IInv, TypeOK, UsedMatchesTasks, UnboundUsedEmpty, Bound
<1>. QED
  BY <1>1, <1>2, <1>3, <1>4, <1>5, <1>6 DEF Next

(* Every reachable state satisfies the inductive invariant IInv.           *)
THEOREM IInvInvariant == Spec => []IInv
BY InitIInv, NextIInv, PTL DEF Spec

(* Type correctness of the ledger: whatever sequence of SetNode,           *)
(* PipelineTask, AddTask, RemoveTask and UpdateTask calls NodeInfo         *)
(* receives, its pools stay integer vectors, Used stays non-negative and   *)
(* Tasks stays a map from task keys to task records.                       *)
THEOREM TypeCorrect == Spec => []TypeOK
BY IInvInvariant, PTL DEF IInv

(* The ledger's Used vector always equals the sum of the requests of the   *)
(* tasks it holds, on a bound NodeInfo, for every number of dimensions,    *)
(* tasks and request sizes: AddTask, PipelineTask, RemoveTask, UpdateTask  *)
(* and the replay in SetNode keep node_info.go's Used in step with Tasks.  *)
THEOREM UsedMatchesTasksInvariant == Spec => []UsedMatchesTasks
BY IInvInvariant, PTL DEF IInv
============================================================================
