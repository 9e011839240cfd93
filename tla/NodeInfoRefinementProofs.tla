-------------------------- MODULE NodeInfoRefinementProofs --------------------------
(***************************************************************************)
(* Proof that NodeInfo, driven without PipelineTask, on one node object    *)
(* and with a Sub that keeps negative differences, implements NodeLedger:  *)
(* its incrementally kept pools are at every step the from-scratch replay  *)
(* of the stored tasks, and its failed calls change nothing.  It rests on  *)
(* CInv of NodeInfoPoolProofs, which says the pools match the tasks.       *)
(***************************************************************************)
EXTENDS NodeInfoPoolProofs

\* The pools of NodeInfo, as the record NodeLedger's pools variable holds.
PoolRecord == [releasing |-> releasing, idle |-> idle, used |-> used,
               allocatable |-> allocatable]

\* An unbound ledger's Allocatable is the empty resource of NewNodeInfo(nil).
UnboundAllocEmpty == ~Bound => allocatable = EmptyResource

LInv == CInv /\ UnboundAllocEmpty

-----------------------------------------------------------------------------
(* The abstract pools are NodeInfo's.                                      *)

\* NodeLedger's Load is NodeInfo's SumResreq.
LEMMA LoadIsSum ==
    ASSUME NEW tk, NEW S
    PROVE  NL!Load(tk, S) = SumResreq(tk, S)
BY DEF NL!Load, SumResreq, ReqSlots, NL!Cardinality, Cardinality

\* Pools rl, il, us, al that match the tasks tk of a ledger bound to nd (or
\* unbound, nd = NoNode) the way CInv says.
PoolsMatch(nd, tk, rl, il, us, al) ==
    /\ nd # NoNode => /\ rl = SumResreq(tk, ReleasingKeys(tk))
                      /\ il = Sub(nd, SumResreq(tk, DOMAIN tk))
                      /\ us = SumResreq(tk, DOMAIN tk)
                      /\ al = nd
    /\ nd = NoNode => /\ rl = EmptyResource /\ il = EmptyResource
                      /\ us = EmptyResource /\ al = EmptyResource

\* Such pools are NodeLedger's replay; stated for any values, so that it
\* applies to a state and to its successor.
LEMMA PoolsOf ==
    ASSUME ~SubClamps
    PROVE  \A nd, tk, rl, il, us, al :
             PoolsMatch(nd, tk, rl, il, us, al)
             => [releasing |-> rl, idle |-> il, used |-> us, allocatable |-> al]
                  = NL!Pools(nd, tk)
<1> SUFFICES ASSUME NEW nd, NEW tk, NEW rl, NEW il, NEW us, NEW al,
                    PoolsMatch(nd, tk, rl, il, us, al)
             PROVE  [releasing |-> rl, idle |-> il, used |-> us, allocatable |-> al]
                      = NL!Pools(nd, tk)
  OBVIOUS
<1>1. NL!Load(tk, DOMAIN tk) = SumResreq(tk, DOMAIN tk)
  BY LoadIsSum
<1>2. NL!Load(tk, {t \in DOMAIN tk : tk[t].status = "Releasing"})
        = SumResreq(tk, ReleasingKeys(tk))
  BY LoadIsSum DEF ReleasingKeys, Releasing
<1>3. CASE nd # NoNode
  <2>1. il = [d \in Dims |-> nd[d] - SumResreq(tk, DOMAIN tk)[d]]
    BY <1>3 DEF PoolsMatch, Sub
  <2>. QED
    BY <1>1, <1>2, <1>3, <2>1 DEF PoolsMatch, NL!Pools
<1>4. CASE nd = NoNode
  BY <1>4 DEF PoolsMatch, NL!Pools, NL!Zero, EmptyResource
<1>. QED
  BY <1>3, <1>4

\* Under LInv, NodeInfo's pools are the replay NodeLedger prescribes.
LEMMA PoolsMapped ==
    ASSUME ~SubClamps, LInv
    PROVE  PoolRecord = NL!Pools(node, tasks)
<1>1. Bound => /\ releasing = SumResreq(tasks, ReleasingKeys(tasks))
               /\ idle = Sub(node, SumResreq(tasks, DOMAIN tasks))
               /\ used = SumResreq(tasks, DOMAIN tasks)
               /\ allocatable = node
  BY DEF LInv, CInv, PoolsMatchTasks, SumReleasing, IInv, UsedMatchesTasks
<1>2. ~Bound => releasing = EmptyResource /\ idle = EmptyResource
                /\ used = EmptyResource /\ allocatable = EmptyResource
  BY DEF LInv, CInv, IInv, UnboundUsedEmpty, UnboundPoolsEmpty, UnboundAllocEmpty
<1>3. PoolsMatch(node, tasks, releasing, idle, used, allocatable)
  BY <1>1, <1>2 DEF PoolsMatch, Bound
<1>. QED
  BY <1>3, PoolsOf DEF PoolRecord

-----------------------------------------------------------------------------
(* LInv is inductive.                                                      *)

LEMMA InitLInv == Init => LInv
<1> SUFFICES ASSUME Init PROVE LInv
  OBVIOUS
<1>1. CInv
  BY InitCInv
<1>2. UnboundAllocEmpty
  BY DEF Init, NewNodeInfo, UnboundAllocEmpty, Bound
<1>. QED
  BY <1>1, <1>2 DEF LInv

LEMMA NextLInv ==
    ASSUME ~SubClamps, NEW a, NodeAllocs = {a}
    PROVE  LInv /\ [NextNoPipeline]_vars => LInv'
<1> SUFFICES ASSUME LInv, [NextNoPipeline]_vars PROVE LInv'
  OBVIOUS
<1>1. CInv'
  BY NextNoPipelineCInv DEF LInv
<1>2. UnboundAllocEmpty'
  <2>2. CASE \E n \in NodeAllocs : SetNode(n)
    <3>1. PICK n \in NodeAllocs : SetNode(n)
      BY <2>2
    <3>2. node' = n /\ n # NoNode
      BY <3>1, NoNodeAssumption DEF SetNode
    <3>. QED
      BY <3>2 DEF UnboundAllocEmpty, Bound
  <2>3. CASE \E t \in TaskIDs, r \in Requests, s \in Statuses : AddTask(t, r, s)
    BY <2>3 DEF AddTask, LInv, UnboundAllocEmpty, Bound
  <2>4. CASE \E t \in TaskIDs, r \in Requests, s \in Statuses : UpdateTask(t, r, s)
    BY <2>4 DEF UpdateTask, LInv, UnboundAllocEmpty, Bound
  <2>5. CASE \E t \in TaskIDs : RemoveTask(t)
    BY <2>5 DEF RemoveTask, LInv, UnboundAllocEmpty, Bound
  <2>6. CASE UNCHANGED vars
    BY <2>6 DEF vars, LInv, UnboundAllocEmpty, Bound
  <2>. QED
    BY <2>2, <2>3, <2>4, <2>5, <2>6 DEF NextNoPipeline
<1>. QED
  BY <1>1, <1>2 DEF LInv

-----------------------------------------------------------------------------
(* Every step of NodeInfo is a step of NodeLedger.                         *)

\* NodeInfo's task snapshots are NodeLedger's.
LEMMA TaskInfoMapped ==
    ASSUME NEW r \in Requests, NEW s \in Statuses
    PROVE  [resreq |-> r, status |-> s] \in NL!TaskInfo
BY DEF Statuses, Releasing, Running, NL!TaskInfo, NL!Statuses

\* A step between two LInv states: SetNode binds, a successful AddTask,
\* UpdateTask or RemoveTask stores, replaces or drops, a failed one is
\* refused, and a stutter stutters.
LEMMA StepRefines ==
    ASSUME ~SubClamps, LInv, LInv', [NextNoPipeline]_vars
    PROVE  [NL!Next]_NL!vars
<1>1. PoolRecord' = NL!Pools(node', tasks')
  <2>1. PoolsMatch(node', tasks', releasing', idle', used', allocatable')
    BY DEF LInv, CInv, PoolsMatchTasks, SumReleasing, IInv, UsedMatchesTasks,
           UnboundUsedEmpty, UnboundPoolsEmpty, UnboundAllocEmpty, PoolsMatch, Bound
  <2>. QED
    BY <2>1, PoolsOf DEF PoolRecord
<1>2. PoolRecord = NL!Pools(node, tasks)
  BY PoolsMapped
<1>. HIDE DEF NL!Pools
<1>3. CASE \E n \in NodeAllocs : SetNode(n)
  <2>1. PICK n \in NodeAllocs : SetNode(n)
    BY <1>3
  <2>2. NL!Bind(n)
    BY <1>1, <2>1 DEF SetNode, NL!Bind, PoolRecord
  <2>. QED
    BY <2>2 DEF NL!Next
<1>4. CASE \E t \in TaskIDs, r \in Requests, s \in Statuses : AddTask(t, r, s)
  <2>1. PICK t \in TaskIDs, r \in Requests, s \in Statuses : AddTask(t, r, s)
    BY <1>4
  <2>2. CASE t \in DOMAIN tasks
    <3>1. NL!Refuse(t)
      BY <2>1, <2>2 DEF AddTask, NL!Refuse
    <3>. QED
      BY <3>1 DEF NL!Next
  <2>3. CASE t \notin DOMAIN tasks
    <3>1. NL!Store(t, [resreq |-> r, status |-> s])
      BY <1>1, <2>1, <2>3 DEF AddTask, PutTask, NL!Store, PoolRecord
    <3>. QED
      BY <3>1, TaskInfoMapped DEF NL!Next
  <2>. QED
    BY <2>2, <2>3
<1>5. CASE \E t \in TaskIDs, r \in Requests, s \in Statuses : UpdateTask(t, r, s)
  <2>1. PICK t \in TaskIDs, r \in Requests, s \in Statuses : UpdateTask(t, r, s)
    BY <1>5
  <2>2. CASE t \notin DOMAIN tasks
    <3>1. NL!Refuse(t)
      BY <2>1, <2>2 DEF UpdateTask, NL!Refuse
    <3>. QED
      BY <3>1 DEF NL!Next
  <2>3. CASE t \in DOMAIN tasks
    <3>1. NL!Replace(t, [resreq |-> r, status |-> s])
      BY <1>1, <2>1, <2>3 DEF UpdateTask, NL!Replace, PoolRecord
    <3>. QED
      BY <3>1, TaskInfoMapped DEF NL!Next
  <2>. QED
    BY <2>2, <2>3
<1>6. CASE \E t \in TaskIDs : RemoveTask(t)
  <2>1. PICK t \in TaskIDs : RemoveTask(t)
    BY <1>6
  <2>2. CASE t \notin DOMAIN tasks
    <3>1. NL!Refuse(t)
      BY <2>1, <2>2 DEF RemoveTask, NL!Refuse
    <3>. QED
      BY <3>1 DEF NL!Next
  <2>3. CASE t \in DOMAIN tasks
    <3>1. NL!Drop(t)
      BY <1>1, <2>1, <2>3 DEF RemoveTask, DeleteTask, NL!Drop, PoolRecord
    <3>. QED
      BY <3>1 DEF NL!Next
  <2>. QED
    BY <2>2, <2>3
<1>7. CASE UNCHANGED vars
  BY <1>7 DEF vars, NL!vars
<1>. QED
  BY <1>3, <1>4, <1>5, <1>6, <1>7 DEF NextNoPipeline

\* A new NodeInfo is a new ledger.
LEMMA InitRefines ==
    ASSUME ~SubClamps
    PROVE  Init => NL!Init
<1> SUFFICES ASSUME Init PROVE NL!Init
  OBVIOUS
<1>1. PoolRecord = NL!Pools(node, tasks)
  BY InitLInv, PoolsMapped
<1>2. /\ node \in NodeAllocs \cup {NoNode}
      /\ tasks = [t \in {} |-> CHOOSE ti \in NL!TaskInfo : TRUE]
      /\ err = "ok"
  BY DEF Init, NewNodeInfo
<1>. QED
  BY <1>1, <1>2 DEF NL!Init, PoolRecord

(* NodeInfo refines NodeLedger when the caller never pipelines, Sub does   *)
(* not clamp and the node object keeps one allocatable: node_info.go's     *)
(* incrementally kept Releasing, Idle, Used and Allocatable are at every   *)
(* step the from-scratch replay of the stored tasks, and a failed AddTask, *)
(* UpdateTask or RemoveTask changes nothing but its result.                *)
THEOREM NodeLedgerRefinement ==
    ASSUME ~SubClamps, NEW a, NodeAllocs = {a}
    PROVE  SpecNoPipeline => NodeLedgerSpec
<1>1. SpecNoPipeline => []LInv
  BY InitLInv, NextLInv, PTL DEF SpecNoPipeline
<1>2. LInv /\ LInv' /\ [NextNoPipeline]_vars => [NL!Next]_NL!vars
  BY StepRefines
<1>3. Init => NL!Init
  BY InitRefines
<1>. QED
  BY <1>1, <1>2, <1>3, PTL DEF SpecNoPipeline, NodeLedgerSpec, NL!Spec
=====================================================================================
