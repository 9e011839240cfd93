---------------------------- MODULE QuotaDemandProofs ----------------------------
(***************************************************************************)
(* Proofs about getQuotaDesignation.  What its error says (that some tree  *)
(* of the forest has no label on the job) and the groups it returns follow *)
(* from counting: the trees are distinct, so there are Len(TreeList) of    *)
(* them.  Which trees its message names comes from SelectSeq, and what     *)
(* SelectSeq keeps of every sequence is induction over data: that part,    *)
(* and getQuotaTreeResourceTypesDemands's fold, stay with TLC.             *)
(***************************************************************************)
EXTENDS QuotaDemand, FiniteSetTheorems, SequenceTheorems, TLAPS

\* The result of every designation call is getQuotaDesignation's.
DInv == call.op = "designation" => result = getQuotaDesignation(call.labels)

\* getQuotaDesignation returns an error exactly when some tree of the
\* forest has no label on the job, and its groups are the job's labels
\* that name trees: the count check of buildRequest's designation.
DesignationFailsExactly ==
    call.op = "designation" =>
        /\ result.err <=> ~(ToSet(TreeList) \subseteq call.labels)
        /\ result.groups = call.labels \cap ToSet(TreeList)

-----------------------------------------------------------------------------

\* The forest has as many trees as TreeList has entries: no name repeats.
LEMMA TreeCount ==
    /\ IsFiniteSet(ToSet(TreeList))
    /\ Cardinality(ToSet(TreeList)) = Len(TreeList)
<1>1. TreeList \in Bijection(1..Len(TreeList), ToSet(TreeList))
  BY TreeListAssumption DEF Bijection, Injection, Surjection, IsInjective, ToSet
<1>2. IsFiniteSet(1..Len(TreeList)) /\ Cardinality(1..Len(TreeList)) = Len(TreeList)
  <2>1. Len(TreeList) \in Nat
    BY TreeListAssumption, LenProperties
  <2>2. /\ IsFiniteSet(1..Len(TreeList))
        /\ Cardinality(1..Len(TreeList)) = IF 1 > Len(TreeList) THEN 0 ELSE Len(TreeList) - 1 + 1
    BY <2>1, FS_Interval
  <2>. QED
    BY <2>1, <2>2
<1>. QED
  BY <1>1, <1>2, FS_Bijection DEF ExistsBijection

\* The valid label keys are the labels that name trees.
LEMMA GroupsAreTrees ==
    ASSUME NEW labels
    PROVE  {k \in labels : isValidQuota(k)} = labels \cap ToSet(TreeList)
BY DEF isValidQuota, ToSet

\* getQuotaDesignation's error and groups, for every set of labels.
LEMMA DesignationExact ==
    ASSUME NEW labels
    PROVE  LET d == getQuotaDesignation(labels)
           IN  /\ d.err <=> ~(ToSet(TreeList) \subseteq labels)
               /\ d.groups = labels \cap ToSet(TreeList)
<1> DEFINE T == ToSet(TreeList)
           G == labels \cap T
<1>1. {k \in labels : isValidQuota(k)} = G
  BY GroupsAreTrees
<1>2. IsFiniteSet(T) /\ Cardinality(T) = Len(TreeList)
  BY TreeCount
<1>3. IsFiniteSet(G) /\ Cardinality(G) <= Cardinality(T)
      /\ (Cardinality(T) = Cardinality(G) => T = G)
  BY <1>2, FS_Subset
<1>4. Cardinality(G) \in Nat
  BY <1>3, FS_CardinalityType
<1>5. CASE Len(TreeList) = 0
  <2>1. T = {}
    BY <1>2, <1>5, FS_EmptySet
  <2>. QED
    BY <1>1, <1>5, <2>1 DEF getQuotaDesignation
<1>6. CASE Len(TreeList) # 0
  <2>1. (T \subseteq labels) <=> G = T
    OBVIOUS
  <2>2. G = T => Cardinality(G) = Len(TreeList)
    BY <1>2
  <2>3. G # T => Cardinality(G) < Len(TreeList)
    BY <1>2, <1>3, <1>4
  <2>4. Cardinality(G) < Len(TreeList) <=> ~(T \subseteq labels)
    BY <2>1, <2>2, <2>3
  <2>. QED
    BY <1>1, <1>6, <2>4 DEF getQuotaDesignation
<1>. QED
  BY <1>5, <1>6

-----------------------------------------------------------------------------

LEMMA InitDInv == Init => DInv
BY DEF Init, DInv, NoCall

LEMMA NextDInv == DInv /\ [Next]_vars => DInv'
<1> SUFFICES ASSUME DInv, [Next]_vars PROVE DInv'
  OBVIOUS
<1>1. CASE \E labels \in SUBSET LabelKeys : Designate(labels)
  BY <1>1 DEF Designate, DInv
<1>2. CASE \E res \in Resources, types \in TypeLists : BuildDemands(res, types)
  BY <1>2 DEF BuildDemands, DInv
<1>3. CASE UNCHANGED vars
  BY <1>3 DEF vars, DInv
<1>. QED
  BY <1>1, <1>2, <1>3 DEF Next

LEMMA DInvFailsExactly == DInv => DesignationFailsExactly
BY DesignationExact DEF DInv, DesignationFailsExactly

(* For every forest, every set of label keys and every call sequence, a    *)
(* designation call returns an error exactly when some tree has no label  *)
(* on the job, and the groups are the labels that name trees: the count   *)
(* check Cardinality(groups) < Len(TreeList) of getQuotaDesignation is    *)
(* right because tree names do not repeat.                                *)
THEOREM DesignationFailsExactlyInvariant == Spec => []DesignationFailsExactly
BY InitDInv, NextDInv, DInvFailsExactly, PTL DEF Spec
===================================================================================
