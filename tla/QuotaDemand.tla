------------------------------ MODULE QuotaDemand ------------------------------
(***************************************************************************)
(* The pure functions with which the QuotaManager builds a consumer        *)
(* request (package quotamanager): the tree designation of a job           *)
(* (getQuotaDesignation, isValidQuota) and the conversion of its resource  *)
(* demand into the per-resource-type demands of a tree                     *)
(* (getQuotaTreeResourceTypesDemands, convertFloat64Demand,                *)
(* convertInt64Demand).                                                    *)
(*                                                                         *)
(* Integer and floating-point widths are parameters: Go's int has IntWidth *)
(* bits, int64 Int64Width bits, and a float64 a significand of             *)
(* FloatPrecision bits (53).  The model runs on small widths with the same *)
(* relation as the real ones, FloatPrecision < IntWidth - 1, which is what *)
(* makes float64(MaxInt) round up to 2^(IntWidth-1).  Demands are          *)
(* non-negative and integral, so math.Trunc is the identity on them; the   *)
(* memory demand enters already divided by 1000000.  A label value (the    *)
(* group id) and the wording of the errors are left out: an error is the   *)
(* set of resource types it names, a designation error the list of the     *)
(* missing trees it names, in the order it names them.                     *)
(***************************************************************************)
EXTENDS Integers, Sequences, SequencesExt

CONSTANTS
    IntWidth,             \* bits of Go's int on the build
    Int64Width,           \* bits of int64
    FloatPrecision,       \* significand bits of float64
    SaturatingConversion, \* TRUE: an out-of-range float-to-int saturates
    TreeList,             \* GetTreeNames(): the forest's tree names
    LabelKeys,            \* label keys a job may carry
    TypeKeywords,         \* the keywords ("cpu", ...) each type name contains
    CpuValues,            \* awResDemands.MilliCPU values (float64)
    MemValues,            \* awResDemands.Memory / 1000000 values (float64)
    GpuValues,            \* awResDemands.GPU values (int64)
    TypeLists             \* resource-type lists of a tree (GetResourceNames)

Keywords == {"cpu", "memory", "gpu"}

ASSUME WidthAssumption ==
    /\ IntWidth \in Nat \ {0} /\ Int64Width \in Nat /\ IntWidth <= Int64Width
    /\ FloatPrecision \in Nat \ {0}
ASSUME SaturatingAssumption == SaturatingConversion \in BOOLEAN
ASSUME TreeListAssumption == TreeList \in Seq(LabelKeys) /\ IsInjective(TreeList)
ASSUME TypeKeywordsAssumption == TypeKeywords \in [DOMAIN TypeKeywords -> SUBSET Keywords]

\* MaxInt == int(^uint(0) >> 1), and the least int.
MaxInt == 2^(IntWidth - 1) - 1
MinInt == -(2^(IntWidth - 1))
MaxInt64 == 2^(Int64Width - 1) - 1

-----------------------------------------------------------------------------
(* float64 arithmetic on non-negative integral values.                     *)

\* The number of bits of n > 0.
BitLength(n) == CHOOSE k \in 1..(Int64Width + 1) : 2^(k - 1) <= n /\ n < 2^k

\* float64(n): n rounded to FloatPrecision significant bits, ties to even.
ToFloat(n) ==
    IF n = 0 \/ BitLength(n) <= FloatPrecision THEN n
    ELSE LET u  == 2^(BitLength(n) - FloatPrecision)
             lo == (n \div u) * u
             hi == lo + u
         IN  CASE n - lo < hi - n -> lo
              []  n - lo > hi - n -> hi
              []  OTHER           -> IF (lo \div u) % 2 = 0 THEN lo ELSE hi

\* int(f) for an integral float: out of range, the result is the build's:
\* x86's conversion yields MinInt, arm's saturates.
GoInt(f) ==
    IF f <= MaxInt THEN f
    ELSE IF SaturatingConversion THEN MaxInt ELSE MinInt

-----------------------------------------------------------------------------
(* The conversions.  A result is the demand and whether an overflow error  *)
(* was returned.                                                           *)

\* Mutant: the int64 demand converted without the MaxInt check.
convertInt64DemandNoClamp(v) == [value |-> v, overflow |-> FALSE]

convertInt64Demand(v) ==
    IF v > MaxInt THEN [value |-> MaxInt, overflow |-> TRUE]
    ELSE [value |-> v, overflow |-> FALSE]

convertFloat64Demand(f) ==
    IF f > ToFloat(MaxInt) THEN [value |-> MaxInt, overflow |-> TRUE]
    ELSE [value |-> GoInt(f), overflow |-> FALSE]

\* Mutant: the memory branch copied from the cpu branch, still reading
\* MilliCPU.
ConvertedMemoryAsCpu(res, k) ==
    CASE k = "cpu"    -> convertFloat64Demand(res.cpu)
      [] k = "memory" -> convertFloat64Demand(res.cpu)
      [] k = "gpu"    -> convertInt64Demand(res.gpu)

\* The conversion applied for keyword k of a type name.
Converted(res, k) ==
    CASE k = "cpu"    -> convertFloat64Demand(res.cpu)
      [] k = "memory" -> convertFloat64Demand(res.memory)
      [] k = "gpu"    -> convertInt64Demand(res.gpu)

\* One test of the loop of getQuotaTreeResourceTypesDemands: if the type
\* name contains k, set its demand, append it to processedResourceTypes
\* and wrap a conversion error naming it.
MatchKeyword(res, acc, t, k) ==
    IF k \notin TypeKeywords[t] THEN acc
    ELSE LET c == Converted(res, k)
         IN  [demands   |-> [x \in DOMAIN acc.demands \cup {t} |->
                               IF x = t THEN c.value ELSE acc.demands[x]],
              processed |-> acc.processed + 1,
              errTypes  |-> IF c.overflow THEN acc.errTypes \cup {t} ELSE acc.errTypes]

\* One iteration: the cpu, memory and gpu tests, in that order.
DemandStep(res, acc, t) ==
    MatchKeyword(res, MatchKeyword(res, MatchKeyword(res, acc, t, "cpu"), t, "memory"), t, "gpu")

\* getQuotaTreeResourceTypesDemands: the demands, the types named in
\* conversion errors, and whether the count check reported a mismatch.
getQuotaTreeResourceTypesDemands(res, types) ==
    LET acc == FoldLeft(LAMBDA a, t : DemandStep(res, a, t),
                        [demands |-> [x \in {} |-> 0], processed |-> 0, errTypes |-> {}],
                        types)
    IN  [demands  |-> acc.demands,
         errTypes |-> acc.errTypes,
         mismatch |-> acc.processed < Len(types)]

-----------------------------------------------------------------------------
(* The designation.                                                        *)

\* isValidQuota: the label key names one of the trees.
isValidQuota(key) == \E i \in DOMAIN TreeList : TreeList[i] = key

\* Mutant: the missing-tree check written with <=.
getQuotaDesignationAtMost(labels) ==
    LET groups == {k \in labels : isValidQuota(k)}
    IN  IF Len(TreeList) = 0
        THEN [groups |-> groups, err |-> FALSE, missing |-> <<>>]
        ELSE IF Cardinality(groups) <= Len(TreeList)
        THEN [groups  |-> groups, err |-> TRUE,
              missing |-> SelectSeq(TreeList, LAMBDA tn : ~\E g \in groups : g = tn)]
        ELSE [groups |-> groups, err |-> FALSE, missing |-> <<>>]

\* getQuotaDesignation for a job with label keys labels: the groups, and
\* whether an error is returned and the trees its message names.
getQuotaDesignation(labels) ==
    LET groups == {k \in labels : isValidQuota(k)}
    IN  IF Len(TreeList) = 0
        THEN [groups |-> groups, err |-> FALSE, missing |-> <<>>]
        ELSE IF Cardinality(groups) < Len(TreeList)
        THEN [groups  |-> groups, err |-> TRUE,
              missing |-> SelectSeq(TreeList, LAMBDA tn : ~\E g \in groups : g = tn)]
        ELSE [groups |-> groups, err |-> FALSE, missing |-> <<>>]

-----------------------------------------------------------------------------
(* A client calling the two functions on every input, one call per step.   *)

Resources == [cpu : CpuValues, memory : MemValues, gpu : GpuValues]
NoCall == [op |-> "none"]

VARIABLES
    call,   \* the last call and its arguments
    result  \* what it returned

vars == <<call, result>>

Init == call = NoCall /\ result = NoCall

\* buildRequest's call of getQuotaDesignation for a job with these labels.
Designate(labels) ==
    /\ call' = [op |-> "designation", labels |-> labels]
    /\ result' = getQuotaDesignation(labels)

\* buildRequest's call of getQuotaTreeResourceTypesDemands for one tree.
BuildDemands(res, types) ==
    /\ call' = [op |-> "demands", res |-> res, types |-> types]
    /\ result' = getQuotaTreeResourceTypesDemands(res, types)

Next ==
    \/ \E labels \in SUBSET LabelKeys : Designate(labels)
    \/ \E res \in Resources, types \in TypeLists : BuildDemands(res, types)

Spec == Init /\ [][Next]_vars

-----------------------------------------------------------------------------
(* Properties.                                                             *)

GoInts == MinInt..MaxInt

TypeOK ==
    \/ call = NoCall /\ result = NoCall
    \/ /\ call.op = "designation" /\ call.labels \subseteq LabelKeys
       /\ result.groups \subseteq LabelKeys /\ result.err \in BOOLEAN
       /\ result.missing \in Seq(LabelKeys)
    \/ /\ call.op = "demands" /\ call.res \in Resources /\ call.types \in TypeLists
       /\ result.demands \in [DOMAIN result.demands -> GoInts]
       /\ DOMAIN result.demands \subseteq ToSet(call.types)
       /\ result.errTypes \subseteq ToSet(call.types)
       /\ result.mismatch \in BOOLEAN

\* The demand of keyword k that the spec says a matching type receives,
\* and its clamp to MaxInt.
Demanded(res, k) ==
    CASE k = "cpu" -> res.cpu [] k = "memory" -> res.memory [] k = "gpu" -> res.gpu
Clamp(v) == IF v > MaxInt THEN MaxInt ELSE v

\* getQuotaDesignation fails exactly when some tree of the forest has no
\* label on the job, its message names exactly those trees, and the groups
\* are the job's labels that name trees (spec: a job labelled for {A} when
\* the trees are {A, B} fails naming exactly B).
DesignationNamesMissing ==
    call.op = "designation" =>
        /\ result.err <=> ~(ToSet(TreeList) \subseteq call.labels)
        /\ ToSet(result.missing) = ToSet(TreeList) \ call.labels
        /\ result.groups = call.labels \cap ToSet(TreeList)

\* Every resource type that names one of cpu, memory or gpu receives that
\* demand, clamped to MaxInt when it exceeds it: convertFloat64Demand and
\* convertInt64Demand never submit a demand other than min(demand, MaxInt).
DemandClamped ==
    call.op = "demands" =>
        \A t \in ToSet(call.types) :
            \A k \in TypeKeywords[t] :
                TypeKeywords[t] = {k} =>
                    result.demands[t] = Clamp(Demanded(call.res, k))

\* getQuotaTreeResourceTypesDemands reports a mismatch exactly when some
\* resource type of the tree matches none of cpu, memory and gpu.
MismatchReported ==
    call.op = "demands" =>
        (result.mismatch <=> \E t \in ToSet(call.types) : TypeKeywords[t] = {})

==============================================================================
