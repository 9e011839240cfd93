---------------------------- MODULE MCQuotaDemand ----------------------------
(* Small widths for QuotaDemand: a 6-bit int, a 3-bit float significand,   *)
(* so float64(MaxInt) = float(31) rounds to 32 as float(2^63-1) does to     *)
(* 2^63; int64 is 8 bits on a build whose int is narrower (GOARCH=arm) and *)
(* 6 bits on one whose int is int64 (amd64).                               *)
EXTENDS QuotaDemand, TLC

MCTreeList == <<"context", "tenant">>
MCLabelKeys == {"context", "tenant", "app"}

\* Resource type names by the keywords their lower-cased names contain.
MCTypeKeywords ==
    ("cpu" :> {"cpu"} @@ "memory" :> {"memory"} @@ "nvidia.com/gpu" :> {"gpu"}
     @@ "ephemeral-storage" :> {} @@ "memory-per-cpu" :> {"cpu", "memory"})

\* float64 demands around the edge: 9 rounds to 8, MaxInt = 31 rounds to
\* 32 = 2^(IntWidth-1), and 40 is above it; and int64 GPU counts.
MCFloats == {ToFloat(v) : v \in {0, 1, 7, 9, 28, 31, 40}}
MCGpus == {0, 1, 31, 32, 127} \cap 0..MaxInt64

\* Type lists of trees whose types each name at most one keyword, and
\* lists with a type naming two.
MCSingleTypeLists ==
    { <<"cpu", "memory", "nvidia.com/gpu">>, <<"cpu", "ephemeral-storage">>, <<>> }
MCDoubleTypeLists ==
    MCSingleTypeLists \cup { <<"memory-per-cpu", "ephemeral-storage">> }
==============================================================================
