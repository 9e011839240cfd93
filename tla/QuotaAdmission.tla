---------------------------- MODULE QuotaAdmission ----------------------------
(***************************************************************************)
(* What quota admission promises, whatever the QuotaManager, its caller    *)
(* and the backend do in between: the set of jobs holding quota changes    *)
(* only by                                                                 *)
(*  - admitting one job, evicting only preemptable jobs of strictly lower *)
(*    priority, so that the holders fit in the quota;                      *)
(*  - realising a new quota, keeping a maximal subset of the holders that *)
(*    fits in it (possibly followed at once by an admission);             *)
(*  - releasing a job;                                                     *)
(*  - discarding every holding when the backend is rebuilt.               *)
(* A job's demand is one quantity, counted as a number of unit slots.     *)
(***************************************************************************)
EXTENDS Integers, FiniteSets

CONSTANTS AWs, Demand, MaxDemand, Priority, QuotaPlans, PreemptionEnabled

VARIABLES
    holders, \* the jobs holding quota
    quota    \* the quota in force

Load(S) == Cardinality({p \in S \X (1..MaxDemand) : p[2] <= Demand[p[1]]})
Within(S, q) == Load(S) <= q

\* The subsets of S that a quota q lets stand when it is realised.
Survivors(S, q) ==
    {K \in SUBSET S : Within(K, q) /\ \A x \in S \ K : ~Within(K \cup {x}, q)}

Init == holders = {} /\ quota \in QuotaPlans

\* From holders S under quota q, admit c and evict the victims V.
AdmitFrom(S, q, c, V) ==
    /\ V \subseteq S
    /\ PreemptionEnabled \/ V = {}
    /\ \A x \in V : Priority[x] < Priority[c]
    /\ holders' = (S \ V) \cup {c}
    /\ Within(holders', q)
    /\ quota' = q

Admit(c, V) == AdmitFrom(holders, quota, c, V)

Requota(q, K) ==
    /\ K \in Survivors(holders, q)
    /\ holders' = K /\ quota' = q

RequotaAdmit(q, c, V) == \E K \in Survivors(holders, q) : AdmitFrom(K, q, c, V)

Release(c) == holders' = holders \ {c} /\ UNCHANGED quota

Reset(q) == holders' = {} /\ quota' = q

Next ==
    \/ \E c \in AWs, V \in SUBSET AWs : Admit(c, V)
    \/ \E q \in QuotaPlans, K \in SUBSET AWs : Requota(q, K)
    \/ \E q \in QuotaPlans, c \in AWs, V \in SUBSET AWs : RequotaAdmit(q, c, V)
    \/ \E c \in AWs : Release(c)
    \/ \E q \in QuotaPlans : Reset(q)

Spec == Init /\ [][Next]_<<holders, quota>>

\* The jobs holding quota never demand more than the quota in force.
QuotaRespected == Within(holders, quota)
==============================================================================
