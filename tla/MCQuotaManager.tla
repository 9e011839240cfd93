---------------------------- MODULE MCQuotaManager ----------------------------
(* A small instance of QuotaManager: four jobs, of which a3 needs twice    *)
(* the quota of the others and a4 lacks the label of one of the two trees. *)
EXTENDS QuotaManager, TLC

CONSTANTS a1, a2, a3, a4

MCAWs == {a1, a2, a3, a4}
MCDemand == (a1 :> 1 @@ a2 :> 1 @@ a3 :> 2 @@ a4 :> 1)
MCMaxDemand == 2
MCPriority == (a1 :> 1 @@ a2 :> 2 @@ a3 :> 3 @@ a4 :> 1)
MCTrees == {"context", "tenant"}
MCLabels == (a1 :> MCTrees @@ a2 :> MCTrees @@ a3 :> MCTrees @@ a4 :> {"context"})

\* A fixed plan with room for two small jobs; plans that grow and shrink.
MCFixedPlan == {2}
MCChangingPlans == {1, 3}
==============================================================================
