CONSTANTS
    a1 = a1
    a2 = a2
    a3 = a3
    a4 = a4
    AWs <- MCAWs
    Demand <- MCDemand
    MaxDemand <- MCMaxDemand
    Priority <- MCPriority
    Trees <- MCTrees
    Labels <- MCLabels
    QuotaPlans <- MCChangingPlans
    PreemptionEnabled = TRUE
    Listed <- MCAWs
    MaxRestarts = 1
SPECIFICATION Spec
INVARIANTS RunningHoldQuota
