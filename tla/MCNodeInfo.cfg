CONSTANTS
    t1 = t1
    t2 = t2
    t3 = t3
    Dims <- MCDims
    TaskIDs <- MCTaskIDs
    MaxReq <- MCMaxReq
    Requests <- MCRequests
    NodeAllocs <- MCNodeAllocs
    NoNode = NoNode
    SubClamps = FALSE
SYMMETRY MCSymmetry
CONSTRAINT MCPoolBound
SPECIFICATION Spec
INVARIANT TypeOK UsedMatchesTasks ReleasingWithinUsed
