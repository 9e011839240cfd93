CONSTANTS
    t1 = t1
    t2 = t2
    t3 = t3
    Dims <- MCDims
    TaskIDs <- MCTaskIDs
    MaxReq <- MCMaxReq
    Requests <- MCRequests
    NodeAllocs <- MCOneNode
    NoNode = NoNode
    SubClamps = FALSE
SYMMETRY MCSymmetry
CONSTRAINT MCPoolBound
SPECIFICATION SpecNoPipeline
INVARIANT Conservation
PROPERTY NodeLedgerSpec
