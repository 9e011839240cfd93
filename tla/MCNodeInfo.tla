------------------------------ MODULE MCNodeInfo ------------------------------
(* Small instances of the node ledger for TLC.                             *)
EXTENDS NodeInfo, TLC

CONSTANTS t1, t2, t3

MCDims == {"cpu", "gpu"}
MCTaskIDs == {t1, t2, t3}
MCMaxReq == 2

\* A small pod, a gpu pod and a large pod.
MCRequests ==
    { [cpu |-> 1, gpu |-> 0], [cpu |-> 0, gpu |-> 1], [cpu |-> 2, gpu |-> 1] }

\* Two versions of one node: its allocatable before and after it grows.
MCNodeAllocs == { [cpu |-> 2, gpu |-> 1], [cpu |-> 3, gpu |-> 2] }
MCOneNode == { [cpu |-> 2, gpu |-> 1] }

MCSymmetry == Permutations(MCTaskIDs)

\* Pipelining and removing the same task repeatedly drifts Idle up and
\* Releasing down without end; runs stop a pool at this magnitude.
MCPoolLimit == 4
MCPoolBound ==
    \A d \in Dims : /\ releasing[d] \in -MCPoolLimit..MCPoolLimit
                    /\ idle[d] \in -MCPoolLimit..MCPoolLimit

=============================================================================
