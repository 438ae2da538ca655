CONSTANTS
    w1 = w1
    w2 = w2
    m1 = m1
    m2 = m2
    p1 = p1
    p2 = p2
    hA = hA
    NoHandler = NoHandler
    Workers <- MCWorkers
    Sigs <- MCSigs
    MuxMWs <- MCMuxMWs
    SigMWs <- MCSigMWs
    Handlers <- MCHandlers
    MaxMW = 2

SPECIFICATION Spec
INVARIANT DispatchSnapshotAtomic
