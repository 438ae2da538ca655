CONSTANTS
    t1 = t1
    t2 = t2
    h1 = h1
    h2 = h2
    NoThread = NoThread
    Threads <- MCThreads
    Hashes <- MCHashes
    Protocol <- GRPCProtocol
    ConnHash <- MCConnHash
    StartCtxCancellable = FALSE
    MaxStarts = 2

SPECIFICATION Spec
INVARIANT StopCancelReachesUploads
