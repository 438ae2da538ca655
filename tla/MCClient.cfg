CONSTANTS
    t1 = t1
    t2 = t2
    h1 = h1
    h2 = h2
    NoThread = NoThread
    Threads <- MCThreads
    Hashes <- MCHashes
    Protocol <- MixedProtocol
    ConnHash <- MCConnHash
    StartCtxCancellable = TRUE
    MaxStarts = 2

SPECIFICATION LiveSpec

INVARIANT InflightBoundToChannel
PROPERTY NoChannelOverwrite
PROPERTY ChannelClosedOnlyWhenIdle
PROPERTY EveryCallReturns
PROPERTY ImplementsAbstractClient
