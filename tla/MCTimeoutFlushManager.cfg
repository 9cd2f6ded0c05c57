CONSTANTS
    cfgA = cfgA
    cfgB = cfgB
    b0 = b0
    b1 = b1
    Configs <- MCConfigs
    BatchKeys <- MCBatchKeys
    TimeoutOf <- MCTimeoutOf
    MaxGen = 2

SPECIFICATION FairSpec

INVARIANT TypeOK
INVARIANT NoFlushOfDestroyedFlusher
INVARIANT BatchFlushedInTime
PROPERTY DeferredFlusherDestroyed
