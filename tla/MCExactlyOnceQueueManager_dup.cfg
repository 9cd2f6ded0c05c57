CONSTANTS
    k1 = k1
    c1 = c1
    c2 = c2
    h1 = h1
    h2 = h2
    Keys <- MCKeys
    Ckpts <- MCOneCkpt
    HashKeys <- MCOneHashKey
    MaxPriority = 1
    ProcessQueueCapacity = 1
    MaxSeq = 1
    MaxCrashes = 1

SPECIFICATION Spec

INVARIANT AtMostOneOkSendPerRange
