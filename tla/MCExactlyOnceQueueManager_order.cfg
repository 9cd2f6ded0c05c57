CONSTANTS
    k1 = k1
    c1 = c1
    c2 = c2
    h1 = h1
    h2 = h2
    Keys <- MCKeys
    Ckpts <- MCCkpts
    HashKeys <- MCHashKeys
    MaxPriority = 1
    ProcessQueueCapacity = 1
    MaxSeq = 2
    MaxCrashes = 0

SPECIFICATION Spec

INVARIANT DeliveredInOrderPerHash
