SPECIFICATION FairSealSpec
CONSTANTS
    w1 = w1
    w2 = w2
    NotEpoch = NotEpoch
    Writer <- MCWriters
    Entry <- MCEntry
    Legacy <- MCLegacy
    Attempts = 2
    MaxCalls = 3
INVARIANTS ChainIsLinear LossesArePaidFor SealedChainVerifies TamperIsReported
PROPERTIES CallsEnd ImplementsChain
CHECK_DEADLOCK FALSE
