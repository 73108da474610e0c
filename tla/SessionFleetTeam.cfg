SPECIFICATION Spec
CONSTANTS
    Threads = {p, c}
    Primary = p
    EnvKinds = {"self_hosted"}
    Brains = {b1}
    Drivers = {d1}
    Null = Null
    Replies <- MixedReplies
    MaxSettlementChain = 2
    MaxRunTurns = 2
    MaxLive = 2
    MaxCalls = 2
INVARIANT NoRunnableStranded
CHECK_DEADLOCK FALSE
