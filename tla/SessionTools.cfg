SPECIFICATION Spec
CONSTANTS
    Threads = {p}
    Primary = p
    EnvKinds = {"cloud", "self_hosted"}
    Brains = {b1}
    Drivers = {d1, d2}
    Null = Null
    Replies <- ToolReplies
    MaxSettlementChain = 2
    MaxRunTurns = 2
    MaxLive = 1
    MaxCalls = 3
INVARIANTS ThreadsMatchCalls NoRunnableStranded OneResultPerCall
CHECK_DEADLOCK FALSE
SYMMETRY Symmetry
