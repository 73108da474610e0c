SPECIFICATION Spec
CONSTANTS
    Threads = {p, c}
    Primary = p
    EnvKinds = {"cloud", "self_hosted"}
    Brains = {b1, b2}
    Drivers = {d1}
    Null = Null
    Replies <- ScenedReplies
    MaxSettlementChain = 2
    MaxRunTurns = 1
    MaxLive = 2
    MaxCalls = 1
INVARIANTS RunningIsWorked CoordinatorNotWedged BudgetHolds
ACTION_CONSTRAINT SceneHolds
CHECK_DEADLOCK FALSE
