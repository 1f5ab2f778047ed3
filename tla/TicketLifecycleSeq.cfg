\* One process at a time: the service path and the board, no overlap.
SPECIFICATION FairSpec
CONSTANTS
    Status <- TenantStatuses
    Closed = {"closed"}
    Pausing = {"waiting", "on-hold"}
    Default = "open"
    FirstClosed = "closed"
    CreateIn = {"open", "in-progress"}
    Handlers = {"transition", "bulk", "kanban", "close", "reply", "agentReply", "assign", "edit"}
    Worker = {w1}
    TaskId = {t1, t2}
    MaxPauses = 2
    Faulty = FALSE
    NoStatus = NoStatus
    NoTask = NoTask
INVARIANTS
    TypeOK
    TimestampsMatchStatus
    PauseMatchesWait
    PreWaitIsUsable
    CardFollowsStatus
    ResolvedIsScheduled
PROPERTIES
    ResolvedIsLeft
    ServiceMovesAreLegal
    PromiseKept
