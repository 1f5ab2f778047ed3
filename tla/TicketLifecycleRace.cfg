\* Two overlapping processes, with faults; bulk moves a ticket anywhere, so it
\* stands for every validated change too.
SPECIFICATION Spec
CONSTANTS
    Status <- SeededStatuses
    Closed = {"closed"}
    Pausing = {}
    Default = "open"
    FirstClosed = "closed"
    CreateIn = {"open"}
    Handlers = {"bulk", "reply", "assign", "edit", "merge"}
    Worker = {w1, w2}
    TaskId = {t1}
    MaxPauses = 2
    Faulty = TRUE
    NoStatus = NoStatus
    NoTask = NoTask
INVARIANTS
    ClosedIsStamped
    ResolvedIsSolved
SYMMETRY Processes
