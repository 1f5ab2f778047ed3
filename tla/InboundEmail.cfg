SPECIFICATION FairSpec
CONSTANTS
    Row = {r1, r2}
    Worker = {w1, w2}
    Agent = {a1}
    MaxRetries = 1
    Faults = {"unsent", "error", "kill", "lose"}
    NoRow = NoRow
INVARIANTS
    OneTicketPerMessage
PROPERTIES
    UsedRowsAreLeft
    RowIsSettled
CHECK_DEADLOCK FALSE
