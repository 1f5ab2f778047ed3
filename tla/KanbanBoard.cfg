SPECIFICATION Spec
CONSTANTS
    t1 = t1
    t2 = t2
    t3 = t3
    c1 = c1
    c2 = c2
    open = open
    done = done
    waiting = waiting
    r1 = r1
    r2 = r2
    NoStatus = NoStatus
    NoColumn = NoColumn
    NoTicket = NoTicket
    Ticket <- TicketSet
    Column <- ColumnSet
    Status <- StatusSet
    StatusOf <- Mapping
    Limit <- Limits
    First = c1
    Default = open
    Personal = FALSE
    Request <- Requests
    MaxPos = 2
    MaxOutside = 1
SYMMETRY Symmetry
PROPERTY MoveKeepsOrder
CHECK_DEADLOCK FALSE
