SPECIFICATION Spec
CONSTANTS
    Email = {e1, e2}
    Agent = {a1, a2}
    Process = {p1, p2}
    Nobody = Nobody
    Pool <- Pools
    MaxLoad = 1
    Targets = {"in_progress"}
    MaxTickets = 2
INVARIANTS
    EndsOnce
    LoadIsMail
PROPERTIES
    EngineKeepsCapacity
    NothingIsTakenAway
SYMMETRY Alike
CHECK_DEADLOCK FALSE
