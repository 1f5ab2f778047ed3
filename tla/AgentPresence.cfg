CONSTANTS
    a1 = a1
    a2 = a2
    p1 = p1
    p2 = p2
    None = None
    Agent = {a1}
    Process = {p1, p2}
    Nobody = None
    TTL = 2
SPECIFICATION FairSpec
INVARIANTS
    DeadAreNotAssignable
    ChoiceIsKept
PROPERTIES
    DeadAreReaped
