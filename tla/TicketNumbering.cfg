SPECIFICATION NumberFairSpec
CONSTANTS
    Creator = {c1, c2, c3}
    MaxNumber = 5
    NoRow = NoRow
    Nobody = Nobody
INVARIANTS
    NeverCollides
    CounterCoversTickets
PROPERTIES
    CreationEnds
CHECK_DEADLOCK FALSE
