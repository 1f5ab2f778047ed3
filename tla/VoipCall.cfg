SPECIFICATION Spec
CONSTANTS
    Call = {c1, c2}
    Followed = {c1}
    Handler = {p1, p2}
    NoCall = NoCall
    Limit = 1
    Dialling = 2
    MaxSteps = 2
CHECK_DEADLOCK FALSE
INVARIANTS
    OverrunIsBounded
    RecordedCallsWereUp
PROPERTY CallsEnd
