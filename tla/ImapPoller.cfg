SPECIFICATION FairSpec
CONSTANTS
    Poller = {p1, p2}
    History = 1
    MaxUid = 3
    Faults = {"kill", "fetch", "broker"}
INVARIANTS
    NoBackfill
    NothingSkipped
    RowsAreQueued
PROPERTIES
    MailIsHandedOn
