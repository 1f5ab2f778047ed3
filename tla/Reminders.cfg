CONSTANTS
    r1 = r1
    w1 = w1
    w2 = w2
    q1 = q1
    Reminder = {r1}
    Worker = {w1, w2}
    Request = {q1}
    MaxTime = 1
    MaxEdits = 2
SPECIFICATION ReminderFairSpec
INVARIANTS
    RepeatedOnlyByRaces
    StampMeansAlert
PROPERTIES
    DueAreClaimed
