\* Two students, overlapping requests; every lifetime runs out at the first tick.
\* The system stops when the bounded clock is at its end and every session is closed.
CHECK_DEADLOCK FALSE
CONSTANTS
    s1 = s1
    s2 = s2
    x1 = x1
    a1 = a1
    a2 = a2
    a3 = a3
    Students = {s1, s2}
    Sessions = {x1}
    Attempts = {a1, a3}
    Requests = {r1, r2}
    NoAttempt = NoAttempt
    StudentOf <- PairStudentOf
    SessionOf <- PairSessionOf
    AttemptTTL = 0
    ChallengeTTL = 0
    HeartbeatMaxAge = 0
    SessionTTL = 0
    MaxTime = 1
    Overlap = TRUE

SPECIFICATION FairSpec
INVARIANTS TypeOK StrictSequence
PROPERTY RequestsComplete
