\* A client that waits for each answer before the next request on an attempt.
\* The system stops when the bounded clock is at its end and every session is closed.
CHECK_DEADLOCK FALSE
CONSTANTS
    s1 = s1
    s2 = s2
    x1 = x1
    a1 = a1
    a2 = a2
    a3 = a3
    Students = {s1, s2}
    Sessions = {x1}
    Attempts = {a1, a3}
    Requests = {r1, r2}
    NoAttempt = NoAttempt
    StudentOf <- PairStudentOf
    SessionOf <- PairSessionOf
    AttemptTTL = 1
    ChallengeTTL = 1
    HeartbeatMaxAge = 1
    SessionTTL = 1
    MaxTime = 2
    Overlap = FALSE

SPECIFICATION Spec
SYMMETRY ThreadSymmetry
INVARIANT LedgerVerifies
PROPERTY FinalIsFinal
