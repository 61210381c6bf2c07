\* Two students, three attempts, every interleaving of two requests; the clock stands still.
\* The system stops when the bounded clock is at its end and every session is closed.
CHECK_DEADLOCK FALSE
CONSTANTS
    s1 = s1
    s2 = s2
    x1 = x1
    a1 = a1
    a2 = a2
    a3 = a3
    Students = {s1, s2}
    Sessions = {x1}
    Attempts = {a1, a2, a3}
    Requests = {r1, r2}
    NoAttempt = NoAttempt
    StudentOf <- MCStudentOf
    SessionOf <- MCSessionOf
    AttemptTTL = 1
    ChallengeTTL = 0
    HeartbeatMaxAge = 0
    SessionTTL = 1
    MaxTime = 0
    Overlap = TRUE

SPECIFICATION Spec
SYMMETRY ThreadSymmetry
INVARIANTS NoConstraintAbort ChainLinear
PROPERTY RegisterSpec
