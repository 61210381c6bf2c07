\* Two HTTP threads and the heartbeat thread; the clock stops before the session runs
\* out.
\* The system stops when the bounded clock, sessions and nonces are used up.
CHECK_DEADLOCK FALSE
CONSTANTS
    x1 = x1
    Nonces = {n1}
    Sessions = {x1}
    Workers = {w1, w2}
    Beater = Beater
    Expiry <- NeverOver
    TTL = 1
    MaxTime = 1
    MaxRestarts = 1
    NoSession = NoSession
    NoNonce = NoNonce
    NoThread = NoThread

SPECIFICATION FairSpec
INVARIANTS TypeOK OnlyOvertakenOrphans
PROPERTIES CallsReturn SessionReachesAgent
