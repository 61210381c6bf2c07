\* Two HTTP threads: one serves a challenge, one stops its session.
\* The system stops when the bounded clock, sessions and nonces are used up.
CHECK_DEADLOCK FALSE
CONSTANTS
    x1 = x1
    Nonces = {n1}
    Sessions = {x1}
    Workers = {w1, w2}
    Beater = Beater
    Expiry <- NeverOver
    TTL = 1
    MaxTime = 0
    MaxRestarts = 0
    NoSession = NoSession
    NoNonce = NoNonce
    NoThread = NoThread

SPECIFICATION Spec
INVARIANT NoOrphanNonce
