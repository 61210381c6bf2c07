\* The session runs out while the agent holds it.
\* The system stops when the bounded clock, sessions and nonces are used up.
CHECK_DEADLOCK FALSE
CONSTANTS
    x1 = x1
    Nonces = {n1}
    Sessions = {x1}
    Workers = {w1}
    Beater = Beater
    Expiry <- SoonOver
    TTL = 1
    MaxTime = 2
    MaxRestarts = 0
    NoSession = NoSession
    NoNonce = NoNonce
    NoThread = NoThread

SPECIFICATION FairSpec

PROPERTY CallsReturn
