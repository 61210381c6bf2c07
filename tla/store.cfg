\* Three nonces, two sessions; the clock runs to one past the end of a nonce issued last.
\* The system stops when the bounded clock is at its end and every nonce is issued.
CHECK_DEADLOCK FALSE
CONSTANTS
    Nonces = {n1, n2, n3}
    Sessions = {x1, x2}
    TTL = 1
    MaxTime = 3
    NoSession = NoSession

SPECIFICATION Spec
SYMMETRY Interchangeable
INVARIANT TypeOK
PROPERTIES AcceptedInTime RememberedForItsLifetime OneTimeSpec
