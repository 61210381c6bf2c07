\* The face of a student and the caches of two workers.
CHECK_DEADLOCK FALSE
CONSTANTS
    p1 = p1  p2 = p2  t1 = t1  t2 = t2  t3 = t3
    s1 = s1  s2 = s2  s3 = s3
    prof1 = prof1  prof2 = prof2
    x1 = x1  x2 = x2  x3 = x3
    me = me  other = other
    Parts = {"face"}
    Processes = {p1, p2}
    Threads = {t1, t2, t3}
    ProcessOf <- MCProcessOf
    Overlap = FALSE
    MaxTime = 3
    MaxRestarts = 1
    Challenges = {c1}
    ChallengeTTL = 1
    MaxSkew = 1
    NoChallenge = NoChallenge
    Limit = 2
    Window = 2
    MaxRequests = 4
    Movers = {m1}
    Movements = {blink, left}
    NonceTTL = 1
    MaxIssues = 3
    NoNonce = NoNonce
    Faces = {f1, f2}
    NoFace = NoFace
    Nobody = Nobody
    Shots <- MCShots
    Noise = Noise
    Broken = Broken
    Persons = {me, other}
    NoPerson = NoPerson
    MaxShots = 4
    Professors = {prof1, prof2}
    Agents = {g1, g2}
    Rooms = {x1, x2, x3}
    RoomOf <- MCRoomOf
    NoProfessor = NoProfessor
    NoAgent = NoAgent
    NoRoom = NoRoom
    Passes = {k1, k2}
    NoPass = NoPass
    MaxOptions = 2
    MaxSigns = 2
    Pupils = {s1, s2, s3}
    Tries = {1, 2, 3, 4}
    TryOf <- MCTryOf

SPECIFICATION PartsSpec
INVARIANT RevokedEverywhere
