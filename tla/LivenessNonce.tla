------------------------------- MODULE LivenessNonce -------------------------------
(***************************************************************************)
(* The liveness challenge of an attempt, which the view asks for when      *)
(* LIVENESS_VERIFIER_TYPE is "mediapipe"                                   *)
(* (core/liveness_challenge_service.py).                                   *)
(***************************************************************************)
EXTENDS ProcessCache, FiniteSetsExt

CONSTANTS
    Movers,         \* the attempts that ask for a challenge
    Movements,      \* the types in CHALLENGES
    NonceTTL,       \* NONCE_TTL_SECONDS                           (60 s)
    MaxIssues,      \* bound on the challenges issued
    NoNonce

\* _make_nonce: the same attempt, type and second give the same nonce.
MovementNonces == Movers \X Movements \X (0..MaxTime)

ASSUME NonceAssumption ==
    /\ NonceTTL \in Nat \ {0}
    /\ MaxIssues \in Nat
    /\ NoNonce \notin MovementNonces
    /\ IsFiniteSet(Processes)

VARIABLES
    nonceAt,        \* per process and attempt: the key liveness_nonce:<attempt>
    verifying,      \* per thread: the nonce it has found equal to the one sent
    issues, uses    \* history: how often a nonce was issued and accepted

nonceRows == <<nonceAt, verifying, issues, uses>>
nonceVars == <<now, restarts, nonceRows>>

NoKey == [nonce |-> NoNonce, end |-> 0]

NonceTypeOK ==
    /\ nonceAt \in [Processes -> [Movers -> [nonce : MovementNonces \union {NoNonce}, end : Nat]]]
    /\ \A p \in Processes, a \in Movers : nonceAt[p][a] = NoKey \/ nonceAt[p][a].nonce[1] = a
    /\ verifying \in [Threads -> MovementNonces \union {NoNonce}]
    /\ issues \in [MovementNonces -> Nat]
    /\ uses \in [MovementNonces -> Nat]

NonceInit ==
    /\ nonceAt = [p \in Processes |-> [a \in Movers |-> NoKey]]
    /\ verifying = [t \in Threads |-> NoNonce]
    /\ issues = [n \in MovementNonces |-> 0]
    /\ uses = [n \in MovementNonces |-> 0]

\* The thread is free and, unless requests overlap, so is the attempt.
MayServe(t, a) ==
    /\ verifying[t] = NoNonce
    /\ Overlap \/ \A u \in Threads : verifying[u] # NoNonce => verifying[u][1] # a

------------------------------------------------------------------------------------

TotalIssues == MapThenSumSet(LAMBDA n : issues[n], MovementNonces)

IssueMovement(t, a) ==
    /\ MayServe(t, a)
    /\ TotalIssues < MaxIssues
    /\ \E m \in Movements :
        LET n == <<a, m, now>>
            key == [nonce |-> n, end |-> now + NonceTTL]
        IN  /\ nonceAt' = [nonceAt EXCEPT ![ProcessOf[t]][a] = key]
            /\ issues' = [issues EXCEPT ![n] = @ + 1]
    /\ UNCHANGED <<now, restarts, verifying, uses>>

\* The nonce sent is the one in the cache; another, or none there, is an error.
ReadNonce(t, n) ==
    LET key == nonceAt[ProcessOf[t]][n[1]]
    IN  /\ MayServe(t, n[1])
        /\ Cached(key.end)
        /\ key.nonce = n
        /\ verifying' = [verifying EXCEPT ![t] = n]
        /\ UNCHANGED <<now, restarts, nonceAt, issues, uses>>

\* Mutant: the key is left to its timeout.
LeaveKey(t) == nonceAt' = nonceAt

\* cache.delete: whatever the key holds by now.
DeleteKey(t) == nonceAt' = [nonceAt EXCEPT ![ProcessOf[t]][verifying[t][1]] = NoKey]

ConsumeNonce(t) ==
    LET n == verifying[t]
    IN  /\ n # NoNonce
        /\ now - n[3] <= NonceTTL
        /\ DeleteKey(t)
        /\ uses' = [uses EXCEPT ![n] = @ + 1]
        /\ verifying' = [verifying EXCEPT ![t] = NoNonce]
        /\ UNCHANGED <<now, restarts, issues>>

DropOldNonce(t) ==
    /\ verifying[t] # NoNonce
    /\ now - verifying[t][3] > NonceTTL
    /\ DeleteKey(t)
    /\ verifying' = [verifying EXCEPT ![t] = NoNonce]
    /\ UNCHANGED <<now, restarts, issues, uses>>

NonceProcessRestarts(p) ==
    /\ ProcessReplaced
    /\ nonceAt' = [nonceAt EXCEPT ![p] = [a \in Movers |-> NoKey]]
    /\ verifying' = [t \in Threads |-> IF ProcessOf[t] = p THEN NoNonce ELSE verifying[t]]
    /\ UNCHANGED <<issues, uses>>

NonceTick == Tick /\ UNCHANGED nonceRows

NonceNext ==
    \/ \E t \in Threads, a \in Movers : IssueMovement(t, a)
    \/ \E t \in Threads, n \in MovementNonces : ReadNonce(t, n)
    \/ \E t \in Threads : ConsumeNonce(t) \/ DropOldNonce(t)
    \/ \E p \in Processes : NonceProcessRestarts(p)
    \/ NonceTick

NonceSpec == CacheInit /\ NonceInit /\ [][NonceNext]_nonceVars

------------------------------------------------------------------------------------

\* A nonce is accepted at most as often as it was issued, although nonces repeat
\* and every worker keeps a key of its own, as long as the client of an attempt
\* waits for its answers.  About verify_liveness_nonce: get, compare, delete.
UsedAsOftenAsIssued ==
    \A n \in MovementNonces : uses[n] <= issues[n]

====================================================================================
