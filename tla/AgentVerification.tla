----------------------------- MODULE AgentVerification -----------------------------
(***************************************************************************)
(* The server's check of a challenge of the Attendance Agent               *)
(* (core/agent_verification.py) and the attempt it opens.  The nonces that *)
(* were used are kept in the cache of a process.                           *)
(***************************************************************************)
EXTENDS ProcessCache

CONSTANTS
    Challenges,
    ChallengeTTL,   \* CHALLENGE_TTL_SECONDS                       (30 s)
    MaxSkew,        \* bound on the difference of the laptop's clock
    NoChallenge

ASSUME VerificationAssumption ==
    /\ ChallengeTTL \in Nat \ {0}
    /\ MaxSkew \in Nat
    /\ NoChallenge \notin Challenges

VARIABLES
    issued,         \* the challenges an agent has signed
    stamp,          \* their timestamps, by the clock of the laptop
    usedUntil,      \* per process: the end of the key agent_nonce_used:<nonce>
    check,          \* per thread: where verify_agent_challenge stands, and for what
    startedHere,    \* history, per thread: attempts opened in the life of its cache
    attempts        \* history: attempts opened with a challenge

verificationRows == <<issued, stamp, usedUntil, check, startedHere, attempts>>
verificationVars == <<now, restarts, verificationRows>>

Checks == [pc : {"idle", "signature", "create"}, challenge : Challenges \union {NoChallenge}]

Resting == [pc |-> "idle", challenge |-> NoChallenge]

VerificationTypeOK ==
    /\ now \in Nat
    /\ restarts \in Nat
    /\ issued \subseteq Challenges
    /\ stamp \in [Challenges -> Int]
    /\ usedUntil \in [Processes -> [Challenges -> Nat]]
    /\ check \in [Threads -> Checks]
    /\ \A t \in Threads : check[t].pc # "idle" => check[t].challenge \in issued
    /\ startedHere \in [Threads -> [Challenges -> Nat]]
    /\ attempts \in [Challenges -> Nat]

VerificationInit ==
    /\ issued = {}
    /\ stamp = [c \in Challenges |-> 0]
    /\ usedUntil = [p \in Processes |-> [c \in Challenges |-> 0]]
    /\ check = [t \in Threads |-> Resting]
    /\ startedHere = [t \in Threads |-> [c \in Challenges |-> 0]]
    /\ attempts = [c \in Challenges |-> 0]

\* Mutant: a used nonce is kept for as long as a challenge lasts.
KeptForTTL == ChallengeTTL

NonceCacheTTL == 2 * ChallengeTTL

Goto(t, point) == check' = [check EXCEPT ![t].pc = point]

Finish(t) == check' = [check EXCEPT ![t] = Resting]

------------------------------------------------------------------------------------

\* The agent signs a challenge; the clock of the laptop may be ahead or behind.
SignChallenge(c) ==
    /\ c \notin issued
    /\ issued' = issued \union {c}
    /\ \E skew \in -MaxSkew..MaxSkew : stamp' = [stamp EXCEPT ![c] = now + skew]
    /\ UNCHANGED <<now, restarts, usedUntil, check, startedHere, attempts>>

\* Mutant: a timestamp that lies ahead is fresh.
FreshOrAhead(c) == now - stamp[c] <= ChallengeTTL

Fresh(c) == now - stamp[c] \in 0..ChallengeTTL

\* start_attendance_attempt receives a challenge: it must be fresh and its nonce
\* not be known as used.  Other threads may be checking the same challenge.
CheckChallenge(t, c) ==
    /\ check[t].pc = "idle"
    /\ c \in issued
    /\ Fresh(c)
    /\ ~Cached(usedUntil[ProcessOf[t]][c])
    /\ check' = [check EXCEPT ![t] = [pc |-> "signature", challenge |-> c]]
    /\ UNCHANGED <<now, restarts, issued, stamp, usedUntil, startedHere, attempts>>

\* An agent is found for the session and its key verifies: the nonce is used.
MarkUsed(t) ==
    /\ check[t].pc = "signature"
    /\ usedUntil' = [usedUntil EXCEPT ![ProcessOf[t]][check[t].challenge] = now + NonceCacheTTL]
    /\ Goto(t, "create")
    /\ UNCHANGED <<now, restarts, issued, stamp, startedHere, attempts>>

\* No agent is found or the signature is wrong; after that, the student has a
\* record already or no passkey.
RefuseStart(t) ==
    /\ check[t].pc \in {"signature", "create"}
    /\ Finish(t)
    /\ UNCHANGED <<now, restarts, issued, stamp, usedUntil, startedHere, attempts>>

CreateAttempt(t) ==
    /\ check[t].pc = "create"
    /\ startedHere' = [startedHere EXCEPT ![t][check[t].challenge] = @ + 1]
    /\ attempts' = [attempts EXCEPT ![check[t].challenge] = @ + 1]
    /\ Finish(t)
    /\ UNCHANGED <<now, restarts, issued, stamp, usedUntil>>

VerifierRestarts(p) ==
    /\ ProcessReplaced
    /\ usedUntil' = [usedUntil EXCEPT ![p] = [c \in Challenges |-> 0]]
    /\ startedHere' = [t \in Threads |-> IF ProcessOf[t] = p THEN [c \in Challenges |-> 0]
                                         ELSE startedHere[t]]
    /\ check' = [t \in Threads |-> IF ProcessOf[t] = p THEN Resting ELSE check[t]]
    /\ UNCHANGED <<issued, stamp, attempts>>

VerifierTick == Tick /\ UNCHANGED verificationRows

VerificationNext ==
    \/ \E c \in Challenges : SignChallenge(c)
    \/ \E t \in Threads, c \in Challenges : CheckChallenge(t, c)
    \/ \E t \in Threads : MarkUsed(t) \/ RefuseStart(t) \/ CreateAttempt(t)
    \/ \E p \in Processes : VerifierRestarts(p)
    \/ VerifierTick

VerificationSpec ==
    CacheInit /\ VerificationInit /\ [][VerificationNext]_verificationVars

------------------------------------------------------------------------------------

\* In the life of a cache a challenge opens one attempt at most in each of the threads
\* that share it: replays get through only side by side, before the first of them has
\* marked the nonce.  Once it is marked, the key outlasts the challenge, whatever the
\* clock of the laptop says and however the checks overlap.  About
\* verify_agent_challenge, whose lookup and mark are apart, and the two lifetimes it
\* relates.
OncePerThread ==
    \A t \in Threads, c \in Challenges : startedHere[t][c] <= 1

\* A challenge opens one attempt at most ("single-use", crypto_protocol.md).
ChallengeStartsOneAttempt ==
    \A c \in Challenges : attempts[c] <= 1

====================================================================================
