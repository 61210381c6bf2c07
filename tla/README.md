# Formal verification of Secure_Attendance_System

The system records classroom attendance. A professor opens a session on a Django server; an
*Attendance Agent* on the professor's laptop hands out challenges on the classroom network; a
student starts an attempt with such a challenge, passes face liveness, obtains a WebAuthn
challenge, signs it with a passkey and submits. Accepted attempts become records, and every record
an entry of a signed hash chain.

This directory models that system in TLA+, checks it with TLC and proves its central properties
with TLAPS. Sources are named relative to the repository; `core/` stands for
`secure_attendance/core/`.

## 1. Inventory

| part | code | state | operations |
|---|---|---|---|
| attendance protocol | `core/secure_presence_v2_service.py`, `core/presence_service.py`, `core/views.py` | rows of `AttendanceAttempt`, `LivenessVerification`, `PresenceHeartbeat`, `AttendanceRecord` | start, heartbeat, liveness, signing challenge, submit |
| audit ledger | `core/audit_service.py` | rows of `AttendanceAuditEntry`, `AttendanceSessionAuditRoot` | append an entry, verify a session, sign the root (never called) |
| sessions | `core/session_service.py`, `agent_*` views | rows of `AttendanceSession`, `AttendanceAgent`; the secret in the cache | create (closes the others, binds an agent, pushes the secret), stop, register, heartbeat, sync |
| agent | `attendance_agent/agent.py`, `api.py` | sessions in memory under a lock, Ed25519 identity | start, stop, list, generate a challenge, sync from the server |
| challenge store of the agent | `attendance_agent/challenge_store.py` | nonces under a lock of its own | issue, verify and consume, revoke, purge |
| heartbeat thread of the agent | `attendance_agent/heartbeat.py`, `__main__.py` | registered flag | register, sync, beat |
| agent challenge verification | `core/agent_verification.py` | used nonces in the worker's cache | freshness, replay check, signature, mark used |
| passkeys | `core/webauthn_service.py` | rows of `PasskeyCredential` | register, authenticate, revoke |
| liveness | `core/liveness.py`, `core/face_system/engine.py` | none (networks) | recognise, decide on spoofing |
| liveness nonces | `core/liveness_challenge_service.py` | nonce in the worker's cache | issue, verify |
| face registry | `core/student_service.py` | embeddings in the database and in a cache per process | register, verify, revoke |
| rate limiter | `core/rate_limit.py` | counter in the worker's cache | count a request |
| accounts, dashboards, exports | `core/views.py`, `core/admin.py`, commands | users | login, pages, CSV, deletion |

**How they interact.** A student's browser calls the agent (`GET /challenge`) and the server (the
five requests of an attempt). The agent pulls sessions from the server (`/agent/sync/`) in a
background thread and on demand; the server pushes a new session's secret to the agent once, and
never tells it that a session closed. The protocol calls the agent-challenge verification, the
liveness verifier, WebAuthn and the audit ledger as functions of the same process.

**What is hard.** gunicorn runs four processes of two threads (`secure_attendance/Dockerfile:33`):
every handler interleaves, statement by statement, with seven others, on a database in autocommit
(no `ATOMIC_REQUESTS`); only submit is a transaction with row locks. The Django cache is local to a
process (`settings.py`, `LocMemCache`), so whatever is checked against the cache is checked against
one quarter of the traffic. The agent is threaded with two locks that are not re-entrant. A worker
may die between two statements. Five lifetimes run at once: agent challenge 30 s, heartbeat 45 s,
signing challenge 120 s, attempt 5 min, session 30 min.

**What makes each part correct.**

- protocol: the strict sequence of an attempt; final statuses are final; at most one record per
  student and session, none in a closed session; every request ends.
- audit ledger: one chain per session, and an untouched ledger verifies.
- agent: no challenge of a stopped session, unless the stop overtook its issue; every call returns;
  a nonce is used once.
- agent verification: a challenge starts one attempt at most; within one cache, at most one per thread.
- sessions: one active session per professor; a closed session stays closed.
- passkeys: a revoked one stays revoked, the signature counter is monotonic, a registration
  challenge is answered once.
- caches: a revoked face is not recognised; the limiter admits more than the limit only where requests
  raced; a liveness nonce is accepted once per issue.
- liveness decision: a burst passes for the person judged last, and anomalous frames are not outvoted
  by a few good ones.

## 2. Modules

| module | part | theorems in |
|---|---|---|
| `AttendanceRegister` | what the protocol promises a professor (abstract) | |
| `AttendanceProtocol` | the four requests of an attempt | `AttendanceProtocolProofs` |
| `OneTimeNonce` | what a nonce store promises (abstract) | |
| `ChallengeStore` | the nonce store of the agent | `ChallengeStoreProofs` |
| `AttendanceAgent` | the agent: threads, lock, sessions; uses `ChallengeStore` | `AttendanceAgentProofs` |
| `Workers`, `ProcessCache` | the processes and threads of gunicorn; the clock and the life of a cache | |
| `AgentVerification` | the server's check of an agent challenge | `CacheProofs` |
| `SessionService` | creating sessions and binding agents | `RowProofs` |
| `AuditLedger` | the ledger of a session under deletions | `RowProofs` |
| `FaceRegistry` | file, row and caches of a student's face | `FaceProofs` |
| `Passkeys` | registration, assertion, revocation | `RowProofs` |
| `LivenessNonce` | the movement challenge | `CacheProofs` |
| `RateLimit` | the counter of a caller | `CacheProofs` |
| `FaceDecision` | the verdict on a burst of frames | `FaceProofs` |
| `MCServerParts` | the sum of the parts of the server, and its instance for TLC | `ServerPartsProofs` |
| `MCAttendanceProtocol`, `MCChallengeStore`, `MCAttendanceAgent` | instances for TLC | |

`NaturalLemmas` has the two lemmas about sets of natural numbers that stand for induction in
`RowProofs` and `FaceProofs`.

What a next step could add: the refinement of `AttendanceProtocol` with the challenge check and the
passkeys as components instead of free verdicts (the product is large for TLC).

## 3. `AttendanceProtocol`

### State

| variable | stands for |
|---|---|
| `now` | `timezone.now()` |
| `attempt` | per attempt: `status`, `expires_at`, a number that identifies `signing_challenge` (renewed at every issue, with its issue time), `challenge_expires_at`. `"ABSENT"` is a row not created yet |
| `liveness` | the one-to-one `LivenessVerification` row |
| `heartbeat` | the time of the last `PresenceHeartbeat` row (plus one; 0 is none) |
| `session` | `active` and `expiry` of the session row |
| `ledger` | per session the sequence of records, each with the audit entry created in the same transaction |
| `req` | per worker thread: the program point of the handler it runs, its attempt, and the end of the chain it has read |

A handler is a sequence of actions, one per database statement (or per run of statements between
which no other request can matter). `StartSession`, `StartEnrol`, `StartCreate`, `RecordBeat` are
`start_attendance_attempt`; `Heartbeat` is the heartbeat view; `LivenessRead`, `MarkExpired`,
`LivenessDecide`, `LivenessSave`, `RecordBeat` are `process_liveness_verification`;
`ChallengeRead`, `MarkExpired`, `ChallengeGate`, `ChallengeSave` are `issue_signing_challenge_v2`;
`SubmitLockAttempt`, `SubmitLockSession`, `SubmitVerify`, `SubmitCommit` are
`submit_attendance_v2`. `CloseSession` is the UPDATE of `agent_stop_session_view` and of
`create_attendance_session`. `RequestDies` kills a worker between two statements: what was
autocommitted stays, an open transaction is gone.

Locks have no variable. `select_for_update` is held exactly while a request stands at a program
point inside the transaction, so `AttemptLocked` and `SessionLocked` are defined from `req`. Every
UPDATE of a locked row waits, and so does every INSERT whose foreign key refers to it (PostgreSQL
takes `FOR KEY SHARE`, which `FOR UPDATE` excludes).

`Overlap` says what the client does: `TRUE`, two requests on one attempt may run at once (a
double click, a retry after a timeout); `FALSE`, the browser waits for each answer.

Abstracted: the verdicts of the agent challenge, the liveness verifier and the passkey assertion
are free choices (they depend on the outside); hashes are injective, so a report is the pair of
attempt and challenge; the legacy `chained_hash` is left out (nothing of V2 reads it). The sessions of
the model are created before it starts.

### Properties and runs

| run | instance | properties |
|---|---|---|
| `protocol_class` | 2 students, 3 attempts, 2 threads, overlap, clock at rest | `NoConstraintAbort`, `ChainLinear`, `RegisterSpec` |
| `protocol_clock` | 2 students, 2 attempts, 2 threads, overlap, all lifetimes end at the first tick, fair | `TypeOK`, `StrictSequence`, `RequestsComplete` |
| `protocol_sequential` | as clock, no overlap, clock 0..2 and lifetimes of one | `LedgerVerifies`, `FinalIsFinal` |
| `protocol_reopened` | 1 attempt, 2 threads, overlap | `LedgerVerifies` is **violated** |

`RegisterSpec` is the refinement of `AttendanceRegister`, the view of a professor: the register of a
session grows only while it is open, and names a student once. A request passes its check of the
session long before it inserts the record; what makes the refinement hold is that the session row
stays locked in between.

The bounds: two threads suffice for every race of two statements, three attempts of two students
cover same-attempt, same-student and same-session contention; lifetimes of one unit with a clock of
two let each of them run out before and after each other (a request that comes after an end is the
same however long after). Worker threads are interchangeable, which
is the symmetry of the runs without fairness.

Fairness (`protocol_clock`): strong fairness of every step of a running handler. Operating
systems schedule threads, and PostgreSQL queues the waiters of a row lock; a lock is free again and
again but not for ever, hence strong. Nothing is assumed of new requests, crashes, professors or
the clock.

### What the run `protocol_reopened` found

`issue_signing_challenge_v2` saves the row it read earlier without a lock or a condition. Two
overlapping challenge requests; the first is answered, signed and accepted; then the second saves
`CHALLENGE_ISSUED` over `ACCEPTED`, and the integrity check reports an untouched ledger as corrupted.

No property speaks of `expires_at` at the submission: `submit_attendance_v2` does not read it, so an
attempt is accepted up to 120 s (the life of the signing challenge) after the five minutes.

### Proofs (`AttendanceProtocolProofs`)

For all values of the constants under `ProtocolAssumption`: `TypeCorrect`, `SequenceIsStrict`,
`ConstraintNeverAborts`, `ChainIsLinear` and `ImplementsRegister` with overlapping requests;
`LedgerAlwaysVerifies` and `FinalStatusStands` when a client waits for each answer (`~Overlap`), as
`protocol_sequential` has it.

The inductive invariant `Inv` adds to the checked properties what makes them inductive:
`LocksExclusive` (two requests inside the session lock are in different sessions; two that hold an
attempt hold different ones), `VerdictKnown` (a request past its liveness verdict knows that the row
exists, and that it is PASSED if the status says so) and `CheckStands` (a request that holds the session
lock still has what it checked: the session is active, the student has no record, and the end of
the chain it read is still the end). `ChainLinear` follows because `CheckStands` makes the
appended link the last one; the refinement because the insert happens under the same lock as the
checks.

The second pair is false with overlapping requests (`protocol_reopened`), and `Inv` knows nothing of
it. `SequentialInv` adds: two requests in flight are about different attempts (`OneRequest`); the status in
which a handler found its attempt is still the one it has when the handler writes (`StatusStands`); every
record rests on an accepted attempt of its student and session whose challenge is the one in its report
(`RecordsCurrent`). The lemma `RowWriters` says who changes a row at all: a step of a handler of that
attempt, or a submission that finds the challenge too old. With `OneRequest` that leaves the handler itself, and
none of its writes starts from a final status; so no accepted attempt is written again, which is what both
properties say. Other students, professors who close sessions, crashes and the clock remain free.

Liveness (`RequestsComplete`) is TLC's only.

## 4. `ChallengeStore`

The nonce store of the agent. Every method of the class runs under the store's lock, so each is one
action: `Issue`, `VerifyAndConsume` (with `Purged`, which it runs first) and `RevokeSession`. The clock is
not under the lock: `Issue` takes the expiry from an earlier reading, and `VerifyAndConsume` reads
the clock twice and may find it moved. `issued` and `uses` are history variables: which nonces were
drawn (`secrets.token_hex` repeats none) and how often each was accepted.

Run `store` (3 nonces, 2 sessions, lifetime 1, clock 0..3; nonces and sessions are interchangeable):

- `OneTimeSpec`: the store implements `OneTimeNonce` (a nonce is fresh, then live, then over, and
  accepted once while live); purged and revoked nonces never return;
- `AcceptedInTime`: a nonce is accepted only in its lifetime. This is what the second comparison with
  the clock, after the purge, is for;
- `RememberedForItsLifetime`: an entry leaves the store only when it is too old or revoked, so a
  replay is recognised as one.

Proved in `ChallengeStoreProofs` for every set of nonces and sessions: `StoreTyped`,
`NonceAcceptedOnce`, `NonceAcceptedInTime`, `EntryRemembered` (the property
`RememberedForItsLifetime`), `ImplementsOneTimeNonce`. The invariant `UsedIsMarked`
says that a stored nonce was drawn, an undrawn one is unused, and an accepted one is marked as used
for as long as it is stored; without the second part a step could store an accepted nonce again.

## 5. `AttendanceAgent`

HTTP threads (`Workers`), the heartbeat thread (`Beater`), the dictionary of sessions (`running`), the
store (through `Store == INSTANCE ChallengeStore`), and of the server the sessions it created (`opened`)
and holds active (`active`).

| code | actions |
|---|---|
| `GET /challenge`, `generate_challenge` | `Challenge`, `GetSession`, `IssueChallenge` |
| `sync_sessions_from_django`, `_sync_and_heartbeat`, answered by `agent_sync_view` | `SyncAnswer`, `SyncFails`, `SyncGet`, `SyncStart`, `SyncEnd` |
| `GET /status`, `list_active_sessions` | `Status`, `List` |
| `POST /stop-session`, `stop_session` | `StopRequest`, `Stop`, `Revoke` |
| `create_attendance_session`, push, `POST /start-session` | `OpenSession`, `Start` |
| `HeartbeatSender.run`, `register_with_django` | `Beat` |
| server closes a session | `CloseSession` |
| process restart | `AgentRestart` |

The agent's lock is a `threading.Lock`. A section that only touches the dictionary is one action; the
one section that calls another method of the agent, the expiry in `get_active_session`, keeps the
lock (`StopHoldingLock`) and the call then waits for it (`Stop`). The registration at start-up is the
case of a first `Beat`; the beats themselves write only `last_heartbeat` on the server, which
nothing reads, and are left out. `/stop-session` is a route of the agent that the server never calls;
the model lets anyone with the token call it.

| run | instance | properties |
|---|---|---|
| `agent_returns` | 1 session, 2 workers, 1 nonce, clock 0..1, 1 restart, fair | `TypeOK`, `OnlyOvertakenOrphans`, `CallsReturn`, `SessionReachesAgent` |
| `agent_orphan` | 1 session, 2 workers, 1 nonce | `NoOrphanNonce` is **violated** |
| `agent_expiry` | 1 session that runs out | `CallsReturn` is **violated** |

`NoOrphanNonce` is what the comment of `stop_session` promises: a stored challenge belongs to a session in
memory, or to one whose revocation is under way. The agent serves every request in a thread of its own
(`threaded=True`), and `agent_orphan` shows the two that break it: one has looked the session up, the
other stops it and revokes its challenges, and the first stores its challenge after that. Only
`/stop-session` leads there, which needs the token of the API.

`OnlyOvertakenOrphans` is what does hold, for any number of threads: the challenges left behind are those in
`late`, whose session was stopped between its lookup and the issue. Nothing else leaves one: not a
synchronisation that starts the session again before the revocation, nor the two halves of a stop, nor a
restart. `CallsReturn` holds as long as no session runs out; `agent_expiry` shows what happens when one does.

Two workers and one nonce are enough for a stop between the lookup and the issue of another request, and the heartbeat
thread starts the session again in between; the clock ticks once, so that a nonce is also stored later than
it was asked for.

Fairness: weak fairness of every step under way and of the waking of the heartbeat thread (an operating
system schedules threads; the interval ends), and strong fairness of the server's answer to the
heartbeat thread (asked again and again, it answers some time). The number of restarts is bounded:
an agent restarted for ever need not hold a session.

The run `agent_expiry`: the first request for a session that has run out takes the lock twice and
blocks, and with it every later request and the heartbeat thread.

Two things the model shows and no property states, because no code could make them true: the server
never tells the agent that a session closed (nothing but expiry and `/stop-session` removes one), and
expired nonces are purged by `verify_and_consume` only, which no route calls.

Proved in `AttendanceAgentProofs`, for every number of workers, sessions and nonces: `AgentTyped` (it
includes that the lock is held across steps only by a thread that waits for itself) and
`OrphansAreOvertaken`, the property `OnlyOvertakenOrphans`. The invariant of the first says what a thread knows
where it stands (`LocalsOK`: only a worker asks for a challenge, with a session and a nonce; a synchronisation
goes on at one of three points). The second needs one fact more: the session for which a challenge is about to
be issued is in memory, or was stopped since and the nonce is in `late` (`IssueRunning`). Then the challenge
stored is owned or overtaken, and whoever takes a session away goes on to revoke its challenges.
Liveness stays with TLC.

## 6. The parts of the server around the protocol

### Threads, processes, caches

`Workers` has the processes of gunicorn and their request threads; `ProcessCache` the clock, the life
of a key with a timeout (`Cached`) and the replacement of a process, which empties its cache and ends
its requests. The threads of all processes interleave freely in `AgentVerification`, `RateLimit` and
`FaceRegistry`, whoever sends the requests: replays of one challenge, callers behind one address, an
administrator and a student.

The read-modify-write sequences of the code hold no lock and no transaction, so some of what one would like
to say of them is false when the requests of *one client* are served at once. There are two ways to say
what is true:

- Where the requests come from clients that do not know of each other, the property tells apart by a history
  variable what raced: `raced` in `RateLimit`, `disturbed` in `FaceRegistry`, `startedHere` by thread in
  `AgentVerification`.
- Where they come from one client, `Overlap = FALSE` is the client that waits for each answer: the
  student of an attempt in `LivenessNonce`, the owner of the passkeys in `Passkeys`, the professor in
  `SessionService`. Other clients interleave in any case. With `Overlap = TRUE` TLC violates
  `UsedAsOftenAsIssued`, `ConfirmedOnce`, `CounterStays` and `OneActiveSession`; `RevocationStays` and
  `ClosedStaysClosed` hold with overlap too, and are proved without the premise.

### The modules

**`AgentVerification`** (`core/agent_verification.py`). A challenge is its timestamp by the laptop's clock,
which may be ahead or behind by `MaxSkew`. `CheckChallenge` is the comparison with the server's clock and
the lookup of the nonce, `MarkUsed` the entry in the cache after the signature check, `CreateAttempt`
the row of `start_attendance_attempt`; `RefuseStart` every refusal in between. Signatures are ideal. Any
number of threads may check one challenge at once. Those that share a cache and have looked the nonce up
before the first of them marks it all get through; `OncePerThread` says that nobody else does.

**`SessionService`** (`core/session_service.py`, agent views). `CloseOthers`, `OwnAgent`, `FreeAgent`,
`AnyAgent`, `BindAgent`, `InsertSession` are the statements of `create_attendance_session` in order;
`HeartbeatRead`, `HeartbeatSave` the heartbeat view; `DiscoverAgent`, `DiscoverSave` the discovery in
`resolve_agent_for_session`. The unique column `professor` makes a second binding fail (`JobFails`).
Names, secrets and times are left out. Each session id is created once (`uuid4`).

**`AuditLedger`** (`core/audit_service.py`, `core/attendance_service.py`, `core/admin.py`, commands). A
submission is one step, since it holds the session lock (`AttendanceProtocol` has it in detail). The
rows that go are those of the cascades of `on_delete`. `V2Valid` and `LegacyValid` are the two integrity
checks. `V2Valid` looks the attempt of an entry up by student and takes the first by primary key, as the
code does. Entries are a set with the time `signed_at` in each, and `order_by('signed_at')` is `Earlier` and
`LastOf`; the times are natural numbers, later for each new entry, since submissions of a session take turns.
The signature of an entry is left out: no check verifies it. `close_session_audit_root` is
left out: nothing calls it.

**`FaceRegistry`** (`core/student_service.py`, `core/liveness.py`). The file, the profile row and the dictionary of
each process, written one by one; `CallFails` is a database error between them. Calls overlap as they like:
`disturbed` is a history variable with the writers that another writer overlapped, or a lookup of their own
process that had begun before them (it may fill the cache with what it loaded earlier). `settled` is the
outcome last reported by an undisturbed writer, and its process; a write that begins ends it. An embedding
matches itself only.

**`Passkeys`** (`core/webauthn_service.py`, its views). One student. A credential is made by an authenticator
for one challenge; `RegisterVerify` writes the row, `RegisterDone` takes the challenge out of the session.
`AssertVerify` reads the row and compares the counter, `AssertSave` writes it. `Revoke` is the
administrator's. The verdicts of the WebAuthn library are its guards (right challenge, larger counter).

**`LivenessNonce`** (`core/liveness_challenge_service.py`). The nonce is a hash of attempt, movement and
second, so it repeats within a second: nonces are such triples. `ReadNonce` and `ConsumeNonce` are the
get and the delete.

**`RateLimit`** (`core/rate_limit.py`). One key: a user, or all who share an address. `ReadCount` and `WriteCount`,
by any number of threads at once. A request admitted is `raced` if another one was admitted between its
read and its write.

**`FaceDecision`** (`core/liveness.py`, `core/face_system/engine.py`). What the networks answer for a frame is
an input: who finds a box, whether the face is tilted or too close, three scores and the face.
`Parsed`, `Live`, `Compared`, `SpoofReason`, `Overall` are the functions of the code over a burst; frames that
decode keep their place in it, and sums run over the places. Scores
are integer percentages that add up to 100, and an average is compared as a sum with threshold times
number, where the code divides floats. The thresholds are those of the engine.

A payload that is no list decodes as one image. In a list, an item whose decoding raises (`Broken`; no padding, an
empty string) ends the reading, the frames before it are kept, and the code goes on to decode the *whole*
JSON text as one image: what follows its first comma, with everything left out that is not base64. Which
image that is depends on the text. With the frames first it is the first of them once more; where the
first comma lies elsewhere it is another item, an image in another field, or none. The variable `text`
is that image, any one or none (`Wholes`), and `Parsed` puts it behind the frames kept. So a burst with an
undecodable item is judged by other frames than those sent, and can pass where they would not. The three
properties are about the frames judged (`Judged`); where every item can be decoded they are the ones sent.

### The run `server_parts`

The parts share no rows, so `MCServerParts` is their sum: the variable `part` picks one, the rows of the
others rest, and the states add up (641 thousand) instead of multiplying. Two processes with a cache each,
one of them with two threads, one restart, clock 0..3. The requests of the part `session`, which knows no
processes, come to two of the three threads (`FewerThreads`).

| part | bounds | properties |
|---|---|---|
| `verification` | 1 challenge, lifetime 1, skew -1..1 | `OncePerThread` |
| `limit` | limit 2, window 2, 4 admitted | `WithinLimit` |
| `nonce` | 1 attempt, 2 movements, lifetime 1, 3 issues | `UsedAsOftenAsIssued` |
| `face` | 2 faces | `OutcomeStands`, `StatusAgrees` |
| `decision` | bursts of up to 4 of 9 items (7 frames, noise, an undecodable one) and any image the text may decode to | `AnomaliesOutvoted`, `LatestFaceDecides`, `SteadyFacePasses` |
| `session` | 2 professors, 3 sessions, 2 agents | `OneActiveSession`, `ClosedStaysClosed` |
| `pass` | 2 credentials, 2 challenges, counters to 2 | `ConfirmedOnce`, `RevocationStays`, `CounterStays` |
| `ledger` | 3 students, 4 attempts, two of one student | `UntouchedVerifies`, `InnerDeletionDetected` |

Two threads of one process and one of another are the least for a race inside a cache and between two.
Skew and lifetime of
one unit reach both ends of the comparison; a clock of 3 lets the key of a used nonce expire. Limit 2 and
four requests are the least for a window that straddles two counts. Bursts of four are enough for two
scored frames on either side of an average with a frame without a face between them; the frames include one on
each threshold. Four attempts give a chain with a middle and a student who is recorded twice after a
deletion.

`PartsTypeOK` is the conjunction of the type invariants. Deadlock is off: the parts stop when bounded
clocks, ids and counters are used up.

### What the violation runs found

- `challenge_replayed`: `crypto_protocol.md` says that challenges are single-use; each of the four workers
  accepts the same one, since each has a cache of its own, and the threads of one worker do when they look
  the nonce up before one of them has marked it.
- `face_revoked`: `revoke_student_face` "clears memory cache", that of its own process; the other workers go
  on recognising the face until they are restarted.
- `ledger_truncated`: `SECURE_PRESENCE_V2.md` says that the chain detects deleted entries; the last ones
  can go unnoticed. `InnerDeletionDetected` is what does hold: an entry that is left
  tells of everything that was there when it was added.

### Proofs

All for every number of processes, threads and items, and every value of the lifetimes.

`CacheProofs`, the parts whose state is in the caches of the processes:

- `VerificationTyped`; `ChallengeOncePerThread`, with any overlap. A key of twice the lifetime outlives the
  challenge (`KeyOutlasts`). The invariant says that a thread under way has opened nothing yet with its
  challenge, and sets the key before it opens an attempt (`CheckStands`), and that the key of a challenge that
  opened one outlives it (`StartedIsKnown`): when the thread comes with the same challenge again, it is known
  or no longer fresh.
- `LimiterTyped`, `LimitHolds`, with any overlap. `ReadingStands`: what a thread has read is still the count unless
  another was admitted since. `CountsTheLast` relates counter and history: the key lasts for a window after the
  last request, and counts every run of requests that ends with it, lies within a window and did not race.
  The lemma `AccountGrows` is the arithmetic of one more request.
- `MovementNonceTyped`, `NonceUsedOncePerIssue` (an attempt whose client waits). The account behind it is
  `IssuesAccountFor`: acceptances of a nonce, and keys with it in the caches of all processes, are together at
  most its issues. An issue adds one on both sides, even where it overwrites the key of the same second;
  an acceptance takes a key and adds a use, since `FoundStands` says that what a thread has found is still there.
  `Processes` must be finite for the count (`NonceAssumption`).

`RowProofs`, the parts whose state is rows:

- `SessionsTyped`, `ClosedNeverReopens` (with overlap; the row a creation inserts was not there before,
  `CreatedOnce`), `OneActive` (without; `NothingOpen`: while a session is created, its professor has none
  that is open and creates no other).
- `PassesTyped`, `RevokedStaysRevoked` (with overlap), `ChallengeConfirmedOnce` and `CounterNeverDrops`
  (without; `ReadStands`: what a request has read is still so when it writes, and `OpenUnconfirmed`: a challenge
  in the session has not been answered).
- `LedgerInvariance`, `UntouchedLedgerVerifies`, `InnerDeletionShows`. Entries can disappear anywhere, so nothing
  can be said of what a hash points at, only of what it tells if it is still there: `LinksTell` and
  `ChainsTell` say that an entry with no link had nothing before it, and that nothing was between it and the entry
  it is linked to. As long as nothing was deleted, every entry is `Linked` to the one before. For
  `InnerDeletionShows` take the earliest entry before which something is missing: its link is to the entry
  before it, before which nothing is missing, and nothing was in between.

`FaceProofs`:

- `FacesTyped`, `ReportedOutcomeStands`, `StatusIsReported`, with any overlap. `OnlyWriter`: an undisturbed writer
  writes alone. `WriterProgress` says how far it has come, and what the lookups of its process have loaded
  meanwhile; `WriterOpens` and `Settles` that what was reported is in file and row, and in the cache of the
  process that reported it or nowhere there, until the next write begins.
- `DecisionInvariance` (a decision is the one its verifier comes to), and from it and the lemmas about sums
  `AnomaliesAreOutvoted`, `LastFaceDecides` and `SteadyFaceAlwaysPasses`, for bursts of every length and scores of
  every frame. `Sum` is a recursive function; that it is defined, and bounded by its least and its
  largest weights (`SumAtLeast`, `SumAtMost`), is induction over the places of the burst, which the provers take
  in the form of `AllNaturals`: a set with 0 and every successor is the set of natural numbers.

`ServerPartsProofs`: `SumOfParts` (each behaviour of `MCServerParts` is one of the part it runs: what is proved of a
part holds of the sum) and `PartsTyped`. The parts with a cache share the clock, which runs while the rows
of the other three rest; hence the lemma `ClockMoves`, and types that do not depend on who moved it.

Only model-checked: liveness (`RequestsComplete`, `CallsReturn`, `SessionReachesAgent`). What has no theorem for a
reason: the properties of the runs that expect a violation, which are false. Proved with the premise
`~Overlap`, because TLC refutes them without it: `NonceUsedOncePerIssue`, `OneActive`,
`ChallengeConfirmedOnce`, `CounterNeverDrops`, `LedgerAlwaysVerifies`, `FinalStatusStands`. Nothing is promised of a passkey whose
registration is sent again after its worker died (`Repeatable`): the code makes its row anew, active and with
the counter at zero, also when it was revoked.

## 7. Not modelled

Face recognition networks (floating point; their answers are inputs of `FaceDecision`), cryptographic
primitives and the WebAuthn library (treated as ideal), HTML, JavaScript and CSV, login, configuration loading
and deployment scripts, `submit_attendance` and the registration of devices of the legacy flow (no route reaches
them), `last_heartbeat` (nothing reads it; the comment at `core/views.py:763` that a session closes when heartbeats
stop has no code behind it).

Two professors without an agent may read the same unassigned agent, and the second binding takes it from the
first: `SessionService` has the steps, but no document says that an agent stays with its professor, and no
property does.

Operators whose comment begins with "Mutant:" are plausible bugs of the definition they precede. With
one of them in its place the property it is meant for fails in its run, so each property depends on
the code it speaks of.
