------------------------------ MODULE AttendanceAgent -----------------------------
(***************************************************************************)
(* The Attendance Agent on the professor's laptop: attendance_agent/       *)
(* agent.py, its HTTP routes in api.py and the thread of heartbeat.py,     *)
(* with the nonce store of ChallengeStore.                                 *)
(*                                                                         *)
(* The HTTP server gives every request a thread (threaded=True).  The      *)
(* agent's lock is a threading.Lock: not re-entrant.  A critical section   *)
(* that only reads or writes the dictionary is one action, enabled when    *)
(* the lock is free; the lock is held across actions only where            *)
(* get_active_session calls stop_session, which takes the lock again.      *)
(*                                                                         *)
(* Of the server the model keeps which sessions it has opened and not      *)
(* closed; it answers /agent/sync/ with those that are not over.           *)
(***************************************************************************)
EXTENDS Naturals

CONSTANTS
    Nonces,         \* bound on the challenges requested
    Sessions,       \* the sessions the server binds to this agent
    Workers,        \* threads that serve HTTP requests
    Beater,         \* the AgentHeartbeat thread
    Expiry,         \* expires_at of a session
    TTL,            \* challenge_ttl_seconds
    MaxTime,        \* bound on the clock, for model checking
    MaxRestarts,    \* bound on the restarts of the agent, for model checking
    NoSession, NoNonce, NoThread

ASSUME AgentAssumption ==
    /\ Expiry \in [Sessions -> Nat]
    /\ TTL \in Nat
    /\ MaxTime \in Nat
    /\ MaxRestarts \in Nat
    /\ Beater \notin Workers
    /\ NoSession \notin Sessions
    /\ NoNonce \notin Nonces
    /\ NoThread \notin Workers \union {Beater}

VARIABLES
    now,        \* the clock behind time.time(), the server's and the agent's
    opened,     \* sessions the server has created
    active,     \* those it still holds active
    running,    \* keys of _sessions: the sessions whose secret is in memory
    store,      \* the ChallengeStore
    issued,     \* history: the nonces drawn
    late,       \* history: those whose session was stopped after its lookup, before
                \* they were stored
    lock,       \* the thread that holds _lock across actions, or NoThread
    registered, \* HeartbeatSender._registered
    thread,     \* per thread: program point and locals
    restarts    \* history, for the bound

serverVars == <<opened, active>>
storeVars == <<store, issued, late>>
vars == <<now, opened, active, running, store, issued, late, lock, registered, thread,
          restarts>>

\* Nothing in the agent calls verify_and_consume, so no nonce is ever used.
Store == INSTANCE ChallengeStore WITH uses <- [n \in Nonces |-> 0]

Threads == Workers \union {Beater}

Point == {"idle", "get", "issue", "start", "stop", "revoke", "list",
          "sync_ask", "sync_get", "sync_start"}

\* todo, item: what is left of the server's answer, and the session looked at.
\* next: where the thread goes on after a synchronisation.
Thread == [pc : Point,
           session : Sessions \union {NoSession},
           nonce : Nonces \union {NoNonce},
           synced : BOOLEAN,
           todo : SUBSET Sessions,
           item : Sessions \union {NoSession},
           next : Point]

IdleThread == [pc |-> "idle", session |-> NoSession, nonce |-> NoNonce, synced |-> FALSE,
               todo |-> {}, item |-> NoSession, next |-> "idle"]

TypeOK ==
    /\ now \in Nat
    /\ active \subseteq opened /\ opened \subseteq Sessions
    /\ running \subseteq Sessions
    /\ store \in [Nonces -> Store!Entry \union {Store!Absent}]
    /\ issued \subseteq Nonces
    /\ late \subseteq Nonces
    /\ registered \in BOOLEAN
    /\ thread \in [Threads -> Thread]
    /\ restarts \in Nat
    /\ lock # NoThread => lock \in Threads /\ thread[lock].pc = "stop"

Init ==
    /\ now = 0
    /\ opened = {} /\ active = {}
    /\ running = {}
    /\ store = [n \in Nonces |-> Store!Absent]
    /\ issued = {}
    /\ late = {}
    /\ lock = NoThread
    /\ registered = FALSE
    /\ thread = [t \in Threads |-> IdleThread]
    /\ restarts = 0

-----------------------------------------------------------------------------------

At(t, p) == thread[t].pc = p

Goto(t, p) == thread' = [thread EXCEPT ![t].pc = p]

Return(t) == thread' = [thread EXCEPT ![t] = IdleThread]

LockFree == lock = NoThread

\* get_active_session finds the session too old.
Over(s) == now > Expiry[s]

\* ... and calls stop_session without giving up the lock.
StopHoldingLock(t) ==
    /\ lock' = t
    /\ Goto(t, "stop")

\* A call of sync_sessions_from_django that goes on at p.
Sync(t, p) == thread' = [thread EXCEPT ![t].pc = "sync_ask", ![t].next = p]

\* What follows a synchronisation; the one of a registration is followed by the
\* one of the heartbeat.
AfterSync(t) ==
    LET p == thread[t].next IN
    thread' = [thread EXCEPT ![t].pc = p,
                             ![t].todo = {},
                             ![t].next = IF p = "sync_ask" THEN "list" ELSE "idle"]

-----------------------------------------------------------------------------------
(* GET /challenge *)

\* A student asks for a challenge; the nonce the thread may draw is new.
Challenge(t, s, n) ==
    /\ At(t, "idle")
    /\ n \notin issued
    /\ \A u \in Threads : thread[u].nonce # n
    /\ thread' = [thread EXCEPT ![t] = [IdleThread EXCEPT !.pc = "get", !.session = s,
                                                          !.nonce = n]]
    /\ UNCHANGED <<now, serverVars, running, storeVars, lock, registered, restarts>>

\* get_active_session; without a session the route synchronises once and tries again.
GetSession(t) ==
    LET s == thread[t].session IN
    /\ At(t, "get")
    /\ LockFree
    /\ \/ /\ s \in running /\ ~Over(s)
          /\ Goto(t, "issue")
          /\ UNCHANGED lock
       \/ /\ s \in running /\ Over(s)
          /\ StopHoldingLock(t)
       \/ /\ s \notin running /\ ~thread[t].synced
          /\ thread' = [thread EXCEPT ![t].pc = "sync_ask", ![t].next = "get",
                                      ![t].synced = TRUE]
          /\ UNCHANGED lock
       \/ /\ s \notin running /\ thread[t].synced
          /\ Return(t)
          /\ UNCHANGED lock
    /\ UNCHANGED <<now, serverVars, running, storeVars, registered, restarts>>

\* The rest of generate_challenge, from the state it looked up.
IssueChallenge(t) ==
    /\ At(t, "issue")
    /\ Store!Issue(thread[t].nonce, thread[t].session, now)
    /\ Return(t)
    /\ UNCHANGED <<serverVars, running, late, lock, registered, restarts>>

-----------------------------------------------------------------------------------
(* sync_sessions_from_django, and the first half of _sync_and_heartbeat. *)

\* The server answers with the sessions it holds active at that moment.
SyncAnswer(t) ==
    /\ At(t, "sync_ask")
    /\ thread' = [thread EXCEPT ![t].pc = "sync_get",
                                ![t].todo = {s \in active : now < Expiry[s]}]
    /\ UNCHANGED <<now, serverVars, running, storeVars, lock, registered, restarts>>

\* The server is out of reach, or answers with an error.
SyncFails(t) ==
    /\ At(t, "sync_ask")
    /\ AfterSync(t)
    /\ UNCHANGED <<now, serverVars, running, storeVars, lock, registered, restarts>>

\* Mutant: the lock is kept from the lookup to the start of a session.
SyncGetAndHold(t) ==
    /\ At(t, "sync_get")
    /\ LockFree
    /\ \E s \in thread[t].todo :
          \/ /\ s \notin running
             /\ lock' = t
             /\ thread' = [thread EXCEPT ![t].pc = "sync_start", ![t].todo = @ \ {s},
                                         ![t].item = s]
          \/ /\ s \in running
             /\ thread' = [thread EXCEPT ![t].todo = @ \ {s}]
             /\ UNCHANGED lock
    /\ UNCHANGED <<now, serverVars, running, storeVars, registered, restarts>>

\* One session of the answer: is it in memory?
SyncGet(t) ==
    /\ At(t, "sync_get")
    /\ LockFree
    /\ \E s \in thread[t].todo :
          \/ /\ s \notin running
             /\ thread' = [thread EXCEPT ![t].pc = "sync_start", ![t].todo = @ \ {s},
                                         ![t].item = s]
             /\ UNCHANGED lock
          \/ /\ s \in running /\ ~Over(s)
             /\ thread' = [thread EXCEPT ![t].todo = @ \ {s}]
             /\ UNCHANGED lock
          \/ /\ s \in running /\ Over(s)
             /\ StopHoldingLock(t)
    /\ UNCHANGED <<now, serverVars, running, storeVars, registered, restarts>>

\* It was not: start_session, whatever happened since.
SyncStart(t) ==
    /\ At(t, "sync_start")
    /\ LockFree
    /\ running' = running \union {thread[t].item}
    /\ thread' = [thread EXCEPT ![t].pc = "sync_get", ![t].item = NoSession]
    /\ UNCHANGED <<now, serverVars, storeVars, lock, registered, restarts>>

SyncEnd(t) ==
    /\ At(t, "sync_get")
    /\ thread[t].todo = {}
    /\ AfterSync(t)
    /\ UNCHANGED <<now, serverVars, running, storeVars, lock, registered, restarts>>

-----------------------------------------------------------------------------------
(* GET /status, POST /stop-session and the heartbeat thread. *)

Status(t) ==
    /\ At(t, "idle")
    /\ Sync(t, "list")
    /\ UNCHANGED <<now, serverVars, running, storeVars, lock, registered, restarts>>

\* list_active_sessions, the last call of /status; the heartbeats that follow it
\* in the thread change nothing here.
List(t) ==
    /\ At(t, "list")
    /\ LockFree
    /\ Return(t)
    /\ UNCHANGED <<now, serverVars, running, storeVars, lock, registered, restarts>>

StopRequest(t, s) ==
    /\ At(t, "idle")
    /\ thread' = [thread EXCEPT ![t].pc = "stop", ![t].session = s]
    /\ UNCHANGED <<now, serverVars, running, storeVars, lock, registered, restarts>>

\* The threads that have looked the session up and go on to issue a challenge.
LookedUp(s) == {t \in Threads : At(t, "issue") /\ thread[t].session = s}

Overtake(s) == late' = late \union {thread[t].nonce : t \in LookedUp(s)}

\* Mutant: the session leaves the dictionary, its challenges stay.
StopOnly(t) ==
    /\ At(t, "stop")
    /\ LockFree
    /\ running' = running \ {thread[t].session}
    /\ Overtake(thread[t].session)
    /\ Return(t)
    /\ UNCHANGED <<now, serverVars, store, issued, lock, registered, restarts>>

\* stop_session up to the end of its critical section.  A thread that holds the
\* lock already waits for itself.
Stop(t) ==
    /\ At(t, "stop")
    /\ LockFree
    /\ running' = running \ {thread[t].session}
    /\ Overtake(thread[t].session)
    /\ Goto(t, "revoke")
    /\ UNCHANGED <<now, serverVars, store, issued, lock, registered, restarts>>

Revoke(t) ==
    /\ At(t, "revoke")
    /\ Store!RevokeSession(thread[t].session)
    /\ Return(t)
    /\ UNCHANGED <<serverVars, running, late, lock, registered, restarts>>

\* Mutant: a round whose registration failed does not synchronise.
BeatIfRegistered ==
    /\ At(Beater, "idle")
    /\ \/ Sync(Beater, "list") /\ registered' = TRUE
       \/ ~registered /\ Goto(Beater, "list") /\ UNCHANGED registered
    /\ UNCHANGED <<now, serverVars, running, storeVars, lock, restarts>>

\* The thread wakes: it registers if it has not yet, which synchronises when it
\* succeeds, and synchronises.
Beat ==
    /\ At(Beater, "idle")
    /\ \/ /\ ~registered
          /\ registered' = TRUE
          /\ Sync(Beater, "sync_ask")
       \/ /\ UNCHANGED registered
          /\ Sync(Beater, "list")
    /\ UNCHANGED <<now, serverVars, running, storeVars, lock, restarts>>

-----------------------------------------------------------------------------------
(* The server, and the laptop. *)

\* create_attendance_session, with the push of the secret to /start-session if it
\* gets through: a thread of the agent then has it to store.
OpenSession(s) ==
    /\ s \notin opened
    /\ now < Expiry[s]
    /\ opened' = opened \union {s}
    /\ active' = active \union {s}
    /\ \/ \E t \in Workers :
             /\ At(t, "idle")
             /\ thread' = [thread EXCEPT ![t].pc = "start", ![t].session = s]
       \/ UNCHANGED thread
    /\ UNCHANGED <<now, running, storeVars, lock, registered, restarts>>

\* start_session of the pushed secret.
Start(t) ==
    /\ At(t, "start")
    /\ LockFree
    /\ running' = running \union {thread[t].session}
    /\ Return(t)
    /\ UNCHANGED <<now, serverVars, storeVars, lock, registered, restarts>>

\* The server closes the session, and does not tell the agent.
CloseSession(s) ==
    /\ s \in active
    /\ active' = active \ {s}
    /\ UNCHANGED <<now, opened, running, storeVars, lock, registered, thread, restarts>>

\* Everything but the identity is in memory only.
AgentRestart ==
    /\ restarts < MaxRestarts
    /\ restarts' = restarts + 1
    /\ running' = {}
    /\ store' = [n \in Nonces |-> Store!Absent]
    /\ late' = {}
    /\ lock' = NoThread
    /\ registered' = FALSE
    /\ thread' = [t \in Threads |-> IdleThread]
    /\ UNCHANGED <<now, serverVars, issued>>

Tick ==
    /\ now < MaxTime
    /\ now' = now + 1
    /\ UNCHANGED <<serverVars, running, storeVars, lock, registered, thread, restarts>>

-----------------------------------------------------------------------------------

\* The steps of a request, or of a round of the heartbeat thread, under way in t.
Step(t) ==
    \/ GetSession(t) \/ IssueChallenge(t)
    \/ SyncAnswer(t) \/ SyncFails(t) \/ SyncGet(t) \/ SyncStart(t) \/ SyncEnd(t)
    \/ List(t)
    \/ Start(t) \/ Stop(t) \/ Revoke(t)

Request(t) ==
    \/ Status(t)
    \/ \E s \in Sessions : StopRequest(t, s) \/ \E n \in Nonces : Challenge(t, s, n)

Next ==
    \/ \E t \in Threads : Step(t)
    \/ \E t \in Workers : Request(t)
    \/ Beat
    \/ \E s \in Sessions : OpenSession(s) \/ CloseSession(s)
    \/ AgentRestart
    \/ Tick

Spec == Init /\ [][Next]_vars

\* Threads are scheduled and the heartbeat thread wakes every interval.  A server
\* asked again and again answers some time.
FairSpec ==
    /\ Spec
    /\ \A t \in Threads : WF_vars(Step(t))
    /\ WF_vars(Beat)
    /\ SF_vars(SyncAnswer(Beater))

-----------------------------------------------------------------------------------

\* The challenge belongs to a session in memory, or to one whose revocation is under
\* way.
Owned(n) ==
    \/ store[n].session \in running
    \/ \E t \in Threads : At(t, "revoke") /\ thread[t].session = store[n].session

\* stop_session: "Revoke all outstanding challenges for the session."  No stored nonce
\* outlives the stop of its session.
NoOrphanNonce == \A n \in Nonces : Store!Stored(n) => Owned(n)

\* A stored nonce outlives the stop of its session only if the stop came between the
\* lookup of the session and the issue of the nonce: neither a stop under way in another
\* thread, nor a synchronisation that starts the session again, nor a restart leaves
\* one behind.  About stop_session, whose pop and revocation are apart, and
\* generate_challenge, which issues from the state it looked up.
OnlyOvertakenOrphans == \A n \in Nonces \ late : Store!Stored(n) => Owned(n)

\* Every call returns: a student gets a challenge or the answer that there is no
\* session, whatever other threads do with the lock.
CallsReturn == \A t \in Threads : ~At(t, "idle") ~> At(t, "idle")

\* A session the server opens reaches the agent, although the push may be lost and
\* the agent restarted, unless it is closed or over before.
SessionReachesAgent ==
    \A s \in Sessions : s \in active ~> (s \in running \/ s \notin active \/ Over(s))

===================================================================================
