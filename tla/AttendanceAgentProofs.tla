--------------------------- MODULE AttendanceAgentProofs ---------------------------
(***************************************************************************)
(* Proofs about AttendanceAgent, for every number of sessions and nonces.  *)
(***************************************************************************)
EXTENDS AttendanceAgent, TLAPS

Syncing == {"sync_ask", "sync_get", "sync_start"}

\* The thread serves GET /challenge and has yet to issue the challenge.
Asks(t) == thread[t].pc \in {"get", "issue"} \/ (thread[t].pc \in Syncing /\ thread[t].next = "get")

\* What a thread knows where it stands.
LocalsOK(t) ==
    /\ Asks(t) => t \in Workers /\ thread[t].session \in Sessions /\ thread[t].nonce \in Nonces
    /\ thread[t].pc \in Syncing => thread[t].next \in {"get", "list", "sync_ask"}
    /\ thread[t].pc = "sync_start" => thread[t].item \in Sessions
    /\ thread[t].pc = "start" => thread[t].session \in Sessions

AgentInv == TypeOK /\ \A t \in Threads : LocalsOK(t)

\* The session for which a challenge is about to be issued is in memory, or was stopped
\* since the lookup.
IssueRunning ==
    \A t \in Threads :
        At(t, "issue") => thread[t].session \in running \/ thread[t].nonce \in late

OrphanInv == AgentInv /\ IssueRunning /\ OnlyOvertakenOrphans

------------------------------------------------------------------------------------

LEMMA IdleIsThread == IdleThread \in Thread
  BY DEF IdleThread, Thread, Point

LEMMA InitAgentInv == Init => AgentInv
<1> SUFFICES ASSUME Init
             PROVE  AgentInv
  OBVIOUS
<1>1. TypeOK
  BY IdleIsThread, AgentAssumption DEF Init, TypeOK
<1>2. \A t \in Threads : LocalsOK(t)
  BY DEF Init, LocalsOK, Asks, Syncing, IdleThread
<1> QED
  BY <1>1, <1>2 DEF AgentInv

\* A thread moves: the others stay where they are, and nobody takes the lock from
\* the thread that holds it.
Moves(t) ==
    /\ thread' \in [Threads -> Thread]
    /\ \A u \in Threads : u # t => thread'[u] = thread[u]
    /\ lock' = lock \/ (lock' = t /\ thread'[t].pc = "stop")
    /\ thread[t].pc # "stop" \/ LockFree

\* A thread that goes on keeps its type, whatever it changes on the way.
LEMMA PcMoves ==
    ASSUME NEW th \in Thread, NEW p \in Point
    PROVE  [th EXCEPT !.pc = p] \in Thread
  BY DEF Thread

LEMMA TodoMoves ==
    ASSUME NEW th \in Thread, NEW p \in Point, NEW S \in SUBSET Sessions
    PROVE  [th EXCEPT !.pc = p, !.todo = S] \in Thread
  BY DEF Thread

LEMMA ItemMoves ==
    ASSUME NEW th \in Thread, NEW p \in Point
    PROVE  [th EXCEPT !.pc = p, !.item = NoSession] \in Thread
  BY DEF Thread

LEMMA SessionMoves ==
    ASSUME NEW th \in Thread, NEW p \in Point, NEW s \in Sessions
    PROVE  /\ [th EXCEPT !.pc = p, !.session = s] \in Thread
           /\ [th EXCEPT !.pc = p, !.session = s].pc = p
  BY DEF Thread

LEMMA StopMoves ==
    ASSUME NEW th \in Thread, NEW s \in Sessions
    PROVE  /\ [th EXCEPT !.pc = "stop", !.session = s] \in Thread
           /\ [th EXCEPT !.pc = "stop", !.session = s].pc = "stop"
<1>1. "stop" \in Point
  BY DEF Point
<1> QED
  BY <1>1, SessionMoves

\* What a step of one thread leaves of the others.
LEMMA ThreadMoves ==
    ASSUME thread \in [Threads -> Thread], NEW t \in Threads, NEW th \in Thread,
           thread' = [thread EXCEPT ![t] = th]
    PROVE  /\ thread' \in [Threads -> Thread]
           /\ thread'[t] = th
           /\ \A u \in Threads : u # t => thread'[u] = thread[u]
  OBVIOUS

\* A step of one thread that ends where its locals are right keeps the invariant.
LEMMA MoveKeepsInv ==
    ASSUME AgentInv, NEW t \in Threads, Moves(t), LocalsOK(t)',
           UNCHANGED <<now, serverVars, restarts>>,
           running' \subseteq Sessions, registered' \in BOOLEAN, issued' \subseteq Nonces,
           late' \subseteq Nonces,
           store' \in [Nonces -> Store!Entry \union {Store!Absent}]
    PROVE  AgentInv'
<1>1. TypeOK'
  <2>1. lock' # NoThread => lock' \in Threads /\ thread'[lock'].pc = "stop"
    BY DEF AgentInv, TypeOK, Moves, LockFree
  <2> QED
    BY <2>1 DEF AgentInv, TypeOK, Moves, serverVars
<1>2. \A u \in Threads : u # t => LocalsOK(u)'
  BY DEF AgentInv, Moves, LocalsOK, Asks
<1> QED
  BY <1>1, <1>2 DEF AgentInv

LEMMA NextAgentInv == AgentInv /\ [Next]_vars => AgentInv'
<1> SUFFICES ASSUME AgentInv, [Next]_vars
             PROVE  AgentInv'
  OBVIOUS
<1> USE AgentAssumption DEF Point, Syncing
<1>0. TypeOK /\ \A t \in Threads : LocalsOK(t)
  BY DEF AgentInv
<1>s. /\ now \in Nat /\ running \subseteq Sessions /\ registered \in BOOLEAN
      /\ issued \subseteq Nonces /\ late \subseteq Nonces
      /\ store \in [Nonces -> Store!Entry \union {Store!Absent}]
      /\ thread \in [Threads -> Thread]
  BY <1>0 DEF TypeOK
<1>t. thread \in [Threads -> Thread]
  BY <1>s
<1>p. /\ \A t \in Threads : thread[t] \in Thread
      /\ {"sync_get", "revoke", "start", "stop"} \subseteq Point
  BY <1>s
<1>i. IdleThread \in Thread
  BY IdleIsThread
<1>1. ASSUME NEW t \in Threads, GetSession(t)
      PROVE  AgentInv'
  <2>1. Moves(t)
    BY <1>t, <1>i, <1>1 DEF GetSession, StopHoldingLock, Goto, Return, At, LockFree, Moves, Thread
  <2>2. LocalsOK(t)'
    BY <1>0, <1>s, <1>1
       DEF GetSession, StopHoldingLock, Goto, Return, At, LocalsOK, Asks, IdleThread, Thread
  <2> QED
    BY <1>s, <1>1, <2>1, <2>2, MoveKeepsInv DEF GetSession, storeVars
<1>2. ASSUME NEW t \in Threads, IssueChallenge(t)
      PROVE  AgentInv'
  <2>1. Moves(t)
    BY <1>s, <1>i, <1>2 DEF IssueChallenge, Return, At, Moves
  <2>2. LocalsOK(t)'
    BY <1>s, <1>2 DEF IssueChallenge, Return, LocalsOK, Asks, IdleThread
  <2>3. thread[t].session \in Sessions /\ thread[t].nonce \in Nonces
    BY <1>0, <1>2 DEF IssueChallenge, At, LocalsOK, Asks
  <2>4. [session |-> thread[t].session, expires |-> now + TTL, used |-> FALSE] \in Store!Entry
    BY <1>s, <2>3 DEF Store!Entry
  <2>5. store' \in [Nonces -> Store!Entry \union {Store!Absent}] /\ issued' \subseteq Nonces
    BY <1>s, <1>2, <2>3, <2>4 DEF IssueChallenge, Store!Issue
  <2>6. now' = now /\ late' = late
    BY <1>2 DEF IssueChallenge, Store!Issue
  <2> QED
    BY <1>s, <1>2, <2>1, <2>2, <2>5, <2>6, MoveKeepsInv DEF IssueChallenge, serverVars
<1>3. ASSUME NEW t \in Threads, SyncAnswer(t)
      PROVE  AgentInv'
  <2>1. Moves(t)
    <3>1. {s \in active : now < Expiry[s]} \in SUBSET Sessions
      BY <1>0 DEF TypeOK
    <3> DEFINE th == [thread[t] EXCEPT !.pc = "sync_get",
                                       !.todo = {s \in active : now < Expiry[s]}]
    <3>2. th \in Thread
      BY <1>p, <3>1, TodoMoves
    <3>3. thread' = [thread EXCEPT ![t] = th]
      BY <1>3 DEF SyncAnswer
    <3> HIDE DEF th
    <3> QED
      BY <1>s, <1>3, <3>2, <3>3, ThreadMoves DEF SyncAnswer, At, Moves
  <2>2. LocalsOK(t)'
    BY <1>0, <1>s, <1>3 DEF SyncAnswer, At, LocalsOK, Asks, Thread
  <2> QED
    BY <1>s, <1>3, <2>1, <2>2, MoveKeepsInv DEF SyncAnswer, storeVars
<1>4. ASSUME NEW t \in Threads, SyncFails(t) \/ SyncEnd(t)
      PROVE  AgentInv'
  <2>1. Moves(t)
    <3>1. thread' \in [Threads -> Thread] /\ \A u \in Threads : u # t => thread'[u] = thread[u]
      BY <1>t, <1>4 DEF SyncFails, SyncEnd, AfterSync, Thread
    <3> QED
      BY <1>4, <3>1 DEF SyncFails, SyncEnd, At, Moves
  <2>2. LocalsOK(t)'
    BY <1>0, <1>s, <1>4 DEF SyncFails, SyncEnd, AfterSync, At, LocalsOK, Asks, Thread
  <2> QED
    BY <1>s, <1>4, <2>1, <2>2, MoveKeepsInv DEF SyncFails, SyncEnd, storeVars
<1>5. ASSUME NEW t \in Threads, SyncGet(t)
      PROVE  AgentInv'
  <2>1. thread[t].todo \subseteq Sessions
    BY <1>s DEF Thread
  <2>2. Moves(t)
    <3>1. /\ thread[t].pc # "stop"
          /\ \A u \in Threads : u # t => thread'[u] = thread[u]
          /\ lock' = lock \/ (lock' = t /\ thread'[t].pc = "stop")
      BY <1>t, <1>5 DEF SyncGet, StopHoldingLock, Goto, At, Thread
    <3>2. thread' \in [Threads -> Thread]
      BY <1>t, <1>5, <2>1 DEF SyncGet, StopHoldingLock, Goto, Thread
    <3> QED
      BY <3>1, <3>2 DEF Moves
  <2>3. LocalsOK(t)'
    BY <1>0, <1>s, <1>5, <2>1 DEF SyncGet, StopHoldingLock, Goto, At, LocalsOK, Asks, Thread
  <2> QED
    BY <1>s, <1>5, <2>2, <2>3, MoveKeepsInv DEF SyncGet, storeVars
<1>6. ASSUME NEW t \in Threads, SyncStart(t)
      PROVE  AgentInv'
  <2>1. Moves(t)
    <3> DEFINE th == [thread[t] EXCEPT !.pc = "sync_get", !.item = NoSession]
    <3>1. th \in Thread
      BY <1>p, ItemMoves
    <3>2. thread' = [thread EXCEPT ![t] = th]
      BY <1>6 DEF SyncStart
    <3> HIDE DEF th
    <3> QED
      BY <1>s, <1>6, <3>1, <3>2, ThreadMoves DEF SyncStart, At, Moves
  <2>2. LocalsOK(t)'
    BY <1>0, <1>s, <1>6 DEF SyncStart, At, LocalsOK, Asks, Thread
  <2>3. running' \subseteq Sessions
    BY <1>0, <1>s, <1>6 DEF SyncStart, At, LocalsOK
  <2> QED
    BY <1>s, <1>6, <2>1, <2>2, <2>3, MoveKeepsInv DEF SyncStart, storeVars
<1>7. ASSUME NEW t \in Threads, List(t)
      PROVE  AgentInv'
  <2>1. Moves(t)
    BY <1>s, <1>i, <1>7 DEF List, Return, At, Moves
  <2>2. LocalsOK(t)'
    BY <1>s, <1>7 DEF List, Return, LocalsOK, Asks, IdleThread
  <2> QED
    BY <1>s, <1>7, <2>1, <2>2, MoveKeepsInv DEF List, storeVars
<1>8. ASSUME NEW t \in Threads, Start(t)
      PROVE  AgentInv'
  <2>1. Moves(t)
    BY <1>s, <1>i, <1>8 DEF Start, Return, At, Moves
  <2>2. LocalsOK(t)'
    BY <1>s, <1>8 DEF Start, Return, LocalsOK, Asks, IdleThread
  <2>3. running' \subseteq Sessions
    BY <1>0, <1>s, <1>8 DEF Start, At, LocalsOK
  <2> QED
    BY <1>s, <1>8, <2>1, <2>2, <2>3, MoveKeepsInv DEF Start, storeVars
<1>9. ASSUME NEW t \in Threads, Stop(t)
      PROVE  AgentInv'
  <2>1. Moves(t)
    <3> DEFINE th == [thread[t] EXCEPT !.pc = "revoke"]
    <3>1. th \in Thread
      BY <1>p, PcMoves
    <3>2. thread' = [thread EXCEPT ![t] = th]
      BY <1>9 DEF Stop, Goto
    <3> HIDE DEF th
    <3> QED
      BY <1>s, <1>9, <3>1, <3>2, ThreadMoves DEF Stop, At, Moves
  <2>2. LocalsOK(t)'
    BY <1>s, <1>9 DEF Stop, Goto, LocalsOK, Asks, Thread
  <2>3. late' \subseteq Nonces
    <3>1. \A u \in Threads : At(u, "issue") => thread[u].nonce \in Nonces
      BY <1>0 DEF LocalsOK, Asks, At
    <3> QED
      BY <1>s, <1>9, <3>1 DEF Stop, Overtake, LookedUp
  <2> QED
    BY <1>s, <1>9, <2>1, <2>2, <2>3, MoveKeepsInv DEF Stop
<1>10. ASSUME NEW t \in Threads, Revoke(t)
       PROVE  AgentInv'
  <2>1. Moves(t)
    BY <1>s, <1>i, <1>10 DEF Revoke, Return, At, Moves
  <2>2. LocalsOK(t)'
    BY <1>s, <1>10 DEF Revoke, Return, LocalsOK, Asks, IdleThread
  <2>3. /\ store' \in [Nonces -> Store!Entry \union {Store!Absent}]
        /\ issued' = issued /\ now' = now /\ late' = late
    BY <1>s, <1>10 DEF Revoke, Store!RevokeSession, Store!Without
  <2> QED
    BY <1>s, <1>10, <2>1, <2>2, <2>3, MoveKeepsInv DEF Revoke, serverVars
<1>11. ASSUME NEW t \in Workers, Request(t)
       PROVE  AgentInv'
  <2>1. t \in Threads
    BY DEF Threads
  <2>a. ASSUME NEW th \in Thread, thread' = [thread EXCEPT ![t] = th],
               \/ th.pc = "sync_ask" /\ th.next = "list"
               \/ th.pc = "stop"
               \/ th.pc = "get" /\ th.session \in Sessions /\ th.nonce \in Nonces
        PROVE  Moves(t) /\ LocalsOK(t)'
    <3>1. /\ thread' \in [Threads -> Thread]
          /\ thread'[t] = th
          /\ \A u \in Threads : u # t => thread'[u] = thread[u]
      BY <1>s, <2>1, <2>a, ThreadMoves
    <3>2. At(t, "idle") /\ lock' = lock
      BY <1>11 DEF Request, Status, StopRequest, Challenge
    <3> QED
      BY <2>a, <3>1, <3>2 DEF At, Moves, LocalsOK, Asks
  <2>b. ASSUME Status(t)
        PROVE  Moves(t) /\ LocalsOK(t)'
    <3> DEFINE th == [thread[t] EXCEPT !.pc = "sync_ask", !.next = "list"]
    <3>1. th \in Thread /\ th.pc = "sync_ask" /\ th.next = "list"
      BY <1>s, <2>1 DEF Thread
    <3>2. thread' = [thread EXCEPT ![t] = th]
      BY <2>b DEF Status, Sync
    <3> HIDE DEF th
    <3> QED
      BY <2>a, <3>1, <3>2
  <2>c. ASSUME NEW s \in Sessions, StopRequest(t, s)
        PROVE  Moves(t) /\ LocalsOK(t)'
    <3> DEFINE th == [thread[t] EXCEPT !.pc = "stop", !.session = s]
    <3>a. thread[t] \in Thread
      BY <1>p, <2>1
    <3>1. th \in Thread /\ th.pc = "stop"
      BY <3>a, StopMoves
    <3>2. thread' = [thread EXCEPT ![t] = th]
      BY <2>c DEF StopRequest
    <3> HIDE DEF th
    <3> QED
      BY <2>a, <3>1, <3>2
  <2>d. ASSUME NEW s \in Sessions, NEW n \in Nonces, Challenge(t, s, n)
        PROVE  Moves(t) /\ LocalsOK(t)'
    <3> DEFINE th == [IdleThread EXCEPT !.pc = "get", !.session = s, !.nonce = n]
    <3>1. th \in Thread /\ th.pc = "get" /\ th.session \in Sessions /\ th.nonce \in Nonces
      BY <1>i DEF Thread
    <3>2. thread' = [thread EXCEPT ![t] = th]
      BY <2>d DEF Challenge
    <3> HIDE DEF th
    <3> QED
      BY <2>a, <3>1, <3>2
  <2>2. Moves(t) /\ LocalsOK(t)'
    BY <1>11, <2>b, <2>c, <2>d DEF Request
  <2> QED
    BY <1>s, <1>11, <2>1, <2>2, MoveKeepsInv
       DEF Request, Status, StopRequest, Challenge, storeVars
<1>12. CASE Beat
  <2>1. Beater \in Threads
    BY DEF Threads
  <2>2. Moves(Beater)
    BY <1>s, <1>12, <2>1 DEF Beat, Sync, At, Moves, Thread
  <2>3. LocalsOK(Beater)'
    BY <1>s, <1>12, <2>1 DEF Beat, Sync, LocalsOK, Asks, Thread
  <2> QED
    BY <1>s, <1>12, <2>1, <2>2, <2>3, MoveKeepsInv DEF Beat, storeVars
<1>13. ASSUME NEW s \in Sessions, OpenSession(s)
       PROVE  AgentInv'
  <2>1. CASE UNCHANGED thread
    BY <1>0, <1>13, <2>1
       DEF OpenSession, storeVars, AgentInv, TypeOK, LocalsOK, Asks
  <2>2. ASSUME NEW t \in Workers, At(t, "idle"),
               thread' = [thread EXCEPT ![t].pc = "start", ![t].session = s]
        PROVE  AgentInv'
    <3>1. t \in Threads
      BY DEF Threads
    <3>2. thread' \in [Threads -> Thread] /\ \A u \in Threads : u # t => thread'[u] = thread[u]
      <4> DEFINE th == [thread[t] EXCEPT !.pc = "start", !.session = s]
      <4>1. th \in Thread
        BY <1>p, <3>1, SessionMoves
      <4>2. thread' = [thread EXCEPT ![t] = th]
        BY <2>2
      <4> HIDE DEF th
      <4> QED
        BY <1>s, <3>1, <4>1, <4>2, ThreadMoves
    <3>3. lock' # NoThread => lock' \in Threads /\ thread'[lock'].pc = "stop"
      BY <1>0, <1>13, <2>2, <3>2 DEF OpenSession, TypeOK, At
    <3>4. TypeOK'
      BY <1>0, <1>13, <3>2, <3>3 DEF OpenSession, storeVars, TypeOK
    <3>5. LocalsOK(t)'
      BY <1>s, <2>2, <3>1 DEF LocalsOK, Asks, Thread
    <3>6. \A u \in Threads : u # t => LocalsOK(u)'
      BY <1>0, <3>2 DEF LocalsOK, Asks
    <3> QED
      BY <3>4, <3>5, <3>6 DEF AgentInv
  <2> QED
    BY <1>13, <2>1, <2>2 DEF OpenSession
<1>14. ASSUME NEW s \in Sessions, CloseSession(s)
       PROVE  AgentInv'
  BY <1>0, <1>14 DEF CloseSession, storeVars, AgentInv, TypeOK, LocalsOK, Asks
<1>15. CASE AgentRestart
  <2>1. TypeOK'
    <3>1. /\ thread' \in [Threads -> Thread]
          /\ store' \in [Nonces -> Store!Entry \union {Store!Absent}]
      BY <1>i, <1>15 DEF AgentRestart
    <3>2. /\ now' = now /\ active' = active /\ opened' = opened /\ issued' = issued
          /\ running' = {} /\ registered' = FALSE /\ restarts' = restarts + 1
          /\ lock' = NoThread /\ late' = {}
      BY <1>15 DEF AgentRestart, serverVars
    <3>3. /\ now \in Nat /\ restarts + 1 \in Nat
          /\ active \subseteq opened /\ opened \subseteq Sessions /\ issued \subseteq Nonces
      BY <1>0 DEF TypeOK
    <3>4. /\ now' \in Nat /\ restarts' \in Nat /\ registered' \in BOOLEAN
          /\ active' \subseteq opened' /\ opened' \subseteq Sessions
          /\ running' \subseteq Sessions /\ issued' \subseteq Nonces /\ late' \subseteq Nonces
      BY <3>2, <3>3
    <3> QED
      BY <3>1, <3>2, <3>4 DEF TypeOK
  <2>2. \A t \in Threads : LocalsOK(t)'
    BY <1>15 DEF AgentRestart, LocalsOK, Asks, IdleThread
  <2> QED
    BY <2>1, <2>2 DEF AgentInv
<1>16. CASE Tick
  BY <1>0, <1>16 DEF Tick, serverVars, storeVars, AgentInv, TypeOK, LocalsOK, Asks
<1>17. CASE UNCHANGED vars
  BY <1>0, <1>17 DEF vars, AgentInv, TypeOK, LocalsOK, Asks
<1> QED
  BY <1>1, <1>2, <1>3, <1>4, <1>5, <1>6, <1>7, <1>8, <1>9, <1>10, <1>11, <1>12, <1>13, <1>14,
     <1>15, <1>16, <1>17
     DEF Next, Step

\* Every reachable state of the agent is well typed, for any number of workers.
THEOREM AgentTyped == Spec => []TypeOK
<1>1. AgentInv => TypeOK
  BY DEF AgentInv
<1> QED
  BY <1>1, InitAgentInv, NextAgentInv, PTL DEF Spec

------------------------------------------------------------------------------------

LEMMA InitOrphanInv == Init => OrphanInv
  BY InitAgentInv
     DEF Init, OrphanInv, IssueRunning, OnlyOvertakenOrphans, At, IdleThread, Store!Stored

\* The other threads stay where they are.
Alone(t) == \A u \in Threads : u # t => thread'[u] = thread[u]

\* A step of t that stores no nonce, stops no session and ends no revocation; a
\* challenge is issued next only for a session in memory.
Harmless(t) ==
    /\ Alone(t)
    /\ store' = store
    /\ late' = late
    /\ running \subseteq running'
    /\ ~At(t, "revoke")
    /\ thread'[t].pc = "issue" => thread'[t].session \in running'

\* A harmless step keeps the invariant.
LEMMA HarmlessKeeps ==
    ASSUME OrphanInv, AgentInv', NEW t \in Threads, Harmless(t)
    PROVE  OrphanInv'
<1>1. IssueRunning'
  BY DEF OrphanInv, IssueRunning, Harmless, Alone, At
<1>2. OnlyOvertakenOrphans'
  BY DEF OrphanInv, OnlyOvertakenOrphans, Owned, Store!Stored, Harmless, Alone, At
<1> QED
  BY <1>1, <1>2 DEF OrphanInv

\* A step of a thread changes no other thread.
LEMMA StepAlone ==
    ASSUME thread \in [Threads -> Thread], NEW t \in Threads, Step(t) \/ Request(t)
    PROVE  Alone(t)
<1>1. \E th : thread' = [thread EXCEPT ![t] = th]
  BY DEF Step, Request, GetSession, IssueChallenge, SyncAnswer, SyncFails, SyncGet, SyncStart,
         SyncEnd, List, Start, Stop, Revoke, Status, StopRequest, Challenge, StopHoldingLock,
         Goto, Return, Sync, AfterSync
<1> QED
  BY <1>1 DEF Alone

\* No step leaves a nonce behind that was looked up after the stop.
LEMMA NextOrphanInv == OrphanInv /\ [Next]_vars => OrphanInv'
<1> SUFFICES ASSUME OrphanInv, [Next]_vars
             PROVE  OrphanInv'
  OBVIOUS
<1>0. /\ AgentInv /\ AgentInv' /\ IssueRunning /\ OnlyOvertakenOrphans
      /\ thread \in [Threads -> Thread] /\ \A t \in Threads : LocalsOK(t)
  BY NextAgentInv DEF OrphanInv, AgentInv, TypeOK
<1>1. ASSUME NEW t \in Threads, GetSession(t)
      PROVE  Harmless(t)
  <2>1. Alone(t)
    BY <1>0, <1>1, StepAlone DEF Step
  <2>2. thread'[t].pc = "issue" => thread'[t].session \in running
    BY <1>0, <1>1 DEF GetSession, StopHoldingLock, Goto, Return, IdleThread, Thread
  <2> QED
    BY <1>1, <2>1, <2>2 DEF GetSession, At, storeVars, Harmless
<1>2. ASSUME NEW t \in Threads,
             \/ SyncAnswer(t) \/ SyncFails(t) \/ SyncEnd(t) \/ SyncStart(t)
             \/ List(t) \/ Start(t)
      PROVE  Harmless(t)
  <2>1. Alone(t)
    BY <1>0, <1>2, StepAlone DEF Step
  <2>2. thread'[t].pc # "issue"
    BY <1>0, <1>2
       DEF SyncAnswer, SyncFails, SyncEnd, SyncStart, List, Start, AfterSync, Return, At,
           IdleThread, Thread, LocalsOK, Syncing
  <2> QED
    BY <1>2, <2>1, <2>2
       DEF SyncAnswer, SyncFails, SyncEnd, SyncStart, List, Start, At, storeVars, Harmless
<1>3. ASSUME NEW t \in Threads, SyncGet(t)
      PROVE  Harmless(t)
  <2>1. Alone(t)
    BY <1>0, <1>3, StepAlone DEF Step
  <2>2. thread'[t].pc # "issue"
    BY <1>0, <1>3 DEF SyncGet, StopHoldingLock, Goto, At, Thread
  <2> QED
    BY <1>3, <2>1, <2>2 DEF SyncGet, At, storeVars, Harmless
<1>4. ASSUME NEW t \in Workers, Request(t)
      PROVE  Harmless(t)
  <2>1. t \in Threads /\ Alone(t)
    BY <1>0, <1>4, StepAlone DEF Threads
  <2>2. thread'[t].pc # "issue"
    <3>1. CASE Status(t)
      BY <1>0, <2>1, <3>1 DEF Status, Sync, Thread
    <3>2. ASSUME NEW s \in Sessions, StopRequest(t, s)
          PROVE  thread'[t].pc # "issue"
      BY <1>0, <2>1, <3>2 DEF StopRequest, Thread
    <3>3. ASSUME NEW s \in Sessions, NEW n \in Nonces, Challenge(t, s, n)
          PROVE  thread'[t].pc # "issue"
      BY <1>0, <2>1, <3>3 DEF Challenge, IdleThread
    <3> QED
      BY <1>4, <3>1, <3>2, <3>3 DEF Request
  <2> QED
    BY <1>4, <2>1, <2>2
       DEF Request, Status, StopRequest, Challenge, At, storeVars, Harmless
<1>5. CASE Beat
  <2>1. Beater \in Threads
    BY DEF Threads
  <2>2. Alone(Beater) /\ thread'[Beater].pc = "sync_ask"
    BY <1>0, <1>5, <2>1 DEF Beat, Sync, Alone, Thread
  <2>3. Harmless(Beater)
    BY <1>5, <2>2 DEF Beat, At, storeVars, Harmless
  <2> QED
    BY <1>0, <2>1, <2>3, HarmlessKeeps
<1>6. ASSUME NEW t \in Threads, IssueChallenge(t)
      PROVE  OrphanInv'
  <2>1. Alone(t) /\ thread'[t] = IdleThread
    BY <1>0, <1>6, StepAlone DEF Step, IssueChallenge, Return
  <2>2. /\ running' = running /\ late' = late /\ At(t, "issue")
        /\ thread[t].session \in running \/ thread[t].nonce \in late
    BY <1>0, <1>6 DEF IssueChallenge, IssueRunning
  <2>3. IssueRunning'
    BY <1>0, <2>1, <2>2 DEF IssueRunning, Alone, At, IdleThread
  <2>4. \A n \in Nonces : \/ store'[n] = store[n]
                          \/ n = thread[t].nonce /\ store'[n].session = thread[t].session
    BY <1>0, <1>6 DEF IssueChallenge, Store!Issue, AgentInv, TypeOK
  <2>5. \A u \in Threads : At(u, "revoke") => At(u, "revoke")' /\ thread'[u] = thread[u]
    BY <2>1, <2>2 DEF Alone, At
  <2>6. OnlyOvertakenOrphans'
    BY <1>0, <2>2, <2>4, <2>5 DEF OnlyOvertakenOrphans, Owned, Store!Stored
  <2> QED
    BY <1>0, <2>3, <2>6 DEF OrphanInv
<1>7. ASSUME NEW t \in Threads, Stop(t)
      PROVE  OrphanInv'
  <2>1. Alone(t) /\ thread'[t].pc = "revoke" /\ thread'[t].session = thread[t].session
    BY <1>0, <1>7, StepAlone DEF Step, Stop, Goto, Thread
  <2>2. /\ running' = running \ {thread[t].session} /\ store' = store
        /\ late' = late \union {thread[u].nonce : u \in LookedUp(thread[t].session)}
        /\ At(t, "stop")
    BY <1>7 DEF Stop, Overtake
  <2>3. IssueRunning'
    BY <1>0, <2>1, <2>2 DEF IssueRunning, LookedUp, Alone, At
  <2>4. OnlyOvertakenOrphans'
    BY <1>0, <2>1, <2>2 DEF OnlyOvertakenOrphans, Owned, Store!Stored, Alone, At
  <2> QED
    BY <1>0, <2>3, <2>4 DEF OrphanInv
<1>8. ASSUME NEW t \in Threads, Revoke(t)
      PROVE  OrphanInv'
  <2>1. Alone(t) /\ thread'[t] = IdleThread
    BY <1>0, <1>8, StepAlone DEF Step, Revoke, Return
  <2>2. running' = running /\ late' = late
    BY <1>8 DEF Revoke
  <2>3. IssueRunning'
    BY <1>0, <2>1, <2>2 DEF IssueRunning, Alone, At, IdleThread
  <2>4. \A n \in Nonces : Store!Stored(n)' =>
          store'[n] = store[n] /\ store[n].session # thread[t].session
    BY <1>0, <1>8 DEF Revoke, Store!RevokeSession, Store!Without, Store!Stored, Store!Absent,
                      AgentInv, TypeOK
  <2>5. OnlyOvertakenOrphans'
    BY <1>0, <2>1, <2>2, <2>4 DEF OnlyOvertakenOrphans, Owned, Store!Stored, Alone, At
  <2> QED
    BY <1>0, <2>3, <2>5 DEF OrphanInv
<1>9. ASSUME NEW s \in Sessions, OpenSession(s)
      PROVE  OrphanInv'
  <2>1. running' = running /\ late' = late /\ store' = store
    BY <1>9 DEF OpenSession, storeVars
  <2>2. \A u \in Threads : \/ thread'[u] = thread[u]
                           \/ At(u, "idle") /\ thread'[u].pc = "start"
    BY <1>0, <1>9 DEF OpenSession, At, Threads, Thread
  <2>3. IssueRunning'
    BY <1>0, <2>1, <2>2 DEF IssueRunning, At
  <2>4. OnlyOvertakenOrphans'
    BY <1>0, <2>1, <2>2 DEF OnlyOvertakenOrphans, Owned, Store!Stored, At
  <2> QED
    BY <1>0, <2>3, <2>4 DEF OrphanInv
<1>10. CASE AgentRestart
  <2>1. IssueRunning'
    BY <1>10 DEF AgentRestart, IssueRunning, At, IdleThread
  <2>2. OnlyOvertakenOrphans'
    BY <1>10 DEF AgentRestart, OnlyOvertakenOrphans, Store!Stored
  <2> QED
    BY <1>0, <2>1, <2>2 DEF OrphanInv
<1>11. CASE Tick \/ (\E s \in Sessions : CloseSession(s)) \/ UNCHANGED vars
  <2>1. thread' = thread /\ running' = running /\ late' = late /\ store' = store
    BY <1>11 DEF Tick, CloseSession, vars, storeVars
  <2>2. IssueRunning' /\ OnlyOvertakenOrphans'
    BY <1>0, <2>1 DEF IssueRunning, OnlyOvertakenOrphans, Owned, Store!Stored, At
  <2> QED
    BY <1>0, <2>2 DEF OrphanInv
<1>12. ASSUME NEW t \in Threads, Harmless(t)
       PROVE  OrphanInv'
  BY <1>0, <1>12, HarmlessKeeps
<1>13. Workers \subseteq Threads
  BY DEF Threads
<1> QED
  BY <1>1, <1>2, <1>3, <1>4, <1>5, <1>6, <1>7, <1>8, <1>9, <1>10, <1>11, <1>12, <1>13
     DEF Next, Step

\* The agent stores a challenge of a session it has stopped only where the stop came
\* between the lookup of the session and the issue of the challenge, with any number of
\* threads.
THEOREM OrphansAreOvertaken == Spec => []OnlyOvertakenOrphans
<1>1. OrphanInv => OnlyOvertakenOrphans
  BY DEF OrphanInv
<1> QED
  BY <1>1, InitOrphanInv, NextOrphanInv, PTL DEF Spec

====================================================================================
