---------------------------------- MODULE RowProofs ----------------------------------
(***************************************************************************)
(* Proofs about the parts of the server that keep rows and no cache, for   *)
(* every number of threads and of rows of each kind.                       *)
(***************************************************************************)
EXTENDS SessionService, Passkeys, AuditLedger, NaturalLemmas, SequenceTheorems, TLAPS

(*****************************************************************************)
(* SessionService                                                          *)
(*****************************************************************************)

\* The thread is between the UPDATE that closes and the INSERT that opens a session.
Creates(t) == job[t].pc \in {"own", "free", "any", "bind", "insert"}

\* A request has a session, and an agent where it is about to use one.
JobKnown ==
    \A t \in Threads :
        /\ ~At(t, "idle") => job[t].room \in Rooms
        /\ job[t].pc \in {"bind", "beat"} => job[t].agent \in Agents

\* A session is created once: its row is not there before.
CreatedOnce ==
    /\ \A t, u \in Threads :
        Creates(t) /\ Creates(u) /\ job[t].room = job[u].room => t = u
    /\ \A t \in Threads : Creates(t) => room[job[t].room].state = "none"

Base == SessionTypeOK /\ JobKnown /\ CreatedOnce

\* While one of its sessions is created, a professor has none that is open and
\* creates no other.
NothingOpen ==
    \A t \in Threads : Creates(t) =>
        /\ \A y \in Rooms :
            RoomOf[y] = RoomOf[job[t].room] => room[y].state # "active"
        /\ \A u \in Threads :
            Creates(u) /\ RoomOf[job[u].room] = RoomOf[job[t].room] => t = u

SessionInv == ~Overlap /\ Base /\ NothingOpen /\ OneActiveSession

------------------------------------------------------------------------------------

LEMMA InitBase == SessionInit => Base
  BY RoomAssumption
     DEF SessionInit, Base, SessionTypeOK, JobKnown, CreatedOnce, Creates, NoJob, At,
         MaybeAgent, JobPoints, RoomStates

\* What the steps of a request leave: its session, and every other request.
JobMoves(t, point) ==
    /\ job'[t].pc = point
    /\ job'[t].room = job[t].room
    /\ \A u \in Threads : u # t => job'[u] = job[u]

\* What a request that goes on leaves of the others.
LEMMA GoOnMoves ==
    ASSUME SessionTypeOK, NEW t \in Threads, NEW point \in JobPoints,
           NEW a \in MaybeAgent, GoOn(t, point, a)
    PROVE  /\ JobMoves(t, point)
           /\ job'[t].agent = a
           /\ job' \in [Threads -> [pc : JobPoints, room : Rooms \union {NoRoom},
                                     agent : MaybeAgent]]
  BY DEF SessionTypeOK, GoOn, JobMoves

\* A request that creates a session goes on, or ends.
LEMMA MoveKeepsBase ==
    ASSUME Base, NEW t \in Threads, NEW point \in JobPoints, NEW a \in MaybeAgent,
           Creates(t), point \in {"free", "any", "bind", "insert"},
           point = "bind" => a \in Agents,
           GoOn(t, point, a), room' = room, registered' = registered,
           owner' \in [Agents -> Professors \union {NoProfessor}]
    PROVE  Base'
<1>1. /\ JobMoves(t, point)
      /\ job'[t].agent = a
      /\ job' \in [Threads -> [pc : JobPoints, room : Rooms \union {NoRoom},
                                agent : MaybeAgent]]
  BY GoOnMoves DEF Base
<1>2. SessionTypeOK'
  BY <1>1 DEF Base, SessionTypeOK
<1>3. JobKnown'
  BY <1>1 DEF Base, JobKnown, JobMoves, At, Creates
<1>4. \A u \in Threads : /\ Creates(u)' => Creates(u)
                         /\ job'[u].room = job[u].room
  BY <1>1 DEF Creates, JobMoves
<1>5. CreatedOnce'
  BY <1>4 DEF Base, CreatedOnce
<1> QED
  BY <1>2, <1>3, <1>5 DEF Base

\* A request that ends without writing keeps the invariant.
LEMMA EndKeepsBase ==
    ASSUME Base, NEW t \in Threads, EndJob(t), UNCHANGED <<registered, owner, room>>
    PROVE  Base'
<1>1. \A u \in Threads : job'[u] = IF u = t THEN NoJob ELSE job[u]
  BY DEF EndJob, Base, SessionTypeOK
<1>2. SessionTypeOK'
  BY DEF EndJob, Base, SessionTypeOK, NoJob, MaybeAgent, JobPoints
<1>3. JobKnown' /\ CreatedOnce'
  BY <1>1 DEF Base, JobKnown, CreatedOnce, Creates, At, NoJob
<1> QED
  BY <1>2, <1>3 DEF Base

\* Every step keeps the base invariant.
LEMMA NextKeepsBase == Base /\ [SessionNext]_sessionVars => Base'
<1> SUFFICES ASSUME Base, [SessionNext]_sessionVars
             PROVE  Base'
  OBVIOUS
<1>0. SessionTypeOK /\ JobKnown /\ CreatedOnce
  BY DEF Base
<1>1. ASSUME NEW t \in Threads, NEW x \in Rooms, CloseOthers(t, x)
      PROVE  Base'
  <2>1. job' = [job EXCEPT ![t] = [pc |-> "own", room |-> x, agent |-> NoAgent]]
    BY <1>1 DEF CloseOthers
  <2>2. \A u \in Threads : job[u].room # x
    BY <1>1 DEF CloseOthers
  <2>3. \A y \in Rooms : /\ room'[y].state = "none" <=> room[y].state = "none"
                         /\ room'[y] \in [state : RoomStates, agent : MaybeAgent]
    BY <1>0, <1>1 DEF CloseOthers, SessionTypeOK, RoomStates
  <2>4. SessionTypeOK'
    BY <1>0, <1>1, <2>1, <2>3 DEF CloseOthers, SessionTypeOK, JobPoints, MaybeAgent
  <2>5. \A u \in Threads :
          job'[u] = IF u = t THEN [pc |-> "own", room |-> x, agent |-> NoAgent] ELSE job[u]
    BY <1>0, <2>1 DEF SessionTypeOK
  <2>6. JobKnown'
    BY <1>0, <2>5 DEF JobKnown, At
  <2>7. CreatedOnce'
    BY <1>0, <1>1, <2>2, <2>3, <2>5 DEF CreatedOnce, Creates, CloseOthers, JobKnown, At
  <2> QED
    BY <2>4, <2>6, <2>7 DEF Base
<1>2. ASSUME NEW t \in Threads, OwnAgent(t)
      PROVE  Base'
  <2>1. Creates(t) /\ owner' \in [Agents -> Professors \union {NoProfessor}]
    BY <1>0, <1>2 DEF OwnAgent, At, Creates, SessionTypeOK
  <2>2. CASE GoOn(t, "free", NoAgent)
    BY <1>2, <2>1, <2>2, MoveKeepsBase DEF OwnAgent, JobPoints, MaybeAgent
  <2>3. ASSUME NEW a \in Agents, GoOn(t, "insert", a)
        PROVE  Base'
    BY <1>2, <2>1, <2>3, MoveKeepsBase DEF OwnAgent, JobPoints, MaybeAgent
  <2> QED
    BY <1>2, <2>2, <2>3 DEF OwnAgent
<1>3. ASSUME NEW t \in Threads, FreeAgent(t)
      PROVE  Base'
  <2>1. Creates(t) /\ owner' \in [Agents -> Professors \union {NoProfessor}]
    BY <1>0, <1>3 DEF FreeAgent, At, Creates, SessionTypeOK
  <2>2. \A i \in DOMAIN registered : registered[i] \in Agents
    BY <1>0 DEF SessionTypeOK
  <2>3. CASE GoOn(t, "any", NoAgent)
    BY <1>3, <2>1, <2>3, MoveKeepsBase DEF FreeAgent, JobPoints, MaybeAgent
  <2>4. ASSUME NEW a \in Agents, GoOn(t, "bind", a)
        PROVE  Base'
    BY <1>3, <2>1, <2>4, MoveKeepsBase DEF FreeAgent, JobPoints, MaybeAgent
  <2> QED
    BY <1>3, <2>2, <2>3, <2>4 DEF FreeAgent
<1>4. ASSUME NEW t \in Threads, AnyAgent(t)
      PROVE  Base'
  <2>1. Creates(t) /\ owner' \in [Agents -> Professors \union {NoProfessor}]
    BY <1>0, <1>4 DEF AnyAgent, At, Creates, SessionTypeOK
  <2>2. CASE GoOn(t, "insert", NoAgent)
    BY <1>4, <2>1, <2>2, MoveKeepsBase DEF AnyAgent, JobPoints, MaybeAgent
  <2>3. ASSUME NEW a \in Agents, NEW point \in {"bind", "insert"}, GoOn(t, point, a)
        PROVE  Base'
    BY <1>4, <2>1, <2>3, MoveKeepsBase DEF AnyAgent, JobPoints, MaybeAgent
  <2>4. registered # <<>> => Last(registered) \in Agents
    BY <1>0 DEF SessionTypeOK, Last
  <2> QED
    BY <1>4, <2>2, <2>3, <2>4 DEF AnyAgent
<1>5. ASSUME NEW t \in Threads, BindAgent(t)
      PROVE  Base'
  <2>1. Creates(t) /\ job[t].agent \in Agents /\ RoomOf[job[t].room] \in Professors
    BY <1>0, <1>5, RoomAssumption DEF BindAgent, At, Creates, JobKnown
  <2>2. owner' \in [Agents -> Professors \union {NoProfessor}]
    BY <1>0, <1>5, <2>1 DEF BindAgent, SessionTypeOK
  <2> QED
    BY <1>5, <2>1, <2>2, MoveKeepsBase DEF BindAgent, JobPoints, MaybeAgent
<1>6. ASSUME NEW t \in Threads, InsertSession(t)
      PROVE  Base'
  <2>1. Creates(t) /\ job[t].room \in Rooms
    BY <1>0, <1>6 DEF InsertSession, At, Creates, JobKnown
  <2>2. \A u \in Threads : job'[u] = IF u = t THEN NoJob ELSE job[u]
    BY <1>0, <1>6 DEF InsertSession, EndJob, SessionTypeOK
  <2>3. \A y \in Rooms : y # job[t].room => room'[y] = room[y]
    BY <1>0, <1>6 DEF InsertSession, SessionTypeOK
  <2>4. SessionTypeOK'
    BY <1>0, <1>6, <2>1
       DEF InsertSession, EndJob, SessionTypeOK, NoJob, JobPoints, MaybeAgent, RoomStates
  <2>5. JobKnown'
    BY <1>0, <2>2 DEF JobKnown, At, NoJob
  <2>6. \A u \in Threads : Creates(u)' => u # t /\ Creates(u) /\ job'[u] = job[u]
    BY <2>2 DEF Creates, NoJob
  <2>7. CreatedOnce'
    BY <1>0, <2>1, <2>3, <2>6 DEF CreatedOnce, JobKnown, Creates, At
  <2> QED
    BY <2>4, <2>5, <2>7 DEF Base
<1>7. ASSUME NEW t \in Threads, JobFails(t)
      PROVE  Base'
  BY <1>7, EndKeepsBase DEF JobFails
<1>8. ASSUME NEW t \in Threads, HeartbeatSave(t)
      PROVE  Base'
  <2>1. job[t].room \in Rooms /\ job[t].agent \in MaybeAgent
    BY <1>0, <1>8 DEF HeartbeatSave, At, JobKnown, MaybeAgent
  <2>2. \A u \in Threads : job'[u] = IF u = t THEN NoJob ELSE job[u]
    BY <1>0, <1>8 DEF HeartbeatSave, EndJob, SessionTypeOK
  <2>3. \A y \in Rooms : room'[y].state = room[y].state
    BY <1>0, <1>8 DEF HeartbeatSave, SessionTypeOK
  <2>4. SessionTypeOK'
    BY <1>0, <1>8, <2>1
       DEF HeartbeatSave, EndJob, SessionTypeOK, NoJob, JobPoints, MaybeAgent
  <2>5. JobKnown'
    BY <1>0, <2>2 DEF JobKnown, At, NoJob
  <2>6. CreatedOnce'
    BY <1>0, <2>2, <2>3 DEF CreatedOnce, Creates, NoJob, JobKnown, At
  <2> QED
    BY <2>4, <2>5, <2>6 DEF Base
<1>9. ASSUME NEW t \in Threads, NEW a \in Agents, NEW x \in Rooms, HeartbeatRead(t, a, x)
      PROVE  Base'
  <2>1. \A u \in Threads :
          job'[u] = IF u = t THEN [pc |-> "beat", room |-> x, agent |-> a] ELSE job[u]
    BY <1>0, <1>9 DEF HeartbeatRead, SessionTypeOK
  <2>2. SessionTypeOK'
    BY <1>0, <1>9 DEF HeartbeatRead, SessionTypeOK, JobPoints, MaybeAgent
  <2>3. JobKnown' /\ CreatedOnce'
    BY <1>0, <1>9, <2>1 DEF HeartbeatRead, JobKnown, CreatedOnce, Creates, At
  <2> QED
    BY <2>2, <2>3 DEF Base
<1>10. ASSUME NEW a \in Agents, RegisterAgent(a)
       PROVE  Base'
  BY <1>0, <1>10 DEF RegisterAgent, Base, SessionTypeOK, JobKnown, CreatedOnce, Creates, At
<1>11. ASSUME NEW x \in Rooms, StopSession(x)
       PROVE  Base'
  <2>1. SessionTypeOK'
    BY <1>0, <1>11 DEF StopSession, SessionTypeOK, RoomStates
  <2>2. \A y \in Rooms : room'[y].state = "none" <=> room[y].state = "none"
    BY <1>0, <1>11 DEF StopSession, SessionTypeOK, RoomStates
  <2>3. JobKnown' /\ CreatedOnce'
    BY <1>0, <1>11, <2>2 DEF StopSession, JobKnown, CreatedOnce, Creates, At
  <2> QED
    BY <2>1, <2>3 DEF Base
<1>12. ASSUME NEW t \in Threads, NEW x \in Rooms, DiscoverAgent(t, x)
       PROVE  Base'
  <2>1. \A u \in Threads :
          job'[u] = IF u = t THEN [pc |-> "discover", room |-> x, agent |-> NoAgent] ELSE job[u]
    BY <1>0, <1>12 DEF DiscoverAgent, SessionTypeOK
  <2>2. SessionTypeOK'
    BY <1>0, <1>12 DEF DiscoverAgent, SessionTypeOK, JobPoints, MaybeAgent
  <2>3. JobKnown' /\ CreatedOnce'
    BY <1>0, <1>12, <2>1 DEF DiscoverAgent, JobKnown, CreatedOnce, Creates, At
  <2> QED
    BY <2>2, <2>3 DEF Base
<1>13. ASSUME NEW t \in Threads, NEW a \in Agents, DiscoverSave(t, a)
       PROVE  Base'
  <2>1. RoomOf[job[t].room] \in Professors
    BY <1>0, <1>13, RoomAssumption DEF DiscoverSave, At, JobKnown
  <2>2. registered' \in Seq(Agents) /\ owner' \in [Agents -> Professors \union {NoProfessor}]
    BY <1>0, <1>13, <2>1 DEF DiscoverSave, SessionTypeOK
  <2>3. \A u \in Threads : job'[u] = IF u = t THEN NoJob ELSE job[u]
    BY <1>0, <1>13 DEF DiscoverSave, EndJob, SessionTypeOK
  <2>4. SessionTypeOK'
    BY <1>0, <1>13, <2>2
       DEF DiscoverSave, EndJob, SessionTypeOK, NoJob, JobPoints, MaybeAgent
  <2>5. JobKnown' /\ CreatedOnce'
    BY <1>0, <1>13, <2>3 DEF DiscoverSave, JobKnown, CreatedOnce, Creates, At, NoJob
  <2> QED
    BY <2>4, <2>5 DEF Base
<1>14. CASE UNCHANGED sessionVars
  BY <1>0, <1>14 DEF sessionVars, Base, SessionTypeOK, JobKnown, CreatedOnce, Creates, At
<1> QED
  BY <1>1, <1>2, <1>3, <1>4, <1>5, <1>6, <1>7, <1>8, <1>9, <1>10, <1>11, <1>12, <1>13, <1>14
     DEF SessionNext

\* Every reachable state is well typed.
THEOREM SessionsTyped == SessionSpec => []SessionTypeOK
<1>1. Base => SessionTypeOK
  BY DEF Base
<1> QED
  BY <1>1, InitBase, NextKeepsBase, PTL DEF SessionSpec

\* No step opens a closed session.
LEMMA ClosedStaysAtStep ==
    Base /\ [SessionNext]_sessionVars =>
        [\A x \in Rooms : room[x].state = "closed" => room'[x].state = "closed"]_sessionVars
<1> SUFFICES ASSUME Base, SessionNext, NEW z \in Rooms, room[z].state = "closed"
             PROVE  room'[z].state = "closed"
  OBVIOUS
<1>0. SessionTypeOK /\ JobKnown /\ CreatedOnce
  BY DEF Base
<1>1. ASSUME NEW t \in Threads, NEW x \in Rooms, CloseOthers(t, x)
      PROVE  room'[z].state = "closed"
  BY <1>0, <1>1 DEF CloseOthers, SessionTypeOK
<1>2. ASSUME NEW t \in Threads, InsertSession(t)
      PROVE  room'[z].state = "closed"
  <2>1. room[job[t].room].state = "none"
    BY <1>0, <1>2 DEF InsertSession, At, Creates, CreatedOnce
  <2> QED
    BY <1>0, <1>2, <2>1 DEF InsertSession, SessionTypeOK
<1>3. ASSUME NEW t \in Threads, HeartbeatSave(t)
      PROVE  room'[z].state = "closed"
  BY <1>0, <1>3 DEF HeartbeatSave, SessionTypeOK
<1>4. ASSUME NEW x \in Rooms, StopSession(x)
      PROVE  room'[z].state = "closed"
  BY <1>0, <1>4 DEF StopSession, SessionTypeOK
<1>5. \/ room' = room
      \/ \E t \in Threads, x \in Rooms : CloseOthers(t, x)
      \/ \E t \in Threads : InsertSession(t) \/ HeartbeatSave(t)
      \/ \E x \in Rooms : StopSession(x)
  BY DEF SessionNext, OwnAgent, FreeAgent, AnyAgent, BindAgent, JobFails, HeartbeatRead,
         RegisterAgent, DiscoverAgent, DiscoverSave
<1> QED
  BY <1>1, <1>2, <1>3, <1>4, <1>5

\* A session that was closed is never open again, whatever requests overlap.
THEOREM ClosedNeverReopens == SessionSpec => ClosedStaysClosed
  BY InitBase, NextKeepsBase, ClosedStaysAtStep, PTL DEF SessionSpec, ClosedStaysClosed

------------------------------------------------------------------------------------

\* A step that opens no session and begins to create none.
Quiet ==
    /\ \A y \in Rooms : room'[y].state = "active" => room[y].state = "active"
    /\ \A u \in Threads :
        job'[u].pc \in {"own", "free", "any", "bind", "insert"} =>
            Creates(u) /\ job'[u].room = job[u].room

\* A quiet step opens no session and begins to create none.
LEMMA QuietKeepsInv ==
    ASSUME SessionInv, Base', Quiet
    PROVE  SessionInv'
<1>1. OneActiveSession'
  BY DEF SessionInv, OneActiveSession, Quiet
<1>2. NothingOpen'
  BY DEF SessionInv, NothingOpen, Quiet, Creates
<1> QED
  BY <1>1, <1>2 DEF SessionInv

\* Only two steps are not quiet.
LEMMA MostAreQuiet ==
    ASSUME Base, SessionNext,
           ~\E t \in Threads, x \in Rooms : CloseOthers(t, x),
           ~\E t \in Threads : InsertSession(t)
    PROVE  Quiet
<1>0. SessionTypeOK
  BY DEF Base
<1>1. ASSUME NEW t \in Threads,
             OwnAgent(t) \/ FreeAgent(t) \/ AnyAgent(t) \/ BindAgent(t)
      PROVE  Quiet
  <2>1. room' = room /\ Creates(t)
    BY <1>1 DEF OwnAgent, FreeAgent, AnyAgent, BindAgent, At, Creates
  <2>2. \E point, a : GoOn(t, point, a)
    BY <1>1 DEF OwnAgent, FreeAgent, AnyAgent, BindAgent
  <2>3. \A u \in Threads : /\ job'[u].room = job[u].room
                           /\ u # t => job'[u] = job[u]
    BY <1>0, <2>2 DEF GoOn, SessionTypeOK
  <2> QED
    BY <2>1, <2>3 DEF Quiet, Creates
<1>2. ASSUME NEW t \in Threads, EndJob(t),
             \A y \in Rooms : room'[y].state = room[y].state
      PROVE  Quiet
  <2>1. \A u \in Threads : job'[u] = IF u = t THEN NoJob ELSE job[u]
    BY <1>0, <1>2 DEF EndJob, SessionTypeOK
  <2> QED
    BY <1>2, <2>1 DEF Quiet, Creates, NoJob
<1>3. ASSUME NEW t \in Threads, JobFails(t) \/ HeartbeatSave(t)
      PROVE  Quiet
  <2>1. EndJob(t) /\ \A y \in Rooms : room'[y].state = room[y].state
    BY <1>0, <1>3 DEF JobFails, HeartbeatSave, SessionTypeOK
  <2> QED
    BY <1>2, <2>1
<1>4. ASSUME NEW t \in Threads, NEW a \in Agents, DiscoverSave(t, a)
      PROVE  Quiet
  BY <1>2, <1>4 DEF DiscoverSave
<1>5. ASSUME NEW t \in Threads, NEW a \in Agents, NEW x \in Rooms,
             HeartbeatRead(t, a, x)
      PROVE  Quiet
  <2>1. \A u \in Threads : \/ job'[u] = job[u]
                           \/ job'[u].pc = "beat"
    BY <1>0, <1>5 DEF HeartbeatRead, SessionTypeOK
  <2> QED
    BY <1>5, <2>1 DEF Quiet, Creates, HeartbeatRead
<1>6. ASSUME NEW t \in Threads, NEW x \in Rooms, DiscoverAgent(t, x)
      PROVE  Quiet
  <2>1. \A u \in Threads : \/ job'[u] = job[u]
                           \/ job'[u].pc = "discover"
    BY <1>0, <1>6 DEF DiscoverAgent, SessionTypeOK
  <2> QED
    BY <1>6, <2>1 DEF Quiet, Creates, DiscoverAgent
<1>7. ASSUME NEW a \in Agents, RegisterAgent(a)
      PROVE  Quiet
  BY <1>7 DEF RegisterAgent, Quiet, Creates
<1>8. ASSUME NEW x \in Rooms, StopSession(x)
      PROVE  Quiet
  BY <1>0, <1>8 DEF StopSession, Quiet, Creates, SessionTypeOK
<1> QED
  BY <1>1, <1>3, <1>4, <1>5, <1>6, <1>7, <1>8 DEF SessionNext

\* The UPDATE leaves the professor no open session, and no other is created.
LEMMA CloseOthersKeepsInv ==
    ASSUME SessionInv, Base', NEW t \in Threads, NEW x \in Rooms, CloseOthers(t, x)
    PROVE  SessionInv'
<1>0. SessionTypeOK
  BY DEF SessionInv, Base
<1>1. \A u \in Threads :
        job'[u] = IF u = t THEN [pc |-> "own", room |-> x, agent |-> NoAgent] ELSE job[u]
  BY <1>0 DEF CloseOthers, SessionTypeOK
<1>2. \A y \in Rooms : room'[y].state = "active" =>
        room[y].state = "active" /\ RoomOf[y] # RoomOf[x]
  BY <1>0 DEF CloseOthers, SessionTypeOK
<1>3. \A u \in Threads : Creates(u) => RoomOf[job[u].room] # RoomOf[x]
  BY DEF SessionInv, CloseOthers, Creating, Creates
<1>4. OneActiveSession'
  BY <1>2 DEF SessionInv, OneActiveSession
<1>5. \A u \in Threads : Creates(u)' =>
        \/ u = t /\ job'[u].room = x
        \/ u # t /\ Creates(u) /\ job'[u] = job[u]
  BY <1>1 DEF Creates
<1>6. ASSUME NEW u \in Threads, Creates(u)'
      PROVE  /\ \A y \in Rooms :
                 RoomOf[y] = RoomOf[job'[u].room] => room'[y].state # "active"
             /\ \A v \in Threads :
                 Creates(v)' /\ RoomOf[job'[v].room] = RoomOf[job'[u].room] => u = v
  BY <1>2, <1>3, <1>5, <1>6 DEF SessionInv, NothingOpen
<1>7. NothingOpen'
  BY <1>6 DEF NothingOpen
<1> QED
  BY <1>4, <1>7 DEF SessionInv

\* The INSERT opens the session of the only request that creates one.
LEMMA InsertKeepsInv ==
    ASSUME SessionInv, Base', NEW t \in Threads, InsertSession(t)
    PROVE  SessionInv'
<1>0. SessionTypeOK /\ JobKnown
  BY DEF SessionInv, Base
<1>1. Creates(t) /\ job[t].room \in Rooms
  BY <1>0 DEF InsertSession, At, Creates, JobKnown
<1>2. \A y \in Rooms : y # job[t].room => room'[y] = room[y]
  BY <1>0 DEF InsertSession, SessionTypeOK
<1>3. \A u \in Threads : Creates(u)' => u # t /\ Creates(u) /\ job'[u] = job[u]
  BY <1>0 DEF InsertSession, EndJob, Creates, NoJob, SessionTypeOK
<1>4. OneActiveSession'
  BY <1>1, <1>2 DEF SessionInv, OneActiveSession, NothingOpen
<1>5. ASSUME NEW u \in Threads, Creates(u)'
      PROVE  /\ \A y \in Rooms :
                 RoomOf[y] = RoomOf[job'[u].room] => room'[y].state # "active"
             /\ \A v \in Threads :
                 Creates(v)' /\ RoomOf[job'[v].room] = RoomOf[job'[u].room] => u = v
  BY <1>1, <1>2, <1>3, <1>5 DEF SessionInv, NothingOpen
<1>6. NothingOpen'
  BY <1>5 DEF NothingOpen
<1> QED
  BY <1>4, <1>6 DEF SessionInv

LEMMA InitSessionInv == ~Overlap /\ SessionInit => SessionInv
  BY InitBase DEF SessionInit, SessionInv, NothingOpen, OneActiveSession, Creates, NoJob

\* Every step leaves a professor with one open session at most.
LEMMA NextSessionInv == SessionInv /\ [SessionNext]_sessionVars => SessionInv'
<1> SUFFICES ASSUME SessionInv, [SessionNext]_sessionVars
             PROVE  SessionInv'
  OBVIOUS
<1>1. Base /\ Base'
  BY NextKeepsBase DEF SessionInv
<1>2. CASE UNCHANGED sessionVars
  <2>1. Quiet
    BY <1>2 DEF sessionVars, Quiet, Creates
  <2> QED
    BY <1>1, <2>1, QuietKeepsInv
<1>3. CASE SessionNext
  BY <1>1, <1>3, CloseOthersKeepsInv, InsertKeepsInv, MostAreQuiet, QuietKeepsInv
<1> QED
  BY <1>2, <1>3

\* A professor who waits for each answer never has two open sessions.
THEOREM OneActive == ~Overlap /\ SessionSpec => []OneActiveSession
<1>1. SessionInv => OneActiveSession
  BY DEF SessionInv
<1> QED
  BY <1>1, InitSessionInv, NextSessionInv, PTL DEF SessionSpec

(*****************************************************************************)
(* Passkeys                                                                *)
(*****************************************************************************)

Serves(t) == serving[t] # NoRequest

\* The requests of a student who waits for each answer.
OneAtATime == \A t, u \in Threads : Serves(t) /\ Serves(u) => t = u

\* What a request has read is still there: the challenge it answers is the one in
\* the session, and the counter it compared has not gone up.
ReadStands ==
    \A t \in Threads :
        /\ serving[t].pc = "created" =>
            serving[t].count = regChallenge /\ regChallenge # 0
        /\ serving[t].pc = "asserted" =>
            serving[t].key \in Passes /\ serving[t].count > pass[serving[t].key].counter

\* A challenge that is still in the session, or yet to be handed out, has not been
\* answered.
OpenUnconfirmed ==
    /\ options <= MaxOptions
    /\ \A n \in 1..MaxOptions : n = regChallenge \/ n > options => confirmed[n] = 0

PassInv == ~Overlap /\ PassTypeOK /\ OneAtATime /\ ReadStands /\ OpenUnconfirmed /\ ConfirmedOnce

------------------------------------------------------------------------------------

LEMMA InitPassTyped == PassInit => PassTypeOK
  BY PassAssumption DEF PassInit, PassTypeOK, NoRow, NoRequest

LEMMA NextPassTyped == PassTypeOK /\ [PassNext]_passVars => PassTypeOK'
<1> SUFFICES ASSUME PassTypeOK, [PassNext]_passVars
             PROVE  PassTypeOK'
  OBVIOUS
<1> USE PassAssumption
<1>1. ASSUME NEW t \in Threads, RegisterOptions(t)
      PROVE  PassTypeOK'
  BY <1>1 DEF RegisterOptions, PassTypeOK
<1>2. ASSUME NEW t \in Threads, NEW k \in Passes, RegisterVerify(t, k)
      PROVE  PassTypeOK'
  BY <1>2 DEF RegisterVerify, PassTypeOK
<1>3. ASSUME NEW t \in Threads, RegisterDone(t)
      PROVE  PassTypeOK'
  <2>1. /\ regChallenge' \in 0..options'
        /\ serving' \in [Threads -> [pc : {"idle", "created", "asserted"},
                                     key : Passes \union {NoPass}, count : Nat]]
    BY <1>3 DEF RegisterDone, Answered, NoRequest, PassTypeOK
  <2>2. confirmed' \in [1..MaxOptions -> Nat]
    <3>1. confirmed' = [n \in 1..MaxOptions |->
                            IF n = serving[t].count THEN confirmed[n] + 1 ELSE confirmed[n]]
      BY <1>3 DEF RegisterDone, PassTypeOK
    <3>2. \A n \in 1..MaxOptions : confirmed[n] \in Nat /\ confirmed[n] + 1 \in Nat
      BY DEF PassTypeOK
    <3> QED
      BY <3>1, <3>2
  <2> QED
    BY <1>3, <2>1, <2>2 DEF RegisterDone, PassTypeOK
<1>4. ASSUME NEW t \in Threads, PassRequestDies(t)
      PROVE  PassTypeOK'
  BY <1>4 DEF PassRequestDies, Answered, NoRequest, PassTypeOK
<1>5. ASSUME NEW t \in Threads, AssertOptions(t)
      PROVE  PassTypeOK'
  BY <1>5 DEF AssertOptions, Active, PassTypeOK
<1>6. ASSUME NEW t \in Threads, NEW k \in Passes, NEW n \in 1..MaxSigns, AssertVerify(t, k, n)
      PROVE  PassTypeOK'
  BY <1>6 DEF AssertVerify, PassTypeOK
<1>7. ASSUME NEW t \in Threads, AssertSave(t)
      PROVE  PassTypeOK'
  BY <1>7 DEF AssertSave, Answered, NoRequest, PassTypeOK
<1>8. ASSUME NEW k \in Passes, MakeCredential(k)
      PROVE  PassTypeOK'
  BY <1>8 DEF MakeCredential, PassTypeOK
<1>9. ASSUME NEW k \in Passes, Sign(k)
      PROVE  PassTypeOK'
  BY <1>9 DEF Sign, PassTypeOK
<1>10. ASSUME NEW k \in Passes, Revoke(k)
       PROVE  PassTypeOK'
  BY <1>10 DEF Revoke, PassTypeOK
<1>11. CASE UNCHANGED passVars
  BY <1>11 DEF passVars, PassTypeOK
<1> QED
  BY <1>1, <1>2, <1>3, <1>4, <1>5, <1>6, <1>7, <1>8, <1>9, <1>10, <1>11 DEF PassNext

\* Every reachable state is well typed.
THEOREM PassesTyped == PassSpec => []PassTypeOK
  BY InitPassTyped, NextPassTyped, PTL DEF PassSpec

\* The steps that write rows: a registration of a credential that can be repeated,
\* a revocation, and the save of an assertion, which writes the counter only.
LEMMA RevokedAtStep ==
    PassTypeOK /\ [PassNext]_passVars =>
        [\A k \in Passes :
            pass[k].state = "revoked" /\ ~Repeatable(k) => pass'[k].state = "revoked"]_passVars
<1> SUFFICES ASSUME PassTypeOK, PassNext, NEW k \in Passes,
                    pass[k].state = "revoked", ~Repeatable(k)
             PROVE  pass'[k].state = "revoked"
  OBVIOUS
<1>1. ASSUME NEW t \in Threads, NEW l \in Passes, RegisterVerify(t, l)
      PROVE  pass'[k].state = "revoked"
  BY <1>1 DEF RegisterVerify, Repeatable, PassTypeOK
<1>2. ASSUME NEW t \in Threads, AssertSave(t)
      PROVE  pass'[k].state = "revoked"
  BY <1>2 DEF AssertSave, PassTypeOK
<1>3. ASSUME NEW l \in Passes, Revoke(l)
      PROVE  pass'[k].state = "revoked"
  BY <1>3 DEF Revoke, PassTypeOK
<1>4. \/ pass' = pass
      \/ \E t \in Threads : AssertSave(t) \/ \E l \in Passes : RegisterVerify(t, l)
      \/ \E l \in Passes : Revoke(l)
  BY DEF PassNext, RegisterOptions, RegisterDone, PassRequestDies, AssertOptions, AssertVerify,
         MakeCredential, Sign
<1> QED
  BY <1>1, <1>2, <1>3, <1>4

\* A revoked passkey stays revoked, whatever requests overlap.
THEOREM RevokedStaysRevoked == PassSpec => RevocationStays
  BY InitPassTyped, NextPassTyped, RevokedAtStep, PTL DEF PassSpec, RevocationStays

------------------------------------------------------------------------------------

LEMMA InitPassInv == ~Overlap /\ PassInit => PassInv
  BY InitPassTyped, PassAssumption
     DEF PassInit, PassInv, OneAtATime, Serves, ReadStands, OpenUnconfirmed, ConfirmedOnce,
         NoRequest

\* A request that may be called is the only one.
LEMMA CalledAlone ==
    ASSUME PassInv, NEW t \in Threads, MayCall(t)
    PROVE  \A u \in Threads : serving[u] = NoRequest
  BY DEF PassInv, MayCall

\* When no request is served after a step, only what was answered is at stake.
LEMMA ServesNobody ==
    ASSUME PassInv, PassTypeOK', \A u \in Threads : serving'[u] = NoRequest,
           OpenUnconfirmed', ConfirmedOnce'
    PROVE  PassInv'
  BY DEF PassInv, OneAtATime, Serves, ReadStands, NoRequest

\* The one request there is, answered, leaves none.
LEMMA AnsweredServesNobody ==
    ASSUME PassInv, NEW t \in Threads, serving[t].pc # "idle", Answered(t)
    PROVE  \A u \in Threads : serving'[u] = NoRequest
<1>1. \A u \in Threads : serving'[u] = IF u = t THEN NoRequest ELSE serving[u]
  BY DEF Answered, PassInv, PassTypeOK
<1>2. Serves(t)
  BY DEF Serves, NoRequest
<1> QED
  BY <1>1, <1>2 DEF PassInv, OneAtATime, Serves

\* Every step keeps what requests have read.
LEMMA NextPassInv == PassInv /\ [PassNext]_passVars => PassInv'
<1> SUFFICES ASSUME PassInv, [PassNext]_passVars
             PROVE  PassInv'
  OBVIOUS
<1>0. PassTypeOK /\ PassTypeOK'
  BY NextPassTyped DEF PassInv
<1>1. ASSUME NEW t \in Threads, RegisterOptions(t)
      PROVE  PassInv'
  <2>1. \A u \in Threads : serving'[u] = NoRequest
    BY <1>1, CalledAlone DEF RegisterOptions
  <2>2. OpenUnconfirmed' /\ ConfirmedOnce'
    BY <1>0, <1>1, PassAssumption
       DEF RegisterOptions, PassInv, OpenUnconfirmed, ConfirmedOnce, PassTypeOK
  <2> QED
    BY <1>0, <2>1, <2>2, ServesNobody
<1>2. ASSUME NEW t \in Threads, NEW k \in Passes, RegisterVerify(t, k)
      PROVE  PassInv'
  <2>1. \A u \in Threads : serving[u] = NoRequest
    BY <1>2, CalledAlone DEF RegisterVerify
  <2>2. \A u \in Threads : serving'[u] = IF u = t
            THEN [pc |-> "created", key |-> k, count |-> regChallenge] ELSE NoRequest
    BY <1>0, <1>2, <2>1 DEF RegisterVerify, PassTypeOK
  <2>3. OneAtATime' /\ ReadStands'
    BY <1>2, <2>2 DEF RegisterVerify, OneAtATime, Serves, ReadStands, NoRequest
  <2>4. OpenUnconfirmed' /\ ConfirmedOnce'
    BY <1>2 DEF RegisterVerify, PassInv, OpenUnconfirmed, ConfirmedOnce
  <2> QED
    BY <1>0, <2>3, <2>4 DEF PassInv
<1>3. ASSUME NEW t \in Threads, RegisterDone(t)
      PROVE  PassInv'
  <2>1. \A u \in Threads : serving'[u] = NoRequest
    BY <1>3, AnsweredServesNobody DEF RegisterDone
  <2>2. /\ serving[t].count = regChallenge
        /\ regChallenge \in 1..options
        /\ options <= MaxOptions
    BY <1>0, <1>3 DEF RegisterDone, PassInv, ReadStands, OpenUnconfirmed, PassTypeOK
  <2>3. confirmed[regChallenge] = 0
    BY <1>0, <2>2, PassAssumption DEF PassInv, OpenUnconfirmed, PassTypeOK
  <2>4. \A n \in 1..MaxOptions : confirmed'[n] = IF n = regChallenge THEN 1 ELSE confirmed[n]
    BY <1>0, <1>3, <2>2, <2>3 DEF RegisterDone, PassTypeOK
  <2>5. regChallenge' = 0 /\ options' = options
    BY <1>3 DEF RegisterDone
  <2>6. OpenUnconfirmed'
    BY <1>0, <2>2, <2>4, <2>5, PassAssumption DEF PassInv, OpenUnconfirmed, PassTypeOK
  <2>7. ConfirmedOnce'
    BY <1>0, <2>2, <2>4, <2>5, PassAssumption DEF PassInv, ConfirmedOnce, PassTypeOK
  <2> QED
    BY <1>0, <2>1, <2>6, <2>7, ServesNobody
<1>4. ASSUME NEW t \in Threads, PassRequestDies(t)
      PROVE  PassInv'
  <2>1. \A u \in Threads : serving'[u] = NoRequest
    BY <1>4, AnsweredServesNobody DEF PassRequestDies
  <2>2. OpenUnconfirmed' /\ ConfirmedOnce'
    BY <1>4 DEF PassRequestDies, PassInv, OpenUnconfirmed, ConfirmedOnce
  <2> QED
    BY <1>0, <2>1, <2>2, ServesNobody
<1>5. ASSUME NEW t \in Threads, AssertOptions(t)
      PROVE  PassInv'
  <2>1. \A u \in Threads : serving'[u] = NoRequest
    BY <1>5, CalledAlone DEF AssertOptions
  <2>2. OpenUnconfirmed' /\ ConfirmedOnce'
    BY <1>5 DEF AssertOptions, PassInv, OpenUnconfirmed, ConfirmedOnce
  <2> QED
    BY <1>0, <2>1, <2>2, ServesNobody
<1>6. ASSUME NEW t \in Threads, NEW k \in Passes, NEW n \in 1..MaxSigns, AssertVerify(t, k, n)
      PROVE  PassInv'
  <2>1. \A u \in Threads : serving[u] = NoRequest
    BY <1>6, CalledAlone DEF AssertVerify
  <2>2. \A u \in Threads : serving'[u] = IF u = t
            THEN [pc |-> "asserted", key |-> k, count |-> n] ELSE NoRequest
    BY <1>0, <1>6, <2>1 DEF AssertVerify, PassTypeOK
  <2>3. n > pass[k].counter
    BY <1>0, <1>6 DEF AssertVerify, Larger, PassTypeOK
  <2>4. OneAtATime' /\ ReadStands'
    BY <1>6, <2>2, <2>3 DEF AssertVerify, OneAtATime, Serves, ReadStands, NoRequest
  <2>5. OpenUnconfirmed' /\ ConfirmedOnce'
    BY <1>6 DEF AssertVerify, PassInv, OpenUnconfirmed, ConfirmedOnce
  <2> QED
    BY <1>0, <2>4, <2>5 DEF PassInv
<1>7. ASSUME NEW t \in Threads, AssertSave(t)
      PROVE  PassInv'
  <2>1. \A u \in Threads : serving'[u] = NoRequest
    BY <1>7, AnsweredServesNobody DEF AssertSave
  <2>2. OpenUnconfirmed' /\ ConfirmedOnce'
    BY <1>7 DEF AssertSave, PassInv, OpenUnconfirmed, ConfirmedOnce
  <2> QED
    BY <1>0, <2>1, <2>2, ServesNobody
<1>8. ASSUME NEW k \in Passes, MakeCredential(k) \/ Sign(k)
      PROVE  PassInv'
  BY <1>0, <1>8
     DEF MakeCredential, Sign, PassInv, OneAtATime, Serves, ReadStands, OpenUnconfirmed,
         ConfirmedOnce
<1>9. ASSUME NEW k \in Passes, Revoke(k)
      PROVE  PassInv'
  <2>1. \A l \in Passes : pass'[l].counter = pass[l].counter
    BY <1>0, <1>9 DEF Revoke, PassTypeOK
  <2> QED
    BY <1>0, <1>9, <2>1
       DEF Revoke, PassInv, OneAtATime, Serves, ReadStands, OpenUnconfirmed, ConfirmedOnce
<1>10. CASE UNCHANGED passVars
  BY <1>0, <1>10
     DEF passVars, PassInv, OneAtATime, Serves, ReadStands, OpenUnconfirmed, ConfirmedOnce
<1> QED
  BY <1>1, <1>2, <1>3, <1>4, <1>5, <1>6, <1>7, <1>8, <1>9, <1>10 DEF PassNext

\* A student who waits for each answer has a challenge confirmed once at most.
THEOREM ChallengeConfirmedOnce == ~Overlap /\ PassSpec => []ConfirmedOnce
<1>1. PassInv => ConfirmedOnce
  BY DEF PassInv
<1> QED
  BY <1>1, InitPassInv, NextPassInv, PTL DEF PassSpec

\* No step takes a counter down.
LEMMA CounterAtStep ==
    PassInv /\ [PassNext]_passVars =>
        [\A k \in Passes : ~Repeatable(k) => pass'[k].counter >= pass[k].counter]_passVars
<1> SUFFICES ASSUME PassInv, PassNext, NEW k \in Passes, ~Repeatable(k)
             PROVE  pass'[k].counter >= pass[k].counter
  OBVIOUS
<1>0. PassTypeOK /\ pass[k].counter \in Nat
  BY DEF PassInv, PassTypeOK
<1>1. ASSUME NEW t \in Threads, NEW l \in Passes, RegisterVerify(t, l)
      PROVE  pass'[k].counter >= pass[k].counter
  BY <1>0, <1>1 DEF RegisterVerify, Repeatable, PassTypeOK
<1>2. ASSUME NEW t \in Threads, AssertSave(t)
      PROVE  pass'[k].counter >= pass[k].counter
  <2>1. serving[t].key \in Passes /\ serving[t].count > pass[serving[t].key].counter
    BY <1>2 DEF AssertSave, PassInv, ReadStands
  <2>2. pass'[k].counter = IF k = serving[t].key THEN serving[t].count ELSE pass[k].counter
    BY <1>0, <1>2 DEF AssertSave, PassTypeOK
  <2>3. serving[t].count \in Nat
    BY <1>0 DEF PassTypeOK
  <2> QED
    BY <1>0, <2>1, <2>2, <2>3
<1>3. ASSUME NEW l \in Passes, Revoke(l)
      PROVE  pass'[k].counter >= pass[k].counter
  BY <1>0, <1>3 DEF Revoke, PassTypeOK
<1>4. \/ pass' = pass
      \/ \E t \in Threads : AssertSave(t) \/ \E l \in Passes : RegisterVerify(t, l)
      \/ \E l \in Passes : Revoke(l)
  BY DEF PassNext, RegisterOptions, RegisterDone, PassRequestDies, AssertOptions, AssertVerify,
         MakeCredential, Sign
<1> QED
  BY <1>0, <1>1, <1>2, <1>3, <1>4

\* For a student who waits for each answer the counter of a passkey never goes down.
THEOREM CounterNeverDrops == ~Overlap /\ PassSpec => CounterStays
  BY InitPassInv, NextPassInv, CounterAtStep, PTL DEF PassSpec, CounterStays

(*****************************************************************************)
(* AuditLedger                                                             *)
(*****************************************************************************)

Pupil(e) == TryOf[e.attempt]

\* The clock has passed the entries that are there.
SignedByNow == \E t \in Nat : \A e \in entries : e.signed_at <= t

\* Entries stand for accepted attempts, and no two have a time or a student in
\* common.
OneEach ==
    /\ Recorded \subseteq accepted
    /\ \A d, e \in entries : d.signed_at = e.signed_at \/ Pupil(d) = Pupil(e) => d = e

\* What is older was there.
OlderWasThere ==
    \A d, e \in entries : d.signed_at < e.signed_at => d.attempt \in before[e.attempt]

\* Nothing was between two entries when the later one was added.
Follows(d, e) == before[e.attempt] \subseteq before[d.attempt] \union {d.attempt}

\* What the hash of an entry links to, and its chained hash, tell what was there
\* when it was added.
LinksTell ==
    /\ \A e \in entries : e.previous = <<>> => before[e.attempt] = {}
    /\ \A d, e \in entries :
        d.signed_at < e.signed_at /\ e.previous = <<d.attempt>> => Follows(d, e)

ChainsTell ==
    /\ \A e \in entries : \E c \in Seq(Pupils) : e.chained = Append(c, Pupil(e))
    /\ \A e \in entries : e.chained = Append(<<>>, Pupil(e)) => before[e.attempt] = {}
    /\ \A d, e \in entries :
        d.signed_at < e.signed_at /\ e.chained = Append(d.chained, Pupil(e)) => Follows(d, e)

\* Every entry is linked to the one before it.
Linked ==
    \A e \in entries : /\ e.previous = LinkTo(Earlier(e))
                       /\ e.chained = Append(ChainOf(Earlier(e)), Pupil(e))

LedgerInv ==
    /\ LedgerTypeOK
    /\ SignedByNow
    /\ OneEach
    /\ OlderWasThere
    /\ LinksTell
    /\ ChainsTell
    /\ ~Deleted => Linked

-----------------------------------------------------------------------------------

\* Some entries have a last one.
LEMMA LastIsLast ==
    ASSUME LedgerTypeOK, SignedByNow, NEW ledger \in SUBSET entries, ledger # {}
    PROVE  /\ LastOf(ledger) \in ledger
           /\ \A d \in ledger : d.signed_at <= LastOf(ledger).signed_at
<1>1. \A d \in ledger : d.signed_at \in Nat
  BY DEF LedgerTypeOK, LedgerEntry
<1>2. PICK t \in Nat : \A e \in entries : e.signed_at <= t
  BY DEF SignedByNow
<1> DEFINE ages == {n \in Nat : \E d \in ledger : n = t - d.signed_at}
<1>3. ages # {}
  <2>1. PICK d \in ledger : TRUE
    OBVIOUS
  <2>2. t - d.signed_at \in Nat
    BY <1>1, <1>2
  <2> QED
    BY <2>2
<1>4. PICK m \in ages : \A k \in ages : m <= k
  BY <1>3, LeastNatural
<1>5. PICK e \in ledger : m = t - e.signed_at
  BY <1>4
<1>6. \A d \in ledger : d.signed_at <= e.signed_at
  <2> SUFFICES ASSUME NEW d \in ledger
               PROVE  d.signed_at <= e.signed_at
    OBVIOUS
  <2>1. t - d.signed_at \in ages
    BY <1>1, <1>2
  <2>2. t - e.signed_at <= t - d.signed_at
    BY <1>4, <1>5, <2>1
  <2> QED
    BY <1>1, <2>2
<1> QED
  BY <1>6 DEF LastOf

\* A new entry is signed later than those that are there.
LEMMA SignedLast ==
    ASSUME LedgerTypeOK, SignedByNow
    PROVE  /\ SignTime \in Nat
           /\ \A e \in entries : e.signed_at < SignTime
<1>1. \A e \in entries : e.signed_at \in Nat
  BY DEF LedgerTypeOK, LedgerEntry
<1>2. CASE entries = {}
  BY <1>2 DEF SignTime
<1>3. CASE entries # {}
  <2>1. LastOf(entries) \in entries /\ \A d \in entries : d.signed_at <= LastOf(entries).signed_at
    BY <1>3, LastIsLast
  <2>2. SignTime = LastOf(entries).signed_at + 1
    BY <1>3 DEF SignTime
  <2> QED
    BY <1>1, <2>1, <2>2
<1> QED
  BY <1>2, <1>3

\* All that is in the ledger is the last entry and what was there before it.
LEMMA LastCoversAll ==
    ASSUME LedgerInv, NEW e \in entries, \A d \in entries : d.signed_at <= e.signed_at
    PROVE  Recorded \subseteq before[e.attempt] \union {e.attempt}
<1> SUFFICES ASSUME NEW d \in entries, d # e
             PROVE  d.attempt \in before[e.attempt]
  BY DEF Recorded
<1>1. d.signed_at \in Nat /\ e.signed_at \in Nat
  BY DEF LedgerInv, LedgerTypeOK, LedgerEntry
<1>2. d.signed_at # e.signed_at
  BY DEF LedgerInv, OneEach
<1>3. d.signed_at < e.signed_at
  BY <1>1, <1>2
<1> QED
  BY <1>3 DEF LedgerInv, OlderWasThere

-----------------------------------------------------------------------------------

\* A chained hash tells the student and the chain before.
LEMMA SameChain ==
    ASSUME NEW c \in Seq(Pupils), NEW d \in Seq(Pupils), NEW p \in Pupils, NEW q \in Pupils,
           Append(c, p) = Append(d, q)
    PROVE  c = d /\ p = q
  BY AppendInjective

\* The entry that accepting an attempt adds.
NewEntry(a) ==
    [attempt |-> a, previous |-> PreviousHash,
     chained |-> Append(ChainOf(entries), TryOf[a]), signed_at |-> SignTime]

\* A new entry is one, and tells what the ledger holds.
LEMMA NewEntryTells ==
    ASSUME LedgerInv, NEW a \in Tries
    PROVE  /\ NewEntry(a) \in LedgerEntry
           /\ ChainOf(entries) \in Seq(Pupils)
           /\ PreviousHash = <<>> => Recorded = {}
           /\ NewEntry(a).chained = Append(<<>>, TryOf[a]) => Recorded = {}
           /\ \A d \in entries :
                \/ PreviousHash = <<d.attempt>>
                \/ NewEntry(a).chained = Append(d.chained, TryOf[a])
                => Recorded \subseteq before[d.attempt] \union {d.attempt}
<1>0. LedgerTypeOK /\ SignedByNow /\ OneEach /\ ChainsTell
  BY DEF LedgerInv
<1>1. TryOf[a] \in Pupils
  BY TryAssumption
<1>2. CASE entries = {}
  <2>1. ChainOf(entries) = <<>> /\ PreviousHash = <<>> /\ Recorded = {}
    BY <1>2 DEF ChainOf, PreviousHash, LinkTo, Recorded
  <2>2. <<>> \in Seq(Pupils)
    BY EmptySeq
  <2>3. Append(<<>>, TryOf[a]) \in Seq(Pupils)
    BY <1>1, <2>2, AppendProperties
  <2> QED
    BY <1>0, <1>2, <2>1, <2>2, <2>3, SignedLast DEF NewEntry, LedgerEntry
<1>3. CASE entries # {}
  <2> DEFINE e == LastOf(entries)
  <2>1. e \in entries /\ \A d \in entries : d.signed_at <= e.signed_at
    BY <1>0, <1>3, LastIsLast
  <2> HIDE DEF e
  <2>2. e \in LedgerEntry
    BY <1>0, <2>1 DEF LedgerTypeOK
  <2>3. PreviousHash = <<e.attempt>> /\ ChainOf(entries) = e.chained
    BY <1>3 DEF PreviousHash, LinkTo, ChainOf, e
  <2>4. e.attempt \in Tries /\ e.chained \in Seq(Pupils)
    BY <2>2 DEF LedgerEntry
  <2>5. Append(e.chained, TryOf[a]) \in Seq(Pupils)
    BY <1>1, <2>4, AppendProperties
  <2>6. NewEntry(a) \in LedgerEntry
    BY <1>0, <2>3, <2>4, <2>5, SignedLast DEF NewEntry, LedgerEntry
  <2>7. PICK c \in Seq(Pupils) : e.chained = Append(c, Pupil(e))
    BY <1>0, <2>1 DEF ChainsTell
  <2>8. NewEntry(a).chained = Append(e.chained, TryOf[a])
    BY <2>3 DEF NewEntry
  <2>9. Pupil(e) \in Pupils
    BY <2>4, TryAssumption DEF Pupil
  <2>10. e.chained # <<>>
    BY <2>7, <2>9, AppendProperties, EmptySeq
  <2>11. Append(e.chained, TryOf[a]) # Append(<<>>, TryOf[a])
    BY <1>1, <2>4, <2>10, SameChain, EmptySeq
  <2>12. ASSUME NEW d \in entries,
                \/ PreviousHash = <<d.attempt>>
                \/ NewEntry(a).chained = Append(d.chained, TryOf[a])
         PROVE  d = e
    <3>1. CASE PreviousHash = <<d.attempt>>
      <4>1. d.attempt = e.attempt
        BY <2>3, <3>1
      <4> QED
        BY <1>0, <2>1, <4>1 DEF OneEach, Pupil
    <3>2. CASE NewEntry(a).chained = Append(d.chained, TryOf[a])
      <4>1. d.attempt \in Tries /\ d.chained \in Seq(Pupils)
        BY <1>0 DEF LedgerTypeOK, LedgerEntry
      <4>2. d.chained = e.chained
        <5>1. Append(e.chained, TryOf[a]) = Append(d.chained, TryOf[a])
          BY <2>8, <3>2
        <5> QED
          BY <1>1, <2>4, <4>1, <5>1, SameChain
      <4>3. PICK b \in Seq(Pupils) : d.chained = Append(b, Pupil(d))
        BY <1>0 DEF ChainsTell
      <4>4. Pupil(d) \in Pupils
        BY <4>1, TryAssumption DEF Pupil
      <4>5. Pupil(d) = Pupil(e)
        <5>1. Append(b, Pupil(d)) = Append(c, Pupil(e))
          BY <2>7, <4>2, <4>3
        <5> QED
          BY <2>9, <4>4, <5>1, SameChain
      <4> QED
        BY <1>0, <2>1, <4>5 DEF OneEach
    <3> QED
      BY <2>12, <3>1, <3>2
  <2>13. Recorded \subseteq before[e.attempt] \union {e.attempt}
    BY <2>1, LastCoversAll
  <2>14. PreviousHash # <<>>
    BY <2>3
  <2> QED
    BY <2>3, <2>4, <2>6, <2>8, <2>11, <2>12, <2>13, <2>14
<1> QED
  BY <1>2, <1>3

-----------------------------------------------------------------------------------

\* Accepting an attempt keeps the invariant.
LEMMA AcceptKeepsInv ==
    ASSUME LedgerInv, NEW a \in Tries, Accept(a)
    PROVE  LedgerInv'
<1>e. PICK e : e = NewEntry(a)
  OBVIOUS
<1>0. /\ LedgerTypeOK /\ SignedByNow /\ OneEach /\ OlderWasThere /\ LinksTell /\ ChainsTell
      /\ ~Deleted => Linked
  BY DEF LedgerInv
<1>1. /\ entries' = entries \union {e}
      /\ accepted' = accepted \union {a}
      /\ before' = [before EXCEPT ![a] = Recorded]
      /\ UNCHANGED <<account, sessionRow>>
      /\ a \notin accepted
      /\ \A b \in Recorded : TryOf[b] # TryOf[a]
  BY <1>e DEF Accept, NewEntry
<1>2. /\ e \in LedgerEntry
      /\ ChainOf(entries) \in Seq(Pupils)
      /\ PreviousHash = <<>> => Recorded = {}
      /\ e.chained = Append(<<>>, TryOf[a]) => Recorded = {}
      /\ \A d \in entries :
            \/ PreviousHash = <<d.attempt>>
            \/ e.chained = Append(d.chained, TryOf[a])
            => Recorded \subseteq before[d.attempt] \union {d.attempt}
  BY <1>e, NewEntryTells
<1>3. SignTime \in Nat /\ \A d \in entries : d.signed_at < SignTime
  BY <1>0, SignedLast
<1>4. /\ e.attempt = a /\ e.previous = PreviousHash /\ e.signed_at = SignTime
      /\ e.chained = Append(ChainOf(entries), Pupil(e))
  BY <1>e DEF NewEntry, Pupil
<1>5. \A d \in entries : d.signed_at \in Nat
  BY <1>0 DEF LedgerTypeOK, LedgerEntry
<1>6. Recorded' = Recorded \union {a}
  BY <1>1, <1>4 DEF Recorded
<1>7. \A d \in entries : before'[d.attempt] = before[d.attempt]
  BY <1>0, <1>1 DEF LedgerTypeOK, OneEach, Recorded
<1>8. before'[a] = Recorded
  BY <1>0, <1>1 DEF LedgerTypeOK
<1>9. LedgerTypeOK'
  <2>1. Recorded \subseteq Tries
    BY <1>0 DEF LedgerTypeOK, LedgerEntry, Recorded
  <2> QED
    BY <1>0, <1>1, <1>2, <2>1 DEF LedgerTypeOK
<1>10. SignedByNow'
  <2>1. \A d \in entries' : d.signed_at <= SignTime
    BY <1>1, <1>3, <1>4, <1>5
  <2> QED
    BY <1>3, <2>1 DEF SignedByNow
<1>11. OneEach'
  <2>1. \A d \in entries : d.signed_at # SignTime
    BY <1>3, <1>5
  <2>2. \A d \in entries : Pupil(d) # Pupil(e)
    BY <1>1, <1>4 DEF Pupil, Recorded
  <2> QED
    BY <1>0, <1>1, <1>4, <1>6, <2>1, <2>2 DEF OneEach, Pupil
<1>12. \A d \in entries' : ~(e.signed_at < d.signed_at)
  BY <1>1, <1>3, <1>4, <1>5
<1>13. OlderWasThere'
  BY <1>0, <1>1, <1>4, <1>7, <1>8, <1>12 DEF OlderWasThere, Recorded
<1>14. \A d, f \in entries : Follows(d, f)' <=> Follows(d, f)
  BY <1>7 DEF Follows
<1>15. \A d \in entries : Follows(d, e)' <=> Recorded \subseteq before[d.attempt] \union {d.attempt}
  BY <1>4, <1>7, <1>8 DEF Follows
<1>16. ~(e.signed_at < e.signed_at)
  BY <1>1, <1>12
<1>17. LinksTell'
  <2>1. \A d \in entries' : d.previous = <<>> => before'[d.attempt] = {}
    BY <1>0, <1>1, <1>2, <1>4, <1>7, <1>8 DEF LinksTell
  <2>2. ASSUME NEW d \in entries', NEW f \in entries',
               d.signed_at < f.signed_at, f.previous = <<d.attempt>>
        PROVE  Follows(d, f)'
    <3>1. d \in entries
      BY <1>1, <1>12, <2>2
    <3>2. CASE f \in entries
      BY <1>0, <1>14, <2>2, <3>1, <3>2 DEF LinksTell
    <3>3. CASE f = e
      BY <1>2, <1>4, <1>15, <2>2, <3>1, <3>3
    <3> QED
      BY <1>1, <3>2, <3>3
  <2> QED
    BY <2>1, <2>2 DEF LinksTell
<1>18. ChainsTell'
  <2>0. Pupil(e) = TryOf[a]
    BY <1>4 DEF Pupil
  <2>1. \A d \in entries' : \E c \in Seq(Pupils) : d.chained = Append(c, Pupil(d))
    BY <1>0, <1>1, <1>2, <1>4 DEF ChainsTell
  <2>2. \A d \in entries' : d.chained = Append(<<>>, Pupil(d)) => before'[d.attempt] = {}
    BY <1>0, <1>1, <1>2, <1>4, <1>7, <1>8, <2>0 DEF ChainsTell
  <2>3. ASSUME NEW d \in entries', NEW f \in entries',
               d.signed_at < f.signed_at, f.chained = Append(d.chained, Pupil(f))
        PROVE  Follows(d, f)'
    <3>1. d \in entries
      BY <1>1, <1>12, <2>3
    <3>2. CASE f \in entries
      BY <1>0, <1>14, <2>3, <3>1, <3>2 DEF ChainsTell
    <3>3. CASE f = e
      BY <1>2, <1>15, <2>0, <2>3, <3>1, <3>3
    <3> QED
      BY <1>1, <3>2, <3>3
  <2>4. ChainsTell'
    BY <2>1, <2>2, <2>3 DEF ChainsTell, Pupil
  <2> QED
    BY <2>4
<1>19. ASSUME ~Deleted'
       PROVE  Linked'
  <2>1. Linked
    <3>1. ~Deleted
      BY <1>0, <1>1, <1>6, <1>19 DEF Deleted, OneEach
    <3> QED
      BY <1>0, <3>1
  <2>2. \A d \in entries : Earlier(d)' = Earlier(d)
    BY <1>1, <1>12 DEF Earlier
  <2>3. Earlier(e)' = entries
    BY <1>1, <1>3, <1>4, <1>16 DEF Earlier
  <2>4. e.previous = LinkTo(entries)
    BY <1>4 DEF PreviousHash
  <2>5. ASSUME NEW d \in entries'
        PROVE  d.previous = LinkTo(Earlier(d)') /\ d.chained = Append(ChainOf(Earlier(d)'), Pupil(d))
    <3>1. CASE d \in entries
      BY <2>1, <2>2, <3>1 DEF Linked
    <3>2. CASE d = e
      <4>1. Earlier(d)' = entries
        BY <2>3, <3>2
      <4> QED
        BY <1>4, <2>4, <3>2, <4>1
    <3> QED
      BY <1>1, <3>1, <3>2
  <2> QED
    BY <2>5 DEF Linked, LinkTo, ChainOf, LastOf, Pupil
<1> QED
  BY <1>9, <1>10, <1>11, <1>13, <1>17, <1>18, <1>19 DEF LedgerInv

\* Deleting entries keeps the invariant, provided Deleted shows it.
LEMMA DeletionKeepsInv ==
    ASSUME LedgerInv, entries' \subseteq entries, before' = before,
           account' \in [Pupils -> {"none", "exists", "deleted"}], sessionRow' \in BOOLEAN,
           accepted' \subseteq accepted, Recorded' \subseteq accepted',
           ~Deleted' => ~Deleted /\ entries' = entries
    PROVE  LedgerInv'
<1>0. /\ LedgerTypeOK /\ SignedByNow /\ OneEach /\ OlderWasThere /\ LinksTell /\ ChainsTell
      /\ ~Deleted => Linked
  BY DEF LedgerInv
<1>1. LedgerTypeOK'
  BY <1>0 DEF LedgerTypeOK
<1>2. SignedByNow'
  BY <1>0 DEF SignedByNow
<1>3. OneEach'
  BY <1>0 DEF OneEach, Pupil
<1>4. OlderWasThere'
  BY <1>0 DEF OlderWasThere
<1>5. LinksTell'
  BY <1>0 DEF LinksTell, Follows
<1>6. ChainsTell'
  BY <1>0 DEF ChainsTell, Follows, Pupil
<1>7. ~Deleted' => Linked'
  BY <1>0 DEF Linked, Pupil, LinkTo, ChainOf, LastOf, Earlier
<1> QED
  BY <1>1, <1>2, <1>3, <1>4, <1>5, <1>6, <1>7 DEF LedgerInv

\* Every step keeps what links and chains tell.
LEMMA NextLedgerInv == LedgerInv /\ [LedgerNext]_ledgerVars => LedgerInv'
<1> SUFFICES ASSUME LedgerInv, [LedgerNext]_ledgerVars
             PROVE  LedgerInv'
  OBVIOUS
<1>0. LedgerTypeOK /\ OneEach
  BY DEF LedgerInv
<1>1. ASSUME NEW S \in SUBSET Pupils, CreateStudents(S)
      PROVE  LedgerInv'
  <2>1. account' \in [Pupils -> {"none", "exists", "deleted"}]
    BY <1>0, <1>1 DEF LedgerTypeOK, CreateStudents
  <2>2. Recorded' = Recorded
    BY <1>1 DEF CreateStudents, Recorded
  <2>3. \A s \in Pupils : account[s] = "deleted" => account'[s] = "deleted"
    BY <1>0, <1>1 DEF LedgerTypeOK, CreateStudents
  <2>4. ~Deleted' => ~Deleted
    BY <1>1, <2>2, <2>3 DEF CreateStudents, Deleted
  <2> QED
    BY <1>0, <1>1, <2>1, <2>2, <2>4, DeletionKeepsInv DEF CreateStudents, LedgerTypeOK, OneEach
<1>2. ASSUME NEW a \in Tries, Accept(a)
      PROVE  LedgerInv'
  BY <1>2, AcceptKeepsInv
<1>3. ASSUME NEW S \in SUBSET Pupils, DeleteUsers(S)
      PROVE  LedgerInv'
  <2>1. account' \in [Pupils -> {"none", "exists", "deleted"}]
    BY <1>0, <1>3 DEF LedgerTypeOK, DeleteUsers
  <2>2. Deleted'
    BY <1>0, <1>3 DEF DeleteUsers, Deleted
  <2>3. entries' \subseteq entries
    BY <1>3 DEF DeleteUsers, Without
  <2>4. Recorded' \subseteq accepted' /\ accepted' \subseteq accepted
    BY <1>0, <1>3 DEF DeleteUsers, Without, Recorded, OneEach
  <2> QED
    BY <1>0, <1>3, <2>1, <2>2, <2>3, <2>4, DeletionKeepsInv DEF DeleteUsers, LedgerTypeOK
<1>4. ASSUME NEW a \in Tries, DeleteRecord(a)
      PROVE  LedgerInv'
  <2>1. entries' \subseteq entries
    BY <1>4 DEF DeleteRecord, Without
  <2>2. a \notin Recorded' /\ Recorded' \subseteq Recorded
    BY <1>4 DEF DeleteRecord, Without, Recorded
  <2>3. Deleted'
    BY <1>0, <1>4, <2>2 DEF DeleteRecord, Deleted, OneEach
  <2> QED
    BY <1>0, <1>4, <2>1, <2>2, <2>3, DeletionKeepsInv DEF DeleteRecord, LedgerTypeOK, OneEach
<1>5. CASE DeleteSession
  <2>1. Deleted' /\ Recorded' = {}
    BY <1>5 DEF DeleteSession, Deleted, Recorded
  <2> QED
    BY <1>0, <1>5, <2>1, DeletionKeepsInv DEF DeleteSession, LedgerTypeOK
<1>6. CASE UNCHANGED ledgerVars
  <2>1. Recorded' = Recorded /\ (Deleted' <=> Deleted)
    BY <1>6 DEF ledgerVars, Recorded, Deleted
  <2> QED
    BY <1>0, <1>6, <2>1, DeletionKeepsInv DEF ledgerVars, LedgerTypeOK, OneEach
<1> QED
  BY <1>1, <1>2, <1>3, <1>4, <1>5, <1>6 DEF LedgerNext

\* What an entry is linked to, and what it was chained to, tells what was there when
\* it was added, through every deletion.
THEOREM LedgerInvariance == LedgerSpec => []LedgerInv
<1>1. LedgerInit => LedgerInv
  BY DEF LedgerInit, LedgerInv, LedgerTypeOK, SignedByNow, OneEach, OlderWasThere, LinksTell,
         ChainsTell, Linked, Recorded
<1> QED
  BY <1>1, NextLedgerInv, PTL DEF LedgerSpec

-----------------------------------------------------------------------------------

\* As long as nothing was deleted, a ledger passes both checks: no entry is linked to
\* another than the last, and the attempt found for a student is the recorded one.
THEOREM UntouchedLedgerVerifies == LedgerSpec => []UntouchedVerifies
<1>1. LedgerInv => UntouchedVerifies
  <2> SUFFICES ASSUME LedgerInv, ~Deleted
               PROVE  V2Valid /\ LegacyValid
    BY DEF UntouchedVerifies
  <2>1. LedgerTypeOK /\ OneEach /\ Linked
    BY DEF LedgerInv
  <2>2. LegacyValid
    BY <2>1 DEF LegacyValid, Linked, Pupil
  <2>3. ASSUME NEW e \in entries
        PROVE  Matching(e) = {e.attempt}
    <3> DEFINE same == {a \in accepted : TryOf[a] = TryOf[e.attempt]}
    <3>1. accepted = Recorded
      BY <2>1 DEF Deleted, OneEach
    <3>2. same = {e.attempt}
      BY <2>1, <3>1 DEF OneEach, Pupil, Recorded
    <3>3. e.attempt \in Nat
      BY <2>1, TryAssumption DEF LedgerTypeOK, LedgerEntry
    <3>4. Min({e.attempt}) = e.attempt
      BY <3>3 DEF Min
    <3> QED
      BY <3>2, <3>4 DEF Matching
  <2>4. V2Valid
    BY <2>1, <2>3 DEF V2Valid, EntryValid, Linked
  <2> QED
    BY <2>2, <2>4
<1> QED
  BY <1>1, LedgerInvariance, PTL

\* Whatever was deleted, a ledger that passes a check of its links lacks nothing that
\* was there when one of its entries was added.
THEOREM InnerDeletionShows == LedgerSpec => []InnerDeletionDetected
<1>1. LedgerInv => InnerDeletionDetected
  <2> SUFFICES ASSUME LedgerInv, V2Valid \/ LegacyValid,
                      \E e \in entries : ~(before[e.attempt] \subseteq Recorded)
               PROVE  FALSE
    BY DEF InnerDeletionDetected, Recorded
  <2>0. LedgerTypeOK /\ SignedByNow /\ LinksTell /\ ChainsTell
    BY DEF LedgerInv
  <2> DEFINE lacking == {e \in entries : ~(before[e.attempt] \subseteq Recorded)}
             times == {e.signed_at : e \in lacking}
  <2>1. times \in SUBSET Nat /\ times # {}
    BY <2>0 DEF LedgerTypeOK, LedgerEntry
  <2>2. PICK m \in times : \A k \in times : m <= k
    BY <2>1, LeastNatural
  <2>3. PICK e \in lacking : e.signed_at = m
    BY <2>2
  <2>4. \/ e.previous = LinkTo(Earlier(e))
        \/ e.chained = Append(ChainOf(Earlier(e)), Pupil(e))
    BY DEF V2Valid, EntryValid, LegacyValid, Pupil
  <2>5. CASE Earlier(e) = {}
    BY <2>0, <2>4, <2>5 DEF LinkTo, ChainOf, LinksTell, ChainsTell
  <2>6. CASE Earlier(e) # {}
    <3> DEFINE d == LastOf(Earlier(e))
    <3>1. d \in Earlier(e)
      BY <2>0, <2>6, LastIsLast DEF Earlier
    <3>2. LinkTo(Earlier(e)) = <<d.attempt>> /\ ChainOf(Earlier(e)) = d.chained
      BY <2>6 DEF LinkTo, ChainOf
    <3> HIDE DEF d
    <3>3. d \in entries /\ d.signed_at < e.signed_at
      BY <3>1 DEF Earlier
    <3>4. Follows(d, e)
      BY <2>0, <2>4, <3>2, <3>3 DEF LinksTell, ChainsTell
    <3>5. d \notin lacking
      <4>1. d \in lacking => m <= d.signed_at
        BY <2>2
      <4>2. d.signed_at \in Nat /\ m \in Nat
        BY <2>0, <2>1, <3>3 DEF LedgerTypeOK, LedgerEntry
      <4> QED
        BY <2>3, <3>3, <4>1, <4>2
    <3>6. before[d.attempt] \union {d.attempt} \subseteq Recorded
      BY <3>3, <3>5 DEF Recorded
    <3> QED
      BY <3>4, <3>6 DEF Follows
  <2> QED
    BY <2>5, <2>6
<1> QED
  BY <1>1, LedgerInvariance, PTL

======================================================================================
