------------------------------ MODULE SessionService ------------------------------
(***************************************************************************)
(* Sessions and the agents that serve them: create_attendance_session      *)
(* (core/session_service.py), the agent_* views and the discovery of an    *)
(* agent in core/agent_verification.py, statement by statement.            *)
(***************************************************************************)
EXTENDS Integers, Workers, SequencesExt

CONSTANTS
    Professors,
    Agents,         \* agent_id of a laptop
    Rooms,          \* session ids; each is created at most once
    RoomOf,         \* the professor who will create the session
    NoProfessor,
    NoAgent,        \* agent_id = ""
    NoRoom

ASSUME RoomAssumption ==
    /\ RoomOf \in [Rooms -> Professors]
    /\ NoProfessor \notin Professors
    /\ NoAgent \notin Agents
    /\ NoRoom \notin Rooms

VARIABLES
    registered,     \* rows of AttendanceAgent, in the order of registered_at
    owner,          \* AttendanceAgent.professor
    room,           \* rows of AttendanceSession
    job             \* per thread: the request, its session and the agent it has read

sessionVars == <<registered, owner, room, job>>

MaybeAgent == Agents \union {NoAgent}

JobPoints == {"idle", "own", "free", "any", "bind", "insert", "beat", "discover"}

NoJob == [pc |-> "idle", room |-> NoRoom, agent |-> NoAgent]

RoomStates == {"none", "active", "closed"}

SessionTypeOK ==
    /\ registered \in Seq(Agents)
    /\ owner \in [Agents -> Professors \union {NoProfessor}]
    /\ room \in [Rooms -> [state : RoomStates, agent : MaybeAgent]]
    /\ job \in [Threads -> [pc : JobPoints, room : Rooms \union {NoRoom}, agent : MaybeAgent]]

SessionInit ==
    /\ registered = <<>>
    /\ owner = [a \in Agents |-> NoProfessor]
    /\ room = [x \in Rooms |-> [state |-> "none", agent |-> NoAgent]]
    /\ job = [t \in Threads |-> NoJob]

Rows == ToSet(registered)

Owns(prof, a) == a \in Rows /\ owner[a] = prof

Creating(t, prof) == job[t].pc \notin {"idle", "beat", "discover"} /\ RoomOf[job[t].room] = prof

At(t, point) == job[t].pc = point

GoOn(t, point, a) == job' = [job EXCEPT ![t].pc = point, ![t].agent = a]

EndJob(t) == job' = [job EXCEPT ![t] = NoJob]

------------------------------------------------------------------------------------

\* Mutant: the sessions that are open stay open.
CloseNone(t, x) ==
    /\ At(t, "idle")
    /\ room[x].state = "none"
    /\ \A u \in Threads : job[u].room # x
    /\ Overlap \/ \A u \in Threads : ~Creating(u, RoomOf[x])
    /\ job' = [job EXCEPT ![t] = [pc |-> "own", room |-> x, agent |-> NoAgent]]
    /\ UNCHANGED <<registered, owner, room>>

\* start_session: the sessions of the professor that are open are closed.  A
\* professor who waits for the answer creates one session at a time.
CloseOthers(t, x) ==
    /\ At(t, "idle")
    /\ room[x].state = "none"
    /\ \A u \in Threads : job[u].room # x
    /\ Overlap \/ \A u \in Threads : ~Creating(u, RoomOf[x])
    /\ room' = [y \in Rooms |->
                    IF RoomOf[y] = RoomOf[x] /\ room[y].state = "active"
                    THEN [room[y] EXCEPT !.state = "closed"]
                    ELSE room[y]]
    /\ job' = [job EXCEPT ![t] = [pc |-> "own", room |-> x, agent |-> NoAgent]]
    /\ UNCHANGED <<registered, owner>>

\* professor.attendance_agent
OwnAgent(t) ==
    /\ At(t, "own")
    /\ LET own == {a \in Agents : Owns(RoomOf[job[t].room], a)}
       IN  \/ own = {} /\ GoOn(t, "free", NoAgent)
           \/ \E a \in own : GoOn(t, "insert", a)
    /\ UNCHANGED <<registered, owner, room>>

\* The agent registered last among those that belong to no professor.
FreeAgent(t) ==
    /\ At(t, "free")
    /\ LET free == {i \in DOMAIN registered : owner[registered[i]] = NoProfessor}
       IN  \/ \E i \in free : (\A j \in free : j <= i) /\ GoOn(t, "bind", registered[i])
           \/ free = {} /\ GoOn(t, "any", NoAgent)
    /\ UNCHANGED <<registered, owner, room>>

\* There was none: the agent registered last, with a professor or by now without.
AnyAgent(t) ==
    /\ At(t, "any")
    /\ \/ registered = <<>> /\ GoOn(t, "insert", NoAgent)
       \/ /\ registered # <<>>
          /\ LET a == Last(registered)
             IN  GoOn(t, IF owner[a] = NoProfessor THEN "bind" ELSE "insert", a)
    /\ UNCHANGED <<registered, owner, room>>

\* The agent read before is given to the professor, whoever has it by now.
BindAgent(t) ==
    LET prof == RoomOf[job[t].room]
        a == job[t].agent
    IN  /\ At(t, "bind")
        /\ \A b \in Agents \ {a} : ~Owns(prof, b)
        /\ owner' = [owner EXCEPT ![a] = prof]
        /\ GoOn(t, "insert", a)
        /\ UNCHANGED <<registered, room>>

\* The column professor is unique: the request ends in an IntegrityError (which the
\* discovery catches).  Or its worker dies, or the discovery finds no agent.
JobFails(t) ==
    /\ ~At(t, "idle")
    /\ EndJob(t)
    /\ UNCHANGED <<registered, owner, room>>

InsertSession(t) ==
    /\ At(t, "insert")
    /\ room' = [room EXCEPT ![job[t].room] = [state |-> "active", agent |-> job[t].agent]]
    /\ EndJob(t)
    /\ UNCHANGED <<registered, owner>>

\* agent_register_view: update_or_create leaves the professor of a row as it is.
RegisterAgent(a) ==
    /\ a \notin Rows
    /\ registered' = Append(registered, a)
    /\ UNCHANGED <<owner, room, job>>

\* agent_heartbeat_view: an active session without an agent.
HeartbeatRead(t, a, x) ==
    /\ At(t, "idle")
    /\ room[x] = [state |-> "active", agent |-> NoAgent]
    /\ job' = [job EXCEPT ![t] = [pc |-> "beat", room |-> x, agent |-> a]]
    /\ UNCHANGED <<registered, owner, room>>

\* Mutant: save() without update_fields writes the row as it was read.
HeartbeatSaveRow(t) ==
    /\ At(t, "beat")
    /\ room' = [room EXCEPT ![job[t].room] = [state |-> "active", agent |-> job[t].agent]]
    /\ EndJob(t)
    /\ UNCHANGED <<registered, owner>>

HeartbeatSave(t) ==
    /\ At(t, "beat")
    /\ room' = [room EXCEPT ![job[t].room].agent = job[t].agent]
    /\ EndJob(t)
    /\ UNCHANGED <<registered, owner>>

\* agent_stop_session_view
StopSession(x) ==
    /\ room[x].state = "active"
    /\ room' = [room EXCEPT ![x].state = "closed"]
    /\ UNCHANGED <<registered, owner, job>>

\* A challenge of a session, and no agent has a row: the agent at ATTENDANCE_AGENT_URL
\* is asked, and gets a row and the professor, whoever has registered meanwhile.
DiscoverAgent(t, x) ==
    /\ At(t, "idle")
    /\ room[x].state = "active"
    /\ registered = <<>>
    /\ job' = [job EXCEPT ![t] = [pc |-> "discover", room |-> x, agent |-> NoAgent]]
    /\ UNCHANGED <<registered, owner, room>>

DiscoverSave(t, a) ==
    LET prof == RoomOf[job[t].room]
    IN  /\ At(t, "discover")
        /\ \A b \in Agents \ {a} : ~Owns(prof, b)
        /\ registered' = IF a \in Rows THEN registered ELSE Append(registered, a)
        /\ owner' = [owner EXCEPT ![a] = prof]
        /\ EndJob(t)
        /\ UNCHANGED room

SessionNext ==
    \/ \E t \in Threads, x \in Rooms : CloseOthers(t, x)
    \/ \E t \in Threads :
        \/ OwnAgent(t) \/ FreeAgent(t) \/ AnyAgent(t) \/ BindAgent(t)
        \/ InsertSession(t) \/ JobFails(t) \/ HeartbeatSave(t)
    \/ \E t \in Threads, a \in Agents, x \in Rooms : HeartbeatRead(t, a, x)
    \/ \E a \in Agents : RegisterAgent(a)
    \/ \E x \in Rooms : StopSession(x)
    \/ \E t \in Threads, x \in Rooms : DiscoverAgent(t, x)
    \/ \E t \in Threads, a \in Agents : DiscoverSave(t, a)

SessionSpec == SessionInit /\ [][SessionNext]_sessionVars

------------------------------------------------------------------------------------

\* A professor who waits for each answer never has two open sessions; one who sends two
\* requests at once can.  About the UPDATE before the INSERT, requests that fail in
\* between, and heartbeats that save a session closed since they read it.
OneActiveSession ==
    \A x, y \in Rooms :
        room[x].state = "active" /\ room[y].state = "active" /\ RoomOf[x] = RoomOf[y] => x = y

\* A session that was closed is never open again.  About rows read before the close.
ClosedStaysClosed ==
    [][\A x \in Rooms : room[x].state = "closed" => room'[x].state = "closed"]_sessionVars

====================================================================================
