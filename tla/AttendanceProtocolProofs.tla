------------------------- MODULE AttendanceProtocolProofs -------------------------
(***************************************************************************)
(* Proofs about AttendanceProtocol, for any number of students, sessions,  *)
(* attempts and requests, any expiry times and an unbounded clock or a     *)
(* bounded one.                                                            *)
(*                                                                         *)
(* None of the safety properties is inductive alone: each depends on what  *)
(* a request remembers between two of its statements.  Inv adds that.      *)
(***************************************************************************)
EXTENDS AttendanceProtocol, TLAPS

\* At most one transaction holds an attempt row, and one a session row.
LocksExclusive ==
    \A q, r \in Requests :
        q # r =>
            /\ (req[q].pc \in HoldsAttempt /\ req[r].pc \in HoldsAttempt)
                  => req[q].att # req[r].att
            /\ (req[q].pc \in HoldsSession /\ req[r].pc \in HoldsSession)
                  => SessionOf[req[q].att] # SessionOf[req[r].att]

\* A request past a check of the verdict works on an attempt that has it.
VerdictKnown ==
    \A r \in Requests :
        /\ req[r].pc = "live_save" => liveness[req[r].att] # "NONE"
        /\ req[r].pc \in HoldsAttempt \union {"chal_beat", "chal_save"}
              => liveness[req[r].att] = "PASSED"

\* What submit found under the session lock is still so.
CheckStands ==
    \A r \in Requests :
        /\ req[r].pc \in HoldsSession =>
              /\ session[SessionOf[req[r].att]].active
              /\ ~HasRecord(StudentOf[req[r].att], SessionOf[req[r].att])
        /\ req[r].pc = "sub_commit" => req[r].tail = LastReport(SessionOf[req[r].att])

Inv ==
    /\ TypeOK
    /\ LocksExclusive
    /\ VerdictKnown
    /\ StrictSequence
    /\ CheckStands
    /\ ChainLinear

-----------------------------------------------------------------------------------
(* Types.  The request table is written in three ways, by Goto, Return and Enter; *)
(* each keeps its type.                                                           *)

RequestsOK ==
    /\ req \in [Requests -> Request]
    /\ \A r \in Requests : req[r].pc # "idle" => req[r].att \in Attempts

LEMMA IdleType == IdleRequest \in Request
  BY DEF IdleRequest, Request, Link, Point

\* Going on, returning and entering a handler keep the types of the requests.
LEMMA GotoType ==
  ASSUME RequestsOK, NEW r \in Requests, ~At(r, "idle"), NEW p \in Point, Goto(r, p)
  PROVE  RequestsOK'
  BY DEF RequestsOK, Request, Goto, At

LEMMA ReturnType ==
  ASSUME RequestsOK, NEW r \in Requests, Return(r)
  PROVE  RequestsOK'
  BY IdleType DEF RequestsOK, Return, IdleRequest

LEMMA EnterType ==
  ASSUME RequestsOK, NEW r \in Requests, NEW a \in Attempts, NEW p \in Point, Enter(r, a, p)
  PROVE  RequestsOK'
<1>1. [pc |-> p, att |-> a, tail |-> Genesis] \in Request
  BY DEF Request, Link
<1> QED
  BY <1>1 DEF RequestsOK, Enter

\* A new status keeps the type of the rows and changes one row.
LEMMA SetStatusType ==
  ASSUME attempt \in [Attempts -> AttemptRow], NEW a \in Attempts, NEW st \in Status,
         SetStatus(a, st)
  PROVE  attempt' \in [Attempts -> AttemptRow]
  BY DEF SetStatus, AttemptRow

LEMMA SetStatusEffect ==
  ASSUME attempt \in [Attempts -> AttemptRow], NEW a \in Attempts, NEW st, SetStatus(a, st)
  PROVE  /\ attempt'[a].status = st
         /\ \A b \in Attempts : b # a => attempt'[b] = attempt[b]
  BY DEF SetStatus, AttemptRow

\* The entries of a ledger are entries, about attempts.
LEMMA EntryType ==
  ASSUME TypeOK, NEW s \in Sessions, NEW i \in DOMAIN ledger[s]
  PROVE  ledger[s][i] \in Entry /\ ledger[s][i].report.att \in Attempts
<1>1. ledger[s] \in Seq(Entry)
  BY DEF TypeOK
<1>2. ledger[s][i] \in Entry
  BY <1>1
<1> QED
  BY <1>2 DEF Entry, Report

LEMMA InitType == Init => TypeOK
  BY ProtocolAssumption, IdleType DEF Init, TypeOK, AttemptRow, Status, IdleRequest

\* The end of a ledger is a link.
LEMMA LastReportType ==
  ASSUME TypeOK, NEW s \in Sessions
  PROVE  LastReport(s) \in Link
<1>1. CASE ledger[s] = <<>>
  BY <1>1 DEF LastReport, Link
<1>2. CASE ledger[s] # <<>>
  <2>1. ledger[s] \in Seq(Entry) /\ Len(ledger[s]) \in DOMAIN ledger[s]
    BY <1>2 DEF TypeOK
  <2>2. ledger[s][Len(ledger[s])] \in Entry
    BY <2>1
  <2> QED
    BY <1>2, <2>2 DEF LastReport, Link, Entry
<1> QED
  BY <1>1, <1>2

LEMMA NextType == TypeOK /\ [Next]_vars => TypeOK'
<1> SUFFICES ASSUME TypeOK, [Next]_vars
             PROVE  TypeOK'
  OBVIOUS
<1>0. RequestsOK
  BY DEF TypeOK, RequestsOK
<1>a. {"start_create", "chal_beat", "chal_save", "live_save", "live_verify", "beat", "expire",
       "start_enrol", "sub_session", "sub_verify", "sub_commit"} \subseteq Point
  BY DEF Point, HoldsAttempt, HoldsSession
<1>b. {"LIVENESS_PENDING", "BIOMETRIC_VERIFIED", "CHALLENGE_ISSUED", "ACCEPTED", "REJECTED",
       "EXPIRED"} \subseteq Status
  BY DEF Status
<1>c. \A r \in Requests : ~At(r, "idle") => req[r].att \in Attempts
  BY DEF TypeOK, At
<1> USE <1>0, <1>a, <1>b, <1>c
<1>1. ASSUME NEW r \in Requests, Step(r)
      PROVE  TypeOK'
  <2>1. ~At(r, "idle") /\ req[r].att \in Attempts
    BY <1>1 DEF Step, StartEnrol, StartCreate, RecordBeat, MarkExpired, LivenessDecide,
      LivenessSave, ChallengeGate, ChallengeSave, SubmitLockSession, SubmitVerify,
      SubmitCommit, At
  <2> DEFINE a == req[r].att
  <2>2. CASE StartEnrol(r)
    <3>1. RequestsOK'
      BY <2>1, <2>2, GotoType, ReturnType DEF StartEnrol
    <3> QED
      BY <2>2, <3>1 DEF StartEnrol, TypeOK, RequestsOK
  <2>3. CASE StartCreate(r)
    <3>1. RequestsOK'
      BY <2>1, <2>3, GotoType DEF StartCreate
    <3>2. attempt' \in [Attempts -> AttemptRow]
      <4>1. now + AttemptTTL \in Nat
        BY ProtocolAssumption DEF TypeOK
      <4>2. attempt' = [attempt EXCEPT ![a] = [attempt[a] EXCEPT
                          !.status = "LIVENESS_PENDING", !.expires = now + AttemptTTL]]
        BY <2>1, <2>3 DEF StartCreate, TypeOK
      <4>3. [attempt[a] EXCEPT !.status = "LIVENESS_PENDING", !.expires = now + AttemptTTL]
              \in AttemptRow
        BY <2>1, <4>1 DEF TypeOK, AttemptRow
      <4> QED
        BY <4>2, <4>3 DEF TypeOK
    <3> QED
      BY <2>3, <3>1, <3>2 DEF StartCreate, TypeOK, RequestsOK
  <2>4. CASE RecordBeat(r)
    <3>1. RequestsOK'
      BY <2>1, <2>4, ReturnType DEF RecordBeat
    <3> QED
      BY <2>1, <2>4, <3>1 DEF RecordBeat, TypeOK, RequestsOK
  <2>5. CASE MarkExpired(r)
    <3>1. RequestsOK'
      BY <2>1, <2>5, ReturnType DEF MarkExpired
    <3>2. attempt' \in [Attempts -> AttemptRow]
      BY <2>1, <2>5, SetStatusType DEF MarkExpired, TypeOK
    <3> QED
      BY <2>5, <3>1, <3>2 DEF MarkExpired, TypeOK, RequestsOK
  <2>6. CASE LivenessDecide(r)
    <3>1. RequestsOK'
      BY <2>1, <2>6, ReturnType, GotoType DEF LivenessDecide
    <3> QED
      BY <2>1, <2>6, <3>1 DEF LivenessDecide, TypeOK, RequestsOK
  <2>7. CASE LivenessSave(r)
    <3>1. RequestsOK'
      BY <2>1, <2>7, ReturnType, GotoType DEF LivenessSave
    <3>2. attempt' \in [Attempts -> AttemptRow]
      BY <2>1, <2>7, SetStatusType DEF LivenessSave, TypeOK
    <3> QED
      BY <2>7, <3>1, <3>2 DEF LivenessSave, TypeOK, RequestsOK
  <2>8. CASE ChallengeGate(r)
    <3>1. RequestsOK'
      BY <2>1, <2>8, ReturnType, GotoType DEF ChallengeGate
    <3> QED
      BY <2>8, <3>1 DEF ChallengeGate, TypeOK, RequestsOK
  <2>9. CASE ChallengeSave(r)
    <3>1. RequestsOK'
      BY <2>1, <2>9, ReturnType DEF ChallengeSave
    <3>2. attempt' \in [Attempts -> AttemptRow]
      <4>1. now + ChallengeTTL \in Nat /\ attempt[a].chal + 1 \in Nat
        BY <2>1, ProtocolAssumption DEF TypeOK, AttemptRow
      <4>2. attempt' = [attempt EXCEPT ![a] = [attempt[a] EXCEPT
                          !.status = "CHALLENGE_ISSUED", !.chal = @ + 1,
                          !.chalExpires = now + ChallengeTTL]]
        BY <2>1, <2>9 DEF ChallengeSave, TypeOK
      <4>3. [attempt[a] EXCEPT !.status = "CHALLENGE_ISSUED", !.chal = @ + 1,
                               !.chalExpires = now + ChallengeTTL] \in AttemptRow
        BY <2>1, <4>1 DEF TypeOK, AttemptRow
      <4> QED
        BY <4>2, <4>3 DEF TypeOK
    <3> QED
      BY <2>9, <3>1, <3>2 DEF ChallengeSave, TypeOK, RequestsOK
  <2>10. CASE SubmitLockSession(r)
    <3>1. RequestsOK'
      BY <2>1, <2>10, ReturnType, GotoType DEF SubmitLockSession, Refuse
    <3>2. attempt' \in [Attempts -> AttemptRow]
      BY <2>1, <2>10, SetStatusType DEF SubmitLockSession, Refuse, TypeOK
    <3> QED
      BY <2>10, <3>1, <3>2 DEF SubmitLockSession, TypeOK, RequestsOK
  <2>11. CASE SubmitVerify(r)
    <3>1. RequestsOK'
      <4>1. CASE Refuse(r, "REJECTED")
        BY <4>1, ReturnType DEF Refuse
      <4>2. CASE req' = [req EXCEPT ![r].pc = "sub_commit",
                                    ![r].tail = LastReport(SessionOf[a])]
        <5>1. LastReport(SessionOf[a]) \in Link
          BY <2>1, LastReportType, ProtocolAssumption
        <5> QED
          BY <2>1, <4>2, <5>1 DEF RequestsOK, Request
      <4> QED
        BY <2>11, <4>1, <4>2 DEF SubmitVerify
    <3>2. attempt' \in [Attempts -> AttemptRow]
      BY <2>1, <2>11, SetStatusType DEF SubmitVerify, Refuse, TypeOK
    <3> QED
      BY <2>11, <3>1, <3>2 DEF SubmitVerify, TypeOK, RequestsOK
  <2>12. CASE SubmitCommit(r)
    <3>1. RequestsOK'
      BY <2>1, <2>12, ReturnType DEF SubmitCommit
    <3>2. attempt' \in [Attempts -> AttemptRow]
      BY <2>1, <2>12, SetStatusType DEF SubmitCommit, TypeOK
    <3>3. ledger' \in [Sessions -> Seq(Entry)]
      <4> DEFINE entry == [student |-> StudentOf[a],
                           report |-> [att |-> a, chal |-> attempt[a].chal],
                           prev |-> req[r].tail]
      <4>1. entry \in Entry
        BY <2>1, ProtocolAssumption DEF TypeOK, Entry, Report, Request, AttemptRow
      <4>2. ledger' = ledger \/ ledger' = [ledger EXCEPT ![SessionOf[a]] = Append(@, entry)]
        BY <2>12 DEF SubmitCommit
      <4>3. SessionOf[a] \in Sessions
        BY <2>1, ProtocolAssumption
      <4> HIDE DEF entry, a
      <4>4. Append(ledger[SessionOf[a]], entry) \in Seq(Entry)
        BY <4>1, <4>3 DEF TypeOK
      <4> QED
        BY <4>2, <4>3, <4>4 DEF TypeOK
    <3> QED
      BY <2>12, <3>1, <3>2, <3>3 DEF SubmitCommit, TypeOK, RequestsOK
  <2> QED
    BY <1>1, <2>2, <2>3, <2>4, <2>5, <2>6, <2>7, <2>8, <2>9, <2>10, <2>11, <2>12 DEF Step
<1>2. ASSUME NEW r \in Requests, RequestDies(r)
      PROVE  TypeOK'
  BY <1>2, ReturnType DEF RequestDies, TypeOK, RequestsOK
<1>3. ASSUME NEW r \in Requests, NEW a \in Attempts, Arrive(r, a)
      PROVE  TypeOK'
  <2>1. RequestsOK'
    BY <1>3, EnterType DEF Arrive, StartSession, LivenessRead, ChallengeRead,
                           SubmitLockAttempt, RequestsOK
  <2>2. attempt' \in [Attempts -> AttemptRow]
    BY <1>3, SetStatusType DEF Arrive, StartSession, LivenessRead, ChallengeRead,
                               SubmitLockAttempt, TypeOK
  <2> QED
    BY <1>3, <2>1, <2>2 DEF Arrive, StartSession, LivenessRead, ChallengeRead,
                            SubmitLockAttempt, TypeOK, RequestsOK
<1>4. ASSUME NEW a \in Attempts, Heartbeat(a)
      PROVE  TypeOK'
  BY <1>4 DEF Heartbeat, TypeOK
<1>5. ASSUME NEW s \in Sessions, CloseSession(s)
      PROVE  TypeOK'
  BY <1>5 DEF CloseSession, TypeOK
<1>6. ASSUME Tick
      PROVE  TypeOK'
  BY <1>6 DEF Tick, TypeOK
<1>7. ASSUME UNCHANGED vars
      PROVE  TypeOK'
  BY <1>7 DEF vars, TypeOK
<1> QED
  BY <1>1, <1>2, <1>3, <1>4, <1>5, <1>6, <1>7 DEF Next

\* Every variable keeps its type.
THEOREM TypeCorrect == Spec => []TypeOK
  BY InitType, NextType, PTL DEF Spec

-----------------------------------------------------------------------------------
(* How requests move.                                                             *)

\* Going on, returning and entering a handler change one request.
LEMMA GotoEffect ==
  ASSUME RequestsOK, NEW r \in Requests, NEW p, Goto(r, p)
  PROVE  /\ req'[r].pc = p /\ req'[r].att = req[r].att /\ req'[r].tail = req[r].tail
         /\ \A q \in Requests : q # r => req'[q] = req[q]
  BY DEF RequestsOK, Request, Goto

LEMMA ReturnEffect ==
  ASSUME RequestsOK, NEW r \in Requests, Return(r)
  PROVE  /\ req'[r].pc = "idle"
         /\ \A q \in Requests : q # r => req'[q] = req[q]
  BY DEF RequestsOK, Return, IdleRequest

LEMMA EnterEffect ==
  ASSUME RequestsOK, NEW r \in Requests, NEW a, NEW p, Enter(r, a, p)
  PROVE  /\ req'[r].pc = p /\ req'[r].att = a
         /\ \A q \in Requests : q # r => req'[q] = req[q]
  BY DEF RequestsOK, Enter

\* What SubmitVerify leaves in the request when it goes on.
LEMMA VerifyEffect ==
  ASSUME RequestsOK, NEW r \in Requests, NEW t,
         req' = [req EXCEPT ![r].pc = "sub_commit", ![r].tail = t]
  PROVE  /\ req'[r].pc = "sub_commit" /\ req'[r].att = req[r].att /\ req'[r].tail = t
         /\ \A q \in Requests : q # r => req'[q] = req[q]
  BY DEF RequestsOK, Request

\* A running handler keeps its attempt, never takes an attempt lock, and takes a
\* session lock only when it is free.
LEMMA StepMoves ==
  ASSUME RequestsOK, NEW r \in Requests, Step(r) \/ RequestDies(r)
  PROVE  /\ \A q \in Requests : q # r => req'[q] = req[q]
         /\ req'[r].pc # "idle" => req'[r].att = req[r].att
         /\ req'[r].pc \in HoldsAttempt => req[r].pc \in HoldsAttempt
         /\ req'[r].pc \in HoldsSession /\ req[r].pc \notin HoldsSession
               => ~SessionLocked(SessionOf[req[r].att])
<1> USE DEF At, HoldsAttempt, HoldsSession
<1>1. CASE StartEnrol(r)
  BY <1>1, GotoEffect, ReturnEffect DEF StartEnrol
<1>2. CASE StartCreate(r)
  BY <1>2, GotoEffect, ReturnEffect DEF StartCreate
<1>3. CASE RecordBeat(r)
  BY <1>3, GotoEffect, ReturnEffect DEF RecordBeat
<1>4. CASE MarkExpired(r)
  BY <1>4, GotoEffect, ReturnEffect DEF MarkExpired
<1>5. CASE LivenessDecide(r)
  BY <1>5, GotoEffect, ReturnEffect DEF LivenessDecide
<1>6. CASE LivenessSave(r)
  BY <1>6, GotoEffect, ReturnEffect DEF LivenessSave
<1>7. CASE ChallengeGate(r)
  BY <1>7, GotoEffect, ReturnEffect DEF ChallengeGate
<1>8. CASE ChallengeSave(r)
  BY <1>8, GotoEffect, ReturnEffect DEF ChallengeSave
<1>9. CASE SubmitLockSession(r)
  BY <1>9, GotoEffect, ReturnEffect DEF SubmitLockSession, Refuse
<1>10. CASE SubmitVerify(r)
  BY <1>10, VerifyEffect, ReturnEffect DEF SubmitVerify, Refuse
<1>11. CASE SubmitCommit(r)
  BY <1>11, GotoEffect, ReturnEffect DEF SubmitCommit
<1>12. CASE RequestDies(r)
  BY <1>12, GotoEffect, ReturnEffect DEF RequestDies
<1> QED
  BY <1>1, <1>2, <1>3, <1>4, <1>5, <1>6, <1>7, <1>8, <1>9, <1>10, <1>11, <1>12 DEF Step

\* An arriving request holds no session, and an attempt only if its row was free.
LEMMA ArriveMoves ==
  ASSUME RequestsOK, NEW r \in Requests, NEW a \in Attempts, Arrive(r, a)
  PROVE  /\ \A q \in Requests : q # r => req'[q] = req[q]
         /\ req'[r].pc \in {"idle", "start_enrol", "live_verify", "expire", "chal_beat",
                            "sub_session"}
         /\ req'[r].pc # "idle" => req'[r].att = a
         /\ req'[r].pc \in HoldsAttempt => ~AttemptLocked(a)
         /\ req'[r].pc = "chal_beat" => attempt[a].status = "BIOMETRIC_VERIFIED"
         /\ req'[r].pc = "sub_session" => attempt[a].status = "CHALLENGE_ISSUED"
<1> USE DEF At, MayEnter, HoldsAttempt, HoldsSession
<1>1. CASE StartSession(r, a)
  BY <1>1, EnterEffect DEF StartSession
<1>2. CASE LivenessRead(r, a)
  BY <1>2, EnterEffect DEF LivenessRead
<1>3. CASE ChallengeRead(r, a)
  BY <1>3, EnterEffect DEF ChallengeRead
<1>4. CASE SubmitLockAttempt(r, a)
  BY <1>4, EnterEffect DEF SubmitLockAttempt
<1> QED
  BY <1>1, <1>2, <1>3, <1>4 DEF Arrive

\* A step is one of these; the last leaves every request alone.
LEMMA NextCases ==
  ASSUME TypeOK, [Next]_vars
  PROVE  \/ \E r \in Requests : Step(r) \/ RequestDies(r)
         \/ \E r \in Requests, a \in Attempts : Arrive(r, a)
         \/ req' = req /\ ledger' = ledger /\ attempt' = attempt /\ liveness' = liveness
              /\ \A s \in Sessions :
                    SessionLocked(s) /\ session[s].active => session'[s].active
  BY DEF Next, vars, Heartbeat, CloseSession, Tick, TypeOK

\* The locks stay exclusive.
LEMMA NextLocks == Inv /\ [Next]_vars => LocksExclusive'
<1> SUFFICES ASSUME Inv, [Next]_vars
             PROVE  LocksExclusive'
  OBVIOUS
<1>0. TypeOK /\ RequestsOK /\ LocksExclusive
  BY DEF Inv, TypeOK, RequestsOK
<1>a. HoldsSession \subseteq HoldsAttempt /\ "idle" \notin HoldsAttempt
  BY DEF HoldsSession, HoldsAttempt
<1>1. ASSUME NEW r \in Requests, Step(r) \/ RequestDies(r)
      PROVE  LocksExclusive'
  BY <1>0, <1>a, <1>1, StepMoves DEF LocksExclusive, SessionLocked
<1>2. ASSUME NEW r \in Requests, NEW a \in Attempts, Arrive(r, a)
      PROVE  LocksExclusive'
  <2>1. req'[r].pc \notin HoldsSession
    BY <1>0, <1>2, ArriveMoves DEF HoldsSession
  <2> QED
    BY <1>0, <1>a, <1>2, <2>1, ArriveMoves DEF LocksExclusive, AttemptLocked
<1>3. ASSUME req' = req
      PROVE  LocksExclusive'
  BY <1>0, <1>3 DEF LocksExclusive
<1> QED
  BY <1>0, <1>1, <1>2, <1>3, NextCases

\* A verdict, once given, stays.
LEMMA VerdictStays ==
  ASSUME TypeOK, [Next]_vars, NEW a \in Attempts, liveness[a] # "NONE"
  PROVE  liveness'[a] = liveness[a]
<1>1. CASE \E r \in Requests : LivenessDecide(r)
  BY <1>1 DEF LivenessDecide, TypeOK
<1>2. CASE ~\E r \in Requests : LivenessDecide(r)
  BY <1>2 DEF Next, vars, Step, RequestDies, Arrive, StartSession, LivenessRead, ChallengeRead,
     SubmitLockAttempt, Heartbeat, CloseSession, Tick, StartEnrol, StartCreate, RecordBeat,
     MarkExpired, LivenessSave, ChallengeGate, ChallengeSave, SubmitLockSession, SubmitVerify,
     SubmitCommit
<1> QED
  BY <1>1, <1>2

\* The verdict stays known.
LEMMA NextVerdict == Inv /\ [Next]_vars => VerdictKnown'
<1> SUFFICES ASSUME Inv, [Next]_vars, NEW q \in Requests
             PROVE  /\ req'[q].pc = "live_save" => liveness'[req'[q].att] # "NONE"
                    /\ req'[q].pc \in HoldsAttempt \union {"chal_beat", "chal_save"}
                          => liveness'[req'[q].att] = "PASSED"
  BY DEF VerdictKnown
<1>0. TypeOK /\ RequestsOK /\ VerdictKnown /\ StrictSequence
  BY DEF Inv, TypeOK, RequestsOK
<1> DEFINE Past == HoldsAttempt \union {"chal_beat", "chal_save", "live_save"}
<1>a. "idle" \notin Past
  BY DEF HoldsAttempt, HoldsSession
<1>b. \A p \in Past : req[q].pc = p => req[q].att \in Attempts
  BY <1>0, <1>a DEF TypeOK
<1>1. CASE req'[q] = req[q]
  BY <1>0, <1>1, <1>b, VerdictStays DEF VerdictKnown
<1>2. ASSUME NEW a \in Attempts, Arrive(q, a)
      PROVE  /\ req'[q].pc # "live_save"
             /\ req'[q].pc \in HoldsAttempt \union {"chal_beat", "chal_save"}
                  => liveness'[req'[q].att] = "PASSED"
  BY <1>0, <1>2, ArriveMoves, VerdictStays DEF StrictSequence, HoldsAttempt, HoldsSession
<1>3. CASE Step(q) \/ RequestDies(q)
  <2> USE DEF At, HoldsAttempt, HoldsSession
  <2>1. CASE \/ StartEnrol(q) \/ StartCreate(q) \/ RecordBeat(q) \/ MarkExpired(q)
             \/ LivenessSave(q) \/ ChallengeSave(q) \/ SubmitCommit(q) \/ RequestDies(q)
    <3>1. req'[q].pc \in {"start_create", "beat", "idle"}
      BY <1>0, <2>1, GotoEffect, ReturnEffect
      DEF StartEnrol, StartCreate, RecordBeat, MarkExpired, LivenessSave, ChallengeSave,
          SubmitCommit, RequestDies
    <3> QED
      BY <3>1
  <2>2. CASE LivenessDecide(q)
    <3>1. req[q].att \in Attempts
      BY <1>0, <2>2 DEF LivenessDecide, TypeOK
    <3>2. CASE Return(q)
      BY <1>0, <3>2, ReturnEffect
    <3>3. CASE Goto(q, "live_save") /\ liveness'[req[q].att] \in {"PASSED", "FAILED"}
      BY <1>0, <3>3, GotoEffect
    <3> QED
      BY <1>0, <2>2, <3>1, <3>2, <3>3 DEF LivenessDecide, TypeOK
  <2>3. CASE ChallengeGate(q)
    <3>1. CASE Return(q)
      BY <1>0, <3>1, ReturnEffect
    <3>2. CASE Goto(q, "chal_save")
      BY <1>0, <1>b, <2>3, <3>2, GotoEffect, VerdictStays DEF ChallengeGate, VerdictKnown
    <3> QED
      BY <2>3, <3>1, <3>2 DEF ChallengeGate
  <2>4. CASE SubmitLockSession(q)
    <3>1. CASE Return(q)
      BY <1>0, <3>1, ReturnEffect
    <3>2. CASE Goto(q, "sub_verify")
      BY <1>0, <1>b, <2>4, <3>2, GotoEffect, VerdictStays DEF SubmitLockSession, VerdictKnown
    <3> QED
      BY <2>4, <3>1, <3>2 DEF SubmitLockSession, Refuse
  <2>5. CASE SubmitVerify(q)
    <3>1. CASE Return(q)
      BY <1>0, <3>1, ReturnEffect
    <3>2. CASE req' = [req EXCEPT ![q].pc = "sub_commit",
                                  ![q].tail = LastReport(SessionOf[req[q].att])]
      BY <1>0, <1>b, <2>5, <3>2, VerifyEffect, VerdictStays DEF SubmitVerify, VerdictKnown
    <3> QED
      BY <2>5, <3>1, <3>2 DEF SubmitVerify, Refuse
  <2> QED
    BY <1>3, <2>1, <2>2, <2>3, <2>4, <2>5 DEF Step
<1> QED
  BY <1>0, <1>1, <1>2, <1>3, NextCases, StepMoves, ArriveMoves

\* The sequence stays strict.
LEMMA NextSequence == Inv /\ [Next]_vars => StrictSequence'
<1> SUFFICES ASSUME Inv, [Next]_vars
             PROVE  StrictSequence'
  OBVIOUS
<1>0. TypeOK /\ RequestsOK /\ VerdictKnown /\ StrictSequence
  BY DEF Inv, TypeOK, RequestsOK
<1> DEFINE Past(st) == st \in {"BIOMETRIC_VERIFIED", "CHALLENGE_ISSUED", "ACCEPTED"}
<1>1. ASSUME NEW a \in Attempts, Past(attempt'[a].status)
      PROVE  liveness'[a] = "PASSED"
  <2>1. CASE attempt'[a].status = attempt[a].status
    BY <1>0, <1>1, <2>1, VerdictStays DEF StrictSequence
  <2>2. ASSUME attempt'[a].status # attempt[a].status
        PROVE  liveness[a] = "PASSED"
    <3>1. PICK r \in Requests : Step(r) \/ \E b \in Attempts : SubmitLockAttempt(r, b)
      BY <2>2 DEF Next, vars, RequestDies, Arrive, StartSession, LivenessRead, ChallengeRead,
                  Heartbeat, CloseSession, Tick
    <3>2. CASE StartCreate(r)
      BY <1>0, <1>1, <2>2, <3>2 DEF StartCreate, TypeOK, AttemptRow
    <3>a. req[r].att \in Attempts \/ At(r, "idle")
      BY <1>0 DEF TypeOK, At
    <3>3. CASE MarkExpired(r)
      BY <1>0, <1>1, <2>2, <3>3, <3>a, SetStatusEffect DEF MarkExpired, TypeOK, At
    <3>4. CASE LivenessSave(r)
      <4>1. req[r].att \in Attempts
        BY <3>4, <3>a DEF LivenessSave, At
      <4>2. CASE liveness[req[r].att] = "PASSED" /\ SetStatus(req[r].att, "BIOMETRIC_VERIFIED")
        BY <1>0, <2>2, <4>1, <4>2, SetStatusEffect DEF TypeOK
      <4>3. CASE SetStatus(req[r].att, "REJECTED")
        BY <1>0, <1>1, <2>2, <4>1, <4>3, SetStatusEffect DEF TypeOK
      <4> QED
        BY <3>4, <4>2, <4>3 DEF LivenessSave
    <3>5. CASE ChallengeSave(r)
      BY <1>0, <1>1, <2>2, <3>5 DEF ChallengeSave, TypeOK, AttemptRow, VerdictKnown, At
    <3>6. CASE SubmitLockSession(r)
      BY <1>0, <1>1, <2>2, <3>6, <3>a, SetStatusEffect DEF SubmitLockSession, Refuse, TypeOK, At
    <3>7. CASE SubmitVerify(r)
      BY <1>0, <1>1, <2>2, <3>7, <3>a, SetStatusEffect DEF SubmitVerify, Refuse, TypeOK, At
    <3>8. CASE SubmitCommit(r)
      BY <1>0, <1>1, <2>2, <3>8
      DEF SubmitCommit, SetStatus, TypeOK, AttemptRow, VerdictKnown, At, HoldsAttempt, HoldsSession
    <3>9. ASSUME NEW b \in Attempts, SubmitLockAttempt(r, b)
          PROVE  liveness[a] = "PASSED"
      BY <1>0, <1>1, <2>2, <3>9 DEF SubmitLockAttempt, SetStatus, TypeOK, AttemptRow
    <3>10. CASE \/ StartEnrol(r) \/ RecordBeat(r) \/ LivenessDecide(r) \/ ChallengeGate(r)
      BY <2>2, <3>10 DEF StartEnrol, RecordBeat, LivenessDecide, ChallengeGate
    <3> QED
      BY <3>1, <3>2, <3>3, <3>4, <3>5, <3>6, <3>7, <3>8, <3>9, <3>10 DEF Step
  <2> QED
    BY <1>0, <2>1, <2>2, VerdictStays
<1>2. ASSUME NEW s \in Sessions, NEW i \in DOMAIN ledger'[s]
      PROVE  liveness'[ledger'[s][i].report.att] = "PASSED"
  <2>1. CASE ledger'[s] = ledger[s]
    <3>1. ledger[s][i].report.att \in Attempts
      BY <1>0, <1>2, <2>1, EntryType
    <3> QED
      BY <1>0, <1>2, <2>1, <3>1, VerdictStays DEF StrictSequence
  <2>2. CASE ledger'[s] # ledger[s]
    <3>1. PICK r \in Requests : SubmitCommit(r)
      BY <2>2 DEF Next, vars, Step, RequestDies, Arrive, StartSession, LivenessRead,
         ChallengeRead, SubmitLockAttempt, Heartbeat, CloseSession, Tick, StartEnrol,
         StartCreate, RecordBeat, MarkExpired, LivenessDecide, LivenessSave, ChallengeGate,
         ChallengeSave, SubmitLockSession, SubmitVerify
    <3> DEFINE a == req[r].att
               e == [student |-> StudentOf[a],
                     report |-> [att |-> a, chal |-> attempt[a].chal],
                     prev |-> req[r].tail]
    <3>2. a \in Attempts /\ liveness[a] = "PASSED"
      BY <1>0, <3>1 DEF SubmitCommit, TypeOK, VerdictKnown, At, HoldsAttempt, HoldsSession
    <3>3. ledger'[s] = Append(ledger[s], e)
      BY <1>0, <2>2, <3>1 DEF SubmitCommit, TypeOK
    <3>4. ledger[s] \in Seq(Entry) /\ e.report.att = a
      BY <1>0 DEF TypeOK
    <3> HIDE DEF e, a
    <3>5. CASE i = Len(ledger[s]) + 1
      BY <3>2, <3>3, <3>4, <3>5, VerdictStays, <1>0
    <3>6. CASE i \in DOMAIN ledger[s]
      <4>1. ledger'[s][i] = ledger[s][i]
        BY <3>3, <3>4, <3>6
      <4>2. ledger[s][i].report.att \in Attempts
        BY <1>0, <3>6, EntryType
      <4> QED
        BY <1>0, <3>6, <4>1, <4>2, VerdictStays DEF StrictSequence
    <3> QED
      BY <1>2, <3>3, <3>4, <3>5, <3>6
  <2> QED
    BY <2>1, <2>2
<1> QED
  BY <1>1, <1>2 DEF StrictSequence

\* The entry that SubmitCommit appends.
NewEntry(r) == [student |-> StudentOf[req[r].att],
                report |-> [att |-> req[r].att, chal |-> attempt[req[r].att].chal],
                prev |-> req[r].tail]

\* Ledgers change by a commit alone, which appends one entry to one ledger.
LEMMA LedgerStep ==
  ASSUME TypeOK, [Next]_vars, ledger' # ledger
  PROVE  \E r \in Requests :
            /\ SubmitCommit(r) /\ req'[r].pc = "idle"
            /\ req[r].att \in Attempts /\ SessionOf[req[r].att] \in Sessions
            /\ NewEntry(r) \in Entry
            /\ ~HasRecord(StudentOf[req[r].att], SessionOf[req[r].att])
            /\ ledger' = [ledger EXCEPT ![SessionOf[req[r].att]] = Append(@, NewEntry(r))]
<1>0. RequestsOK
  BY DEF TypeOK, RequestsOK
<1>1. PICK r \in Requests : SubmitCommit(r)
  BY DEF Next, vars, Step, RequestDies, Arrive, StartSession, LivenessRead, ChallengeRead,
     SubmitLockAttempt, Heartbeat, CloseSession, Tick, StartEnrol, StartCreate, RecordBeat,
     MarkExpired, LivenessDecide, LivenessSave, ChallengeGate, ChallengeSave,
     SubmitLockSession, SubmitVerify
<1>2. req[r].att \in Attempts
  BY <1>1 DEF SubmitCommit, At, TypeOK
<1>3. SessionOf[req[r].att] \in Sessions
  BY <1>2, ProtocolAssumption
<1>4. req'[r].pc = "idle"
  BY <1>0, <1>1, ReturnEffect DEF SubmitCommit
<1>5. NewEntry(r) \in Entry
  BY <1>2, ProtocolAssumption DEF NewEntry, TypeOK, Entry, Report, Request, AttemptRow
<1> QED
  BY <1>1, <1>2, <1>3, <1>4, <1>5 DEF SubmitCommit, NewEntry

\* A session stays active as long as a transaction holds its row.
LEMMA SessionStays ==
  ASSUME TypeOK, [Next]_vars, NEW s \in Sessions, session[s].active,
         SessionLocked(s) \/ ~\E t \in Sessions : CloseSession(t)
  PROVE  session'[s].active
<1>1. CASE \E t \in Sessions : CloseSession(t)
  BY <1>1 DEF CloseSession, TypeOK
<1>2. CASE ~\E t \in Sessions : CloseSession(t)
  BY <1>2 DEF Next, vars, Step, RequestDies, Arrive, StartSession, LivenessRead, ChallengeRead,
     SubmitLockAttempt, Heartbeat, Tick, StartEnrol, StartCreate, RecordBeat, MarkExpired,
     LivenessDecide, LivenessSave, ChallengeGate, ChallengeSave, SubmitLockSession,
     SubmitVerify, SubmitCommit
<1> QED
  BY <1>1, <1>2

\* The check of one request stands.
Check(q) ==
    /\ req[q].pc \in HoldsSession =>
          /\ session[SessionOf[req[q].att]].active
          /\ ~HasRecord(StudentOf[req[q].att], SessionOf[req[q].att])
    /\ req[q].pc = "sub_commit" => req[q].tail = LastReport(SessionOf[req[q].att])

\* What was checked under the session lock stands.
LEMMA NextCheck == Inv /\ [Next]_vars => CheckStands'
<1> SUFFICES ASSUME Inv, [Next]_vars, NEW q \in Requests
             PROVE  Check(q)'
  BY DEF CheckStands, Check
<1>0. TypeOK /\ RequestsOK /\ LocksExclusive /\ Check(q)
  BY DEF Inv, TypeOK, RequestsOK, CheckStands, Check
<1>a. "idle" \notin HoldsSession /\ "sub_commit" \in HoldsSession
  BY DEF HoldsSession
<1>b. req[q].pc # "idle" => req[q].att \in Attempts /\ SessionOf[req[q].att] \in Sessions
  BY <1>0, ProtocolAssumption DEF TypeOK
<1>1. CASE req'[q] = req[q] /\ req[q].pc \in HoldsSession
  <2> DEFINE s == SessionOf[req[q].att]
  <2>1. s \in Sessions /\ SessionLocked(s) /\ session[s].active
    BY <1>0, <1>1, <1>a, <1>b DEF SessionLocked, Check
  <2>2. session'[s].active
    BY <1>0, <2>1, SessionStays
  <2>3. ledger'[s] = ledger[s]
    <3> SUFFICES ASSUME ledger' # ledger
                 PROVE  ledger'[s] = ledger[s]
      OBVIOUS
    <3>1. PICK r \in Requests :
            /\ SubmitCommit(r) /\ req'[r].pc = "idle"
            /\ SessionOf[req[r].att] \in Sessions
            /\ ledger' = [ledger EXCEPT ![SessionOf[req[r].att]] = Append(@, NewEntry(r))]
      BY <1>0, LedgerStep
    <3>2. r # q
      BY <1>1, <1>a, <3>1
    <3>3. SessionOf[req[r].att] # s
      BY <1>0, <1>1, <3>1, <3>2 DEF LocksExclusive, SubmitCommit, At, HoldsSession
    <3> QED
      BY <1>0, <2>1, <3>1, <3>3 DEF TypeOK
  <2> QED
    BY <1>0, <1>1, <2>2, <2>3 DEF Check, HasRecord, LastReport
<1>2. CASE SubmitLockSession(q)
  <2>1. CASE Return(q)
    BY <1>0, <1>a, <2>1, ReturnEffect DEF Check
  <2>2. CASE Open(SessionOf[req[q].att])
             /\ ~HasRecord(StudentOf[req[q].att], SessionOf[req[q].att])
             /\ Goto(q, "sub_verify")
    <3>1. req'[q].pc = "sub_verify" /\ req'[q].att = req[q].att
      BY <1>0, <2>2, GotoEffect
    <3>2. session' = session /\ ledger' = ledger
      BY <1>2 DEF SubmitLockSession
    <3> QED
      BY <2>2, <3>1, <3>2 DEF Check, Open, HasRecord
  <2> QED
    BY <1>2, <2>1, <2>2 DEF SubmitLockSession, Refuse
<1>3. CASE SubmitVerify(q)
  <2>1. CASE Return(q)
    BY <1>0, <1>a, <2>1, ReturnEffect DEF Check
  <2>2. CASE req' = [req EXCEPT ![q].pc = "sub_commit",
                                ![q].tail = LastReport(SessionOf[req[q].att])]
    <3> DEFINE t == LastReport(SessionOf[req[q].att])
    <3>1. req'[q].pc = "sub_commit" /\ req'[q].att = req[q].att /\ req'[q].tail = t
      BY <1>0, <2>2, VerifyEffect
    <3>2. session' = session /\ ledger' = ledger
      BY <1>3 DEF SubmitVerify
    <3>3. req[q].pc \in HoldsSession
      BY <1>3 DEF SubmitVerify, At, HoldsSession
    <3> QED
      BY <1>0, <3>1, <3>2, <3>3 DEF Check, HasRecord, LastReport
  <2> QED
    BY <1>3, <2>1, <2>2 DEF SubmitVerify, Refuse
<1>4. CASE req'[q].pc \notin HoldsSession
  BY <1>4, <1>a DEF Check
<1>5. CASE \/ StartEnrol(q) \/ StartCreate(q) \/ RecordBeat(q) \/ MarkExpired(q)
           \/ LivenessDecide(q) \/ LivenessSave(q) \/ ChallengeGate(q) \/ ChallengeSave(q)
           \/ SubmitCommit(q) \/ RequestDies(q)
  <2>1. req'[q].pc \in {"start_create", "beat", "idle", "live_save", "chal_save"}
    BY <1>0, <1>5, GotoEffect, ReturnEffect
    DEF StartEnrol, StartCreate, RecordBeat, MarkExpired, LivenessDecide, LivenessSave,
        ChallengeGate, ChallengeSave, SubmitCommit, RequestDies
  <2> QED
    BY <1>4, <2>1 DEF HoldsSession
<1>6. CASE req'[q] = req[q]
  BY <1>1, <1>4, <1>6
<1>7. ASSUME NEW a \in Attempts, Arrive(q, a)
      PROVE  Check(q)'
  BY <1>0, <1>4, <1>7, ArriveMoves DEF HoldsSession
<1> QED
  BY <1>0, <1>2, <1>3, <1>5, <1>6, <1>7, NextCases, StepMoves, ArriveMoves DEF Step

\* The chain stays linear.
LEMMA NextChain == Inv /\ [Next]_vars => ChainLinear'
<1> SUFFICES ASSUME Inv, [Next]_vars, NEW s \in Sessions, NEW i \in DOMAIN ledger'[s]
             PROVE  ledger'[s][i].prev = IF i = 1 THEN Genesis ELSE ledger'[s][i - 1].report
  BY DEF ChainLinear
<1>0. TypeOK /\ CheckStands /\ ChainLinear
  BY DEF Inv
<1>1. CASE ledger'[s] = ledger[s]
  BY <1>0, <1>1 DEF ChainLinear
<1>2. CASE ledger'[s] # ledger[s]
  <2>1. PICK r \in Requests :
          /\ SubmitCommit(r) /\ SessionOf[req[r].att] \in Sessions
          /\ NewEntry(r) \in Entry
          /\ ledger' = [ledger EXCEPT ![SessionOf[req[r].att]] = Append(@, NewEntry(r))]
    BY <1>0, <1>2, LedgerStep
  <2>2. s = SessionOf[req[r].att] /\ ledger'[s] = Append(ledger[s], NewEntry(r))
    BY <1>0, <1>2, <2>1 DEF TypeOK
  <2>3. NewEntry(r).prev = LastReport(s)
    BY <1>0, <2>1, <2>2 DEF NewEntry, CheckStands, SubmitCommit, At
  <2>4. ledger[s] \in Seq(Entry) /\ Len(ledger[s]) \in Nat
    BY <1>0 DEF TypeOK
  <2>5. CASE i \in DOMAIN ledger[s]
    <3>1. ledger'[s][i] = ledger[s][i] /\ (i # 1 => ledger'[s][i - 1] = ledger[s][i - 1])
      BY <2>1, <2>2, <2>4, <2>5
    <3> QED
      BY <1>0, <2>5, <3>1 DEF ChainLinear
  <2>6. CASE i = Len(ledger[s]) + 1
    <3>1. ledger'[s][i] = NewEntry(r)
      BY <2>1, <2>2, <2>4, <2>6
    <3>2. ledger[s] = <<>> <=> i = 1
      BY <2>4, <2>6
    <3>3. i # 1 => ledger'[s][i - 1] = ledger[s][Len(ledger[s])]
      BY <2>1, <2>2, <2>4, <2>6
    <3> QED
      BY <2>3, <3>1, <3>2, <3>3 DEF LastReport
  <2> QED
    BY <2>1, <2>2, <2>4, <2>5, <2>6
<1> QED
  BY <1>1, <1>2

-----------------------------------------------------------------------------------
(* The theorems.                                                                  *)

LEMMA InitInv == Init => Inv
<1> SUFFICES ASSUME Init
             PROVE  Inv
  OBVIOUS
<1>1. \A r \in Requests : req[r].pc = "idle"
  BY DEF Init, IdleRequest
<1>2. LocksExclusive /\ VerdictKnown /\ CheckStands
  BY <1>1 DEF LocksExclusive, VerdictKnown, CheckStands, HoldsAttempt, HoldsSession
<1>3. StrictSequence /\ ChainLinear
  BY DEF Init, StrictSequence, ChainLinear
<1> QED
  BY <1>2, <1>3, InitType DEF Inv

\* What a request remembers between two of its statements agrees with the rows.
THEOREM Invariance == Spec => []Inv
<1>1. Init => Inv
  BY InitInv
<1>2. Inv /\ [Next]_vars => Inv'
  BY NextType, NextLocks, NextVerdict, NextSequence, NextCheck, NextChain DEF Inv
<1> QED
  BY <1>1, <1>2, PTL DEF Spec

\* However requests interleave, an attempt gets past liveness, and a record rests
\* on it, only with a PASSED verdict held by the server.
THEOREM SequenceIsStrict == Spec => []StrictSequence
<1>1. Inv => StrictSequence
  BY DEF Inv
<1> QED
  BY <1>1, Invariance, PTL

\* The duplicate check under the session lock decides: the unique constraint never
\* aborts a submission.
THEOREM ConstraintNeverAborts == Spec => []NoConstraintAbort
<1>1. Inv => NoConstraintAbort
  BY DEF Inv, CheckStands, NoConstraintAbort, At, HoldsSession
<1> QED
  BY <1>1, Invariance, PTL

\* The audit entries of every session form one chain.
THEOREM ChainIsLinear == Spec => []ChainLinear
<1>1. Inv => ChainLinear
  BY DEF Inv
<1> QED
  BY <1>1, Invariance, PTL

-----------------------------------------------------------------------------------
(* The protocol implements the register.                                          *)

Names(L) == [i \in DOMAIN L |-> L[i].student]

\* A record more is a name more.
LEMMA RosterAppend ==
  ASSUME NEW L \in Seq(Entry), NEW e \in Entry
  PROVE  Names(Append(L, e)) = Append(Names(L), e.student)
<1> DEFINE A == Names(Append(L, e))
           B == Append(Names(L), e.student)
<1>1. Len(L) \in Nat /\ DOMAIN L = 1..Len(L) /\ DOMAIN Append(L, e) = 1..(Len(L) + 1)
  OBVIOUS
<1>2. \A i \in 1..Len(L) : L[i].student \in Students
  <2>1. \A i \in 1..Len(L) : L[i] \in Entry
    BY <1>1
  <2> QED
    BY <2>1 DEF Entry
<1>3. Names(L) \in Seq(Students) /\ Len(Names(L)) = Len(L)
  BY <1>1, <1>2 DEF Names
<1>4. DOMAIN B = 1..(Len(L) + 1)
  BY <1>1, <1>3 DEF Entry
<1>5. DOMAIN A = 1..(Len(L) + 1)
  BY <1>1 DEF Names
<1>6. \A i \in 1..(Len(L) + 1) : A[i] = B[i]
  BY <1>1, <1>3 DEF Names, Entry
<1>7. A = [i \in 1..(Len(L) + 1) |-> A[i]] /\ B = [i \in 1..(Len(L) + 1) |-> B[i]]
  BY <1>3, <1>4, <1>5 DEF Names, Entry
<1> QED
  BY <1>6, <1>7

\* Each session's register grows only while the session is open, by a student it
\* does not name yet.
THEOREM ImplementsRegister == Spec => RegisterSpec
<1>1. Init => Register!Init
  <2> SUFFICES ASSUME Init
               PROVE  Register!Init
    OBVIOUS
  <2>1. \A s \in Sessions : session[s].active /\ [i \in DOMAIN ledger[s] |-> ledger[s][i].student] = <<>>
    BY DEF Init
  <2> QED
    BY <2>1 DEF Register!Init
<1>2. Inv /\ [Next]_vars => [Register!Next]_(Register!vars)
  <2> SUFFICES ASSUME Inv, [Next]_vars
               PROVE  [Register!Next]_(Register!vars)
    OBVIOUS
  <2>0. TypeOK /\ CheckStands
    BY DEF Inv
  <2>1. CASE \E s \in Sessions : CloseSession(s)
    <3>1. PICK s \in Sessions : CloseSession(s)
      BY <2>1
    <3>2. Register!Close(s)
      BY <2>0, <3>1 DEF CloseSession, Register!Close, TypeOK
    <3> QED
      BY <3>2 DEF Register!Next
  <2>2. CASE ledger' # ledger
    <3>1. PICK r \in Requests :
            /\ SubmitCommit(r)
            /\ req[r].att \in Attempts /\ SessionOf[req[r].att] \in Sessions
            /\ NewEntry(r) \in Entry
            /\ ~HasRecord(StudentOf[req[r].att], SessionOf[req[r].att])
            /\ ledger' = [ledger EXCEPT ![SessionOf[req[r].att]] = Append(@, NewEntry(r))]
      BY <2>0, <2>2, LedgerStep
    <3>0. PICK s \in Sessions, st \in Students :
            s = SessionOf[req[r].att] /\ st = StudentOf[req[r].att]
      BY <3>1, ProtocolAssumption
    <3>2. NewEntry(r).student = st
      BY <3>0 DEF NewEntry
    <3>3. session[s].active /\ session' = session
      BY <2>0, <3>0, <3>1 DEF CheckStands, SubmitCommit, At, HoldsSession
    <3>4. ~HasRecord(st, s)
      BY <3>0, <3>1
    <3>5. ledger[s] \in Seq(Entry) /\ ledger' = [ledger EXCEPT ![s] = Append(ledger[s], NewEntry(r))]
      BY <2>0, <3>0, <3>1 DEF TypeOK
    <3>6. ledger'[s] = Append(ledger[s], NewEntry(r)) /\ \A t \in Sessions : t # s => ledger'[t] = ledger[t]
      BY <2>0, <3>5 DEF TypeOK
    <3>7. Names(ledger'[s]) = Append(Names(ledger[s]), st)
      BY <3>1, <3>2, <3>5, <3>6, RosterAppend
    <3>8. Register!Mark(s, st)
      <4>1. [t \in Sessions |-> Names(ledger'[t])] =
              [[t \in Sessions |-> Names(ledger[t])] EXCEPT ![s] = Append(@, st)]
        BY <3>2, <3>6, <3>7
      <4>2. st \notin Register!Present(s)
        BY <3>2, <3>4 DEF HasRecord, Register!Present
      <4> QED
        BY <3>2, <3>3, <4>1, <4>2 DEF Register!Mark, Names
    <3>9. Register!Next
      BY <3>8 DEF Register!Next
    <3> QED
      BY <3>9
  <2>3. CASE ledger' = ledger /\ ~\E s \in Sessions : CloseSession(s)
    <3>1. session' = session
      BY <2>3 DEF Next, vars, Step, RequestDies, Arrive, StartSession, LivenessRead,
         ChallengeRead, SubmitLockAttempt, Heartbeat, Tick, StartEnrol, StartCreate, RecordBeat,
         MarkExpired, LivenessDecide, LivenessSave, ChallengeGate, ChallengeSave,
         SubmitLockSession, SubmitVerify, SubmitCommit
    <3> QED
      BY <2>3, <3>1 DEF Register!vars
  <2> QED
    BY <2>1, <2>2, <2>3
<1> QED
  BY <1>1, <1>2, Invariance, PTL DEF Spec, RegisterSpec, Register!Spec

-----------------------------------------------------------------------------------
(* A client that waits for each answer: what a handler read is still so when it   *)
(* writes.                                                                        *)

\* Two requests in flight are about different attempts.
OneRequest ==
    \A q, r \in Requests :
        q # r /\ req[q].pc # "idle" /\ req[r].pc # "idle" => req[q].att # req[r].att

\* The status in which a handler found its attempt, by where it has come to.
FoundStatus(p) ==
    CASE p \in {"start_enrol", "start_create"} -> {"ABSENT"}
      [] p \in {"live_verify", "live_save"} -> {"LIVENESS_PENDING"}
      [] p \in {"chal_beat", "chal_save"} -> {"BIOMETRIC_VERIFIED"}
      [] p = "expire" -> {"LIVENESS_PENDING", "BIOMETRIC_VERIFIED"}
      [] p \in HoldsAttempt -> {"CHALLENGE_ISSUED"}
      [] OTHER -> Status

StatusStands ==
    \A r \in Requests :
        req[r].pc # "idle" => attempt[req[r].att].status \in FoundStatus(req[r].pc)

\* Every record rests on an accepted attempt of its student and session, whose report
\* is still the one that was hashed.
Current(e, s) ==
    /\ StudentOf[e.report.att] = e.student
    /\ SessionOf[e.report.att] = s
    /\ attempt[e.report.att].status = "ACCEPTED"
    /\ e.report.chal = attempt[e.report.att].chal

RecordsCurrent ==
    \A s \in Sessions : \A i \in DOMAIN ledger[s] : Current(ledger[s][i], s)

SequentialInv == ~Overlap /\ Inv /\ OneRequest /\ StatusStands /\ RecordsCurrent

\* What each point of a handler makes of FoundStatus.
LEMMA FoundIsOpen ==
  ASSUME NEW p \in Point \ {"idle", "beat"}
  PROVE  FoundStatus(p) \intersect Final = {}
  BY DEF FoundStatus, Final, Point, HoldsAttempt, HoldsSession

\* A row changes by a step of a handler on its attempt, or by the submission that finds
\* the challenge too old.
LEMMA RowWriters ==
  ASSUME TypeOK, [Next]_vars, NEW a \in Attempts, attempt'[a] # attempt[a]
  PROVE  \/ \E r \in Requests : req[r].att = a /\ req[r].pc \notin {"idle", "beat"} /\ Step(r)
         \/ \E r \in Requests : SubmitLockAttempt(r, a)
<1>0. attempt \in [Attempts -> AttemptRow]
  BY DEF TypeOK
<1>1. CASE \E r \in Requests : Step(r)
  <2>1. PICK r \in Requests : Step(r)
    BY <1>1
  <2>2. attempt' = attempt \/ (req[r].pc \notin {"idle", "beat"} /\ req[r].att \in Attempts)
    BY <2>1 DEF Step, StartEnrol, StartCreate, RecordBeat, MarkExpired, LivenessDecide,
       LivenessSave, ChallengeGate, ChallengeSave, SubmitLockSession, SubmitVerify, SubmitCommit,
       At, TypeOK
  <2>3. \A b \in Attempts : b # req[r].att => attempt'[b] = attempt[b]
    BY <1>0, <2>1, <2>2, SetStatusEffect
       DEF Step, StartEnrol, StartCreate, RecordBeat, MarkExpired, LivenessDecide,
       LivenessSave, ChallengeGate, ChallengeSave, SubmitLockSession, SubmitVerify, SubmitCommit,
       Refuse
  <2> QED
    BY <2>1, <2>2, <2>3
<1>2. CASE \E r \in Requests, b \in Attempts : Arrive(r, b)
  BY <1>0, <1>2, SetStatusEffect
     DEF Arrive, StartSession, LivenessRead, ChallengeRead, SubmitLockAttempt
<1>3. CASE UNCHANGED attempt
  BY <1>3
<1> QED
  BY <1>1, <1>2, <1>3 DEF Next, vars, RequestDies, Heartbeat, CloseSession, Tick

\* A final status stays.
LEMMA FinalStays ==
  ASSUME SequentialInv, [Next]_vars, NEW a \in Attempts, attempt[a].status \in Final
  PROVE  attempt'[a] = attempt[a]
<1>0. TypeOK /\ StatusStands
  BY DEF SequentialInv, Inv
<1>1. ASSUME NEW r \in Requests, req[r].att = a, req[r].pc \notin {"idle", "beat"}
      PROVE  FALSE
  <2>1. req[r].pc \in Point \ {"idle", "beat"}
    BY <1>0, <1>1 DEF TypeOK, Request
  <2> QED
    BY <1>0, <1>1, <2>1, FoundIsOpen DEF StatusStands
<1>2. ASSUME NEW r \in Requests, SubmitLockAttempt(r, a)
      PROVE  FALSE
  BY <1>2 DEF SubmitLockAttempt, Final
<1> QED
  BY <1>0, <1>1, <1>2, RowWriters

\* An attempt of which no request is in flight is all that a waiting client starts one on.
LEMMA ArriveAlone ==
  ASSUME ~Overlap, NEW r \in Requests, NEW a \in Attempts, Arrive(r, a)
  PROVE  \A q \in Requests : req[q].att # a
  BY DEF Arrive, StartSession, LivenessRead, ChallengeRead, SubmitLockAttempt, MayEnter

\* Requests in flight stay about different attempts.
LEMMA NextOneRequest == SequentialInv /\ [Next]_vars => OneRequest'
<1> SUFFICES ASSUME SequentialInv, [Next]_vars
             PROVE  OneRequest'
  OBVIOUS
<1>0. ~Overlap /\ TypeOK /\ RequestsOK /\ OneRequest
  BY DEF SequentialInv, Inv, TypeOK, RequestsOK
<1>1. ASSUME NEW r \in Requests, Step(r) \/ RequestDies(r)
      PROVE  OneRequest'
  <2>1. req[r].pc # "idle"
    BY <1>1 DEF Step, RequestDies, StartEnrol, StartCreate, RecordBeat, MarkExpired,
       LivenessDecide, LivenessSave, ChallengeGate, ChallengeSave, SubmitLockSession,
       SubmitVerify, SubmitCommit, At
  <2> QED
    BY <1>0, <1>1, <2>1, StepMoves DEF OneRequest
<1>2. ASSUME NEW r \in Requests, NEW a \in Attempts, Arrive(r, a)
      PROVE  OneRequest'
  BY <1>0, <1>2, ArriveMoves, ArriveAlone DEF OneRequest
<1>3. ASSUME req' = req
      PROVE  OneRequest'
  BY <1>0, <1>3 DEF OneRequest
<1> QED
  BY <1>0, <1>1, <1>2, <1>3, NextCases

\* What an arriving request finds is what FoundStatus says of where it goes.
LEMMA ArriveFinds ==
  ASSUME TypeOK, RequestsOK, NEW r \in Requests, NEW a \in Attempts, Arrive(r, a),
         req'[r].pc # "idle"
  PROVE  attempt'[a].status \in FoundStatus(req'[r].pc)
<1> USE DEF FoundStatus, HoldsAttempt, HoldsSession
<1>1. CASE StartSession(r, a)
  BY <1>1, EnterEffect DEF StartSession
<1>2. CASE LivenessRead(r, a)
  BY <1>2, EnterEffect DEF LivenessRead
<1>3. CASE ChallengeRead(r, a)
  BY <1>3, EnterEffect DEF ChallengeRead
<1>4. CASE SubmitLockAttempt(r, a)
  BY <1>4, EnterEffect DEF SubmitLockAttempt, MayEnter
<1> QED
  BY <1>1, <1>2, <1>3, <1>4 DEF Arrive

\* A handler that goes on leaves its attempt in a status that the next point expects.
LEMMA StepLeaves ==
  ASSUME TypeOK, RequestsOK, StatusStands, NEW r \in Requests, Step(r), req'[r].pc # "idle"
  PROVE  attempt'[req[r].att].status \in FoundStatus(req'[r].pc)
<1>0. attempt \in [Attempts -> AttemptRow]
  BY DEF TypeOK
<1>a. req[r].pc # "idle" => /\ req[r].att \in Attempts
                            /\ attempt[req[r].att].status \in FoundStatus(req[r].pc)
  BY DEF TypeOK, StatusStands
<1>b. {"LIVENESS_PENDING", "BIOMETRIC_VERIFIED"} \subseteq Status
  BY DEF Status
<1> USE DEF FoundStatus, HoldsAttempt, HoldsSession, At
<1>1. CASE StartEnrol(r)
  BY <1>a, <1>1, GotoEffect, ReturnEffect DEF StartEnrol
<1>2. CASE StartCreate(r)
  <2>1. req'[r].pc = "beat"
    BY <1>2, GotoEffect DEF StartCreate
  <2>2. attempt'[req[r].att].status \in Status
    BY <1>0, <1>a, <1>b, <1>2 DEF StartCreate, AttemptRow
  <2> QED
    BY <2>1, <2>2
<1>3. CASE RecordBeat(r) \/ MarkExpired(r) \/ ChallengeSave(r) \/ SubmitCommit(r)
  BY <1>3, ReturnEffect DEF RecordBeat, MarkExpired, ChallengeSave, SubmitCommit
<1>4. CASE LivenessDecide(r)
  BY <1>a, <1>4, GotoEffect, ReturnEffect DEF LivenessDecide
<1>5. CASE LivenessSave(r)
  BY <1>0, <1>a, <1>b, <1>5, GotoEffect, ReturnEffect, SetStatusEffect DEF LivenessSave
<1>6. CASE ChallengeGate(r)
  BY <1>a, <1>6, GotoEffect, ReturnEffect DEF ChallengeGate
<1>7. CASE SubmitLockSession(r)
  BY <1>a, <1>7, GotoEffect, ReturnEffect DEF SubmitLockSession, Refuse
<1>8. CASE SubmitVerify(r)
  BY <1>a, <1>8, VerifyEffect, ReturnEffect DEF SubmitVerify, Refuse
<1> QED
  BY <1>1, <1>2, <1>3, <1>4, <1>5, <1>6, <1>7, <1>8 DEF Step

\* The status a handler has found stands until it writes.
LEMMA NextStatusStands == SequentialInv /\ [Next]_vars => StatusStands'
<1> SUFFICES ASSUME SequentialInv, [Next]_vars, NEW q \in Requests, req'[q].pc # "idle"
             PROVE  attempt'[req'[q].att].status \in FoundStatus(req'[q].pc)
  BY DEF StatusStands
<1>0. ~Overlap /\ TypeOK /\ RequestsOK /\ OneRequest /\ StatusStands
  BY DEF SequentialInv, Inv, TypeOK, RequestsOK
<1>1. CASE Step(q)
  BY <1>0, <1>1, StepMoves, StepLeaves
<1>2. CASE \E a \in Attempts : Arrive(q, a)
  BY <1>0, <1>2, ArriveMoves, ArriveFinds
<1>3. CASE ~Step(q) /\ ~\E a \in Attempts : Arrive(q, a)
  <2>1. req'[q] = req[q]
    <3>1. CASE RequestDies(q)
      BY <1>0, <3>1, ReturnEffect DEF RequestDies
    <3> QED
      BY <1>0, <1>3, <3>1, NextCases, StepMoves, ArriveMoves
  <2>2. req[q].att \in Attempts
    BY <1>0, <2>1 DEF TypeOK
  <2>3. attempt'[req[q].att] = attempt[req[q].att]
    <3>1. ASSUME NEW r \in Requests, SubmitLockAttempt(r, req[q].att)
          PROVE  FALSE
      BY <1>0, <2>1, <2>2, <3>1 DEF SubmitLockAttempt, MayEnter
    <3>2. ASSUME NEW r \in Requests, req[r].att = req[q].att, req[r].pc # "idle", Step(r)
          PROVE  FALSE
      BY <1>0, <1>3, <2>1, <3>2 DEF OneRequest
    <3> QED
      BY <1>0, <2>2, <3>1, <3>2, RowWriters
  <2> QED
    BY <1>0, <2>1, <2>3 DEF StatusStands
<1> QED
  BY <1>1, <1>2, <1>3

\* A record once made keeps resting on its attempt.
LEMMA NextRecordsCurrent == SequentialInv /\ [Next]_vars => RecordsCurrent'
<1> SUFFICES ASSUME SequentialInv, [Next]_vars, NEW s \in Sessions, NEW i \in DOMAIN ledger'[s]
             PROVE  Current(ledger[s][i], s)'
  BY DEF RecordsCurrent
<1>0. TypeOK /\ RecordsCurrent
  BY DEF SequentialInv, Inv
<1>1. ASSUME NEW j \in DOMAIN ledger[s], ledger'[s][i] = ledger[s][j]
      PROVE  Current(ledger[s][i], s)'
  <2>1. ledger[s][j].report.att \in Attempts
    BY <1>0, EntryType
  <2>2. Current(ledger[s][j], s)
    BY <1>0 DEF RecordsCurrent
  <2>3. attempt'[ledger[s][j].report.att] = attempt[ledger[s][j].report.att]
    BY <2>1, <2>2, FinalStays DEF Current, Final
  <2> QED
    BY <1>1, <2>2, <2>3 DEF Current
<1>2. CASE ledger'[s] = ledger[s]
  BY <1>1, <1>2
<1>3. CASE ledger'[s] # ledger[s]
  <2>1. PICK r \in Requests :
          /\ SubmitCommit(r) /\ req[r].att \in Attempts
          /\ SessionOf[req[r].att] \in Sessions /\ NewEntry(r) \in Entry
          /\ ~HasRecord(StudentOf[req[r].att], SessionOf[req[r].att])
          /\ ledger' = [ledger EXCEPT ![SessionOf[req[r].att]] = Append(@, NewEntry(r))]
    BY <1>0, <1>3, LedgerStep
  <2>2. s = SessionOf[req[r].att] /\ ledger'[s] = Append(ledger[s], NewEntry(r))
    BY <1>0, <1>3, <2>1 DEF TypeOK
  <2>3. ledger[s] \in Seq(Entry) /\ Len(ledger[s]) \in Nat
    BY <1>0 DEF TypeOK
  <2>4. CASE i \in DOMAIN ledger[s]
    <3>1. ledger'[s][i] = ledger[s][i]
      BY <2>1, <2>2, <2>3, <2>4
    <3> QED
      BY <1>1, <2>4, <3>1
  <2>5. CASE i = Len(ledger[s]) + 1
    <3>1. ledger'[s][i] = NewEntry(r)
      BY <2>1, <2>2, <2>3, <2>5
    <3>2. SetStatus(req[r].att, "ACCEPTED")
      BY <2>1 DEF SubmitCommit
    <3>3. /\ attempt'[req[r].att].status = "ACCEPTED"
          /\ attempt'[req[r].att].chal = attempt[req[r].att].chal
      BY <1>0, <2>1, <3>2 DEF SetStatus, TypeOK, AttemptRow
    <3>4. /\ NewEntry(r).report.att = req[r].att
          /\ NewEntry(r).student = StudentOf[req[r].att]
          /\ NewEntry(r).report.chal = attempt[req[r].att].chal
      BY DEF NewEntry
    <3> QED
      BY <2>2, <3>1, <3>3, <3>4 DEF Current
  <2>6. i \in DOMAIN ledger[s] \/ i = Len(ledger[s]) + 1
    BY <2>1, <2>2, <2>3
  <2> QED
    BY <2>4, <2>5, <2>6
<1> QED
  BY <1>2, <1>3

\* With a client that waits, what a handler found of its attempt stands until it writes.
THEOREM SequentialInvariance == ~Overlap /\ Spec => []SequentialInv
<1>1. ~Overlap /\ Init => SequentialInv
  <2> SUFFICES ASSUME ~Overlap, Init
               PROVE  SequentialInv
    OBVIOUS
  <2>1. Inv
    BY InitInv
  <2>2. \A r \in Requests : req[r].pc = "idle"
    BY DEF Init, IdleRequest
  <2>3. OneRequest /\ StatusStands
    BY <2>2 DEF OneRequest, StatusStands
  <2>4. RecordsCurrent
    BY DEF Init, RecordsCurrent
  <2> QED
    BY <2>1, <2>3, <2>4 DEF SequentialInv
<1>2. SequentialInv /\ [Next]_vars => SequentialInv'
  <2>1. SequentialInv /\ [Next]_vars => Inv'
    BY NextType, NextLocks, NextVerdict, NextSequence, NextCheck, NextChain
       DEF SequentialInv, Inv
  <2> QED
    BY <2>1, NextOneRequest, NextStatusStands, NextRecordsCurrent DEF SequentialInv
<1> QED
  BY <1>1, <1>2, PTL DEF Spec

\* If the client of an attempt waits for each answer, the integrity check of the
\* dashboard finds every ledger valid at every moment: no late save of a status, a
\* challenge or an expiry reaches an attempt that has been accepted.
THEOREM LedgerAlwaysVerifies == ~Overlap /\ Spec => []LedgerVerifies
<1>1. SequentialInv => LedgerVerifies
  <2> SUFFICES ASSUME SequentialInv, NEW s \in Sessions, NEW i \in DOMAIN ledger[s]
               PROVE  LET e == ledger[s][i] IN
                      /\ \E a \in Accepted(e.student, s) : e.report = CurrentReport(a)
                      /\ e.prev = IF i = 1 THEN Genesis ELSE ledger[s][i - 1].report
    BY DEF LedgerVerifies, IntegrityValid
  <2>1. TypeOK /\ ChainLinear /\ RecordsCurrent
    BY DEF SequentialInv, Inv
  <2> DEFINE e == ledger[s][i]
             a == e.report.att
  <2>2. e \in Entry /\ a \in Attempts
    BY <2>1, EntryType
  <2>3. a \in Accepted(e.student, s)
    BY <2>1, <2>2 DEF RecordsCurrent, Current, Accepted
  <2>4. e.report = CurrentReport(a)
    BY <2>1, <2>2 DEF RecordsCurrent, Current, CurrentReport, Entry, Report
  <2> QED
    BY <2>1, <2>3, <2>4 DEF ChainLinear
<1> QED
  BY <1>1, SequentialInvariance, PTL

\* Under the same premise ACCEPTED, REJECTED and EXPIRED are final, although liveness
\* and challenge read the row without a lock and save it later.
THEOREM FinalStatusStands == ~Overlap /\ Spec => FinalIsFinal
<1>1. SequentialInv /\ [Next]_vars =>
        [\A a \in Attempts :
            attempt[a].status \in Final => attempt'[a].status = attempt[a].status]_vars
  BY FinalStays
<1> QED
  BY <1>1, SequentialInvariance, PTL DEF FinalIsFinal, Spec

===================================================================================
