---------------------------- MODULE AttendanceProtocol ----------------------------
(***************************************************************************)
(* The Secure Presence V2 protocol of core/secure_presence_v2_service.py:  *)
(* start an attempt, pass liveness, obtain a signing challenge, submit.    *)
(*                                                                         *)
(* The web server runs every HTTP request in a worker thread of its own    *)
(* (gunicorn, 4 workers x 2 threads) on PostgreSQL at READ COMMITTED in    *)
(* autocommit: a handler is a sequence of database statements, and the     *)
(* statements of concurrent handlers interleave.  Only submit is a         *)
(* transaction; it locks the attempt row, then the session row, and its    *)
(* writes appear when it commits.  A lock is held exactly while some       *)
(* request is at a program point inside the transaction, so the locks are  *)
(* operators of the program counters and need no variable.                 *)
(*                                                                         *)
(* An early return that writes nothing changes no state: it is the absence *)
(* of a step, or the step that returns the request to "idle".              *)
(***************************************************************************)
EXTENDS Naturals, Sequences

CONSTANTS
    Students,
    Sessions,
    Attempts,           \* attempt ids (UUIDs); each is created at most once
    Requests,           \* worker threads
    StudentOf,          \* the student who will own the attempt
    SessionOf,          \* the session it will be for
    AttemptTTL,         \* attempt.expires_at - creation         (5 min)
    ChallengeTTL,       \* challenge_expires_at - issue          (120 s)
    HeartbeatMaxAge,    \* PRESENCE_HEARTBEAT_MAX_AGE_SECONDS    (45 s)
    SessionTTL,         \* session.expiry - creation             (30 min)
    MaxTime,            \* bound on the clock, for model checking
    Overlap,            \* may a client have two requests in flight on one attempt?
    NoAttempt

ASSUME ProtocolAssumption ==
    /\ StudentOf \in [Attempts -> Students]
    /\ SessionOf \in [Attempts -> Sessions]
    /\ AttemptTTL \in Nat
    /\ ChallengeTTL \in Nat
    /\ HeartbeatMaxAge \in Nat
    /\ SessionTTL \in Nat
    /\ MaxTime \in Nat
    /\ Overlap \in BOOLEAN
    /\ NoAttempt \notin Attempts

VARIABLES
    now,        \* the clock behind timezone.now()
    attempt,    \* attempt rows
    liveness,   \* the LivenessVerification row of an attempt (one-to-one)
    heartbeat,  \* time of the last PresenceHeartbeat row, plus one; 0 when none
    session,    \* session rows
    ledger,     \* per session: attendance records with their audit entries
    req         \* per worker thread: program point and locals of its handler

vars == <<now, attempt, liveness, heartbeat, session, ledger, req>>

Status == {"ABSENT", "LIVENESS_PENDING", "BIOMETRIC_VERIFIED", "CHALLENGE_ISSUED",
           "ACCEPTED", "REJECTED", "EXPIRED"}

Final == {"ACCEPTED", "REJECTED", "EXPIRED"}

\* Mutant: the audit entry is written after the transaction of the checks.
HoldsSessionToVerify == {"sub_verify"}

\* The program points at which submit holds the row of its attempt, and of
\* the session as well.
HoldsSession == {"sub_verify", "sub_commit"}
HoldsAttempt == HoldsSession \union {"sub_session"}

Point == HoldsAttempt \union
         {"idle", "start_enrol", "start_create", "beat", "expire",
          "live_verify", "live_save", "chal_beat", "chal_save"}

AttemptRow == [status : Status, expires : Nat, chal : Nat, chalExpires : Nat]

\* What generate_canonical_report_v2 hashes, reduced to what can differ between
\* two reports: the attempt (its student, session and liveness row never change)
\* and the challenge, renewed with its issue time.
Report == [att : Attempts, chal : Nat]
Genesis == [att |-> NoAttempt, chal |-> 0]
Link == Report \union {Genesis}

Entry == [student : Students, report : Report, prev : Link]

Request == [pc : Point, att : Attempts \union {NoAttempt}, tail : Link]

IdleRequest == [pc |-> "idle", att |-> NoAttempt, tail |-> Genesis]

TypeOK ==
    /\ now \in Nat
    /\ attempt \in [Attempts -> AttemptRow]
    /\ liveness \in [Attempts -> {"NONE", "PASSED", "FAILED"}]
    /\ heartbeat \in [Attempts -> Nat]
    /\ session \in [Sessions -> [active : BOOLEAN, expiry : Nat]]
    /\ ledger \in [Sessions -> Seq(Entry)]
    /\ req \in [Requests -> Request]
    /\ \A r \in Requests : req[r].pc # "idle" => req[r].att \in Attempts

Init ==
    /\ now = 0
    /\ attempt = [a \in Attempts |->
                    [status |-> "ABSENT", expires |-> 0, chal |-> 0, chalExpires |-> 0]]
    /\ liveness = [a \in Attempts |-> "NONE"]
    /\ heartbeat = [a \in Attempts |-> 0]
    /\ session = [s \in Sessions |-> [active |-> TRUE, expiry |-> SessionTTL]]
    /\ ledger = [s \in Sessions |-> <<>>]
    /\ req = [r \in Requests |-> IdleRequest]

-----------------------------------------------------------------------------------
(* Rows and locks. *)

\* select_for_update on the attempt row: every other write of the row, and every
\* insert of a row that refers to it, waits.
AttemptLocked(a) == \E q \in Requests : req[q].att = a /\ req[q].pc \in HoldsAttempt

\* Mutant: submit reads the session row without select_for_update.
SessionNeverLocked(s) == FALSE

\* select_for_update on the session row.
SessionLocked(s) ==
    \E q \in Requests : /\ req[q].pc \in HoldsSession
                        /\ SessionOf[req[q].att] = s

\* AttendanceRecord.objects.filter(student=..., session=...).exists()
HasRecord(st, s) == \E i \in DOMAIN ledger[s] : ledger[s][i].student = st

\* has_recent_valid_heartbeat
RecentHeartbeat(a) == heartbeat[a] # 0 /\ now < heartbeat[a] + HeartbeatMaxAge

\* The session is active and its 30 minutes are not over.
Open(s) == session[s].active /\ now <= session[s].expiry

\* The hash the next audit entry of the session links to.
LastReport(s) == IF ledger[s] = <<>> THEN Genesis ELSE ledger[s][Len(ledger[s])].report

SetStatus(a, st) == attempt' = [attempt EXCEPT ![a].status = st]

Goto(r, p) == req' = [req EXCEPT ![r].pc = p]

\* The handler returns: its locals are gone, its transaction is over.
Return(r) == req' = [req EXCEPT ![r] = IdleRequest]

\* A worker takes up a request on attempt a and reaches point p.
Enter(r, a, p) == req' = [req EXCEPT ![r] = [pc |-> p, att |-> a, tail |-> Genesis]]

\* A thread is free, and a client that waits for each answer has no other
\* request in flight on this attempt.
MayEnter(r, a) ==
    /\ req[r].pc = "idle"
    /\ Overlap \/ \A q \in Requests : req[q].att # a

At(r, p) == req[r].pc = p

-----------------------------------------------------------------------------------
(* start_attendance_attempt *)

\* The session is found open.  Whether the agent challenge verifies is decided
\* by agent_verification.py; a failure returns without effect.
StartSession(r, a) ==
    /\ At(r, "idle")
    /\ attempt[a].status = "ABSENT"
    /\ \A q \in Requests : req[q].att # a
    /\ Open(SessionOf[a])
    /\ Enter(r, a, "start_enrol")
    /\ UNCHANGED <<now, attempt, liveness, heartbeat, session, ledger>>

\* No record yet and an active passkey, or an error to the student.
StartEnrol(r) ==
    LET a == req[r].att IN
    /\ At(r, "start_enrol")
    /\ \/ ~HasRecord(StudentOf[a], SessionOf[a]) /\ Goto(r, "start_create")
       \/ Return(r)
    /\ UNCHANGED <<now, attempt, liveness, heartbeat, session, ledger>>

\* AttendanceAttempt.objects.create; the foreign key waits for the session row.
StartCreate(r) ==
    LET a == req[r].att IN
    /\ At(r, "start_create")
    /\ ~SessionLocked(SessionOf[a])
    /\ attempt' = [attempt EXCEPT ![a].status = "LIVENESS_PENDING",
                                  ![a].expires = now + AttemptTTL]
    /\ Goto(r, "beat")
    /\ UNCHANGED <<now, liveness, heartbeat, session, ledger>>

\* record_presence_heartbeat, the last statement of start and of a passed liveness.
RecordBeat(r) ==
    LET a == req[r].att IN
    /\ At(r, "beat")
    /\ ~AttemptLocked(a)
    /\ heartbeat' = [heartbeat EXCEPT ![a] = now + 1]
    /\ Return(r)
    /\ UNCHANGED <<now, attempt, liveness, session, ledger>>

\* presence_heartbeat_v2_view: any attempt of the student, whatever its status.
Heartbeat(a) ==
    /\ attempt[a].status # "ABSENT"
    /\ ~AttemptLocked(a)
    /\ heartbeat' = [heartbeat EXCEPT ![a] = now + 1]
    /\ UNCHANGED <<now, attempt, liveness, session, ledger, req>>

-----------------------------------------------------------------------------------
(* process_liveness_verification: reads the row once, writes it back at the end. *)

LivenessRead(r, a) ==
    /\ MayEnter(r, a)
    /\ attempt[a].status = "LIVENESS_PENDING"
    /\ Enter(r, a, IF now > attempt[a].expires THEN "expire" ELSE "live_verify")
    /\ UNCHANGED <<now, attempt, liveness, heartbeat, session, ledger>>

\* The save of EXPIRED, in liveness and in issue_signing_challenge_v2: it follows
\* the read without a lock and overwrites whatever the row holds by then.
MarkExpired(r) ==
    LET a == req[r].att IN
    /\ At(r, "expire")
    /\ ~AttemptLocked(a)
    /\ SetStatus(a, "EXPIRED")
    /\ Return(r)
    /\ UNCHANGED <<now, liveness, heartbeat, session, ledger>>

\* The verifier decides and the verdict is inserted; the one-to-one key refuses
\* a second verdict and the request ends with an error.
LivenessDecide(r) ==
    LET a == req[r].att IN
    /\ At(r, "live_verify")
    /\ ~AttemptLocked(a)
    /\ \/ /\ liveness[a] = "NONE"
          /\ \E verdict \in {"PASSED", "FAILED"} : liveness' = [liveness EXCEPT ![a] = verdict]
          /\ Goto(r, "live_save")
       \/ /\ liveness[a] # "NONE"
          /\ Return(r)
          /\ UNCHANGED liveness
    /\ UNCHANGED <<now, attempt, heartbeat, session, ledger>>

\* Mutant: the LivenessStatus is saved in place of an AttemptStatus.
LivenessSaveVerdict(r) ==
    LET a == req[r].att IN
    /\ At(r, "live_save")
    /\ ~AttemptLocked(a)
    /\ SetStatus(a, liveness[a])
    /\ Goto(r, "beat")
    /\ UNCHANGED <<now, liveness, heartbeat, session, ledger>>

\* The status follows the verdict this request inserted.
LivenessSave(r) ==
    LET a == req[r].att IN
    /\ At(r, "live_save")
    /\ ~AttemptLocked(a)
    /\ \/ /\ liveness[a] = "PASSED"
          /\ SetStatus(a, "BIOMETRIC_VERIFIED")
          /\ Goto(r, "beat")
       \/ /\ liveness[a] # "PASSED"
          /\ SetStatus(a, "REJECTED")
          /\ Return(r)
    /\ UNCHANGED <<now, liveness, heartbeat, session, ledger>>

-----------------------------------------------------------------------------------
(* issue_signing_challenge_v2: the same read ... write, with no lock between. *)

\* Mutant: any attempt that is not over gets a challenge.
ChallengeReadUnfinished(r, a) ==
    /\ MayEnter(r, a)
    /\ attempt[a].status \notin Final \union {"ABSENT"}
    /\ Enter(r, a, IF now > attempt[a].expires THEN "expire" ELSE "chal_beat")
    /\ UNCHANGED <<now, attempt, liveness, heartbeat, session, ledger>>

\* Mutant: the stored verdict is checked in place of the status.
ChallengeReadVerdict(r, a) ==
    /\ MayEnter(r, a)
    /\ liveness[a] = "PASSED"
    /\ Enter(r, a, IF now > attempt[a].expires THEN "expire" ELSE "chal_beat")
    /\ UNCHANGED <<now, attempt, liveness, heartbeat, session, ledger>>

ChallengeRead(r, a) ==
    /\ MayEnter(r, a)
    /\ attempt[a].status = "BIOMETRIC_VERIFIED"
    /\ Enter(r, a, IF now > attempt[a].expires THEN "expire" ELSE "chal_beat")
    /\ UNCHANGED <<now, attempt, liveness, heartbeat, session, ledger>>

\* A recent heartbeat and an active passkey to build the options from, or an error.
ChallengeGate(r) ==
    /\ At(r, "chal_beat")
    /\ \/ RecentHeartbeat(req[r].att) /\ Goto(r, "chal_save")
       \/ Return(r)
    /\ UNCHANGED <<now, attempt, liveness, heartbeat, session, ledger>>

\* A fresh challenge replaces the one of the row, and the status with it.
ChallengeSave(r) ==
    LET a == req[r].att IN
    /\ At(r, "chal_save")
    /\ ~AttemptLocked(a)
    /\ attempt' = [attempt EXCEPT ![a].status = "CHALLENGE_ISSUED",
                                  ![a].chal = @ + 1,
                                  ![a].chalExpires = now + ChallengeTTL]
    /\ Return(r)
    /\ UNCHANGED <<now, liveness, heartbeat, session, ledger>>

-----------------------------------------------------------------------------------
(* submit_attendance_v2: one transaction.  A refusal commits the new status. *)

\* A refusal inside the transaction: the status is saved and the locks released.
Refuse(r, st) == SetStatus(req[r].att, st) /\ Return(r)

\* Mutant: the challenge is looked for, not the status.
SubmitLockChallenge(r, a) ==
    /\ MayEnter(r, a)
    /\ ~AttemptLocked(a)
    /\ attempt[a].chal # 0
    /\ now <= attempt[a].chalExpires
    /\ Enter(r, a, "sub_session")
    /\ UNCHANGED <<now, attempt, liveness, heartbeat, session, ledger>>

\* Lock the attempt row; only a live challenge goes on.
SubmitLockAttempt(r, a) ==
    /\ MayEnter(r, a)
    /\ ~AttemptLocked(a)
    /\ attempt[a].status = "CHALLENGE_ISSUED"
    /\ \/ /\ now > attempt[a].chalExpires
          /\ SetStatus(a, "EXPIRED")
          /\ UNCHANGED req
       \/ /\ now <= attempt[a].chalExpires
          /\ Enter(r, a, "sub_session")
          /\ UNCHANGED attempt
    /\ UNCHANGED <<now, liveness, heartbeat, session, ledger>>

\* Mutant: the session's state, found open at the start, is not checked again.
SubmitLockAnySession(r) ==
    LET a == req[r].att
        s == SessionOf[a] IN
    /\ At(r, "sub_session")
    /\ ~SessionLocked(s)
    /\ ~HasRecord(StudentOf[a], s)
    /\ Goto(r, "sub_verify")
    /\ UNCHANGED <<now, attempt, liveness, heartbeat, session, ledger>>

\* Lock the session row; it must be open and not yet record the student.
SubmitLockSession(r) ==
    LET a == req[r].att
        s == SessionOf[a] IN
    /\ At(r, "sub_session")
    /\ ~SessionLocked(s)
    /\ \/ /\ Open(s) /\ ~HasRecord(StudentOf[a], s)
          /\ Goto(r, "sub_verify")
          /\ UNCHANGED attempt
       \/ /\ ~Open(s) \/ HasRecord(StudentOf[a], s)
          /\ Refuse(r, "REJECTED")
    /\ UNCHANGED <<now, liveness, heartbeat, session, ledger>>

\* Mutant: a late heartbeat is waited for inside the transaction.
SubmitAwaitHeartbeat(r) ==
    /\ At(r, "sub_verify")
    /\ RecentHeartbeat(req[r].att)
    /\ req' = [req EXCEPT ![r].pc = "sub_commit",
                          ![r].tail = LastReport(SessionOf[req[r].att])]
    /\ UNCHANGED <<now, attempt, liveness, heartbeat, session, ledger>>

\* A recent heartbeat and a valid passkey assertion; then the chain is read.
SubmitVerify(r) ==
    LET a == req[r].att IN
    /\ At(r, "sub_verify")
    /\ \/ /\ RecentHeartbeat(a)
          /\ req' = [req EXCEPT ![r].pc = "sub_commit", ![r].tail = LastReport(SessionOf[a])]
          /\ UNCHANGED attempt
       \/ Refuse(r, "REJECTED")
    /\ UNCHANGED <<now, liveness, heartbeat, session, ledger>>

\* Accept, insert the record and its audit entry, commit.  The unique constraint
\* on (student, session) would abort the whole transaction.
SubmitCommit(r) ==
    LET a == req[r].att
        s == SessionOf[a]
        entry == [student |-> StudentOf[a],
                  report |-> [att |-> a, chal |-> attempt[a].chal],
                  prev |-> req[r].tail] IN
    /\ At(r, "sub_commit")
    /\ \/ /\ ~HasRecord(StudentOf[a], s)
          /\ SetStatus(a, "ACCEPTED")
          /\ ledger' = [ledger EXCEPT ![s] = Append(@, entry)]
       \/ /\ HasRecord(StudentOf[a], s)
          /\ UNCHANGED <<attempt, ledger>>
    /\ Return(r)
    /\ UNCHANGED <<now, liveness, heartbeat, session>>

-----------------------------------------------------------------------------------
(* The environment. *)

\* A new session of the professor, or /agent/stop-session/, closes this one with
\* an UPDATE that waits for the row.
CloseSession(s) ==
    /\ session[s].active
    /\ ~SessionLocked(s)
    /\ session' = [session EXCEPT ![s].active = FALSE]
    /\ UNCHANGED <<now, attempt, liveness, heartbeat, ledger, req>>

\* A worker is killed or its connection lost: autocommitted statements stay,
\* an open transaction is rolled back.
RequestDies(r) ==
    /\ ~At(r, "idle")
    /\ Return(r)
    /\ UNCHANGED <<now, attempt, liveness, heartbeat, session, ledger>>

Tick ==
    /\ now < MaxTime
    /\ now' = now + 1
    /\ UNCHANGED <<attempt, liveness, heartbeat, session, ledger, req>>

-----------------------------------------------------------------------------------

\* The steps of a handler already running in thread r.
Step(r) ==
    \/ StartEnrol(r) \/ StartCreate(r) \/ RecordBeat(r)
    \/ MarkExpired(r)
    \/ LivenessDecide(r) \/ LivenessSave(r)
    \/ ChallengeGate(r) \/ ChallengeSave(r)
    \/ SubmitLockSession(r) \/ SubmitVerify(r) \/ SubmitCommit(r)

\* A request arrives at thread r.
Arrive(r, a) ==
    \/ StartSession(r, a)
    \/ LivenessRead(r, a)
    \/ ChallengeRead(r, a)
    \/ SubmitLockAttempt(r, a)

Next ==
    \/ \E r \in Requests : Step(r) \/ RequestDies(r)
    \/ \E r \in Requests, a \in Attempts : Arrive(r, a)
    \/ \E a \in Attempts : Heartbeat(a)
    \/ \E s \in Sessions : CloseSession(s)
    \/ Tick

Spec == Init /\ [][Next]_vars

\* Threads are scheduled, and PostgreSQL queues the waiters of a row lock, so a
\* request that can run or can get its lock again and again does so.  Nothing is
\* assumed of students, professors, crashes or the clock.
FairSpec == Spec /\ \A r \in Requests : SF_vars(Step(r))

-----------------------------------------------------------------------------------
(* Safety. *)

\* SECURE_PRESENCE_V2.md calls this the strict sequence: whatever the
\* interleaving, an attempt is past liveness, and an attendance record rests on
\* it, only when the server holds a PASSED verdict for that attempt.
StrictSequence ==
    /\ \A a \in Attempts :
          attempt[a].status \in {"BIOMETRIC_VERIFIED", "CHALLENGE_ISSUED", "ACCEPTED"}
              => liveness[a] = "PASSED"
    /\ \A s \in Sessions : \A i \in DOMAIN ledger[s] :
          liveness[ledger[s][i].report.att] = "PASSED"

\* The session lock makes the duplicate check of submit decisive: when a
\* transaction comes to insert its record, no other submission of that student
\* has inserted one since the check, so the unique constraint never aborts it.
NoConstraintAbort ==
    \A r \in Requests :
        At(r, "sub_commit") => ~HasRecord(StudentOf[req[r].att], SessionOf[req[r].att])

\* create_audit_entry_v2 reads the end of the chain and appends later; still the
\* entries of a session form one chain, without forks or gaps.
ChainLinear ==
    \A s \in Sessions : \A i \in DOMAIN ledger[s] :
        ledger[s][i].prev = IF i = 1 THEN Genesis ELSE ledger[s][i - 1].report

\* generate_canonical_report_v2 of an attempt, from the row as it is now.
CurrentReport(a) == [att |-> a, chal |-> attempt[a].chal]

Accepted(st, s) ==
    {a \in Attempts : /\ StudentOf[a] = st
                      /\ SessionOf[a] = s
                      /\ attempt[a].status = "ACCEPTED"}

\* verify_v2_session_integrity: an accepted attempt of the student, the same
\* report recomputed from it, and a link to the entry before.
IntegrityValid(s) ==
    \A i \in DOMAIN ledger[s] :
        LET e == ledger[s][i] IN
        /\ \E a \in Accepted(e.student, s) : e.report = CurrentReport(a)
        /\ e.prev = IF i = 1 THEN Genesis ELSE ledger[s][i - 1].report

\* Nothing in the protocol tampers with a ledger, so the integrity check of the
\* professor's dashboard finds every ledger valid at every moment.
LedgerVerifies == \A s \in Sessions : IntegrityValid(s)

\* ACCEPTED, REJECTED and EXPIRED are final: no handler that read the row before
\* brings the attempt back to life.
FinalIsFinal ==
    [][\A a \in Attempts :
          attempt[a].status \in Final => attempt'[a].status = attempt[a].status]_vars

\* The professor's view: each session's register grows only while the session is
\* open and names a student once, whatever requests do behind it.
Register == INSTANCE AttendanceRegister WITH
    open <- [s \in Sessions |-> session[s].active],
    roster <- [s \in Sessions |-> [i \in DOMAIN ledger[s] |-> ledger[s][i].student]]

RegisterSpec == Register!Spec

(* Liveness, of FairSpec. *)

\* Row locks are taken in one order, attempt before session, and given up when
\* the transaction ends: no request waits for ever.
RequestsComplete == \A r \in Requests : ~At(r, "idle") ~> At(r, "idle")

===================================================================================
