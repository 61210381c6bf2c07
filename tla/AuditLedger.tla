-------------------------------- MODULE AuditLedger --------------------------------
(***************************************************************************)
(* The audit ledger of one session and the two integrity checks of it,     *)
(* while records and accounts are deleted (core/audit_service.py,          *)
(* core/attendance_service.py, core/admin.py, core/management/commands).   *)
(* A submission is one step: it holds the lock of the session row.         *)
(***************************************************************************)
EXTENDS Integers, Sequences, FiniteSetsExt

CONSTANTS
    Pupils,
    Tries,          \* ids of accepted attempts, in the order of their primary keys
    TryOf           \* the student of an attempt

ASSUME TryAssumption ==
    /\ Tries \subseteq Nat
    /\ TryOf \in [Tries -> Pupils]

VARIABLES
    account,        \* the User rows of students
    sessionRow,     \* does the row of the session exist?
    accepted,       \* rows of AttendanceAttempt that are ACCEPTED
    entries,        \* records with their audit entries
    before          \* history: what the ledger held when an attempt was recorded

ledgerVars == <<account, sessionRow, accepted, entries, before>>

\* Hashes are injective: a report hash is its attempt, a chained hash the students
\* it stands for, in order; previous is the report hash linked to, if there is one.
LedgerEntry ==
    [attempt : Tries, previous : {<<>>} \union {<<a>> : a \in Tries},
     chained : Seq(Pupils), signed_at : Nat]

LedgerTypeOK ==
    /\ account \in [Pupils -> {"none", "exists", "deleted"}]
    /\ sessionRow \in BOOLEAN
    /\ accepted \subseteq Tries
    /\ entries \subseteq LedgerEntry
    /\ before \in [Tries -> SUBSET Tries]

LedgerInit ==
    /\ account = [s \in Pupils |-> "none"]
    /\ sessionRow = TRUE
    /\ accepted = {}
    /\ entries = {}
    /\ before = [a \in Tries |-> {}]

Recorded == {e.attempt : e \in entries}

\* order_by('signed_at'): the entries before one of them, and the last of some.
Earlier(e) == {d \in entries : d.signed_at < e.signed_at}
LastOf(ledger) == CHOOSE e \in ledger : \A d \in ledger : d.signed_at <= e.signed_at

\* The hash of the report in the last entry, and the chained hash of its record.
LinkTo(ledger) == IF ledger = {} THEN <<>> ELSE <<LastOf(ledger).attempt>>
ChainOf(ledger) == IF ledger = {} THEN <<>> ELSE LastOf(ledger).chained

\* Mutant: the entry is linked to the first one of the session.
FirstHash == LinkTo({e \in entries : Earlier(e) = {}})

\* What create_audit_entry_v2 links to.
PreviousHash == LinkTo(entries)

\* auto_now_add: later than every entry that is there.
SignTime == IF entries = {} THEN 1 ELSE LastOf(entries).signed_at + 1

------------------------------------------------------------------------------------

\* create_students; a deleted account does not come back under its id.
CreateStudents(S) ==
    /\ S # {}
    /\ \A s \in S : account[s] = "none"
    /\ account' = [s \in Pupils |-> IF s \in S THEN "exists" ELSE account[s]]
    /\ UNCHANGED <<sessionRow, accepted, entries, before>>

\* submit_attendance_v2 accepts an attempt of a student who has no record.
Accept(a) ==
    /\ sessionRow
    /\ account[TryOf[a]] = "exists"
    /\ a \notin accepted
    /\ \A b \in Recorded : TryOf[b] # TryOf[a]
    /\ accepted' = accepted \union {a}
    /\ entries' = entries \union {[attempt |-> a,
                                   previous |-> PreviousHash,
                                   chained |-> Append(ChainOf(entries), TryOf[a]),
                                   signed_at |-> SignTime]}
    /\ before' = [before EXCEPT ![a] = Recorded]
    /\ UNCHANGED <<account, sessionRow>>

Without(gone) == {e \in entries : e.attempt \notin gone}

\* delete_users, or an administrator: attempts, records and entries go with them.
DeleteUsers(S) ==
    LET gone == {a \in Tries : TryOf[a] \in S}
    IN  /\ S # {}
        /\ \A s \in S : account[s] = "exists"
        /\ account' = [s \in Pupils |-> IF s \in S THEN "deleted" ELSE account[s]]
        /\ accepted' = accepted \ gone
        /\ entries' = Without(gone)
        /\ UNCHANGED <<sessionRow, before>>

\* An administrator deletes a record: its entry goes with it, the attempt stays.
DeleteRecord(a) ==
    /\ a \in Recorded
    /\ entries' = Without({a})
    /\ UNCHANGED <<account, sessionRow, accepted, before>>

\* An administrator deletes the session, or the account of its professor.
DeleteSession ==
    /\ sessionRow
    /\ sessionRow' = FALSE
    /\ accepted' = {}
    /\ entries' = {}
    /\ UNCHANGED <<account, before>>

LedgerNext ==
    \/ \E S \in SUBSET Pupils : CreateStudents(S) \/ DeleteUsers(S)
    \/ \E a \in Tries : Accept(a) \/ DeleteRecord(a)
    \/ DeleteSession

LedgerSpec == LedgerInit /\ [][LedgerNext]_ledgerVars

------------------------------------------------------------------------------------

\* The accepted attempt that the check takes for an entry: the first by primary key.
Matching(e) ==
    LET same == {a \in accepted : TryOf[a] = TryOf[e.attempt]}
    IN  IF same = {} THEN {} ELSE {Min(same)}

\* Mutant: the link is not compared.
EntryValidUnlinked(e) == Matching(e) = {e.attempt}

EntryValid(e) ==
    /\ Matching(e) = {e.attempt}
    /\ e.previous = LinkTo(Earlier(e))

\* verify_v2_session_integrity
V2Valid == \A e \in entries : EntryValid(e)

\* verify_session_integrity, over the chained hashes of the records.
LegacyValid ==
    \A e \in entries : e.chained = Append(ChainOf(Earlier(e)), TryOf[e.attempt])

Deleted ==
    \/ ~sessionRow
    \/ accepted \ Recorded # {}
    \/ \E s \in Pupils : account[s] = "deleted"

\* A ledger from which nothing was deleted passes both checks.
UntouchedVerifies ==
    ~Deleted => V2Valid /\ LegacyValid

\* A ledger that passes a check holds all that was there when any of its entries
\* was added: what is missing from it came last.
InnerDeletionDetected ==
    V2Valid \/ LegacyValid => \A a \in Recorded : before[a] \subseteq Recorded

\* A ledger that passes the check of V2 holds all that was ever accepted in it
\* (SECURE_PRESENCE_V2.md: it detects modified records or deleted entries).
DeletionDetected ==
    sessionRow /\ V2Valid => \A a \in accepted : a \in Recorded

====================================================================================
