--------------------------------- MODULE Passkeys ---------------------------------
(***************************************************************************)
(* The passkeys of one student (core/webauthn_service.py and its views):   *)
(* registration with a challenge in the Django session, assertions with a  *)
(* signature counter, revocation by an administrator.                      *)
(***************************************************************************)
EXTENDS Integers, Workers

CONSTANTS
    Passes,         \* credential ids, made by an authenticator for one challenge each
    NoPass,
    MaxOptions,     \* bound on the registration challenges
    MaxSigns        \* bound on the counter of an authenticator

ASSUME PassAssumption ==
    /\ NoPass \notin Passes
    /\ MaxOptions \in Nat
    /\ MaxSigns \in Nat

VARIABLES
    pass,           \* rows of PasskeyCredential
    regChallenge,   \* session["passkey_reg_challenge"], a number; 0 is none
    options,        \* the registration challenges handed out
    madeFor,        \* the challenge an authenticator made a credential for
    offered,        \* the credentials in the options of an assertion
    signed,         \* the assertions an authenticator has made, by their counter
    serving,        \* per thread: the request and the row it has read
    confirmed       \* history: how often a challenge was answered with success

passVars == <<pass, regChallenge, options, madeFor, offered, signed, serving, confirmed>>

NoRow == [state |-> "none", counter |-> 0]

NoRequest == [pc |-> "idle", key |-> NoPass, count |-> 0]

PassTypeOK ==
    /\ pass \in [Passes -> [state : {"none", "active", "revoked"}, counter : Nat]]
    /\ regChallenge \in 0..options
    /\ options \in Nat
    /\ madeFor \in [Passes -> 0..options]
    /\ offered \subseteq Passes
    /\ signed \in [Passes -> Nat]
    /\ serving \in [Threads -> [pc : {"idle", "created", "asserted"},
                                key : Passes \union {NoPass}, count : Nat]]
    /\ confirmed \in [1..MaxOptions -> Nat]

PassInit ==
    /\ pass = [k \in Passes |-> NoRow]
    /\ regChallenge = 0
    /\ options = 0
    /\ madeFor = [k \in Passes |-> 0]
    /\ offered = {}
    /\ signed = [k \in Passes |-> 0]
    /\ serving = [t \in Threads |-> NoRequest]
    /\ confirmed = [n \in 1..MaxOptions |-> 0]

Active == {k \in Passes : pass[k].state = "active"}

MayCall(t) ==
    /\ serving[t] = NoRequest
    /\ Overlap \/ \A u \in Threads : serving[u] = NoRequest

Answered(t) == serving' = [serving EXCEPT ![t] = NoRequest]

------------------------------------------------------------------------------------

\* passkey_register_options_view: the challenge replaces the one in the session.
RegisterOptions(t) ==
    /\ MayCall(t)
    /\ options < MaxOptions
    /\ options' = options + 1
    /\ regChallenge' = options + 1
    /\ UNCHANGED <<pass, madeFor, offered, signed, serving, confirmed>>

\* An authenticator that none of the student's active passkeys excludes.
MakeCredential(k) ==
    /\ madeFor[k] = 0
    /\ options > 0
    /\ madeFor' = [madeFor EXCEPT ![k] = options]
    /\ UNCHANGED <<pass, regChallenge, options, offered, signed, serving, confirmed>>

\* verify_passkey_registration: update_or_create makes the row, or makes it anew.
RegisterVerify(t, k) ==
    /\ MayCall(t)
    /\ regChallenge # 0
    /\ madeFor[k] = regChallenge
    /\ pass' = [pass EXCEPT ![k] = [state |-> "active", counter |-> 0]]
    /\ serving' = [serving EXCEPT ![t] = [pc |-> "created", key |-> k, count |-> regChallenge]]
    /\ UNCHANGED <<regChallenge, options, madeFor, offered, signed, confirmed>>

\* Mutant: the challenge is left in the session.
RegisterKeep(t) ==
    /\ serving[t].pc = "created"
    /\ confirmed' = [confirmed EXCEPT ![serving[t].count] = @ + 1]
    /\ Answered(t)
    /\ UNCHANGED <<pass, regChallenge, options, madeFor, offered, signed>>

\* The challenge is taken out of the session, which is saved with the answer.
RegisterDone(t) ==
    /\ serving[t].pc = "created"
    /\ regChallenge' = 0
    /\ confirmed' = [confirmed EXCEPT ![serving[t].count] = @ + 1]
    /\ Answered(t)
    /\ UNCHANGED <<pass, options, madeFor, offered, signed>>

\* The worker dies: a row created is there, and so is its challenge; the counter of an
\* assertion is rolled back with the transaction of its submission.
PassRequestDies(t) ==
    /\ serving[t].pc # "idle"
    /\ Answered(t)
    /\ UNCHANGED <<pass, regChallenge, options, madeFor, offered, signed, confirmed>>

\* generate_passkey_authentication_options
AssertOptions(t) ==
    /\ MayCall(t)
    /\ Active # {}
    /\ offered' = Active
    /\ UNCHANGED <<pass, regChallenge, options, madeFor, signed, serving, confirmed>>

\* The authenticator of an offered credential signs; its counter goes up.
Sign(k) ==
    /\ k \in offered
    /\ signed[k] < MaxSigns
    /\ signed' = [signed EXCEPT ![k] = @ + 1]
    /\ UNCHANGED <<pass, regChallenge, options, madeFor, offered, serving, confirmed>>

\* Mutant: the counter of the row is not compared.
AnyCount(k, n) == n \in 1..signed[k]

\* webauthn.verify_authentication_response: an assertion made, with a larger counter.
Larger(k, n) == n \in pass[k].counter + 1..signed[k]

\* verify_passkey_authentication reads a row that is not revoked.
AssertVerify(t, k, n) ==
    /\ MayCall(t)
    /\ pass[k].state = "active"
    /\ Larger(k, n)
    /\ serving' = [serving EXCEPT ![t] = [pc |-> "asserted", key |-> k, count |-> n]]
    /\ UNCHANGED <<pass, regChallenge, options, madeFor, offered, signed, confirmed>>

\* Mutant: save() writes the whole row as it was read.
AssertSaveRow(t) ==
    /\ serving[t].pc = "asserted"
    /\ pass' = [pass EXCEPT ![serving[t].key] = [state |-> "active", counter |-> serving[t].count]]
    /\ Answered(t)
    /\ UNCHANGED <<regChallenge, options, madeFor, offered, signed, confirmed>>

\* save(update_fields=['sign_counter', 'updated_at'])
AssertSave(t) ==
    /\ serving[t].pc = "asserted"
    /\ pass' = [pass EXCEPT ![serving[t].key].counter = serving[t].count]
    /\ Answered(t)
    /\ UNCHANGED <<regChallenge, options, madeFor, offered, signed, confirmed>>

\* revoke_passkey_v2_view saves its one column.
Revoke(k) ==
    /\ pass[k].state = "active"
    /\ pass' = [pass EXCEPT ![k].state = "revoked"]
    /\ UNCHANGED <<regChallenge, options, madeFor, offered, signed, serving, confirmed>>

PassNext ==
    \/ \E t \in Threads :
        \/ RegisterOptions(t) \/ RegisterDone(t) \/ PassRequestDies(t)
        \/ AssertOptions(t) \/ AssertSave(t)
    \/ \E t \in Threads, k \in Passes : RegisterVerify(t, k)
    \/ \E t \in Threads, k \in Passes, n \in 1..MaxSigns : AssertVerify(t, k, n)
    \/ \E k \in Passes : MakeCredential(k) \/ Sign(k) \/ Revoke(k)

PassSpec == PassInit /\ [][PassNext]_passVars

------------------------------------------------------------------------------------

\* Its own registration can be repeated: the worker died before it took the
\* challenge of the credential out of the session.
Repeatable(k) == regChallenge # 0 /\ madeFor[k] = regChallenge

\* A revoked passkey stays revoked, unless its own registration is sent again
\* (Repeatable), which makes the row anew.  About assertions that read the row before
\* the revocation and save after it.
RevocationStays ==
    [][\A k \in Passes :
        pass[k].state = "revoked" /\ ~Repeatable(k) => pass'[k].state = "revoked"]_passVars

\* The counter of a passkey never goes down ("monotonic"), unless its registration is
\* sent again, and as long as the student waits for each answer: of two assertions
\* served at once the one with the smaller counter may save last.  About the counter
\* across assertions, revocations and workers that die between its check and its save.
CounterStays ==
    [][\A k \in Passes :
        ~Repeatable(k) => pass'[k].counter >= pass[k].counter]_passVars

\* A challenge is answered with success once at most, whichever credentials are made
\* for it and whichever workers die, as long as the student waits for each answer: two
\* requests served at once both find the challenge in the session.  About the challenge
\* kept there until the row is written.
ConfirmedOnce ==
    \A n \in 1..options : confirmed[n] <= 1

====================================================================================
