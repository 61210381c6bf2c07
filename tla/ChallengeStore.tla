------------------------------ MODULE ChallengeStore ------------------------------
(***************************************************************************)
(* The store of issued nonces of the Attendance Agent,                     *)
(* attendance_agent/challenge_store.py.  Every method runs under the lock  *)
(* of the store, so each is one action; the clock is not under the lock    *)
(* and may move between two readings of one call.                          *)
(***************************************************************************)
EXTENDS Naturals

CONSTANTS
    Nonces,         \* secrets.token_hex(16): no nonce is drawn twice
    Sessions,
    TTL,            \* challenge_ttl_seconds                      (30 s)
    MaxTime,        \* bound on the clock, for model checking
    NoSession

ASSUME StoreAssumption ==
    /\ TTL \in Nat
    /\ MaxTime \in Nat
    /\ NoSession \notin Sessions

VARIABLES
    now,        \* the clock behind time.time()
    store,      \* _store: the entry of a nonce, Absent when there is none
    issued,     \* history: the nonces drawn so far
    uses        \* history: how often verify_and_consume has accepted a nonce

vars == <<now, store, issued, uses>>

Entry == [session : Sessions, expires : Nat, used : BOOLEAN]

Absent == [session |-> NoSession, expires |-> 0, used |-> FALSE]

TypeOK ==
    /\ now \in Nat
    /\ store \in [Nonces -> Entry \union {Absent}]
    /\ issued \subseteq Nonces
    /\ uses \in [Nonces -> Nat]

Init ==
    /\ now = 0
    /\ store = [n \in Nonces |-> Absent]
    /\ issued = {}
    /\ uses = [n \in Nonces |-> 0]

Stored(n) == store[n] # Absent

\* The store without the nonces of a set.
Without(gone) == [n \in Nonces |-> IF n \in gone THEN Absent ELSE store[n]]

-----------------------------------------------------------------------------------

\* The expiry is computed from the clock as it was before the lock was taken.
Issue(n, s, before) ==
    /\ n \notin issued
    /\ before <= now
    /\ issued' = issued \union {n}
    /\ store' = [store EXCEPT ![n] = [session |-> s, expires |-> before + TTL, used |-> FALSE]]
    /\ UNCHANGED <<now, uses>>

\* _purge_expired_locked
Purged == Without({n \in Nonces : Stored(n) /\ now > store[n].expires})

\* Mutant: the entry is deleted as soon as it is used.
VerifyAndDelete(n, s) ==
    LET kept == Purged IN
    /\ now' \in {now, now + 1} /\ now' <= MaxTime
    /\ IF kept[n].session = s /\ now' <= kept[n].expires
       THEN /\ store' = [kept EXCEPT ![n] = Absent]
            /\ uses' = [uses EXCEPT ![n] = @ + 1]
       ELSE store' = kept /\ UNCHANGED uses
    /\ UNCHANGED issued

\* Mutant: the purge is trusted to have removed every entry that is too old.
VerifyAfterPurge(n, s) ==
    LET kept == Purged IN
    /\ now' \in {now, now + 1} /\ now' <= MaxTime
    /\ IF kept[n].session = s /\ ~kept[n].used
       THEN /\ store' = [kept EXCEPT ![n].used = TRUE]
            /\ uses' = [uses EXCEPT ![n] = @ + 1]
       ELSE store' = kept /\ UNCHANGED uses
    /\ UNCHANGED issued

\* Mutant: a nonce that was used is not refused.
VerifyAgain(n, s) ==
    LET kept == Purged IN
    /\ now' \in {now, now + 1} /\ now' <= MaxTime
    /\ IF kept[n].session = s /\ now' <= kept[n].expires
       THEN /\ store' = [kept EXCEPT ![n].used = TRUE]
            /\ uses' = [uses EXCEPT ![n] = @ + 1]
       ELSE store' = kept /\ UNCHANGED uses
    /\ UNCHANGED issued

\* The purge reads the clock, the check of the entry reads it again.
VerifyAndConsume(n, s) ==
    LET kept == Purged IN
    /\ now' \in {now, now + 1} /\ now' <= MaxTime
    /\ \/ /\ kept[n].session # s                \* unknown_nonce, session_id_mismatch
          /\ store' = kept
          /\ UNCHANGED uses
       \/ /\ kept[n].session = s
          /\ now' > kept[n].expires             \* challenge_expired
          /\ store' = [kept EXCEPT ![n] = Absent]
          /\ UNCHANGED uses
       \/ /\ kept[n].session = s
          /\ now' <= kept[n].expires
          /\ kept[n].used                       \* replay_attack
          /\ store' = kept
          /\ UNCHANGED uses
       \/ /\ kept[n].session = s
          /\ now' <= kept[n].expires
          /\ ~kept[n].used                      \* ok
          /\ store' = [kept EXCEPT ![n].used = TRUE]
          /\ uses' = [uses EXCEPT ![n] = @ + 1]
    /\ UNCHANGED issued

\* Mutant: a revoked entry is emptied, not deleted.
RevokeAndKeep(s) ==
    /\ store' = [n \in Nonces |-> IF store[n].session = s
                                  THEN [store[n] EXCEPT !.session = NoSession] ELSE store[n]]
    /\ UNCHANGED <<now, issued, uses>>

RevokeSession(s) ==
    /\ store' = Without({n \in Nonces : store[n].session = s})
    /\ UNCHANGED <<now, issued, uses>>

Tick ==
    /\ now < MaxTime
    /\ now' = now + 1
    /\ UNCHANGED <<store, issued, uses>>

Next ==
    \/ \E n \in Nonces, s \in Sessions :
          \/ \E before \in 0..now : Issue(n, s, before)
          \/ VerifyAndConsume(n, s)
    \/ \E s \in Sessions : RevokeSession(s)
    \/ Tick

Spec == Init /\ [][Next]_vars

-----------------------------------------------------------------------------------

\* A nonce is accepted only inside its lifetime, even when the clock passes its
\* end between the purge and the check of one call.
AcceptedInTime ==
    [][\A n \in Nonces : uses'[n] > uses[n] => Stored(n) /\ now' <= store[n].expires]_vars

\* "do NOT delete yet so replay within TTL is caught": an entry, used or not, is
\* remembered until it is too old or its session is revoked.
RememberedForItsLifetime ==
    [][\A n \in Nonces :
          Stored(n) /\ ~Stored(n)' =>
              \/ now' > store[n].expires
              \/ \E s \in Sessions : store[n].session = s /\ RevokeSession(s)]_vars

\* "every nonce is invalidated after first verification": the store implements
\* the abstract one-time nonce, and what is revoked or purged never comes back.
OneTime == INSTANCE OneTimeNonce WITH
    phase <- [n \in Nonces |-> IF n \notin issued THEN "fresh"
                               ELSE IF Stored(n) THEN "live" ELSE "over"]

OneTimeSpec == OneTime!Spec

===================================================================================
