--------------------------- MODULE ChallengeStoreProofs ---------------------------
(***************************************************************************)
(* Proofs about ChallengeStore, for every set of nonces and sessions.      *)
(***************************************************************************)
EXTENDS ChallengeStore, TLAPS

Marked(n) == store[n].used

\* An entry belongs to a nonce that was drawn, and once a nonce is accepted the
\* store either has forgotten it or knows that it is used.
UsedIsMarked ==
    \A n \in Nonces :
        /\ Stored(n) => n \in issued
        /\ n \notin issued => uses[n] = 0
        /\ uses[n] \in {0, 1}
        /\ uses[n] = 1 /\ Stored(n) => Marked(n)

Inv == TypeOK /\ UsedIsMarked

\* No nonce is accepted twice.
AcceptedOnce == \A n \in Nonces : uses[n] <= 1

-----------------------------------------------------------------------------------

\* An entry is absent exactly when it names no session: an entry that was found
\* for a session is a stored one.
LEMMA StoredHasSession ==
    ASSUME TypeOK, NEW n \in Nonces
    PROVE  /\ Stored(n) <=> store[n].session \in Sessions
           /\ Stored(n) => store[n] \in Entry
  BY StoreAssumption DEF TypeOK, Stored, Entry, Absent

\* The purge keeps an entry as it is or forgets one that is too old.
LEMMA PurgedEntry ==
    ASSUME TypeOK, NEW n \in Nonces
    PROVE  /\ Purged \in [Nonces -> Entry \union {Absent}]
           /\ \/ Purged[n] = store[n]
              \/ Purged[n] = Absent /\ Stored(n) /\ now > store[n].expires
  BY DEF TypeOK, Purged, Without

\* What a call of verify_and_consume does to the entries and to the uses.
EntryKept(m) == store'[m] = store[m]
EntryTooOld(m) == store'[m] = Absent /\ Stored(m) /\ now' > store[m].expires
EntryMarked(m) == store'[m] = [store[m] EXCEPT !.used = TRUE] /\ Stored(m)

Accepts(n) ==
    /\ EntryMarked(n)
    /\ ~store[n].used
    /\ now' <= store[n].expires
    /\ uses' = [uses EXCEPT ![n] = @ + 1]

\* Every entry stays, is marked or is forgotten because it is too old, and only
\* an entry in its lifetime that was not used before is accepted.
LEMMA VerifyEffect ==
    ASSUME TypeOK, NEW n \in Nonces, NEW s \in Sessions, VerifyAndConsume(n, s)
    PROVE  /\ now' \in Nat /\ now' >= now
           /\ issued' = issued
           /\ store' \in [Nonces -> Entry \union {Absent}]
           /\ \A m \in Nonces : EntryKept(m) \/ EntryTooOld(m) \/ EntryMarked(m)
           /\ uses' = uses \/ Accepts(n)
<1> DEFINE kept == Purged
<1>1. kept \in [Nonces -> Entry \union {Absent}]
  BY PurgedEntry
<1>2. \A m \in Nonces : \/ kept[m] = store[m]
                        \/ kept[m] = Absent /\ Stored(m) /\ now > store[m].expires
  BY PurgedEntry
<1>3. now' \in Nat /\ now' >= now /\ issued' = issued
  BY DEF VerifyAndConsume, TypeOK
<1>4. kept[n].session = s => kept[n] = store[n] /\ Stored(n) /\ store[n] \in Entry
  BY <1>1, <1>2, StoredHasSession, StoreAssumption DEF Absent
<1>5. \A m \in Nonces : Stored(m) => store[m].expires \in Nat
  BY StoredHasSession DEF Entry
<1>6. now \in Nat
  BY DEF TypeOK
<1> HIDE DEF kept
<1>7. \A m \in Nonces : store'[m] = kept[m] => EntryKept(m) \/ EntryTooOld(m)
  BY <1>2, <1>3, <1>5, <1>6 DEF EntryKept, EntryTooOld
<1>8. CASE store' = kept /\ uses' = uses
  BY <1>1, <1>3, <1>7, <1>8
<1>9. CASE /\ kept[n].session = s
           /\ now' > kept[n].expires
           /\ store' = [kept EXCEPT ![n] = Absent]
           /\ uses' = uses
  <2>1. EntryTooOld(n)
    BY <1>1, <1>4, <1>9 DEF EntryTooOld
  <2>2. \A m \in Nonces : m # n => store'[m] = kept[m]
    BY <1>1, <1>9
  <2>3. store' \in [Nonces -> Entry \union {Absent}]
    BY <1>1, <1>9
  <2> QED
    BY <1>3, <1>7, <1>9, <2>1, <2>2, <2>3
<1>10. CASE /\ kept[n].session = s
            /\ now' <= kept[n].expires
            /\ ~kept[n].used
            /\ store' = [kept EXCEPT ![n].used = TRUE]
            /\ uses' = [uses EXCEPT ![n] = @ + 1]
  <2>1. EntryMarked(n)
    BY <1>1, <1>4, <1>10 DEF EntryMarked
  <2>2. store'[n] \in Entry
    BY <2>1, <1>4, <1>10 DEF Entry, EntryMarked
  <2>3. \A m \in Nonces : m # n => store'[m] = kept[m]
    BY <1>1, <1>10
  <2>4. store' \in [Nonces -> Entry \union {Absent}]
    BY <1>1, <1>10, <2>2
  <2>5. Accepts(n)
    BY <1>4, <1>10, <2>1 DEF Accepts
  <2> QED
    BY <1>3, <1>7, <2>1, <2>3, <2>4, <2>5
<1> QED
  BY <1>8, <1>9, <1>10 DEF VerifyAndConsume, kept

-----------------------------------------------------------------------------------

\* Each call keeps the invariant.
LEMMA NextKeepsInv == Inv /\ [Next]_vars => Inv'
<1> SUFFICES ASSUME Inv, [Next]_vars
             PROVE  Inv'
  OBVIOUS
<1>0. TypeOK /\ UsedIsMarked
  BY DEF Inv
<1>1. ASSUME NEW n \in Nonces, NEW s \in Sessions, NEW before \in 0..now, Issue(n, s, before)
      PROVE  Inv'
  <2>1. [session |-> s, expires |-> before + TTL, used |-> FALSE] \in Entry
    BY <1>0, StoreAssumption DEF Entry, TypeOK
  <2>2. TypeOK'
    BY <1>0, <1>1, <2>1 DEF Issue, TypeOK
  <2>3. UsedIsMarked'
    BY <1>0, <1>1 DEF Issue, TypeOK, UsedIsMarked, Stored, Marked
  <2> QED
    BY <2>2, <2>3 DEF Inv
<1>2. ASSUME NEW n \in Nonces, NEW s \in Sessions, VerifyAndConsume(n, s)
      PROVE  Inv'
  <2>1. /\ now' \in Nat
        /\ issued' = issued
        /\ store' \in [Nonces -> Entry \union {Absent}]
        /\ \A m \in Nonces : EntryKept(m) \/ EntryTooOld(m) \/ EntryMarked(m)
        /\ uses' = uses \/ Accepts(n)
    BY <1>0, <1>2, VerifyEffect
  <2>2. uses' \in [Nonces -> Nat]
    BY <1>0, <2>1 DEF TypeOK, Accepts
  <2>3. TypeOK'
    BY <1>0, <2>1, <2>2 DEF TypeOK
  <2>4. \A m \in Nonces : Stored(m)' => Stored(m)
    BY <2>1 DEF EntryKept, EntryTooOld, EntryMarked, Stored
  <2>5. \A m \in Nonces : EntryMarked(m) => Marked(m)'
    BY <1>0, StoredHasSession DEF EntryMarked, Entry, Marked
  <2>6. \A m \in Nonces : Stored(m)' /\ Marked(m) => Marked(m)'
    BY <2>1, <2>5 DEF EntryKept, EntryTooOld, Stored, Marked
  <2>7. ASSUME uses' = uses
        PROVE  UsedIsMarked'
    BY <1>0, <2>1, <2>4, <2>6, <2>7 DEF UsedIsMarked
  <2>8. ASSUME Accepts(n)
        PROVE  UsedIsMarked'
    <3>1. uses[n] = 0 /\ n \in issued
      BY <1>0, <2>8 DEF UsedIsMarked, Accepts, EntryMarked, Marked
    <3>2. uses'[n] = 1 /\ \A m \in Nonces : m # n => uses'[m] = uses[m]
      BY <1>0, <2>8, <3>1 DEF TypeOK, Accepts
    <3>3. Marked(n)'
      BY <2>5, <2>8 DEF Accepts
    <3> QED
      BY <1>0, <2>1, <2>4, <2>6, <3>1, <3>2, <3>3 DEF UsedIsMarked
  <2>9. UsedIsMarked'
    BY <2>1, <2>7, <2>8
  <2> QED
    BY <2>3, <2>9 DEF Inv
<1>3. ASSUME NEW s \in Sessions, RevokeSession(s)
      PROVE  Inv'
  BY <1>0, <1>3 DEF Inv, RevokeSession, Without, TypeOK, UsedIsMarked, Stored, Marked
<1>4. CASE Tick
  BY <1>0, <1>4 DEF Inv, Tick, TypeOK, UsedIsMarked, Stored, Marked
<1>5. CASE UNCHANGED vars
  BY <1>0, <1>5 DEF Inv, vars, TypeOK, UsedIsMarked, Stored, Marked
<1> QED
  BY <1>1, <1>2, <1>3, <1>4, <1>5 DEF Next

\* A stored nonce was drawn, and is marked as used if it was accepted.
THEOREM Invariance == Spec => []Inv
<1>1. Init => Inv
  BY DEF Init, Inv, TypeOK, UsedIsMarked, Stored, Marked
<1> QED
  BY <1>1, NextKeepsInv, PTL DEF Spec

\* The store is well typed.
THEOREM StoreTyped == Spec => []TypeOK
<1>1. Inv => TypeOK
  BY DEF Inv
<1> QED
  BY <1>1, Invariance, PTL

\* One-time use: verify_and_consume accepts a nonce at most once.
THEOREM NonceAcceptedOnce == Spec => []AcceptedOnce
<1>1. Inv => AcceptedOnce
  <2> SUFFICES ASSUME Inv, NEW n \in Nonces
               PROVE  uses[n] <= 1
    BY DEF AcceptedOnce
  <2>1. uses[n] = 0 \/ uses[n] = 1
    BY DEF Inv, UsedIsMarked
  <2> QED
    BY <2>1
<1> QED
  BY <1>1, Invariance, PTL

\* A nonce is accepted only inside its lifetime.
THEOREM NonceAcceptedInTime == Spec => AcceptedInTime
<1> DEFINE InTime == \A n \in Nonces : uses'[n] > uses[n] => Stored(n) /\ now' <= store[n].expires
<1>1. Inv /\ [Next]_vars => [InTime]_vars
  <2> SUFFICES ASSUME Inv, [Next]_vars, NEW m \in Nonces, uses'[m] > uses[m]
               PROVE  Stored(m) /\ now' <= store[m].expires
    OBVIOUS
  <2>0. TypeOK
    BY DEF Inv
  <2>1. uses' # uses
    BY <2>0 DEF TypeOK
  <2>2. PICK n \in Nonces, s \in Sessions : VerifyAndConsume(n, s)
    BY <2>1 DEF Next, vars, Issue, RevokeSession, Tick
  <2>3. Accepts(n)
    BY <2>0, <2>1, <2>2, VerifyEffect
  <2>4. m = n
    BY <2>0, <2>3 DEF TypeOK, Accepts
  <2> QED
    BY <2>3, <2>4 DEF Accepts, EntryMarked
<1> QED
  BY <1>1, Invariance, PTL DEF Spec, AcceptedInTime

\* An entry, used or not, is remembered until it is too old or its session is
\* revoked: a replay inside the lifetime of a nonce is recognised as one.
THEOREM EntryRemembered == Spec => RememberedForItsLifetime
<1> DEFINE Remembered ==
        \A n \in Nonces :
            Stored(n) /\ ~Stored(n)' =>
                \/ now' > store[n].expires
                \/ \E s \in Sessions : store[n].session = s /\ RevokeSession(s)
<1>1. Inv /\ [Next]_vars => [Remembered]_vars
  <2> SUFFICES ASSUME Inv, [Next]_vars, NEW m \in Nonces, Stored(m), ~Stored(m)'
               PROVE  \/ now' > store[m].expires
                      \/ \E s \in Sessions : store[m].session = s /\ RevokeSession(s)
    OBVIOUS
  <2>0. TypeOK
    BY DEF Inv
  <2>1. ASSUME NEW n \in Nonces, NEW s \in Sessions, NEW before \in 0..now, Issue(n, s, before)
        PROVE  FALSE
    <3>1. store'[m] = store[m] \/ store'[m].session = s
      BY <2>0, <2>1 DEF Issue, TypeOK
    <3> QED
      BY <3>1, StoreAssumption DEF Stored, Absent
  <2>2. ASSUME NEW n \in Nonces, NEW s \in Sessions, VerifyAndConsume(n, s)
        PROVE  now' > store[m].expires
    <3>1. EntryKept(m) \/ EntryTooOld(m) \/ EntryMarked(m)
      BY <2>0, <2>2, VerifyEffect
    <3>2. EntryMarked(m) => Stored(m)'
      BY <2>0, StoredHasSession, StoreAssumption DEF EntryMarked, Entry, Stored, Absent
    <3> QED
      BY <3>1, <3>2 DEF EntryKept, EntryTooOld, Stored
  <2>3. ASSUME NEW s \in Sessions, RevokeSession(s)
        PROVE  store[m].session = s /\ RevokeSession(s)
    BY <2>0, <2>3 DEF RevokeSession, Without, Stored
  <2>4. ~Tick /\ ~UNCHANGED vars
    BY DEF Tick, vars, Stored
  <2> QED
    BY <2>1, <2>2, <2>3, <2>4 DEF Next
<1> QED
  BY <1>1, Invariance, PTL DEF Spec, RememberedForItsLifetime

-----------------------------------------------------------------------------------

\* The store implements the one-time nonce.
THEOREM ImplementsOneTimeNonce == Spec => OneTimeSpec
<1> DEFINE Phase == [n \in Nonces |-> IF n \notin issued THEN "fresh"
                                      ELSE IF Stored(n) THEN "live" ELSE "over"]
<1>1. Init => OneTime!Init
  BY DEF Init, OneTime!Init, Stored
<1>2. Inv /\ [Next]_vars => [OneTime!Next]_(OneTime!vars)
  <2> SUFFICES ASSUME Inv, [Next]_vars
               PROVE  [OneTime!Next]_(OneTime!vars)
    OBVIOUS
  <2>0. TypeOK /\ UsedIsMarked
    BY DEF Inv
  <2>1. ASSUME NEW n \in Nonces, NEW s \in Sessions, NEW before \in 0..now, Issue(n, s, before)
        PROVE  OneTime!Next
    <3>1. n \notin issued /\ issued' = issued \union {n} /\ uses' = uses
      BY <2>1 DEF Issue
    <3>2. Stored(n)' /\ \A m \in Nonces : m # n => (Stored(m)' <=> Stored(m))
      BY <2>0, <2>1, StoreAssumption DEF Issue, TypeOK, Stored, Absent
    <3>3. OneTime!Issue(n)
      BY <3>1, <3>2 DEF OneTime!Issue
    <3> QED
      BY <3>3 DEF OneTime!Next
  <2>2. ASSUME NEW over \in SUBSET Nonces,
               issued' = issued,
               \A m \in over : Stored(m),
               \A m \in Nonces : Stored(m)' <=> Stored(m) /\ m \notin over,
               \/ uses' = uses
               \/ \E n \in Nonces \ over : /\ Stored(n) /\ uses[n] = 0
                                           /\ uses' = [uses EXCEPT ![n] = 1]
        PROVE  OneTime!Next
    <3>1. over \in SUBSET OneTime!Live
      BY <2>0, <2>2 DEF OneTime!Live, UsedIsMarked
    <3>2. OneTime!End(over)
      BY <2>0, <2>2 DEF OneTime!End, UsedIsMarked
    <3>3. \/ UNCHANGED uses
          \/ \E n \in OneTime!Live \ over : uses[n] = 0 /\ uses' = [uses EXCEPT ![n] = 1]
      BY <2>0, <2>2 DEF OneTime!Live, UsedIsMarked
    <3> QED
      BY <3>1, <3>2, <3>3 DEF OneTime!Next, OneTime!Check
  <2>3. ASSUME NEW n \in Nonces, NEW s \in Sessions, VerifyAndConsume(n, s)
        PROVE  OneTime!Next
    <3> DEFINE over == {m \in Nonces : Stored(m) /\ ~Stored(m)'}
    <3>1. /\ issued' = issued
          /\ \A m \in Nonces : EntryKept(m) \/ EntryTooOld(m) \/ EntryMarked(m)
          /\ uses' = uses \/ Accepts(n)
      BY <2>0, <2>3, VerifyEffect
    <3>2. \A m \in Nonces : Stored(m)' <=> Stored(m) /\ m \notin over
      BY <3>1 DEF Stored, EntryKept, EntryTooOld, EntryMarked
    <3>3. ASSUME Accepts(n)
          PROVE  /\ n \in Nonces \ over /\ Stored(n) /\ uses[n] = 0
                 /\ uses' = [uses EXCEPT ![n] = 1]
      <4>1. Stored(n) /\ uses[n] = 0
        BY <2>0, <3>3 DEF UsedIsMarked, Accepts, EntryMarked, Marked
      <4>2. Stored(n)'
        BY <2>0, <3>3, StoredHasSession, StoreAssumption
           DEF Stored, Entry, Absent, Accepts, EntryMarked
      <4>3. uses' = [uses EXCEPT ![n] = 1]
        BY <2>0, <3>3, <4>1 DEF TypeOK, Accepts
      <4> QED
        BY <4>1, <4>2, <4>3
    <3> QED
      BY <2>2, <3>1, <3>2, <3>3
  <2>4. ASSUME NEW s \in Sessions, RevokeSession(s)
        PROVE  OneTime!Next
    <3> DEFINE over == {m \in Nonces : store[m].session = s}
    <3>1. \A m \in over : Stored(m)
      BY <2>0, StoreAssumption DEF Stored, Absent
    <3>2. \A m \in Nonces : Stored(m)' <=> Stored(m) /\ m \notin over
      BY <2>0, <2>4 DEF RevokeSession, Without, Stored
    <3> QED
      BY <2>2, <2>4, <3>1, <3>2 DEF RevokeSession
  <2>5. CASE Tick \/ UNCHANGED vars
    BY <2>5 DEF Tick, vars, OneTime!vars, Stored
  <2> QED
    BY <2>1, <2>3, <2>4, <2>5 DEF Next
<1> QED
  BY <1>1, <1>2, Invariance, PTL DEF Spec, OneTimeSpec, OneTime!Spec

===================================================================================
