-------------------------------- MODULE CacheProofs --------------------------------
(***************************************************************************)
(* Proofs about the three parts of the server that keep their state in the *)
(* cache of a process: AgentVerification, RateLimit and LivenessNonce, for *)
(* every number of processes and threads and every lifetime of a key.      *)
(***************************************************************************)
EXTENDS AgentVerification, RateLimit, LivenessNonce, FiniteSetTheorems, TLAPS

(***************************************************************************)
(* AgentVerification                                                       *)
(***************************************************************************)

\* The key of a used nonce ends after the last moment its challenge is fresh.
Outlived(p, c) == usedUntil[p][c] > stamp[c] + ChallengeTTL
OutlivedNext(p, c) == usedUntil'[p][c] > stamp'[c] + ChallengeTTL

\* A thread under way has a challenge with which it opened nothing in the life of its
\* cache; it is not from the future, and its key is set before the attempt is created.
CheckStands ==
    \A t \in Threads : check[t].pc # "idle" =>
        /\ startedHere[t][check[t].challenge] = 0
        /\ check[t].pc = "signature" => stamp[check[t].challenge] <= now
        /\ check[t].pc = "create" => Outlived(ProcessOf[t], check[t].challenge)

\* The process of a thread that opened an attempt knows its challenge for as long as it
\* is fresh, whichever of its threads marked it last.
StartedIsKnown ==
    \A t \in Threads, c \in Challenges :
        /\ c \notin issued => startedHere[t][c] = 0
        /\ startedHere[t][c] # 0 => Outlived(ProcessOf[t], c)

VerificationInv ==
    /\ VerificationTypeOK
    /\ CheckStands
    /\ StartedIsKnown
    /\ OncePerThread

------------------------------------------------------------------------------------

LEMMA InitVerificationTyped == CacheInit /\ VerificationInit => VerificationTypeOK
  BY WorkersAssumption, VerificationAssumption
     DEF CacheInit, VerificationInit, VerificationTypeOK, Resting, Checks

LEMMA InitVerificationInv == CacheInit /\ VerificationInit => VerificationInv
<1> SUFFICES ASSUME CacheInit, VerificationInit
             PROVE  VerificationInv
  OBVIOUS
<1>1. VerificationTypeOK
  BY InitVerificationTyped
<1>2. \A t \in Threads : check[t].pc = "idle" /\ check[t].challenge \notin Challenges
  BY VerificationAssumption DEF VerificationInit, Resting
<1>3. \A t \in Threads, c \in Challenges : startedHere[t][c] = 0
  BY DEF VerificationInit
<1> QED
  BY <1>1, <1>2, <1>3 DEF VerificationInv, CheckStands, StartedIsKnown, OncePerThread

\* Every step keeps the types.
LEMMA NextVerificationTyped ==
    VerificationTypeOK /\ [VerificationNext]_verificationVars => VerificationTypeOK'
<1> SUFFICES ASSUME VerificationTypeOK, [VerificationNext]_verificationVars
             PROVE  VerificationTypeOK'
  OBVIOUS
<1> USE WorkersAssumption, CacheAssumption, VerificationAssumption
<1>1. ASSUME NEW c \in Challenges, SignChallenge(c)
      PROVE  VerificationTypeOK'
  <2>1. stamp' \in [Challenges -> Int]
    BY <1>1 DEF SignChallenge, VerificationTypeOK
  <2> QED
    BY <1>1, <2>1 DEF SignChallenge, VerificationTypeOK
<1>2. ASSUME NEW t \in Threads, NEW c \in Challenges, CheckChallenge(t, c)
      PROVE  VerificationTypeOK'
  BY <1>2 DEF CheckChallenge, VerificationTypeOK, Checks
<1>3. ASSUME NEW t \in Threads, MarkUsed(t)
      PROVE  VerificationTypeOK'
  <2>1. now + NonceCacheTTL \in Nat
    BY DEF VerificationTypeOK, NonceCacheTTL
  <2>2. check[t].challenge \in Challenges /\ ProcessOf[t] \in Processes
    BY <1>3 DEF MarkUsed, VerificationTypeOK
  <2>3. usedUntil' \in [Processes -> [Challenges -> Nat]]
    BY <1>3, <2>1, <2>2 DEF MarkUsed, VerificationTypeOK
  <2>4. check' \in [Threads -> Checks]
    <3>1. check \in [Threads -> Checks]
      BY DEF VerificationTypeOK
    <3>2. check' = [check EXCEPT ![t].pc = "create"]
      BY <1>3 DEF MarkUsed, Goto
    <3> QED
      BY <3>1, <3>2 DEF Checks
  <2>5. \A u \in Threads : check'[u].pc # "idle" => check'[u].challenge \in issued'
    BY <1>3 DEF MarkUsed, Goto, VerificationTypeOK, Checks
  <2> QED
    BY <1>3, <2>3, <2>4, <2>5 DEF MarkUsed, VerificationTypeOK
<1>4. ASSUME NEW t \in Threads, RefuseStart(t)
      PROVE  VerificationTypeOK'
  BY <1>4 DEF RefuseStart, Finish, Resting, VerificationTypeOK, Checks
<1>5. ASSUME NEW t \in Threads, CreateAttempt(t)
      PROVE  VerificationTypeOK'
  <2>1. check[t].challenge \in Challenges
    BY <1>5 DEF CreateAttempt, VerificationTypeOK
  <2>2. startedHere' \in [Threads -> [Challenges -> Nat]]
    BY <1>5, <2>1 DEF CreateAttempt, VerificationTypeOK
  <2>3. attempts' \in [Challenges -> Nat]
    BY <1>5, <2>1 DEF CreateAttempt, VerificationTypeOK
  <2>4. check' \in [Threads -> Checks]
    BY <1>5 DEF CreateAttempt, Finish, Resting, VerificationTypeOK, Checks
  <2>5. \A u \in Threads : check'[u].pc # "idle" => check'[u].challenge \in issued'
    BY <1>5 DEF CreateAttempt, Finish, Resting, VerificationTypeOK, Checks
  <2> QED
    BY <1>5, <2>2, <2>3, <2>4, <2>5 DEF CreateAttempt, VerificationTypeOK
<1>6. ASSUME NEW p \in Processes, VerifierRestarts(p)
      PROVE  VerificationTypeOK'
  BY <1>6 DEF VerifierRestarts, ProcessReplaced, Resting, VerificationTypeOK, Checks
<1>7. CASE VerifierTick
  BY <1>7 DEF VerifierTick, Tick, verificationRows, VerificationTypeOK
<1>8. CASE UNCHANGED verificationVars
  BY <1>8 DEF verificationVars, verificationRows, VerificationTypeOK
<1> QED
  BY <1>1, <1>2, <1>3, <1>4, <1>5, <1>6, <1>7, <1>8 DEF VerificationNext

------------------------------------------------------------------------------------

\* With a fresh challenge whose key is not known a thread has opened nothing: the clock
\* has not passed the end of its lifetime, which every key outlasts.
LEMMA FreshIsNew ==
    ASSUME VerificationInv, NEW t \in Threads, NEW c \in Challenges,
           Fresh(c), ~Cached(usedUntil[ProcessOf[t]][c])
    PROVE  startedHere[t][c] = 0
<1>1. /\ now \in Nat /\ stamp[c] \in Int /\ ChallengeTTL \in Nat
      /\ usedUntil[ProcessOf[t]][c] \in Nat
  BY WorkersAssumption, VerificationAssumption DEF VerificationInv, VerificationTypeOK
<1>2. ~Outlived(ProcessOf[t], c)
  BY <1>1 DEF Fresh, Cached, Outlived
<1> QED
  BY <1>2 DEF VerificationInv, StartedIsKnown

\* The key set for a challenge that is not from the future outlasts it.
LEMMA KeyOutlasts ==
    ASSUME VerificationTypeOK, NEW c \in Challenges, stamp[c] <= now
    PROVE  now + NonceCacheTTL > stamp[c] + ChallengeTTL
  BY VerificationAssumption DEF VerificationTypeOK, NonceCacheTTL

\* Every step keeps the invariant.
LEMMA NextVerificationInv == VerificationInv /\ [VerificationNext]_verificationVars => VerificationInv'
<1> SUFFICES ASSUME VerificationInv, [VerificationNext]_verificationVars
             PROVE  VerificationInv'
  OBVIOUS
<1>0. /\ VerificationTypeOK /\ VerificationTypeOK'
      /\ CheckStands /\ StartedIsKnown /\ OncePerThread
  BY NextVerificationTyped DEF VerificationInv
<1> USE WorkersAssumption, VerificationAssumption
<1>1. ASSUME NEW c \in Challenges, SignChallenge(c)
      PROVE  VerificationInv'
  <2>1. \A d \in Challenges : d # c => stamp'[d] = stamp[d]
    BY <1>0, <1>1 DEF SignChallenge, VerificationTypeOK
  <2>2. \A t \in Threads : check[t].pc # "idle" =>
            check[t].challenge \in Challenges /\ check[t].challenge # c
    BY <1>0, <1>1 DEF SignChallenge, VerificationTypeOK
  <2>3. CheckStands'
    BY <1>0, <1>1, <2>1, <2>2 DEF SignChallenge, CheckStands, Outlived
  <2>4. StartedIsKnown'
    BY <1>0, <1>1, <2>1 DEF SignChallenge, StartedIsKnown, Outlived
  <2>5. OncePerThread'
    BY <1>0, <1>1 DEF SignChallenge, OncePerThread
  <2> QED
    BY <1>0, <2>3, <2>4, <2>5 DEF VerificationInv
<1>2. ASSUME NEW t \in Threads, NEW c \in Challenges, CheckChallenge(t, c)
      PROVE  VerificationInv'
  <2>1. check' = [check EXCEPT ![t] = [pc |-> "signature", challenge |-> c]]
    BY <1>2 DEF CheckChallenge
  <2>2. startedHere[t][c] = 0
    BY <1>2, FreshIsNew DEF CheckChallenge
  <2>3. stamp[c] <= now
    BY <1>0, <1>2 DEF CheckChallenge, Fresh, VerificationTypeOK
  <2>4. CheckStands'
    BY <1>0, <1>2, <2>1, <2>2, <2>3 DEF CheckChallenge, CheckStands, Outlived, VerificationTypeOK
  <2>5. StartedIsKnown' /\ OncePerThread'
    BY <1>0, <1>2 DEF CheckChallenge, StartedIsKnown, OncePerThread, Outlived
  <2> QED
    BY <1>0, <2>4, <2>5 DEF VerificationInv
<1>3. ASSUME NEW t \in Threads, MarkUsed(t)
      PROVE  VerificationInv'
  <2> DEFINE p == ProcessOf[t]
             c == check[t].challenge
  <2>1. p \in Processes /\ c \in Challenges /\ check[t].pc = "signature"
    BY <1>0, <1>3 DEF MarkUsed, VerificationTypeOK
  <2>2. OutlivedNext(p, c)
    BY <1>0, <1>3, <2>1, KeyOutlasts DEF MarkUsed, Outlived, OutlivedNext, CheckStands, VerificationTypeOK
  <2>3. \A q \in Processes, d \in Challenges : q # p \/ d # c => usedUntil'[q][d] = usedUntil[q][d]
    BY <1>0, <1>3, <2>1 DEF MarkUsed, VerificationTypeOK
  <2>4. \A u \in Threads : /\ check'[u].challenge = check[u].challenge
                           /\ u # t => check'[u] = check[u]
                           /\ u = t => check'[u].pc = "create"
    BY <1>0, <1>3 DEF MarkUsed, Goto, VerificationTypeOK, Checks
  <2>5. \A q \in Processes, d \in Challenges : Outlived(q, d) => OutlivedNext(q, d)
    BY <1>3, <2>2, <2>3 DEF MarkUsed, Outlived, OutlivedNext
  <2>6. CheckStands'
    <3> SUFFICES ASSUME NEW u \in Threads, check'[u].pc # "idle"
                 PROVE  /\ startedHere'[u][check'[u].challenge] = 0
                        /\ check'[u].pc = "signature" => stamp'[check'[u].challenge] <= now'
                        /\ check'[u].pc = "create" => OutlivedNext(ProcessOf[u], check'[u].challenge)
      BY DEF CheckStands, Outlived, OutlivedNext
    <3>1. CASE u = t
      BY <1>0, <1>3, <2>1, <2>2, <2>4, <3>1 DEF CheckStands, MarkUsed, Outlived, OutlivedNext
    <3>2. CASE u # t
      <4>1. check'[u] = check[u] /\ check[u].challenge \in Challenges /\ ProcessOf[u] \in Processes
        BY <1>0, <2>4, <3>2 DEF VerificationTypeOK
      <4> QED
        BY <1>0, <1>3, <2>5, <4>1 DEF CheckStands, MarkUsed, Outlived, OutlivedNext
    <3> QED
      BY <3>1, <3>2
  <2>7. StartedIsKnown'
    BY <1>0, <1>3, <2>5 DEF StartedIsKnown, MarkUsed, Outlived, OutlivedNext
  <2>8. OncePerThread'
    BY <1>0, <1>3 DEF OncePerThread, MarkUsed
  <2> QED
    BY <1>0, <2>6, <2>7, <2>8 DEF VerificationInv
<1>4. ASSUME NEW t \in Threads, RefuseStart(t)
      PROVE  VerificationInv'
  <2>1. \A u \in Threads : check'[u] = check[u] \/ check'[u] = Resting
    BY <1>0, <1>4 DEF RefuseStart, Finish, VerificationTypeOK
  <2>2. CheckStands'
    BY <1>0, <1>4, <2>1 DEF RefuseStart, CheckStands, Outlived, Resting
  <2>3. StartedIsKnown' /\ OncePerThread'
    BY <1>0, <1>4 DEF RefuseStart, StartedIsKnown, OncePerThread, Outlived
  <2> QED
    BY <1>0, <2>2, <2>3 DEF VerificationInv
<1>5. ASSUME NEW t \in Threads, CreateAttempt(t)
      PROVE  VerificationInv'
  <2> DEFINE c == check[t].challenge
  <2>1. c \in Challenges /\ c \in issued /\ check[t].pc = "create"
    BY <1>0, <1>5 DEF CreateAttempt, VerificationTypeOK
  <2>2. startedHere[t][c] = 0 /\ Outlived(ProcessOf[t], c)
    BY <1>0, <2>1 DEF CheckStands
  <2>3. /\ startedHere'[t][c] = 1
        /\ \A u \in Threads, d \in Challenges :
              u # t \/ d # c => startedHere'[u][d] = startedHere[u][d]
    BY <1>0, <1>5, <2>1, <2>2 DEF CreateAttempt, VerificationTypeOK
  <2>4. \A u \in Threads : check'[u] = IF u = t THEN Resting ELSE check[u]
    BY <1>0, <1>5 DEF CreateAttempt, Finish, VerificationTypeOK
  <2>5. CheckStands'
    <3> SUFFICES ASSUME NEW u \in Threads, check'[u].pc # "idle"
                 PROVE  /\ startedHere'[u][check'[u].challenge] = 0
                        /\ check'[u].pc = "signature" => stamp'[check'[u].challenge] <= now'
                        /\ check'[u].pc = "create" => OutlivedNext(ProcessOf[u], check'[u].challenge)
      BY DEF CheckStands, Outlived, OutlivedNext
    <3>1. u # t /\ check'[u] = check[u]
      BY <2>4 DEF Resting
    <3>2. check[u].challenge \in Challenges /\ ProcessOf[u] \in Processes
      BY <1>0, <3>1 DEF VerificationTypeOK
    <3> QED
      BY <1>0, <1>5, <2>3, <3>1, <3>2 DEF CheckStands, CreateAttempt, Outlived, OutlivedNext
  <2>6. StartedIsKnown'
    BY <1>0, <1>5, <2>1, <2>2, <2>3 DEF StartedIsKnown, CreateAttempt, Outlived
  <2>7. OncePerThread'
    BY <1>0, <2>1, <2>3 DEF OncePerThread
  <2> QED
    BY <1>0, <2>5, <2>6, <2>7 DEF VerificationInv
<1>6. ASSUME NEW p \in Processes, VerifierRestarts(p)
      PROVE  VerificationInv'
  <2>1. \A t \in Threads : check'[t] = IF ProcessOf[t] = p THEN Resting ELSE check[t]
    BY <1>6 DEF VerifierRestarts
  <2>2. /\ \A t \in Threads, c \in Challenges :
              startedHere'[t][c] = IF ProcessOf[t] = p THEN 0 ELSE startedHere[t][c]
        /\ \A q \in Processes, c \in Challenges : q # p => usedUntil'[q][c] = usedUntil[q][c]
    BY <1>0, <1>6 DEF VerifierRestarts, VerificationTypeOK
  <2>3. CheckStands'
    <3> SUFFICES ASSUME NEW u \in Threads, check'[u].pc # "idle"
                 PROVE  /\ startedHere'[u][check'[u].challenge] = 0
                        /\ check'[u].pc = "signature" => stamp'[check'[u].challenge] <= now'
                        /\ check'[u].pc = "create" => OutlivedNext(ProcessOf[u], check'[u].challenge)
      BY DEF CheckStands, Outlived, OutlivedNext
    <3>1. ProcessOf[u] # p /\ check'[u] = check[u]
      BY <2>1 DEF Resting
    <3>2. check[u].challenge \in Challenges /\ ProcessOf[u] \in Processes
      BY <1>0, <3>1 DEF VerificationTypeOK
    <3> QED
      BY <1>0, <1>6, <2>2, <3>1, <3>2
         DEF CheckStands, VerifierRestarts, ProcessReplaced, Outlived, OutlivedNext
  <2>4. StartedIsKnown'
    BY <1>0, <1>6, <2>2 DEF StartedIsKnown, VerifierRestarts, Outlived
  <2>5. OncePerThread'
    BY <1>0, <2>2 DEF OncePerThread
  <2> QED
    BY <1>0, <2>3, <2>4, <2>5 DEF VerificationInv
<1>7. CASE VerifierTick
  <2>1. UNCHANGED <<issued, stamp, usedUntil, check, startedHere>> /\ now' = now + 1
    BY <1>7 DEF VerifierTick, Tick, verificationRows
  <2>2. \A t \in Threads : check[t].pc # "idle" => stamp[check[t].challenge] \in Int
    BY <1>0 DEF VerificationTypeOK
  <2>3. CheckStands'
    BY <1>0, <2>1, <2>2 DEF CheckStands, Outlived, VerificationTypeOK
  <2>4. StartedIsKnown' /\ OncePerThread'
    BY <1>0, <2>1 DEF StartedIsKnown, OncePerThread, Outlived
  <2> QED
    BY <1>0, <2>3, <2>4 DEF VerificationInv
<1>8. CASE UNCHANGED verificationVars
  BY <1>0, <1>8 DEF verificationVars, verificationRows, VerificationInv, CheckStands, StartedIsKnown,
                    OncePerThread, Outlived
<1> QED
  BY <1>1, <1>2, <1>3, <1>4, <1>5, <1>6, <1>7, <1>8 DEF VerificationNext

------------------------------------------------------------------------------------

\* Every reachable state is well typed, whatever requests overlap: about the check
\* of a challenge, which takes on nothing that no agent has signed.
THEOREM VerificationTyped == VerificationSpec => []VerificationTypeOK
<1>1. CacheInit /\ VerificationInit => VerificationTypeOK
  BY InitVerificationTyped
<1>2. VerificationTypeOK /\ [VerificationNext]_verificationVars => VerificationTypeOK'
  BY NextVerificationTyped
<1> QED
  BY <1>1, <1>2, PTL DEF VerificationSpec

\* In the life of a cache a challenge opens one attempt at most in each thread, however the
\* checks of it overlap: about the two lifetimes in verify_agent_challenge.
THEOREM ChallengeOncePerThread == VerificationSpec => []OncePerThread
<1>1. CacheInit /\ VerificationInit => VerificationInv
  BY InitVerificationInv
<1>2. VerificationInv /\ [VerificationNext]_verificationVars => VerificationInv'
  BY NextVerificationInv
<1>3. VerificationInv => OncePerThread
  BY DEF VerificationInv
<1> QED
  BY <1>1, <1>2, <1>3, PTL DEF VerificationSpec

(***************************************************************************)
(* RateLimit                                                               *)
(***************************************************************************)

LimitTyped == now \in Nat /\ restarts \in Nat /\ LimitTypeOK

Entries == [at : Nat, raced : BOOLEAN]

\* What a request has read while no other was let through is the count in the cache,
\* unless that had run out.
ReadingStands ==
    \A t \in Threads :
        LET p == ProcessOf[t]
        IN  /\ seen[t] <= Len(admitted[p])
            /\ reading[t] # NotReading /\ seen[t] = Len(admitted[p]) =>
                \/ reading[t] = counter[p].count
                \/ reading[t] = 0 /\ counter[p].end <= now

\* The requests let through are in the order of time.
InOrder(log) ==
    /\ \A i \in 1..Len(log) : log[i].at <= now
    /\ \A i, j \in 1..Len(log) : i <= j => log[i].at <= log[j].at

\* The d requests before the last one did not race, nor did that one, and a window has
\* not passed since the first of them.
Run(log, d) ==
    /\ \A j \in Len(log) - d + 1..Len(log) : ~log[j].raced
    /\ log[Len(log)].at - log[Len(log) - d].at < Window

\* The key lasts for a window after the last request, and counts every run that ends
\* with it.
CountsTheLast(key, log) ==
    /\ Len(log) > 0 => key.end = log[Len(log)].at + Window
    /\ \A d \in 0..Len(log) - 1 : Run(log, d) => key.count >= d + 1

WithinWindow(log) ==
    \A i \in 1..Len(log) - Limit :
        (\A j \in i + 1..i + Limit : ~log[j].raced) => log[i + Limit].at - log[i].at >= Window

Accounted(p) ==
    /\ InOrder(admitted[p])
    /\ CountsTheLast(counter[p], admitted[p])
    /\ WithinWindow(admitted[p])

LimitInv == LimitTyped /\ ReadingStands /\ \A p \in Processes : Accounted(p)

------------------------------------------------------------------------------------

LEMMA InitLimitTyped == CacheInit /\ LimitInit => LimitTyped
  BY LimitAssumption DEF CacheInit, LimitInit, LimitTyped, LimitTypeOK, NotReading

LEMMA NextLimitTyped == LimitTyped /\ [LimitNext]_limitVars => LimitTyped'
<1> SUFFICES ASSUME LimitTyped, [LimitNext]_limitVars
             PROVE  LimitTyped'
  OBVIOUS
<1> USE LimitAssumption, CacheAssumption, WorkersAssumption DEF NotReading
<1>1. ASSUME NEW t \in Threads, ReadCount(t)
      PROVE  LimitTyped'
  <2>1. Count(ProcessOf[t]) \in 0..Limit - 1
    BY <1>1 DEF ReadCount, Count, LimitTyped, LimitTypeOK
  <2>2. Len(admitted[ProcessOf[t]]) \in Nat
    BY DEF LimitTyped, LimitTypeOK
  <2> QED
    BY <1>1, <2>1, <2>2 DEF ReadCount, Read, LimitTyped, LimitTypeOK
<1>2. ASSUME NEW t \in Threads, WriteCount(t)
      PROVE  LimitTyped'
  <2>1. ProcessOf[t] \in Processes /\ reading[t] \in 0..Limit - 1
    BY <1>2 DEF WriteCount, LimitTyped, LimitTypeOK
  <2>2. now' = now /\ restarts' = restarts
    BY <1>2 DEF WriteCount
  <2>3. counter' \in [Processes -> [count : 0..Limit, end : Nat]]
    BY <1>2, <2>1 DEF WriteCount, LimitTyped, LimitTypeOK
  <2>4. admitted' \in [Processes -> Seq([at : Nat, raced : BOOLEAN])]
    <3>1. PICK raced \in BOOLEAN :
            admitted' = [admitted EXCEPT ![ProcessOf[t]] = Append(@, [at |-> now, raced |-> raced])]
      BY <1>2, <2>1 DEF WriteCount, Admit, LimitTyped, LimitTypeOK
    <3>2. [at |-> now, raced |-> raced] \in [at : Nat, raced : BOOLEAN]
      BY DEF LimitTyped
    <3> QED
      BY <2>1, <3>1, <3>2 DEF LimitTyped, LimitTypeOK
  <2>5. reading' \in [Threads -> NotReading..Limit - 1] /\ seen' \in [Threads -> Nat]
    BY <1>2 DEF WriteCount, Admit, LimitTyped, LimitTypeOK
  <2> QED
    BY <2>2, <2>3, <2>4, <2>5 DEF LimitTyped, LimitTypeOK
<1>3. ASSUME NEW p \in Processes, LimiterRestarts(p)
      PROVE  LimitTyped'
  BY <1>3 DEF LimiterRestarts, ProcessReplaced, LimitTyped, LimitTypeOK
<1>4. CASE LimiterTick
  BY <1>4 DEF LimiterTick, Tick, limitRows, LimitTyped, LimitTypeOK
<1>5. CASE UNCHANGED limitVars
  BY <1>5 DEF limitVars, limitRows, LimitTyped, LimitTypeOK
<1> QED
  BY <1>1, <1>2, <1>3, <1>4, <1>5 DEF LimitNext

\* Every reachable state is well typed.
THEOREM LimiterTyped == LimitSpec => []LimitTypeOK
<1>1. LimitTyped => LimitTypeOK
  BY DEF LimitTyped
<1> QED
  BY <1>1, InitLimitTyped, NextLimitTyped, PTL DEF LimitSpec

------------------------------------------------------------------------------------

LEMMA InitLimitInv == CacheInit /\ LimitInit => LimitInv
<1> SUFFICES ASSUME CacheInit, LimitInit
             PROVE  LimitInv
  OBVIOUS
<1>1. LimitTyped
  BY InitLimitTyped
<1>2. ReadingStands
  BY WorkersAssumption DEF LimitInit, ReadingStands
<1>3. ASSUME NEW p \in Processes
      PROVE  Accounted(p)
  <2>1. admitted[p] = <<>>
    BY DEF LimitInit
  <2> QED
    BY <2>1, LimitAssumption DEF Accounted, InOrder, CountsTheLast, WithinWindow
<1> QED
  BY <1>1, <1>2, <1>3 DEF LimitInv

\* Nothing an account speaks of changes when time goes by.
LEMMA AccountStays ==
    ASSUME LimitTyped, NEW p \in Processes, Accounted(p), now' \in Nat, now' >= now,
           counter'[p] = counter[p], admitted'[p] = admitted[p]
    PROVE  Accounted(p)'
<1>1. \A i \in 1..Len(admitted[p]) : admitted[p][i].at \in Nat
  <2>1. admitted[p] \in Seq(Entries)
    BY DEF LimitTyped, LimitTypeOK, Entries
  <2>2. \A i \in 1..Len(admitted[p]) : admitted[p][i] \in Entries
    BY <2>1
  <2> QED
    BY <2>2 DEF Entries
<1>2. InOrder(admitted[p])'
  BY <1>1 DEF Accounted, InOrder, LimitTyped
<1> QED
  BY <1>2 DEF Accounted, CountsTheLast, Run, WithinWindow

\* One more request keeps the account: either it raced, and starts a run of its own, or
\* the count it read is that of the run it continues.
LEMMA AccountGrows ==
    ASSUME NEW log \in Seq(Entries), NEW key \in [count : 0..Limit, end : Nat],
           NEW r \in 0..Limit - 1, NEW raced \in BOOLEAN, now \in Nat,
           InOrder(log), CountsTheLast(key, log), WithinWindow(log),
           raced \/ r = key.count \/ (r = 0 /\ key.end <= now)
    PROVE  LET more == Append(log, [at |-> now, raced |-> raced])
           IN  /\ InOrder(more)
               /\ CountsTheLast([count |-> r + 1, end |-> now + Window], more)
               /\ WithinWindow(more)
<1> DEFINE n == Len(log)
           more == Append(log, [at |-> now, raced |-> raced])
<1> USE LimitAssumption
<1>1. /\ n \in Nat
      /\ Len(more) = n + 1
      /\ more[n + 1].at = now /\ more[n + 1].raced = raced
      /\ \A i \in 1..n : more[i] = log[i] /\ log[i].at \in Nat
  <2>1. PICK e : e = [at |-> now, raced |-> raced]
    OBVIOUS
  <2>2. /\ n \in Nat /\ Len(Append(log, e)) = n + 1 /\ Append(log, e)[n + 1] = e
        /\ \A i \in 1..n : Append(log, e)[i] = log[i] /\ log[i] \in Entries
    <3>1. e \in Entries
      BY <2>1 DEF Entries
    <3> QED
      BY <3>1
  <2>3. e.at = now /\ e.raced = raced
    BY <2>1
  <2>4. \A i \in 1..n : log[i].at \in Nat
    BY <2>2 DEF Entries
  <2> QED
    BY <2>1, <2>2, <2>3, <2>4
<1> HIDE DEF n, more
<1>a. \A i \in 1..n + 1 : i = n + 1 \/ i \in 1..n
  BY <1>1
<1>b. \A i \in 1..n + 1 : more[i].at \in Nat
  BY <1>1, <1>a
<1>2. InOrder(more)
  <2>1. \A i \in 1..n + 1 : more[i].at <= now
    <3>1. TAKE i \in 1..n + 1
    <3>2. CASE i = n + 1
      BY <1>1, <3>2
    <3>3. CASE i \in 1..n
      BY <1>1, <3>3 DEF InOrder, n
    <3> QED
      BY <1>a, <3>2, <3>3
  <2>2. ASSUME NEW i \in 1..n + 1, NEW j \in 1..n + 1, i <= j
        PROVE  more[i].at <= more[j].at
    <3>1. CASE j = n + 1
      BY <1>1, <2>1, <3>1
    <3>2. CASE j \in 1..n
      <4>1. i \in 1..n
        BY <1>1, <2>2, <3>2
      <4>2. log[i].at <= log[j].at
        BY <2>2, <3>2, <4>1 DEF InOrder, n
      <4> QED
        BY <1>1, <3>2, <4>1, <4>2
    <3> QED
      BY <1>a, <3>1, <3>2
  <2> QED
    BY <1>1, <2>1, <2>2 DEF InOrder
<1>3. ASSUME NEW d \in 1..n, Run(more, d)
      PROVE  r >= d
  <2>1. /\ \A j \in n - d + 2..n + 1 : ~more[j].raced
        /\ now - more[n + 1 - d].at < Window
    BY <1>1, <1>3 DEF Run
  <2>2. ~raced
    <3>1. n + 1 \in n - d + 2..n + 1
      BY <1>1
    <3> QED
      BY <1>1, <2>1, <3>1
  <2>3. n \in 1..n /\ n + 1 - d \in 1..n
    BY <1>1
  <2>4. /\ log[n + 1 - d].at \in Nat /\ log[n].at \in Nat
        /\ log[n + 1 - d].at <= log[n].at /\ log[n].at <= now
        /\ now - log[n + 1 - d].at < Window
    <3>1. log[n + 1 - d].at <= log[n].at /\ log[n].at <= now
      BY <1>1, <2>3 DEF InOrder, n
    <3> QED
      BY <1>1, <2>1, <2>3, <3>1
  <2>5. key.end = log[n].at + Window
    BY <1>1, <2>3 DEF CountsTheLast, n
  <2>6. r = key.count
    <3>1. PICK first \in Nat, last \in Nat : first = log[n + 1 - d].at /\ last = log[n].at
      BY <2>4
    <3>2. first <= last /\ now - first < Window /\ key.end = last + Window
      BY <2>4, <2>5, <3>1
    <3>3. ~(key.end <= now)
      BY <3>1, <3>2
    <3> QED
      BY <2>2, <3>3
  <2>7. Run(log, d - 1)
    <3>1. \A j \in n - (d - 1) + 1..n : ~log[j].raced
      <4>1. TAKE j \in n - (d - 1) + 1..n
      <4>2. j \in 1..n /\ j \in n - d + 2..n + 1
        BY <1>1, <4>1
      <4> QED
        BY <1>1, <2>1, <4>2
    <3>2. log[n].at - log[n - (d - 1)].at < Window
      <4>1. n - (d - 1) = n + 1 - d
        BY <1>1
      <4>2. PICK first \in Nat, last \in Nat : first = log[n + 1 - d].at /\ last = log[n].at
        BY <2>4
      <4>3. last <= now /\ now - first < Window
        BY <2>4, <4>2
      <4>4. last - first < Window
        BY <4>3
      <4> QED
        BY <4>1, <4>2, <4>4
    <3> QED
      BY <3>1, <3>2 DEF Run, n
  <2>8. d - 1 \in 0..n - 1
    BY <1>1
  <2>9. key.count >= d - 1 + 1
    BY <2>7, <2>8 DEF CountsTheLast, n
  <2> QED
    BY <2>6, <2>9
<1>4. CountsTheLast([count |-> r + 1, end |-> now + Window], more)
  <2>1. ASSUME NEW d \in 0..Len(more) - 1, Run(more, d)
        PROVE  r + 1 >= d + 1
    <3>1. CASE d = 0
      BY <3>1
    <3>2. CASE d # 0
      <4>1. d \in 1..n
        BY <1>1, <3>2
      <4> QED
        BY <1>3, <2>1, <4>1
    <3> QED
      BY <3>1, <3>2
  <2> QED
    BY <1>1, <2>1 DEF CountsTheLast
<1>5. WithinWindow(more)
  <2> SUFFICES ASSUME NEW i \in 1..Len(more) - Limit, \A j \in i + 1..i + Limit : ~more[j].raced
               PROVE  more[i + Limit].at - more[i].at >= Window
    BY DEF WithinWindow
  <2>1. i \in 1..n + 1 - Limit /\ \A j \in i + 1..i + Limit : ~more[j].raced
    BY <1>1
  <2>2. CASE i + Limit <= n
    <3>1. i \in 1..n - Limit /\ i \in 1..n /\ i + Limit \in 1..n
      BY <1>1, <2>1, <2>2
    <3>2. \A j \in i + 1..i + Limit : ~log[j].raced
      <4>1. TAKE j \in i + 1..i + Limit
      <4>2. j \in 1..n
        BY <1>1, <2>2, <4>1
      <4> QED
        BY <1>1, <2>1, <4>2
    <3>3. log[i + Limit].at - log[i].at >= Window
      BY <3>1, <3>2 DEF WithinWindow, n
    <3> QED
      BY <1>1, <3>1, <3>3
  <2>3. CASE i + Limit = n + 1
    <3>1. Limit \in 1..n /\ n + 1 - Limit = i /\ i \in 1..n + 1
      BY <1>1, <2>1, <2>3
    <3>2. ~Run(more, Limit)
      BY <1>3, <3>1
    <3>3. \A j \in n + 1 - Limit + 1..n + 1 : ~more[j].raced
      BY <1>1, <2>1, <2>3
    <3>4. ~(more[n + 1].at - more[i].at < Window)
      BY <1>1, <3>1, <3>2, <3>3 DEF Run
    <3>5. PICK first \in Nat, last \in Nat : first = more[i].at /\ last = more[n + 1].at
      BY <1>1, <1>b, <3>1
    <3>6. ~(last - first < Window)
      BY <3>4, <3>5
    <3>7. last - first >= Window
      BY <3>6
    <3> QED
      BY <2>3, <3>5, <3>7
  <2> QED
    BY <1>1, <2>1, <2>2, <2>3
<1> QED
  BY <1>2, <1>4, <1>5 DEF more

\* Every step keeps counter and history together.
LEMMA NextLimitInv == LimitInv /\ [LimitNext]_limitVars => LimitInv'
<1> SUFFICES ASSUME LimitInv, [LimitNext]_limitVars
             PROVE  LimitInv'
  OBVIOUS
<1>0. /\ LimitTyped /\ LimitTyped'
      /\ ProcessOf \in [Threads -> Processes]
      /\ ReadingStands
  BY NextLimitTyped, WorkersAssumption DEF LimitInv
<1>a. \A p \in Processes : Len(admitted[p]) \in Nat
  BY <1>0 DEF LimitTyped, LimitTypeOK
<1>1. ASSUME NEW t \in Threads, ReadCount(t)
      PROVE  LimitInv'
  <2>1. /\ \A u \in Threads : reading'[u] = IF u = t THEN Count(ProcessOf[t]) ELSE reading[u]
        /\ \A u \in Threads : seen'[u] = IF u = t THEN Len(admitted[ProcessOf[t]]) ELSE seen[u]
    BY <1>0, <1>1 DEF ReadCount, Read, LimitTyped, LimitTypeOK
  <2>2. counter' = counter /\ now' = now /\ admitted' = admitted
    BY <1>1 DEF ReadCount
  <2>3. \/ Count(ProcessOf[t]) = counter[ProcessOf[t]].count
        \/ Count(ProcessOf[t]) = 0 /\ counter[ProcessOf[t]].end <= now
    BY <1>0 DEF Count, Cached, LimitTyped, LimitTypeOK
  <2>4. ReadingStands'
    BY <1>0, <1>a, <2>1, <2>2, <2>3 DEF ReadingStands
  <2>5. \A p \in Processes : Accounted(p)'
    BY <1>0, <2>2, AccountStays DEF LimitInv, LimitTyped
  <2> QED
    BY <1>0, <2>4, <2>5 DEF LimitInv
<1>2. ASSUME NEW t \in Threads, WriteCount(t)
      PROVE  LimitInv'
  <2>1. PICK q \in Processes : q = ProcessOf[t]
    BY <1>0
  <2>2. PICK raced \in BOOLEAN : raced = (seen[t] # Len(admitted[q]))
    OBVIOUS
  <2>3. /\ \A u \in Threads : reading'[u] = IF u = t THEN NotReading ELSE reading[u]
        /\ \A u \in Threads : seen'[u] = IF u = t THEN 0 ELSE seen[u]
    BY <1>0, <1>2 DEF WriteCount, Admit, LimitTyped, LimitTypeOK
  <2>4. \A p \in Processes : p # q => counter'[p] = counter[p] /\ admitted'[p] = admitted[p]
    BY <1>0, <1>2, <2>1 DEF WriteCount, Admit, LimitTyped, LimitTypeOK
  <2>5. /\ counter'[q] = [count |-> reading[t] + 1, end |-> now + Window]
        /\ now' = now
    BY <1>0, <1>2, <2>1 DEF WriteCount, LimitTyped, LimitTypeOK
  <2>6. admitted'[q] = Append(admitted[q], [at |-> now, raced |-> raced])
    BY <1>0, <1>2, <2>1, <2>2 DEF WriteCount, Admit, LimitTyped, LimitTypeOK
  <2>7. Len(admitted'[q]) = Len(admitted[q]) + 1
    <3>1. admitted[q] \in Seq(Entries)
      BY <1>0 DEF LimitTyped, LimitTypeOK, Entries
    <3> QED
      BY <2>6, <3>1
  <2>8. ReadingStands'
    <3> SUFFICES ASSUME NEW u \in Threads
                 PROVE  /\ seen'[u] <= Len(admitted'[ProcessOf[u]])
                        /\ reading'[u] # NotReading /\ seen'[u] = Len(admitted'[ProcessOf[u]]) =>
                            \/ reading'[u] = counter'[ProcessOf[u]].count
                            \/ reading'[u] = 0 /\ counter'[ProcessOf[u]].end <= now'
      BY DEF ReadingStands
    <3>1. PICK p \in Processes : p = ProcessOf[u]
      BY <1>0
    <3>2. seen[u] <= Len(admitted[p]) /\ seen[u] \in Nat /\ Len(admitted[p]) \in Nat
      BY <1>0, <1>a, <3>1 DEF ReadingStands, LimitTyped, LimitTypeOK
    <3>3. CASE u = t
      <4>1. reading'[u] = NotReading /\ seen'[u] = 0
        BY <2>3, <3>3
      <4>2. p = q
        BY <2>1, <3>1, <3>3
      <4> QED
        BY <2>7, <3>1, <3>2, <4>1, <4>2
    <3>4. CASE u # t /\ p = q
      BY <2>3, <2>7, <3>1, <3>2, <3>4
    <3>5. CASE u # t /\ p # q
      BY <1>0, <2>3, <2>4, <2>5, <3>1, <3>5 DEF ReadingStands
    <3> QED
      BY <3>3, <3>4, <3>5
  <2>9. Accounted(q)'
    <3>1. /\ admitted[q] \in Seq(Entries) /\ counter[q] \in [count : 0..Limit, end : Nat]
          /\ now \in Nat
      BY <1>0 DEF LimitTyped, LimitTypeOK, Entries
    <3>2. reading[t] \in 0..Limit - 1
      BY <1>0, <1>2, LimitAssumption DEF WriteCount, LimitTyped, LimitTypeOK, NotReading
    <3>3. raced \/ reading[t] = counter[q].count \/ (reading[t] = 0 /\ counter[q].end <= now)
      BY <1>0, <1>2, <2>1, <2>2 DEF ReadingStands, WriteCount
    <3>4. /\ InOrder(admitted[q])
          /\ CountsTheLast(counter[q], admitted[q])
          /\ WithinWindow(admitted[q])
      BY DEF LimitInv, Accounted
    <3>5. PICK more : more = Append(admitted[q], [at |-> now, raced |-> raced])
      OBVIOUS
    <3>6. /\ InOrder(more)
          /\ CountsTheLast([count |-> reading[t] + 1, end |-> now + Window], more)
          /\ WithinWindow(more)
      BY <3>1, <3>2, <3>3, <3>4, <3>5, AccountGrows
    <3> QED
      BY <2>5, <2>6, <3>5, <3>6 DEF Accounted, InOrder
  <2>10. \A p \in Processes : p # q => Accounted(p)'
    BY <1>0, <2>4, <2>5, AccountStays DEF LimitInv, LimitTyped
  <2> QED
    BY <1>0, <2>8, <2>9, <2>10 DEF LimitInv
<1>3. ASSUME NEW q \in Processes, LimiterRestarts(q)
      PROVE  LimitInv'
  <2>1. /\ \A u \in Threads : reading'[u] = IF ProcessOf[u] = q THEN NotReading ELSE reading[u]
        /\ \A u \in Threads : seen'[u] = IF ProcessOf[u] = q THEN 0 ELSE seen[u]
    BY <1>3 DEF LimiterRestarts
  <2>2. \A p \in Processes : p # q => counter'[p] = counter[p] /\ admitted'[p] = admitted[p]
    BY <1>0, <1>3 DEF LimiterRestarts, LimitTyped, LimitTypeOK
  <2>3. admitted'[q] = <<>> /\ now' = now
    BY <1>0, <1>3 DEF LimiterRestarts, ProcessReplaced, LimitTyped, LimitTypeOK
  <2>4. ReadingStands'
    BY <1>0, <2>1, <2>2, <2>3 DEF ReadingStands
  <2>5. Accounted(q)'
    BY <2>3, LimitAssumption DEF Accounted, InOrder, CountsTheLast, WithinWindow
  <2>6. \A p \in Processes : p # q => Accounted(p)'
    BY <1>0, <2>2, <2>3, AccountStays DEF LimitInv, LimitTyped
  <2> QED
    BY <1>0, <2>4, <2>5, <2>6 DEF LimitInv
<1>4. CASE LimiterTick
  <2>1. /\ now' = now + 1
        /\ counter' = counter /\ reading' = reading /\ seen' = seen /\ admitted' = admitted
    BY <1>4 DEF LimiterTick, Tick, limitRows
  <2>2. ReadingStands'
    BY <1>0, <2>1 DEF ReadingStands, LimitTyped, LimitTypeOK
  <2>3. \A p \in Processes : Accounted(p)'
    BY <1>0, <2>1, AccountStays DEF LimitInv, LimitTyped
  <2> QED
    BY <1>0, <2>2, <2>3 DEF LimitInv
<1>5. CASE UNCHANGED limitVars
  <2>1. now' = now /\ counter' = counter /\ reading' = reading /\ seen' = seen /\ admitted' = admitted
    BY <1>5 DEF limitVars, limitRows
  <2>2. ReadingStands'
    BY <1>0, <2>1 DEF ReadingStands
  <2>3. \A p \in Processes : Accounted(p)'
    BY <1>0, <2>1, AccountStays DEF LimitInv, LimitTyped
  <2> QED
    BY <1>0, <2>2, <2>3 DEF LimitInv
<1> QED
  BY <1>1, <1>2, <1>3, <1>4, <1>5 DEF LimitNext

\* Requests that do not race keep the limit within every window, whatever threads serve
\* them and whatever races came before.
THEOREM LimitHolds == LimitSpec => []WithinLimit
<1>1. LimitInv => WithinLimit
  BY DEF LimitInv, Accounted, WithinWindow, WithinLimit
<1> QED
  BY <1>1, InitLimitInv, NextLimitInv, PTL DEF LimitSpec

(***************************************************************************)
(* LivenessNonce                                                           *)
(***************************************************************************)

\* The processes whose cache has a nonce.
Holders(n) == {p \in Processes : nonceAt[p][n[1]].nonce = n}

\* A nonce that a thread has found is still there, and no other thread has found one
\* of the same attempt.
FoundStands ==
    /\ \A t \in Threads : verifying[t] # NoNonce => ProcessOf[t] \in Holders(verifying[t])
    /\ \A t, u \in Threads :
        verifying[t] # NoNonce /\ verifying[u] # NoNonce /\ verifying[t][1] = verifying[u][1]
            => t = u

\* Every issue of a nonce is a key in some cache or one acceptance, at most.
IssuesAccountFor ==
    \A n \in MovementNonces : uses[n] + Cardinality(Holders(n)) <= issues[n]

NonceTyped == now \in 0..MaxTime /\ restarts \in Nat /\ NonceTypeOK

NonceInv == ~Overlap /\ NonceTyped /\ FoundStands /\ IssuesAccountFor

------------------------------------------------------------------------------------

LEMMA InitNonceTyped == CacheInit /\ NonceInit => NonceTyped
  BY CacheAssumption, NonceAssumption DEF CacheInit, NonceInit, NonceTyped, NonceTypeOK, NoKey

LEMMA InitNonceInv == ~Overlap /\ CacheInit /\ NonceInit => NonceInv
<1> SUFFICES ASSUME ~Overlap, CacheInit, NonceInit
             PROVE  NonceInv
  OBVIOUS
<1>1. FoundStands
  BY DEF NonceInit, FoundStands
<1>2. ASSUME NEW n \in MovementNonces
      PROVE  uses[n] + Cardinality(Holders(n)) <= issues[n]
  <2>1. n[1] \in Movers /\ n # NoNonce
    BY NonceAssumption DEF MovementNonces
  <2>2. Holders(n) = {}
    BY <2>1 DEF NonceInit, Holders, NoKey
  <2>3. Cardinality(Holders(n)) = 0
    BY <2>2, FS_EmptySet
  <2> QED
    BY <2>3 DEF NonceInit
<1> QED
  BY <1>1, <1>2, InitNonceTyped DEF NonceInv, IssuesAccountFor

\* Every step keeps the types.
LEMMA NextNonceTyped == NonceTyped /\ [NonceNext]_nonceVars => NonceTyped'
<1> SUFFICES ASSUME NonceTyped, [NonceNext]_nonceVars
             PROVE  NonceTyped'
  OBVIOUS
<1> USE WorkersAssumption, CacheAssumption, NonceAssumption DEF NonceTyped
<1>1. ASSUME NEW t \in Threads, NEW a \in Movers, IssueMovement(t, a)
      PROVE  NonceTyped'
  <2>1. PICK m \in Movements :
            /\ nonceAt' = [nonceAt EXCEPT ![ProcessOf[t]][a] =
                              [nonce |-> <<a, m, now>>, end |-> now + NonceTTL]]
            /\ issues' = [issues EXCEPT ![<<a, m, now>>] = @ + 1]
    BY <1>1 DEF IssueMovement
  <2>2. <<a, m, now>> \in MovementNonces
    BY DEF MovementNonces
  <2>3. issues' \in [MovementNonces -> Nat]
    BY <2>1, <2>2 DEF NonceTypeOK
  <2>4. [nonce |-> <<a, m, now>>, end |-> now + NonceTTL]
            \in [nonce : MovementNonces \union {NoNonce}, end : Nat]
    BY <2>2
  <2>5. nonceAt' \in [Processes -> [Movers -> [nonce : MovementNonces \union {NoNonce}, end : Nat]]]
    BY <2>1, <2>4 DEF NonceTypeOK
  <2>6. \A p \in Processes, b \in Movers : nonceAt'[p][b] = NoKey \/ nonceAt'[p][b].nonce[1] = b
    BY <2>1 DEF NonceTypeOK
  <2> QED
    BY <1>1, <2>3, <2>5, <2>6 DEF IssueMovement, NonceTypeOK
<1>2. ASSUME NEW t \in Threads, NEW n \in MovementNonces, ReadNonce(t, n)
      PROVE  NonceTyped'
  BY <1>2 DEF ReadNonce, NonceTypeOK
<1>3. ASSUME NEW t \in Threads, verifying[t] # NoNonce, DeleteKey(t)
      PROVE  /\ nonceAt' \in [Processes -> [Movers -> [nonce : MovementNonces \union {NoNonce}, end : Nat]]]
             /\ \A p \in Processes, b \in Movers : nonceAt'[p][b] = NoKey \/ nonceAt'[p][b].nonce[1] = b
  <2>1. verifying[t][1] \in Movers
    BY <1>3 DEF NonceTypeOK, MovementNonces
  <2>2. NoKey \in [nonce : MovementNonces \union {NoNonce}, end : Nat]
    BY DEF NoKey
  <2> QED
    BY <1>3, <2>1, <2>2 DEF DeleteKey, NonceTypeOK
<1>4. ASSUME NEW t \in Threads, ConsumeNonce(t)
      PROVE  NonceTyped'
  <2>1. verifying[t] \in MovementNonces /\ uses' = [uses EXCEPT ![verifying[t]] = @ + 1]
    BY <1>4 DEF ConsumeNonce, NonceTypeOK
  <2>2. uses' \in [MovementNonces -> Nat]
    BY <2>1 DEF NonceTypeOK
  <2> QED
    BY <1>3, <1>4, <2>2 DEF ConsumeNonce, NonceTypeOK
<1>5. ASSUME NEW t \in Threads, DropOldNonce(t)
      PROVE  NonceTyped'
  BY <1>3, <1>5 DEF DropOldNonce, NonceTypeOK
<1>6. ASSUME NEW p \in Processes, NonceProcessRestarts(p)
      PROVE  NonceTyped'
  <2>1. [a \in Movers |-> NoKey] \in [Movers -> [nonce : MovementNonces \union {NoNonce}, end : Nat]]
    BY DEF NoKey
  <2> QED
    BY <1>6, <2>1 DEF NonceProcessRestarts, ProcessReplaced, NonceTypeOK
<1>7. CASE NonceTick
  BY <1>7 DEF NonceTick, Tick, nonceRows, NonceTypeOK
<1>8. CASE UNCHANGED nonceVars
  BY <1>8 DEF nonceVars, nonceRows, NonceTypeOK
<1> QED
  BY <1>1, <1>2, <1>4, <1>5, <1>6, <1>7, <1>8 DEF NonceNext

\* A nonce that no further cache takes up is no worse accounted for.
LEMMA FewerHolders ==
    ASSUME NonceTyped, IssuesAccountFor, NEW n \in MovementNonces,
           NEW fewer \in SUBSET Holders(n)
    PROVE  /\ uses[n] + Cardinality(fewer) <= issues[n]
           /\ fewer # Holders(n) => uses[n] + 1 + Cardinality(fewer) <= issues[n]
<1>1. Holders(n) \in SUBSET Processes
  BY DEF Holders
<1>2. IsFiniteSet(Holders(n))
  BY <1>1, NonceAssumption, FS_Subset
<1>3. IsFiniteSet(fewer) /\ Cardinality(fewer) <= Cardinality(Holders(n))
  BY <1>2, FS_Subset
<1>4. Cardinality(fewer) = Cardinality(Holders(n)) => fewer = Holders(n)
  BY <1>2, FS_Subset
<1>5. Cardinality(fewer) \in Nat /\ Cardinality(Holders(n)) \in Nat
  BY <1>2, <1>3, FS_CardinalityType
<1>6. uses[n] \in Nat /\ issues[n] \in Nat /\ uses[n] + Cardinality(Holders(n)) <= issues[n]
  BY DEF NonceTyped, NonceTypeOK, IssuesAccountFor
<1> QED
  BY <1>3, <1>4, <1>5, <1>6

\* A key that is deleted was the one found, and no other cache or nonce is concerned.
LEMMA DeleteTakesFound ==
    ASSUME NonceInv, NEW t \in Threads, DeleteKey(t),
           NEW found, found = verifying[t], found # NoNonce,
           NEW p, p = ProcessOf[t]
    PROVE  /\ found \in MovementNonces
           /\ p \in Holders(found)
           /\ Holders(found)' = Holders(found) \ {p}
           /\ \A n \in MovementNonces : n # found => Holders(n)' = Holders(n)
<1>0. NonceTypeOK /\ FoundStands
  BY DEF NonceInv, NonceTyped
<1>3. found \in MovementNonces /\ found[1] \in Movers /\ p \in Processes
  BY <1>0, WorkersAssumption DEF NonceTypeOK, MovementNonces
<1>4. p \in Holders(found)
  BY <1>0 DEF FoundStands
<1>5. nonceAt[p][found[1]].nonce = found
  BY <1>4 DEF Holders
<1>6. /\ nonceAt'[p][found[1]].nonce = NoNonce
      /\ \A q \in Processes, b \in Movers :
            q # p \/ b # found[1] => nonceAt'[q][b] = nonceAt[q][b]
  BY <1>0, <1>3 DEF DeleteKey, NoKey, NonceTypeOK
<1>7. \A n \in MovementNonces : n[1] \in Movers /\ n # NoNonce
  BY NonceAssumption DEF MovementNonces
<1>8. Holders(found)' = Holders(found) \ {p}
  BY <1>3, <1>6, <1>7 DEF Holders
<1>9. ASSUME NEW n \in MovementNonces, n # found
      PROVE  Holders(n)' = Holders(n)
  BY <1>3, <1>5, <1>6, <1>7, <1>9 DEF Holders
<1> QED
  BY <1>3, <1>4, <1>8, <1>9

\* Every step keeps the invariant.
LEMMA NextNonceInv == NonceInv /\ [NonceNext]_nonceVars => NonceInv'
<1> SUFFICES ASSUME NonceInv, [NonceNext]_nonceVars
             PROVE  NonceInv'
  OBVIOUS
<1>0. /\ ~Overlap /\ NonceTyped /\ NonceTyped' /\ FoundStands /\ IssuesAccountFor
      /\ NonceTypeOK
  BY NextNonceTyped DEF NonceInv, NonceTyped
<1>t. \A n \in MovementNonces : n[1] \in Movers /\ n # NoNonce
  BY NonceAssumption DEF MovementNonces
<1>v. \A t \in Threads : verifying[t] # NoNonce => verifying[t] \in MovementNonces
  BY <1>0 DEF NonceTypeOK
<1>f. ASSUME NEW n \in MovementNonces, Holders(n)' \subseteq Holders(n),
             uses'[n] = uses[n], issues'[n] = issues[n]
      PROVE  uses'[n] + Cardinality(Holders(n)') <= issues'[n]
  <2>1. PICK fewer : fewer = Holders(n)'
    OBVIOUS
  <2>2. uses[n] + Cardinality(fewer) <= issues[n]
    BY <1>0, <1>f, <2>1, FewerHolders
  <2> QED
    BY <1>f, <2>1, <2>2
<1>1. ASSUME NEW t \in Threads, NEW a \in Movers, IssueMovement(t, a)
      PROVE  NonceInv'
  <2>1. PICK m \in Movements, n \in MovementNonces, p \in Processes :
            /\ n = <<a, m, now>> /\ p = ProcessOf[t]
            /\ nonceAt' = [nonceAt EXCEPT ![p][a] = [nonce |-> n, end |-> now + NonceTTL]]
            /\ issues' = [issues EXCEPT ![n] = @ + 1]
    <3>1. ProcessOf[t] \in Processes /\ \A m \in Movements : <<a, m, now>> \in MovementNonces
      BY <1>0, WorkersAssumption DEF NonceTyped, MovementNonces
    <3> QED
      BY <1>1, <3>1 DEF IssueMovement
  <2>2. n \in MovementNonces /\ n[1] = a /\ p \in Processes
    BY <1>0, <2>1, WorkersAssumption DEF NonceTyped, MovementNonces
  <2>3. verifying' = verifying /\ uses' = uses
    BY <1>1 DEF IssueMovement
  <2>4. \A u \in Threads : verifying[u] # NoNonce => verifying[u][1] # a
    BY <1>0, <1>1 DEF IssueMovement, MayServe
  <2>5. \A q \in Processes, b \in Movers :
            nonceAt'[q][b].nonce = IF q = p /\ b = a THEN n ELSE nonceAt[q][b].nonce
    BY <1>0, <2>1, <2>2 DEF NonceTypeOK
  <2>6. \A k \in MovementNonces : k[1] # a => Holders(k)' = Holders(k)
    BY <1>t, <2>5 DEF Holders
  <2>7. FoundStands'
    BY <1>0, <1>v, <2>3, <2>4, <2>6 DEF FoundStands
  <2>8. ASSUME NEW k \in MovementNonces, k # n
        PROVE  uses'[k] + Cardinality(Holders(k)') <= issues'[k]
    <3>1. Holders(k)' \subseteq Holders(k)
      BY <1>t, <2>5, <2>8 DEF Holders
    <3>2. issues'[k] = issues[k]
      BY <1>0, <2>1, <2>8 DEF NonceTypeOK
    <3> QED
      BY <1>f, <2>3, <3>1, <3>2
  <2>9. uses'[n] + Cardinality(Holders(n)') <= issues'[n]
    <3>1. Holders(n)' = Holders(n) \union {p}
      BY <1>t, <2>2, <2>5 DEF Holders
    <3>2. IsFiniteSet(Holders(n))
      <4>1. Holders(n) \in SUBSET Processes
        BY DEF Holders
      <4> QED
        BY <4>1, NonceAssumption, FS_Subset
    <3>3. /\ Cardinality(Holders(n) \union {p}) =
                 IF p \in Holders(n) THEN Cardinality(Holders(n)) ELSE Cardinality(Holders(n)) + 1
          /\ Cardinality(Holders(n)) \in Nat
      BY <3>2, FS_AddElement, FS_CardinalityType
    <3>4. uses[n] \in Nat /\ issues[n] \in Nat /\ issues'[n] = issues[n] + 1
      BY <1>0, <2>1, <2>2 DEF NonceTypeOK
    <3>5. uses[n] + Cardinality(Holders(n)) <= issues[n]
      BY <1>0, <2>2 DEF IssuesAccountFor
    <3> QED
      BY <2>3, <3>1, <3>3, <3>4, <3>5
  <2>10. IssuesAccountFor'
    BY <2>8, <2>9 DEF IssuesAccountFor
  <2> QED
    BY <1>0, <2>7, <2>10 DEF NonceInv
<1>2. ASSUME NEW t \in Threads, NEW n \in MovementNonces, ReadNonce(t, n)
      PROVE  NonceInv'
  <2>1. UNCHANGED <<nonceAt, issues, uses>> /\ verifying' = [verifying EXCEPT ![t] = n]
    BY <1>2 DEF ReadNonce
  <2>2. ProcessOf[t] \in Holders(n)
    BY <1>2, WorkersAssumption DEF ReadNonce, Holders
  <2>3. \A k : Holders(k)' = Holders(k)
    BY <2>1 DEF Holders
  <2>4. \A u \in Threads : verifying[u] # NoNonce => verifying[u][1] # n[1]
    BY <1>0, <1>2 DEF ReadNonce, MayServe
  <2>5. \A u \in Threads : verifying'[u] = IF u = t THEN n ELSE verifying[u]
    BY <1>0, <2>1 DEF NonceTypeOK
  <2>6. ASSUME NEW u \in Threads, verifying'[u] # NoNonce
        PROVE  ProcessOf[u] \in Holders(verifying'[u])
    BY <1>0, <2>2, <2>5, <2>6 DEF FoundStands
  <2>7. ASSUME NEW u \in Threads, NEW w \in Threads,
               verifying'[u] # NoNonce, verifying'[w] # NoNonce, verifying'[u][1] = verifying'[w][1]
        PROVE  u = w
    BY <1>0, <2>4, <2>5, <2>7 DEF FoundStands
  <2>8. FoundStands'
    BY <2>1, <2>6, <2>7 DEF FoundStands, Holders
  <2>9. IssuesAccountFor'
    BY <1>0, <2>1, <2>3 DEF IssuesAccountFor
  <2> QED
    BY <1>0, <2>8, <2>9 DEF NonceInv
\* What the end of a check leaves of the other checks.
<1>3. ASSUME NEW t \in Threads, verifying[t] # NoNonce, DeleteKey(t),
             verifying' = [verifying EXCEPT ![t] = NoNonce]
      PROVE  FoundStands'
  <2>1. PICK found, p : found = verifying[t] /\ p = ProcessOf[t]
    OBVIOUS
  <2>2. \A n \in MovementNonces : n # found => Holders(n)' = Holders(n)
    BY <1>3, <2>1, DeleteTakesFound
  <2>3. \A u \in Threads : verifying'[u] = IF u = t THEN NoNonce ELSE verifying[u]
    BY <1>0, <1>3 DEF NonceTypeOK
  <2>4. \A u \in Threads : verifying[u] = found => u = t
    BY <1>0, <1>3, <2>1 DEF FoundStands
  <2>5. ASSUME NEW u \in Threads, NEW n, n = verifying'[u], n # NoNonce
        PROVE  ProcessOf[u] \in Holders(n)'
    <3>1. n = verifying[u] /\ n # found /\ n \in MovementNonces
      BY <1>v, <2>3, <2>4, <2>5
    <3>2. ProcessOf[u] \in Holders(n)
      BY <1>0, <2>5, <3>1 DEF FoundStands
    <3>3. Holders(n)' = Holders(n)
      BY <2>2, <3>1
    <3> QED
      BY <3>2, <3>3
  <2> QED
    BY <1>0, <2>3, <2>5 DEF FoundStands, Holders
<1>4. ASSUME NEW t \in Threads, ConsumeNonce(t)
      PROVE  NonceInv'
  <2>1. PICK n, p : n = verifying[t] /\ p = ProcessOf[t]
    OBVIOUS
  <2>2. /\ n # NoNonce /\ DeleteKey(t) /\ issues' = issues
        /\ uses' = [uses EXCEPT ![n] = @ + 1]
        /\ verifying' = [verifying EXCEPT ![t] = NoNonce]
    BY <1>4, <2>1 DEF ConsumeNonce
  <2>3. FoundStands'
    BY <1>3, <2>1, <2>2
  <2>4. /\ n \in MovementNonces /\ p \in Holders(n) /\ Holders(n)' = Holders(n) \ {p}
        /\ \A k \in MovementNonces : k # n => Holders(k)' = Holders(k)
    BY <2>1, <2>2, DeleteTakesFound
  <2>5. ASSUME NEW k \in MovementNonces, k # n
        PROVE  uses'[k] + Cardinality(Holders(k)') <= issues'[k]
    <3>1. uses'[k] = uses[k]
      BY <1>0, <2>2, <2>5 DEF NonceTypeOK
    <3> QED
      BY <1>f, <2>2, <2>4, <2>5, <3>1
  <2>6. uses'[n] + Cardinality(Holders(n)') <= issues'[n]
    <3>1. PICK fewer : fewer = Holders(n) \ {p}
      OBVIOUS
    <3>2. uses[n] + 1 + Cardinality(fewer) <= issues[n]
      BY <1>0, <2>4, <3>1, FewerHolders
    <3>3. uses'[n] = uses[n] + 1
      BY <1>0, <2>2, <2>4 DEF NonceTypeOK
    <3> QED
      BY <2>2, <2>4, <3>1, <3>2, <3>3
  <2>7. IssuesAccountFor'
    BY <2>5, <2>6 DEF IssuesAccountFor
  <2> QED
    BY <1>0, <2>3, <2>7 DEF NonceInv
<1>5. ASSUME NEW t \in Threads, DropOldNonce(t)
      PROVE  NonceInv'
  <2>1. PICK n, p : n = verifying[t] /\ p = ProcessOf[t]
    OBVIOUS
  <2>2. /\ n # NoNonce /\ DeleteKey(t) /\ UNCHANGED <<issues, uses>>
        /\ verifying' = [verifying EXCEPT ![t] = NoNonce]
    BY <1>5, <2>1 DEF DropOldNonce
  <2>3. FoundStands'
    BY <1>3, <2>1, <2>2
  <2>4. /\ Holders(n)' = Holders(n) \ {p}
        /\ \A k \in MovementNonces : k # n => Holders(k)' = Holders(k)
    BY <2>1, <2>2, DeleteTakesFound
  <2>5. \A k \in MovementNonces : Holders(k)' \subseteq Holders(k)
    BY <2>4
  <2>6. IssuesAccountFor'
    BY <1>f, <2>2, <2>5 DEF IssuesAccountFor
  <2> QED
    BY <1>0, <2>3, <2>6 DEF NonceInv
<1>6. ASSUME NEW p \in Processes, NonceProcessRestarts(p)
      PROVE  NonceInv'
  <2>1. \A n \in MovementNonces, q \in Processes :
            q \in Holders(n)' <=> q # p /\ q \in Holders(n)
    <3>1. \A q \in Processes : nonceAt'[q] = IF q = p THEN [a \in Movers |-> NoKey] ELSE nonceAt[q]
      BY <1>0, <1>6 DEF NonceProcessRestarts, NonceTypeOK
    <3>2. \A b \in Movers : [a \in Movers |-> NoKey][b].nonce = NoNonce
      BY DEF NoKey
    <3> QED
      BY <1>t, <3>1, <3>2 DEF Holders
  <2>2. \A t \in Threads : verifying'[t] = IF ProcessOf[t] = p THEN NoNonce ELSE verifying[t]
    BY <1>6 DEF NonceProcessRestarts
  <2>3. UNCHANGED <<issues, uses>>
    BY <1>6 DEF NonceProcessRestarts
  <2>4. ASSUME NEW t \in Threads, NEW n, n = verifying'[t], n # NoNonce
        PROVE  ProcessOf[t] \in Holders(n)'
    <3>1. n = verifying[t] /\ n \in MovementNonces /\ ProcessOf[t] # p /\ ProcessOf[t] \in Processes
      BY <1>v, <2>2, <2>4, WorkersAssumption
    <3>2. ProcessOf[t] \in Holders(n)
      BY <1>0, <2>4, <3>1 DEF FoundStands
    <3> QED
      BY <2>1, <3>1, <3>2
  <2>5. FoundStands'
    BY <1>0, <2>2, <2>4 DEF FoundStands, Holders
  <2>6. \A n \in MovementNonces : Holders(n)' \subseteq Holders(n)
    BY <2>1 DEF Holders
  <2>7. IssuesAccountFor'
    BY <1>f, <2>3, <2>6 DEF IssuesAccountFor
  <2> QED
    BY <1>0, <2>5, <2>7 DEF NonceInv
<1>7. CASE NonceTick \/ UNCHANGED nonceVars
  <2>1. UNCHANGED nonceRows
    BY <1>7 DEF NonceTick, nonceVars
  <2>2. FoundStands' /\ IssuesAccountFor'
    BY <1>0, <2>1 DEF nonceRows, FoundStands, IssuesAccountFor, Holders
  <2> QED
    BY <1>0, <2>2 DEF NonceInv
<1> QED
  BY <1>1, <1>2, <1>4, <1>5, <1>6, <1>7 DEF NonceNext

------------------------------------------------------------------------------------

\* Every reachable state is well typed: about _make_nonce, whose nonces name the attempt
\* whose key holds them.
THEOREM MovementNonceTyped == NonceSpec => []NonceTypeOK
<1>1. NonceTyped => NonceTypeOK
  BY DEF NonceTyped
<1> QED
  BY <1>1, InitNonceTyped, NextNonceTyped, PTL DEF NonceSpec

\* A nonce is accepted at most as often as it was issued, as long as the client of an
\* attempt waits for its answers: about get, compare and delete in
\* verify_liveness_nonce, in any number of processes.
THEOREM NonceUsedOncePerIssue == ~Overlap /\ NonceSpec => []UsedAsOftenAsIssued
<1>1. NonceInv => UsedAsOftenAsIssued
  <2> SUFFICES ASSUME NonceInv, NEW n \in MovementNonces
               PROVE  uses[n] <= issues[n]
    BY DEF UsedAsOftenAsIssued
  <2>1. NonceTyped /\ IssuesAccountFor
    BY DEF NonceInv
  <2>2. {} \in SUBSET Holders(n)
    OBVIOUS
  <2>3. uses[n] + Cardinality({}) <= issues[n]
    BY <2>1, <2>2, FewerHolders
  <2>4. Cardinality({}) = 0 /\ uses[n] \in Nat
    BY <2>1, FS_EmptySet DEF NonceTyped, NonceTypeOK
  <2> QED
    BY <2>3, <2>4
<1> QED
  BY <1>1, InitNonceInv, NextNonceInv, PTL DEF NonceSpec

====================================================================================
