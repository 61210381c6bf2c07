----------------------------- MODULE ServerPartsProofs -----------------------------
(***************************************************************************)
(* The sum of the parts: each behaviour of MCServerParts is a behaviour of *)
(* the part it runs, for all values of the constants, and every part keeps *)
(* its types.                                                              *)
(***************************************************************************)
EXTENDS MCServerParts, CacheProofs, FaceProofs, RowProofs

partsVars == <<part, verificationVars, limitRows, nonceRows, faceRows,
               decisionVars, sessionVars, passVars, ledgerVars>>

\* The clock and the number of restarts, which the parts with a cache share.
ClockTyped == now \in 0..MaxTime /\ restarts \in Nat

\* What a step does to the clock, whichever of the parts with a cache takes it.
LEMMA ClockMoves ==
    ASSUME VerificationNext \/ LimitNext \/ NonceNext \/ FaceNext
    PROVE  Tick \/ ProcessReplaced \/ UNCHANGED <<now, restarts>>
<1>1. CASE VerificationNext
  BY <1>1 DEF VerificationNext, SignChallenge, CheckChallenge, MarkUsed, RefuseStart,
              CreateAttempt, VerifierRestarts, VerifierTick
<1>2. CASE LimitNext
  BY <1>2 DEF LimitNext, ReadCount, WriteCount, LimiterRestarts, LimiterTick
<1>3. CASE NonceNext
  BY <1>3 DEF NonceNext, IssueMovement, ReadNonce, ConsumeNonce, DropOldNonce,
              NonceProcessRestarts, NonceTick
<1>4. CASE FaceNext
  BY <1>4 DEF FaceNext, RegisterFile, RegisterCache, RegisterProfile, CallFails,
              LookupFile, FillCache, RevokeFile, RevokeProfile, RevokeCache,
              FaceProcessRestarts
<1> QED
  BY <1>1, <1>2, <1>3, <1>4

\* Which step a part takes: one of its own if it is the part that runs, and otherwise
\* its rows rest; the parts without a cache rest altogether.
LEMMA EachPartMoves ==
    ASSUME [PartsNext]_partsVars
    PROVE  /\ part' = part
           /\ part = "verification" => [VerificationNext]_verificationVars
           /\ part = "limit" => [LimitNext]_limitVars
           /\ part = "nonce" => [NonceNext]_nonceVars
           /\ part = "face" => [FaceNext]_faceVars
           /\ part # "verification" => UNCHANGED verificationRows
           /\ part # "limit" => UNCHANGED limitRows
           /\ part # "nonce" => UNCHANGED nonceRows
           /\ part # "face" => UNCHANGED faceRows
           /\ [DecisionNext]_decisionVars
           /\ [SessionNext]_sessionVars
           /\ [PassNext]_passVars
           /\ [LedgerNext]_ledgerVars
<1>1. CASE UNCHANGED partsVars
  BY <1>1 DEF partsVars, verificationVars, limitVars, nonceVars, faceVars
<1>2. CASE PartsNext
  BY <1>2 DEF PartsNext, OthersRest
<1> QED
  BY <1>1, <1>2

-----------------------------------------------------------------------------------

\* A behaviour of the sum is a behaviour of the part that runs; the parts that share
\* neither clock nor restarts with another are themselves whichever runs.
THEOREM SumOfParts ==
    PartsSpec => /\ part = "verification" => VerificationSpec
                 /\ part = "limit" => LimitSpec
                 /\ part = "nonce" => NonceSpec
                 /\ part = "face" => FaceSpec
                 /\ DecisionSpec /\ SessionSpec /\ PassSpec /\ LedgerSpec
<1>1. PartsInit => /\ CacheInit /\ VerificationInit /\ LimitInit /\ NonceInit /\ FaceInit
                   /\ DecisionInit /\ SessionInit /\ PassInit /\ LedgerInit
  BY DEF PartsInit
<1>2. [PartsNext]_partsVars =>
          /\ [DecisionNext]_decisionVars /\ [SessionNext]_sessionVars
          /\ [PassNext]_passVars /\ [LedgerNext]_ledgerVars
  BY EachPartMoves
<1>3. part = "verification" /\ [PartsNext]_partsVars =>
          [VerificationNext]_verificationVars /\ (part = "verification")'
  BY EachPartMoves
<1>4. part = "limit" /\ [PartsNext]_partsVars => [LimitNext]_limitVars /\ (part = "limit")'
  BY EachPartMoves
<1>5. part = "nonce" /\ [PartsNext]_partsVars => [NonceNext]_nonceVars /\ (part = "nonce")'
  BY EachPartMoves
<1>6. part = "face" /\ [PartsNext]_partsVars => [FaceNext]_faceVars /\ (part = "face")'
  BY EachPartMoves
<1>7. PartsSpec => PartsInit /\ [][PartsNext]_partsVars
  BY DEF PartsSpec, partsVars
<1>8. PartsSpec => (part = "verification" => VerificationSpec)
  BY <1>1, <1>3, <1>7, PTL DEF VerificationSpec
<1>9. PartsSpec => (part = "limit" => LimitSpec)
  BY <1>1, <1>4, <1>7, PTL DEF LimitSpec
<1>10. PartsSpec => (part = "nonce" => NonceSpec)
  BY <1>1, <1>5, <1>7, PTL DEF NonceSpec
<1>11. PartsSpec => (part = "face" => FaceSpec)
  BY <1>1, <1>6, <1>7, PTL DEF FaceSpec
<1>12. PartsSpec => DecisionSpec /\ SessionSpec /\ PassSpec /\ LedgerSpec
  BY <1>1, <1>2, <1>7, PTL DEF DecisionSpec, SessionSpec, PassSpec, LedgerSpec
<1> QED
  BY <1>8, <1>9, <1>10, <1>11, <1>12, PTL

\* Types of the parts with a cache, whose clock runs while their rows rest.
CachesTyped ==
    ClockTyped /\ VerificationTypeOK /\ LimitTypeOK /\ NonceTypeOK /\ FaceTypeOK

\* Every part is well typed, in a run of any of them.
THEOREM PartsTyped == PartsSpec => []PartsTypeOK
<1>1. PartsInit => CachesTyped
  BY CacheAssumption, InitVerificationTyped, InitLimitTyped, InitNonceTyped, InitFaceTyped
     DEF PartsInit, CacheInit, CachesTyped, ClockTyped, LimitTyped, NonceTyped
<1>2. CachesTyped /\ [PartsNext]_partsVars => CachesTyped'
  <2> SUFFICES ASSUME CachesTyped, [PartsNext]_partsVars
               PROVE  CachesTyped'
    OBVIOUS
  <2>1. Tick \/ ProcessReplaced \/ UNCHANGED <<now, restarts>>
    <3>1. CASE UNCHANGED partsVars
      BY <3>1 DEF partsVars, verificationVars
    <3>2. CASE VerificationNext \/ LimitNext \/ NonceNext \/ FaceNext
      BY <3>2, ClockMoves
    <3>3. CASE part \notin {"verification", "limit", "nonce", "face"} /\ OthersRest
      BY <3>3 DEF OthersRest
    <3> QED
      BY <3>1, <3>2, <3>3 DEF PartsNext
  <2>2. ClockTyped'
    BY <2>1, CacheAssumption DEF CachesTyped, ClockTyped, Tick, ProcessReplaced
  <2>3. VerificationTypeOK'
    <3>1. CASE part = "verification"
      BY <3>1, EachPartMoves, NextVerificationTyped DEF CachesTyped
    <3>2. CASE part # "verification"
      BY <2>2, <3>2, EachPartMoves
         DEF CachesTyped, ClockTyped, VerificationTypeOK, verificationRows
    <3> QED
      BY <3>1, <3>2
  <2>4. LimitTypeOK'
    <3>1. CASE part = "limit"
      BY <3>1, EachPartMoves, NextLimitTyped DEF CachesTyped, ClockTyped, LimitTyped
    <3>2. CASE part # "limit"
      BY <3>2, EachPartMoves DEF CachesTyped, LimitTypeOK, limitRows
    <3> QED
      BY <3>1, <3>2
  <2>5. NonceTypeOK'
    <3>1. CASE part = "nonce"
      BY <3>1, EachPartMoves, NextNonceTyped DEF CachesTyped, ClockTyped, NonceTyped
    <3>2. CASE part # "nonce"
      BY <3>2, EachPartMoves DEF CachesTyped, NonceTypeOK, nonceRows
    <3> QED
      BY <3>1, <3>2
  <2>6. FaceTypeOK'
    <3>1. CASE part = "face"
      BY <3>1, EachPartMoves, NextFaceTyped DEF CachesTyped
    <3>2. CASE part # "face"
      BY <3>2, EachPartMoves DEF CachesTyped, FaceTypeOK, Writing, faceRows
    <3> QED
      BY <3>1, <3>2
  <2> QED
    BY <2>2, <2>3, <2>4, <2>5, <2>6 DEF CachesTyped
<1>3. PartsSpec => []CachesTyped
  BY <1>1, <1>2, PTL DEF PartsSpec, partsVars
<1>4. PartsSpec => [](DecisionInv /\ SessionTypeOK /\ PassTypeOK /\ LedgerInv)
  BY SumOfParts, DecisionInvariance, SessionsTyped, PassesTyped, LedgerInvariance, PTL
<1>5. CachesTyped /\ DecisionInv /\ SessionTypeOK /\ PassTypeOK /\ LedgerInv => PartsTypeOK
  BY DEF CachesTyped, DecisionInv, LedgerInv, PartsTypeOK
<1> QED
  BY <1>3, <1>4, <1>5, PTL

===================================================================================
