------------------------------- MODULE MCServerParts -------------------------------
(***************************************************************************)
(* The parts of the server around the protocol, for TLC.  They share no    *)
(* rows, so each behaviour runs one of them: the states add up instead of  *)
(* multiplying.                                                            *)
(***************************************************************************)
EXTENDS AgentVerification, RateLimit, LivenessNonce, FaceRegistry, FaceDecision,
        SessionService, Passkeys, AuditLedger

CONSTANTS
    Parts,          \* the parts to explore
    p1, p2, t1, t2, t3, s1, s2, s3, prof1, prof2, x1, x2, x3, me, other

VARIABLE part

\* Two workers, of which one has two threads.
MCProcessOf == t1 :> p1 @@ t2 :> p1 @@ t3 :> p2

\* Two sessions of one professor, one of another.
MCRoomOf == x1 :> prof1 @@ x2 :> prof1 @@ x3 :> prof2

\* Two attempts of the first student.
MCTryOf == 1 :> s1 @@ 2 :> s2 @@ 3 :> s3 @@ 4 :> s1

Shot(detector, odd, scores, face) ==
    [detector |-> detector, odd |-> odd, scores |-> scores, face |-> face]

\* A real face, another person, a tilted one, one near each threshold, a face that
\* only the cascade finds, and a frame without a face.
MCShots == {
    Shot("mtcnn", FALSE, <<0, 100, 0>>, me),
    Shot("mtcnn", FALSE, <<5, 90, 5>>, other),
    Shot("mtcnn", TRUE, <<0, 100, 0>>, me),
    Shot("mtcnn", FALSE, <<11, 60, 29>>, me),
    Shot("mtcnn", FALSE, <<60, 30, 10>>, me),
    Shot("cascade", FALSE, <<10, 60, 30>>, NoPerson),
    Shot("none", FALSE, <<0, 100, 0>>, NoPerson)}

\* No operator tells the agents apart, nor the threads of one worker.
PartsSymmetry == Permutations(Agents) \union Permutations({t1, t2})

------------------------------------------------------------------------------------

\* The rows of the other parts stay as they are.
OthersRest ==
    /\ part # "verification" => UNCHANGED verificationRows
    /\ part # "limit" => UNCHANGED limitRows
    /\ part # "nonce" => UNCHANGED nonceRows
    /\ part # "face" => UNCHANGED faceRows
    /\ part \notin {"verification", "limit", "nonce", "face"} => UNCHANGED <<now, restarts>>
    /\ part # "decision" => UNCHANGED decisionVars
    /\ part # "session" => UNCHANGED sessionVars
    /\ part # "pass" => UNCHANGED passVars
    /\ part # "ledger" => UNCHANGED ledgerVars
    /\ UNCHANGED part

\* Bound: the requests of the session part come to the two threads of one worker.
FewerThreads == job'[t3] = NoJob

PartsInit ==
    /\ part \in Parts
    /\ CacheInit /\ VerificationInit /\ LimitInit /\ NonceInit /\ FaceInit
    /\ SessionInit /\ PassInit /\ LedgerInit
    /\ DecisionInit
    /\ part # "decision" => verifierType = "mediapipe" /\ enrolled = NoPerson

PartsNext ==
    \/ part = "verification" /\ VerificationNext /\ OthersRest
    \/ part = "limit" /\ LimitNext /\ OthersRest
    \/ part = "nonce" /\ NonceNext /\ OthersRest
    \/ part = "face" /\ FaceNext /\ OthersRest
    \/ part = "decision" /\ DecisionNext /\ OthersRest
    \/ part = "session" /\ SessionNext /\ FewerThreads /\ OthersRest
    \/ part = "pass" /\ PassNext /\ OthersRest
    \/ part = "ledger" /\ LedgerNext /\ OthersRest

PartsSpec ==
    PartsInit /\ [][PartsNext]_<<part, verificationVars, limitRows, nonceRows, faceRows,
                                 decisionVars, sessionVars, passVars, ledgerVars>>

\* Every part is in a state it is meant to have.
PartsTypeOK ==
    /\ VerificationTypeOK /\ LimitTypeOK /\ NonceTypeOK /\ FaceTypeOK
    /\ DecisionTypeOK /\ SessionTypeOK /\ PassTypeOK /\ LedgerTypeOK

====================================================================================
