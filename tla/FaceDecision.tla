------------------------------- MODULE FaceDecision -------------------------------
(***************************************************************************)
(* The decision on a burst of frames: what core/liveness.py and            *)
(* core/face_system/engine.py conclude from what the networks say of each  *)
(* frame.  Scores are percentages <<print, real, replay>>; averages are    *)
(* compared as sums.                                                       *)
(***************************************************************************)
EXTENDS Integers, Sequences, FiniteSetsExt

CONSTANTS
    Shots,          \* frames: what the networks answer
    Noise,          \* an item that decodes to no image
    Broken,         \* an item whose decoding raises
    Persons,
    NoPerson,
    MaxShots        \* frames in a burst                     (7 in the browser)

\* detector: who finds a box, MTCNN or the cascade it falls back to; odd: tilted by
\* more than 30 degrees or too close; face: the person MTCNN's face embeds to.
ASSUME ShotAssumption ==
    /\ Shots \subseteq [detector : {"mtcnn", "cascade", "none"}, odd : BOOLEAN,
                        scores : Seq(0..100), face : Persons \union {NoPerson}]
    /\ \A s \in Shots :
        /\ Len(s.scores) = 3
        /\ s.scores[1] + s.scores[2] + s.scores[3] = 100
        /\ s.face = NoPerson <=> s.detector # "mtcnn"
    /\ {Noise, Broken} \intersect Shots = {}
    /\ NoPerson \notin Persons
    /\ MaxShots \in Nat \ {0}

VARIABLES
    verifierType,   \* LIVENESS_VERIFIER_TYPE
    enrolled,       \* the stored embedding
    burst,          \* the items of the payload, as sent
    text,           \* what the payload decodes to, taken as one image
    decision        \* the LivenessDecision

decisionVars == <<verifierType, enrolled, burst, text, decision>>

Items == Shots \union {Noise, Broken}

Reasons == {
    "undecided", "face_not_registered", "image_decode_failed", "payload_too_large",
    "verifier_processing_error", "no_face_detected", "spoof_detected_replay",
    "spoof_detected_print", "liveness_score_below_threshold",
    "face_match_below_threshold", "face_and_liveness_verified",
    "mediapipe_challenge_passed", "liveness_verifier_not_configured"}

DecisionTypeOK ==
    /\ verifierType \in {"new_face_system", "mediapipe", "unconfigured", "misspelt"}
    /\ enrolled \in Persons \union {NoPerson}
    /\ burst \in Seq(Items) /\ Len(burst) <= MaxShots
    /\ text \in Shots \union {Noise}
    /\ decision \in [passed : BOOLEAN, reason : Reasons]

Undecided == [passed |-> FALSE, reason |-> "undecided"]

DecisionInit ==
    /\ verifierType \in {"new_face_system", "mediapipe", "unconfigured", "misspelt"}
    /\ enrolled \in Persons \union {NoPerson}
    /\ burst = <<>>
    /\ text = Noise
    /\ decision = Undecided

\* get_liveness_verifier: an unknown type is the production verifier.
Verifier(type) == IF type \in {"mediapipe", "unconfigured"} THEN type ELSE "production"

------------------------------------------------------------------------------------

\* _parse_frames: an item without an image is skipped.  At the first that raises, the
\* frames before it are kept, the rest is not read, and the whole text of the payload is
\* decoded as one image more: what follows its first comma, characters that are not
\* base64 left out.  The frames keep their places in the burst.
Parsed(items, whole) ==
    LET item(i) == IF items[i] = Broken THEN whole ELSE items[i]
    IN  [i \in {i \in DOMAIN items : /\ item(i) # Noise
                                     /\ \A j \in 1..i - 1 : items[j] # Broken} |-> item(i)]

\* What that image is depends on where the first comma of the text is: the first item, a
\* later one, an image in another field, or none.  Without an exception nobody asks.
Wholes(items) == IF Broken \in Range(items) THEN Shots \union {Noise} ELSE {Noise}

Printed == 1
Genuine == 2
Replayed == 3

SpoofThreshold == 60
MaxReplay == 30

\* Mutant: an anomalous frame is left out.
ScoredFrame(s) == s.detector # "none" /\ ~s.odd

\* predict_single_frame_spoof returns None without a box.
Scored(s) == s.detector # "none"

\* A tilted or close face counts as a replay.
Scores(s) == IF s.odd THEN <<5, 5, 90>> ELSE s.scores

\* The places of the frames that have a verdict.
Seen(frames) == {i \in DOMAIN frames : Scored(frames[i])}

Sum(w) ==
    LET upTo[n \in 0..MaxShots] == IF n = 0 THEN 0 ELSE upTo[n - 1] + w[n]
    IN  upTo[MaxShots]

Total(frames, class) ==
    LET seen == Seen(frames)
    IN  Sum([i \in 1..MaxShots |-> IF i \in seen THEN Scores(frames[i])[class] ELSE 0])

\* np.argmax: the first of the largest.
Predicted(frames) ==
    CHOOSE k \in {Printed, Genuine, Replayed} :
        \A j \in {Printed, Genuine, Replayed} :
            \/ Total(frames, j) < Total(frames, k)
            \/ Total(frames, j) = Total(frames, k) /\ k <= j

\* Mutant: the average is taken over all frames.
LiveOfAll(frames) ==
    LET n == Cardinality(DOMAIN frames)
    IN  /\ Seen(frames) # {}
        /\ Predicted(frames) = Genuine
        /\ Total(frames, Genuine) >= SpoofThreshold * n
        /\ Total(frames, Replayed) < MaxReplay * n

\* anti_spoofing_detection
Live(frames) ==
    LET n == Cardinality(Seen(frames))
    IN  /\ Seen(frames) # {}
        /\ Predicted(frames) = Genuine
        /\ Total(frames, Genuine) >= SpoofThreshold * n
        /\ Total(frames, Replayed) < MaxReplay * n

WithFace(frames) == {i \in DOMAIN frames : frames[i].face # NoPerson}

\* Mutant: the frames are searched from the first.
FirstFace(frames) ==
    IF WithFace(frames) = {} THEN NoPerson ELSE frames[Min(WithFace(frames))].face

\* verify_face_embedding: the last frame, or the nearest before it with a face.
Compared(frames) ==
    IF WithFace(frames) = {} THEN NoPerson ELSE frames[Max(WithFace(frames))].face

SpoofReason(frames) ==
    LET n == Cardinality(Seen(frames))
    IN  CASE n = 0 -> "no_face_detected"
          [] n # 0 /\ Total(frames, Replayed) >= MaxReplay * n -> "spoof_detected_replay"
          [] n # 0 /\ Total(frames, Replayed) < MaxReplay * n
                /\ Total(frames, Printed) > Total(frames, Genuine) -> "spoof_detected_print"
          [] OTHER -> "liveness_score_below_threshold"

\* overall_verification
Overall(frames, person) ==
    LET matched == Compared(frames) # NoPerson /\ Compared(frames) = person
    IN  [passed |-> Live(frames) /\ matched,
         reason |-> CASE ~Live(frames) -> SpoofReason(frames)
                      [] Live(frames) /\ ~matched -> "face_match_below_threshold"
                      [] OTHER -> "face_and_liveness_verified"]

Refused(why) == [passed |-> FALSE, reason |-> why]

\* ProductionFaceLivenessVerifier.verify
Production(frames, person) ==
    CASE person = NoPerson -> Refused("face_not_registered")
      [] person # NoPerson /\ DOMAIN frames = {} -> Refused("image_decode_failed")
      [] OTHER -> Overall(frames, person)

------------------------------------------------------------------------------------

\* The other verifiers do not look at the frames.
Capture(item) ==
    /\ decision = Undecided
    /\ Verifier(verifierType) = "production"
    /\ Len(burst) < MaxShots
    /\ burst' = Append(burst, item)
    /\ UNCHANGED <<verifierType, enrolled, text, decision>>

Decide ==
    /\ decision = Undecided
    /\ Verifier(verifierType) = "production"
    /\ \E whole \in Wholes(burst) :
        /\ text' = whole
        /\ decision' = Production(Parsed(burst, whole), enrolled)
    /\ UNCHANGED <<verifierType, enrolled, burst>>

\* The payload exceeds 20 MB, or the engine raises on the frames.
DecisionFails ==
    /\ decision = Undecided
    /\ Verifier(verifierType) = "production"
    /\ \/ decision' = Refused("payload_too_large") /\ UNCHANGED text
       \/ /\ enrolled # NoPerson
          /\ \E whole \in Wholes(burst) :
                text' = whole /\ DOMAIN Parsed(burst, whole) # {}
          /\ decision' = Refused("verifier_processing_error")
    /\ UNCHANGED <<verifierType, enrolled, burst>>

\* The view has accepted the nonce of LivenessNonce, or the request ends before.
DecideByNonce ==
    /\ decision = Undecided
    /\ Verifier(verifierType) = "mediapipe"
    /\ decision' = [passed |-> TRUE, reason |-> "mediapipe_challenge_passed"]
    /\ UNCHANGED <<verifierType, enrolled, burst, text>>

DecideUnconfigured ==
    /\ decision = Undecided
    /\ Verifier(verifierType) = "unconfigured"
    /\ decision' = Refused("liveness_verifier_not_configured")
    /\ UNCHANGED <<verifierType, enrolled, burst, text>>

DecisionNext ==
    \/ \E item \in Items : Capture(item)
    \/ Decide \/ DecisionFails \/ DecideByNonce \/ DecideUnconfigured

DecisionSpec == DecisionInit /\ [][DecisionNext]_decisionVars

------------------------------------------------------------------------------------

PassedFrames == decision.passed /\ verifierType # "mediapipe"

\* The frames judged.  Where every item can be decoded these are the images sent; else
\* they are the ones before the first that cannot, and perhaps one more.
Judged == Parsed(burst, text)

\* A burst passes only if more than two thirds of the faces judged are neither tilted
\* nor too close; a face that is judged twice counts twice.  About the averages, the
\* thresholds and the verdict that predict_single_frame_spoof makes up for such frames.
AnomaliesOutvoted ==
    LET frames == Judged
        faces == {i \in DOMAIN frames : frames[i].detector # "none"}
    IN  PassedFrames =>
            3 * Cardinality({i \in faces : frames[i].odd}) < Cardinality(faces)

\* A burst passes for the person whose face is the last one judged, and says why it does
\* not pass for another: for the last person sent where every item can be decoded.
\* About verify_face_embedding, which searches backwards.
LatestFaceDecides ==
    LET frames == Judged
        FinalFace(i) == \A j \in DOMAIN frames : j > i => frames[j].face = NoPerson
    IN  /\ PassedFrames => \E i \in DOMAIN frames : FinalFace(i) /\ frames[i].face = enrolled
        /\ decision.reason = "face_match_below_threshold" =>
            ~\E i \in DOMAIN frames : FinalFace(i) /\ frames[i].face = enrolled

\* A student passes if every frame judged that shows a face would pass alone, whatever
\* frames show no face, are skipped, or come after an item that cannot be decoded.
SteadyFacePasses ==
    LET frames == Judged
    IN  /\ decision # Undecided
        /\ Verifier(verifierType) = "production"
        /\ decision.reason \notin {"payload_too_large", "verifier_processing_error"}
        /\ enrolled # NoPerson
        /\ Seen(frames) # {}
        /\ \A i \in Seen(frames) : Overall(<<frames[i]>>, enrolled).passed
        => decision.passed

====================================================================================
