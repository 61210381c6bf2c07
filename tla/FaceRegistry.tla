------------------------------- MODULE FaceRegistry -------------------------------
(***************************************************************************)
(* The face of one student: the file and the profile row that all workers  *)
(* share, and FaceEmbeddingCache, a dictionary of each process that knows  *)
(* no timeout (core/student_service.py, core/liveness.py).                 *)
(***************************************************************************)
EXTENDS ProcessCache

CONSTANTS
    Faces,          \* embeddings that do not match one another
    NoFace,
    Nobody          \* the outcome of the last call is open

ASSUME FaceAssumption ==
    /\ NoFace \notin Faces
    /\ Nobody \notin Processes

VARIABLES
    faceFile,       \* embeddings/<user>.npy
    profile,        \* StudentProfile.encrypted_face_embedding
    faceCache,      \* per process: FaceEmbeddingCache._cache
    call,           \* per thread: the call under way
    disturbed,      \* history: the writers that another writer overlapped, or a lookup
                    \* of their own process that had begun before them
    settled         \* history: the last outcome reported undisturbed, and by whom

faceRows == <<faceFile, profile, faceCache, call, disturbed, settled>>
faceVars == <<now, restarts, faceRows>>

Writing(t) == call[t].pc \notin {"idle", "fill"}

MaybeFace == Faces \union {NoFace}

CallPoints == {"idle", "fill", "cache", "profile", "delete", "remove"}

NoCall == [pc |-> "idle", face |-> NoFace]

FaceTypeOK ==
    /\ faceFile \in MaybeFace
    /\ profile \in MaybeFace
    /\ faceCache \in [Processes -> MaybeFace]
    /\ call \in [Threads -> [pc : CallPoints, face : MaybeFace]]
    /\ \A t \in Threads : call[t].pc \in {"fill", "cache", "profile"} => call[t].face # NoFace
    /\ disturbed \subseteq {t \in Threads : Writing(t)}
    /\ settled \in [face : MaybeFace, by : Processes \union {Nobody}]

FaceInit ==
    /\ faceFile = NoFace
    /\ profile = NoFace
    /\ faceCache = [p \in Processes |-> NoFace]
    /\ call = [t \in Threads |-> NoCall]
    /\ disturbed = {}
    /\ settled = [face |-> NoFace, by |-> Nobody]

\* FaceEmbeddingCache.get
Known(p) == IF faceCache[p] # NoFace THEN faceCache[p] ELSE faceFile

\* verify_student_face: the candidate matches the face known here.
Matches(p, f) == Known(p) # NoFace /\ Known(p) = f

\* _get_stored_embedding of the liveness verifier.
StoredEmbedding(p) == IF Known(p) # NoFace THEN Known(p) ELSE profile

\* check_face_status
Registered == faceFile # NoFace \/ profile # NoFace

Step(t, point, f) == call' = [call EXCEPT ![t] = [pc |-> point, face |-> f]]

Others(t) ==
    {u \in Threads : Writing(u)} \union {u \in Siblings(t) : call[u].pc = "fill"}

\* A thread begins to write; what was reported before no longer says anything.
Begin(t, point, f) ==
    /\ call[t].pc = "idle"
    /\ Step(t, point, f)
    /\ disturbed' = disturbed \union {u \in Threads : Writing(u)}
                        \union (IF Others(t) = {} THEN {} ELSE {t})
    /\ settled' = [face |-> NoFace, by |-> Nobody]

\* It has written, or gives up.
End(t) ==
    /\ Step(t, "idle", NoFace)
    /\ disturbed' = disturbed \ {t}

Report(t, f) ==
    settled' = IF t \in disturbed THEN settled ELSE [face |-> f, by |-> ProcessOf[t]]

------------------------------------------------------------------------------------

\* register_student_face_embedding: the file, the cache, the row, one by one.
RegisterFile(t, f) ==
    /\ Begin(t, "cache", f)
    /\ faceFile' = f
    /\ UNCHANGED <<now, restarts, profile, faceCache>>

\* Mutant: the cache is left as it is.
RegisterNoCache(t) ==
    /\ call[t].pc = "cache"
    /\ Step(t, "profile", call[t].face)
    /\ UNCHANGED <<now, restarts, faceFile, profile, faceCache, disturbed, settled>>

RegisterCache(t) ==
    /\ call[t].pc = "cache"
    /\ faceCache' = [faceCache EXCEPT ![ProcessOf[t]] = call[t].face]
    /\ Step(t, "profile", call[t].face)
    /\ UNCHANGED <<now, restarts, faceFile, profile, disturbed, settled>>

RegisterProfile(t) ==
    /\ call[t].pc = "profile"
    /\ profile' = call[t].face
    /\ Report(t, call[t].face)
    /\ End(t)
    /\ UNCHANGED <<now, restarts, faceFile, faceCache>>

\* The database fails a registration or a revocation: what was done stays.
CallFails(t) ==
    /\ call[t].pc \in {"profile", "delete"}
    /\ End(t)
    /\ UNCHANGED <<now, restarts, faceFile, profile, faceCache, settled>>

\* A verification finds no face in the cache and loads the file, then keeps it.
LookupFile(t) ==
    /\ call[t].pc = "idle"
    /\ faceCache[ProcessOf[t]] = NoFace
    /\ faceFile # NoFace
    /\ Step(t, "fill", faceFile)
    /\ UNCHANGED <<now, restarts, faceFile, profile, faceCache, disturbed, settled>>

FillCache(t) ==
    /\ call[t].pc = "fill"
    /\ faceCache' = [faceCache EXCEPT ![ProcessOf[t]] = call[t].face]
    /\ Step(t, "idle", NoFace)
    /\ UNCHANGED <<now, restarts, faceFile, profile, disturbed, settled>>

\* revoke_student_face: the file, the row, the cache of this process.
RevokeFile(t) ==
    /\ Begin(t, "delete", NoFace)
    /\ faceFile' = NoFace
    /\ UNCHANGED <<now, restarts, profile, faceCache>>

\* Mutant: the row is kept.
RevokeNoProfile(t) ==
    /\ call[t].pc = "delete"
    /\ Step(t, "remove", NoFace)
    /\ UNCHANGED <<now, restarts, faceFile, profile, faceCache, disturbed, settled>>

RevokeProfile(t) ==
    /\ call[t].pc = "delete"
    /\ profile' = NoFace
    /\ Step(t, "remove", NoFace)
    /\ UNCHANGED <<now, restarts, faceFile, faceCache, disturbed, settled>>

RevokeCache(t) ==
    /\ call[t].pc = "remove"
    /\ faceCache' = [faceCache EXCEPT ![ProcessOf[t]] = NoFace]
    /\ Report(t, NoFace)
    /\ End(t)
    /\ UNCHANGED <<now, restarts, faceFile, profile>>

FaceProcessRestarts(p) ==
    /\ ProcessReplaced
    /\ faceCache' = [faceCache EXCEPT ![p] = NoFace]
    /\ call' = [t \in Threads |-> IF ProcessOf[t] = p THEN NoCall ELSE call[t]]
    /\ disturbed' = {t \in disturbed : ProcessOf[t] # p}
    /\ UNCHANGED <<faceFile, profile, settled>>

FaceNext ==
    \/ \E t \in Threads, f \in Faces : RegisterFile(t, f)
    \/ \E t \in Threads :
        \/ RegisterCache(t) \/ RegisterProfile(t) \/ CallFails(t)
        \/ LookupFile(t) \/ FillCache(t)
        \/ RevokeFile(t) \/ RevokeProfile(t) \/ RevokeCache(t)
    \/ \E p \in Processes : FaceProcessRestarts(p)

FaceSpec == CacheInit /\ FaceInit /\ [][FaceNext]_faceVars

------------------------------------------------------------------------------------

\* What a call has reported that ran undisturbed is what the worker that reported it
\* recognises until the next write begins, in both places that ask: the face registered,
\* or none after a revocation.  About the order of file, cache and row, failures and
\* restarts between them, and lookups that begin meanwhile or later in any worker.
\* Where a registration and a revocation overlap, nothing is promised.
OutcomeStands ==
    settled.by # Nobody =>
        /\ \A f \in Faces : Matches(settled.by, f) <=> settled.face = f
        /\ StoredEmbedding(settled.by) = settled.face

\* check_face_status says "registered" exactly when the last outcome says so that a call
\* has reported undisturbed, until the next write begins.
StatusAgrees ==
    settled.by # Nobody => (Registered <=> settled.face # NoFace)

\* A face reported as revoked is recognised by no worker.  About
\* revoke_student_face and the caches of the other processes.
RevokedEverywhere ==
    settled.by # Nobody /\ settled.face = NoFace =>
        \A p \in Processes : StoredEmbedding(p) = NoFace

====================================================================================
