-------------------------------- MODULE FaceProofs --------------------------------
(***************************************************************************)
(* Proofs about FaceRegistry, for every number of faces, processes and     *)
(* threads, and about FaceDecision, for every set of frames and every      *)
(* length of a burst.                                                      *)
(***************************************************************************)
EXTENDS FaceRegistry, FaceDecision, NaturalLemmas, FiniteSetTheorems, TLAPS

(***************************************************************************)
(* FaceRegistry                                                            *)
(***************************************************************************)

\* A thread that writes undisturbed is the only one that writes.
OnlyWriter ==
    \A t, u \in Threads : Writing(t) /\ Writing(u) /\ t # u => t \in disturbed

\* While somebody writes, no outcome is reported.
WriterOpens == \A t \in Threads : Writing(t) => settled.by = Nobody

\* How far an undisturbed writer has come; what the lookups of its process have loaded
\* is the face it registers.
WriterProgress ==
    \A t \in Threads : Writing(t) /\ t \notin disturbed =>
        /\ call[t].pc \in {"cache", "profile"} => faceFile = call[t].face
        /\ call[t].pc = "profile" => faceCache[ProcessOf[t]] = call[t].face
        /\ call[t].pc \in {"delete", "remove"} => faceFile = NoFace
        /\ call[t].pc = "remove" => profile = NoFace
        /\ \A u \in Threads :
            call[u].pc = "fill" /\ ProcessOf[u] = ProcessOf[t] =>
                call[t].pc \in {"cache", "profile"} /\ call[u].face = call[t].face

\* What was reported is in the file and the row; the worker that reported it has it
\* in its cache, or nothing, and puts nothing else there.
Settles ==
    settled.by # Nobody =>
        /\ faceFile = settled.face
        /\ profile = settled.face
        /\ faceCache[settled.by] \in {settled.face, NoFace}
        /\ \A t \in Threads :
            ProcessOf[t] = settled.by /\ call[t].pc = "fill" => call[t].face = settled.face

FaceInv == FaceTypeOK /\ OnlyWriter /\ WriterOpens /\ WriterProgress /\ Settles

------------------------------------------------------------------------------------

LEMMA InitFaceTyped == FaceInit => FaceTypeOK
  BY FaceAssumption DEF FaceInit, FaceTypeOK, NoCall, MaybeFace, CallPoints

\* What a step of the thread t leaves of the calls of the others.
LEMMA StepMoves ==
    ASSUME FaceTypeOK, NEW t \in Threads, NEW point, NEW f, Step(t, point, f)
    PROVE  \A u \in Threads : call'[u] = IF u = t THEN [pc |-> point, face |-> f] ELSE call[u]
  BY DEF FaceTypeOK, Step

LEMMA NextFaceTyped == FaceTypeOK /\ [FaceNext]_faceVars => FaceTypeOK'
<1> SUFFICES ASSUME FaceTypeOK, [FaceNext]_faceVars
             PROVE  FaceTypeOK'
  OBVIOUS
<1> USE FaceAssumption, WorkersAssumption DEF MaybeFace, CallPoints
<1>a. ASSUME NEW t \in Threads, NEW point \in CallPoints, NEW f \in MaybeFace,
             \/ Begin(t, point, f) /\ point # "fill"
             \/ Step(t, point, f) /\ UNCHANGED <<disturbed, settled>>,
             point # "idle",
             Writing(t) => point # "fill",
             point \in {"cache", "profile", "fill"} => f # NoFace
      PROVE  /\ call' \in [Threads -> [pc : CallPoints, face : MaybeFace]]
             /\ \A u \in Threads : call'[u].pc \in {"fill", "cache", "profile"} => call'[u].face # NoFace
             /\ disturbed' \subseteq {u \in Threads : Writing(u)'}
             /\ settled' \in [face : MaybeFace, by : Processes \union {Nobody}]
  <2>1. Step(t, point, f)
    BY <1>a DEF Begin
  <2>2. \A u \in Threads : call'[u] = IF u = t THEN [pc |-> point, face |-> f] ELSE call[u]
    BY <2>1, StepMoves
  <2>3. call' \in [Threads -> [pc : CallPoints, face : MaybeFace]]
    BY <2>1 DEF Step, FaceTypeOK
  <2>4. \A u \in Threads : Writing(u) => Writing(u)'
    BY <1>a, <2>2 DEF Writing
  <2>5. point # "fill" => Writing(t)'
    BY <1>a, <2>2 DEF Writing
  <2>6. disturbed' \subseteq {u \in Threads : Writing(u)'}
    BY <1>a, <2>4, <2>5 DEF Begin, FaceTypeOK
  <2>7. settled' \in [face : MaybeFace, by : Processes \union {Nobody}]
    BY <1>a DEF Begin, FaceTypeOK
  <2> QED
    BY <1>a, <2>2, <2>3, <2>6, <2>7 DEF FaceTypeOK
<1>b. ASSUME NEW t \in Threads, Step(t, "idle", NoFace), disturbed' \subseteq disturbed \ {t}
      PROVE  /\ call' \in [Threads -> [pc : CallPoints, face : MaybeFace]]
             /\ \A u \in Threads : call'[u].pc \in {"fill", "cache", "profile"} => call'[u].face # NoFace
             /\ disturbed' \subseteq {u \in Threads : Writing(u)'}
  <2>1. \A u \in Threads : call'[u] = IF u = t THEN [pc |-> "idle", face |-> NoFace] ELSE call[u]
    BY <1>b, StepMoves
  <2>2. call' \in [Threads -> [pc : CallPoints, face : MaybeFace]]
    BY <1>b DEF Step, FaceTypeOK
  <2> QED
    BY <1>b, <2>1, <2>2 DEF FaceTypeOK, Writing
<1>1. ASSUME NEW t \in Threads, NEW f \in Faces, RegisterFile(t, f)
      PROVE  FaceTypeOK'
  BY <1>1, <1>a DEF RegisterFile, FaceTypeOK
<1>2. ASSUME NEW t \in Threads, RegisterCache(t)
      PROVE  FaceTypeOK'
  <2>1. call[t].face \in MaybeFace /\ call[t].face # NoFace
    BY <1>2 DEF RegisterCache, FaceTypeOK
  <2> QED
    BY <1>2, <1>a, <2>1 DEF RegisterCache, FaceTypeOK
<1>3. ASSUME NEW t \in Threads, RegisterProfile(t)
      PROVE  FaceTypeOK'
  <2>1. call[t].face \in MaybeFace
    BY <1>3 DEF FaceTypeOK
  <2>2. settled' \in [face : MaybeFace, by : Processes \union {Nobody}]
    BY <1>3, <2>1 DEF RegisterProfile, Report, FaceTypeOK
  <2> QED
    BY <1>3, <1>b, <2>1, <2>2 DEF RegisterProfile, End, FaceTypeOK
<1>4. ASSUME NEW t \in Threads, CallFails(t)
      PROVE  FaceTypeOK'
  BY <1>4, <1>b DEF CallFails, End, FaceTypeOK
<1>5. ASSUME NEW t \in Threads, LookupFile(t)
      PROVE  FaceTypeOK'
  <2>1. ~Writing(t) /\ faceFile \in MaybeFace
    BY <1>5 DEF LookupFile, Writing, FaceTypeOK
  <2> QED
    BY <1>5, <1>a, <2>1 DEF LookupFile, FaceTypeOK
<1>6. ASSUME NEW t \in Threads, FillCache(t)
      PROVE  FaceTypeOK'
  <2>1. t \notin disturbed /\ call[t].face \in MaybeFace
    BY <1>6 DEF FillCache, FaceTypeOK, Writing
  <2> QED
    BY <1>6, <1>b, <2>1 DEF FillCache, FaceTypeOK
<1>7. ASSUME NEW t \in Threads, RevokeFile(t)
      PROVE  FaceTypeOK'
  BY <1>7, <1>a DEF RevokeFile, FaceTypeOK
<1>8. ASSUME NEW t \in Threads, RevokeProfile(t)
      PROVE  FaceTypeOK'
  BY <1>8, <1>a DEF RevokeProfile, FaceTypeOK
<1>9. ASSUME NEW t \in Threads, RevokeCache(t)
      PROVE  FaceTypeOK'
  <2>1. settled' \in [face : MaybeFace, by : Processes \union {Nobody}]
    BY <1>9 DEF RevokeCache, Report, FaceTypeOK
  <2> QED
    BY <1>9, <1>b, <2>1 DEF RevokeCache, End, FaceTypeOK
<1>10. ASSUME NEW p \in Processes, FaceProcessRestarts(p)
       PROVE  FaceTypeOK'
  BY <1>10 DEF FaceProcessRestarts, NoCall, FaceTypeOK, Writing
<1>11. CASE UNCHANGED faceVars
  BY <1>11 DEF faceVars, faceRows, FaceTypeOK, Writing
<1> QED
  BY <1>1, <1>2, <1>3, <1>4, <1>5, <1>6, <1>7, <1>8, <1>9, <1>10, <1>11 DEF FaceNext

\* Every reachable state is well typed.
THEOREM FacesTyped == FaceSpec => []FaceTypeOK
  BY InitFaceTyped, NextFaceTyped, PTL DEF FaceSpec

------------------------------------------------------------------------------------

LEMMA InitFaceInv == FaceInit => FaceInv
  BY InitFaceTyped
     DEF FaceInit, FaceInv, OnlyWriter, Writing, WriterOpens, WriterProgress, Settles, NoCall

\* Whoever begins while another writes, or after a lookup of its own process, is disturbed.
LEMMA BeginDisturbs ==
    ASSUME FaceTypeOK, OnlyWriter, NEW t \in Threads, NEW point, NEW f, Begin(t, point, f),
           point \notin {"idle", "fill"}
    PROVE  /\ \A u \in Threads :
                call'[u] = IF u = t THEN [pc |-> point, face |-> f] ELSE call[u]
           /\ \A u \in Threads : Writing(u)' <=> u = t \/ Writing(u)
           /\ \A u \in Threads : Writing(u)' /\ u \notin disturbed' =>
                /\ u = t
                /\ \A v \in Threads : ProcessOf[v] = ProcessOf[t] => call'[v].pc # "fill"
           /\ OnlyWriter' /\ WriterOpens' /\ settled'.by = Nobody
<1>1. \A u \in Threads : call'[u] = IF u = t THEN [pc |-> point, face |-> f] ELSE call[u]
  BY StepMoves DEF Begin
<1>2. \A u \in Threads : Writing(u)' <=> u = t \/ Writing(u)
  BY <1>1 DEF Writing
<1>3. \A u \in Threads : Writing(u) => u \in disturbed'
  BY DEF Begin
<1>4. Others(t) # {} => t \in disturbed'
  BY DEF Begin
<1>5. settled'.by = Nobody
  BY DEF Begin
<1>6. OnlyWriter'
  BY <1>2, <1>3, <1>4 DEF OnlyWriter, Others
<1>7. ASSUME NEW u \in Threads, Writing(u)', u \notin disturbed'
      PROVE  /\ u = t
             /\ \A v \in Threads : ProcessOf[v] = ProcessOf[t] => call'[v].pc # "fill"
  BY <1>1, <1>2, <1>3, <1>4, <1>7 DEF Others, Siblings
<1> QED
  BY <1>1, <1>2, <1>5, <1>6, <1>7 DEF WriterOpens

\* A step that ends the call of t leaves the other writers and what disturbs them.
LEMMA EndKeeps ==
    ASSUME FaceTypeOK, OnlyWriter, NEW t \in Threads, End(t)
    PROVE  /\ \A u \in Threads :
                call'[u] = IF u = t THEN [pc |-> "idle", face |-> NoFace] ELSE call[u]
           /\ \A u \in Threads : Writing(u)' <=> u # t /\ Writing(u)
           /\ \A u \in Threads : u # t => (u \in disturbed' <=> u \in disturbed)
           /\ OnlyWriter'
<1>1. \A u \in Threads :
        call'[u] = IF u = t THEN [pc |-> "idle", face |-> NoFace] ELSE call[u]
  BY StepMoves DEF End
<1>2. \A u \in Threads : u # t => (u \in disturbed' <=> u \in disturbed)
  BY DEF End
<1>3. \A u \in Threads : Writing(u)' <=> u # t /\ Writing(u)
  BY <1>1 DEF Writing
<1> QED
  BY <1>1, <1>2, <1>3 DEF OnlyWriter

\* Every step keeps the progress of the undisturbed writer and what was reported.
LEMMA NextFaceInv == FaceInv /\ [FaceNext]_faceVars => FaceInv'
<1> SUFFICES ASSUME FaceInv, [FaceNext]_faceVars
             PROVE  FaceInv'
  OBVIOUS
<1>0. /\ FaceTypeOK /\ FaceTypeOK'
      /\ ProcessOf \in [Threads -> Processes]
      /\ Nobody \notin Processes
      /\ NoFace \notin Faces
  BY NextFaceTyped, FaceAssumption, WorkersAssumption DEF FaceInv
<1>a. OnlyWriter /\ WriterOpens /\ WriterProgress /\ Settles
  BY DEF FaceInv
<1>1. ASSUME NEW t \in Threads, NEW f \in Faces, RegisterFile(t, f)
      PROVE  FaceInv'
  <2>1. Begin(t, "cache", f) /\ faceFile' = f
    BY <1>1 DEF RegisterFile
  <2>2. \A u \in Threads : call'[u] = IF u = t THEN [pc |-> "cache", face |-> f] ELSE call[u]
    BY <1>0, <1>a, <2>1, BeginDisturbs
  <2>3. \A u \in Threads : Writing(u)' /\ u \notin disturbed' =>
            u = t /\ \A v \in Threads : ProcessOf[v] = ProcessOf[t] => call'[v].pc # "fill"
    BY <1>0, <1>a, <2>1, BeginDisturbs
  <2>4. OnlyWriter' /\ WriterOpens' /\ Settles'
    BY <1>0, <1>a, <2>1, BeginDisturbs DEF Settles
  <2>5. WriterProgress'
    BY <2>1, <2>2, <2>3 DEF WriterProgress
  <2> QED
    BY <1>0, <2>4, <2>5 DEF FaceInv
<1>2. ASSUME NEW t \in Threads, RegisterCache(t)
      PROVE  FaceInv'
  <2>1. \A u \in Threads :
          call'[u] = IF u = t THEN [pc |-> "profile", face |-> call[t].face] ELSE call[u]
    BY <1>0, <1>2, StepMoves DEF RegisterCache
  <2>2. Writing(t) /\ settled.by = Nobody /\ UNCHANGED <<settled, disturbed, faceFile, profile>>
    BY <1>2, <1>a DEF RegisterCache, Writing, WriterOpens
  <2>3. \A u \in Threads : Writing(u)' <=> Writing(u)
    BY <2>1, <2>2 DEF Writing
  <2>4. OnlyWriter' /\ WriterOpens' /\ Settles'
    BY <1>a, <2>2, <2>3 DEF OnlyWriter, WriterOpens, Settles
  <2>5. faceCache'[ProcessOf[t]] = call[t].face /\ call[t].pc = "cache"
    BY <1>0, <1>2 DEF RegisterCache, FaceTypeOK
  <2>6. ASSUME NEW u \in Threads, Writing(u)', u \notin disturbed'
        PROVE  u = t /\ t \notin disturbed
    BY <1>a, <2>2, <2>3, <2>6 DEF OnlyWriter
  <2>7. WriterProgress'
    BY <1>a, <2>1, <2>2, <2>5, <2>6 DEF WriterProgress
  <2> QED
    BY <1>0, <2>4, <2>7 DEF FaceInv
<1>3. ASSUME NEW t \in Threads, RegisterProfile(t)
      PROVE  FaceInv'
  <2>1. /\ Writing(t) /\ call[t].pc = "profile" /\ End(t)
        /\ profile' = call[t].face /\ faceFile' = faceFile /\ faceCache' = faceCache
        /\ Report(t, call[t].face)
    BY <1>3 DEF RegisterProfile, Writing
  <2>2. \A u \in Threads :
          call'[u] = IF u = t THEN [pc |-> "idle", face |-> NoFace] ELSE call[u]
    BY <1>0, <1>a, <2>1, EndKeeps
  <2>3. /\ \A u \in Threads : Writing(u)' => u # t /\ Writing(u)
        /\ \A u \in Threads : u # t => (u \in disturbed' <=> u \in disturbed)
        /\ OnlyWriter'
    BY <1>0, <1>a, <2>1, EndKeeps
  <2>4. \A u \in Threads : Writing(u)' => u \in disturbed'
    BY <1>a, <2>1, <2>3 DEF OnlyWriter
  <2>5. WriterProgress'
    BY <2>4 DEF WriterProgress
  <2>6. CASE t \in disturbed
    <3>1. settled' = settled /\ settled.by = Nobody
      BY <1>a, <2>1, <2>6 DEF Report, WriterOpens
    <3> QED
      BY <1>0, <2>3, <2>5, <3>1 DEF FaceInv, WriterOpens, Settles
  <2>7. CASE t \notin disturbed
    <3>1. settled' = [face |-> call[t].face, by |-> ProcessOf[t]]
      BY <2>1, <2>7 DEF Report
    <3>2. WriterOpens'
      BY <1>a, <2>1, <2>3, <2>7 DEF OnlyWriter, WriterOpens
    <3>3. /\ faceFile = call[t].face /\ faceCache[ProcessOf[t]] = call[t].face
          /\ \A u \in Threads : call[u].pc = "fill" /\ ProcessOf[u] = ProcessOf[t] =>
                call[u].face = call[t].face
      BY <1>a, <2>1, <2>7 DEF WriterProgress
    <3>4. Settles'
      BY <2>1, <2>2, <3>1, <3>3 DEF Settles
    <3> QED
      BY <1>0, <2>3, <2>5, <3>2, <3>4 DEF FaceInv
  <2> QED
    BY <2>6, <2>7
<1>4. ASSUME NEW t \in Threads, CallFails(t)
      PROVE  FaceInv'
  <2>1. End(t) /\ Writing(t) /\ UNCHANGED <<faceFile, profile, faceCache, settled>>
    BY <1>4 DEF CallFails, Writing
  <2>2. \A u \in Threads :
          call'[u] = IF u = t THEN [pc |-> "idle", face |-> NoFace] ELSE call[u]
    BY <1>0, <1>a, <2>1, EndKeeps
  <2>3. /\ \A u \in Threads : Writing(u)' => u # t /\ Writing(u)
        /\ \A u \in Threads : u # t => (u \in disturbed' <=> u \in disturbed)
        /\ OnlyWriter'
    BY <1>0, <1>a, <2>1, EndKeeps
  <2>4. \A u \in Threads : Writing(u)' => u \in disturbed'
    BY <1>a, <2>1, <2>3 DEF OnlyWriter
  <2>5. WriterProgress' /\ WriterOpens' /\ Settles'
    BY <1>a, <2>1, <2>2, <2>3, <2>4 DEF WriterProgress, WriterOpens, Settles
  <2> QED
    BY <1>0, <2>3, <2>5 DEF FaceInv
<1>5. ASSUME NEW t \in Threads, LookupFile(t)
      PROVE  FaceInv'
  <2>1. \A u \in Threads :
          call'[u] = IF u = t THEN [pc |-> "fill", face |-> faceFile] ELSE call[u]
    BY <1>0, <1>5, StepMoves DEF LookupFile
  <2>2. /\ call[t].pc = "idle" /\ faceFile # NoFace
        /\ UNCHANGED <<faceFile, profile, faceCache, disturbed, settled>>
    BY <1>5 DEF LookupFile
  <2>3. \A u \in Threads : (Writing(u)' <=> Writing(u)) /\ (Writing(u)' => u # t)
    BY <2>1, <2>2 DEF Writing
  <2>4. OnlyWriter' /\ WriterOpens' /\ Settles'
    BY <1>a, <2>1, <2>2, <2>3 DEF OnlyWriter, WriterOpens, Settles
  <2>5. ASSUME NEW u \in Threads, Writing(u)', u \notin disturbed'
        PROVE  /\ call'[u] = call[u] /\ call[u].pc \in {"cache", "profile"}
               /\ faceFile = call[u].face
    <3>1. u # t /\ Writing(u) /\ u \notin disturbed
      BY <2>2, <2>3, <2>5
    <3>2. call[u].pc \in CallPoints
      BY <1>0 DEF FaceTypeOK
    <3> QED
      BY <1>a, <2>1, <2>2, <3>1, <3>2 DEF WriterProgress, Writing, CallPoints
  <2>6. WriterProgress'
    BY <1>a, <2>1, <2>2, <2>3, <2>5 DEF WriterProgress
  <2> QED
    BY <1>0, <2>4, <2>6 DEF FaceInv
<1>6. ASSUME NEW t \in Threads, FillCache(t)
      PROVE  FaceInv'
  <2>1. \A u \in Threads :
          call'[u] = IF u = t THEN [pc |-> "idle", face |-> NoFace] ELSE call[u]
    BY <1>0, <1>6, StepMoves DEF FillCache
  <2>2. \A p \in Processes :
          faceCache'[p] = IF p = ProcessOf[t] THEN call[t].face ELSE faceCache[p]
    BY <1>0, <1>6 DEF FillCache, FaceTypeOK
  <2>3. call[t].pc = "fill" /\ UNCHANGED <<faceFile, profile, disturbed, settled>>
    BY <1>6 DEF FillCache
  <2>4. \A u \in Threads : (Writing(u)' <=> Writing(u)) /\ (Writing(u)' => u # t)
    BY <2>1, <2>3 DEF Writing
  <2>5. OnlyWriter' /\ WriterOpens'
    BY <1>a, <2>3, <2>4 DEF OnlyWriter, WriterOpens
  <2>6. Settles'
    BY <1>0, <1>a, <2>1, <2>2, <2>3 DEF Settles, FaceTypeOK
  <2>7. WriterProgress'
    BY <1>0, <1>a, <2>1, <2>2, <2>3, <2>4 DEF WriterProgress
  <2> QED
    BY <1>0, <2>5, <2>6, <2>7 DEF FaceInv
<1>7. ASSUME NEW t \in Threads, RevokeFile(t)
      PROVE  FaceInv'
  <2>1. Begin(t, "delete", NoFace) /\ faceFile' = NoFace
    BY <1>7 DEF RevokeFile
  <2>2. \A u \in Threads :
          call'[u] = IF u = t THEN [pc |-> "delete", face |-> NoFace] ELSE call[u]
    BY <1>0, <1>a, <2>1, BeginDisturbs
  <2>3. \A u \in Threads : Writing(u)' /\ u \notin disturbed' =>
            u = t /\ \A v \in Threads : ProcessOf[v] = ProcessOf[t] => call'[v].pc # "fill"
    BY <1>0, <1>a, <2>1, BeginDisturbs
  <2>4. OnlyWriter' /\ WriterOpens' /\ Settles'
    BY <1>0, <1>a, <2>1, BeginDisturbs DEF Settles
  <2>5. WriterProgress'
    BY <2>1, <2>2, <2>3 DEF WriterProgress
  <2> QED
    BY <1>0, <2>4, <2>5 DEF FaceInv
<1>8. ASSUME NEW t \in Threads, RevokeProfile(t)
      PROVE  FaceInv'
  <2>1. \A u \in Threads :
          call'[u] = IF u = t THEN [pc |-> "remove", face |-> NoFace] ELSE call[u]
    BY <1>0, <1>8, StepMoves DEF RevokeProfile
  <2>2. /\ Writing(t) /\ call[t].pc = "delete" /\ settled.by = Nobody /\ profile' = NoFace
        /\ UNCHANGED <<settled, disturbed, faceFile, faceCache>>
    BY <1>8, <1>a DEF RevokeProfile, Writing, WriterOpens
  <2>3. \A u \in Threads : Writing(u)' <=> Writing(u)
    BY <2>1, <2>2 DEF Writing
  <2>4. OnlyWriter' /\ WriterOpens' /\ Settles'
    BY <1>a, <2>2, <2>3 DEF OnlyWriter, WriterOpens, Settles
  <2>5. ASSUME NEW u \in Threads, Writing(u)', u \notin disturbed'
        PROVE  u = t /\ t \notin disturbed
    BY <1>a, <2>2, <2>3, <2>5 DEF OnlyWriter
  <2>6. WriterProgress'
    BY <1>a, <2>1, <2>2, <2>5 DEF WriterProgress
  <2> QED
    BY <1>0, <2>4, <2>6 DEF FaceInv
<1>9. ASSUME NEW t \in Threads, RevokeCache(t)
      PROVE  FaceInv'
  <2>1. /\ Writing(t) /\ call[t].pc = "remove" /\ End(t)
        /\ profile' = profile /\ faceFile' = faceFile
        /\ Report(t, NoFace)
    BY <1>9 DEF RevokeCache, Writing
  <2>2. \A u \in Threads :
          call'[u] = IF u = t THEN [pc |-> "idle", face |-> NoFace] ELSE call[u]
    BY <1>0, <1>a, <2>1, EndKeeps
  <2>3. /\ \A u \in Threads : Writing(u)' => u # t /\ Writing(u)
        /\ \A u \in Threads : u # t => (u \in disturbed' <=> u \in disturbed)
        /\ OnlyWriter'
    BY <1>0, <1>a, <2>1, EndKeeps
  <2>4. \A u \in Threads : Writing(u)' => u \in disturbed'
    BY <1>a, <2>1, <2>3 DEF OnlyWriter
  <2>5. WriterProgress'
    BY <2>4 DEF WriterProgress
  <2>6. CASE t \in disturbed
    <3>1. settled' = settled /\ settled.by = Nobody
      BY <1>a, <2>1, <2>6 DEF Report, WriterOpens
    <3> QED
      BY <1>0, <2>3, <2>5, <3>1 DEF FaceInv, WriterOpens, Settles
  <2>7. CASE t \notin disturbed
    <3>1. settled' = [face |-> NoFace, by |-> ProcessOf[t]]
      BY <2>1, <2>7 DEF Report
    <3>2. WriterOpens'
      BY <1>a, <2>1, <2>3, <2>7 DEF OnlyWriter, WriterOpens
    <3>3. /\ faceFile = NoFace /\ profile = NoFace
          /\ \A u \in Threads : ProcessOf[u] = ProcessOf[t] => call[u].pc # "fill"
      BY <1>a, <2>1, <2>7 DEF WriterProgress
    <3>4. faceCache'[ProcessOf[t]] = NoFace
      BY <1>0, <1>9 DEF RevokeCache, FaceTypeOK
    <3>5. Settles'
      BY <2>1, <2>2, <3>1, <3>3, <3>4 DEF Settles
    <3> QED
      BY <1>0, <2>3, <2>5, <3>2, <3>5 DEF FaceInv
  <2> QED
    BY <2>6, <2>7
<1>10. ASSUME NEW p \in Processes, FaceProcessRestarts(p)
       PROVE  FaceInv'
  <2>1. \A u \in Threads : call'[u] = IF ProcessOf[u] = p THEN NoCall ELSE call[u]
    BY <1>10 DEF FaceProcessRestarts
  <2>2. \A q \in Processes : faceCache'[q] = IF q = p THEN NoFace ELSE faceCache[q]
    BY <1>0, <1>10 DEF FaceProcessRestarts, FaceTypeOK
  <2>3. /\ UNCHANGED <<faceFile, profile, settled>>
        /\ \A u \in Threads : u \in disturbed' <=> u \in disturbed /\ ProcessOf[u] # p
    BY <1>10 DEF FaceProcessRestarts
  <2>4. \A u \in Threads : Writing(u)' <=> Writing(u) /\ ProcessOf[u] # p
    BY <2>1 DEF Writing, NoCall
  <2>5. OnlyWriter' /\ WriterOpens'
    BY <1>a, <2>3, <2>4 DEF OnlyWriter, WriterOpens
  <2>6. WriterProgress'
    BY <1>0, <1>a, <2>1, <2>2, <2>3, <2>4 DEF WriterProgress
  <2>7. Settles'
    BY <1>0, <1>a, <2>1, <2>2, <2>3 DEF Settles, NoCall, FaceTypeOK
  <2> QED
    BY <1>0, <2>5, <2>6, <2>7 DEF FaceInv
<1>11. CASE UNCHANGED faceVars
  BY <1>0, <1>11, <1>a
     DEF faceVars, faceRows, FaceInv, OnlyWriter, Writing, WriterOpens, WriterProgress, Settles
<1> QED
  BY <1>1, <1>2, <1>3, <1>4, <1>5, <1>6, <1>7, <1>8, <1>9, <1>10, <1>11 DEF FaceNext

\* What a call reports that ran undisturbed stands where it was reported, in both places
\* that ask, whatever other requests the workers serve meanwhile.
THEOREM ReportedOutcomeStands == FaceSpec => []OutcomeStands
<1>1. FaceInv => OutcomeStands
  BY FaceAssumption DEF FaceInv, Settles, OutcomeStands, Matches, StoredEmbedding, Known
<1> QED
  BY <1>1, InitFaceInv, NextFaceInv, PTL DEF FaceSpec

\* The status shown is the one that was reported last by a call that ran undisturbed.
THEOREM StatusIsReported == FaceSpec => []StatusAgrees
<1>1. FaceInv => StatusAgrees
  BY DEF FaceInv, Settles, StatusAgrees, Registered
<1> QED
  BY <1>1, InitFaceInv, NextFaceInv, PTL DEF FaceSpec

(***************************************************************************)
(* FaceDecision: sums over the frames of a burst                           *)
(***************************************************************************)

\* f adds up the first n weights.
AddsUp(f, w, n) == f = [k \in 0..n |-> IF k = 0 THEN 0 ELSE f[k - 1] + w[k]]

\* There is such an f: the recursive function of Sum is defined.
LEMMA SumExists ==
    ASSUME NEW w, NEW n \in Nat
    PROVE  \E f : AddsUp(f, w, n)
<1> DEFINE S == {m \in Nat : \E f : AddsUp(f, w, m)}
<1>1. 0 \in S
  <2>1. AddsUp([k \in 0..0 |-> 0], w, 0)
    BY DEF AddsUp
  <2> QED
    BY <2>1
<1>2. ASSUME NEW m \in S
      PROVE  m + 1 \in S
  <2>1. PICK f : AddsUp(f, w, m)
    OBVIOUS
  <2> DEFINE g == [k \in 0..m + 1 |-> IF k = m + 1 THEN f[m] + w[m + 1] ELSE f[k]]
  <2>2. \A k \in 0..m : f[k] = IF k = 0 THEN 0 ELSE f[k - 1] + w[k]
    BY <2>1 DEF AddsUp
  <2>3. \A k \in 0..m + 1 : g[k] = IF k = 0 THEN 0 ELSE g[k - 1] + w[k]
    BY <2>2
  <2>4. AddsUp(g, w, m + 1)
    BY <2>3 DEF AddsUp
  <2> QED
    BY <2>4
<1> HIDE DEF S
<1>3. S = Nat
  BY <1>1, <1>2, AllNaturals DEF S
<1> QED
  BY <1>3 DEF S

\* The sums of the first weights.
UpTo(w) == CHOOSE f : AddsUp(f, w, MaxShots)

\* The sum of the first weights, one more at a time.
LEMMA SumUnfolds ==
    ASSUME NEW w
    PROVE  /\ Sum(w) = UpTo(w)[MaxShots]
           /\ UpTo(w)[0] = 0
           /\ \A n \in Nat : n + 1 <= MaxShots => UpTo(w)[n + 1] = UpTo(w)[n] + w[n + 1]
<1>0. MaxShots \in Nat
  BY ShotAssumption
<1>1. Sum(w) = UpTo(w)[MaxShots]
  BY DEF Sum, UpTo, AddsUp
<1>2. AddsUp(UpTo(w), w, MaxShots)
  BY <1>0, SumExists DEF UpTo
<1>3. PICK f : f = UpTo(w)
  OBVIOUS
<1>4. \A k \in 0..MaxShots : f[k] = IF k = 0 THEN 0 ELSE f[k - 1] + w[k]
  BY <1>2, <1>3 DEF AddsUp
<1>5. f[0] = 0
  BY <1>0, <1>4
<1>6. ASSUME NEW n \in Nat, n + 1 <= MaxShots
      PROVE  f[n + 1] = f[n] + w[n + 1]
  BY <1>0, <1>4, <1>6
<1> QED
  BY <1>1, <1>3, <1>5, <1>6

\* One place more is one weight more.
LEMMA TimesSuccessor == \A c, k \in Nat : c * (k + 1) = c * k + c /\ c * k \in Nat
  OBVIOUS

\* The places up to n, and how many they are.
LEMMA CountGrows ==
    ASSUME NEW places \in SUBSET (1..MaxShots), NEW n \in Nat
    PROVE  /\ Cardinality(places \intersect (1..n)) \in Nat
           /\ Cardinality(places \intersect (1..n + 1)) =
                IF n + 1 \in places THEN Cardinality(places \intersect (1..n)) + 1
                ELSE Cardinality(places \intersect (1..n))
           /\ Cardinality(places \intersect (1..0)) = 0
           /\ places \intersect (1..MaxShots) = places
<1> DEFINE below == places \intersect (1..n)
<1>1. IsFiniteSet(1..n)
  BY FS_Interval
<1>2. IsFiniteSet(below)
  BY <1>1, FS_Subset
<1>3. places \intersect (1..n + 1) = IF n + 1 \in places THEN below \union {n + 1} ELSE below
  <2>1. 1..n + 1 = (1..n) \union {n + 1}
    OBVIOUS
  <2> QED
    BY <2>1
<1>4. n + 1 \notin below
  OBVIOUS
<1>5. Cardinality(below \union {n + 1}) = Cardinality(below) + 1
  BY <1>2, <1>4, FS_AddElement
<1>6. Cardinality(below) \in Nat
  BY <1>2, FS_CardinalityType
<1>7. Cardinality(places \intersect (1..0)) = 0
  <2>1. places \intersect (1..0) = {}
    OBVIOUS
  <2> QED
    BY <2>1, FS_EmptySet
<1> QED
  BY <1>3, <1>5, <1>6, <1>7

\* Weights of at least c at some places add up to at least c for each.
LEMMA SumAtLeast ==
    ASSUME NEW w \in [1..MaxShots -> Nat], NEW places \in SUBSET (1..MaxShots), NEW c \in Nat,
           \A i \in places : w[i] >= c
    PROVE  Sum(w) \in Nat /\ Sum(w) >= c * Cardinality(places)
<1> DEFINE count(n) == Cardinality(places \intersect (1..n))
           S == {n \in Nat : n <= MaxShots => UpTo(w)[n] \in Nat /\ UpTo(w)[n] >= c * count(n)}
<1>0. MaxShots \in Nat
  BY ShotAssumption
<1>1. 0 \in S
  <2>1. count(0) = 0 /\ UpTo(w)[0] = 0
    BY CountGrows, SumUnfolds
  <2> QED
    BY <2>1
<1>2. ASSUME NEW n \in S
      PROVE  n + 1 \in S
  <2> SUFFICES ASSUME n + 1 <= MaxShots
               PROVE  UpTo(w)[n + 1] \in Nat /\ UpTo(w)[n + 1] >= c * count(n + 1)
    OBVIOUS
  <2>1. UpTo(w)[n] \in Nat /\ UpTo(w)[n] >= c * count(n)
    BY <1>0
  <2>2. UpTo(w)[n + 1] = UpTo(w)[n] + w[n + 1] /\ w[n + 1] \in Nat
    BY <1>0, SumUnfolds
  <2>3. count(n) \in Nat /\ count(n + 1) = IF n + 1 \in places THEN count(n) + 1 ELSE count(n)
    BY CountGrows
  <2>4. c * (count(n) + 1) = c * count(n) + c /\ c * count(n) \in Nat
    BY <2>3, TimesSuccessor
  <2> HIDE DEF count
  <2>5. CASE n + 1 \in places
    BY <2>1, <2>2, <2>3, <2>4, <2>5
  <2>6. CASE n + 1 \notin places
    BY <2>1, <2>2, <2>3, <2>4, <2>6
  <2> QED
    BY <2>5, <2>6
<1>3. S = Nat
  <2> HIDE DEF S
  <2>1. S \in SUBSET Nat
    BY DEF S
  <2> QED
    BY <1>1, <1>2, <2>1, AllNaturals
<1>4. UpTo(w)[MaxShots] \in Nat /\ UpTo(w)[MaxShots] >= c * count(MaxShots)
  <2> HIDE DEF S
  <2>1. MaxShots \in S
    BY <1>0, <1>3
  <2> QED
    BY <1>0, <2>1 DEF S
<1>5. count(MaxShots) = Cardinality(places)
  BY <1>0, CountGrows
<1> QED
  BY <1>4, <1>5, SumUnfolds

\* Weights of at most c at some places, and none elsewhere, add up to at most c for
\* each.
LEMMA SumAtMost ==
    ASSUME NEW w \in [1..MaxShots -> Nat], NEW places \in SUBSET (1..MaxShots), NEW c \in Nat,
           \A i \in 1..MaxShots : IF i \in places THEN w[i] <= c ELSE w[i] = 0
    PROVE  Sum(w) <= c * Cardinality(places)
<1> DEFINE count(n) == Cardinality(places \intersect (1..n))
           S == {n \in Nat : n <= MaxShots => UpTo(w)[n] \in Nat /\ UpTo(w)[n] <= c * count(n)}
<1>0. MaxShots \in Nat
  BY ShotAssumption
<1>1. 0 \in S
  <2>1. count(0) = 0 /\ UpTo(w)[0] = 0
    BY CountGrows, SumUnfolds
  <2> QED
    BY <2>1
<1>2. ASSUME NEW n \in S
      PROVE  n + 1 \in S
  <2> SUFFICES ASSUME n + 1 <= MaxShots
               PROVE  UpTo(w)[n + 1] \in Nat /\ UpTo(w)[n + 1] <= c * count(n + 1)
    OBVIOUS
  <2>1. UpTo(w)[n] \in Nat /\ UpTo(w)[n] <= c * count(n)
    BY <1>0
  <2>2. UpTo(w)[n + 1] = UpTo(w)[n] + w[n + 1] /\ n + 1 \in 1..MaxShots
    BY <1>0, SumUnfolds
  <2>3. count(n) \in Nat /\ count(n + 1) = IF n + 1 \in places THEN count(n) + 1 ELSE count(n)
    BY CountGrows
  <2>4. c * (count(n) + 1) = c * count(n) + c /\ c * count(n) \in Nat
    BY <2>3, TimesSuccessor
  <2>5. w[n + 1] \in Nat
    BY <2>2
  <2> HIDE DEF count
  <2>6. CASE n + 1 \in places
    BY <2>1, <2>2, <2>3, <2>4, <2>5, <2>6
  <2>7. CASE n + 1 \notin places
    BY <2>1, <2>2, <2>3, <2>4, <2>5, <2>7
  <2> QED
    BY <2>6, <2>7
<1>3. S = Nat
  <2> HIDE DEF S
  <2>1. S \in SUBSET Nat
    BY DEF S
  <2> QED
    BY <1>1, <1>2, <2>1, AllNaturals
<1>4. UpTo(w)[MaxShots] \in Nat /\ UpTo(w)[MaxShots] <= c * count(MaxShots)
  <2> HIDE DEF S
  <2>1. MaxShots \in S
    BY <1>0, <1>3
  <2> QED
    BY <1>0, <2>1 DEF S
<1>5. count(MaxShots) = Cardinality(places)
  BY <1>0, CountGrows
<1> QED
  BY <1>4, <1>5, SumUnfolds

------------------------------------------------------------------------------------

\* A burst of frames: some places of it hold an item that decodes.
Bursts == UNION {[places -> Shots] : places \in SUBSET (1..MaxShots)}

\* The places of the frames of a burst, and of those with a verdict.
LEMMA BurstPlaces ==
    ASSUME NEW frames \in Bursts
    PROVE  /\ DOMAIN frames \in SUBSET (1..MaxShots)
           /\ \A i \in DOMAIN frames : frames[i] \in Shots
           /\ Seen(frames) \in SUBSET (1..MaxShots)
           /\ IsFiniteSet(Seen(frames)) /\ Cardinality(Seen(frames)) \in Nat
<1>1. DOMAIN frames \in SUBSET (1..MaxShots) /\ \A i \in DOMAIN frames : frames[i] \in Shots
  BY DEF Bursts
<1>2. Seen(frames) \in SUBSET (1..MaxShots)
  BY <1>1 DEF Seen
<1>3. IsFiniteSet(1..MaxShots)
  BY ShotAssumption, FS_Interval
<1> QED
  BY <1>1, <1>2, <1>3, FS_Subset, FS_CardinalityType

\* The elements of a sequence of three.
LEMMA ThreeOf ==
    ASSUME NEW S, NEW q \in Seq(S), Len(q) = 3
    PROVE  \A k \in 1..3 : q[k] \in S
  OBVIOUS

\* The scores of a frame are percentages and add up.
LEMMA ScoresAddUp ==
    ASSUME NEW s \in Shots
    PROVE  /\ Scores(s)[Printed] \in 0..100 /\ Scores(s)[Genuine] \in 0..100
           /\ Scores(s)[Replayed] \in 0..100
           /\ Scores(s)[Printed] + Scores(s)[Genuine] + Scores(s)[Replayed] = 100
           /\ s.odd => Scores(s)[Replayed] = 90
<1>1. s.scores \in Seq(0..100) /\ Len(s.scores) = 3
      /\ s.scores[1] + s.scores[2] + s.scores[3] = 100
  BY ShotAssumption
<1>2. \A k \in 1..3 : s.scores[k] \in 0..100
  BY <1>1, ThreeOf
<1>3. CASE s.odd
  BY <1>3 DEF Scores, Printed, Genuine, Replayed
<1>4. CASE ~s.odd
  <2>1. Scores(s) = s.scores
    BY <1>4 DEF Scores
  <2> QED
    BY <1>1, <1>2, <1>4, <2>1 DEF Printed, Genuine, Replayed
<1> QED
  BY <1>3, <1>4

\* What the frames seen have at least, and at most, they have on average.
LEMMA TotalBounds ==
    ASSUME NEW frames \in Bursts, NEW class \in {Printed, Genuine, Replayed}, NEW c \in Nat
    PROVE  /\ Total(frames, class) \in Nat
           /\ \A places \in SUBSET Seen(frames) :
                (\A i \in places : Scores(frames[i])[class] >= c)
                    => Total(frames, class) >= c * Cardinality(places)
           /\ (\A i \in Seen(frames) : Scores(frames[i])[class] <= c)
                    => Total(frames, class) <= c * Cardinality(Seen(frames))
<1> DEFINE w == [i \in 1..MaxShots |-> IF i \in Seen(frames) THEN Scores(frames[i])[class] ELSE 0]
<1>1. \A i \in Seen(frames) : frames[i] \in Shots
  BY BurstPlaces DEF Seen
<1>2. \A i \in Seen(frames) : Scores(frames[i])[class] \in Nat
  BY <1>1, ScoresAddUp
<1>3. w \in [1..MaxShots -> Nat]
  BY <1>2
<1>4. Total(frames, class) = Sum(w)
  BY DEF Total
<1>5. Seen(frames) \in SUBSET (1..MaxShots)
  BY BurstPlaces
<1>6. \A i \in 1..MaxShots : w[i] = IF i \in Seen(frames) THEN Scores(frames[i])[class] ELSE 0
  OBVIOUS
<1> HIDE DEF w
<1>7. Sum(w) \in Nat
  <2>1. {} \in SUBSET (1..MaxShots)
    OBVIOUS
  <2> QED
    BY <1>3, <2>1, SumAtLeast
<1>8. ASSUME NEW places \in SUBSET Seen(frames),
             \A i \in places : Scores(frames[i])[class] >= c
      PROVE  Sum(w) >= c * Cardinality(places)
  <2>1. places \in SUBSET (1..MaxShots)
    BY <1>5
  <2>2. \A i \in places : w[i] >= c
    BY <1>6, <1>8, <2>1
  <2> QED
    BY <1>3, <2>1, <2>2, SumAtLeast
<1>9. ASSUME \A i \in Seen(frames) : Scores(frames[i])[class] <= c
      PROVE  Sum(w) <= c * Cardinality(Seen(frames))
  <2>1. \A i \in 1..MaxShots : IF i \in Seen(frames) THEN w[i] <= c ELSE w[i] = 0
    BY <1>6, <1>9
  <2> QED
    BY <1>3, <1>5, <2>1, SumAtMost
<1> QED
  BY <1>4, <1>7, <1>8, <1>9

\* The largest total is predicted.
LEMMA PredictedIsLargest ==
    ASSUME NEW frames \in Bursts
    PROVE  /\ Total(frames, Genuine) > Total(frames, Printed)
                /\ Total(frames, Genuine) > Total(frames, Replayed)
                => Predicted(frames) = Genuine
  BY TotalBounds DEF Predicted, Printed, Genuine, Replayed

\* The place of the last face that is found.
LEMMA LastFace ==
    ASSUME NEW frames \in Bursts, WithFace(frames) # {}
    PROVE  /\ Max(WithFace(frames)) \in WithFace(frames)
           /\ \A j \in WithFace(frames) : j <= Max(WithFace(frames))
<1> DEFINE rest == {MaxShots - i : i \in WithFace(frames)}
<1>0. MaxShots \in Nat
  BY ShotAssumption
<1>1. WithFace(frames) \in SUBSET (1..MaxShots)
  BY BurstPlaces DEF WithFace
<1>2. rest \in SUBSET Nat /\ rest # {}
  BY <1>0, <1>1
<1>3. PICK m \in rest : \A k \in rest : m <= k
  BY <1>2, LeastNatural
<1>4. PICK i \in WithFace(frames) : m = MaxShots - i
  BY <1>3
<1>5. \A j \in WithFace(frames) : i >= j
  <2> SUFFICES ASSUME NEW j \in WithFace(frames)
               PROVE  i >= j
    OBVIOUS
  <2>1. m <= MaxShots - j
    BY <1>3
  <2> QED
    BY <1>0, <1>1, <1>4, <2>1
<1>6. \A j \in WithFace(frames) : j \in Int
  BY <1>1
<1>7. /\ Max(WithFace(frames)) \in WithFace(frames)
      /\ \A j \in WithFace(frames) : Max(WithFace(frames)) >= j
  BY <1>5 DEF Max
<1> QED
  BY <1>6, <1>7

\* A burst passes when it is live and its face the one enrolled.
LEMMA OverallPasses ==
    ASSUME NEW frames, NEW person
    PROVE  Overall(frames, person).passed <=>
              Live(frames) /\ Compared(frames) # NoPerson /\ Compared(frames) = person
  BY DEF Overall

\* A frame alone that would pass: it is genuine, by its own scores.
LEMMA AloneIsGenuine ==
    ASSUME NEW s \in Shots, NEW person, Overall(<<s>>, person).passed
    PROVE  /\ Scores(s)[Genuine] >= 60 /\ Scores(s)[Replayed] <= 29
           /\ s.face = person /\ s.face # NoPerson /\ Scored(s)
<1> DEFINE frames == <<s>>
<1>1. /\ DOMAIN frames = {1} /\ frames[1] = s
  OBVIOUS
<1>2. frames \in Bursts
  <2>1. frames \in [{1} -> Shots]
    OBVIOUS
  <2>2. {1} \in SUBSET (1..MaxShots)
    BY ShotAssumption
  <2> QED
    BY <2>1, <2>2 DEF Bursts
<1> HIDE DEF frames
<1>3. Live(frames) /\ Compared(frames) # NoPerson /\ Compared(frames) = person
  BY OverallPasses DEF frames
<1>4. Seen(frames) = {1} /\ Scored(s)
  BY <1>1, <1>3 DEF Live, Seen
<1>5. Cardinality(Seen(frames)) = 1
  BY <1>4, FS_Singleton
<1>6. \A class \in {Printed, Genuine, Replayed} : Scores(s)[class] \in Nat
  BY ScoresAddUp
<1>7. ASSUME NEW class \in {Printed, Genuine, Replayed}
      PROVE  Total(frames, class) = Scores(s)[class]
  <2>1. PICK c \in Nat : c = Scores(s)[class]
    BY <1>6
  <2>2. \A i \in Seen(frames) : Scores(frames[i])[class] = c
    BY <1>1, <1>4, <2>1
  <2>3. Total(frames, class) \in Nat /\ Total(frames, class) >= c * 1 /\ Total(frames, class) <= c * 1
    BY <1>2, <1>5, <2>2, TotalBounds
  <2> QED
    BY <2>1, <2>3
<1>8. Total(frames, Genuine) >= 60 * 1 /\ Total(frames, Replayed) < 30 * 1
  BY <1>3, <1>5 DEF Live, SpoofThreshold, MaxReplay
<1>9. Scores(s)[Genuine] >= 60 /\ Scores(s)[Replayed] <= 29
  BY <1>6, <1>7, <1>8
<1>10. WithFace(frames) = {1}
  BY <1>1, <1>3 DEF Compared, WithFace
<1>11. Compared(frames) = s.face
  BY <1>1, <1>2, <1>10, LastFace DEF Compared
<1> QED
  BY <1>3, <1>4, <1>9, <1>11

------------------------------------------------------------------------------------

\* A decision is the one its verifier comes to for the frames that were sent.
DecidedByVerifier ==
    /\ verifierType = "mediapipe" =>
        decision \in {Undecided, [passed |-> TRUE, reason |-> "mediapipe_challenge_passed"]}
    /\ verifierType = "unconfigured" =>
        decision \in {Undecided, Refused("liveness_verifier_not_configured")}
    /\ verifierType \in {"new_face_system", "misspelt"} =>
        decision \in {Undecided, Refused("payload_too_large"),
                      Refused("verifier_processing_error"), Production(Judged, enrolled)}

DecisionInv == DecisionTypeOK /\ DecidedByVerifier

\* Every verdict on a burst has a truth value and a reason.
LEMMA VerdictsTyped ==
    ASSUME NEW frames, NEW person
    PROVE  Production(frames, person) \in [passed : BOOLEAN, reason : Reasons]
<1>1. SpoofReason(frames) \in Reasons
  BY DEF SpoofReason, Reasons
<1>2. Overall(frames, person) \in [passed : BOOLEAN, reason : Reasons]
  <2>1. Overall(frames, person).passed \in BOOLEAN
    BY DEF Overall, Live
  <2>2. Overall(frames, person).reason \in Reasons
    BY <1>1 DEF Overall, Reasons
  <2> QED
    BY <2>1, <2>2 DEF Overall
<1>3. Refused("face_not_registered") \in [passed : BOOLEAN, reason : Reasons]
  BY DEF Refused, Reasons
<1>4. Refused("image_decode_failed") \in [passed : BOOLEAN, reason : Reasons]
  BY DEF Refused, Reasons
<1> QED
  BY <1>2, <1>3, <1>4 DEF Production

\* Every decision is the one its verifier comes to: about get_liveness_verifier and the
\* verdicts that end a request before the frames are judged.
THEOREM DecisionInvariance == DecisionSpec => []DecisionInv
<1>1. DecisionInit => DecisionInv
  <2>1. DecisionInit => DecisionTypeOK
    BY ShotAssumption DEF DecisionInit, DecisionTypeOK, Undecided, Reasons
  <2>2. DecisionInit => DecidedByVerifier
    BY DEF DecisionInit, DecidedByVerifier
  <2> QED
    BY <2>1, <2>2 DEF DecisionInv
<1>2. DecisionInv /\ [DecisionNext]_decisionVars => DecisionInv'
  <2> SUFFICES ASSUME DecisionInv, [DecisionNext]_decisionVars
               PROVE  DecisionInv'
    OBVIOUS
  <2>0. DecisionTypeOK /\ DecidedByVerifier
    BY DEF DecisionInv
  <2>1. ASSUME NEW item \in Items, Capture(item)
        PROVE  DecisionInv'
    <3>1. burst' \in Seq(Items) /\ Len(burst') = Len(burst) + 1 /\ Len(burst) < MaxShots
      BY <2>0, <2>1 DEF Capture, DecisionTypeOK
    <3>2. DecisionTypeOK'
      <4>1. Len(burst) \in Nat /\ MaxShots \in Nat
        BY <2>0, ShotAssumption DEF DecisionTypeOK
      <4> QED
        BY <2>0, <2>1, <3>1, <4>1 DEF Capture, DecisionTypeOK
    <3>3. DecidedByVerifier'
      BY <2>1 DEF Capture, DecidedByVerifier
    <3> QED
      BY <3>2, <3>3 DEF DecisionInv
  <2>2. ASSUME Decide \/ DecisionFails
        PROVE  DecisionInv'
    <3>1. /\ UNCHANGED <<verifierType, enrolled, burst>>
          /\ verifierType \in {"new_face_system", "misspelt"}
      BY <2>0, <2>2 DEF Decide, DecisionFails, Verifier, DecisionTypeOK
    <3>2. text' \in Shots \union {Noise}
      BY <2>0, <2>2 DEF Decide, DecisionFails, Wholes, DecisionTypeOK
    <3>3. decision' \in {Refused("payload_too_large"), Refused("verifier_processing_error"),
                         Production(Judged', enrolled)}
      BY <2>2 DEF Decide, DecisionFails, Judged
    <3>4. decision' \in [passed : BOOLEAN, reason : Reasons]
      <4>1. PICK frames : frames = Judged'
        OBVIOUS
      <4>2. Production(frames, enrolled) \in [passed : BOOLEAN, reason : Reasons]
        BY VerdictsTyped
      <4>3. /\ Refused("payload_too_large") \in [passed : BOOLEAN, reason : Reasons]
            /\ Refused("verifier_processing_error") \in [passed : BOOLEAN, reason : Reasons]
        BY DEF Refused, Reasons
      <4> QED
        BY <3>3, <4>1, <4>2, <4>3
    <3>5. DecisionTypeOK'
      BY <2>0, <3>1, <3>2, <3>4 DEF DecisionTypeOK
    <3>6. DecidedByVerifier'
      BY <3>1, <3>3 DEF DecidedByVerifier
    <3> QED
      BY <3>5, <3>6 DEF DecisionInv
  <2>3. ASSUME DecideByNonce \/ DecideUnconfigured
        PROVE  DecisionInv'
    <3>1. UNCHANGED <<verifierType, enrolled, burst, text>>
      BY <2>3 DEF DecideByNonce, DecideUnconfigured
    <3>2. \/ verifierType = "mediapipe"
             /\ decision' = [passed |-> TRUE, reason |-> "mediapipe_challenge_passed"]
          \/ verifierType = "unconfigured" /\ decision' = Refused("liveness_verifier_not_configured")
      BY <2>0, <2>3 DEF DecideByNonce, DecideUnconfigured, Verifier, DecisionTypeOK
    <3>3. decision' \in [passed : BOOLEAN, reason : Reasons]
      <4>1. [passed |-> TRUE, reason |-> "mediapipe_challenge_passed"]
                \in [passed : BOOLEAN, reason : Reasons]
        BY DEF Reasons
      <4>2. Refused("liveness_verifier_not_configured") \in [passed : BOOLEAN, reason : Reasons]
        BY DEF Refused, Reasons
      <4> QED
        BY <3>2, <4>1, <4>2
    <3>4. DecisionTypeOK'
      BY <2>0, <3>1, <3>3 DEF DecisionTypeOK
    <3>5. DecidedByVerifier'
      BY <3>1, <3>2 DEF DecidedByVerifier
    <3> QED
      BY <3>4, <3>5 DEF DecisionInv
  <2>4. CASE UNCHANGED decisionVars
    <3>1. UNCHANGED <<verifierType, enrolled, burst, text, decision>>
      BY <2>4 DEF decisionVars
    <3>2. DecisionTypeOK'
      BY <2>0, <3>1 DEF DecisionTypeOK
    <3>3. DecidedByVerifier'
      BY <2>0, <3>1 DEF DecidedByVerifier, Judged
    <3> QED
      BY <3>2, <3>3 DEF DecisionInv
  <2> QED
    BY <2>1, <2>2, <2>3, <2>4 DEF DecisionNext
<1> QED
  BY <1>1, <1>2, PTL DEF DecisionSpec

------------------------------------------------------------------------------------

\* The frames judged keep their places.
LEMMA ParsedIsBurst ==
    ASSUME DecisionTypeOK
    PROVE  Judged \in Bursts
<1> DEFINE item(i) == IF burst[i] = Broken THEN text ELSE burst[i]
           places == {i \in DOMAIN burst : /\ item(i) # Noise
                                           /\ \A j \in 1..i - 1 : burst[j] # Broken}
<1>1. MaxShots \in Nat /\ Len(burst) \in Nat /\ DOMAIN burst = 1..Len(burst)
  BY ShotAssumption DEF DecisionTypeOK
<1>2. places \in SUBSET (1..MaxShots)
  BY <1>1 DEF DecisionTypeOK
<1>3. ASSUME NEW i \in places
      PROVE  item(i) \in Shots
  <2>1. burst[i] \in Items /\ text \in Shots \union {Noise}
    BY DEF DecisionTypeOK
  <2> QED
    BY <2>1 DEF Items
<1>4. Judged = [i \in places |-> item(i)]
  BY DEF Judged, Parsed
<1> HIDE DEF places, item
<1>5. Judged \in [places -> Shots]
  BY <1>3, <1>4
<1> QED
  BY <1>2, <1>5 DEF Bursts

\* What a burst that passed shows.
LEMMA PassedShows ==
    ASSUME DecisionInv, PassedFrames
    PROVE  /\ enrolled # NoPerson
           /\ Live(Judged)
           /\ Compared(Judged) = enrolled
<1>1. decision = Production(Judged, enrolled) /\ decision.passed
  BY DEF DecisionInv, DecisionTypeOK, DecidedByVerifier, PassedFrames, Undecided, Refused
<1>2. enrolled # NoPerson
  BY <1>1 DEF Production, Refused
<1>3. ~(DOMAIN Judged = {})
  BY <1>1, <1>2 DEF Production, Refused
<1>4. decision = Overall(Judged, enrolled)
  BY <1>1, <1>2, <1>3 DEF Production
<1> QED
  BY <1>1, <1>2, <1>4, OverallPasses

\* The verdict on the face says that the last face is not the one enrolled.
LEMMA MismatchShows ==
    ASSUME DecisionInv, decision.reason = "face_match_below_threshold"
    PROVE  /\ enrolled # NoPerson
           /\ Compared(Judged) # enrolled
<1>1. decision = Production(Judged, enrolled)
  BY DEF DecisionInv, DecisionTypeOK, DecidedByVerifier, Undecided, Refused
<1>2. enrolled # NoPerson
  BY <1>1 DEF Production, Refused
<1>3. ~(DOMAIN Judged = {})
  BY <1>1, <1>2 DEF Production, Refused
<1>4. decision = Overall(Judged, enrolled)
  BY <1>1, <1>2, <1>3 DEF Production
<1>5. SpoofReason(Judged) # "face_match_below_threshold"
  BY DEF SpoofReason
<1>6. Live(Judged)
  BY <1>4, <1>5 DEF Overall
<1> QED
  BY <1>2, <1>4, <1>6 DEF Overall

\* Anomalies are outvoted: about the averages and the thresholds of
\* anti_spoofing_detection and the verdict that predict_single_frame_spoof makes up.
THEOREM AnomaliesAreOutvoted == DecisionSpec => []AnomaliesOutvoted
<1>1. DecisionInv => AnomaliesOutvoted
  <2> DEFINE frames == Judged
             faces == {i \in DOMAIN frames : frames[i].detector # "none"}
             anomalies == {i \in faces : frames[i].odd}
  <2> SUFFICES ASSUME DecisionInv, PassedFrames
               PROVE  3 * Cardinality(anomalies) < Cardinality(faces)
    BY DEF AnomaliesOutvoted
  <2>1. frames \in Bursts
    BY ParsedIsBurst DEF DecisionInv
  <2>2. Live(frames)
    BY PassedShows
  <2> HIDE DEF frames
  <2>3. faces = Seen(frames)
    BY DEF Seen, Scored
  <2>4. anomalies \in SUBSET Seen(frames)
    BY <2>3
  <2>5. \A i \in anomalies : Scores(frames[i])[Replayed] >= 90
    BY <2>1, BurstPlaces, ScoresAddUp
  <2>6. Total(frames, Replayed) \in Nat /\ Total(frames, Replayed) >= 90 * Cardinality(anomalies)
    BY <2>1, <2>4, <2>5, TotalBounds
  <2>7. Total(frames, Replayed) < 30 * Cardinality(Seen(frames))
    BY <2>2 DEF Live, MaxReplay
  <2>8. Cardinality(anomalies) \in Nat /\ Cardinality(Seen(frames)) \in Nat
    BY <2>1, <2>4, BurstPlaces, FS_Subset, FS_CardinalityType
  <2> HIDE DEF faces, anomalies
  <2> QED
    BY <2>3, <2>6, <2>7, <2>8
<1> QED
  BY <1>1, DecisionInvariance, PTL

\* The last face decides: about verify_face_embedding, which searches backwards.
THEOREM LastFaceDecides == DecisionSpec => []LatestFaceDecides
<1>1. DecisionInv => LatestFaceDecides
  <2> DEFINE frames == Judged
             FinalFace(i) == \A j \in DOMAIN frames : j > i => frames[j].face = NoPerson
  <2> SUFFICES ASSUME DecisionInv
               PROVE  /\ PassedFrames => \E i \in DOMAIN frames :
                                            FinalFace(i) /\ frames[i].face = enrolled
                      /\ decision.reason = "face_match_below_threshold" =>
                            ~\E i \in DOMAIN frames : FinalFace(i) /\ frames[i].face = enrolled
    BY DEF LatestFaceDecides
  <2>1. frames \in Bursts
    BY ParsedIsBurst DEF DecisionInv
  <2>2. PassedFrames => enrolled # NoPerson /\ Compared(frames) = enrolled
    BY PassedShows
  <2>3. decision.reason = "face_match_below_threshold" =>
            enrolled # NoPerson /\ Compared(frames) # enrolled
    BY MismatchShows
  <2> HIDE DEF frames
  <2>4. DOMAIN frames \in SUBSET Nat
    BY <2>1, BurstPlaces
  <2>5. ASSUME PassedFrames
        PROVE  \E i \in DOMAIN frames : FinalFace(i) /\ frames[i].face = enrolled
    <3>1. WithFace(frames) # {} /\ frames[Max(WithFace(frames))].face = enrolled
      BY <2>2, <2>5 DEF Compared
    <3>2. PICK m : m = Max(WithFace(frames))
      OBVIOUS
    <3>3. m \in WithFace(frames) /\ \A j \in WithFace(frames) : j <= m
      BY <2>1, <3>1, <3>2, LastFace
    <3>4. FinalFace(m)
      BY <2>4, <3>3 DEF WithFace
    <3> QED
      BY <3>1, <3>2, <3>3, <3>4 DEF WithFace
  <2>6. ASSUME decision.reason = "face_match_below_threshold",
               NEW i \in DOMAIN frames, FinalFace(i), frames[i].face = enrolled
        PROVE  FALSE
    <3>1. i \in WithFace(frames)
      BY <2>3, <2>6 DEF WithFace
    <3>2. PICK m : m = Max(WithFace(frames))
      OBVIOUS
    <3>3. m \in WithFace(frames) /\ i <= m
      BY <2>1, <3>1, <3>2, LastFace
    <3>4. m = i
      BY <2>4, <2>6, <3>3 DEF WithFace
    <3>5. Compared(frames) = frames[m].face
      BY <3>1, <3>2 DEF Compared
    <3> QED
      BY <2>3, <2>6, <3>4, <3>5
  <2> QED
    BY <2>5, <2>6
<1> QED
  BY <1>1, DecisionInvariance, PTL

\* A burst of frames that would pass alone passes: about averaging by frames with a
\* verdict, and about searching for a face where the last frame has none.
THEOREM SteadyFaceAlwaysPasses == DecisionSpec => []SteadyFacePasses
<1>1. DecisionInv => SteadyFacePasses
  <2> DEFINE frames == Judged
  <2> SUFFICES ASSUME DecisionInv, decision # Undecided,
                      Verifier(verifierType) = "production",
                      decision.reason \notin {"payload_too_large", "verifier_processing_error"},
                      enrolled # NoPerson,
                      Seen(frames) # {},
                      \A i \in Seen(frames) : Overall(<<frames[i]>>, enrolled).passed
               PROVE  decision.passed
    BY DEF SteadyFacePasses
  <2>1. frames \in Bursts
    BY ParsedIsBurst DEF DecisionInv
  <2>2. decision = Production(Judged, enrolled)
    BY DEF DecisionInv, DecisionTypeOK, DecidedByVerifier, Verifier, Refused
  <2>3. DOMAIN frames # {}
    BY DEF Seen
  <2>4. decision = Overall(frames, enrolled)
    BY <2>2, <2>3 DEF Production
  <2> HIDE DEF frames
  <2>5. \A i \in Seen(frames) : frames[i] \in Shots /\ i \in DOMAIN frames
    BY <2>1, BurstPlaces DEF Seen
  <2>6. \A i \in Seen(frames) :
            /\ Scores(frames[i])[Genuine] >= 60 /\ Scores(frames[i])[Replayed] <= 29
            /\ frames[i].face = enrolled
    BY <2>5, AloneIsGenuine
  <2>7. \A i \in Seen(frames) : Scores(frames[i])[Printed] <= 40
    <3> SUFFICES ASSUME NEW i \in Seen(frames)
                 PROVE  Scores(frames[i])[Printed] <= 40
      OBVIOUS
    <3>1. PICK s \in Shots : s = frames[i]
      BY <2>5
    <3>2. Scores(s)[Genuine] >= 60
      BY <2>6, <3>1
    <3>3. Scores(s)[Printed] <= 40
      <4>1. PICK p, g, r : /\ p = Scores(s)[Printed] /\ g = Scores(s)[Genuine]
                           /\ r = Scores(s)[Replayed]
        OBVIOUS
      <4>2. p \in 0..100 /\ g \in 0..100 /\ r \in 0..100 /\ p + g + r = 100
        BY <4>1, ScoresAddUp
      <4> QED
        BY <3>2, <4>1, <4>2
    <3> QED
      BY <3>1, <3>3
  <2> DEFINE n == Cardinality(Seen(frames))
  <2>8. n \in Nat \ {0}
    BY <2>1, BurstPlaces, FS_EmptySet
  <2>9. Total(frames, Genuine) \in Nat /\ Total(frames, Genuine) >= 60 * n
    BY <2>1, <2>6, TotalBounds
  <2>10. Total(frames, Replayed) \in Nat /\ Total(frames, Replayed) <= 29 * n
    BY <2>1, <2>6, TotalBounds
  <2>11. Total(frames, Printed) \in Nat /\ Total(frames, Printed) <= 40 * n
    BY <2>1, <2>7, TotalBounds
  <2>12. Live(frames)
    <3>1. /\ Total(frames, Genuine) > Total(frames, Printed)
          /\ Total(frames, Genuine) > Total(frames, Replayed)
          /\ Total(frames, Replayed) < 30 * n
      BY <2>8, <2>9, <2>10, <2>11
    <3>2. Predicted(frames) = Genuine
      BY <2>1, <3>1, PredictedIsLargest
    <3> QED
      BY <2>9, <3>1, <3>2 DEF Live, SpoofThreshold, MaxReplay
  <2>13. Compared(frames) = enrolled
    <3>1. PICK i \in Seen(frames) : i \in WithFace(frames)
      BY <2>5, <2>6 DEF WithFace
    <3>2. PICK m : m = Max(WithFace(frames))
      OBVIOUS
    <3>3. m \in WithFace(frames)
      BY <2>1, <3>1, <3>2, LastFace
    <3>4. frames[m] \in Shots /\ frames[m].face # NoPerson
      BY <2>1, <3>3, BurstPlaces DEF WithFace
    <3>5. m \in Seen(frames)
      BY <3>3, <3>4, ShotAssumption DEF Seen, Scored, WithFace
    <3> QED
      BY <2>6, <3>1, <3>2, <3>5 DEF Compared
  <2> QED
    BY <2>4, <2>12, <2>13, OverallPasses
<1> QED
  BY <1>1, DecisionInvariance, PTL

===================================================================================
