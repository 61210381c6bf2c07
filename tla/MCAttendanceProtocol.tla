--------------------------- MODULE MCAttendanceProtocol ---------------------------
(* A small school for TLC: two students, the first with two attempts. *)
EXTENDS AttendanceProtocol, TLC

CONSTANTS s1, s2, x1, a1, a2, a3

MCStudentOf == a1 :> s1 @@ a2 :> s1 @@ a3 :> s2
MCSessionOf == a1 :> x1 @@ a2 :> x1 @@ a3 :> x1

\* One student with one attempt, for the runs about a single attempt.
OneStudentOf == a1 :> s1
OneSessionOf == a1 :> x1

\* One student with two attempts.
DupStudentOf == a1 :> s1 @@ a2 :> s1
DupSessionOf == a1 :> x1 @@ a2 :> x1

\* Two students with one attempt each.
PairStudentOf == a1 :> s1 @@ a3 :> s2
PairSessionOf == a1 :> x1 @@ a3 :> x1

ThreadSymmetry == Permutations(Requests)

===================================================================================
