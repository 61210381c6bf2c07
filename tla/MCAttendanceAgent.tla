---------------------------- MODULE MCAttendanceAgent -----------------------------
(* A small agent for TLC. *)
EXTENDS AttendanceAgent, TLC

CONSTANT x1

\* The session ends when the clock is at 1, or after the clock has stopped.
SoonOver == x1 :> 1
NeverOver == x1 :> MaxTime + 1

===================================================================================
