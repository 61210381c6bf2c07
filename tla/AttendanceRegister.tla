---------------------------- MODULE AttendanceRegister ----------------------------
(***************************************************************************)
(* What the attendance protocol promises to a professor, without attempts, *)
(* requests, locks or time: every session keeps a register that only grows *)
(* while the session is open and that names each student at most once.     *)
(* AttendanceProtocol implements it (AttendanceProtocol!RegisterSpec).     *)
(***************************************************************************)
EXTENDS Sequences

CONSTANTS
    Students,
    Sessions

VARIABLES
    open,       \* open[s]: the session still takes attendance
    roster      \* roster[s]: the students recorded, in the order of recording

vars == <<open, roster>>

Present(s) == {roster[s][i] : i \in DOMAIN roster[s]}

Init ==
    /\ open = [s \in Sessions |-> TRUE]
    /\ roster = [s \in Sessions |-> <<>>]

\* A student is recorded in a session that is open and does not name them yet.
Mark(s, st) ==
    /\ open[s]
    /\ st \notin Present(s)
    /\ roster' = [roster EXCEPT ![s] = Append(@, st)]
    /\ UNCHANGED open

\* A session closes for good.
Close(s) ==
    /\ open[s]
    /\ open' = [open EXCEPT ![s] = FALSE]
    /\ UNCHANGED roster

Next ==
    \E s \in Sessions :
        \/ Close(s)
        \/ \E st \in Students : Mark(s, st)

Spec == Init /\ [][Next]_vars

===================================================================================
