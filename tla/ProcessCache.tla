------------------------------- MODULE ProcessCache -------------------------------
(***************************************************************************)
(* The clock and the life of the cache of a process.  The Django cache is  *)
(* LocMemCache: each process has one of its own, which ends with it.       *)
(***************************************************************************)
EXTENDS Integers, Workers

CONSTANTS
    MaxTime,        \* bound on the clock, for model checking
    MaxRestarts     \* bound on the restarts of processes

ASSUME CacheAssumption ==
    /\ MaxTime \in Nat
    /\ MaxRestarts \in Nat

VARIABLES
    now,            \* the clock behind time.time()
    restarts        \* how often a process has been replaced

CacheInit ==
    /\ now = 0
    /\ restarts = 0

\* A key set with a timeout is found while its end lies ahead.
Cached(end) == now < end

Tick ==
    /\ now < MaxTime
    /\ now' = now + 1
    /\ UNCHANGED restarts

\* A process dies and gunicorn starts another in its place.
ProcessReplaced ==
    /\ restarts < MaxRestarts
    /\ restarts' = restarts + 1
    /\ UNCHANGED now

===================================================================================
