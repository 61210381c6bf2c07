---------------------------------- MODULE Workers ----------------------------------
(***************************************************************************)
(* The processes and threads of gunicorn that serve the requests.          *)
(***************************************************************************)

CONSTANTS
    Processes,      \* --workers
    Threads,        \* the request threads of all the processes
    ProcessOf,      \* the process a thread belongs to
    Overlap         \* may a client have several requests about one thing served at
                    \* once, instead of waiting for each answer?

ASSUME WorkersAssumption ==
    /\ ProcessOf \in [Threads -> Processes]
    /\ Overlap \in BOOLEAN

\* The other threads that share the cache of a thread.
Siblings(t) == {u \in Threads \ {t} : ProcessOf[u] = ProcessOf[t]}

====================================================================================
