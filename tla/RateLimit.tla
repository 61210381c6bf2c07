--------------------------------- MODULE RateLimit ---------------------------------
(***************************************************************************)
(* rate_limit_request (core/rate_limit.py) for one caller of one view: a   *)
(* counter in the cache of a process, read, compared and written back.     *)
(***************************************************************************)
EXTENDS ProcessCache, Sequences

CONSTANTS
    Limit,          \* limit
    Window,         \* window_seconds
    MaxRequests     \* bound on the requests admitted

ASSUME LimitAssumption ==
    /\ Limit \in Nat \ {0}
    /\ Window \in Nat \ {0}
    /\ MaxRequests \in Nat

VARIABLES
    counter,        \* per process: the value of the cache key and its end
    reading,        \* per thread: the count it has read and not yet written back
    seen,           \* history, per thread: the requests let through when it read
    admitted        \* history, per process: the requests let through, when, and whether
                    \* another one was since the count was read

limitRows == <<counter, reading, seen, admitted>>
limitVars == <<now, restarts, limitRows>>

NotReading == -1

LimitTypeOK ==
    /\ counter \in [Processes -> [count : 0..Limit, end : Nat]]
    /\ reading \in [Threads -> NotReading..Limit - 1]
    /\ seen \in [Threads -> Nat]
    /\ admitted \in [Processes -> Seq([at : Nat, raced : BOOLEAN])]

LimitInit ==
    /\ counter = [p \in Processes |-> [count |-> 0, end |-> 0]]
    /\ reading = [t \in Threads |-> NotReading]
    /\ seen = [t \in Threads |-> 0]
    /\ admitted = [p \in Processes |-> <<>>]

\* cache.get(cache_key, 0)
Count(p) == IF Cached(counter[p].end) THEN counter[p].count ELSE 0

Read(t, count) ==
    /\ reading' = [reading EXCEPT ![t] = count]
    /\ seen' = [seen EXCEPT ![t] = Len(admitted[ProcessOf[t]])]

\* The request is let through; the count it read may be out of date by now.
Admit(t) ==
    /\ admitted' = [admitted EXCEPT ![ProcessOf[t]] =
                        Append(@, [at |-> now, raced |-> seen[t] # Len(@)])]
    /\ reading' = [reading EXCEPT ![t] = NotReading]
    /\ seen' = [seen EXCEPT ![t] = 0]

------------------------------------------------------------------------------------

\* Mutant: the request at the limit is let through.
ReadCountAtLimit(t) ==
    LET p == ProcessOf[t]
    IN  /\ reading[t] = NotReading
        /\ Len(admitted[p]) < MaxRequests
        /\ Count(p) <= Limit
        /\ Read(t, Count(p))
        /\ UNCHANGED <<now, restarts, counter, admitted>>

\* A request below the limit; one at the limit is answered 429 and changes nothing.
ReadCount(t) ==
    LET p == ProcessOf[t]
    IN  /\ reading[t] = NotReading
        /\ Len(admitted[p]) < MaxRequests
        /\ Count(p) < Limit
        /\ Read(t, Count(p))
        /\ UNCHANGED <<now, restarts, counter, admitted>>

\* Mutant: the window ends where the first request of it said.
WriteInFirstWindow(t) ==
    LET p == ProcessOf[t]
        end == IF reading[t] = 0 THEN now + Window ELSE counter[p].end
    IN  /\ reading[t] # NotReading
        /\ counter' = [counter EXCEPT ![p] = [count |-> reading[t] + 1, end |-> end]]
        /\ Admit(t)
        /\ UNCHANGED <<now, restarts>>

\* The new count starts a window of its own, and the view runs.
WriteCount(t) ==
    LET p == ProcessOf[t]
    IN  /\ reading[t] # NotReading
        /\ counter' = [counter EXCEPT ![p] = [count |-> reading[t] + 1, end |-> now + Window]]
        /\ Admit(t)
        /\ UNCHANGED <<now, restarts>>

LimiterRestarts(p) ==
    /\ ProcessReplaced
    /\ counter' = [counter EXCEPT ![p] = [count |-> 0, end |-> 0]]
    /\ admitted' = [admitted EXCEPT ![p] = <<>>]
    /\ reading' = [t \in Threads |-> IF ProcessOf[t] = p THEN NotReading ELSE reading[t]]
    /\ seen' = [t \in Threads |-> IF ProcessOf[t] = p THEN 0 ELSE seen[t]]

LimiterTick == Tick /\ UNCHANGED limitRows

LimitNext ==
    \/ \E t \in Threads : ReadCount(t) \/ WriteCount(t)
    \/ \E p \in Processes : LimiterRestarts(p)
    \/ LimiterTick

LimitSpec == CacheInit /\ LimitInit /\ [][LimitNext]_limitVars

------------------------------------------------------------------------------------

\* A process lets more than the limit through within one window, wherever the window
\* begins, only where requests raced: among Limit + 1 in a row that each read the count
\* the one before had written, the first and the last are a window apart.  About the
\* read-modify-write of rate_limit_request, whose threads lose updates of one another,
\* and the timeout every request renews.
WithinLimit ==
    \A p \in Processes : \A i \in 1..Len(admitted[p]) - Limit :
        (\A j \in i + 1..i + Limit : ~admitted[p][j].raced)
            => admitted[p][i + Limit].at - admitted[p][i].at >= Window

====================================================================================
