------------------------------- MODULE OneTimeNonce -------------------------------
(***************************************************************************)
(* What a store of challenge nonces promises: a nonce is accepted once at  *)
(* most, only between its issue and its end, and never comes back.  Many   *)
(* nonces may end in one step.  ChallengeStore implements it               *)
(* (ChallengeStore!OneTimeSpec).                                           *)
(***************************************************************************)
EXTENDS Naturals

CONSTANT Nonces

VARIABLES
    phase,      \* phase[n]: "fresh" before its issue, then "live", then "over"
    uses        \* uses[n]: how often n has been accepted

vars == <<phase, uses>>

Live == {n \in Nonces : phase[n] = "live"}

Init ==
    /\ phase = [n \in Nonces |-> "fresh"]
    /\ uses = [n \in Nonces |-> 0]

Issue(n) ==
    /\ phase[n] = "fresh"
    /\ phase' = [phase EXCEPT ![n] = "live"]
    /\ UNCHANGED uses

End(over) == phase' = [n \in Nonces |-> IF n \in over THEN "over" ELSE phase[n]]

\* Live nonces end, of age or because their session does; at most one of the
\* others, not used before, is accepted.
Check ==
    \E over \in SUBSET Live :
        /\ End(over)
        /\ \/ UNCHANGED uses
           \/ \E n \in Live \ over : /\ uses[n] = 0
                                     /\ uses' = [uses EXCEPT ![n] = 1]

Next == Check \/ \E n \in Nonces : Issue(n)

Spec == Init /\ [][Next]_vars

===================================================================================
