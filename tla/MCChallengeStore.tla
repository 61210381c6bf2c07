----------------------------- MODULE MCChallengeStore -----------------------------
(* A small store for TLC. *)
EXTENDS ChallengeStore, TLC

Interchangeable == Permutations(Nonces) \union Permutations(Sessions)

===================================================================================
