------------------------------- MODULE MCPool -------------------------------
(* Small instances of Pool for TLC. *)
EXTENDS Pool, TLC

Symmetry ==
    Permutations(Caller) \cup Permutations(Entry) \cup Permutations(Lane)
=============================================================================
