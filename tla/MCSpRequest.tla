----------------------------- MODULE MCSpRequest -----------------------------
(* Small instances of SpRequest for TLC. *)
EXTENDS SpRequestInvariant, TLC

Symmetry == Permutations(Requests) \cup Permutations(SessionIds)

EsmoRealm == {"esmo"}
NorwegianRealm == {"esmoNo"}
=============================================================================
