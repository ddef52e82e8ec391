----------------------------- MODULE MCAnonymize -----------------------------
(* A small instance of Anonymize for TLC. *)
EXTENDS Anonymize, TLC

Symmetry == Permutations(Logins) \cup Permutations(Aliases) \cup Permutations(Names)
=============================================================================
