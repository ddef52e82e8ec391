---------------------------- MODULE MCPostResponse ----------------------------
(* A small instance of PostResponse for TLC. *)
EXTENDS PostResponseInvariant, TLC

Symmetry == Permutations(Requests) \cup Permutations(Sessions)

(* Two people whose names differ in their case only.                        *)
LowerCase == [x \in {"esmo"} \X {"ann", "Ann", "bob"} |->
                IF x[2] = "Ann" THEN <<x[1], "ann">> ELSE x]

(* Both variables with different claims, of which the one that counts       *)
(* leaves a field null; the other variable alone; no person identifier; and *)
(* neither variable.                                                        *)
SomeContents ==
    {[person |-> "ann", variables |-> [responseAssertions |-> {1}, dsResponse |-> {1, 2}]],
     [person |-> "Ann", variables |-> [dsResponse |-> {1, 2}]],
     [person |-> "bob", variables |-> [responseAssertions |-> {2}]],
     [person |-> "bob", variables |-> [v \in {} |-> {}]]}

(* Without the answer that names nobody. *)
FewContents == {c \in SomeContents : c.variables # [responseAssertions |-> {2}]}
=============================================================================
