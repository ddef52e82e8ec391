----------------------------- MODULE ClaimSorting -----------------------------
(***************************************************************************)
(* What the returning authenticator makes of an answer, when the names     *)
(* that attributes travel under are hidden: of each thing it hears about a *)
(* claim it takes no notice, or it files it in the field of that claim and *)
(* no other, or, if the value is missing, it fails; it hears nothing more  *)
(* once it failed or named the user; and it names one after what it has    *)
(* filed as the person identifier, or fails for want of it.                *)
(***************************************************************************)
EXTENDS Sequences

CONSTANTS Attributes, PersonIdentifier, Unknown, Values, Missing, None

VARIABLES
    heard,   \* what was returned so far: the claim it is of, and the value
    fields,  \* the claim fields
    ending   \* whether the login has a user, or failed

Init ==
    /\ heard = <<>>
    /\ fields = [a \in Attributes |-> None]
    /\ ending = "none"

Hear(c, v) ==
    /\ ending = "none"
    /\ heard' = Append(heard, [of |-> c, value |-> v])

Ignore(c, v) ==
    /\ Hear(c, v)
    /\ UNCHANGED <<fields, ending>>

File(a, v) ==
    /\ Hear(a, v) /\ v # Missing
    /\ fields' = [fields EXCEPT ![a] = v]
    /\ UNCHANGED ending

Fail(a) ==
    /\ Hear(a, Missing)
    /\ ending' = "exception"
    /\ UNCHANGED fields

Identify ==
    /\ ending = "none"
    /\ ending' = IF fields[PersonIdentifier] = None THEN "exception" ELSE "user"
    /\ UNCHANGED <<heard, fields>>

Next ==
    \/ \E v \in Values : Ignore(Unknown, v) \/ \E a \in Attributes : Ignore(a, v) \/ File(a, v)
    \/ \E a \in Attributes : Fail(a)
    \/ Identify

Spec == Init /\ [][Next]_<<heard, fields, ending>>
=============================================================================
