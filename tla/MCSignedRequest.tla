--------------------------- MODULE MCSignedRequest ---------------------------
(* A small instance of SignedRequest for TLC. *)
EXTENDS SignedRequest

(* One second, less and more than five minutes, and an hour; the clocks     *)
(* agree, or are apart by less than five minutes in either direction.       *)
SomeDelays == {1, 290, 310, 3600}
SomeSkews == {-30, 0, 30}
=============================================================================
