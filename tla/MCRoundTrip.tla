------------------------------ MODULE MCRoundTrip ------------------------------
(* A small instance of RoundTrip for TLC. *)
EXTENDS RoundTripInvariant, TLC

Symmetry == Permutations(Logins) \cup Permutations(SessionIds)

(* The Norwegian realm is spelt differently from the parameter. *)
SomeRealms == {"esmo", "EsmoNO", "esmoNoProd"}

(* ESMO in every realm, and eIDAS in a Norwegian one, where the parameters  *)
(* would have ESMO lead elsewhere.                                          *)
SomeFlows == (SomeRealms \X {"esmo"}) \cup {<<"EsmoNO", "eidas">>}

LowerCase == [x \in SomeRealms \cup {"esmoNo"} |->
                CASE x = "esmo" -> x [] x = "esmoNoProd" -> "esmonoprod" [] OTHER -> "esmono"]

(* The parameters *_OIDC_AUTH_ENDPOINT name a realm each (docker-compose).  *)
SomeHomes == [ESMO |-> "esmo", EIDAS |-> "eidas", ESMONO |-> "EsmoNO", ESMONOPROD |-> "esmoNoProd"]
=============================================================================
