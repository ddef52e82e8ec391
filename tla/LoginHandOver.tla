---------------------------- MODULE LoginHandOver ----------------------------
(***************************************************************************)
(* What an authenticator promises of a login that no other login of the    *)
(* same authenticator overlaps: it ends without a hand-over (the normal    *)
(* login form, or an error page), or it hands the browser over with a      *)
(* session that no other undisturbed login has, which holds this login's   *)
(* own data, and which nothing changes from then on.  A login that was     *)
(* disturbed is promised nothing.                                          *)
(***************************************************************************)
CONSTANTS Requests, SessionIds, Variables, None

VARIABLES outcome, package

Package(r, s, stored) ==
    [session |-> s,
     data |-> [v \in Variables |-> IF v \in stored THEN [of |-> r, variable |-> v] ELSE None]]

Init ==
    /\ outcome = [r \in Requests |-> "pending"]
    /\ package = [r \in Requests |-> None]

Taken == {package[r].session : r \in {q \in Requests : outcome[q] = "handedOver"}}

HandOver(r) ==
    /\ outcome[r] = "pending"
    /\ \E s \in SessionIds \ Taken, stored \in SUBSET Variables :
        package' = [package EXCEPT ![r] = Package(r, s, stored)]
    /\ outcome' = [outcome EXCEPT ![r] = "handedOver"]

EndWithout(r) ==
    /\ outcome[r] = "pending"
    /\ outcome' \in {[outcome EXCEPT ![r] = "form"], [outcome EXCEPT ![r] = "error"]}
    /\ UNCHANGED package

Disturb(together) ==
    /\ \A r \in together : outcome[r] = "pending"
    /\ outcome' = [r \in Requests |-> IF r \in together THEN "disturbed" ELSE outcome[r]]
    /\ UNCHANGED package

Next ==
    \/ \E r \in Requests : HandOver(r) \/ EndWithout(r)
    \/ \E together \in SUBSET Requests : Disturb(together)

Spec == Init /\ [][Next]_<<outcome, package>>
=============================================================================
