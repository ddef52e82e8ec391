------------------------------ MODULE UserRecords ------------------------------
(***************************************************************************)
(* What the returning authenticator promises of a login that no other      *)
(* login overlaps: it ends without a change to any user, or it writes, at  *)
(* once and once only, the record of one user - that of the person the     *)
(* session asserts which the browser came back with - in full, and leaves  *)
(* all other users alone.  A login that was disturbed is promised nothing: *)
(* it may leave any record with any one user.                              *)
(***************************************************************************)
CONSTANTS Requests, Sessions, Prefixes, Name, Usernames, None

VARIABLES
    outcome,     \* of each login
    assertions,  \* who and what each session asserts
    users        \* the record of each user

Recorded(s, p) == [state |-> "recorded", session |-> s, prefix |-> p]
Pending == [state |-> "pending"]
Without == [state |-> "without"]
Disturbed == [state |-> "disturbed"]

Init ==
    /\ outcome = [r \in Requests |-> Pending]
    /\ users = [u \in Usernames |-> None]

Record(r) ==
    /\ outcome[r] = Pending
    /\ \E s \in Sessions, p \in Prefixes :
        /\ outcome' = [outcome EXCEPT ![r] = Recorded(s, p)]
        /\ users' = [users EXCEPT ![Name[<<p, assertions[s].person>>]] = assertions[s].record]
    /\ UNCHANGED assertions

EndWithout(r) ==
    /\ outcome[r] = Pending
    /\ outcome' = [outcome EXCEPT ![r] = Without]
    /\ UNCHANGED <<assertions, users>>

Disturb(together) ==
    /\ \A r \in together : outcome[r] = Pending
    /\ outcome' = [r \in Requests |-> IF r \in together THEN Disturbed ELSE outcome[r]]
    /\ UNCHANGED <<assertions, users>>

WriteDisturbed(r) ==
    /\ outcome[r] = Disturbed
    /\ \E u \in Usernames : users' = [users EXCEPT ![u] = users'[u]]
    /\ UNCHANGED <<outcome, assertions>>

Next ==
    \/ \E r \in Requests : Record(r) \/ EndWithout(r) \/ WriteDisturbed(r)
    \/ \E together \in SUBSET Requests : Disturb(together)

Spec == Init /\ [][Next]_<<outcome, assertions, users>>
=============================================================================
