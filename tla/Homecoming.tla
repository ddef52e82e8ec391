------------------------------ MODULE Homecoming ------------------------------
(***************************************************************************)
(* What the round trip of a browser amounts to, whatever happens on the    *)
(* way: a login draws sessions that no other login ever holds, each of     *)
(* them comes to assert or not the person who uses the browser, and the    *)
(* browser comes home with one of its own; there it is let in as the       *)
(* person that this session asserts, and as nobody before it asserts one.  *)
(***************************************************************************)
CONSTANTS Logins, SessionIds, None

VARIABLES
    holder,    \* the login that drew each session, if any
    asserted,  \* the person that each session asserts, if any
    arrived,   \* the session that each browser last came home with
    admitted   \* the person that each browser was let in as

Init ==
    /\ holder = [s \in SessionIds |-> None]
    /\ asserted = [s \in SessionIds |-> None]
    /\ arrived = [l \in Logins |-> None]
    /\ admitted = [l \in Logins |-> None]

Draw(l) ==
    /\ \E s \in SessionIds : holder[s] = None /\ holder' = [holder EXCEPT ![s] = l]
    /\ UNCHANGED <<asserted, arrived, admitted>>

Prove(l) ==
    /\ \E s \in SessionIds : holder[s] = l /\ asserted' = [asserted EXCEPT ![s] = l]
    /\ UNCHANGED <<holder, arrived, admitted>>

Arrive(l) ==
    /\ \E s \in SessionIds : holder[s] = l /\ arrived' = [arrived EXCEPT ![l] = s]
    /\ UNCHANGED <<holder, asserted, admitted>>

Enter(l) ==
    /\ \E s \in SessionIds :
        /\ arrived[l] = s /\ asserted[s] # None
        /\ admitted' = [admitted EXCEPT ![l] = asserted[s]]
    /\ UNCHANGED <<holder, asserted, arrived>>

Next == \E l \in Logins : Draw(l) \/ Prove(l) \/ Arrive(l) \/ Enter(l)

Spec == Init /\ [][Next]_<<holder, asserted, arrived, admitted>>
=============================================================================
