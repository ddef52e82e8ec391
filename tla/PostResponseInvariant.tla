------------------------- MODULE PostResponseInvariant -------------------------
(***************************************************************************)
(* Why the properties of PostResponse hold: what is true of the shared     *)
(* fields at each label of a login that runs alone, and of one that shares *)
(* them with the others of its burst.                                      *)
(***************************************************************************)
EXTENDS PostResponse

Reading == {"clear", "add", "get", "assign", "read"}
Chose == {"nullify", "process"}
Named == {"fill", "commit"}

(* The locals of an execution are set when its label needs them, and what   *)
(* it read from a session was there.                                        *)
Real(r, v) ==
    data[r][v] # None =>
        /\ data[r][v].variable = v
        /\ v \in DOMAIN contents[data[r][v].session].variables

LocalOK(r) ==
    /\ pc[r] = "idle" =>
        /\ data[r] = [v \in Variables |-> None]
        /\ draft[r] = NoClaims
        /\ asked[r] = "responseAssertions"
    /\ pc[r] \in Reading \cup {"idle", "process", "commit"} => index[r] = 1
    /\ pc[r] \notin {"idle", "attempted", "aborted"} =>
        session[r] \in Sessions /\ prefix[r] \in Prefixes
    /\ \A v \in Variables : Real(r, v)
    /\ pc[r] \in Chose => Chosen(data[r]) # None
    /\ pc[r] \in Named => username[r] \in Usernames

LocalsOK == \A r \in Requests : LocalOK(r)

-----------------------------------------------------------------------------
(* Two executions in the authenticator at a time are both marked.           *)
OverlapIsMarked == \A q, r \in Active : q # r => overlapped[r]

Own(r, v) ==
    data[r][v] = IF v \in DOMAIN contents[session[r]].variables
                 THEN Payload(session[r], v) ELSE None

(* The list, the answer and the response of a login that runs alone.        *)
ReadsOwn(r) ==
    /\ pc[r] = "add" => getParams = {}
    /\ pc[r] = "get" => getParams = {session[r]}
    /\ pc[r] = "assign" => reply[r] \in {session[r], None}
    /\ pc[r] = "read" => resp \in {session[r], None}
    /\ pc[r] \in Reading =>
        /\ data[r]["dsResponse"] = None
        /\ IF asked[r] = "dsResponse"
           THEN Own(r, "responseAssertions")
           ELSE data[r]["responseAssertions"] = None
    /\ pc[r] \in Chose \cup Named => \A v \in Variables : Own(r, v)

(* The claim fields it clears and fills, and the record it makes of them.   *)
FillsOwn(r) ==
    LET own == Asserted(session[r]) IN
    /\ pc[r] = "nullify" => \A c \in Claim : c < index[r] => fields[c] = None
    /\ pc[r] = "process" =>
        \A c \in Claim : IF c \in left[r]
                         THEN fields[c] = None /\ own[c] = Chosen(data[r])
                         ELSE fields[c] = own[c]
    /\ pc[r] = "fill" =>
        /\ fields = own
        /\ \A c \in Claim : c < index[r] => draft[r][c] = own[c]
    /\ pc[r] = "commit" => draft[r] = own
    /\ pc[r] \in Named => username[r] = Username(prefix[r], contents[session[r]].person)

AloneIsOwn == \A r \in Active : Alone(r) => ReadsOwn(r) /\ FillsOwn(r)

WritersSucceeded == \A u \in Usernames : writer[u] # None => pc[writer[u]] = "success"

RecordInv ==
    /\ TypeOK
    /\ LocalsOK
    /\ OverlapIsMarked
    /\ AloneIsOwn
    /\ WritersSucceeded
    /\ RecordIsOwnWhenAlone

-----------------------------------------------------------------------------
(* What an execution holds, or will read, is of the sessions of the burst.  *)
InBurst(p) == p # None => p.session \in burst

OfBurst(r) ==
    /\ session[r] \in burst
    /\ pc[r] \in {"add", "get"} => getParams \subseteq burst
    /\ pc[r] = "assign" => reply[r] \in burst \cup {None}
    /\ pc[r] = "read" => resp \in burst \cup {None}
    /\ \A v \in Variables : InBurst(data[r][v])
    /\ pc[r] = "nullify" => \A c \in Claim : c < index[r] => InBurst(fields[c])
    /\ pc[r] \in {"process", "fill"} => \A c \in Claim : InBurst(fields[c])
    /\ \A c \in Claim : InBurst(draft[r][c])

ActiveAreOfBurst == \A r \in Active : OfBurst(r)

BurstInv == TypeOK /\ LocalsOK /\ ActiveAreOfBurst
=============================================================================
