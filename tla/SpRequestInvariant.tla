-------------------------- MODULE SpRequestInvariant --------------------------
(***************************************************************************)
(* Why a login that runs alone is isolated although it works through       *)
(* fields that every login shares: the inductive invariant of SpRequest.   *)
(***************************************************************************)
EXTENDS SpRequest

Updating == {"setSessionId", "setVariableName", "setDataObject", "digest",
             "sign", "post", "assignUpdate"}
Finishing == {"generateToken", "assignToken", "readToken", "handOver"}

(* Login r may use session s: it opened it, or both r and the login that    *)
(* opened it were disturbed.  No session of an undisturbed login is ever in *)
(* another login's reach.                                                   *)
Mine(r, s) ==
    /\ s \in SessionIds
    /\ owner[s] # None
    /\ owner[s] = r \/ (overlapped[r] /\ overlapped[owner[s]])

(* Where the control is, and what it implies for the local variables. *)
Control(r) ==
    /\ pc[r] = "idle" => auth[r] = None
    /\ pc[r] \notin {"idle", "aborted"} => auth[r] # None /\ realm[r] # None
    /\ pc[r] \in Updating \cup Finishing => sid[r] # None /\ round[r] \in 1..Rounds(r)
    /\ pc[r] \in Finishing => round[r] = Rounds(r)
    /\ pc[r] \in {"generateToken", "assignToken", "readToken"} => auth[r] = "esmo"
    /\ pc[r] = "handOver" => auth[r] = "eidas"
    /\ sid[r] # None => pc[r] \notin {"idle", "startSession", "assignSession", "readSession"}
    /\ sid[r] = None => round[r] = 0
    /\ pc[r] # "done" => notes[r] = Note("unset", None, "unset", None)
    /\ HandedOver(r) => sid[r] # None /\ round[r] = Rounds(r)
    /\ HandedOver(r) =>
        IF auth[r] = "esmo"
        THEN /\ notes[r].acm = "true" /\ notes[r].idp = "false"
             /\ notes[r].sessionId = None
        ELSE notes[r] = Note("false", None, "true", sid[r])

ControlOK == \A r \in Requests : Control(r)

(* Two logins in one authenticator at the same time are both marked. *)
OverlapIsMarked ==
    \A q, r \in Requests :
        q # r /\ Active(q) /\ Active(r) /\ auth[q] = auth[r] => overlapped[q]

(* What a login holds or is about to read is its own, or comes from a login *)
(* that overlapped it.                                                      *)
Traced(r) ==
    /\ reply[r].sessionData # None =>
        pc[r] = "assignSession" /\ owner[reply[r].sessionData] = r
    /\ reply[r].additionalData # None =>
        pc[r] = "assignToken" /\ reply[r].additionalData = sid[r]
    /\ sid[r] # None => Mine(r, sid[r])
    /\ pc[r] = "readSession" /\ resp[auth[r]].sessionData # None =>
        Mine(r, resp[auth[r]].sessionData)
    /\ pc[r] \in {"setVariableName", "setDataObject", "digest", "sign", "post"} =>
        Mine(r, updateDR[auth[r]].sessionId)

SessionsAreTraced == \A r \in Requests : Traced(r)

(* The shared fields, as a login that runs alone finds them. *)
FieldsAreOwn(r) ==
    /\ pc[r] \in {"setVariableName", "setDataObject", "digest", "sign", "post"} =>
        updateDR[auth[r]].sessionId = sid[r]
    /\ pc[r] \in {"setDataObject", "digest", "sign", "post"} =>
        updateDR[auth[r]].variableName = Variable[round[r]]
    /\ pc[r] \in {"digest", "sign", "post"} =>
        updateDR[auth[r]].dataObject = Payload(r, Variable[round[r]])
    /\ pc[r] \in {"sign", "post"} => signed[r].digest = updateDR[auth[r]]
    /\ pc[r] = "post" => signed[r].signature = updateDR[auth[r]]
    /\ pc[r] = "readToken" => resp[auth[r]].additionalData \in {None, sid[r]}
    /\ HandedOver(r) => notes[r].token \in {None, sid[r]}

FieldsAreOwnWhenAlone == \A r \in Requests : Alone(r) => FieldsAreOwn(r)

(* Update i of login r has been answered. *)
Answered(r, i) ==
    \/ i < round[r]
    \/ i = round[r] /\ pc[r] \in {"assignUpdate", "done"} \cup Finishing

(* Only updates that were answered were refused. *)
RefusalsAreAnswered ==
    \A r \in Requests, i \in 1..Documents + 1 :
        pc[r] # "aborted" /\ Variable[i] \in refused[r] => Answered(r, i)

(* The Session Manager's copy: a session that its opener, undisturbed, does *)
(* not know yet is blank; the one it knows holds what it has stored so far. *)
StoreIsOwnWhenAlone ==
    /\ \A s \in SessionIds : owner[s] = None => \A v \in Variables : store[s][v] = None
    /\ \A s \in SessionIds, v \in Variables :
        owner[s] # None /\ Alone(owner[s]) /\ sid[owner[s]] # s => store[s][v] = None
    /\ \A r \in Requests, i \in 1..Documents + 1 :
        Alone(r) /\ sid[r] # None /\ pc[r] # "aborted" =>
            store[sid[r]][Variable[i]] =
                IF Answered(r, i) /\ i <= Rounds(r) /\ Variable[i] \notin refused[r]
                THEN Payload(r, Variable[i]) ELSE None

IsolationInv ==
    /\ TypeOK
    /\ ControlOK
    /\ OverlapIsMarked
    /\ SessionsAreTraced
    /\ FieldsAreOwnWhenAlone
    /\ RefusalsAreAnswered
    /\ StoreIsOwnWhenAlone

(* The fields of an authenticator, and what its logins hold, stem from its  *)
(* own logins.                                                              *)
OfAuthenticator(s, a) == owner[s] # None /\ auth[owner[s]] = a

SourcesOK ==
    /\ \A a \in Authenticators :
        /\ resp[a].sessionData # None => OfAuthenticator(resp[a].sessionData, a)
        /\ resp[a].additionalData # None => OfAuthenticator(resp[a].additionalData, a)
        /\ updateDR[a].sessionId # None => OfAuthenticator(updateDR[a].sessionId, a)
        /\ updateDR[a].dataObject # None => auth[updateDR[a].dataObject.of] = a
    /\ \A r \in Requests : sid[r] # None => OfAuthenticator(sid[r], auth[r])
    /\ \A r \in Requests : notes[r].token # None => OfAuthenticator(notes[r].token, "esmo")
    /\ \A s \in SessionIds : owner[s] # None => auth[owner[s]] # None
    /\ \A s \in SessionIds, v \in Variables :
        store[s][v] # None =>
            owner[s] # None /\ auth[store[s][v].of] = auth[owner[s]]

MixingInv ==
    /\ TypeOK
    /\ ControlOK
    /\ SessionsAreTraced
    /\ SourcesOK

(* The logins in one authenticator are in one burst, and whatever such a    *)
(* login will read from the shared fields was put there within this burst:  *)
(* after its own write, and by logins that run beside it.                   *)
BurstsAgree ==
    /\ \A r \in Requests : r \in burst[r] /\ (pc[r] = "idle" => burst[r] = {r})
    /\ \A q, r \in Requests :
        Active(q) /\ Active(r) /\ auth[q] = auth[r] => burst[q] = burst[r]

FieldsOfBurst(r) ==
    /\ pc[r] = "readSession" /\ resp[auth[r]].sessionData # None =>
        owner[resp[auth[r]].sessionData] \in burst[r]
    /\ pc[r] = "readToken" /\ resp[auth[r]].additionalData # None =>
        owner[resp[auth[r]].additionalData] \in burst[r]
    /\ pc[r] \in {"setVariableName", "setDataObject", "digest", "sign", "post"} =>
        owner[updateDR[auth[r]].sessionId] \in burst[r]
    /\ pc[r] \in {"digest", "sign", "post"} =>
        updateDR[auth[r]].dataObject.of \in burst[r]

BurstInv ==
    /\ TypeOK
    /\ ControlOK
    /\ SessionsAreTraced
    /\ BurstsAgree
    /\ \A r \in Requests : FieldsOfBurst(r)
    /\ TakesFromItsBurst
=============================================================================
