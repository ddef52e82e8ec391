------------------------------ MODULE SpRequest ------------------------------
(***************************************************************************)
(* The outgoing half of a login: SpmsEsmoAuthenticator ("esmo") and        *)
(* SpmsEidasAuthenticator ("eidas").  A login opens a session at the       *)
(* Session Manager, stores the service provider's request, metadata and    *)
(* OIDC parameters in it, and leaves authentication notes from which the   *)
(* login page posts the browser to the ACM (with a token of the session)   *)
(* or to the eIDAS IdP (with the session's id).                            *)
(*                                                                         *)
(* Each factory hands out ONE authenticator object                         *)
(* (SpmsEsmoAuthenticatorFactory.SINGLETON), so resp and updateDR are      *)
(* fields that all the logins in progress share without a lock.  A step of *)
(* the model is the code from one access of a shared field, or one remote  *)
(* call, to the next.                                                      *)
(***************************************************************************)
EXTENDS Naturals, FiniteSets

CONSTANTS
    Requests,     \* executions of authenticate(), one per login
    SessionIds,   \* ids the Session Manager can issue
    Realms,       \* the realms in which logins happen
    MaxOverlap,   \* how many logins one authenticator may be running at a time
    Documents,    \* how many of the three documents a login stores (the code: 3)
    MaxRefusals,  \* bound on the updates that the Session Manager refuses
    None          \* Java's null

Authenticators == {"esmo", "eidas"}
Variables == {"spRequest", "spMetadata", "spDetails", "SP_ORIGIN"}

ASSUME SpRequestAssumption ==
    /\ MaxOverlap \in Nat \ {0}
    /\ Documents \in 1..3
    /\ MaxRefusals \in Nat
    /\ Realms \subseteq {"esmo", "esmoNo", "esmoNoProd"}
    /\ None \notin SessionIds \cup Requests \cup Realms \cup Authenticators \cup Variables

VARIABLES
    pc,           \* the next step of each execution
    auth,         \* the authenticator an execution runs in
    realm,        \* context.getRealm().getName()
    sid,          \* the local variable sessionId
    round,        \* which call of updateSessionData is in progress
    reply,        \* an answer that readValue has not yet returned
    signed,       \* updateDR as serialised for the digest and the signature;
                  \* like reply, Empty again once the code is done with it
    notes,        \* the authentication notes of the login
    resp,         \* the field resp of each authenticator
    updateDR,     \* the field updateDR of each authenticator
    owner,        \* Session Manager: whose startSession call made a session
    store,        \* Session Manager: the variables of each session
    refused,      \* history: the updates answered with code ERROR
    overlapped,   \* history: another login ran in the same authenticator
    burst         \* history: the logins in that authenticator, ended ones too,
                  \* since it was last empty, up to the end of this login

locals == <<auth, realm, sid, round, reply, signed, notes>>
shared == <<resp, updateDR>>
manager == <<owner, store, refused>>
history == <<overlapped, burst>>
vars == <<pc, locals, shared, manager, history>>

(* The session variables, in the order in which they are stored. *)
Variable == [i \in 1..4 |-> IF i > Documents THEN "SP_ORIGIN"
                            ELSE <<"spRequest", "spMetadata", "spDetails">>[i]]

(* Only the Norwegian realms of the ESMO authenticator store an SP_ORIGIN. *)
Rounds(r) == IF auth[r] = "esmo" /\ realm[r] # "esmo" THEN Documents + 1 ELSE Documents

(* A serialised attribute set or metadata document, known by the login that *)
(* prepared it and the variable it was prepared for.                        *)
Payload(r, v) == [of |-> r, variable |-> v]
Payloads == [of : Requests, variable : Variables]

(* A SessionMngrResponse.  Its code is not a field here: neither            *)
(* authenticator reads it.  A token is known by the session it stands for.  *)
Response(s, t) == [sessionData |-> s, additionalData |-> t]
Responses == [sessionData : SessionIds \cup {None},
              additionalData : SessionIds \cup {None}]
Empty == Response(None, None)

UpdateRequests == [sessionId : SessionIds \cup {None},
                   variableName : Variables \cup {None},
                   dataObject : Payloads \cup {None}]
NewUpdateRequest == [sessionId |-> None, variableName |-> None, dataObject |-> None]
Unsigned == [digest |-> NewUpdateRequest, signature |-> NewUpdateRequest]

Note(acm, token, idp, s) == [acm |-> acm, token |-> token, idp |-> idp, sessionId |-> s]
Notes == [acm : {"unset", "true", "false"}, token : SessionIds \cup {None},
          idp : {"unset", "true", "false"}, sessionId : SessionIds \cup {None}]

(* The places at which an answer of the Session Manager is awaited or held. *)
Assigning == {"assignSession", "assignUpdate", "assignToken"}
Calling == {"startSession", "post", "generateToken"}
Labels == Assigning \cup Calling \cup
          {"idle", "readSession", "setSessionId", "setVariableName",
           "setDataObject", "digest", "sign", "readToken", "handOver",
           "done", "aborted"}

Active(r) == pc[r] \notin {"idle", "done", "aborted"}
ActiveIn(a) == {r \in Requests : Active(r) /\ auth[r] = a}
Issued == {s \in SessionIds : owner[s] # None}

TypeOK ==
    /\ pc \in [Requests -> Labels]
    /\ auth \in [Requests -> Authenticators \cup {None}]
    /\ realm \in [Requests -> Realms \cup {None}]
    /\ sid \in [Requests -> SessionIds \cup {None}]
    /\ round \in [Requests -> 0..4]
    /\ reply \in [Requests -> Responses]
    /\ signed \in [Requests -> [digest : UpdateRequests, signature : UpdateRequests]]
    /\ notes \in [Requests -> Notes]
    /\ resp \in [Authenticators -> Responses]
    /\ updateDR \in [Authenticators -> UpdateRequests]
    /\ owner \in [SessionIds -> Requests \cup {None}]
    /\ store \in [SessionIds -> [Variables -> Payloads \cup {None}]]
    /\ refused \in [Requests -> SUBSET Variables]
    /\ overlapped \in [Requests -> BOOLEAN]
    /\ burst \in [Requests -> SUBSET Requests]

Init ==
    /\ pc = [r \in Requests |-> "idle"]
    /\ auth = [r \in Requests |-> None]
    /\ realm = [r \in Requests |-> None]
    /\ sid = [r \in Requests |-> None]
    /\ round = [r \in Requests |-> 0]
    /\ reply = [r \in Requests |-> Empty]
    /\ signed = [r \in Requests |-> Unsigned]
    /\ notes = [r \in Requests |-> Note("unset", None, "unset", None)]
    /\ resp = [a \in Authenticators |-> Empty]
    /\ updateDR = [a \in Authenticators |-> NewUpdateRequest]
    /\ owner = [s \in SessionIds |-> None]
    /\ store = [s \in SessionIds |-> [v \in Variables |-> None]]
    /\ refused = [r \in Requests |-> {}]
    /\ overlapped = [r \in Requests |-> FALSE]
    /\ burst = [r \in Requests |-> {r}]

Goto(r, label) == pc' = [pc EXCEPT ![r] = label]

-----------------------------------------------------------------------------
(* The steps of authenticate(). *)

(* A worker enters authenticate(): it builds its services and prepares the  *)
(* payloads, all of it local.  From here on it shares resp and updateDR     *)
(* with the other logins in the same authenticator.                         *)
Authenticate(r) ==
    /\ pc[r] = "idle"
    /\ \E a \in Authenticators, n \in Realms :
        /\ Cardinality(ActiveIn(a)) < MaxOverlap
        /\ auth' = [auth EXCEPT ![r] = a]
        /\ realm' = [realm EXCEPT ![r] = n]
        /\ overlapped' = [q \in Requests |->
                             \/ overlapped[q]
                             \/ q \in ActiveIn(a)
                             \/ q = r /\ ActiveIn(a) # {}]
        /\ LET together == {r} \cup UNION {burst[q] : q \in ActiveIn(a)}
           IN burst' = [q \in Requests |->
                           IF q = r \/ q \in ActiveIn(a) THEN together ELSE burst[q]]
    /\ Goto(r, "startSession")
    /\ UNCHANGED <<sid, round, reply, signed, notes, shared, manager>>

(* initServices cannot load the key store: AuthenticationFlowException; or  *)
(* there is no certificate, or no parameter for a Norwegian realm, on which *)
(* preparing the payloads throws.                                           *)
ServicesFail(r) ==
    /\ pc[r] = "idle"
    /\ Goto(r, "aborted")
    /\ UNCHANGED <<locals, shared, manager, history>>

(* POST /sm/startSession: a new session, or code ERROR without one. *)
StartSession(r) ==
    /\ pc[r] = "startSession"
    /\ \/ \E s \in SessionIds \ Issued :
            /\ owner' = [owner EXCEPT ![s] = r]
            /\ reply' = [reply EXCEPT ![r] = Response(s, None)]
       \/ UNCHANGED <<reply, owner>>
    /\ Goto(r, "assignSession")
    /\ UNCHANGED <<auth, realm, sid, round, signed, notes, shared, store, refused, history>>

(* resp = mapper.readValue(...): the answer becomes visible to all the      *)
(* logins in the authenticator.  The mutant: a static field of the parent.  *)
Publish_static(r) ==
    /\ resp' = [a \in Authenticators |-> reply[r]]
    /\ reply' = [reply EXCEPT ![r] = Empty]

Publish(r) ==
    /\ resp' = [resp EXCEPT ![auth[r]] = reply[r]]
    /\ reply' = [reply EXCEPT ![r] = Empty]

(* The mutant leaves out the SP_ORIGIN of the Norwegian realms. *)
LastRound_noOrigin(r) == round[r] >= Documents
LastRound(r) == round[r] = Rounds(r)

(* The mutant sends the same update again, without end. *)
NextRound_again(r) == UNCHANGED round
NextRound(r) == round' = [round EXCEPT ![r] = round[r] + 1]

AssignResp(r) ==
    /\ \/ pc[r] = "assignSession" /\ Goto(r, "readSession") /\ UNCHANGED round
       \/ pc[r] = "assignUpdate" /\ ~LastRound(r) /\ Goto(r, "setSessionId") /\ NextRound(r)
       \/ /\ pc[r] = "assignUpdate" /\ LastRound(r) /\ UNCHANGED round
          /\ Goto(r, IF auth[r] = "esmo" THEN "generateToken" ELSE "handOver")
       \/ pc[r] = "assignToken" /\ Goto(r, "readToken") /\ UNCHANGED round
    /\ Publish(r)
    /\ UNCHANGED <<auth, realm, sid, signed, notes, updateDR, manager, history>>

(* resp.getSessionData().getSessionId(), a NullPointerException when resp   *)
(* holds an answer without a session; nothing catches it.                   *)
ReadSessionId(r) ==
    /\ pc[r] = "readSession"
    /\ LET s == resp[auth[r]].sessionData IN
        IF s = None
        THEN /\ Goto(r, "aborted")
             /\ UNCHANGED <<sid, round>>
        ELSE /\ sid' = [sid EXCEPT ![r] = s]
             /\ round' = [round EXCEPT ![r] = 1]
             /\ Goto(r, "setSessionId")
    /\ UNCHANGED <<auth, realm, reply, signed, notes, shared, manager, history>>

(* updateSessionData: the three setters on the shared request object, each  *)
(* with a mutant that leaves something of the update before in place.       *)
Set(r, label, request, next) ==
    /\ pc[r] = label
    /\ updateDR' = [updateDR EXCEPT ![auth[r]] = request]
    /\ Goto(r, next)
    /\ UNCHANGED <<locals, resp, manager, history>>

SetSessionId_kept(r) ==
    Set(r, "setSessionId",
        [updateDR[auth[r]] EXCEPT !.sessionId = IF @ = None THEN sid[r] ELSE @], "setVariableName")
SetSessionId(r) ==
    Set(r, "setSessionId",
        [updateDR[auth[r]] EXCEPT !.sessionId = sid[r]], "setVariableName")

SetVariableName_kept(r) ==
    Set(r, "setVariableName",
        [updateDR[auth[r]] EXCEPT !.variableName = IF @ = None THEN Variable[round[r]] ELSE @],
        "setDataObject")
SetVariableName(r) ==
    Set(r, "setVariableName",
        [updateDR[auth[r]] EXCEPT !.variableName = Variable[round[r]]], "setDataObject")

SetDataObject_missing(r) == Set(r, "setDataObject", updateDR[auth[r]], "digest")
SetDataObject(r) ==
    Set(r, "setDataObject",
        [updateDR[auth[r]] EXCEPT !.dataObject = Payload(r, Variable[round[r]])], "digest")

(* sendPostBody serialises the object it was given three times: for the     *)
(* digest header, for the signature and for the body it posts.  The mutant  *)
(* leaves the document out of the digest.                                   *)
Digest_partial(r) == [updateDR[auth[r]] EXCEPT !.dataObject = None]
Digest(r) == updateDR[auth[r]]

SerialiseForDigest(r) ==
    /\ pc[r] = "digest"
    /\ signed' = [signed EXCEPT ![r].digest = Digest(r)]
    /\ Goto(r, "sign")
    /\ UNCHANGED <<auth, realm, sid, round, reply, notes, shared, manager, history>>

SerialiseForSignature(r) ==
    /\ pc[r] = "sign"
    /\ signed' = [signed EXCEPT ![r].signature = updateDR[auth[r]]]
    /\ Goto(r, "post")
    /\ UNCHANGED <<auth, realm, sid, round, reply, notes, shared, manager, history>>

(* What the Session Manager's signature check accepts (it runs the          *)
(* verifySignature of the library this code shares with it).                *)
SignatureMatches(r) ==
    /\ updateDR[auth[r]] = signed[r].digest
    /\ updateDR[auth[r]] = signed[r].signature

(* POST /sm/updateSessionData with the third serialisation.  The variable   *)
(* is stored, or the answer has code ERROR, which the caller never reads;   *)
(* a signature that does not match is such an error or fails the call.      *)
PostUpdate(r) ==
    LET body == updateDR[auth[r]] IN
    /\ pc[r] = "post"
    /\ \/ /\ SignatureMatches(r)
          /\ store' = [store EXCEPT ![body.sessionId][body.variableName] = body.dataObject]
          /\ UNCHANGED refused
       \/ /\ Cardinality(UNION {refused[q] : q \in Requests}) < MaxRefusals
          /\ refused' = [refused EXCEPT ![r] = @ \cup {Variable[round[r]]}]
          /\ UNCHANGED store
    /\ signed' = [signed EXCEPT ![r] = Unsigned]
    /\ Goto(r, "assignUpdate")
    /\ UNCHANGED <<auth, realm, sid, round, reply, notes, shared, owner, history>>

(* GET /sm/generateToken with the local sessionId: a token of that session, *)
(* or code ERROR and none.                                                  *)
GenerateToken(r) ==
    /\ pc[r] = "generateToken"
    /\ \E t \in {sid[r], None} : reply' = [reply EXCEPT ![r] = Response(None, t)]
    /\ Goto(r, "assignToken")
    /\ UNCHANGED <<auth, realm, sid, round, signed, notes, shared, manager, history>>

(* The success notes of the ESMO authenticator; the token is whatever resp  *)
(* now holds, and a null token leaves its note unset.  The mutant notes the *)
(* whole response.                                                          *)
Token_response(r) == resp[auth[r]]
Token(r) == resp[auth[r]].additionalData

HandOverToAcm(r) ==
    /\ pc[r] = "readToken"
    /\ notes' = [notes EXCEPT ![r] = Note("true", Token(r), "false", None)]
    /\ Goto(r, "done")
    /\ UNCHANGED <<auth, realm, sid, round, reply, signed, shared, manager, history>>

(* The success notes of the eIDAS authenticator. *)
HandOverToIdp(r) ==
    /\ pc[r] = "handOver"
    /\ notes' = [notes EXCEPT ![r] = Note("false", None, "true", sid[r])]
    /\ Goto(r, "done")
    /\ UNCHANGED <<auth, realm, sid, round, reply, signed, shared, manager, history>>

(* An exception that authenticate() catches: the key store fails while the   *)
(* metadata is prepared, or readValue cannot parse an answer.  Both success *)
(* notes become "false" and the execution still succeeds.                   *)
GivesUp(r) ==
    /\ pc[r] \in Assigning \cup {"startSession"}
    /\ notes' = [notes EXCEPT ![r] = Note("false", None, "false", None)]
    /\ reply' = [reply EXCEPT ![r] = Empty]
    /\ Goto(r, "done")
    /\ UNCHANGED <<auth, realm, sid, round, signed, shared, manager, history>>

(* A call is refused, or its answer is lost.  sendPostForm and sendGet      *)
(* throw a RestClientException; sendPostBody returns null, on which         *)
(* readValue throws.  Neither is caught: no note is set.                    *)
CallFails(r) ==
    /\ pc[r] \in Calling \cup Assigning
    /\ reply' = [reply EXCEPT ![r] = Empty]
    /\ signed' = [signed EXCEPT ![r] = Unsigned]
    /\ Goto(r, "aborted")
    /\ UNCHANGED <<auth, realm, sid, round, notes, shared, manager, history>>

Step(r) ==
    \/ StartSession(r)
    \/ AssignResp(r)
    \/ ReadSessionId(r)
    \/ SetSessionId(r)
    \/ SetVariableName(r)
    \/ SetDataObject(r)
    \/ SerialiseForDigest(r)
    \/ SerialiseForSignature(r)
    \/ PostUpdate(r)
    \/ GenerateToken(r)
    \/ HandOverToAcm(r)
    \/ HandOverToIdp(r)
    \/ GivesUp(r)
    \/ CallFails(r)

AllEnded == \A r \in Requests : pc[r] \in {"done", "aborted"}

Next ==
    \/ \E r \in Requests : Authenticate(r) \/ ServicesFail(r) \/ Step(r)
    \/ AllEnded /\ UNCHANGED vars

(* Once it runs, a worker thread keeps running, and every call returns or   *)
(* fails.                                                                   *)
Fairness == \A r \in Requests : WF_vars(Step(r))

Spec == Init /\ [][Next]_vars
FairSpec == Spec /\ Fairness

-----------------------------------------------------------------------------
Alone(r) == ~overlapped[r]
HandedOver(r) == pc[r] = "done" /\ (notes[r].acm = "true" \/ notes[r].idp = "true")

(* A login that ran alone in its authenticator hands over its own session,  *)
(* by the channel of its authenticator, and the session holds, now and at   *)
(* any later time, exactly the variables it stored, each with the document  *)
(* prepared for it - whatever earlier, later or the other authenticator's   *)
(* logins left in or do to the shared fields (authenticateImpl).            *)
IsolatedWhenAlone ==
    \A r \in Requests : HandedOver(r) /\ Alone(r) =>
        /\ owner[sid[r]] = r
        /\ IF auth[r] = "esmo"
           THEN notes[r] \in {Note("true", sid[r], "false", None), Note("true", None, "false", None)}
           ELSE notes[r] = Note("false", None, "true", sid[r])
        /\ \A i \in 1..Documents + 1 :
            store[sid[r]][Variable[i]] =
                IF i <= Rounds(r) /\ Variable[i] \notin refused[r]
                THEN Payload(r, Variable[i]) ELSE None

(* The Session Manager never rejects an update for its signature unless     *)
(* another login of the same authenticator was in progress: the three       *)
(* serialisations in sendPostBody agree.                                    *)
SignedAsPostedWhenAlone ==
    \A r \in Requests : pc[r] = "post" /\ Alone(r) => SignatureMatches(r)

(* However logins interleave, what one of them takes over from another      *)
(* comes from the same authenticator: an ESMO login never carries an eIDAS  *)
(* session or document, nor the reverse (one SINGLETON per factory).        *)
AuthenticatorsDoNotMix ==
    /\ \A r \in Requests : sid[r] # None => auth[owner[sid[r]]] = auth[r]
    /\ \A r \in Requests : notes[r].token # None => auth[owner[notes[r].token]] = "esmo"
    /\ \A s \in SessionIds, v \in Variables :
        store[s][v] # None => auth[store[s][v].of] = auth[owner[s]]

(* However many logins overlap, what one of them holds or hands over comes  *)
(* from logins of its burst, and a document gets into a session only within *)
(* a burst: what a login leaves in resp or updateDR never reaches one that  *)
(* begins when the authenticator is empty (authenticate, updateSessionData).*)
TakesFromItsBurst ==
    /\ \A r \in Requests : sid[r] # None => owner[sid[r]] \in burst[r]
    /\ \A r \in Requests : notes[r].token # None => owner[notes[r].token] \in burst[r]
    /\ \A s \in SessionIds, v \in Variables : store[s][v] # None =>
        \E r \in Requests : {owner[s], store[s][v].of} \subseteq burst[r]

(* The page posts the browser "properly" (the comment on the notes): with a *)
(* token or a session id, and of the session this login opened.             *)
HandsOverOwnSession ==
    \A r \in Requests : HandedOver(r) =>
        LET s == IF notes[r].acm = "true" THEN notes[r].token ELSE notes[r].sessionId
        IN s # None => owner[s] = r

HandsOverAToken ==
    \A r \in Requests : HandedOver(r) /\ notes[r].acm = "true" => notes[r].token # None

(* Every login that starts ends: with notes, or with an exception.          *)
EveryLoginEnds ==
    \A r \in Requests : Active(r) ~> pc[r] \in {"done", "aborted"}

(* How many steps a login can still take: seven for each update that is not *)
(* yet stored, up to three before the first and up to three after the last. *)
Position ==
    [idle |-> 14, startSession |-> 6, assignSession |-> 5, readSession |-> 4,
     setSessionId |-> 10, setVariableName |-> 9, setDataObject |-> 8, digest |-> 7,
     sign |-> 6, post |-> 5, assignUpdate |-> 4, generateToken |-> 3, assignToken |-> 2,
     readToken |-> 1, handOver |-> 1, done |-> 0, aborted |-> 0]

StepsLeft(r) ==
    Position[pc[r]] +
        (IF pc[r] = "idle" THEN 7 * Documents
         ELSE IF pc[r] \in {"generateToken", "assignToken", "readToken", "handOver",
                            "done", "aborted"} THEN 0
         ELSE 7 * (Rounds(r) - round[r]))

(* Each step of a login brings it nearer to its end, and no step of another *)
(* login, whatever it does to the shared fields, takes it further away: a   *)
(* refused update or an answer of another login is never a reason to start  *)
(* over, and no login takes more than 7 * Documents + 14 steps              *)
(* (authenticateImpl).                                                      *)
EveryStepCounts ==
    [][\A r \in Requests :
           /\ StepsLeft(r)' \in 0..7 * Documents + 14
           /\ StepsLeft(r)' <= StepsLeft(r)
           /\ Step(r) => StepsLeft(r)' < StepsLeft(r)]_vars

(* Every login implements the promise of LoginHandOver: what came of it so  *)
(* far, and, once it handed over, the session it handed over and what the   *)
(* Session Manager holds of it.                                             *)
Outcome(r) ==
    IF overlapped[r] THEN "disturbed"
    ELSE IF HandedOver(r) THEN "handedOver"
    ELSE IF pc[r] = "done" THEN "form"
    ELSE IF pc[r] = "aborted" THEN "error"
    ELSE "pending"
HandedPackage(r) ==
    IF Outcome(r) = "handedOver" THEN [session |-> sid[r], data |-> store[sid[r]]] ELSE None

Promise == INSTANCE LoginHandOver WITH
    outcome <- [r \in Requests |-> Outcome(r)],
    package <- [r \in Requests |-> HandedPackage(r)]
KeepsPromise == Promise!Spec
=============================================================================
