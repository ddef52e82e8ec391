----------------------------- MODULE BurstProofs -----------------------------
(***************************************************************************)
(* Proofs about logins that do overlap in an authenticator of SpRequest:   *)
(* how far what one of them leaves in the shared fields can get.           *)
(***************************************************************************)
EXTENDS SpRequestProofs

USE DEF Assigning, Calling, Goto, Publish, LastRound, NextRound, Set, Digest, Token, history

(* Only a login that enters its authenticator changes bursts, and they only *)
(* grow; any other step leaves a login where it was or ends it.             *)
LEMMA BurstsGrow ==
    ASSUME TypeOK, BurstsAgree, NEW r \in Requests, Act(r), NEW q \in Requests
    PROVE  /\ burst[q] \subseteq burst'[q]
           /\ ~Authenticate(r) => burst' = burst /\ auth' = auth /\ (Active(q)' => Active(q))
<1> USE DEF TypeOK
<1>1. CASE Authenticate(r)
  <2>1. PICK a \in Authenticators :
            burst' = [p \in Requests |->
                         IF p = r \/ p \in ActiveIn(a)
                         THEN {r} \cup UNION {burst[u] : u \in ActiveIn(a)} ELSE burst[p]]
    BY <1>1 DEF Authenticate
  <2> DEFINE together == {r} \cup UNION {burst[u] : u \in ActiveIn(a)}
  <2>2. burst[r] = {r} /\ r \in together
    BY <1>1 DEF Authenticate, BurstsAgree
  <2>3. q \in ActiveIn(a) => burst[q] \subseteq together
    OBVIOUS
  <2>4. burst'[q] = IF q = r \/ q \in ActiveIn(a) THEN together ELSE burst[q]
    BY <2>1
  <2> HIDE DEF together
  <2> QED
    BY <1>1, <2>2, <2>3, <2>4
<1>2. CASE ServicesFail(r)
  BY <1>2 DEF ServicesFail, locals, Active
<1>3. CASE Step(r)
  BY <1>3 DEF Step, StartSession, AssignResp, ReadSessionId, SetSessionId, SetVariableName,
              SetDataObject, SerialiseForDigest, SerialiseForSignature, PostUpdate, GenerateToken,
              HandOverToAcm, HandOverToIdp, GivesUp, CallFails, locals, Active
<1> QED
  BY <1>1, <1>2, <1>3 DEF Act

LEMMA BurstsAgreeStep ==
    ASSUME TypeOK, BurstsAgree, NEW r \in Requests, Act(r)
    PROVE  BurstsAgree'
<1> USE DEF TypeOK
<1>1. CASE Authenticate(r)
  <2>1. PICK a \in Authenticators :
            /\ auth' = [auth EXCEPT ![r] = a]
            /\ burst' = [p \in Requests |->
                            IF p = r \/ p \in ActiveIn(a)
                            THEN {r} \cup UNION {burst[u] : u \in ActiveIn(a)} ELSE burst[p]]
    BY <1>1 DEF Authenticate
  <2>2. pc' = [pc EXCEPT ![r] = "startSession"] /\ ~Active(r)
    BY <1>1 DEF Authenticate, Active
  <2>3. ASSUME NEW q \in Requests PROVE q \in burst'[q] /\ (pc'[q] = "idle" => burst'[q] = {q})
    <3>1. q \in burst'[q]
      BY BurstsGrow DEF BurstsAgree
    <3>2. ASSUME pc'[q] = "idle" PROVE burst'[q] = {q}
      <4>1. q # r /\ pc[q] = "idle"
        BY <2>2, <3>2
      <4>2. q \notin ActiveIn(a)
        BY <4>1 DEF ActiveIn, Active
      <4> QED
        BY <2>1, <4>1, <4>2 DEF BurstsAgree
    <3> QED
      BY <3>1, <3>2
  <2>4. ASSUME NEW q \in Requests, Active(q)'
        PROVE  (auth'[q] = a) <=> (q = r \/ q \in ActiveIn(a))
    <3>1. CASE q = r
      BY <2>1, <3>1
    <3>2. CASE q # r
      <4>1. auth'[q] = auth[q] /\ Active(q)
        BY <2>1, <2>2, <2>4, <3>2 DEF Active
      <4> QED
        BY <3>2, <4>1 DEF ActiveIn
    <3> QED
      BY <3>1, <3>2
  <2>5. ASSUME NEW p \in Requests, NEW q \in Requests, Active(p)', Active(q)', auth'[p] = auth'[q]
        PROVE  burst'[p] = burst'[q]
    <3>1. CASE auth'[p] = a
      BY <2>1, <2>4, <2>5, <3>1
    <3>2. CASE auth'[p] # a
      <4>1. p # r /\ q # r /\ p \notin ActiveIn(a) /\ q \notin ActiveIn(a)
        BY <2>4, <2>5, <3>2
      <4>2. burst'[p] = burst[p] /\ burst'[q] = burst[q]
        BY <2>1, <4>1
      <4>3. Active(p) /\ Active(q) /\ auth[p] = auth[q]
        BY <2>1, <2>2, <2>5, <4>1 DEF Active
      <4> QED
        BY <4>2, <4>3 DEF BurstsAgree
    <3> QED
      BY <3>1, <3>2
  <2> QED
    BY <2>3, <2>5 DEF BurstsAgree
<1>2. CASE ~Authenticate(r)
  <2>1. burst' = burst /\ auth' = auth /\ \A q \in Requests : Active(q)' => Active(q)
    BY <1>2, BurstsGrow
  <2>2. \A q \in Requests : pc'[q] = "idle" => pc[q] = "idle"
    BY <1>2 DEF Act, Step, ServicesFail, StartSession, AssignResp, ReadSessionId, SetSessionId,
       SetVariableName, SetDataObject, SerialiseForDigest, SerialiseForSignature, PostUpdate,
       GenerateToken, HandOverToAcm, HandOverToIdp, GivesUp, CallFails
  <2> QED
    BY <2>1, <2>2 DEF BurstsAgree
<1> QED
  BY <1>1, <1>2

(* What a login of burst B may hold of session s: B's logins opened it. *)
FromBurst(s, B) == s \in SessionIds /\ owner[s] \in B

LEMMA FromBurstStays ==
    ASSUME BurstInv, NEW r \in Requests, Act(r), NEW q \in Requests, NEW s,
           FromBurst(s, burst[q])
    PROVE  s \in SessionIds /\ owner'[s] \in burst'[q]
<1> USE DEF BurstInv
<1>1. s \in SessionIds /\ owner[s] \in Requests
  BY DEF FromBurst, TypeOK
<1>2. owner'[s] = owner[s]
  BY <1>1, OwnersAndMarksStay, SpRequestAssumption DEF Act, Next
<1> QED
  BY <1>1, <1>2, BurstsGrow DEF FromBurst

(* What a step puts into the shared fields of an authenticator, it takes    *)
(* from the burst of the login that steps.                                  *)
LEMMA WritesFromBurst ==
    ASSUME BurstInv, NEW r \in Requests, Act(r), NEW a \in Authenticators,
           resp'[a] # resp[a] \/ updateDR'[a] # updateDR[a]
    PROVE  /\ Active(r) /\ auth[r] = a /\ ~Authenticate(r) /\ owner' = owner
           /\ resp'[a] # resp[a] =>
                /\ resp'[a].sessionData # None => FromBurst(resp'[a].sessionData, burst[r])
                /\ resp'[a].additionalData # None => FromBurst(resp'[a].additionalData, burst[r])
           /\ updateDR'[a].sessionId = updateDR[a].sessionId
                \/ FromBurst(updateDR'[a].sessionId, burst[r])
           /\ \/ updateDR'[a].dataObject = updateDR[a].dataObject
              \/ updateDR'[a].dataObject.of \in burst[r]
<1> USE DEF BurstInv
<1>1. Active(r) /\ auth[r] = a /\ ~Authenticate(r)
  <2>1. Active(r) /\ auth[r] = a
    BY FieldsChangeByOwnLogins
  <2> QED
    BY <2>1 DEF Active, Authenticate
<1>2. r \in burst[r] /\ (sid[r] # None => FromBurst(sid[r], burst[r]))
  BY DEF BurstsAgree, TakesFromItsBurst, FromBurst, TypeOK
<1>3. AssignResp(r) \/ SetSessionId(r) \/ SetVariableName(r) \/ SetDataObject(r)
  BY <1>1 DEF Act, Step, Active, ServicesFail, StartSession,
     ReadSessionId, SerialiseForDigest, SerialiseForSignature, PostUpdate, GenerateToken,
     HandOverToAcm, HandOverToIdp, GivesUp, CallFails, shared
<1>4. CASE AssignResp(r)
  <2>1. resp'[a] = reply[r] /\ updateDR' = updateDR /\ owner' = owner
    BY <1>1, <1>4 DEF AssignResp, manager, TypeOK
  <2>2. reply[r].sessionData # None => FromBurst(reply[r].sessionData, burst[r])
    BY <1>2, RecordTypes DEF SessionsAreTraced, Traced, FromBurst, TypeOK
  <2>3. reply[r].additionalData # None => FromBurst(reply[r].additionalData, burst[r])
    BY <1>2 DEF SessionsAreTraced, Traced
  <2> QED
    BY <1>1, <2>1, <2>2, <2>3
<1>5. CASE SetSessionId(r) \/ SetVariableName(r) \/ SetDataObject(r)
  <2>1. owner' = owner /\ resp' = resp
    BY <1>5 DEF SetSessionId, SetVariableName, SetDataObject, manager
  <2>2. \/ updateDR'[a].sessionId = updateDR[a].sessionId
        \/ updateDR'[a].sessionId = sid[r] /\ sid[r] # None
    BY <1>1, <1>5 DEF SetSessionId, SetVariableName, SetDataObject, TypeOK, UpdateRequests,
       ControlOK, Control, Updating
  <2>3. \/ updateDR'[a].dataObject = updateDR[a].dataObject
        \/ updateDR'[a].dataObject = Payload(r, Variable[round[r]]) /\ pc[r] = "setDataObject"
    BY <1>1, <1>5 DEF SetSessionId, SetVariableName, SetDataObject, TypeOK, UpdateRequests
  <2>4. ASSUME pc[r] = "setDataObject"
        PROVE  Payload(r, Variable[round[r]]).of = r
    BY DEF Payload
  <2> QED
    BY <1>1, <1>2, <2>1, <2>2, <2>3, <2>4
<1> QED
  BY <1>3, <1>4, <1>5

LEMMA FieldsOfBurstStep ==
    ASSUME BurstInv, NEW r \in Requests, Act(r), NEW q \in Requests
    PROVE  FieldsOfBurst(q)'
<1> USE DEF BurstInv
<1>g. burst[q] \subseteq burst'[q]
  BY BurstsGrow
<1>s. \A s : FromBurst(s, burst[q]) => owner'[s] \in burst'[q]
  BY FromBurstStays
<1>f. /\ pc[q] = "readSession" /\ resp[auth[q]].sessionData # None =>
           FromBurst(resp[auth[q]].sessionData, burst[q])
      /\ pc[q] = "readToken" /\ resp[auth[q]].additionalData # None =>
           FromBurst(resp[auth[q]].additionalData, burst[q])
      /\ pc[q] \in {"setVariableName", "setDataObject", "digest", "sign", "post"} =>
           FromBurst(updateDR[auth[q]].sessionId, burst[q])
      /\ pc[q] \in {"digest", "sign", "post"} => updateDR[auth[q]].dataObject.of \in burst[q]
  <2>1. pc[q] \notin {"idle", "aborted"} => auth[q] \in Authenticators
    BY DEF TypeOK, ControlOK, Control
  <2>2. pc[q] \notin {"idle", "aborted"} => resp[auth[q]] \in Responses
    BY <2>1 DEF TypeOK
  <2> QED
    BY <2>2, RecordTypes DEF FieldsOfBurst, FromBurst, SessionsAreTraced, Traced, Mine
<1>1. CASE q # r
  <2>1. pc'[q] = pc[q] /\ auth'[q] = auth[q]
    BY <1>1, OthersKeepLocals DEF BurstInv
  <2>2. SUFFICES ASSUME pc[q] \in {"readSession", "readToken", "setVariableName", "setDataObject",
                                   "digest", "sign", "post"}
                 PROVE  FieldsOfBurst(q)'
    BY <2>1 DEF FieldsOfBurst
  <2>3. Active(q) /\ auth[q] \in Authenticators
    BY <2>2 DEF Active, TypeOK, ControlOK, Control
  <2>4. CASE resp'[auth[q]] = resp[auth[q]] /\ updateDR'[auth[q]] = updateDR[auth[q]]
    BY <1>f, <1>s, <1>g, <2>1, <2>4 DEF FieldsOfBurst, FromBurst
  <2>5. CASE resp'[auth[q]] # resp[auth[q]] \/ updateDR'[auth[q]] # updateDR[auth[q]]
    <3>1. /\ Active(r) /\ auth[r] = auth[q] /\ ~Authenticate(r) /\ owner' = owner
          /\ resp'[auth[q]] # resp[auth[q]] =>
               /\ resp'[auth[q]].sessionData # None =>
                    FromBurst(resp'[auth[q]].sessionData, burst[r])
               /\ resp'[auth[q]].additionalData # None =>
                    FromBurst(resp'[auth[q]].additionalData, burst[r])
          /\ updateDR'[auth[q]].sessionId = updateDR[auth[q]].sessionId
               \/ FromBurst(updateDR'[auth[q]].sessionId, burst[r])
          /\ \/ updateDR'[auth[q]].dataObject = updateDR[auth[q]].dataObject
             \/ updateDR'[auth[q]].dataObject.of \in burst[r]
      BY <2>3, <2>5, WritesFromBurst
    <3>2. burst[r] = burst[q] /\ burst' = burst
      BY <2>3, <3>1, BurstsGrow DEF BurstsAgree
    <3> QED
      BY <1>f, <2>1, <3>1, <3>2 DEF FieldsOfBurst, FromBurst
  <2> QED
    BY <2>4, <2>5
<1>2. CASE q = r
  <2>1. CASE AssignResp(q)
    <3>1. /\ auth'[q] = auth[q] /\ owner' = owner
          /\ pc'[q] \in {"readSession", "setSessionId", "generateToken", "handOver", "readToken"}
      BY <2>1 DEF AssignResp, manager, TypeOK
    <3>2. auth[q] \in Authenticators /\ resp'[auth[q]] = reply[q] /\ burst' = burst
      <4>1. auth[q] \in Authenticators /\ ~Authenticate(q)
        BY <2>1 DEF AssignResp, Authenticate, TypeOK, ControlOK, Control
      <4> QED
        BY <1>2, <2>1, <4>1, BurstsGrow DEF AssignResp, TypeOK
    <3>3. reply[q].sessionData # None => owner[reply[q].sessionData] \in burst[q]
      BY DEF SessionsAreTraced, Traced, BurstsAgree
    <3>4. reply[q].additionalData # None => owner[reply[q].additionalData] \in burst[q]
      BY SpRequestAssumption DEF SessionsAreTraced, Traced, TakesFromItsBurst, Mine
    <3> QED
      BY <3>1, <3>2, <3>3, <3>4 DEF FieldsOfBurst
  <2>2. CASE SetSessionId(q) \/ SetVariableName(q) \/ SetDataObject(q)
    <3>1. /\ auth'[q] = auth[q] /\ owner' = owner /\ auth[q] \in Authenticators /\ ~Authenticate(q)
          /\ sid[q] # None
      BY <2>2 DEF SetSessionId, SetVariableName, SetDataObject, Authenticate, locals, manager,
                  TypeOK, ControlOK, Control, Updating
    <3>2. burst' = burst
      BY <1>2, <3>1, BurstsGrow
    <3>3. updateDR[auth[q]] \in UpdateRequests
      BY <3>1 DEF TypeOK
    <3>4. CASE SetSessionId(q)
      <4>1. pc'[q] = "setVariableName" /\ updateDR'[auth[q]].sessionId = sid[q]
        BY <3>1, <3>3, <3>4 DEF SetSessionId, TypeOK, UpdateRequests
      <4> QED
        BY <3>1, <3>2, <4>1 DEF FieldsOfBurst, TakesFromItsBurst
    <3>5. CASE SetVariableName(q)
      <4>1. /\ pc[q] = "setVariableName" /\ pc'[q] = "setDataObject"
            /\ updateDR'[auth[q]].sessionId = updateDR[auth[q]].sessionId
        BY <3>1, <3>3, <3>5 DEF SetVariableName, TypeOK, UpdateRequests
      <4> QED
        BY <1>f, <3>1, <3>2, <4>1 DEF FieldsOfBurst, FromBurst
    <3>6. CASE SetDataObject(q)
      <4>1. /\ pc[q] = "setDataObject" /\ pc'[q] = "digest"
            /\ updateDR'[auth[q]].sessionId = updateDR[auth[q]].sessionId
            /\ updateDR'[auth[q]].dataObject = Payload(q, Variable[round[q]])
        BY <3>1, <3>3, <3>6 DEF SetDataObject, TypeOK, UpdateRequests
      <4>2. Payload(q, Variable[round[q]]).of = q
        BY DEF Payload
      <4> QED
        BY <1>f, <3>1, <3>2, <4>1, <4>2 DEF FieldsOfBurst, FromBurst, BurstsAgree
    <3> QED
      BY <2>2, <3>4, <3>5, <3>6
  <2>3. CASE SerialiseForDigest(q) \/ SerialiseForSignature(q)
    <3>1. /\ pc[q] \in {"digest", "sign"} /\ pc'[q] \in {"sign", "post"}
          /\ auth'[q] = auth[q] /\ updateDR' = updateDR
      BY <2>3 DEF SerialiseForDigest, SerialiseForSignature, shared, TypeOK
    <3> QED
      BY <1>f, <1>s, <1>g, <3>1 DEF FieldsOfBurst, FromBurst
  <2>4. CASE \/ Authenticate(q) \/ ServicesFail(q) \/ StartSession(q) \/ ReadSessionId(q)
             \/ PostUpdate(q) \/ GenerateToken(q) \/ HandOverToAcm(q) \/ HandOverToIdp(q)
             \/ GivesUp(q) \/ CallFails(q)
    <3>1. pc'[q] \notin {"readSession", "readToken", "setVariableName", "setDataObject",
                         "digest", "sign", "post"}
      BY <2>4 DEF Authenticate, ServicesFail, StartSession, ReadSessionId, PostUpdate, GenerateToken,
                  HandOverToAcm, HandOverToIdp, GivesUp, CallFails, TypeOK
    <3> QED
      BY <3>1 DEF FieldsOfBurst
  <2> QED
    BY <1>2, <2>1, <2>2, <2>3, <2>4 DEF Act, Step
<1> QED
  BY <1>1, <1>2

LEMMA TakesStep ==
    ASSUME BurstInv, NEW r \in Requests, Act(r)
    PROVE  TakesFromItsBurst'
<1> USE DEF BurstInv
<1>n. [Next]_vars
  BY DEF Act, Next
<1>t. TypeOK'
  BY <1>n, TypeStep
<1>g. \A q \in Requests : burst[q] \subseteq burst'[q]
  BY BurstsGrow
<1>s. \A q \in Requests, s \in SessionIds : owner[s] \in burst[q] => owner'[s] \in burst'[q]
  <2>1. ASSUME NEW q \in Requests, NEW s \in SessionIds, owner[s] \in burst[q]
        PROVE  owner'[s] \in burst'[q]
    <3>1. FromBurst(s, burst[q])
      BY <2>1 DEF FromBurst
    <3> QED
      BY <3>1, FromBurstStays
  <2> QED
    BY <2>1
<1>a. \A q \in Requests : pc[q] \notin {"idle", "aborted"} => auth[q] \in Authenticators
  BY DEF TypeOK, ControlOK, Control
<1>1. ASSUME NEW q \in Requests, sid'[q] # None PROVE owner'[sid'[q]] \in burst'[q]
  <2>1. sid'[q] \in SessionIds
    BY <1>1, <1>t DEF TypeOK
  <2>2. CASE sid'[q] = sid[q]
    BY <1>1, <1>s, <2>1, <2>2 DEF TakesFromItsBurst
  <2>3. CASE sid'[q] # sid[q]
    <3>1. q = r
      BY <2>3, OthersKeepLocals
    <3>2. ReadSessionId(q)
      BY <2>3, <3>1 DEF Act, Step, Authenticate, ServicesFail, StartSession, AssignResp, SetSessionId,
         SetVariableName, SetDataObject, SerialiseForDigest, SerialiseForSignature, PostUpdate,
         GenerateToken, HandOverToAcm, HandOverToIdp, GivesUp, CallFails, locals
    <3>3. sid'[q] = resp[auth[q]].sessionData /\ pc[q] = "readSession"
      BY <2>3, <3>2 DEF ReadSessionId, TypeOK
    <3>4. owner[sid'[q]] \in burst[q]
      BY <1>1, <3>3 DEF FieldsOfBurst
    <3> QED
      BY <1>s, <2>1, <3>4
  <2> QED
    BY <2>2, <2>3
<1>2. ASSUME NEW q \in Requests, notes'[q].token # None PROVE owner'[notes'[q].token] \in burst'[q]
  <2>1. notes'[q].token \in SessionIds
    BY <1>2, <1>t DEF TypeOK, Notes
  <2>2. CASE notes'[q] = notes[q]
    BY <1>2, <1>s, <2>1, <2>2 DEF TakesFromItsBurst
  <2>3. CASE notes'[q] # notes[q]
    <3>1. q = r
      BY <2>3, OthersKeepLocals
    <3>2. HandOverToAcm(q)
      BY <1>2, <2>3, <3>1 DEF Act, Step, Authenticate, ServicesFail, StartSession, AssignResp,
         ReadSessionId, SetSessionId, SetVariableName, SetDataObject, SerialiseForDigest,
         SerialiseForSignature, PostUpdate, GenerateToken, HandOverToIdp, GivesUp, CallFails,
         locals, Note, TypeOK
    <3>3. notes'[q].token = resp[auth[q]].additionalData /\ pc[q] = "readToken"
      BY <3>2 DEF HandOverToAcm, Note, TypeOK
    <3>4. owner[notes'[q].token] \in burst[q]
      BY <1>2, <3>3 DEF FieldsOfBurst
    <3> QED
      BY <1>s, <2>1, <3>4
  <2> QED
    BY <2>2, <2>3
<1>3. ASSUME NEW s \in SessionIds, NEW v \in Variables, store'[s][v] # None
      PROVE  \E q \in Requests : {owner'[s], store'[s][v].of} \subseteq burst'[q]
  <2>1. ASSUME NEW q \in Requests, owner[s] \in burst[q], store'[s][v].of \in burst[q]
        PROVE  \E p \in Requests : {owner'[s], store'[s][v].of} \subseteq burst'[p]
    <3>1. owner'[s] \in burst'[q] /\ store'[s][v].of \in burst'[q]
      BY <1>s, <1>g, <2>1
    <3> QED
      BY <3>1
  <2>2. CASE store'[s][v] = store[s][v]
    <3>1. PICK q \in Requests : {owner[s], store[s][v].of} \subseteq burst[q]
      BY <1>3, <2>2 DEF TakesFromItsBurst
    <3>2. owner[s] \in burst[q] /\ store'[s][v].of \in burst[q]
      BY <2>2, <3>1
    <3> QED
      BY <2>1, <3>2
  <2>3. CASE store'[s][v] # store[s][v]
    <3>1. PostUpdate(r) /\ s = updateDR[auth[r]].sessionId
      BY <2>3, PostsReachOnlyMine
    <3>2. store'[s][v] = updateDR[auth[r]].dataObject
      <4> DEFINE body == updateDR[auth[r]]
      <4>1. store'[s] = [store[s] EXCEPT ![body.variableName] = body.dataObject]
        BY <2>3, <3>1 DEF PostUpdate, TypeOK
      <4>2. store[s] \in [Variables -> Payloads \cup {None}]
        BY DEF TypeOK
      <4> QED
        BY <2>3, <4>1, <4>2
    <3>3. owner[s] \in burst[r] /\ store'[s][v].of \in burst[r]
      BY <3>1, <3>2 DEF PostUpdate, FieldsOfBurst
    <3> QED
      BY <2>1, <3>3
  <2> QED
    BY <2>2, <2>3
<1> QED
  BY <1>1, <1>2, <1>3 DEF TakesFromItsBurst

LEMMA BurstInit == Init => BurstInv
<1> SUFFICES ASSUME Init PROVE BurstInv
  OBVIOUS
<1>1. TypeOK /\ ControlOK /\ SessionsAreTraced
  BY IsolationInit DEF IsolationInv
<1>2. BurstsAgree /\ \A r \in Requests : FieldsOfBurst(r)
  BY DEF Init, BurstsAgree, FieldsOfBurst, Active
<1>3. TakesFromItsBurst
  BY DEF Init, TakesFromItsBurst, Note
<1> QED
  BY <1>1, <1>2, <1>3 DEF BurstInv

LEMMA BurstStep == IsolationInv /\ BurstInv /\ [Next]_vars => BurstInv'
<1> SUFFICES ASSUME IsolationInv, BurstInv, [Next]_vars PROVE BurstInv'
  OBVIOUS
<1>1. TypeOK' /\ ControlOK' /\ SessionsAreTraced'
  BY IsolationStep DEF IsolationInv
<1>2. ASSUME NEW r \in Requests, Act(r) PROVE BurstInv'
  <2>1. BurstsAgree'
    BY <1>2, BurstsAgreeStep DEF BurstInv
  <2>2. ASSUME NEW q \in Requests PROVE FieldsOfBurst(q)'
    BY <1>2, FieldsOfBurstStep
  <2>3. TakesFromItsBurst'
    BY <1>2, TakesStep
  <2> QED
    BY <1>1, <2>1, <2>2, <2>3 DEF BurstInv
<1>3. CASE UNCHANGED vars
  BY <1>1, <1>3 DEF vars, locals, shared, manager, BurstInv, BurstsAgree, FieldsOfBurst,
                    TakesFromItsBurst, Active
<1> QED
  BY <1>2, <1>3, NextIsAct

(* The inductive invariant: the logins that are in an authenticator at the  *)
(* same time are in one burst, and all that such a login is about to read   *)
(* from the fields they share was put there by a login of that burst.       *)
THEOREM BurstInvariant == Spec => []BurstInv
<1> QED
  BY BurstInit, BurstStep, IsolationInit, IsolationStep, PTL DEF Spec

(* However many logins overlap in an authenticator, what one of them takes  *)
(* over comes from a login of its burst: the fields that a burst leaves     *)
(* behind in the SINGLETON reach nobody who comes after it.                 *)
THEOREM TakesFromBurst == Spec => []TakesFromItsBurst
<1>1. BurstInv => TakesFromItsBurst
  BY DEF BurstInv
<1> QED
  BY <1>1, BurstInvariant, PTL
=============================================================================
