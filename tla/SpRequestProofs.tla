--------------------------- MODULE SpRequestProofs ---------------------------
(* Proofs about SpRequest, for any number of logins, sessions and workers. *)
EXTENDS SpRequestInvariant, TLAPS

(* The session variables are named, and named differently. *)
LEMMA VariableNames ==
    /\ \A i \in 1..4 : Variable[i] \in Variables
    /\ \A i, j \in 1..Documents + 1 : i # j => Variable[i] # Variable[j]
    /\ \A r \in Requests : Rounds(r) \in 1..Documents + 1
    /\ 1..Documents + 1 \subseteq 1..4
    /\ Documents \in 1..3
<1>1. Documents \in 1..3
  BY SpRequestAssumption
<1>2. \A i \in 1..4 : Variable[i] = IF i > Documents THEN "SP_ORIGIN"
                                    ELSE <<"spRequest", "spMetadata", "spDetails">>[i]
  BY DEF Variable
<1>3. Variable[1] = "spRequest" /\ Variable[4] = "SP_ORIGIN"
  BY <1>1, <1>2
<1>4. Variable[2] = IF Documents = 1 THEN "SP_ORIGIN" ELSE "spMetadata"
  BY <1>1, <1>2
<1>5. Variable[3] = IF Documents = 3 THEN "spDetails" ELSE "SP_ORIGIN"
  BY <1>1, <1>2
<1>6. \A i \in 1..4 : i = 1 \/ i = 2 \/ i = 3 \/ i = 4
  OBVIOUS
<1>7. \A i \in 1..4 : Variable[i] \in Variables
  BY <1>3, <1>4, <1>5, <1>6 DEF Variables
<1>8. \A i, j \in 1..Documents + 1 : i # j => Variable[i] # Variable[j]
  <2>1. CASE Documents = 1
    BY <2>1, <1>3, <1>4
  <2>2. CASE Documents = 2
    BY <2>2, <1>3, <1>4, <1>5
  <2>3. CASE Documents = 3
    BY <2>3, <1>3, <1>4, <1>5
  <2> QED
    BY <2>1, <2>2, <2>3, <1>1
<1>9. \A r \in Requests : Rounds(r) \in 1..Documents + 1
  BY <1>1 DEF Rounds
<1> QED
  BY <1>1, <1>7, <1>8, <1>9

(* The records the model builds are of their types. *)
LEMMA RecordTypes ==
    /\ \A s, t \in SessionIds \cup {None} : Response(s, t) \in Responses
    /\ Empty \in Responses
    /\ \A x \in Responses :
        x.sessionData \in SessionIds \cup {None} /\ x.additionalData \in SessionIds \cup {None}
    /\ \A r \in Requests, v \in Variables : Payload(r, v) \in Payloads
    /\ \A u \in UpdateRequests :
        /\ u.sessionId \in SessionIds \cup {None}
        /\ u.variableName \in Variables \cup {None}
        /\ u.dataObject \in Payloads \cup {None}
    /\ NewUpdateRequest \in UpdateRequests
    /\ Unsigned \in [digest : UpdateRequests, signature : UpdateRequests]
BY DEF Response, Responses, Empty, Payload, Payloads, UpdateRequests, NewUpdateRequest, Unsigned

-----------------------------------------------------------------------------
(* Types, and what the place of control implies. *)

USE DEF Assigning, Calling, Goto, Publish, LastRound, NextRound, Set, Digest, Token, history

LEMMA TypeInit == Init => TypeOK /\ ControlOK
<1> SUFFICES ASSUME Init PROVE TypeOK /\ ControlOK
  OBVIOUS
<1>1. TypeOK
  BY DEF Init, TypeOK, Labels, Responses, UpdateRequests, NewUpdateRequest, Unsigned,
         Notes, Note, Empty, Response
<1>2. ControlOK
  BY DEF Init, ControlOK, Control, HandedOver, Updating, Finishing
<1> QED
  BY <1>1, <1>2

LEMMA TypeStep == TypeOK /\ ControlOK /\ [Next]_vars => TypeOK'
<1> SUFFICES ASSUME TypeOK, ControlOK, [Next]_vars PROVE TypeOK'
  OBVIOUS
<1>a. \A r \in Requests : pc[r] \notin {"idle", "aborted"} => auth[r] \in Authenticators
  BY DEF TypeOK, ControlOK, Control
<1> USE DEF TypeOK
<1>1. ASSUME NEW r \in Requests, Authenticate(r) PROVE TypeOK'
  <2>1. UNCHANGED <<sid, round, reply, signed, notes, resp, updateDR, owner, store, refused>>
        /\ pc' \in [Requests -> Labels]
    BY <1>1 DEF Authenticate, Labels, shared, manager
  <2>2. auth' \in [Requests -> Authenticators \cup {None}] /\ realm' \in [Requests -> Realms \cup {None}]
        /\ overlapped' \in [Requests -> BOOLEAN]
    BY <1>1 DEF Authenticate
  <2>3. burst' \in [Requests -> SUBSET Requests]
    <3>1. PICK a \in Authenticators :
              LET together == {r} \cup UNION {burst[q] : q \in ActiveIn(a)}
              IN burst' = [q \in Requests |->
                              IF q = r \/ q \in ActiveIn(a) THEN together ELSE burst[q]]
      BY <1>1 DEF Authenticate
    <3>2. ActiveIn(a) \subseteq Requests
      BY DEF ActiveIn
    <3>3. {r} \cup UNION {burst[q] : q \in ActiveIn(a)} \in SUBSET Requests
      BY <3>2
    <3> QED
      BY <3>1, <3>3
  <2> QED
    BY <2>1, <2>2, <2>3
<1>2. ASSUME NEW r \in Requests, ServicesFail(r) PROVE TypeOK'
  BY <1>2 DEF ServicesFail, Labels, locals, shared, manager
<1>3. ASSUME NEW r \in Requests, StartSession(r) PROVE TypeOK'
  <2>1. reply' \in [Requests -> Responses] /\ owner' \in [SessionIds -> Requests \cup {None}]
    <3>1. CASE reply' = [reply EXCEPT ![r] = Empty] /\ UNCHANGED owner
      BY <3>1, RecordTypes
    <3>2. ASSUME NEW s \in SessionIds,
                 owner' = [owner EXCEPT ![s] = r],
                 reply' = [reply EXCEPT ![r] = Response(s, None)]
          PROVE  reply' \in [Requests -> Responses] /\ owner' \in [SessionIds -> Requests \cup {None}]
      BY <3>2, RecordTypes
    <3>3. CASE UNCHANGED <<reply, owner>>
      BY <3>3
    <3> QED
      BY <3>1, <3>2, <3>3, <1>3 DEF StartSession
  <2>2. pc' \in [Requests -> Labels]
    BY <1>3 DEF StartSession, Labels
  <2> QED
    BY <2>1, <2>2, <1>3 DEF StartSession, shared
<1>4. ASSUME NEW r \in Requests, AssignResp(r) PROVE TypeOK'
  <2>1. pc' \in [Requests -> Labels]
    <3>1. pc \in [Requests -> Labels]
      OBVIOUS
    <3>2. \E label \in Labels : pc' = [pc EXCEPT ![r] = label]
      <4> HIDE DEF TypeOK
      <4> QED
        BY <1>4 DEF AssignResp, Labels
    <3> HIDE DEF TypeOK
    <3> QED
      BY <3>1, <3>2
  <2>2. round' \in [Requests -> 0..4]
    <3>1. pc[r] = "assignUpdate" => round[r] \in 1..Rounds(r) /\ Rounds(r) \in 1..4
      BY VariableNames DEF ControlOK, Control, Updating
    <3>2. pc[r] = "assignUpdate" /\ round[r] # Rounds(r) => round[r] + 1 \in 0..4
      <4> HIDE DEF TypeOK
      <4> QED
        BY <3>1
    <3> QED
      BY <1>4, <3>2 DEF AssignResp
  <2>3. resp' \in [Authenticators -> Responses] /\ reply' \in [Requests -> Responses]
    BY <1>4, RecordTypes DEF AssignResp
  <2> QED
    BY <2>1, <2>2, <2>3, <1>4 DEF AssignResp, manager
<1>5. ASSUME NEW r \in Requests, ReadSessionId(r) PROVE TypeOK'
  <2>1. auth[r] \in Authenticators
    BY <1>a, <1>5 DEF ReadSessionId
  <2>2. resp[auth[r]].sessionData \in SessionIds \cup {None}
    BY <2>1, RecordTypes
  <2>3. pc' \in [Requests -> Labels] /\ sid' \in [Requests -> SessionIds \cup {None}]
        /\ round' \in [Requests -> 0..4]
    <3>1. CASE resp[auth[r]].sessionData = None
      BY <3>1, <1>5 DEF ReadSessionId, Labels
    <3>2. CASE resp[auth[r]].sessionData # None
      <4>1. pc' = [pc EXCEPT ![r] = "setSessionId"] /\ round' = [round EXCEPT ![r] = 1]
            /\ sid' = [sid EXCEPT ![r] = resp[auth[r]].sessionData]
        BY <3>2, <1>5 DEF ReadSessionId
      <4> QED
        BY <4>1, <2>2 DEF Labels
    <3> QED
      BY <3>1, <3>2
  <2> QED
    BY <2>3, <1>5 DEF ReadSessionId, shared, manager
<1>6. ASSUME NEW r \in Requests, SetSessionId(r) PROVE TypeOK'
  <2>1. auth[r] \in Authenticators /\ sid[r] \in SessionIds \cup {None}
    BY <1>a, <1>6 DEF SetSessionId
  <2>2. updateDR[auth[r]] \in UpdateRequests
    BY <2>1
  <2>3. [updateDR[auth[r]] EXCEPT !.sessionId = sid[r]] \in UpdateRequests
    BY <2>1, <2>2 DEF UpdateRequests
  <2>4. updateDR' \in [Authenticators -> UpdateRequests]
    BY <2>3, <1>6 DEF SetSessionId
  <2>5. pc' \in [Requests -> Labels]
    BY <1>6 DEF SetSessionId, Labels
  <2> QED
    BY <2>4, <2>5, <1>6 DEF SetSessionId, locals, manager
<1>7. ASSUME NEW r \in Requests, SetVariableName(r) PROVE TypeOK'
  <2>1. auth[r] \in Authenticators /\ Variable[round[r]] \in Variables
    <3>1. round[r] \in 1..4
      BY <1>7, VariableNames DEF SetVariableName, ControlOK, Control, Updating
    <3> QED
      BY <3>1, <1>7, VariableNames DEF SetVariableName, ControlOK, Control
  <2>2. updateDR' \in [Authenticators -> UpdateRequests]
    <3>1. updateDR[auth[r]] \in UpdateRequests
      BY <2>1
    <3>2. [updateDR[auth[r]] EXCEPT !.variableName = Variable[round[r]]] \in UpdateRequests
      BY <2>1, <3>1 DEF UpdateRequests
    <3> QED
      BY <3>2, <1>7 DEF SetVariableName
  <2>3. pc' \in [Requests -> Labels]
    BY <1>7 DEF SetVariableName, Labels
  <2> QED
    BY <2>2, <2>3, <1>7 DEF SetVariableName, locals, manager
<1>8. ASSUME NEW r \in Requests, SetDataObject(r) PROVE TypeOK'
  <2>1. auth[r] \in Authenticators /\ Variable[round[r]] \in Variables
    <3>1. round[r] \in 1..4
      BY <1>8, VariableNames DEF SetDataObject, ControlOK, Control, Updating
    <3> QED
      BY <3>1, <1>8, VariableNames DEF SetDataObject, ControlOK, Control
  <2>2. updateDR' \in [Authenticators -> UpdateRequests]
    <3>1. updateDR[auth[r]] \in UpdateRequests /\ Payload(r, Variable[round[r]]) \in Payloads
      BY <2>1, RecordTypes
    <3>2. [updateDR[auth[r]] EXCEPT !.dataObject = Payload(r, Variable[round[r]])]
              \in UpdateRequests
      BY <3>1 DEF UpdateRequests
    <3> QED
      BY <3>2, <1>8 DEF SetDataObject
  <2>3. pc' \in [Requests -> Labels]
    BY <1>8 DEF SetDataObject, Labels
  <2> QED
    BY <2>2, <2>3, <1>8 DEF SetDataObject, locals, manager
<1>9. ASSUME NEW r \in Requests, SerialiseForDigest(r) PROVE TypeOK'
  BY <1>a, <1>9 DEF SerialiseForDigest, Labels, shared, manager
<1>10. ASSUME NEW r \in Requests, SerialiseForSignature(r) PROVE TypeOK'
  BY <1>a, <1>10 DEF SerialiseForSignature, Labels, shared, manager
<1>11. ASSUME NEW r \in Requests, PostUpdate(r) PROVE TypeOK'
  <2>1. updateDR[auth[r]] \in UpdateRequests /\ Variable[round[r]] \in Variables
    <3>1. round[r] \in 1..4 /\ auth[r] \in Authenticators
      BY <1>11, VariableNames DEF PostUpdate, ControlOK, Control, Updating
    <3> QED
      BY <3>1, VariableNames
  <2>2. store' \in [SessionIds -> [Variables -> Payloads \cup {None}]]
    <3> DEFINE body == updateDR[auth[r]]
               blank == [store[body.sessionId] EXCEPT ![body.variableName] = body.dataObject]
    <3>1. body.dataObject \in Payloads \cup {None} /\ body.sessionId \in SessionIds \cup {None}
      BY <2>1, RecordTypes
    <3>2. CASE store' = [store EXCEPT ![body.sessionId] = blank]
      <4>1. CASE body.sessionId = None
        <5>1. body.sessionId \notin SessionIds
          BY <4>1, SpRequestAssumption
        <5> HIDE DEF blank
        <5> QED
          BY <3>2, <5>1
      <4>2. CASE body.sessionId \in SessionIds
        <5>1. store[body.sessionId] \in [Variables -> Payloads \cup {None}]
          BY <4>2
        <5>2. blank \in [Variables -> Payloads \cup {None}]
          BY <5>1, <3>1
        <5> HIDE DEF blank
        <5> QED
          BY <3>2, <5>2
      <4> QED
        BY <3>1, <4>1, <4>2
    <3>3. store' = [store EXCEPT ![body.sessionId] = blank] \/ UNCHANGED store
      BY <1>11 DEF PostUpdate
    <3> QED
      BY <3>2, <3>3
  <2>3. refused' \in [Requests -> SUBSET Variables]
    <3>1. refused \in [Requests -> SUBSET Variables]
      OBVIOUS
    <3>2. \/ refused' = refused
          \/ refused' = [refused EXCEPT ![r] = refused[r] \cup {Variable[round[r]]}]
      BY <1>11 DEF PostUpdate
    <3>3. refused[r] \cup {Variable[round[r]]} \in SUBSET Variables
      BY <3>1, <2>1
    <3> QED
      BY <3>1, <3>2, <3>3
  <2>4. pc' \in [Requests -> Labels]
    BY <1>11 DEF PostUpdate, Labels
  <2>5. signed' \in [Requests -> [digest : UpdateRequests, signature : UpdateRequests]]
    BY <1>11, RecordTypes DEF PostUpdate
  <2> QED
    BY <2>2, <2>3, <2>4, <2>5, <1>11 DEF PostUpdate, shared
<1>12. ASSUME NEW r \in Requests, GenerateToken(r) PROVE TypeOK'
  BY <1>12 DEF GenerateToken, Labels, shared, manager, Responses, Response
<1>13. ASSUME NEW r \in Requests, HandOverToAcm(r) PROVE TypeOK'
  BY <1>a, <1>13, RecordTypes DEF HandOverToAcm, Labels, shared, manager, Notes, Note
<1>14. ASSUME NEW r \in Requests, HandOverToIdp(r) PROVE TypeOK'
  BY <1>14 DEF HandOverToIdp, Labels, shared, manager, Notes, Note
<1>15. ASSUME NEW r \in Requests, GivesUp(r) PROVE TypeOK'
  BY <1>15 DEF GivesUp, Labels, shared, manager, Notes, Note, Responses, Response, Empty
<1>16. ASSUME NEW r \in Requests, CallFails(r) PROVE TypeOK'
  BY <1>16 DEF CallFails, Labels, shared, manager, Responses, Response, Empty, Unsigned, NewUpdateRequest, UpdateRequests
<1>17. CASE UNCHANGED vars
  BY <1>17 DEF vars, locals, shared, manager
<1> QED
  BY <1>1, <1>2, <1>3, <1>4, <1>5, <1>6, <1>7, <1>8, <1>9, <1>10, <1>11, <1>12,
     <1>13, <1>14, <1>15, <1>16, <1>17 DEF Next, Step

(* What every step of a login has in common, whichever action it is. *)
Act(r) == Authenticate(r) \/ ServicesFail(r) \/ Step(r)

LEMMA NextIsAct ==
    ASSUME [Next]_vars
    PROVE  (\E r \in Requests : Act(r)) \/ UNCHANGED vars
BY DEF Next, Act

(* A login's step leaves the local variables of the other logins alone. *)
LEMMA OthersKeepLocals ==
    ASSUME TypeOK, NEW r \in Requests, Act(r), NEW q \in Requests, q # r
    PROVE  /\ pc'[q] = pc[q] /\ auth'[q] = auth[q] /\ realm'[q] = realm[q]
           /\ sid'[q] = sid[q] /\ round'[q] = round[q] /\ reply'[q] = reply[q]
           /\ signed'[q] = signed[q] /\ notes'[q] = notes[q] /\ refused'[q] = refused[q]
<1> USE DEF TypeOK
<1>1. CASE Authenticate(r)
  BY <1>1 DEF Authenticate, manager
<1>2. CASE ServicesFail(r)
  BY <1>2 DEF ServicesFail, locals, manager
<1>3. CASE Step(r)
  BY <1>3 DEF Step, StartSession, AssignResp, ReadSessionId, SetSessionId, SetVariableName,
              SetDataObject, SerialiseForDigest, SerialiseForSignature, PostUpdate, GenerateToken,
              HandOverToAcm, HandOverToIdp, GivesUp, CallFails, locals, manager
<1> QED
  BY <1>1, <1>2, <1>3 DEF Act

LEMMA ControlStep == TypeOK /\ ControlOK /\ [Next]_vars => ControlOK'
<1> SUFFICES ASSUME TypeOK, ControlOK, [Next]_vars, NEW q \in Requests PROVE Control(q)'
  BY DEF ControlOK
<1> USE DEF TypeOK
<1>0. Control(q)
  BY DEF ControlOK
<1>1. ASSUME NEW r \in Requests, Act(r), q # r PROVE Control(q)'
  BY <1>0, <1>1, OthersKeepLocals DEF Control, HandedOver, Rounds
<1>2. ASSUME Act(q) PROVE Control(q)'
  <2> USE DEF Control, HandedOver, Updating, Finishing, Note, Rounds
  <2>1. CASE Authenticate(q)
    BY <1>0, <2>1, SpRequestAssumption DEF Authenticate, locals, manager
  <2>2. CASE ServicesFail(q)
    BY <1>0, <2>2 DEF ServicesFail, locals
  <2>3. CASE StartSession(q)
    BY <1>0, <2>3 DEF StartSession
  <2>4. CASE AssignResp(q)
    <3>1. /\ auth'[q] = auth[q] /\ realm'[q] = realm[q] /\ sid'[q] = sid[q] /\ notes'[q] = notes[q]
          /\ Rounds(q)' = Rounds(q) /\ Rounds(q) \in 1..4
      BY <2>4, VariableNames DEF AssignResp
    <3>2. CASE pc[q] # "assignUpdate"
      BY <1>0, <2>4, <3>1, <3>2 DEF AssignResp
    <3>3. CASE pc[q] = "assignUpdate" /\ round[q] # Rounds(q)
      <4>1. pc'[q] = "setSessionId" /\ round'[q] = round[q] + 1
        BY <2>4, <3>1, <3>3 DEF AssignResp
      <4>2. round[q] \in 1..Rounds(q)
        BY <1>0, <3>3
      <4>3. round[q] + 1 \in 1..Rounds(q)
        BY ONLY <3>1, <3>3, <4>2
      <4> QED
        BY <1>0, <3>1, <3>3, <4>1, <4>3
    <3>4. CASE pc[q] = "assignUpdate" /\ round[q] = Rounds(q)
      <4>1. pc'[q] = (IF auth[q] = "esmo" THEN "generateToken" ELSE "handOver") /\ round'[q] = round[q]
        BY <2>4, <3>1, <3>4 DEF AssignResp
      <4> QED
        BY <1>0, <3>1, <3>4, <4>1 DEF Authenticators
    <3> QED
      BY <2>4, <3>2, <3>3, <3>4 DEF AssignResp
  <2>5. CASE ReadSessionId(q)
    BY <1>0, <2>5, VariableNames DEF ReadSessionId
  <2>6. CASE SetSessionId(q) \/ SetVariableName(q) \/ SetDataObject(q)
    BY <1>0, <2>6 DEF SetSessionId, SetVariableName, SetDataObject, locals
  <2>7. CASE SerialiseForDigest(q) \/ SerialiseForSignature(q) \/ PostUpdate(q) \/ GenerateToken(q)
    BY <1>0, <2>7 DEF SerialiseForDigest, SerialiseForSignature, PostUpdate, GenerateToken
  <2>8. CASE HandOverToAcm(q)
    BY <1>0, <2>8 DEF HandOverToAcm
  <2>9. CASE HandOverToIdp(q)
    BY <1>0, <2>9 DEF HandOverToIdp
  <2>10. CASE GivesUp(q)
    BY <1>0, <2>10 DEF GivesUp
  <2>11. CASE CallFails(q)
    BY <1>0, <2>11 DEF CallFails
  <2> QED
    BY <1>2, <2>1, <2>2, <2>3, <2>4, <2>5, <2>6, <2>7, <2>8, <2>9, <2>10, <2>11 DEF Act, Step
<1>3. CASE UNCHANGED vars
  BY <1>0, <1>3 DEF vars, locals, Control, HandedOver, Rounds
<1> QED
  BY <1>1, <1>2, <1>3, NextIsAct

(* The variables hold values of their types in every reachable state. *)
THEOREM TypeCorrect == Spec => [](TypeOK /\ ControlOK)
<1>1. TypeOK /\ ControlOK /\ [Next]_vars => (TypeOK /\ ControlOK)'
  BY TypeStep, ControlStep
<1> QED
  BY TypeInit, <1>1, PTL DEF Spec

-----------------------------------------------------------------------------
(* Isolation. *)

(* Sessions keep their owner, and a mark of overlap is never taken back. *)
LEMMA OwnersAndMarksStay ==
    ASSUME TypeOK, [Next]_vars
    PROVE  /\ \A s \in SessionIds : owner[s] # None => owner'[s] = owner[s]
           /\ \A q \in Requests : overlapped[q] => overlapped'[q]
<1> USE DEF TypeOK
<1>1. ASSUME NEW r \in Requests, Act(r)
      PROVE  /\ \A s \in SessionIds : owner[s] # None => owner'[s] = owner[s]
             /\ \A q \in Requests : overlapped[q] => overlapped'[q]
  <2>1. CASE Authenticate(r)
    BY <2>1 DEF Authenticate, manager
  <2>2. CASE StartSession(r)
    BY <2>2 DEF StartSession, Issued
  <2>3. CASE ServicesFail(r)
    BY <2>3 DEF ServicesFail, manager
  <2>4. CASE Step(r) /\ ~StartSession(r)
    BY <2>4 DEF Step, AssignResp, ReadSessionId, SetSessionId, SetVariableName, SetDataObject,
                SerialiseForDigest, SerialiseForSignature, PostUpdate, GenerateToken,
                HandOverToAcm, HandOverToIdp, GivesUp, CallFails, manager
  <2> QED
    BY <1>1, <2>1, <2>2, <2>3, <2>4 DEF Act
<1>2. CASE UNCHANGED vars
  BY <1>2 DEF vars, manager
<1> QED
  BY <1>1, <1>2, NextIsAct

LEMMA MineStays ==
    ASSUME TypeOK, [Next]_vars, NEW q \in Requests, NEW s \in SessionIds, Mine(q, s)
    PROVE  Mine(q, s)'
<1>1. owner[s] \in Requests /\ owner'[s] = owner[s]
  BY OwnersAndMarksStay DEF TypeOK, Mine
<1>2. overlapped[owner[s]] => overlapped'[owner[s]]
  BY <1>1, OwnersAndMarksStay
<1>3. overlapped[q] => overlapped'[q]
  BY OwnersAndMarksStay
<1> QED
  BY <1>1, <1>2, <1>3 DEF Mine

(* Only running logins touch the fields, and only those of their own        *)
(* authenticator.                                                           *)
LEMMA FieldsChangeByOwnLogins ==
    ASSUME TypeOK, ControlOK, NEW r \in Requests, Act(r), NEW a \in Authenticators,
           ~(Active(r) /\ auth[r] = a)
    PROVE  resp'[a] = resp[a] /\ updateDR'[a] = updateDR[a]
<1> USE DEF TypeOK
<1>1. CASE Authenticate(r) \/ ServicesFail(r)
  BY <1>1 DEF Authenticate, ServicesFail, shared
<1>2. CASE Step(r)
  <2>1. CASE AssignResp(r)
    BY <2>1 DEF AssignResp, Active
  <2>2. CASE SetSessionId(r) \/ SetVariableName(r) \/ SetDataObject(r)
    BY <2>2 DEF SetSessionId, SetVariableName, SetDataObject, Active
  <2> QED
    BY <1>2, <2>1, <2>2 DEF Step, StartSession, ReadSessionId, SerialiseForDigest,
         SerialiseForSignature, PostUpdate, GenerateToken, HandOverToAcm, HandOverToIdp,
         GivesUp, CallFails, shared
<1> QED
  BY <1>1, <1>2 DEF Act

LEMMA AloneKeepsFields ==
    ASSUME TypeOK, ControlOK, OverlapIsMarked, NEW r \in Requests, Act(r),
           NEW q \in Requests, q # r, Active(q), Alone(q)
    PROVE  resp'[auth[q]] = resp[auth[q]] /\ updateDR'[auth[q]] = updateDR[auth[q]]
<1>1. auth[q] \in Authenticators
  BY DEF TypeOK, ControlOK, Control, Active
<1>2. ~(Active(r) /\ auth[r] = auth[q])
  BY DEF OverlapIsMarked, Alone
<1> QED
  BY <1>1, <1>2, FieldsChangeByOwnLogins

LEMMA MarkStep == TypeOK /\ ControlOK /\ OverlapIsMarked /\ [Next]_vars => OverlapIsMarked'
<1> SUFFICES ASSUME TypeOK, ControlOK, OverlapIsMarked, [Next]_vars,
                    NEW p \in Requests, NEW q \in Requests, p # q,
                    Active(p)', Active(q)', auth'[p] = auth'[q]
             PROVE  overlapped'[p]
  BY DEF OverlapIsMarked
<1> USE DEF TypeOK
<1>1. ASSUME NEW r \in Requests, Act(r) PROVE overlapped'[p]
  <2>1. CASE Authenticate(r)
    <3>1. PICK a \in Authenticators :
            /\ auth' = [auth EXCEPT ![r] = a]
            /\ overlapped' = [x \in Requests |->
                  overlapped[x] \/ x \in ActiveIn(a) \/ (x = r /\ ActiveIn(a) # {})]
      <4> HIDE DEF TypeOK
      <4> QED
        BY <2>1 DEF Authenticate
    <3>2. pc' = [pc EXCEPT ![r] = "startSession"] /\ pc[r] = "idle"
      BY <2>1 DEF Authenticate
    <3>3. CASE p # r /\ q # r
      BY <3>1, <3>2, <3>3 DEF OverlapIsMarked, Active
    <3>4. CASE p = r
      <4>1. q \in ActiveIn(a)
        BY <3>1, <3>2, <3>4 DEF Active, ActiveIn
      <4> QED
        BY <3>1, <3>4, <4>1
    <3>5. CASE q = r
      <4>1. p \in ActiveIn(a)
        BY <3>1, <3>2, <3>5 DEF Active, ActiveIn
      <4> QED
        BY <3>1, <4>1
    <3> QED
      BY <3>3, <3>4, <3>5
  <2>2. CASE ~Authenticate(r)
    <3>1. \A x \in Requests : Active(x)' => Active(x)
      BY <1>1, <2>2 DEF Act, Step, ServicesFail, StartSession, AssignResp, ReadSessionId, SetSessionId,
         SetVariableName, SetDataObject, SerialiseForDigest, SerialiseForSignature, PostUpdate,
         GenerateToken, HandOverToAcm, HandOverToIdp, GivesUp, CallFails, Active
    <3>2. auth' = auth
      BY <1>1, <2>2 DEF Act, Step, ServicesFail, StartSession, AssignResp, ReadSessionId, SetSessionId,
         SetVariableName, SetDataObject, SerialiseForDigest, SerialiseForSignature, PostUpdate,
         GenerateToken, HandOverToAcm, HandOverToIdp, GivesUp, CallFails, locals
    <3>3. overlapped[p]
      BY <3>1, <3>2 DEF OverlapIsMarked
    <3> QED
      BY <3>3, OwnersAndMarksStay
  <2> QED
    BY <2>1, <2>2
<1>2. CASE UNCHANGED vars
  BY <1>2 DEF vars, locals, OverlapIsMarked, Active
<1> QED
  BY <1>1, <1>2, NextIsAct

LEMMA TracedStep ==
    TypeOK /\ ControlOK /\ OverlapIsMarked /\ SessionsAreTraced /\ [Next]_vars
        => SessionsAreTraced'
<1> SUFFICES ASSUME TypeOK, ControlOK, OverlapIsMarked, SessionsAreTraced, [Next]_vars,
                    NEW q \in Requests
             PROVE  Traced(q)'
  BY DEF SessionsAreTraced
<1>0. Traced(q) /\ Control(q)
  BY DEF SessionsAreTraced, ControlOK
<1>m. \A s \in SessionIds : Mine(q, s) => Mine(q, s)'
  BY MineStays
<1>o. \A s \in SessionIds : owner[s] = q => owner'[s] = q
  BY OwnersAndMarksStay, SpRequestAssumption
<1>t. /\ reply[q].sessionData \in SessionIds \cup {None}
      /\ reply[q].additionalData \in SessionIds \cup {None}
      /\ sid[q] \in SessionIds \cup {None}
  BY RecordTypes DEF TypeOK
<1>1. ASSUME NEW r \in Requests, Act(r), q # r PROVE Traced(q)'
  <2>1. /\ pc'[q] = pc[q] /\ auth'[q] = auth[q] /\ sid'[q] = sid[q] /\ reply'[q] = reply[q]
    BY <1>1, OthersKeepLocals
  <2>2. /\ reply'[q].sessionData # None =>
             pc'[q] = "assignSession" /\ owner'[reply'[q].sessionData] = q
        /\ reply'[q].additionalData # None =>
             pc'[q] = "assignToken" /\ reply'[q].additionalData = sid'[q]
        /\ sid'[q] # None => Mine(q, sid[q])'
    BY <1>0, <1>m, <1>o, <1>t, <2>1 DEF Traced
  <2>3. ASSUME pc[q] = "readSession", resp'[auth[q]].sessionData # None
        PROVE  Mine(q, resp[auth[q]].sessionData)'
    <3>1. auth[q] \in Authenticators /\ Active(q)
      BY <1>0, <2>3 DEF Control, Active, TypeOK
    <3>2. resp[auth[q]].sessionData \in SessionIds \cup {None}
      BY <3>1, RecordTypes DEF TypeOK
    <3>3. CASE resp'[auth[q]] = resp[auth[q]]
      <4>1. Mine(q, resp[auth[q]].sessionData) /\ resp[auth[q]].sessionData \in SessionIds
        BY <1>0, <2>3, <3>2, <3>3 DEF Traced
      <4>2. PICK s \in SessionIds : s = resp[auth[q]].sessionData /\ s = resp'[auth[q]].sessionData
        BY <4>1, <3>3
      <4>3. Mine(q, s)'
        BY <4>1, <4>2, <1>m
      <4> QED
        BY <2>1, <4>2, <4>3 DEF Mine
    <3>4. CASE resp'[auth[q]] # resp[auth[q]]
      <4>1. Active(r) /\ auth[r] = auth[q]
        BY <1>1, <3>1, <3>4, FieldsChangeByOwnLogins
      <4>2. overlapped[q] /\ overlapped[r]
        BY <1>1, <3>1, <4>1 DEF OverlapIsMarked
      <4>3. AssignResp(r)
        BY <1>1, <3>4, <4>1 DEF Act, Step, Authenticate, Active, ServicesFail, StartSession, ReadSessionId,
           SetSessionId, SetVariableName, SetDataObject, SerialiseForDigest, SerialiseForSignature,
           PostUpdate, GenerateToken, HandOverToAcm, HandOverToIdp, GivesUp, CallFails, shared
      <4>4. resp'[auth[q]] = reply[r]
        BY <3>1, <4>1, <4>3 DEF AssignResp, TypeOK
      <4>5. PICK s \in SessionIds : s = reply[r].sessionData
        BY <2>3, <4>4, RecordTypes DEF TypeOK
      <4>6. owner[s] = r
        BY <2>3, <4>4, <4>5, SpRequestAssumption DEF SessionsAreTraced, Traced
      <4>7. owner'[s] = r /\ overlapped'[r] /\ overlapped'[q] /\ r # None
        BY <4>2, <4>5, <4>6, OwnersAndMarksStay, SpRequestAssumption
      <4> QED
        BY <2>1, <4>4, <4>5, <4>7 DEF Mine
    <3> QED
      BY <3>3, <3>4
  <2>4. ASSUME pc[q] \in {"setVariableName", "setDataObject", "digest", "sign", "post"}
        PROVE  Mine(q, updateDR[auth[q]].sessionId)'
    <3>1. auth[q] \in Authenticators /\ Active(q)
      BY <1>0, <2>4 DEF Control, Active, TypeOK
    <3>2. updateDR[auth[q]].sessionId \in SessionIds
      BY <1>0, <2>4, <3>1, RecordTypes DEF Traced, Mine, TypeOK
    <3>3. CASE updateDR'[auth[q]].sessionId = updateDR[auth[q]].sessionId
      <4>1. PICK s \in SessionIds : s = updateDR[auth[q]].sessionId /\ s = updateDR'[auth[q]].sessionId
        BY <3>2, <3>3
      <4>2. Mine(q, s)'
        BY <1>0, <2>4, <4>1, <1>m DEF Traced
      <4> QED
        BY <2>1, <4>1, <4>2 DEF Mine
    <3>4. CASE updateDR'[auth[q]].sessionId # updateDR[auth[q]].sessionId
      <4>1. Active(r) /\ auth[r] = auth[q]
        BY <1>1, <3>1, <3>4, FieldsChangeByOwnLogins
      <4>2. overlapped[q] /\ overlapped[r]
        BY <1>1, <3>1, <4>1 DEF OverlapIsMarked
      <4>3. SetSessionId(r)
        BY <1>1, <3>1, <3>4, <4>1 DEF Act, Step, Authenticate, Active, ServicesFail, StartSession, AssignResp,
           ReadSessionId, SetVariableName, SetDataObject, SerialiseForDigest, SerialiseForSignature,
           PostUpdate, GenerateToken, HandOverToAcm, HandOverToIdp, GivesUp, CallFails,
           shared, TypeOK, UpdateRequests
      <4>4. updateDR'[auth[q]].sessionId = sid[r] /\ pc[r] = "setSessionId"
        BY <3>1, <4>1, <4>3 DEF SetSessionId, TypeOK, UpdateRequests
      <4>5. sid[r] \in SessionIds /\ Mine(r, sid[r])
        BY <4>4 DEF ControlOK, Control, Updating, SessionsAreTraced, Traced, TypeOK
      <4>6. owner[sid[r]] # None /\ overlapped[owner[sid[r]]] /\ owner[sid[r]] \in Requests
        BY <4>2, <4>5 DEF Mine, TypeOK
      <4>7. owner'[sid[r]] = owner[sid[r]] /\ overlapped'[owner[sid[r]]] /\ overlapped'[q]
        BY <4>2, <4>5, <4>6, OwnersAndMarksStay
      <4> QED
        BY <2>1, <4>4, <4>5, <4>6, <4>7 DEF Mine
    <3> QED
      BY <3>3, <3>4
  <2> QED
    BY <2>1, <2>2, <2>3, <2>4 DEF Traced
<1>2. ASSUME Act(q) PROVE Traced(q)'
  <2> USE DEF TypeOK
  <2>1. CASE Authenticate(q)
    BY <1>0, <1>t, <2>1, SpRequestAssumption DEF Authenticate, Traced, Control, manager
  <2>2. CASE ServicesFail(q)
    BY <1>0, <1>m, <2>2 DEF ServicesFail, Traced, locals, shared, manager
  <2>3. CASE StartSession(q)
    <3>1. /\ pc[q] = "startSession" /\ pc'[q] = "assignSession" /\ sid'[q] = sid[q]
          /\ reply'[q].sessionData # None => owner'[reply'[q].sessionData] = q
          /\ reply'[q].additionalData = None
      <4>1. ASSUME NEW s \in SessionIds, owner' = [owner EXCEPT ![s] = q],
                   reply' = [reply EXCEPT ![q] = Response(s, None)]
            PROVE  owner'[reply'[q].sessionData] = q /\ reply'[q].additionalData = None
        BY <4>1 DEF Response
      <4>2. CASE UNCHANGED <<reply, owner>>
        BY <1>0, <2>3, <4>2 DEF StartSession, Traced
      <4>3. pc[q] = "startSession" /\ pc'[q] = "assignSession" /\ sid'[q] = sid[q]
        BY <2>3 DEF StartSession
      <4> QED
        BY <1>0, <2>3, <4>1, <4>2, <4>3 DEF StartSession, Traced
    <3>2. sid[q] = None
      BY <1>0, <3>1 DEF Control
    <3> QED
      BY <3>1, <3>2 DEF Traced
  <2>4. CASE AssignResp(q)
    <3>1. /\ reply'[q] = Empty /\ sid'[q] = sid[q] /\ auth'[q] = auth[q]
          /\ owner' = owner /\ overlapped' = overlapped /\ auth[q] \in Authenticators
          /\ resp'[auth[q]] = reply[q]
      BY <1>0, <2>4 DEF AssignResp, Control, manager
    <3>2. pc'[q] = "readSession" => pc[q] = "assignSession"
      BY <2>4 DEF AssignResp
    <3>3. pc'[q] \in {"readSession", "setSessionId", "generateToken", "handOver", "readToken"}
      BY <2>4 DEF AssignResp
    <3>4. reply[q].sessionData # None => Mine(q, reply[q].sessionData)
      BY <1>0, <1>t, SpRequestAssumption DEF Traced, Mine
    <3> QED
      BY <1>0, <3>1, <3>2, <3>3, <3>4 DEF Traced, Mine, Empty, Response
  <2>5. CASE ReadSessionId(q)
    <3>1. auth[q] \in Authenticators /\ pc[q] = "readSession" /\ sid[q] = None
      BY <1>0, <2>5 DEF ReadSessionId, Control
    <3>2. /\ sid'[q] \in {resp[auth[q]].sessionData, None}
          /\ pc'[q] \in {"aborted", "setSessionId"}
          /\ reply'[q] = reply[q] /\ owner' = owner /\ overlapped' = overlapped
      BY <2>5, <3>1 DEF ReadSessionId, manager
    <3> QED
      BY <1>0, <3>1, <3>2 DEF Traced, Mine
  <2>6. CASE SetSessionId(q)
    <3>1. auth[q] \in Authenticators /\ pc[q] = "setSessionId" /\ sid[q] # None
      BY <1>0, <2>6 DEF SetSessionId, Control, Updating
    <3>2. /\ updateDR'[auth[q]].sessionId = sid[q] /\ pc'[q] = "setVariableName"
          /\ auth'[q] = auth[q] /\ sid'[q] = sid[q] /\ reply'[q] = reply[q]
          /\ owner' = owner /\ overlapped' = overlapped
      BY <2>6, <3>1 DEF SetSessionId, locals, manager, UpdateRequests
    <3> QED
      BY <1>0, <3>1, <3>2 DEF Traced, Mine
  <2>7. CASE SetVariableName(q) \/ SetDataObject(q)
    <3>1. auth[q] \in Authenticators /\ pc[q] \in {"setVariableName", "setDataObject"}
      BY <1>0, <2>7 DEF SetVariableName, SetDataObject, Control
    <3>2. /\ updateDR'[auth[q]].sessionId = updateDR[auth[q]].sessionId
          /\ pc'[q] \in {"setDataObject", "digest"}
          /\ auth'[q] = auth[q] /\ sid'[q] = sid[q] /\ reply'[q] = reply[q]
          /\ owner' = owner /\ overlapped' = overlapped
      BY <2>7, <3>1 DEF SetVariableName, SetDataObject, locals, manager, UpdateRequests
    <3> QED
      BY <1>0, <3>1, <3>2 DEF Traced, Mine
  <2>8. CASE SerialiseForDigest(q) \/ SerialiseForSignature(q)
    BY <1>0, <2>8 DEF SerialiseForDigest, SerialiseForSignature, Traced, Mine, shared, manager
  <2>9. CASE PostUpdate(q)
    BY <1>0, <2>9 DEF PostUpdate, Traced, Mine, shared
  <2>10. CASE GenerateToken(q)
    BY <1>0, <2>10 DEF GenerateToken, Traced, Mine, shared, manager, Response
  <2>11. CASE HandOverToAcm(q) \/ HandOverToIdp(q)
    BY <1>0, <2>11 DEF HandOverToAcm, HandOverToIdp, Traced, Mine, shared, manager
  <2>12. CASE GivesUp(q) \/ CallFails(q)
    BY <1>0, <2>12 DEF GivesUp, CallFails, Traced, Mine, shared, manager, Empty, Response
  <2> QED
    BY <1>2, <2>1, <2>2, <2>3, <2>4, <2>5, <2>6, <2>7, <2>8, <2>9, <2>10, <2>11, <2>12 DEF Act, Step
<1>3. CASE UNCHANGED vars
  BY <1>0, <1>3 DEF vars, locals, shared, manager, Traced, Mine
<1> QED
  BY <1>1, <1>2, <1>3, NextIsAct

LEMMA FieldsStep ==
    TypeOK /\ ControlOK /\ OverlapIsMarked /\ SessionsAreTraced /\ FieldsAreOwnWhenAlone
    /\ [Next]_vars => FieldsAreOwnWhenAlone'
<1> SUFFICES ASSUME TypeOK, ControlOK, OverlapIsMarked, SessionsAreTraced,
                    FieldsAreOwnWhenAlone, [Next]_vars, NEW q \in Requests, Alone(q)'
             PROVE  FieldsAreOwn(q)'
  BY DEF FieldsAreOwnWhenAlone
<1>0. Alone(q) /\ FieldsAreOwn(q) /\ Control(q) /\ Traced(q)
  <2>1. Alone(q)
    BY OwnersAndMarksStay DEF Alone
  <2> QED
    BY <2>1 DEF FieldsAreOwnWhenAlone, ControlOK, SessionsAreTraced
<1>1. ASSUME NEW r \in Requests, Act(r), q # r PROVE FieldsAreOwn(q)'
  <2>1. /\ pc'[q] = pc[q] /\ auth'[q] = auth[q] /\ sid'[q] = sid[q] /\ round'[q] = round[q]
        /\ signed'[q] = signed[q] /\ notes'[q] = notes[q]
    BY <1>1, OthersKeepLocals
  <2>2. CASE Active(q)
    <3>1. resp'[auth[q]] = resp[auth[q]] /\ updateDR'[auth[q]] = updateDR[auth[q]]
      BY <1>0, <1>1, <2>2, AloneKeepsFields
    <3> QED
      BY <1>0, <2>1, <3>1 DEF FieldsAreOwn, HandedOver
  <2>3. CASE ~Active(q)
    BY <1>0, <2>1, <2>3 DEF FieldsAreOwn, HandedOver, Active
  <2> QED
    BY <2>2, <2>3
<1>2. ASSUME Act(q) PROVE FieldsAreOwn(q)'
  <2> USE DEF TypeOK
  <2>a. pc[q] \notin {"idle", "aborted"} => auth[q] \in Authenticators
    BY <1>0 DEF Control
  <2>1. CASE Authenticate(q) \/ ServicesFail(q) \/ StartSession(q)
    BY <2>1 DEF Authenticate, ServicesFail, StartSession, FieldsAreOwn, HandedOver
  <2>2. CASE AssignResp(q)
    <3>1. pc'[q] = "readToken" => pc[q] = "assignToken"
      BY <2>2 DEF AssignResp
    <3>2. pc'[q] \in {"readSession", "setSessionId", "generateToken", "handOver", "readToken"}
      BY <2>2 DEF AssignResp
    <3>3. pc[q] = "assignToken" => reply[q].additionalData \in {None, sid[q]}
      BY <1>0 DEF Traced
    <3>4. resp'[auth[q]] = reply[q] /\ auth'[q] = auth[q] /\ sid'[q] = sid[q]
      BY <2>a, <2>2 DEF AssignResp
    <3> QED
      BY <3>1, <3>2, <3>3, <3>4 DEF FieldsAreOwn, HandedOver
  <2>3. CASE ReadSessionId(q)
    BY <2>3 DEF ReadSessionId, FieldsAreOwn, HandedOver
  <2>4. CASE SetSessionId(q)
    BY <2>a, <2>4 DEF SetSessionId, FieldsAreOwn, HandedOver, locals, UpdateRequests
  <2>5. CASE SetVariableName(q)
    BY <1>0, <2>a, <2>5 DEF SetVariableName, FieldsAreOwn, HandedOver, locals, UpdateRequests
  <2>6. CASE SetDataObject(q)
    BY <1>0, <2>a, <2>6 DEF SetDataObject, FieldsAreOwn, HandedOver, locals, UpdateRequests, Payload
  <2>7. CASE SerialiseForDigest(q)
    BY <1>0, <2>a, <2>7 DEF SerialiseForDigest, FieldsAreOwn, HandedOver, shared
  <2>8. CASE SerialiseForSignature(q)
    BY <1>0, <2>a, <2>8 DEF SerialiseForSignature, FieldsAreOwn, HandedOver, shared
  <2>9. CASE PostUpdate(q) \/ GenerateToken(q)
    BY <2>9 DEF PostUpdate, GenerateToken, FieldsAreOwn, HandedOver
  <2>10. CASE HandOverToAcm(q)
    BY <1>0, <2>10 DEF HandOverToAcm, FieldsAreOwn, HandedOver, Note
  <2>11. CASE HandOverToIdp(q)
    BY <2>11 DEF HandOverToIdp, FieldsAreOwn, HandedOver, Note
  <2>12. CASE GivesUp(q) \/ CallFails(q)
    BY <2>12 DEF GivesUp, CallFails, FieldsAreOwn, HandedOver, Note
  <2> QED
    BY <1>2, <2>1, <2>2, <2>3, <2>4, <2>5, <2>6, <2>7, <2>8, <2>9, <2>10, <2>11, <2>12 DEF Act, Step
<1>3. CASE UNCHANGED vars
  BY <1>0, <1>3 DEF vars, locals, shared, FieldsAreOwn, HandedOver
<1> QED
  BY <1>1, <1>2, <1>3, NextIsAct

(* How one step of login q moves it through its updates: one update is       *)
(* answered by PostUpdate, and by no other step.                            *)
LEMMA AnsweredStep ==
    ASSUME TypeOK, ControlOK, NEW q \in Requests, Act(q), NEW i \in 1..Documents + 1,
           pc'[q] # "aborted", sid[q] # None
    PROVE  /\ sid'[q] = sid[q] /\ Rounds(q)' = Rounds(q)
           /\ ~PostUpdate(q) => refused'[q] = refused[q] /\ (Answered(q, i)' <=> Answered(q, i))
           /\ PostUpdate(q) => (Answered(q, i)' <=> Answered(q, i) \/ i = round[q])
<1> USE DEF TypeOK
<1>0. Control(q) /\ i \in 1..4 /\ round[q] \in 0..4
  BY VariableNames DEF ControlOK
<1>1. CASE Authenticate(q) \/ ServicesFail(q) \/ StartSession(q) \/ ReadSessionId(q)
  BY <1>0, <1>1 DEF Authenticate, ServicesFail, StartSession, ReadSessionId, Control
<1>2. CASE AssignResp(q)
  <2>1. /\ refused'[q] = refused[q] /\ sid'[q] = sid[q] /\ Rounds(q)' = Rounds(q)
    BY <1>2 DEF AssignResp, Rounds, manager
  <2>2. CASE pc[q] = "assignUpdate" /\ pc'[q] = "setSessionId" /\ round'[q] = round[q] + 1
    BY <1>0, <1>2, <2>1, <2>2 DEF Answered, AssignResp, PostUpdate, Finishing
  <2>3. CASE round'[q] = round[q] /\ pc[q] \in {"assignUpdate", "assignToken"}
             /\ pc'[q] \in {"generateToken", "handOver", "readToken"}
    BY <1>0, <1>2, <2>1, <2>3 DEF Answered, AssignResp, PostUpdate, Finishing
  <2>4. pc[q] # "assignSession"
    BY <1>0 DEF Control
  <2> QED
    BY <1>0, <1>2, <2>2, <2>3, <2>4 DEF AssignResp, Rounds
<1>3. CASE SetSessionId(q) \/ SetVariableName(q) \/ SetDataObject(q)
  BY <1>0, <1>3 DEF SetSessionId, SetVariableName, SetDataObject, Answered, Rounds, PostUpdate,
     Finishing, locals, manager
<1>4. CASE SerialiseForDigest(q) \/ SerialiseForSignature(q)
  BY <1>0, <1>4 DEF SerialiseForDigest, SerialiseForSignature, Answered, Rounds, PostUpdate,
     Finishing, manager
<1>5. CASE PostUpdate(q)
  BY <1>0, <1>5 DEF PostUpdate, Answered, Rounds, Finishing
<1>6. CASE GenerateToken(q) \/ HandOverToAcm(q) \/ HandOverToIdp(q)
  BY <1>0, <1>6 DEF GenerateToken, HandOverToAcm, HandOverToIdp, Answered, Rounds, PostUpdate,
     Finishing, manager
<1>7. CASE GivesUp(q)
  <2>1. pc[q] \in {"assignUpdate", "assignToken"}
    BY <1>0, <1>7 DEF GivesUp, Control
  <2> QED
    BY <1>0, <1>7, <2>1 DEF GivesUp, Answered, Rounds, PostUpdate, Finishing, manager
<1>8. CASE CallFails(q)
  BY <1>8 DEF CallFails
<1> QED
  BY <1>1, <1>2, <1>3, <1>4, <1>5, <1>6, <1>7, <1>8 DEF Act, Step

LEMMA RefusalStep ==
    TypeOK /\ ControlOK /\ RefusalsAreAnswered /\ [Next]_vars => RefusalsAreAnswered'
<1> SUFFICES ASSUME TypeOK, ControlOK, RefusalsAreAnswered, [Next]_vars,
                    NEW q \in Requests, NEW i \in 1..Documents + 1,
                    pc'[q] # "aborted", Variable[i] \in refused'[q]
             PROVE  Answered(q, i)'
  BY DEF RefusalsAreAnswered, Variable
<1>1. ASSUME NEW r \in Requests, Act(r), q # r PROVE Answered(q, i)'
  BY <1>1, OthersKeepLocals DEF RefusalsAreAnswered, Answered
<1>2. ASSUME Act(q) PROVE Answered(q, i)'
  <2>1. CASE sid[q] # None
    <3>1. CASE ~PostUpdate(q)
      <4>1. pc[q] # "aborted"
        BY <1>2 DEF Act, Step, Authenticate, ServicesFail, StartSession, AssignResp, ReadSessionId,
           SetSessionId, SetVariableName, SetDataObject, SerialiseForDigest, SerialiseForSignature,
           PostUpdate, GenerateToken, HandOverToAcm, HandOverToIdp, GivesUp, CallFails
      <4> QED
        BY <1>2, <2>1, <3>1, <4>1, AnsweredStep DEF RefusalsAreAnswered
    <3>2. CASE PostUpdate(q)
      <4>1. round[q] \in 1..Documents + 1
        BY <3>2, VariableNames DEF PostUpdate, ControlOK, Control, Updating
      <4>2. refused'[q] \subseteq refused[q] \cup {Variable[round[q]]}
        BY <3>2 DEF PostUpdate, TypeOK
      <4>3. Variable[i] \in refused[q] \/ i = round[q]
        BY <4>1, <4>2, VariableNames
      <4>4. Variable[i] \in refused[q] => Answered(q, i)
        BY <3>2 DEF PostUpdate, RefusalsAreAnswered
      <4> QED
        BY <1>2, <2>1, <3>2, <4>3, <4>4, AnsweredStep
    <3> QED
      BY <3>1, <3>2
  <2>2. CASE sid[q] = None
    <3>1. ~(pc[q] \in Updating \cup Finishing)
      BY <2>2 DEF ControlOK, Control
    <3>2. refused'[q] = refused[q]
      BY <1>2, <3>1 DEF Act, Step, Authenticate, ServicesFail, StartSession, AssignResp, ReadSessionId,
           SetSessionId, SetVariableName, SetDataObject, SerialiseForDigest, SerialiseForSignature,
           PostUpdate, GenerateToken, HandOverToAcm, HandOverToIdp, GivesUp, CallFails,
           manager, Updating
    <3>3. pc[q] \in {"idle", "startSession", "assignSession", "readSession"}
      BY <1>2, <3>1 DEF Act, Step, Authenticate, ServicesFail, StartSession, AssignResp, ReadSessionId,
           SetSessionId, SetVariableName, SetDataObject, SerialiseForDigest, SerialiseForSignature,
           PostUpdate, GenerateToken, HandOverToAcm, HandOverToIdp, GivesUp, CallFails,
           Updating, Finishing
    <3>4. Answered(q, i)
      BY <3>2, <3>3 DEF RefusalsAreAnswered
    <3>5. round[q] = 0 /\ i \in 1..4
      BY <2>2, VariableNames DEF ControlOK, Control
    <3> QED
      BY <3>4, <3>5 DEF Answered
  <2> QED
    BY <2>1, <2>2
<1>3. CASE UNCHANGED vars
  BY <1>3 DEF vars, locals, manager, RefusalsAreAnswered, Answered
<1> QED
  BY <1>1, <1>2, <1>3, NextIsAct

(* An update reaches only a session that the posting login may use. *)
LEMMA PostsReachOnlyMine ==
    ASSUME TypeOK, ControlOK, SessionsAreTraced, NEW r \in Requests, Act(r),
           NEW s \in SessionIds, store'[s] # store[s]
    PROVE  /\ PostUpdate(r) /\ s = updateDR[auth[r]].sessionId /\ Mine(r, s)
           /\ owner' = owner
<1>1. PostUpdate(r)
  BY DEF Act, Step, Authenticate, ServicesFail, StartSession, AssignResp, ReadSessionId,
     SetSessionId, SetVariableName, SetDataObject, SerialiseForDigest, SerialiseForSignature,
     GenerateToken, HandOverToAcm, HandOverToIdp, GivesUp, CallFails, manager
<1>2. s = updateDR[auth[r]].sessionId
  BY <1>1 DEF PostUpdate, TypeOK
<1>3. Mine(r, updateDR[auth[r]].sessionId) /\ owner' = owner
  BY <1>1 DEF PostUpdate, SessionsAreTraced, Traced
<1> QED
  BY <1>1, <1>2, <1>3

LEMMA StoreStep ==
    IsolationInv /\ [Next]_vars => StoreIsOwnWhenAlone'
<1> SUFFICES ASSUME IsolationInv, [Next]_vars PROVE StoreIsOwnWhenAlone'
  OBVIOUS
<1> USE DEF IsolationInv
<1>1. ASSUME NEW s \in SessionIds, owner'[s] = None, NEW v \in Variables
      PROVE  store'[s][v] = None
  <2>1. owner[s] = None
    BY <1>1, OwnersAndMarksStay DEF TypeOK
  <2>2. store'[s] = store[s]
    <3>1. ASSUME NEW r \in Requests, Act(r) PROVE store'[s] = store[s]
      BY <2>1, <3>1, PostsReachOnlyMine DEF Mine
    <3> QED
      BY <3>1, NextIsAct DEF vars, manager
  <2> QED
    BY <2>1, <2>2 DEF StoreIsOwnWhenAlone
<1>2. ASSUME NEW s \in SessionIds, NEW v \in Variables, owner'[s] # None,
             ~overlapped'[owner'[s]], sid'[owner'[s]] # s
      PROVE  store'[s][v] = None
  <2> DEFINE q == owner'[s]
  <2>1. q \in Requests
    BY <1>2, TypeStep DEF TypeOK
  <2>2. Alone(q)
    BY <1>2, <2>1, OwnersAndMarksStay DEF Alone
  <2>3. store[s][v] = None
    <3>1. CASE owner[s] = None
      BY <3>1 DEF StoreIsOwnWhenAlone
    <3>2. CASE owner[s] # None
      <4>1. owner[s] = q
        BY <3>2, OwnersAndMarksStay
      <4>2. sid[q] # s
        <5>1. ASSUME sid[q] = s PROVE FALSE
          <6>1. sid'[q] = s
            <7>1. ASSUME NEW r \in Requests, Act(r), r # q PROVE sid'[q] = sid[q]
              BY <2>1, <7>1, OthersKeepLocals
            <7>2. ASSUME Act(q), ~ReadSessionId(q) PROVE sid'[q] = sid[q]
              BY <7>2 DEF Act, Step, Authenticate, ServicesFail, StartSession, AssignResp,
                 SetSessionId, SetVariableName, SetDataObject, SerialiseForDigest, SerialiseForSignature,
                 PostUpdate, GenerateToken, HandOverToAcm, HandOverToIdp, GivesUp, CallFails, locals
            <7>3. ~ReadSessionId(q)
              BY <2>1, <5>1, SpRequestAssumption DEF ReadSessionId, ControlOK, Control
            <7> QED
              BY <5>1, <7>1, <7>2, <7>3, NextIsAct DEF vars, locals
          <6> QED
            BY <1>2, <6>1
        <5> QED
          BY <5>1
      <4> QED
        BY <2>2, <3>2, <4>1, <4>2 DEF StoreIsOwnWhenAlone
    <3> QED
      BY <3>1, <3>2
  <2>4. store'[s] = store[s]
    <3>1. ASSUME NEW r \in Requests, Act(r), store'[s] # store[s] PROVE FALSE
      <4>1. /\ PostUpdate(r) /\ s = updateDR[auth[r]].sessionId /\ Mine(r, s)
            /\ owner' = owner
        BY <3>1, PostsReachOnlyMine
      <4>2. r = q
        BY <2>1, <2>2, <4>1 DEF Mine, Alone
      <4>3. sid[q] = s
        BY <2>2, <4>1, <4>2 DEF FieldsAreOwnWhenAlone, FieldsAreOwn, PostUpdate
      <4>4. sid'[q] = sid[q]
        BY <4>1, <4>2 DEF PostUpdate
      <4> QED
        BY <1>2, <4>3, <4>4
    <3> QED
      BY <3>1, NextIsAct DEF vars, manager
  <2> QED
    BY <2>3, <2>4
<1>3. ASSUME NEW q \in Requests, NEW i \in 1..Documents + 1,
             Alone(q)', sid'[q] # None, pc'[q] # "aborted"
      PROVE  store'[sid'[q]][Variable[i]] =
                (IF Answered(q, i)' /\ i <= Rounds(q)' /\ Variable[i] \notin refused'[q]
                 THEN Payload(q, Variable[i]) ELSE None)
  <2>1. Alone(q) /\ Control(q) /\ Traced(q) /\ FieldsAreOwn(q)
    <3>1. Alone(q)
      BY <1>3, OwnersAndMarksStay DEF Alone
    <3> QED
      BY <3>1 DEF ControlOK, SessionsAreTraced, FieldsAreOwnWhenAlone
  <2>2. ASSUME sid[q] # None, pc[q] # "aborted"
        PROVE  /\ sid[q] \in SessionIds /\ owner[sid[q]] = q
               /\ store[sid[q]][Variable[i]] =
                    (IF Answered(q, i) /\ i <= Rounds(q) /\ Variable[i] \notin refused[q]
                     THEN Payload(q, Variable[i]) ELSE None)
    BY <2>1, <2>2 DEF StoreIsOwnWhenAlone, Traced, Mine, Alone
  <2>3. ASSUME NEW r \in Requests, Act(r), q # r
        PROVE  store'[sid'[q]][Variable[i]] =
                (IF Answered(q, i)' /\ i <= Rounds(q)' /\ Variable[i] \notin refused'[q]
                 THEN Payload(q, Variable[i]) ELSE None)
    <3>1. /\ pc'[q] = pc[q] /\ auth'[q] = auth[q] /\ realm'[q] = realm[q] /\ sid'[q] = sid[q]
          /\ round'[q] = round[q] /\ refused'[q] = refused[q]
      BY <2>3, OthersKeepLocals
    <3>2. store'[sid[q]] = store[sid[q]]
      <4>1. sid[q] \in SessionIds /\ owner[sid[q]] = q
        BY <1>3, <2>2, <3>1
      <4>2. ~Mine(r, sid[q])
        BY <2>1, <2>3, <4>1 DEF Mine, Alone
      <4> QED
        BY <2>3, <4>1, <4>2, PostsReachOnlyMine
    <3> QED
      BY <1>3, <2>2, <3>1, <3>2 DEF Answered, Rounds
  <2>4. ASSUME Act(q)
        PROVE  store'[sid'[q]][Variable[i]] =
                (IF Answered(q, i)' /\ i <= Rounds(q)' /\ Variable[i] \notin refused'[q]
                 THEN Payload(q, Variable[i]) ELSE None)
    <3>1. CASE sid[q] = None
      <4>1. ReadSessionId(q)
        BY <1>3, <2>4, <3>1 DEF Act, Step, Authenticate, ServicesFail, StartSession, AssignResp,
           SetSessionId, SetVariableName, SetDataObject, SerialiseForDigest, SerialiseForSignature,
           PostUpdate, GenerateToken, HandOverToAcm, HandOverToIdp, GivesUp, CallFails, locals
      <4>2. /\ sid'[q] = resp[auth[q]].sessionData /\ round'[q] = 1 /\ pc'[q] = "setSessionId"
            /\ store' = store
        BY <1>3, <4>1 DEF ReadSessionId, manager, TypeOK
      <4>3. Mine(q, sid'[q])
        BY <1>3, <2>1, <4>1, <4>2 DEF Traced, ReadSessionId
      <4>4. sid'[q] \in SessionIds /\ owner[sid'[q]] = q
        BY <2>1, <4>3 DEF Mine, Alone
      <4>5. store[sid'[q]][Variable[i]] = None
        BY <1>3, <2>1, <3>1, <4>4, VariableNames, SpRequestAssumption DEF StoreIsOwnWhenAlone
      <4>6. ~Answered(q, i)'
        BY <4>2, VariableNames DEF Answered, Finishing
      <4> QED
        BY <4>2, <4>5, <4>6
    <3>2. CASE sid[q] # None /\ ~PostUpdate(q)
      <4>1. pc[q] # "aborted"
        BY <2>4 DEF Act, Step, Authenticate, ServicesFail, StartSession, AssignResp, ReadSessionId,
           SetSessionId, SetVariableName, SetDataObject, SerialiseForDigest, SerialiseForSignature,
           PostUpdate, GenerateToken, HandOverToAcm, HandOverToIdp, GivesUp, CallFails
      <4>2. store'[sid[q]] = store[sid[q]]
        BY <2>2, <2>4, <3>2, <4>1, PostsReachOnlyMine
      <4> QED
        BY <1>3, <2>2, <2>4, <3>2, <4>1, <4>2, AnsweredStep
    <3>3. CASE sid[q] # None /\ PostUpdate(q)
      <4>1. /\ pc[q] = "post" /\ auth[q] \in Authenticators /\ round[q] \in 1..Rounds(q)
        BY <2>1, <3>3 DEF PostUpdate, Control, Updating, TypeOK
      <4>2. /\ updateDR[auth[q]].sessionId = sid[q]
            /\ updateDR[auth[q]].variableName = Variable[round[q]]
            /\ updateDR[auth[q]].dataObject = Payload(q, Variable[round[q]])
        BY <2>1, <4>1 DEF FieldsAreOwn
      <4>3. /\ sid'[q] = sid[q] /\ Rounds(q)' = Rounds(q)
            /\ Answered(q, i)' <=> Answered(q, i) \/ i = round[q]
        BY <1>3, <2>4, <3>3, AnsweredStep
      <4>4. ~Answered(q, round[q]) /\ round[q] \in 1..Documents + 1
        BY <4>1, VariableNames DEF Answered, Finishing
      <4>5. Variable[round[q]] \notin refused[q]
        BY <4>1, <4>4 DEF RefusalsAreAnswered
      <4>6. i # round[q] => Variable[i] # Variable[round[q]]
        BY <4>4, VariableNames
      <4>7. Variable[i] \in Variables /\ Variable[round[q]] \in Variables
        BY <4>4, VariableNames
      <4>8. CASE /\ store' = [store EXCEPT ![sid[q]][Variable[round[q]]] = Payload(q, Variable[round[q]])]
                 /\ refused' = refused
        <5>1. store'[sid[q]] = [store[sid[q]] EXCEPT ![Variable[round[q]]] = Payload(q, Variable[round[q]])]
          BY <2>2, <3>3, <4>1, <4>8 DEF TypeOK
        <5>2. store[sid[q]] \in [Variables -> Payloads \cup {None}]
          BY <2>2, <3>3, <4>1 DEF TypeOK
        <5>3. store'[sid[q]][Variable[i]] =
                IF i = round[q] THEN Payload(q, Variable[i]) ELSE store[sid[q]][Variable[i]]
          BY <4>6, <4>7, <5>1, <5>2
        <5>4. CASE i = round[q]
          BY <4>1, <4>3, <4>5, <4>8, <5>3, <5>4
        <5>5. CASE i # round[q]
          BY <2>2, <3>3, <4>1, <4>3, <4>8, <5>3, <5>5
        <5> QED
          BY <5>4, <5>5
      <4>9. CASE store' = store /\ refused' = [refused EXCEPT ![q] = @ \cup {Variable[round[q]]}]
        <5>1. refused'[q] = refused[q] \cup {Variable[round[q]]}
          BY <4>9 DEF TypeOK
        <5>2. CASE i = round[q]
          BY <2>2, <3>3, <4>1, <4>3, <4>4, <4>9, <5>1, <5>2
        <5>3. CASE i # round[q]
          BY <2>2, <3>3, <4>1, <4>3, <4>6, <4>9, <5>1, <5>3
        <5> QED
          BY <5>2, <5>3
      <4> QED
        BY <3>3, <4>2, <4>8, <4>9 DEF PostUpdate
    <3> QED
      BY <3>1, <3>2, <3>3
  <2>5. CASE UNCHANGED vars
    BY <1>3, <2>2, <2>5 DEF vars, locals, manager, Answered, Rounds
  <2> QED
    BY <2>3, <2>4, <2>5, NextIsAct
<1> QED
  BY <1>1, <1>2, <1>3 DEF StoreIsOwnWhenAlone, Alone, Payload, Variable

LEMMA IsolationInit == Init => IsolationInv
<1> SUFFICES ASSUME Init PROVE IsolationInv
  OBVIOUS
<1>1. TypeOK /\ ControlOK
  BY TypeInit
<1>2. OverlapIsMarked
  BY DEF Init, OverlapIsMarked, Active
<1>3. SessionsAreTraced
  BY DEF Init, SessionsAreTraced, Traced, Empty, Response
<1>4. FieldsAreOwnWhenAlone
  BY DEF Init, FieldsAreOwnWhenAlone, FieldsAreOwn, HandedOver
<1>5. RefusalsAreAnswered
  BY DEF Init, RefusalsAreAnswered
<1>6. StoreIsOwnWhenAlone
  BY DEF Init, StoreIsOwnWhenAlone
<1> QED
  BY <1>1, <1>2, <1>3, <1>4, <1>5, <1>6 DEF IsolationInv

LEMMA IsolationStep == IsolationInv /\ [Next]_vars => IsolationInv'
<1> SUFFICES ASSUME IsolationInv, [Next]_vars PROVE IsolationInv'
  OBVIOUS
<1>1. TypeOK' /\ ControlOK'
  BY TypeStep, ControlStep DEF IsolationInv
<1>2. OverlapIsMarked' /\ SessionsAreTraced' /\ FieldsAreOwnWhenAlone' /\ RefusalsAreAnswered'
  BY MarkStep, TracedStep, FieldsStep, RefusalStep DEF IsolationInv
<1>3. StoreIsOwnWhenAlone'
  BY StoreStep
<1> QED
  BY <1>1, <1>2, <1>3 DEF IsolationInv

LEMMA InvariantIsolates == IsolationInv => IsolatedWhenAlone /\ SignedAsPostedWhenAlone
<1> SUFFICES ASSUME IsolationInv PROVE IsolatedWhenAlone /\ SignedAsPostedWhenAlone
  OBVIOUS
<1> USE DEF IsolationInv
<1>1. ASSUME NEW r \in Requests, HandedOver(r), Alone(r)
      PROVE  /\ owner[sid[r]] = r
             /\ IF auth[r] = "esmo"
                THEN notes[r] \in {Note("true", sid[r], "false", None), Note("true", None, "false", None)}
                ELSE notes[r] = Note("false", None, "true", sid[r])
             /\ \A i \in 1..Documents + 1 :
                 store[sid[r]][Variable[i]] =
                     IF i <= Rounds(r) /\ Variable[i] \notin refused[r]
                     THEN Payload(r, Variable[i]) ELSE None
  <2>1. Control(r) /\ Traced(r) /\ FieldsAreOwn(r)
    BY <1>1 DEF ControlOK, SessionsAreTraced, FieldsAreOwnWhenAlone
  <2>2. /\ sid[r] # None /\ round[r] = Rounds(r) /\ pc[r] = "done"
        /\ owner[sid[r]] = r
    BY <1>1, <2>1 DEF Control, HandedOver, Traced, Mine, Alone
  <2>3. ASSUME auth[r] = "esmo"
        PROVE  notes[r] \in {Note("true", sid[r], "false", None), Note("true", None, "false", None)}
    <3>1. notes[r] = Note("true", notes[r].token, "false", None)
      BY <1>1, <2>1, <2>3 DEF Control, Note, Notes, TypeOK
    <3>2. notes[r].token \in {None, sid[r]}
      BY <1>1, <2>1 DEF FieldsAreOwn
    <3>3. notes[r] = Note("true", None, "false", None) \/ notes[r] = Note("true", sid[r], "false", None)
      BY <3>1, <3>2
    <3> QED
      BY <3>3
  <2>4. ASSUME auth[r] # "esmo" PROVE notes[r] = Note("false", None, "true", sid[r])
    <3>1. IF auth[r] = "esmo" THEN TRUE ELSE notes[r] = Note("false", None, "true", sid[r])
      BY <1>1, <2>1 DEF Control
    <3> QED
      BY <2>4, <3>1
  <2>5. ASSUME NEW i \in 1..Documents + 1
        PROVE  store[sid[r]][Variable[i]] =
                   IF i <= Rounds(r) /\ Variable[i] \notin refused[r]
                   THEN Payload(r, Variable[i]) ELSE None
    <3>1. Answered(r, i) <=> i <= Rounds(r)
      <4>1. i \in 1..4 /\ Rounds(r) \in 1..4
        BY VariableNames
      <4> QED
        BY <2>2, <4>1 DEF Answered
    <3> QED
      BY <1>1, <2>2, <3>1 DEF StoreIsOwnWhenAlone
  <2>6. IF auth[r] = "esmo"
        THEN notes[r] \in {Note("true", sid[r], "false", None), Note("true", None, "false", None)}
        ELSE notes[r] = Note("false", None, "true", sid[r])
    BY <2>3, <2>4
  <2> QED
    BY <2>2, <2>5, <2>6
<1>2. SignedAsPostedWhenAlone
  BY DEF SignedAsPostedWhenAlone, SignatureMatches, FieldsAreOwnWhenAlone, FieldsAreOwn
<1> QED
  BY <1>1, <1>2 DEF IsolatedWhenAlone

(* The inductive invariant: what each login of an authenticator holds, and  *)
(* what it finds in the fields that it shares, at each of its steps.        *)
THEOREM IsolationInvariant == Spec => []IsolationInv
<1> QED
  BY IsolationInit, IsolationStep, PTL DEF Spec

(* However many logins share an authenticator before and after it, a login  *)
(* that none overlaps hands over its own session with its own documents.    *)
THEOREM Isolation == Spec => []IsolatedWhenAlone
<1> QED
  BY IsolationInvariant, InvariantIsolates, PTL

(* The Session Manager has a signature mismatch to reject only when another *)
(* login of the same authenticator changed the request object meanwhile.    *)
THEOREM SignaturesAgree == Spec => []SignedAsPostedWhenAlone
<1> QED
  BY IsolationInvariant, InvariantIsolates, PTL

-----------------------------------------------------------------------------
(* The two authenticators do not mix. *)

(* A login never changes its authenticator. *)
LEMMA AuthenticatorStays ==
    ASSUME TypeOK, ControlOK, [Next]_vars, NEW q \in Requests, auth[q] # None
    PROVE  auth'[q] = auth[q]
<1>1. ASSUME NEW r \in Requests, Act(r), q # r PROVE auth'[q] = auth[q]
  BY <1>1, OthersKeepLocals
<1>2. ASSUME Act(q) PROVE auth'[q] = auth[q]
  <2>1. ~Authenticate(q)
    BY DEF Authenticate, ControlOK, Control
  <2> QED
    BY <1>2, <2>1 DEF Act, Step, ServicesFail, StartSession, AssignResp, ReadSessionId, SetSessionId,
       SetVariableName, SetDataObject, SerialiseForDigest, SerialiseForSignature, PostUpdate,
       GenerateToken, HandOverToAcm, HandOverToIdp, GivesUp, CallFails, locals
<1> QED
  BY <1>1, <1>2, NextIsAct DEF vars, locals

LEMMA OfAuthenticatorStays ==
    ASSUME TypeOK, ControlOK, [Next]_vars, NEW s \in SessionIds, NEW a \in Authenticators,
           OfAuthenticator(s, a)
    PROVE  OfAuthenticator(s, a)'
<1>1. owner'[s] = owner[s] /\ owner[s] \in Requests
  BY OwnersAndMarksStay DEF OfAuthenticator, TypeOK
<1>2. auth'[owner[s]] = auth[owner[s]]
  BY <1>1, AuthenticatorStays, SpRequestAssumption DEF OfAuthenticator
<1> QED
  BY <1>1, <1>2 DEF OfAuthenticator

LEMMA SourcesInit == Init => SourcesOK
BY DEF Init, SourcesOK, Empty, Response, NewUpdateRequest, Note

LEMMA SourcesStep == MixingInv /\ [Next]_vars => SourcesOK'
<1> SUFFICES ASSUME MixingInv, [Next]_vars PROVE SourcesOK'
  OBVIOUS
<1> USE DEF MixingInv
<1>t. TypeOK' /\ ControlOK'
  BY TypeStep, ControlStep
<1>s. \A s \in SessionIds, a \in Authenticators : OfAuthenticator(s, a) => OfAuthenticator(s, a)'
  BY OfAuthenticatorStays
<1>a. \A r \in Requests : pc[r] \notin {"idle", "aborted"} => auth[r] \in Authenticators
  BY DEF TypeOK, ControlOK, Control
<1>l. \A r \in Requests : sid[r] # None =>
         sid[r] \in SessionIds /\ auth[r] \in Authenticators /\ OfAuthenticator(sid[r], auth[r])
  <2>1. ASSUME NEW r \in Requests, sid[r] # None
        PROVE  sid[r] \in SessionIds /\ auth[r] \in Authenticators /\ OfAuthenticator(sid[r], auth[r])
    <3>1. sid[r] \in SessionIds /\ OfAuthenticator(sid[r], auth[r])
      BY <2>1 DEF SourcesOK, TypeOK
    <3>2. auth[r] \in Authenticators
      BY <3>1 DEF SourcesOK, OfAuthenticator, TypeOK
    <3> QED
      BY <3>1, <3>2
  <2> QED
    BY <2>1
<1>1. ASSUME NEW a \in Authenticators
      PROVE  /\ resp'[a].sessionData # None => OfAuthenticator(resp[a].sessionData, a)'
             /\ resp'[a].additionalData # None => OfAuthenticator(resp[a].additionalData, a)'
  <2>1. CASE resp'[a] = resp[a]
    <3>1. /\ resp[a].sessionData # None =>
               resp[a].sessionData \in SessionIds /\ OfAuthenticator(resp[a].sessionData, a)
          /\ resp[a].additionalData # None =>
               resp[a].additionalData \in SessionIds /\ OfAuthenticator(resp[a].additionalData, a)
      BY RecordTypes DEF SourcesOK, TypeOK
    <3>2. ASSUME NEW s \in SessionIds, OfAuthenticator(s, a) PROVE OfAuthenticator(s, a)'
      BY <3>2, <1>s
    <3> QED
      BY <2>1, <3>1, <3>2 DEF OfAuthenticator
  <2>2. ASSUME NEW r \in Requests, Act(r), resp'[a] # resp[a]
        PROVE  /\ resp'[a].sessionData # None => OfAuthenticator(resp[a].sessionData, a)'
               /\ resp'[a].additionalData # None => OfAuthenticator(resp[a].additionalData, a)'
    <3>1. AssignResp(r) /\ auth[r] = a
      <4>1. Active(r) /\ auth[r] = a
        BY <2>2, FieldsChangeByOwnLogins
      <4> QED
        BY <2>2, <4>1 DEF Act, Step, Authenticate, Active, ServicesFail, StartSession, ReadSessionId,
           SetSessionId, SetVariableName, SetDataObject, SerialiseForDigest, SerialiseForSignature,
           PostUpdate, GenerateToken, HandOverToAcm, HandOverToIdp, GivesUp, CallFails, shared
    <3>2. resp'[a] = reply[r] /\ owner' = owner /\ auth' = auth
      BY <3>1 DEF AssignResp, manager, TypeOK
    <3>3. reply[r].sessionData # None => OfAuthenticator(reply[r].sessionData, a)
      BY <3>1, SpRequestAssumption DEF SessionsAreTraced, Traced, OfAuthenticator
    <3>4. reply[r].additionalData # None => OfAuthenticator(reply[r].additionalData, a)
      BY <1>l, <3>1 DEF SessionsAreTraced, Traced
    <3> QED
      BY <3>2, <3>3, <3>4 DEF OfAuthenticator
  <2>3. CASE UNCHANGED vars
    BY <2>1, <2>3 DEF vars, shared
  <2> QED
    BY <2>1, <2>2, <2>3, NextIsAct
<1>2. ASSUME NEW a \in Authenticators
      PROVE  /\ updateDR'[a].sessionId # None => OfAuthenticator(updateDR[a].sessionId, a)'
             /\ updateDR'[a].dataObject # None => auth'[updateDR'[a].dataObject.of] = a
  <2>1. CASE updateDR'[a] = updateDR[a]
    <3>1. /\ updateDR[a].sessionId # None =>
               updateDR[a].sessionId \in SessionIds /\ OfAuthenticator(updateDR[a].sessionId, a)
          /\ updateDR[a].dataObject # None =>
               updateDR[a].dataObject.of \in Requests /\ auth[updateDR[a].dataObject.of] = a
      BY RecordTypes DEF SourcesOK, TypeOK, Payloads
    <3>2. ASSUME NEW s \in SessionIds, OfAuthenticator(s, a) PROVE OfAuthenticator(s, a)'
      BY <3>2, <1>s
    <3>3. updateDR[a].sessionId # None => OfAuthenticator(updateDR[a].sessionId, a)'
      BY <2>1, <3>1, <3>2 DEF OfAuthenticator
    <3>4. ASSUME NEW q \in Requests, auth[q] = a PROVE auth'[q] = a
      BY <3>4, AuthenticatorStays, SpRequestAssumption
    <3> QED
      BY <2>1, <3>1, <3>3, <3>4
  <2>2. ASSUME NEW r \in Requests, Act(r), updateDR'[a] # updateDR[a]
        PROVE  /\ updateDR'[a].sessionId # None => OfAuthenticator(updateDR[a].sessionId, a)'
               /\ updateDR'[a].dataObject # None => auth'[updateDR'[a].dataObject.of] = a
    <3>1. Active(r) /\ auth[r] = a
      BY <2>2, FieldsChangeByOwnLogins
    <3>2. SetSessionId(r) \/ SetVariableName(r) \/ SetDataObject(r)
      BY <2>2, <3>1 DEF Act, Step, Authenticate, Active, ServicesFail, StartSession, AssignResp,
         ReadSessionId, SerialiseForDigest, SerialiseForSignature, PostUpdate, GenerateToken,
         HandOverToAcm, HandOverToIdp, GivesUp, CallFails, shared
    <3>3. owner' = owner /\ auth' = auth
      BY <3>2 DEF SetSessionId, SetVariableName, SetDataObject, manager, locals
    <3>4. \/ updateDR'[a].sessionId = updateDR[a].sessionId
          \/ updateDR'[a].sessionId = sid[r] /\ sid[r] # None
      BY <3>1, <3>2 DEF SetSessionId, SetVariableName, SetDataObject, TypeOK, UpdateRequests,
         ControlOK, Control, Updating
    <3>5. \/ updateDR'[a].dataObject = updateDR[a].dataObject
          \/ updateDR'[a].dataObject.of = r
      BY <3>1, <3>2 DEF SetSessionId, SetVariableName, SetDataObject, TypeOK, UpdateRequests, Payload
    <3>6. updateDR'[a].sessionId # None => OfAuthenticator(updateDR'[a].sessionId, a)
      BY <1>l, <3>1, <3>4 DEF SourcesOK
    <3> QED
      BY <3>1, <3>3, <3>5, <3>6 DEF SourcesOK, OfAuthenticator
  <2>3. CASE UNCHANGED vars
    BY <2>1, <2>3 DEF vars, shared
  <2> QED
    BY <2>1, <2>2, <2>3, NextIsAct
<1>3. ASSUME NEW r \in Requests, sid'[r] # None PROVE OfAuthenticator(sid[r], auth[r])'
  <2>1. CASE sid'[r] = sid[r]
    <3>1. OfAuthenticator(sid[r], auth[r]) /\ sid[r] \in SessionIds /\ auth[r] \in Authenticators
      BY <1>3, <1>l, <2>1
    <3>2. auth'[r] = auth[r]
      BY <3>1, AuthenticatorStays, SpRequestAssumption
    <3>3. ASSUME NEW s \in SessionIds, NEW a \in Authenticators, OfAuthenticator(s, a)
          PROVE  OfAuthenticator(s, a)'
      BY <3>3, <1>s
    <3> QED
      BY <2>1, <3>1, <3>2, <3>3 DEF OfAuthenticator
  <2>2. ASSUME NEW q \in Requests, Act(q), sid'[r] # sid[r] PROVE OfAuthenticator(sid[r], auth[r])'
    <3>1. q = r
      BY <2>2, OthersKeepLocals
    <3>2. ReadSessionId(r)
      BY <2>2, <3>1 DEF Act, Step, Authenticate, ServicesFail, StartSession, AssignResp, SetSessionId,
         SetVariableName, SetDataObject, SerialiseForDigest, SerialiseForSignature, PostUpdate,
         GenerateToken, HandOverToAcm, HandOverToIdp, GivesUp, CallFails, locals
    <3>3. /\ auth[r] \in Authenticators /\ sid'[r] = resp[auth[r]].sessionData
          /\ owner' = owner /\ auth' = auth
      BY <1>a, <2>2, <3>2 DEF ReadSessionId, manager, TypeOK
    <3>4. OfAuthenticator(resp[auth[r]].sessionData, auth[r])
      BY <1>3, <3>3 DEF SourcesOK
    <3> QED
      BY <3>3, <3>4 DEF OfAuthenticator
  <2>3. CASE UNCHANGED vars
    BY <2>1, <2>3 DEF vars, locals
  <2> QED
    BY <2>1, <2>2, <2>3, NextIsAct
<1>4. ASSUME NEW r \in Requests, notes'[r].token # None PROVE OfAuthenticator(notes[r].token, "esmo")'
  <2>1. CASE notes'[r] = notes[r]
    <3>1. OfAuthenticator(notes[r].token, "esmo") /\ notes[r].token \in SessionIds
      BY <1>4, <2>1 DEF SourcesOK, TypeOK, Notes
    <3>2. ASSUME NEW s \in SessionIds, OfAuthenticator(s, "esmo") PROVE OfAuthenticator(s, "esmo")'
      BY <3>2, <1>s DEF Authenticators
    <3> QED
      BY <2>1, <3>1, <3>2 DEF OfAuthenticator
  <2>2. ASSUME NEW q \in Requests, Act(q), notes'[r] # notes[r] PROVE OfAuthenticator(notes[r].token, "esmo")'
    <3>1. q = r
      BY <2>2, OthersKeepLocals
    <3>2. HandOverToAcm(r)
      BY <1>4, <2>2, <3>1 DEF Act, Step, Authenticate, ServicesFail, StartSession, AssignResp, ReadSessionId,
         SetSessionId, SetVariableName, SetDataObject, SerialiseForDigest, SerialiseForSignature, PostUpdate,
         GenerateToken, HandOverToIdp, GivesUp, CallFails, locals, Note, TypeOK
    <3>3. auth[r] = "esmo" /\ "esmo" \in Authenticators
      BY <3>2 DEF HandOverToAcm, ControlOK, Control, Authenticators
    <3>4. notes'[r].token = resp["esmo"].additionalData /\ owner' = owner /\ auth' = auth
      BY <3>2, <3>3 DEF HandOverToAcm, Note, manager, TypeOK
    <3>5. OfAuthenticator(resp["esmo"].additionalData, "esmo")
      BY <1>4, <3>3, <3>4 DEF SourcesOK
    <3> QED
      BY <3>4, <3>5 DEF OfAuthenticator
  <2>3. CASE UNCHANGED vars
    BY <2>1, <2>3 DEF vars, locals
  <2> QED
    BY <2>1, <2>2, <2>3, NextIsAct
<1>5. ASSUME NEW s \in SessionIds, owner'[s] # None PROVE auth'[owner'[s]] # None
  <2>1. CASE owner[s] # None
    BY <2>1, OwnersAndMarksStay, AuthenticatorStays DEF SourcesOK, TypeOK
  <2>2. ASSUME NEW q \in Requests, Act(q), owner[s] = None PROVE auth'[owner'[s]] # None
    <3>1. StartSession(q) /\ owner'[s] = q
      BY <1>5, <2>2 DEF Act, Step, Authenticate, ServicesFail, StartSession, AssignResp, ReadSessionId,
         SetSessionId, SetVariableName, SetDataObject, SerialiseForDigest, SerialiseForSignature, PostUpdate,
         GenerateToken, HandOverToAcm, HandOverToIdp, GivesUp, CallFails, manager, TypeOK
    <3>2. auth'[q] = auth[q] /\ auth[q] \in Authenticators
      BY <1>a, <3>1 DEF StartSession
    <3> QED
      BY <3>1, <3>2, SpRequestAssumption
  <2>3. CASE UNCHANGED vars
    BY <1>5, <2>3 DEF vars, locals, manager, SourcesOK
  <2> QED
    BY <2>1, <2>2, <2>3, NextIsAct
<1>6. ASSUME NEW s \in SessionIds, NEW v \in Variables, store'[s][v] # None
      PROVE  owner'[s] # None /\ auth'[store'[s][v].of] = auth'[owner'[s]]
  <2>1. ASSUME owner[s] # None, store'[s][v].of \in Requests, auth[store'[s][v].of] = auth[owner[s]]
        PROVE  owner'[s] # None /\ auth'[store'[s][v].of] = auth'[owner'[s]]
    <3>1. owner'[s] = owner[s] /\ owner[s] \in Requests /\ auth[owner[s]] # None
      BY <2>1, OwnersAndMarksStay DEF SourcesOK, TypeOK
    <3> QED
      BY <2>1, <3>1, AuthenticatorStays
  <2>2. CASE store'[s][v] = store[s][v]
    <3>1. store[s][v].of \in Requests
      BY <1>6, <2>2 DEF TypeOK, Payloads
    <3> QED
      BY <1>6, <2>1, <2>2, <3>1 DEF SourcesOK
  <2>3. ASSUME NEW q \in Requests, Act(q), store'[s][v] # store[s][v]
        PROVE  owner'[s] # None /\ auth'[store'[s][v].of] = auth'[owner'[s]]
    <3>1. PostUpdate(q) /\ s = updateDR[auth[q]].sessionId
      BY <2>3, PostsReachOnlyMine
    <3>2. auth[q] \in Authenticators
      BY <1>a, <3>1 DEF PostUpdate
    <3>3. store'[s][v] = updateDR[auth[q]].dataObject
      <4> DEFINE body == updateDR[auth[q]]
      <4>1. store'[s] = [store[s] EXCEPT ![body.variableName] = body.dataObject]
        BY <2>3, <3>1 DEF PostUpdate, TypeOK
      <4>2. store[s] \in [Variables -> Payloads \cup {None}]
        BY DEF TypeOK
      <4> QED
        BY <2>3, <4>1, <4>2
    <3>4. /\ OfAuthenticator(s, auth[q])
          /\ updateDR[auth[q]].dataObject.of \in Requests
          /\ auth[updateDR[auth[q]].dataObject.of] = auth[q]
      BY <1>6, <3>1, <3>2, <3>3, SpRequestAssumption, RecordTypes DEF SourcesOK, TypeOK, Payloads
    <3> QED
      BY <2>1, <3>3, <3>4 DEF OfAuthenticator
  <2>4. CASE UNCHANGED vars
    BY <2>2, <2>4 DEF vars, manager
  <2> QED
    BY <2>2, <2>3, <2>4, NextIsAct
<1> QED
  BY <1>1, <1>2, <1>3, <1>4, <1>5, <1>6 DEF SourcesOK

(* The inductive invariant: where the contents of each authenticator's      *)
(* fields, and what its logins hold, come from.                             *)
THEOREM MixingInvariant == Spec => []MixingInv
<1>1. IsolationInv /\ SourcesOK => MixingInv
  BY DEF IsolationInv, MixingInv
<1>2. IsolationInv /\ SourcesOK /\ [Next]_vars => SourcesOK'
  BY <1>1, SourcesStep
<1> QED
  BY <1>1, <1>2, IsolationInit, IsolationStep, SourcesInit, PTL DEF Spec

(* However logins interleave, an ESMO login and an eIDAS login never get    *)
(* hold of each other's sessions, tokens or documents.                      *)
THEOREM NoMixing == Spec => []AuthenticatorsDoNotMix
<1>1. MixingInv => AuthenticatorsDoNotMix
  BY DEF MixingInv, SourcesOK, OfAuthenticator, AuthenticatorsDoNotMix
<1> QED
  BY <1>1, MixingInvariant, PTL

-----------------------------------------------------------------------------
(* Every login gets nearer to its end with each of its steps. *)

(* The labels of a login, and its position at each. *)
LEMMA Positions ==
    /\ Position["idle"] = 14 /\ Position["startSession"] = 6 /\ Position["assignSession"] = 5
    /\ Position["readSession"] = 4 /\ Position["setSessionId"] = 10
    /\ Position["setVariableName"] = 9 /\ Position["setDataObject"] = 8
    /\ Position["digest"] = 7 /\ Position["sign"] = 6 /\ Position["post"] = 5
    /\ Position["assignUpdate"] = 4 /\ Position["generateToken"] = 3
    /\ Position["assignToken"] = 2 /\ Position["readToken"] = 1 /\ Position["handOver"] = 1
    /\ Position["done"] = 0 /\ Position["aborted"] = 0
BY DEF Position

(* What the control says of the update in progress. *)
LEMMA RoundsAtLabels ==
    ASSUME TypeOK, ControlOK, NEW r \in Requests
    PROVE  /\ Rounds(r) \in 1..Documents + 1 /\ Documents \in 1..3 /\ round[r] \in 0..4
           /\ pc[r] \in {"startSession", "assignSession", "readSession"} => round[r] = 0
           /\ pc[r] \in Updating => round[r] \in 1..Rounds(r)
BY VariableNames DEF TypeOK, ControlOK, Control

LEMMA StepsLeftInRange ==
    ASSUME TypeOK, ControlOK, NEW r \in Requests
    PROVE  StepsLeft(r) \in 0..7 * Documents + 14
<1>1. pc[r] \in Labels
  BY DEF TypeOK
<1>2. CASE pc[r] \in {"startSession", "assignSession", "readSession"}
  BY <1>2, RoundsAtLabels, Positions DEF StepsLeft
<1>3. CASE pc[r] \in Updating
  <2>1. Position[pc[r]] \in 4..10
    BY <1>3, Positions DEF Updating
  <2>2. StepsLeft(r) = Position[pc[r]] + 7 * (Rounds(r) - round[r])
    BY <1>3 DEF StepsLeft, Updating
  <2> QED
    BY <1>3, <2>1, <2>2, RoundsAtLabels
<1>4. CASE pc[r] \in {"idle", "generateToken", "assignToken", "readToken", "handOver", "done", "aborted"}
  BY <1>4, RoundsAtLabels, Positions DEF StepsLeft
<1> QED
  BY <1>1, <1>2, <1>3, <1>4 DEF Labels, Updating

LEMMA StepCounts ==
    ASSUME TypeOK, ControlOK, NEW r \in Requests, Act(r)
    PROVE  StepsLeft(r)' < StepsLeft(r)
<1>1. /\ Rounds(r) \in 1..Documents + 1 /\ Documents \in 1..3 /\ round[r] \in 0..4
      /\ pc[r] \in {"startSession", "assignSession", "readSession"} => round[r] = 0
      /\ pc[r] \in Updating => round[r] \in 1..Rounds(r)
  BY RoundsAtLabels
<1>2. CASE Authenticate(r)
  <2>1. pc[r] = "idle" /\ pc'[r] = "startSession" /\ round'[r] = round[r]
    BY <1>2 DEF Authenticate, TypeOK
  <2>2. Rounds(r)' \in 1..Documents + 1
    BY <1>1 DEF Rounds
  <2> QED
    BY <1>1, <2>1, <2>2, Positions DEF StepsLeft
<1>3. CASE ServicesFail(r)
  BY <1>1, <1>3, Positions DEF ServicesFail, StepsLeft, TypeOK
<1>4. CASE Step(r)
  <2>1. Rounds(r)' = Rounds(r)
    BY <1>4 DEF Step, StartSession, AssignResp, ReadSessionId, SetSessionId, SetVariableName,
           SetDataObject, SerialiseForDigest, SerialiseForSignature, PostUpdate, GenerateToken,
           HandOverToAcm, HandOverToIdp, GivesUp, CallFails, locals, Rounds
  <2>2. CASE AssignResp(r)
    <3>1. CASE pc[r] = "assignUpdate" /\ round[r] # Rounds(r)
      <4>1. pc'[r] = "setSessionId" /\ round'[r] = round[r] + 1
        BY <2>2, <3>1 DEF AssignResp, TypeOK
      <4> QED
        BY <1>1, <2>1, <3>1, <4>1, Positions DEF StepsLeft, Updating
    <3>2. CASE pc[r] = "assignUpdate" /\ round[r] = Rounds(r)
      <4>1. pc'[r] \in {"generateToken", "handOver"}
        BY <2>2, <3>2 DEF AssignResp, TypeOK
      <4> QED
        BY <1>1, <3>2, <4>1, Positions DEF StepsLeft
    <3>3. CASE pc[r] # "assignUpdate"
      <4>1. /\ round'[r] = round[r]
            /\ \/ pc[r] = "assignSession" /\ pc'[r] = "readSession"
               \/ pc[r] = "assignToken" /\ pc'[r] = "readToken"
        BY <2>2, <3>3 DEF AssignResp, TypeOK
      <4> QED
        BY <1>1, <2>1, <4>1, Positions DEF StepsLeft
    <3> QED
      BY <3>1, <3>2, <3>3
  <2>3. CASE ReadSessionId(r)
    BY <1>1, <2>1, <2>3, Positions DEF ReadSessionId, StepsLeft, TypeOK
  <2>4. CASE \/ StartSession(r) \/ SetSessionId(r) \/ SetVariableName(r) \/ SetDataObject(r)
             \/ SerialiseForDigest(r) \/ SerialiseForSignature(r) \/ PostUpdate(r)
             \/ GenerateToken(r) \/ HandOverToAcm(r) \/ HandOverToIdp(r)
    <3>1. round'[r] = round[r]
      BY <2>4 DEF StartSession, SetSessionId, SetVariableName,
         SetDataObject, SerialiseForDigest, SerialiseForSignature, PostUpdate, GenerateToken,
         HandOverToAcm, HandOverToIdp, locals
    <3>2. \/ pc[r] = "startSession" /\ pc'[r] = "assignSession"
          \/ pc[r] = "setSessionId" /\ pc'[r] = "setVariableName"
          \/ pc[r] = "setVariableName" /\ pc'[r] = "setDataObject"
          \/ pc[r] = "setDataObject" /\ pc'[r] = "digest"
          \/ pc[r] = "digest" /\ pc'[r] = "sign"
          \/ pc[r] = "sign" /\ pc'[r] = "post"
          \/ pc[r] = "post" /\ pc'[r] = "assignUpdate"
          \/ pc[r] = "generateToken" /\ pc'[r] = "assignToken"
          \/ pc[r] \in {"readToken", "handOver"} /\ pc'[r] = "done"
      BY <2>4 DEF StartSession, SetSessionId, SetVariableName,
         SetDataObject, SerialiseForDigest, SerialiseForSignature, PostUpdate, GenerateToken,
         HandOverToAcm, HandOverToIdp, TypeOK
    <3>3. CASE pc[r] = "startSession" \/ pc[r] = "generateToken"
               \/ pc[r] \in {"readToken", "handOver"}
      BY <1>1, <2>1, <3>1, <3>2, <3>3, Positions DEF StepsLeft
    <3>4. CASE pc[r] \in {"setSessionId", "setVariableName", "setDataObject"}
      BY <1>1, <2>1, <3>1, <3>2, <3>4, Positions DEF StepsLeft
    <3>5. CASE pc[r] \in {"digest", "sign", "post"}
      BY <1>1, <2>1, <3>1, <3>2, <3>5, Positions DEF StepsLeft
    <3> QED
      BY <3>2, <3>3, <3>4, <3>5
  <2>5. CASE GivesUp(r) \/ CallFails(r)
    <3>1. /\ pc[r] \in {"startSession", "assignSession", "assignUpdate", "assignToken",
                        "post", "generateToken"}
          /\ pc'[r] \in {"done", "aborted"}
      BY <2>5 DEF GivesUp, CallFails, TypeOK
    <3> QED
      BY <1>1, <3>1, Positions DEF StepsLeft, Updating
  <2> QED
    BY <1>4, <2>2, <2>3, <2>4, <2>5 DEF Step
<1> QED
  BY <1>2, <1>3, <1>4 DEF Act

(* No login takes more than 7 * Documents + 14 steps, whatever the logins   *)
(* it shares its authenticator with do meanwhile.                           *)
THEOREM StepsAreBounded == Spec => EveryStepCounts
<1> DEFINE InRange == \A r \in Requests : StepsLeft(r) \in 0..7 * Documents + 14
<1>1. TypeOK /\ ControlOK => InRange
  BY StepsLeftInRange
<1>2. ASSUME TypeOK /\ ControlOK, InRange, InRange', Next, ~UNCHANGED vars, NEW r \in Requests
      PROVE  /\ StepsLeft(r)' \in 0..7 * Documents + 14
             /\ StepsLeft(r)' <= StepsLeft(r)
             /\ Step(r) => StepsLeft(r)' < StepsLeft(r)
  <2>1. StepsLeft(r)' \in 0..7 * Documents + 14 /\ StepsLeft(r) \in 0..7 * Documents + 14
    BY <1>2
  <2> HIDE DEF InRange
  <2>2. StepsLeft(r)' \in Nat /\ StepsLeft(r) \in Nat
    BY <2>1, SpRequestAssumption
  <2>3. PICK q \in Requests : Act(q)
    BY <1>2 DEF Next, Act, vars
  <2>4. CASE q = r
    BY <1>2, <2>1, <2>2, <2>3, <2>4, StepCounts
  <2>5. CASE q # r
    <3>1. StepsLeft(r)' = StepsLeft(r)
      BY <1>2, <2>3, <2>5, OthersKeepLocals DEF StepsLeft, Rounds
    <3>2. Step(r) => StepsLeft(r)' < StepsLeft(r)
      BY <1>2, StepCounts DEF Act
    <3> QED
      BY <2>1, <2>2, <3>1, <3>2
  <2> QED
    BY <2>4, <2>5
<1>3. TypeOK /\ ControlOK /\ InRange /\ InRange' /\ [Next]_vars
        => [\A r \in Requests :
               /\ StepsLeft(r)' \in 0..7 * Documents + 14
               /\ StepsLeft(r)' <= StepsLeft(r)
               /\ Step(r) => StepsLeft(r)' < StepsLeft(r)]_vars
  BY <1>2
<1> QED
  BY <1>1, <1>3, TypeCorrect, PTL DEF EveryStepCounts, Spec
=============================================================================
