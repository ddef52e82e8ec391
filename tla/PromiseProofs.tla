----------------------------- MODULE PromiseProofs -----------------------------
(***************************************************************************)
(* SpRequest implements LoginHandOver: every step of a login is a hand-    *)
(* over, an end without one, a disturbance, or invisible to the promise.   *)
(***************************************************************************)
EXTENDS SpRequestProofs

(* Only the variables that logins store are ever stored. *)
UsedVariables == {Variable[i] : i \in 1..Documents + 1}
OnlyUsedVariables ==
    /\ \A a \in Authenticators : updateDR[a].variableName \in UsedVariables \cup {None}
    /\ \A s \in SessionIds, v \in Variables : store[s][v] # None => v \in UsedVariables

PromiseInv == IsolationInv /\ OnlyUsedVariables

LEMMA UsedInit == Init => OnlyUsedVariables
BY DEF Init, OnlyUsedVariables, NewUpdateRequest

LEMMA UsedStep == IsolationInv /\ OnlyUsedVariables /\ [Next]_vars => OnlyUsedVariables'
<1> SUFFICES ASSUME IsolationInv, OnlyUsedVariables, [Next]_vars PROVE OnlyUsedVariables'
  OBVIOUS
<1> USE DEF IsolationInv
<1>a. \A r \in Requests : pc[r] \notin {"idle", "aborted"} => auth[r] \in Authenticators
  BY DEF TypeOK, ControlOK, Control
<1>1. ASSUME NEW r \in Requests, Act(r) PROVE OnlyUsedVariables'
  <2>1. ASSUME NEW a \in Authenticators
        PROVE  updateDR'[a].variableName \in UsedVariables \cup {None}
    <3>1. CASE updateDR'[a] = updateDR[a]
      BY <3>1 DEF OnlyUsedVariables
    <3>2. CASE updateDR'[a] # updateDR[a]
      <4>1. SetSessionId(r) \/ SetVariableName(r) \/ SetDataObject(r)
        BY <1>1, <3>2 DEF Act, Step, Authenticate, ServicesFail, StartSession, AssignResp, Publish,
           ReadSessionId, SerialiseForDigest, SerialiseForSignature, PostUpdate, GenerateToken,
           HandOverToAcm, HandOverToIdp, GivesUp, CallFails, shared
      <4>2. updateDR'[a].variableName \in {updateDR[a].variableName, Variable[round[r]]}
        <5>1. updateDR[a] \in UpdateRequests
          BY DEF TypeOK
        <5>2. PICK u \in {[updateDR[auth[r]] EXCEPT !.sessionId = sid[r]],
                          [updateDR[auth[r]] EXCEPT !.variableName = Variable[round[r]]],
                          [updateDR[auth[r]] EXCEPT !.dataObject = Payload(r, Variable[round[r]])]} :
                updateDR' = [updateDR EXCEPT ![auth[r]] = u]
          BY <4>1 DEF SetSessionId, SetVariableName, SetDataObject, Set
        <5>3. a = auth[r] /\ updateDR'[a] = u
          BY <3>2, <5>2 DEF TypeOK
        <5> QED
          BY <5>1, <5>2, <5>3 DEF UpdateRequests
      <4>3. Variable[round[r]] \in UsedVariables
        <5>1. pc[r] \in Updating
          BY <4>1 DEF SetSessionId, SetVariableName, SetDataObject, Set, Updating
        <5>2. round[r] \in 1..Rounds(r)
          BY <5>1 DEF ControlOK, Control
        <5>3. round[r] \in 1..Documents + 1
          BY <5>2, VariableNames, SpRequestAssumption
        <5> QED
          BY <5>3 DEF UsedVariables
      <4> QED
        BY <4>2, <4>3 DEF OnlyUsedVariables
    <3> QED
      BY <3>1, <3>2
  <2>2. ASSUME NEW s \in SessionIds, NEW v \in Variables, store'[s][v] # None
        PROVE  v \in UsedVariables
    <3>1. CASE store'[s] = store[s]
      BY <2>2, <3>1 DEF OnlyUsedVariables
    <3>2. CASE store'[s] # store[s]
      <4> DEFINE body == updateDR[auth[r]]
      <4>1. PostUpdate(r)
        BY <1>1, <3>2, PostsReachOnlyMine
      <4>2. auth[r] \in Authenticators
        BY <1>a, <4>1 DEF PostUpdate
      <4>3. store' = [store EXCEPT ![body.sessionId][body.variableName] = body.dataObject]
        BY <3>2, <4>1 DEF PostUpdate
      <4>4. store[s] \in [Variables -> Payloads \cup {None}]
        BY DEF TypeOK
      <4>5. store'[s][v] = store[s][v] \/ v = body.variableName
        BY <4>3, <4>4 DEF TypeOK
      <4>6. v = body.variableName => v \in UsedVariables
        <5>1. None \notin Variables
          BY SpRequestAssumption
        <5> QED
          BY <4>2, <5>1 DEF OnlyUsedVariables
      <4> QED
        BY <2>2, <4>5, <4>6 DEF OnlyUsedVariables
    <3> QED
      BY <3>1, <3>2
  <2> QED
    BY <2>1, <2>2 DEF OnlyUsedVariables
<1>2. CASE UNCHANGED vars
  BY <1>2 DEF vars, shared, manager, OnlyUsedVariables
<1> QED
  BY <1>1, <1>2, NextIsAct

(* The promise of a login that a step leaves as it was. *)
LEMMA OthersKeepPromise ==
    ASSUME IsolationInv, IsolationInv', NEW r \in Requests, Act(r), NEW q \in Requests, q # r,
           overlapped'[q] = overlapped[q]
    PROVE  Outcome(q)' = Outcome(q) /\ HandedPackage(q)' = HandedPackage(q)
<1>1. pc'[q] = pc[q] /\ sid'[q] = sid[q] /\ notes'[q] = notes[q]
  BY OthersKeepLocals DEF IsolationInv
<1>2. Outcome(q)' = Outcome(q)
  BY <1>1 DEF Outcome, HandedOver
<1>3. ASSUME Outcome(q) = "handedOver" PROVE store'[sid[q]] = store[sid[q]]
  <2>1. HandedOver(q) /\ Alone(q)
    BY <1>3 DEF Outcome, Alone
  <2>2. owner[sid[q]] = q /\ sid[q] \in SessionIds
    BY <2>1 DEF IsolationInv, ControlOK, Control, SessionsAreTraced, Traced, Mine, Alone
  <2>3. SUFFICES ASSUME store'[sid[q]] # store[sid[q]] PROVE FALSE
    OBVIOUS
  <2>4. Mine(r, sid[q])
    BY <2>2, <2>3, PostsReachOnlyMine DEF IsolationInv
  <2> QED
    BY <2>1, <2>2, <2>4 DEF Mine, Alone
<1> QED
  BY <1>1, <1>2, <1>3 DEF HandedPackage

(* What a login that ran alone hands over is what it promised. *)
AsPromised(r) ==
    /\ sid[r] \in SessionIds /\ owner[sid[r]] = r
    /\ \E stored \in SUBSET Variables : HandedPackage(r) = Promise!Package(r, sid[r], stored)

AllAsPromised == \A r \in Requests : Outcome(r) = "handedOver" => AsPromised(r)

LEMMA HandedAsPromised == PromiseInv => AllAsPromised
<1> SUFFICES ASSUME PromiseInv, NEW r \in Requests, Outcome(r) = "handedOver"
             PROVE  AsPromised(r)
  BY DEF AllAsPromised
<1>1. HandedOver(r) /\ Alone(r)
  BY DEF Outcome, Alone
<1>2. sid[r] \in SessionIds /\ owner[sid[r]] = r
  BY <1>1 DEF PromiseInv, IsolationInv, ControlOK, Control, SessionsAreTraced, Traced, Mine, Alone
<1>3. IsolatedWhenAlone
  BY InvariantIsolates DEF PromiseInv
<1>4. ASSUME NEW v \in Variables
      PROVE  store[sid[r]][v] \in {Payload(r, v), None}
  <2>1. CASE store[sid[r]][v] # None
    <3>1. PICK i \in 1..Documents + 1 : v = Variable[i]
      BY <1>2, <2>1 DEF PromiseInv, OnlyUsedVariables, UsedVariables
    <3> QED
      BY <1>1, <1>3, <3>1 DEF IsolatedWhenAlone
  <2> QED
    BY <2>1
<1> DEFINE stored == {v \in Variables : store[sid[r]][v] # None}
<1>5. store[sid[r]] = [v \in Variables |-> IF v \in stored THEN [of |-> r, variable |-> v] ELSE None]
  <2>1. store[sid[r]] \in [Variables -> Payloads \cup {None}]
    BY <1>2 DEF PromiseInv, IsolationInv, TypeOK
  <2> QED
    BY <1>4, <2>1 DEF Payload
<1>6. HandedPackage(r) = Promise!Package(r, sid[r], stored)
  BY <1>5 DEF HandedPackage, Promise!Package
<1> QED
  BY <1>2, <1>6 DEF AsPromised

OutcomeBar == [r \in Requests |-> Outcome(r)]
PackageBar == [r \in Requests |-> HandedPackage(r)]

LEMMA PromiseInit == Init => Promise!Init
<1> SUFFICES ASSUME Init PROVE Promise!Init
  OBVIOUS
<1>1. \A r \in Requests : Outcome(r) = "pending"
  BY DEF Init, Outcome, HandedOver, Note
<1> QED
  BY <1>1 DEF Promise!Init, HandedPackage

LEMMA PromiseStep == PromiseInv /\ AllAsPromised /\ (PromiseInv /\ AllAsPromised)' /\ [Next]_vars =>
                        [Promise!Next]_<<OutcomeBar, PackageBar>>
<1> SUFFICES ASSUME PromiseInv, AllAsPromised, (PromiseInv /\ AllAsPromised)', [Next]_vars
             PROVE  Promise!Next \/ (OutcomeBar' = OutcomeBar /\ PackageBar' = PackageBar)
  OBVIOUS
<1> USE DEF PromiseInv, OutcomeBar, PackageBar
<1>t. TypeOK /\ ControlOK /\ TypeOK' /\ IsolationInv /\ IsolationInv'
  BY DEF IsolationInv
(* A login starts: it and those it meets are disturbed. *)
<1>1. ASSUME NEW r \in Requests, Authenticate(r) PROVE Promise!Next
  <2> DEFINE together == {q \in Requests : overlapped'[q] /\ ~overlapped[q]}
  <2>1. /\ UNCHANGED <<store, sid, notes>> /\ pc[r] = "idle" /\ pc'[r] = "startSession"
        /\ \A q \in Requests : overlapped[q] => overlapped'[q]
        /\ \A q \in Requests \ {r} : pc'[q] = pc[q]
        /\ \A q \in together : pc[q] \notin {"done", "aborted"}
    BY <1>1, <1>t DEF Authenticate, Goto, TypeOK, shared, manager, ActiveIn, Active
  <2>2. \A q \in together : Outcome(q) = "pending" /\ Outcome(q)' = "disturbed"
    BY <2>1 DEF Outcome, HandedOver
  <2>3. \A q \in Requests \ together : Outcome(q)' = Outcome(q)
    BY <1>t, <2>1 DEF Outcome, HandedOver, TypeOK
  <2>4. \A q \in Requests : HandedPackage(q)' = HandedPackage(q)
    BY <2>1, <2>2, <2>3 DEF HandedPackage
  <2>5. Promise!Disturb(together)
    BY <2>2, <2>3, <2>4 DEF Promise!Disturb
  <2> QED
    BY <2>5 DEF Promise!Next
(* Any other step of a login is about this login only. *)
<1>2. ASSUME NEW r \in Requests, ServicesFail(r) \/ Step(r)
      PROVE  Promise!Next \/ (OutcomeBar' = OutcomeBar /\ PackageBar' = PackageBar)
  <2>1. overlapped' = overlapped /\ Act(r)
    BY <1>2 DEF history, Act, ServicesFail, Step, StartSession, AssignResp, ReadSessionId, SetSessionId,
       SetVariableName, SetDataObject, SerialiseForDigest, SerialiseForSignature, PostUpdate,
       GenerateToken, HandOverToAcm, HandOverToIdp, GivesUp, CallFails, Set
  <2>2. \A q \in Requests \ {r} : Outcome(q)' = Outcome(q) /\ HandedPackage(q)' = HandedPackage(q)
    BY <1>t, <2>1, OthersKeepPromise
  <2>3. CASE Outcome(r)' = Outcome(r) /\ Outcome(r) # "handedOver"
    BY <2>2, <2>3 DEF HandedPackage
  <2>4. CASE Outcome(r) = "pending" /\ Outcome(r)' \in {"form", "error"}
    <3>1. HandedPackage(r)' = HandedPackage(r)
      BY <2>4 DEF HandedPackage
    <3>2. Promise!EndWithout(r)
      BY <2>2, <2>4, <3>1 DEF Promise!EndWithout
    <3> QED
      BY <3>2 DEF Promise!Next
  <2>5. CASE Outcome(r) = "pending" /\ Outcome(r)' = "handedOver"
    <3>1. AsPromised(r)'
      BY <2>5 DEF AllAsPromised
    <3>2. (sid[r])' \notin Promise!Taken
      <4> SUFFICES ASSUME NEW q \in Requests, Outcome(q) = "handedOver",
                          HandedPackage(q).session = (sid[r])'
                   PROVE  FALSE
        BY DEF Promise!Taken
      <4>1. AsPromised(q) /\ sid[q] = (sid[r])'
        BY DEF AllAsPromised, HandedPackage
      <4>2. owner'[sid[q]] = q
        BY <1>t, <4>1, OwnersAndMarksStay, SpRequestAssumption DEF AsPromised
      <4> QED
        BY <2>5, <3>1, <4>1, <4>2 DEF AsPromised
    <3>3. Promise!HandOver(r)
      BY <2>2, <2>5, <3>1, <3>2 DEF AsPromised, Promise!HandOver
    <3> QED
      BY <3>3 DEF Promise!Next
  <2>6. \/ Outcome(r)' = Outcome(r) /\ Outcome(r) # "handedOver"
        \/ Outcome(r) = "pending" /\ Outcome(r)' \in {"form", "error", "handedOver"}
    <3>1. pc[r] \notin {"done", "aborted"}
      BY <1>2 DEF ServicesFail, Step, StartSession, AssignResp, ReadSessionId, SetSessionId,
         SetVariableName, SetDataObject, SerialiseForDigest, SerialiseForSignature, PostUpdate,
         GenerateToken, HandOverToAcm, HandOverToIdp, GivesUp, CallFails, Set, Assigning, Calling
    <3> QED
      BY <2>1, <3>1 DEF Outcome, HandedOver
  <2> QED
    BY <2>3, <2>4, <2>5, <2>6
<1>3. CASE UNCHANGED vars
  <2>1. \A r \in Requests : Outcome(r)' = Outcome(r) /\ HandedPackage(r)' = HandedPackage(r)
    BY <1>3 DEF vars, locals, shared, manager, history, Outcome, HandedPackage, HandedOver
  <2> QED
    BY <2>1
<1> QED
  BY <1>1, <1>2, <1>3 DEF Next

(* SpRequest implements LoginHandOver: a login that no other one overlaps   *)
(* hands its own session over, or ends without a hand-over, in one step of  *)
(* the promise, and nothing changes what it handed over.                    *)
THEOREM PromiseKept == Spec => KeepsPromise
<1>1. Init => PromiseInv
  BY IsolationInit, UsedInit DEF PromiseInv
<1>2. PromiseInv /\ [Next]_vars => PromiseInv'
  BY IsolationStep, UsedStep DEF PromiseInv
<1> QED
  BY <1>1, <1>2, HandedAsPromised, PromiseInit, PromiseStep, PTL
  DEF Spec, KeepsPromise, Promise!Spec, OutcomeBar, PackageBar
=============================================================================
