-------------------------- MODULE PostResponseProofs --------------------------
(* Proofs about PostResponse, for any number of logins, sessions and claims. *)
EXTENDS PostResponseInvariant, FiniteSetTheorems, TLAPS

(* What a session holds. *)
LEMMA ContentTypes ==
    ASSUME NEW c \in Contents
    PROVE  /\ c.person \in People
           /\ \A v \in DOMAIN c.variables : v \in Variables /\ c.variables[v] \in SUBSET Claim
<1>1. c \in ContentType
  BY PostResponseAssumption
<1>2. PICK present \in SUBSET Variables : c.variables \in [present -> SUBSET Claim]
  BY <1>1 DEF ContentType
<1> QED
  BY <1>1, <1>2 DEF ContentType

LEMMA Numbers == Claims \in Nat /\ Claim \subseteq Nat /\ 1 \in Claim /\ PersonIdentifier \in Claim
BY PostResponseAssumption DEF Claim

LEMMA UsernameTypes ==
    ASSUME NEW p \in Prefixes, NEW person \in People
    PROVE  Username(p, person) \in Usernames
BY DEF Usernames

LEMMA PayloadTypes ==
    /\ \A s \in Sessions, v \in Variables : Payload(s, v) \in Payloads
    /\ \A p \in Payloads : p.session \in Sessions /\ p.variable \in Variables
    /\ None \notin Payloads
    /\ Variables = {"responseAssertions", "dsResponse"}
BY PostResponseAssumption DEF Payload, Payloads, Variables

-----------------------------------------------------------------------------
(* Types, and what the place of control implies. *)

USE DEF Goto, Nullified, More, NothingAsserted

(* One step of one execution. *)
Act(r) == Authenticate(r) \/ EndsEarly(r) \/ Step(r)

LEMMA NextIsAct == [Next]_vars => (\E r \in Requests : Act(r)) \/ UNCHANGED vars
BY DEF Next, Act

LEMMA TypeInit == Init => TypeOK /\ LocalsOK
<1> SUFFICES ASSUME Init PROVE TypeOK /\ LocalsOK
  OBVIOUS
<1>1. TypeOK
  BY Numbers DEF Init, TypeOK, Labels, Variables, NoClaims
<1>2. LocalsOK
  BY DEF Init, LocalsOK, LocalOK, Real, Reading, Chose, Named
<1> QED
  BY <1>1, <1>2

(* The locals of an execution that ends. *)
LEMMA EndTypes ==
    ASSUME TypeOK, NEW r \in Requests, NEW label \in Ended, End(r, label)
    PROVE  /\ pc' \in [Requests -> Labels]
           /\ session' \in [Requests -> Sessions \cup {None}]
           /\ prefix' \in [Requests -> Prefixes \cup {None}]
           /\ asked' \in [Requests -> Variables]
           /\ reply' \in [Requests -> Sessions \cup {None}]
           /\ data' \in [Requests -> [Variables -> Payloads \cup {None}]]
           /\ index' \in [Requests -> Claim]
           /\ left' \in [Requests -> SUBSET Claim]
           /\ username' \in [Requests -> Usernames \cup {None}]
           /\ found' \in [Requests -> BOOLEAN]
           /\ draft' \in [Requests -> [Claim -> Payloads \cup {None}]]
<1>1. session' \in [Requests -> Sessions \cup {None}] /\ prefix' \in [Requests -> Prefixes \cup {None}]
  BY DEF End, TypeOK
<1>2. pc' \in [Requests -> Labels] /\ asked' \in [Requests -> Variables]
  BY DEF End, TypeOK, Labels, Variables
<1>3. reply' \in [Requests -> Sessions \cup {None}] /\ left' \in [Requests -> SUBSET Claim]
  BY DEF End, TypeOK
<1>4. data' \in [Requests -> [Variables -> Payloads \cup {None}]]
  BY DEF End, TypeOK
<1>5. draft' \in [Requests -> [Claim -> Payloads \cup {None}]]
  BY DEF End, TypeOK, NoClaims
<1>6. index' \in [Requests -> Claim]
  BY Numbers DEF End, TypeOK
<1>7. username' \in [Requests -> Usernames \cup {None}] /\ found' \in [Requests -> BOOLEAN]
  BY DEF End, TypeOK
<1> QED
  BY <1>1, <1>2, <1>3, <1>4, <1>5, <1>6, <1>7

(* The name that a login looks its user up by. *)
LEMMA FoundNames ==
    ASSUME TypeOK, LocalsOK, NEW r \in Requests, FindUser(r), fields[PersonIdentifier] # None
    PROVE  Username(prefix[r], contents[fields[PersonIdentifier].session].person) \in Usernames
<1>1. prefix[r] \in Prefixes
  BY DEF FindUser, LocalsOK, LocalOK
<1>2. contents[fields[PersonIdentifier].session] \in Contents
  BY Numbers, PayloadTypes DEF TypeOK
<1> QED
  BY <1>1, <1>2, ContentTypes, UsernameTypes

LEMMA TypeStep == TypeOK /\ LocalsOK /\ [Next]_vars => TypeOK'
<1> SUFFICES ASSUME TypeOK, LocalsOK, [Next]_vars PROVE TypeOK'
  OBVIOUS
<1>1. ASSUME NEW r \in Requests, Authenticate(r) PROVE TypeOK'
  BY <1>1 DEF TypeOK, Authenticate, Labels, shared, keycloak
<1>2. ASSUME NEW r \in Requests, EndsEarly(r) PROVE TypeOK'
  <2>1. PICK label \in Ended : End(r, label)
    BY <1>2 DEF EndsEarly, Ended
  <2>2. UNCHANGED <<shared, contents, keycloak, history>>
    BY <1>2 DEF EndsEarly
  <2> QED
    BY <2>1, <2>2, EndTypes DEF TypeOK, shared, keycloak, history
<1>3. ASSUME NEW r \in Requests, ClearParams(r) PROVE TypeOK'
  BY <1>3 DEF TypeOK, ClearParams, Labels, locals, keycloak, history
<1>4. ASSUME NEW r \in Requests, AddParams(r) PROVE TypeOK'
  <2>1. session[r] \in Sessions
    BY <1>4 DEF AddParams, LocalsOK, LocalOK
  <2> QED
    BY <1>4, <2>1 DEF TypeOK, AddParams, Labels, locals, keycloak, history
<1>5. ASSUME NEW r \in Requests, GetSessionData(r) PROVE TypeOK'
  BY <1>5 DEF TypeOK, GetSessionData, Labels, shared, keycloak, history
<1>6. ASSUME NEW r \in Requests, AssignResp(r) PROVE TypeOK'
  BY <1>6 DEF TypeOK, AssignResp, Labels, shared, keycloak, history
<1>7. ASSUME NEW r \in Requests, ReadVariable(r) PROVE TypeOK'
  <2> DEFINE v == asked[r]
  <2> DEFINE read == [data[r] EXCEPT ![v] = IF v \in DOMAIN contents[resp].variables
                                            THEN Payload(resp, v) ELSE None]
  <2>0. UNCHANGED <<shared, contents, keycloak, history>>
    BY <1>7 DEF ReadVariable
  <2>1. ASSUME NEW label \in Ended, End(r, label) PROVE TypeOK'
    BY <2>0, <2>1, EndTypes DEF TypeOK, shared, keycloak, history
  <2>2. ASSUME resp # None PROVE read \in [Variables -> Payloads \cup {None}]
    BY <2>2, PayloadTypes DEF TypeOK
  <2>3. CASE /\ resp # None /\ v = "responseAssertions"
             /\ data' = [data EXCEPT ![r] = read]
             /\ asked' = [asked EXCEPT ![r] = "dsResponse"]
             /\ pc' = [pc EXCEPT ![r] = "clear"]
             /\ UNCHANGED <<session, prefix, reply, index, left, username, found, draft>>
    <3> HIDE DEF read, v
    <3> QED
      BY <2>0, <2>2, <2>3 DEF TypeOK, Labels, Variables, shared, keycloak, history
  <2>4. CASE /\ resp # None
             /\ data' = [data EXCEPT ![r] = read]
             /\ pc' = [pc EXCEPT ![r] = "nullify"]
             /\ UNCHANGED <<session, prefix, asked, reply, index, left, username, found, draft>>
    <3> HIDE DEF read, v
    <3> QED
      BY <2>0, <2>2, <2>4 DEF TypeOK, Labels, shared, keycloak, history
  <2>5. \/ \E label \in Ended : End(r, label)
        \/ /\ resp # None /\ v = "responseAssertions"
           /\ data' = [data EXCEPT ![r] = read]
           /\ asked' = [asked EXCEPT ![r] = "dsResponse"]
           /\ pc' = [pc EXCEPT ![r] = "clear"]
           /\ UNCHANGED <<session, prefix, reply, index, left, username, found, draft>>
        \/ /\ resp # None
           /\ data' = [data EXCEPT ![r] = read]
           /\ pc' = [pc EXCEPT ![r] = "nullify"]
           /\ UNCHANGED <<session, prefix, asked, reply, index, left, username, found, draft>>
    BY <1>7 DEF ReadVariable, Ended
  <2> QED
    BY <2>1, <2>3, <2>4, <2>5
<1>8. ASSUME NEW r \in Requests, NullifyClaim(r) PROVE TypeOK'
  <2>1. fields' \in [Claim -> Payloads \cup {None}]
    BY <1>8 DEF TypeOK, NullifyClaim
  <2>2. index' \in [Requests -> Claim]
    <3>1. PICK i \in {1, index[r] + 1} : index' = [index EXCEPT ![r] = i] /\ (i = 1 \/ index[r] < Claims)
      BY <1>8 DEF NullifyClaim
    <3>2. i \in Claim
      BY <3>1, Numbers DEF TypeOK, Claim
    <3> QED
      BY <3>1, <3>2 DEF TypeOK
  <2>3. left' \in [Requests -> SUBSET Claim]
    <3> DEFINE p == Chosen(data[r])
    <3>1. p \in Payloads /\ p.variable \in DOMAIN contents[p.session].variables
      <4>1. p # None /\ \A v \in Variables : Real(r, v)
        BY <1>8 DEF NullifyClaim, LocalsOK, LocalOK, Chose
      <4>2. PICK v \in Variables : p = data[r][v]
        BY PayloadTypes DEF Chosen
      <4>3. p \in Payloads /\ p.variable = v
        BY <4>1, <4>2 DEF TypeOK, Real
      <4> QED
        BY <4>1, <4>2, <4>3 DEF Real
    <3>2. contents[p.session].variables[p.variable] \in SUBSET Claim
      BY <3>1, PayloadTypes, ContentTypes DEF TypeOK
    <3>3. left' \in {left, [left EXCEPT ![r] = contents[p.session].variables[p.variable]]}
      BY <1>8 DEF NullifyClaim
    <3> QED
      BY <3>2, <3>3 DEF TypeOK
  <2>4. pc' \in [Requests -> Labels]
    <3>1. pc' \in {pc, [pc EXCEPT ![r] = "process"]}
      BY <1>8 DEF NullifyClaim
    <3> QED
      BY <3>1 DEF TypeOK, Labels
  <2> QED
    BY <1>8, <2>1, <2>2, <2>3, <2>4 DEF TypeOK, NullifyClaim, keycloak, history
<1>9. ASSUME NEW r \in Requests, ProcessAttribute(r) PROVE TypeOK'
  <2>1. Chosen(data[r]) \in Payloads \cup {None}
    BY PayloadTypes DEF TypeOK, Chosen
  <2> QED
    BY <1>9, <2>1 DEF TypeOK, ProcessAttribute, keycloak, history
<1>10. ASSUME NEW r \in Requests, FindUser(r) PROVE TypeOK'
  <2> DEFINE p == fields[PersonIdentifier]
  <2> DEFINE u == Username(prefix[r], contents[p.session].person)
  <2>0. UNCHANGED <<shared, contents, keycloak, history>>
    BY <1>10 DEF FindUser
  <2>1. CASE p = None
    <3>1. End(r, "aborted")
      BY <1>10, <2>1 DEF FindUser
    <3> QED
      BY <2>0, <3>1, EndTypes DEF Ended, TypeOK, shared, keycloak, history
  <2>2. CASE p # None
    <3>1. u \in Usernames
      BY <1>10, <2>2, FoundNames
    <3>2. /\ username' = [username EXCEPT ![r] = u]
          /\ found' = [found EXCEPT ![r] = users[u] # None]
          /\ draft' = [draft EXCEPT ![r] = NoClaims]
          /\ pc' = [pc EXCEPT ![r] = "fill"]
          /\ UNCHANGED <<session, prefix, asked, reply, data, index, left>>
      BY <1>10, <2>2 DEF FindUser
    <3>3. username' \in [Requests -> Usernames \cup {None}]
      BY <3>1, <3>2 DEF TypeOK
    <3>4. found' \in [Requests -> BOOLEAN] /\ pc' \in [Requests -> Labels]
      BY <3>2 DEF TypeOK, Labels
    <3>5. draft' \in [Requests -> [Claim -> Payloads \cup {None}]]
      BY <3>2 DEF TypeOK, NoClaims
    <3> QED
      BY <2>0, <3>2, <3>3, <3>4, <3>5 DEF TypeOK, shared, keycloak, history
  <2> QED
    BY <2>1, <2>2
<1>11. ASSUME NEW r \in Requests, FillAttribute(r) PROVE TypeOK'
  <2>1. draft' \in [Requests -> [Claim -> Payloads \cup {None}]]
    BY <1>11 DEF TypeOK, FillAttribute
  <2>2. index' \in [Requests -> Claim]
    <3>1. PICK i \in {1, index[r] + 1} : index' = [index EXCEPT ![r] = i] /\ (i = 1 \/ index[r] < Claims)
      BY <1>11 DEF FillAttribute
    <3>2. i \in Claim
      BY <3>1, Numbers DEF TypeOK, Claim
    <3> QED
      BY <3>1, <3>2 DEF TypeOK
  <2>3. pc' \in [Requests -> Labels]
    <3>1. pc' \in {pc, [pc EXCEPT ![r] = "commit"]}
      BY <1>11 DEF FillAttribute
    <3> QED
      BY <3>1 DEF TypeOK, Labels
  <2> QED
    BY <1>11, <2>1, <2>2, <2>3 DEF TypeOK, FillAttribute, shared, keycloak, history
<1>12. ASSUME NEW r \in Requests, Commit(r) PROVE TypeOK'
  <2>1. PICK label \in Ended : End(r, label)
    BY <1>12 DEF Commit, Ended
  <2>2. users' \in [Usernames -> [Claim -> Payloads \cup {None}] \cup {None}]
    <3>1. users' \in {users, [users EXCEPT ![username[r]] = draft[r]]}
      BY <1>12 DEF Commit, keycloak
    <3> QED
      BY <3>1 DEF TypeOK
  <2>3. writer' \in [Usernames -> Requests \cup {None}]
    <3>1. writer' \in {writer, [writer EXCEPT ![username[r]] = r]}
      BY <1>12 DEF Commit, keycloak
    <3> QED
      BY <3>1 DEF TypeOK
  <2>4. UNCHANGED <<shared, contents, history>>
    BY <1>12 DEF Commit
  <2> QED
    BY <2>1, <2>2, <2>3, <2>4, EndTypes DEF TypeOK, shared, history
<1>13. ASSUME NEW r \in Requests, GivesUp(r) \/ Fails(r) PROVE TypeOK'
  <2>1. PICK label \in Ended : End(r, label)
    BY <1>13 DEF GivesUp, Fails, Ended
  <2>2. UNCHANGED <<shared, contents, keycloak, history>>
    BY <1>13 DEF GivesUp, Fails
  <2> QED
    BY <2>1, <2>2, EndTypes DEF TypeOK, shared, keycloak, history
<1>14. CASE UNCHANGED vars
  BY <1>14 DEF TypeOK, vars, locals, shared, keycloak, history
<1> QED
  BY <1>1, <1>2, <1>3, <1>4, <1>5, <1>6, <1>7, <1>8, <1>9, <1>10, <1>11, <1>12, <1>13, <1>14
  DEF Next, Step

(* A step of one execution leaves the locals of the others as they are. *)
LEMMA OthersKeepLocals ==
    ASSUME TypeOK, NEW r \in Requests, Act(r), NEW q \in Requests, q # r
    PROVE  /\ pc'[q] = pc[q] /\ session'[q] = session[q] /\ prefix'[q] = prefix[q]
           /\ asked'[q] = asked[q] /\ reply'[q] = reply[q] /\ data'[q] = data[q]
           /\ index'[q] = index[q] /\ left'[q] = left[q] /\ username'[q] = username[q]
           /\ draft'[q] = draft[q]
<1> USE DEF TypeOK
<1>1. CASE Authenticate(r)
  BY <1>1 DEF Authenticate
<1>2. ASSUME NEW label \in Ended, End(r, label)
      PROVE  /\ pc'[q] = pc[q] /\ session'[q] = session[q] /\ prefix'[q] = prefix[q]
             /\ asked'[q] = asked[q] /\ reply'[q] = reply[q] /\ data'[q] = data[q]
             /\ index'[q] = index[q] /\ left'[q] = left[q] /\ username'[q] = username[q]
             /\ draft'[q] = draft[q]
  BY <1>2 DEF End
<1>3. CASE ClearParams(r) \/ AddParams(r) \/ GetSessionData(r) \/ AssignResp(r)
  BY <1>3 DEF ClearParams, AddParams, GetSessionData, AssignResp, locals
<1>4. CASE ReadVariable(r)
  BY <1>2, <1>4 DEF ReadVariable, Ended
<1>5. CASE NullifyClaim(r) \/ ProcessAttribute(r)
  BY <1>5 DEF NullifyClaim, ProcessAttribute
<1>6. CASE FindUser(r)
  BY <1>2, <1>6 DEF FindUser, Ended
<1>7. CASE FillAttribute(r)
  BY <1>7 DEF FillAttribute
<1>8. CASE EndsEarly(r) \/ Commit(r) \/ GivesUp(r) \/ Fails(r)
  BY <1>2, <1>8 DEF EndsEarly, Commit, GivesUp, Fails, Ended
<1> QED
  BY <1>1, <1>3, <1>4, <1>5, <1>6, <1>7, <1>8 DEF Act, Step

LEMMA ContentsStay ==
    ASSUME NEW r \in Requests, Act(r)
    PROVE  contents' = contents
BY DEF Act, Step, Authenticate, EndsEarly, ClearParams, AddParams, GetSessionData, AssignResp,
   ReadVariable, NullifyClaim, ProcessAttribute, FindUser, FillAttribute, Commit, GivesUp, Fails

(* Where an execution that ends leaves its locals. *)
LEMMA EndLocals ==
    ASSUME TypeOK, NEW r \in Requests, NEW label \in Ended, End(r, label)
    PROVE  /\ pc'[r] = label /\ data'[r] = [v \in Variables |-> None]
           /\ draft'[r] = NoClaims /\ index'[r] = 1
           /\ label = "success" => session'[r] = session[r] /\ prefix'[r] = prefix[r]
BY DEF End, TypeOK

LEMMA LocalsStep == TypeOK /\ LocalsOK /\ [Next]_vars => LocalsOK'
<1> SUFFICES ASSUME TypeOK, LocalsOK, [Next]_vars PROVE LocalsOK'
  OBVIOUS
<1>1. ASSUME NEW r \in Requests, Act(r) PROVE LocalsOK'
  <2>0. contents' = contents
    BY <1>1, ContentsStay
  <2>1. ASSUME NEW q \in Requests, q # r PROVE LocalOK(q)'
    <3>1. LocalOK(q)
      BY DEF LocalsOK
    <3> QED
      BY <1>1, <2>0, <2>1, <3>1, OthersKeepLocals DEF LocalOK, Real
  <2>2. LocalOK(r)'
    <3> USE DEF LocalOK, Real, Reading, Chose, Named
    <3>0. LocalOK(r)
      BY DEF LocalsOK
    <3>1. CASE Authenticate(r)
      BY <2>0, <3>0, <3>1 DEF Authenticate, TypeOK
    <3>2. ASSUME NEW label \in Ended, End(r, label),
                 label = "success" => session[r] \in Sessions /\ prefix[r] \in Prefixes
          PROVE  LocalOK(r)'
      BY <3>2, EndLocals DEF Ended
    <3>3. CASE ClearParams(r) \/ AddParams(r) \/ GetSessionData(r) \/ AssignResp(r)
      BY <2>0, <3>0, <3>3 DEF ClearParams, AddParams, GetSessionData, AssignResp, locals, TypeOK
    <3>4. CASE ReadVariable(r)
      <4> DEFINE v == asked[r]
      <4> DEFINE read == [data[r] EXCEPT ![v] = IF v \in DOMAIN contents[resp].variables
                                                THEN Payload(resp, v) ELSE None]
      <4>1. \A w \in Variables : read[w] # None =>
                /\ read[w].variable = w
                /\ w \in DOMAIN contents[read[w].session].variables
        BY <3>0 DEF TypeOK, Payload
      <4>2. CASE /\ data' = [data EXCEPT ![r] = read]
                 /\ \/ pc' = [pc EXCEPT ![r] = "clear"]
                    \/ Chosen(read) # None /\ pc' = [pc EXCEPT ![r] = "nullify"]
                 /\ UNCHANGED <<session, prefix, index, username>>
        <5> HIDE DEF read
        <5>1. data'[r] = read /\ pc'[r] \in {"clear", "nullify"}
              /\ (pc'[r] = "nullify" => Chosen(read) # None)
          BY <4>2 DEF TypeOK
        <5> QED
          BY <2>0, <3>0, <3>4, <4>1, <4>2, <5>1 DEF ReadVariable
      <4>3. \/ \E label \in Ended \ {"success"} : End(r, label)
            \/ /\ data' = [data EXCEPT ![r] = read]
               /\ \/ pc' = [pc EXCEPT ![r] = "clear"]
                  \/ Chosen(read) # None /\ pc' = [pc EXCEPT ![r] = "nullify"]
               /\ UNCHANGED <<session, prefix, index, username>>
        BY <3>4 DEF ReadVariable, Ended
      <4> QED
        BY <3>2, <4>2, <4>3
    <3>5. CASE NullifyClaim(r) \/ ProcessAttribute(r)
      BY <2>0, <3>0, <3>5 DEF NullifyClaim, ProcessAttribute, TypeOK
    <3>6. CASE FindUser(r)
      <4>1. CASE End(r, "aborted")
        BY <3>2, <4>1 DEF Ended
      <4>2. CASE ~End(r, "aborted")
        <5> DEFINE u == Username(prefix[r], contents[fields[PersonIdentifier].session].person)
        <5>1. u \in Usernames
          BY <3>6, <4>2, FoundNames DEF FindUser
        <5>2. /\ username' = [username EXCEPT ![r] = u] /\ pc' = [pc EXCEPT ![r] = "fill"]
              /\ UNCHANGED <<session, prefix, data>>
          BY <3>6, <4>2 DEF FindUser
        <5> HIDE DEF u
        <5> QED
          BY <2>0, <3>0, <3>6, <5>1, <5>2 DEF FindUser, TypeOK
      <4> QED
        BY <4>1, <4>2
    <3>7. CASE FillAttribute(r)
      BY <2>0, <3>0, <3>7 DEF FillAttribute, TypeOK
    <3>8. CASE EndsEarly(r) \/ Commit(r) \/ GivesUp(r) \/ Fails(r)
      BY <3>0, <3>2, <3>8 DEF EndsEarly, Commit, GivesUp, Fails, Ended
    <3> QED
      BY <1>1, <3>1, <3>3, <3>4, <3>5, <3>6, <3>7, <3>8 DEF Act, Step
  <2> QED
    BY <2>1, <2>2 DEF LocalsOK
<1>2. CASE UNCHANGED vars
  BY <1>2 DEF vars, locals, LocalsOK, LocalOK, Real
<1> QED
  BY <1>1, <1>2, NextIsAct

(* Every variable holds a value of its type, and an execution has the       *)
(* locals that its place in authenticate() relies on: a session and a realm *)
(* once it runs, a variable with attributes when it clears the claim        *)
(* fields, the name of a user when it fills the record (authenticateImpl).  *)
THEOREM TypeCorrect == Spec => [](TypeOK /\ LocalsOK)
BY TypeInit, TypeStep, LocalsStep, PTL DEF Spec

-----------------------------------------------------------------------------
(* A login that runs alone works on its own data. *)

USE DEF Active, Ended, Alone

(* An execution that runs was running before, or has just started. *)
LEMMA ActsWhileActive ==
    ASSUME NEW r \in Requests, Act(r)
    PROVE  /\ pc[r] \notin Ended
           /\ pc[r] = "idle" => Authenticate(r) \/ EndsEarly(r)
BY DEF Act, Step, Authenticate, EndsEarly, ClearParams, AddParams, GetSessionData, AssignResp,
   ReadVariable, NullifyClaim, ProcessAttribute, FindUser, FillAttribute, Commit, GivesUp, Fails

LEMMA MarksStay ==
    ASSUME TypeOK, NEW r \in Requests, Act(r)
    PROVE  /\ \A q \in Requests : overlapped[q] => overlapped'[q]
           /\ \A q \in Requests : q # r /\ q \notin Active => overlapped'[q] = overlapped[q]
           /\ ~Authenticate(r) => overlapped' = overlapped /\ burst' = burst
<1>1. CASE Authenticate(r)
  BY <1>1 DEF Authenticate, TypeOK
<1>2. CASE ~Authenticate(r)
  <2>1. UNCHANGED history
    BY <1>2 DEF Act, Step, EndsEarly, ClearParams, AddParams, GetSessionData, AssignResp,
       ReadVariable, NullifyClaim, ProcessAttribute, FindUser, FillAttribute, Commit, GivesUp, Fails
  <2> QED
    BY <1>2, <2>1 DEF history
<1> QED
  BY <1>1, <1>2

LEMMA OverlapStep == TypeOK /\ OverlapIsMarked /\ [Next]_vars => OverlapIsMarked'
<1> SUFFICES ASSUME TypeOK, OverlapIsMarked, [Next]_vars PROVE OverlapIsMarked'
  OBVIOUS
<1>1. ASSUME NEW r \in Requests, Act(r) PROVE OverlapIsMarked'
  <2> SUFFICES ASSUME NEW q \in Active', NEW s \in Active', q # s PROVE overlapped'[s]
    BY DEF OverlapIsMarked
  <2>1. q \in Active \/ q = r
    BY <1>1, OthersKeepLocals
  <2>2. s \in Active \/ s = r
    BY <1>1, OthersKeepLocals
  <2>3. CASE Authenticate(r)
    BY <2>1, <2>2, <2>3 DEF Authenticate
  <2>4. CASE ~Authenticate(r)
    <3>1. r \in Active \/ pc'[r] \in Ended
      <4>1. CASE EndsEarly(r)
        BY <4>1, EndLocals DEF EndsEarly
      <4> QED
        BY <1>1, <2>4, <4>1, ActsWhileActive
    <3> QED
      BY <1>1, <2>1, <2>2, <2>4, <3>1, MarksStay DEF OverlapIsMarked
  <2> QED
    BY <2>3, <2>4
<1>2. CASE UNCHANGED vars
  BY <1>2 DEF vars, history, OverlapIsMarked
<1> QED
  BY <1>1, <1>2, NextIsAct

(* The attribute values that a session asserts, when the login has read     *)
(* both of its variables.                                                   *)
LEMMA ChosenIsAsserted ==
    ASSUME TypeOK, NEW r \in Requests, session[r] \in Sessions,
           \A v \in Variables : Own(r, v), Chosen(data[r]) # None
    PROVE  LET p == Chosen(data[r])
               asserted == contents[p.session].variables[p.variable]
           IN /\ p.session = session[r]
              /\ Asserted(session[r]) = [c \in Claim |-> IF c \in asserted THEN p ELSE None]
<1> DEFINE s == session[r]
<1> DEFINE variables == contents[s].variables
<1>1. \A v \in Variables : Payload(s, v) # None /\ Payload(s, v).session = s
                             /\ Payload(s, v).variable = v
  BY PayloadTypes DEF Payload
<1>2. CASE "responseAssertions" \in DOMAIN variables
  <2>1. Chosen(data[r]) = Payload(s, "responseAssertions")
    BY <1>1, <1>2, PayloadTypes DEF Own, Chosen
  <2> QED
    BY <1>1, <1>2, <2>1, PayloadTypes DEF Asserted
<1>3. CASE "responseAssertions" \notin DOMAIN variables
  <2>1. "dsResponse" \in DOMAIN variables /\ Chosen(data[r]) = Payload(s, "dsResponse")
    BY <1>1, <1>3, PayloadTypes DEF Own, Chosen
  <2> QED
    BY <1>1, <1>3, <2>1, PayloadTypes DEF Asserted
<1> QED
  BY <1>2, <1>3

LEMMA OthersStayOwn ==
    ASSUME TypeOK, OverlapIsMarked, AloneIsOwn, NEW r \in Requests, Act(r),
           NEW q \in Active', q # r, Alone(q)'
    PROVE  (ReadsOwn(q) /\ FillsOwn(q))'
<1>1. q \in Active /\ Alone(q)
  BY OthersKeepLocals, MarksStay
<1>2. r \notin Active
  BY <1>1 DEF OverlapIsMarked
<1>3. EndsEarly(r)
  BY <1>1, <1>2, ActsWhileActive DEF Authenticate
<1>4. UNCHANGED <<getParams, resp, fields, contents>>
  BY <1>3 DEF EndsEarly, shared
<1>5. ReadsOwn(q) /\ FillsOwn(q)
  BY <1>1 DEF AloneIsOwn
<1>6. ReadsOwn(q)'
  BY <1>4, <1>5, OthersKeepLocals DEF ReadsOwn, Own
<1>7. FillsOwn(q)'
  BY <1>4, <1>5, OthersKeepLocals DEF FillsOwn, Asserted
<1> QED
  BY <1>6, <1>7

(* Along an execution that runs alone: reading ... *)
LEMMA ReadsOwnStep ==
    ASSUME TypeOK, LocalsOK, AloneIsOwn, NEW r \in Requests, Act(r), r \in Active', Alone(r)'
    PROVE  ReadsOwn(r)'
<1> USE DEF Reading, Chose, Named, ReadsOwn, Own
<1>0. contents' = contents /\ Alone(r)
  BY ContentsStay, MarksStay
<1>1. r \in Active => ReadsOwn(r) /\ session[r] \in Sessions
  BY <1>0 DEF AloneIsOwn, LocalsOK, LocalOK
<1>2. CASE Authenticate(r)
  <2>1. data[r] = [v \in Variables |-> None] /\ asked[r] = "responseAssertions"
    BY <1>2 DEF Authenticate, LocalsOK, LocalOK
  <2> QED
    BY <1>2, <2>1, PayloadTypes DEF Authenticate, TypeOK
<1>3. CASE ClearParams(r)
  BY <1>0, <1>1, <1>3 DEF ClearParams, locals, TypeOK
<1>4. CASE AddParams(r)
  BY <1>0, <1>1, <1>4 DEF AddParams, locals, TypeOK
<1>5. CASE GetSessionData(r)
  BY <1>0, <1>1, <1>5 DEF GetSessionData, TypeOK
<1>6. CASE AssignResp(r)
  BY <1>0, <1>1, <1>6 DEF AssignResp, TypeOK
<1>7. CASE ReadVariable(r)
  <2> DEFINE v == asked[r]
  <2> DEFINE read == [data[r] EXCEPT ![v] = IF v \in DOMAIN contents[resp].variables
                                            THEN Payload(resp, v) ELSE None]
  <2>1. ~(\E label \in Ended : End(r, label))
    BY EndLocals
  <2>2. resp # None /\ data' = [data EXCEPT ![r] = read] /\ session' = session
        /\ \/ /\ v = "responseAssertions" /\ asked' = [asked EXCEPT ![r] = "dsResponse"]
              /\ pc' = [pc EXCEPT ![r] = "clear"]
           \/ v = "dsResponse" /\ pc' = [pc EXCEPT ![r] = "nullify"]
    BY <1>7, <2>1 DEF ReadVariable
  <2>3. resp = session[r] /\ ReadsOwn(r) /\ pc[r] = "read"
    BY <1>1, <1>7, <2>2 DEF ReadVariable
  <2>4. data'[r] = read
    BY <2>2 DEF TypeOK
  <2>5. CASE v = "responseAssertions"
    <3>1. read["dsResponse"] = None /\ asked'[r] = "dsResponse" /\ pc'[r] = "clear"
      BY <2>2, <2>3, <2>5, PayloadTypes DEF TypeOK
    <3>2. read["responseAssertions"] = IF "responseAssertions" \in DOMAIN contents[session[r]].variables
                                       THEN Payload(session[r], "responseAssertions") ELSE None
      BY <2>3, <2>5, PayloadTypes DEF TypeOK
    <3> QED
      BY <1>0, <2>2, <2>4, <3>1, <3>2
  <2>6. CASE v = "dsResponse"
    <3>1. \A w \in Variables : read[w] = IF w \in DOMAIN contents[session[r]].variables
                                        THEN Payload(session[r], w) ELSE None
      BY <2>3, <2>6, PayloadTypes DEF TypeOK
    <3>2. pc'[r] = "nullify"
      BY <2>2, <2>6 DEF TypeOK
    <3> QED
      BY <1>0, <2>2, <2>4, <3>1, <3>2
  <2> QED
    BY <2>2, <2>5, <2>6
<1>8. CASE NullifyClaim(r) \/ ProcessAttribute(r)
  BY <1>0, <1>1, <1>8 DEF NullifyClaim, ProcessAttribute, TypeOK
<1>9. CASE FindUser(r)
  <2>1. ~End(r, "aborted")
    BY EndLocals
  <2> QED
    BY <1>0, <1>1, <1>9, <2>1 DEF FindUser, TypeOK
<1>10. CASE FillAttribute(r)
  BY <1>0, <1>1, <1>10 DEF FillAttribute, TypeOK
<1>11. CASE EndsEarly(r) \/ Commit(r) \/ GivesUp(r) \/ Fails(r)
  BY <1>11, EndLocals DEF EndsEarly, Commit, GivesUp, Fails
<1> QED
  BY <1>2, <1>3, <1>4, <1>5, <1>6, <1>7, <1>8, <1>9, <1>10, <1>11 DEF Act, Step

(* ... and clearing the claim fields, filling them, and making the record.  *)
LEMMA FillsOwnStep ==
    ASSUME TypeOK, LocalsOK, AloneIsOwn, NEW r \in Requests, Act(r), r \in Active', Alone(r)',
           ReadsOwn(r)'
    PROVE  FillsOwn(r)'
<1> USE DEF Named
<1> DEFINE own == Asserted(session[r])
<1>0. contents' = contents /\ Alone(r)
  BY ContentsStay, MarksStay
<1>1. r \in Active => ReadsOwn(r) /\ FillsOwn(r) /\ session[r] \in Sessions
  BY <1>0 DEF AloneIsOwn, LocalsOK, LocalOK
<1>2. ASSUME session'[r] = session[r] PROVE Asserted(session[r])' = own
  BY <1>0, <1>2 DEF Asserted
<1>a. own \in [Claim -> Payloads \cup {None}] \/ session[r] \notin Sessions
  BY PayloadTypes DEF Asserted
<1> HIDE DEF own
<1>3. CASE Authenticate(r) \/ ClearParams(r) \/ AddParams(r) \/ GetSessionData(r) \/ AssignResp(r)
  BY <1>3 DEF FillsOwn, Authenticate, ClearParams, AddParams, GetSessionData, AssignResp, TypeOK
<1>4. CASE ReadVariable(r)
  <2>1. ~(\E label \in Ended : End(r, label))
    BY EndLocals
  <2>2. pc'[r] \in {"clear", "nullify"} /\ index'[r] = 1
    BY <1>4, <2>1 DEF ReadVariable, TypeOK, LocalsOK, LocalOK, Reading
  <2> QED
    BY <2>2, Numbers DEF FillsOwn, Claim
<1>5. CASE NullifyClaim(r)
  <2>1. session'[r] = session[r] /\ pc[r] = "nullify" /\ data'[r] = data[r]
    BY <1>5 DEF NullifyClaim
  <2>2. \A c \in Claim : c < index[r] \/ c = index[r] => fields'[c] = None
    BY <1>1, <1>5 DEF NullifyClaim, FillsOwn, TypeOK
  <2>3. CASE index[r] < Claims
    <3>1. pc'[r] = "nullify" /\ index'[r] = index[r] + 1
      BY <1>5, <2>1, <2>3 DEF NullifyClaim, TypeOK
    <3>2. \A c \in Claim : c < index'[r] => c < index[r] \/ c = index[r]
      <4>1. index[r] \in Nat /\ Claim \subseteq Nat
        BY Numbers DEF TypeOK
      <4>2. \A i, c \in Nat : c < i + 1 => c < i \/ c = i
        OBVIOUS
      <4>3. \A c \in Claim : c < index[r] + 1 => c < index[r] \/ c = index[r]
        BY <4>1, <4>2
      <4> QED
        BY <3>1, <4>3
    <3> QED
      BY <2>2, <3>1, <3>2 DEF FillsOwn
  <2>4. CASE ~(index[r] < Claims)
    <3> DEFINE p == Chosen(data[r])
    <3>1. /\ pc'[r] = "process"
          /\ left'[r] = contents[p.session].variables[p.variable]
      BY <1>5, <2>1, <2>4 DEF NullifyClaim, TypeOK
    <3>2. \A c \in Claim : fields'[c] = None
      BY <2>2, <2>4, Numbers DEF TypeOK, Claim
    <3>3. own = [c \in Claim |-> IF c \in left'[r] THEN p ELSE None]
      <4>1. (\A v \in Variables : Own(r, v)) /\ session[r] \in Sessions
        BY <1>1, <2>1 DEF ReadsOwn, Chose
      <4>2. Chosen(data[r]) # None
        BY <2>1 DEF LocalsOK, LocalOK, Chose
      <4> QED
        BY <3>1, <4>1, <4>2, ChosenIsAsserted DEF own
    <3>4. Chosen(data[r])' = p
      BY <2>1 DEF Chosen
    <3> HIDE DEF p
    <3> QED
      BY <1>2, <2>1, <3>1, <3>2, <3>3, <3>4 DEF FillsOwn
  <2> QED
    BY <2>3, <2>4
<1>6. CASE ProcessAttribute(r)
  <2> DEFINE p == Chosen(data[r])
  <2>1. /\ session'[r] = session[r] /\ pc[r] = "process" /\ pc'[r] = "process"
        /\ Chosen(data[r])' = p
    BY <1>6 DEF ProcessAttribute, Chosen
  <2>2. PICK c \in left[r] : /\ fields' = [fields EXCEPT ![c] = p]
                             /\ left' = [left EXCEPT ![r] = @ \ {c}]
    BY <1>6 DEF ProcessAttribute
  <2> HIDE DEF p
  <2>3. \A d \in Claim : IF d \in left[r] THEN fields[d] = None /\ own[d] = p
                                          ELSE fields[d] = own[d]
    BY <1>1, <2>1 DEF FillsOwn, own, p
  <2>4. \A d \in Claim : IF d \in left'[r] THEN fields'[d] = None /\ own[d] = p
                                           ELSE fields'[d] = own[d]
    BY <2>2, <2>3 DEF TypeOK
  <2> QED
    BY <1>2, <2>1, <2>4 DEF FillsOwn
<1>7. CASE FindUser(r)
  <2> DEFINE p == fields[PersonIdentifier]
  <2>1. ~End(r, "aborted")
    BY EndLocals
  <2>2. /\ p # None /\ pc[r] = "process" /\ left[r] = {} /\ pc'[r] = "fill"
        /\ username'[r] = Username(prefix[r], contents[p.session].person)
        /\ session'[r] = session[r] /\ prefix'[r] = prefix[r] /\ index'[r] = 1
        /\ fields' = fields
    BY <1>7, <2>1 DEF FindUser, shared, TypeOK, LocalsOK, LocalOK
  <2>3. fields = own
    <3>1. \A c \in Claim : fields[c] = own[c]
      BY <1>1, <2>2 DEF FillsOwn, own
    <3> QED
      BY <1>1, <1>a, <2>2, <3>1 DEF TypeOK
  <2>4. p.session = session[r]
    BY <2>2, <2>3, Numbers DEF own, Asserted, Payload
  <2> QED
    BY <1>0, <1>2, <2>2, <2>3, <2>4, Numbers DEF FillsOwn, Claim
<1>8. CASE FillAttribute(r)
  <2>1. /\ pc[r] = "fill" /\ session'[r] = session[r] /\ prefix'[r] = prefix[r]
        /\ username'[r] = username[r] /\ fields' = fields /\ fields = own
    BY <1>1, <1>8 DEF FillAttribute, shared, FillsOwn, own
  <2>2. \A c \in Claim : c < index[r] \/ c = index[r] => draft'[r][c] = own[c]
    BY <1>1, <1>8, <2>1 DEF FillAttribute, FillsOwn, TypeOK, own
  <2>3. username[r] = Username(prefix[r], contents[session[r]].person)
    BY <1>1, <2>1 DEF FillsOwn
  <2>4. CASE index[r] < Claims
    <3>1. pc'[r] = "fill" /\ index'[r] = index[r] + 1
      BY <1>8, <2>1, <2>4 DEF FillAttribute, TypeOK
    <3>2. \A c \in Claim : c < index'[r] => c < index[r] \/ c = index[r]
      <4>1. index[r] \in Nat /\ Claim \subseteq Nat
        BY Numbers DEF TypeOK
      <4>2. \A i, c \in Nat : c < i + 1 => c < i \/ c = i
        OBVIOUS
      <4>3. \A c \in Claim : c < index[r] + 1 => c < index[r] \/ c = index[r]
        BY <4>1, <4>2
      <4> QED
        BY <3>1, <4>3
    <3> QED
      BY <1>0, <1>2, <2>1, <2>2, <2>3, <3>1, <3>2 DEF FillsOwn
  <2>5. CASE ~(index[r] < Claims)
    <3>1. pc'[r] = "commit"
      BY <1>8, <2>5 DEF FillAttribute, TypeOK
    <3>2. \A c \in Claim : draft'[r][c] = own[c]
      BY <2>2, <2>5, Numbers DEF TypeOK, Claim
    <3>3. draft'[r] = own
      <4>1. draft'[r] \in [Claim -> Payloads \cup {None}]
        BY <1>8 DEF FillAttribute, TypeOK
      <4> QED
        BY <1>1, <1>a, <2>1, <3>2, <4>1
    <3> QED
      BY <1>0, <1>2, <2>1, <2>3, <3>1, <3>3 DEF FillsOwn
  <2> QED
    BY <2>4, <2>5
<1>9. CASE EndsEarly(r) \/ Commit(r) \/ GivesUp(r) \/ Fails(r)
  BY <1>9, EndLocals DEF EndsEarly, Commit, GivesUp, Fails
<1> QED
  BY <1>3, <1>4, <1>5, <1>6, <1>7, <1>8, <1>9 DEF Act, Step

LEMMA AloneStep ==
    ASSUME TypeOK, LocalsOK, OverlapIsMarked, AloneIsOwn, [Next]_vars
    PROVE  AloneIsOwn'
<1>1. ASSUME NEW r \in Requests, Act(r) PROVE AloneIsOwn'
  <2> SUFFICES ASSUME NEW q \in Active', Alone(q)' PROVE (ReadsOwn(q) /\ FillsOwn(q))'
    BY DEF AloneIsOwn
  <2>1. CASE q = r
    <3>1. ReadsOwn(q)'
      BY <1>1, <2>1, ReadsOwnStep
    <3> QED
      BY <1>1, <2>1, <3>1, FillsOwnStep
  <2>2. CASE q # r
    BY <1>1, <2>2, OthersStayOwn
  <2> QED
    BY <2>1, <2>2
<1>2. CASE UNCHANGED vars
  <2>1. ASSUME NEW q \in Active', Alone(q)' PROVE (ReadsOwn(q) /\ FillsOwn(q))'
    <3>1. ReadsOwn(q) /\ FillsOwn(q)
      BY <1>2, <2>1 DEF vars, history, AloneIsOwn
    <3>2. ReadsOwn(q)'
      BY <1>2, <3>1 DEF vars, locals, shared, ReadsOwn, Own
    <3>3. FillsOwn(q)'
      BY <1>2, <3>1 DEF vars, locals, shared, FillsOwn, Asserted
    <3> QED
      BY <3>2, <3>3
  <2> QED
    BY <2>1 DEF AloneIsOwn
<1> QED
  BY <1>1, <1>2, NextIsAct

-----------------------------------------------------------------------------
(* The records of the users. *)

(* Only a login that succeeds changes a record. *)
LEMMA OnlySuccessWrites ==
    ASSUME TypeOK, NEW r \in Requests, Act(r)
    PROVE  \/ UNCHANGED keycloak /\ pc'[r] # "success"
           \/ /\ pc[r] = "commit" /\ pc'[r] = "success"
              /\ session'[r] = session[r] /\ prefix'[r] = prefix[r]
              /\ users' = [users EXCEPT ![username[r]] = draft[r]]
              /\ writer' = [writer EXCEPT ![username[r]] = r]
<1>1. CASE Commit(r)
  <2>1. CASE End(r, "success") /\ users' = [users EXCEPT ![username[r]] = draft[r]]
             /\ writer' = [writer EXCEPT ![username[r]] = r]
    BY <1>1, <2>1, EndLocals DEF Commit
  <2>2. CASE End(r, "aborted") /\ UNCHANGED keycloak
    BY <2>2, EndLocals
  <2> QED
    BY <1>1, <2>1, <2>2 DEF Commit
<1>2. CASE ~Commit(r)
  <2>1. UNCHANGED keycloak
    BY <1>2 DEF Act, Step, Authenticate, EndsEarly, ClearParams, AddParams, GetSessionData,
       AssignResp, ReadVariable, NullifyClaim, ProcessAttribute, FindUser, FillAttribute, GivesUp,
       Fails
  <2>2. ASSUME NEW label \in {"attempted", "aborted"}, End(r, label) PROVE pc'[r] # "success"
    BY <2>2, EndLocals
  <2>3. CASE EndsEarly(r) \/ GivesUp(r) \/ Fails(r) \/ ReadVariable(r) \/ FindUser(r)
    BY <2>2, <2>3 DEF EndsEarly, GivesUp, Fails, ReadVariable, FindUser, TypeOK
  <2>4. CASE \/ Authenticate(r) \/ ClearParams(r) \/ AddParams(r) \/ GetSessionData(r)
             \/ AssignResp(r) \/ NullifyClaim(r) \/ ProcessAttribute(r) \/ FillAttribute(r)
    BY <2>4 DEF Authenticate, ClearParams, AddParams, GetSessionData, AssignResp, NullifyClaim,
       ProcessAttribute, FillAttribute, TypeOK
  <2> QED
    BY <1>2, <2>1, <2>3, <2>4 DEF Act, Step
<1> QED
  BY <1>1, <1>2

LEMMA RecordsStep ==
    ASSUME TypeOK, LocalsOK, AloneIsOwn, WritersSucceeded, RecordIsOwnWhenAlone, TypeOK', [Next]_vars
    PROVE  (WritersSucceeded /\ RecordIsOwnWhenAlone)'
<1>1. ASSUME NEW r \in Requests, Act(r) PROVE (WritersSucceeded /\ RecordIsOwnWhenAlone)'
  <2> SUFFICES ASSUME NEW u \in Usernames, writer'[u] # None
               PROVE  /\ pc'[writer'[u]] = "success"
                      /\ Alone(writer[u])' =>
                           /\ u = Username(prefix'[writer'[u]], contents'[session'[writer'[u]]].person)
                           /\ users'[u] = Asserted(session[writer[u]])'
    BY DEF WritersSucceeded, RecordIsOwnWhenAlone
  <2>0. contents' = contents
    BY <1>1, ContentsStay
  <2>1. CASE writer'[u] = writer[u] /\ users'[u] = users[u]
    <3> DEFINE q == writer[u]
    <3>1. q \in Requests /\ q # r /\ pc[q] = "success"
      BY <1>1, <2>1, ActsWhileActive DEF TypeOK, WritersSucceeded
    <3>2. pc'[q] = pc[q] /\ session'[q] = session[q] /\ prefix'[q] = prefix[q]
      BY <1>1, <3>1, OthersKeepLocals
    <3>3. overlapped'[q] = overlapped[q]
      BY <1>1, <3>1, MarksStay
    <3>4. Alone(q) => u = Username(prefix[q], contents[session[q]].person)
                      /\ users[u] = Asserted(session[q])
      BY <2>1 DEF RecordIsOwnWhenAlone
    <3>5. Asserted(session[writer[u]])' = Asserted(session[writer[u]])
      BY <2>0, <2>1, <3>2 DEF Asserted
    <3> QED
      BY <2>0, <2>1, <3>1, <3>2, <3>3, <3>4, <3>5
  <2>2. CASE ~(writer'[u] = writer[u] /\ users'[u] = users[u])
    <3>1. /\ pc[r] = "commit" /\ pc'[r] = "success"
          /\ session'[r] = session[r] /\ prefix'[r] = prefix[r]
          /\ users' = [users EXCEPT ![username[r]] = draft[r]]
          /\ writer' = [writer EXCEPT ![username[r]] = r]
      BY <1>1, <2>2, OnlySuccessWrites DEF keycloak
    <3>2. u = username[r] /\ users'[u] = draft[r] /\ writer'[u] = r
      BY <2>2, <3>1 DEF TypeOK
    <3>3. ASSUME Alone(r)'
          PROVE  /\ u = Username(prefix[r], contents[session[r]].person)
                 /\ draft[r] = Asserted(session[r])
      <4>1. Alone(r)
        BY <1>1, <3>3, MarksStay
      <4> QED
        BY <3>1, <3>2, <4>1 DEF AloneIsOwn, FillsOwn, Named
    <3>4. Asserted(session[r])' = Asserted(session[r])
      BY <2>0, <3>1 DEF Asserted
    <3> QED
      BY <2>0, <3>1, <3>2, <3>3, <3>4
  <2> QED
    BY <2>1, <2>2
<1>2. CASE UNCHANGED vars
  BY <1>2 DEF vars, locals, keycloak, history, WritersSucceeded, RecordIsOwnWhenAlone, Asserted
<1> QED
  BY <1>1, <1>2, NextIsAct

LEMMA RecordInit == Init => RecordInv
BY TypeInit DEF Init, RecordInv, OverlapIsMarked, AloneIsOwn, WritersSucceeded, RecordIsOwnWhenAlone

LEMMA RecordStep == RecordInv /\ [Next]_vars => RecordInv'
<1> SUFFICES ASSUME RecordInv, [Next]_vars PROVE RecordInv'
  OBVIOUS
<1>1. TypeOK' /\ LocalsOK'
  BY TypeStep, LocalsStep DEF RecordInv
<1>2. OverlapIsMarked'
  BY OverlapStep DEF RecordInv
<1>3. AloneIsOwn'
  BY AloneStep DEF RecordInv
<1>4. (WritersSucceeded /\ RecordIsOwnWhenAlone)'
  BY <1>1, RecordsStep DEF RecordInv
<1> QED
  BY <1>1, <1>2, <1>3, <1>4 DEF RecordInv

LEMMA RecordInvIsOwn == RecordInv => RecordIsOwnWhenAlone /\ ReadsOwnSessionWhenAlone
<1> SUFFICES ASSUME RecordInv, NEW r \in Active, Alone(r), NEW v \in Variables
             PROVE  data[r][v] \in {None, Payload(session[r], v)}
  BY DEF RecordInv, ReadsOwnSessionWhenAlone
<1>1. ReadsOwn(r) /\ r \in Requests
  BY DEF RecordInv, AloneIsOwn
<1>2. CASE pc[r] \in Reading
  BY <1>1, <1>2, PayloadTypes DEF ReadsOwn, Own
<1>3. CASE pc[r] \in Chose \cup Named
  BY <1>1, <1>3 DEF ReadsOwn, Own
<1> QED
  BY <1>1, <1>2, <1>3 DEF RecordInv, TypeOK, Labels, Reading, Chose, Named

(* The inductive invariant that the next theorems rest on: what is        *)
(* true of the shared fields at each label of a login that runs alone.      *)
THEOREM RecordInvariant == Spec => []RecordInv
BY RecordInit, RecordStep, PTL DEF Spec

(* The record that a login wrote which ran alone is that of the person of   *)
(* its session, and complete; no other login changes it until it is written *)
(* again (authenticateImpl, nullifyClaims).                                 *)
THEOREM OwnRecords == Spec => []RecordIsOwnWhenAlone
BY RecordInvariant, RecordInvIsOwn, PTL

(* A login that runs alone reads its own session only (readSessionData).    *)
THEOREM OwnReads == Spec => []ReadsOwnSessionWhenAlone
BY RecordInvariant, RecordInvIsOwn, PTL

-----------------------------------------------------------------------------
(* What the logins of a burst have, they have from the sessions of it. *)

LEMMA BurstGrows ==
    ASSUME TypeOK, NEW r \in Requests, Act(r), NEW q \in Active, q # r
    PROVE  burst \subseteq burst'
<1>1. CASE Authenticate(r)
  BY <1>1 DEF Authenticate
<1> QED
  BY <1>1, MarksStay

LEMMA ChosenOfBurst ==
    ASSUME NEW r \in Requests, OfBurst(r)
    PROVE  InBurst(Chosen(data[r]))
BY PayloadTypes DEF OfBurst, Chosen

(* What another execution does to the shared fields. *)
LEMMA OthersStayOfBurst ==
    ASSUME TypeOK, LocalsOK, ActiveAreOfBurst, NEW r \in Requests, Act(r), NEW q \in Active', q # r
    PROVE  OfBurst(q)'
<1>1. q \in Active /\ OfBurst(q)
  BY OthersKeepLocals DEF ActiveAreOfBurst
<1>2. burst \subseteq burst'
  BY <1>1, BurstGrows
<1>3. r \in Active => OfBurst(r)
  BY DEF ActiveAreOfBurst
<1>s. \/ ClearParams(r) \/ AddParams(r) \/ AssignResp(r) \/ NullifyClaim(r) \/ ProcessAttribute(r)
      \/ UNCHANGED shared
  BY DEF Act, Step, Authenticate, EndsEarly, GetSessionData, ReadVariable, FindUser, FillAttribute,
     Commit, GivesUp, Fails
<1>4. getParams' \in {getParams, {}} \/ (getParams' = getParams \cup {session[r]} /\ r \in Active)
  <2>1. CASE ClearParams(r) \/ AddParams(r)
    BY <2>1 DEF ClearParams, AddParams
  <2>2. CASE AssignResp(r) \/ NullifyClaim(r) \/ ProcessAttribute(r)
    BY <2>2 DEF AssignResp, NullifyClaim, ProcessAttribute
  <2>3. CASE UNCHANGED shared
    BY <2>3 DEF shared
  <2> QED
    BY <1>s, <2>1, <2>2, <2>3
<1>5. resp' = resp \/ (resp' = reply[r] /\ pc[r] = "assign" /\ r \in Active)
  <2>1. CASE AssignResp(r)
    BY <2>1 DEF AssignResp
  <2>2. CASE ClearParams(r) \/ AddParams(r) \/ NullifyClaim(r) \/ ProcessAttribute(r)
    BY <2>2 DEF ClearParams, AddParams, NullifyClaim, ProcessAttribute
  <2>3. CASE UNCHANGED shared
    BY <2>3 DEF shared
  <2> QED
    BY <1>s, <2>1, <2>2, <2>3
<1>6. \A c \in Claim : InBurst(fields[c]) => InBurst(fields[c])'
  <2>1. CASE fields' = fields
    BY <1>2, <2>1 DEF InBurst
  <2>2. CASE NullifyClaim(r)
    BY <1>2, <2>2 DEF InBurst, NullifyClaim, TypeOK
  <2>3. CASE ProcessAttribute(r)
    <3>1. InBurst(Chosen(data[r]))
      BY <1>3, <2>3, ChosenOfBurst DEF ProcessAttribute
    <3>2. PICK c \in left[r] : fields' = [fields EXCEPT ![c] = Chosen(data[r])]
      BY <2>3 DEF ProcessAttribute
    <3> QED
      BY <1>2, <3>1, <3>2 DEF InBurst, TypeOK
  <2>4. CASE ClearParams(r) \/ AddParams(r) \/ AssignResp(r) \/ UNCHANGED shared
    BY <2>1, <2>4 DEF ClearParams, AddParams, AssignResp, shared
  <2> QED
    BY <1>s, <2>2, <2>3, <2>4
<1>7. \A p : InBurst(p) => (p # None => p.session \in burst')
  BY <1>2 DEF InBurst
<1>8. /\ pc'[q] = pc[q] /\ session'[q] = session[q] /\ reply'[q] = reply[q]
      /\ data'[q] = data[q] /\ index'[q] = index[q] /\ draft'[q] = draft[q]
  BY OthersKeepLocals
<1>9. session'[q] \in burst'
  BY <1>1, <1>2, <1>8 DEF OfBurst
<1>10. /\ pc'[q] \in {"add", "get"} => getParams' \subseteq burst'
       /\ pc'[q] = "assign" => reply'[q] \in burst' \cup {None}
       /\ pc'[q] = "read" => resp' \in burst' \cup {None}
  BY <1>1, <1>2, <1>3, <1>4, <1>5, <1>8 DEF OfBurst
<1>11. (\A v \in Variables : InBurst(data[q][v])) => (\A v \in Variables : InBurst(data[q][v])')
  BY <1>7, <1>8 DEF InBurst
<1>12. (\A c \in Claim : InBurst(draft[q][c])) => (\A c \in Claim : InBurst(draft[q][c])')
  BY <1>7, <1>8 DEF InBurst
<1> QED
  BY <1>1, <1>6, <1>8, <1>9, <1>10, <1>11, <1>12 DEF OfBurst

LEMMA OwnStepsOfBurst ==
    ASSUME TypeOK, LocalsOK, ActiveAreOfBurst, NEW r \in Requests, Act(r), r \in Active'
    PROVE  OfBurst(r)'
<1>1. r \in Active => OfBurst(r) /\ burst' = burst
  BY MarksStay DEF ActiveAreOfBurst, Authenticate
<1>2. ~(\E label \in Ended : End(r, label))
  BY EndLocals
<1>3. CASE Authenticate(r)
  <2>1. data'[r] = [v \in Variables |-> None] /\ draft'[r] = NoClaims /\ pc'[r] = "clear"
        /\ session'[r] \in burst'
    BY <1>3 DEF Authenticate, LocalsOK, LocalOK, TypeOK
  <2> QED
    BY <2>1 DEF OfBurst, InBurst, NoClaims
<1>4. CASE ClearParams(r) \/ AddParams(r)
  BY <1>1, <1>4 DEF ClearParams, AddParams, locals, OfBurst, InBurst, TypeOK
<1>5. CASE GetSessionData(r) \/ AssignResp(r)
  BY <1>1, <1>5 DEF GetSessionData, AssignResp, shared, OfBurst, InBurst, TypeOK
<1>6. CASE ReadVariable(r)
  <2> DEFINE v == asked[r]
  <2> DEFINE read == [data[r] EXCEPT ![v] = IF v \in DOMAIN contents[resp].variables
                                            THEN Payload(resp, v) ELSE None]
  <2>1. /\ resp # None /\ data' = [data EXCEPT ![r] = read]
        /\ pc' \in {[pc EXCEPT ![r] = "clear"], [pc EXCEPT ![r] = "nullify"]}
        /\ UNCHANGED <<session, index, draft>> /\ pc[r] = "read"
    BY <1>2, <1>6 DEF ReadVariable
  <2>2. data'[r] = read /\ pc'[r] \in {"clear", "nullify"} /\ index'[r] = 1
    BY <2>1 DEF TypeOK, LocalsOK, LocalOK, Reading
  <2>3. resp \in burst /\ OfBurst(r) /\ burst' = burst
    BY <1>1, <2>1 DEF OfBurst
  <2>4. \A w \in Variables : InBurst(read[w])
    BY <2>3 DEF OfBurst, InBurst, Payload, TypeOK
  <2> HIDE DEF read
  <2> QED
    BY <2>1, <2>2, <2>3, <2>4, Numbers DEF OfBurst, InBurst, Claim
<1>7. CASE NullifyClaim(r)
  <2>1. pc[r] = "nullify" /\ OfBurst(r) /\ burst' = burst
        /\ UNCHANGED <<session, data, draft>>
    BY <1>1, <1>7 DEF NullifyClaim
  <2>2. \A c \in Claim : c < index[r] \/ c = index[r] => InBurst(fields[c])'
    BY <1>7, <2>1 DEF NullifyClaim, OfBurst, InBurst, TypeOK
  <2>3. CASE index[r] < Claims
    <3>1. pc'[r] = "nullify" /\ index'[r] = index[r] + 1
      BY <1>7, <2>1, <2>3 DEF NullifyClaim, TypeOK
    <3>2. index[r] \in Nat /\ Claim \subseteq Nat
      BY Numbers DEF TypeOK
    <3>3. \A c \in Claim : c < index'[r] => c < index[r] \/ c = index[r]
      BY <3>1, <3>2
    <3> QED
      BY <2>1, <2>2, <3>1, <3>3 DEF OfBurst, InBurst
  <2>4. CASE ~(index[r] < Claims)
    <3>1. pc'[r] = "process"
      BY <1>7, <2>4 DEF NullifyClaim, TypeOK
    <3>2. \A c \in Claim : InBurst(fields[c])'
      <4>1. \A c \in Claim : c < index[r] \/ c = index[r]
        BY <2>4, Numbers DEF TypeOK, Claim
      <4> QED
        BY <2>2, <4>1
    <3> QED
      BY <2>1, <3>1, <3>2 DEF OfBurst, InBurst
  <2> QED
    BY <2>3, <2>4
<1>8. CASE ProcessAttribute(r)
  <2>1. pc[r] = "process" /\ OfBurst(r) /\ burst' = burst
        /\ UNCHANGED <<pc, session, data, draft>>
    BY <1>1, <1>8 DEF ProcessAttribute
  <2>2. InBurst(Chosen(data[r]))
    BY <2>1, ChosenOfBurst
  <2>3. PICK c \in left[r] : fields' = [fields EXCEPT ![c] = Chosen(data[r])]
    BY <1>8 DEF ProcessAttribute
  <2>4. \A d \in Claim : InBurst(fields[d])'
    BY <2>1, <2>2, <2>3 DEF OfBurst, InBurst, TypeOK
  <2> QED
    BY <2>1, <2>4 DEF OfBurst, InBurst
<1>9. CASE FindUser(r)
  <2>1. /\ pc[r] = "process" /\ OfBurst(r) /\ burst' = burst /\ pc'[r] = "fill"
        /\ draft'[r] = NoClaims /\ UNCHANGED <<session, data, fields>>
    BY <1>1, <1>2, <1>9 DEF FindUser, shared, TypeOK
  <2> QED
    BY <2>1 DEF OfBurst, InBurst, NoClaims
<1>10. CASE FillAttribute(r)
  <2>1. /\ pc[r] = "fill" /\ OfBurst(r) /\ burst' = burst /\ pc'[r] \in {"fill", "commit"}
        /\ UNCHANGED <<session, data, fields>>
    BY <1>1, <1>10 DEF FillAttribute, shared, TypeOK
  <2>2. \A c \in Claim : InBurst(draft[r][c])'
    BY <1>10, <2>1 DEF FillAttribute, OfBurst, InBurst, TypeOK
  <2> QED
    BY <2>1, <2>2 DEF OfBurst, InBurst
<1>11. CASE EndsEarly(r) \/ Commit(r) \/ GivesUp(r) \/ Fails(r)
  BY <1>2, <1>11 DEF EndsEarly, Commit, GivesUp, Fails
<1> QED
  BY <1>3, <1>4, <1>5, <1>6, <1>7, <1>8, <1>9, <1>10, <1>11 DEF Act, Step

LEMMA BurstStep == BurstInv /\ [Next]_vars => BurstInv'
<1> SUFFICES ASSUME BurstInv, [Next]_vars PROVE BurstInv'
  OBVIOUS
<1> USE DEF BurstInv
<1>1. TypeOK' /\ LocalsOK'
  BY TypeStep, LocalsStep
<1>2. ASSUME NEW r \in Requests, Act(r) PROVE ActiveAreOfBurst'
  BY <1>2, OthersStayOfBurst, OwnStepsOfBurst DEF ActiveAreOfBurst
<1>3. ASSUME UNCHANGED vars PROVE ActiveAreOfBurst'
  <2>1. ASSUME NEW r \in Active' PROVE OfBurst(r)'
    <3>1. OfBurst(r)
      BY <1>3 DEF vars, ActiveAreOfBurst
    <3> QED
      BY <1>3, <3>1 DEF vars, locals, shared, history, OfBurst, InBurst
  <2> QED
    BY <2>1 DEF ActiveAreOfBurst
<1> QED
  BY <1>1, <1>2, <1>3, NextIsAct

LEMMA BurstInvIsEnough == BurstInv => NothingOutlivesItsBurst
<1> SUFFICES ASSUME BurstInv, NEW r \in Requests, pc[r] \in Named, NEW c \in Claim
             PROVE  InBurst(draft[r][c])
  BY DEF NothingOutlivesItsBurst, Named, InBurst
<1>1. r \in Active
  BY DEF Named
<1> QED
  BY <1>1 DEF BurstInv, ActiveAreOfBurst, OfBurst

LEMMA BurstInit == Init => BurstInv
BY TypeInit DEF Init, BurstInv, ActiveAreOfBurst

(* The strengthened invariant that this rests on: all that the logins in    *)
(* progress have, in fields of their own or shared, is of their burst       *)
(* (readSessionData, nullifyClaims, processAttributes).                     *)
THEOREM BurstInvariant == Spec => []BurstInv
BY BurstInit, BurstStep, PTL DEF Spec

(* What a login is about to write was asserted in sessions of the burst of  *)
(* logins it is part of, however many there are (authenticateImpl,          *)
(* nullifyClaims).                                                          *)
THEOREM NothingOutlives == Spec => []NothingOutlivesItsBurst
BY BurstInvariant, BurstInvIsEnough, PTL

-----------------------------------------------------------------------------
(* PostResponse implements UserRecords. *)

OutcomeBar == [r \in Requests |-> Outcome(r)]
AssertionsBar ==
    [s \in Sessions |-> [person |-> contents[s].person, record |-> Asserted(s)]]

LEMMA PromiseInit == Init => Promise!Init
<1> SUFFICES ASSUME Init PROVE Promise!Init
  OBVIOUS
<1>1. \A r \in Requests : Outcome(r) = [state |-> "pending"]
  BY DEF Init, Outcome
<1>2. users = [u \in Usernames |-> None]
  BY DEF Init
<1> QED
  BY <1>1, <1>2 DEF Promise!Init, Promise!Pending

(* What became of a login, its session and its realm stay as they are, as   *)
(* long as only other logins act and do not overlap it.                     *)
LEMMA OthersKeepOutcome ==
    ASSUME TypeOK, NEW r \in Requests, Act(r), NEW q \in Requests, q # r,
           overlapped'[q] = overlapped[q]
    PROVE  Outcome(q)' = Outcome(q)
BY OthersKeepLocals DEF Outcome

LEMMA PromiseStep ==
    RecordInv /\ [Next]_vars => [Promise!Next]_<<OutcomeBar, AssertionsBar, users>>
<1> SUFFICES ASSUME RecordInv, [Next]_vars
             PROVE  \/ Promise!Next
                    \/ OutcomeBar' = OutcomeBar /\ AssertionsBar' = AssertionsBar /\ users' = users
  OBVIOUS
<1> USE DEF OutcomeBar, AssertionsBar
<1>t. TypeOK /\ LocalsOK /\ AloneIsOwn
  BY DEF RecordInv
<1>a. ASSUME contents' = contents PROVE AssertionsBar' = AssertionsBar
  BY <1>a DEF Asserted
(* A login starts: it and those it meets are disturbed. *)
<1>1. ASSUME NEW r \in Requests, Authenticate(r) PROVE Promise!Next
  <2> DEFINE together == {q \in Requests : overlapped'[q] /\ ~overlapped[q]}
  <2>1. /\ UNCHANGED <<users, contents>> /\ pc[r] = "idle" /\ pc'[r] = "clear"
        /\ \A q \in Requests : overlapped[q] => overlapped'[q]
        /\ \A q \in Requests \ {r} :
            pc'[q] = pc[q] /\ session'[q] = session[q] /\ prefix'[q] = prefix[q]
        /\ \A q \in together : pc[q] \notin Ended
    BY <1>1, <1>t DEF Authenticate, TypeOK, keycloak
  <2>2. \A q \in together : Outcome(q) = [state |-> "pending"] /\ Outcome(q)' = [state |-> "disturbed"]
    BY <2>1 DEF Outcome
  <2>3. \A q \in Requests \ together : Outcome(q)' = Outcome(q)
    BY <1>t, <2>1 DEF Outcome, TypeOK
  <2>4. Promise!Disturb(together)
    BY <1>a, <2>1, <2>2, <2>3 DEF Promise!Disturb, Promise!Pending, Promise!Disturbed
  <2> QED
    BY <2>4 DEF Promise!Next
(* Any other step of a login is about this login only. *)
<1>2. ASSUME NEW r \in Requests, EndsEarly(r) \/ Step(r)
      PROVE  \/ Promise!Next
             \/ OutcomeBar' = OutcomeBar /\ AssertionsBar' = AssertionsBar /\ users' = users
  <2>1. /\ Act(r) /\ overlapped' = overlapped /\ pc[r] \notin Ended
        /\ contents' = contents
    <3>1. Act(r)
      BY <1>2 DEF Act
    <3>2. ~Authenticate(r)
      <4>1. CASE EndsEarly(r)
        BY <1>t, <4>1, EndLocals DEF EndsEarly, Authenticate, TypeOK
      <4>2. CASE Step(r)
        BY <4>2 DEF Authenticate, Step, ClearParams, AddParams, GetSessionData, AssignResp,
           ReadVariable, NullifyClaim, ProcessAttribute, FindUser, FillAttribute, Commit, GivesUp,
           Fails
      <4> QED
        BY <1>2, <4>1, <4>2
    <3> QED
      BY <1>t, <3>1, <3>2, MarksStay, ActsWhileActive, ContentsStay
  <2>2. \A q \in Requests \ {r} : Outcome(q)' = Outcome(q)
    BY <1>t, <2>1, OthersKeepOutcome
  <2>3. AssertionsBar' = AssertionsBar
    BY <1>a, <2>1
  <2>4. CASE /\ pc[r] = "commit" /\ pc'[r] = "success"
             /\ session'[r] = session[r] /\ prefix'[r] = prefix[r]
             /\ users' = [users EXCEPT ![username[r]] = draft[r]]
    <3>1. username[r] \in Usernames /\ session[r] \in Sessions /\ prefix[r] \in Prefixes
      BY <1>t, <2>4 DEF LocalsOK, LocalOK, Named
    <3>2. CASE overlapped[r]
      <4>1. Outcome(r) = [state |-> "disturbed"] /\ Outcome(r)' = Outcome(r)
        BY <2>1, <3>2 DEF Outcome
      <4>2. users' = [users EXCEPT ![username[r]] = users'[username[r]]]
        BY <1>t, <2>4, <3>1 DEF TypeOK
      <4>3. Promise!WriteDisturbed(r)
        BY <2>2, <2>3, <3>1, <4>1, <4>2 DEF Promise!WriteDisturbed, Promise!Disturbed
      <4> QED
        BY <4>3 DEF Promise!Next
    <3>3. CASE ~overlapped[r]
      <4>1. /\ draft[r] = Asserted(session[r])
            /\ username[r] = Username(prefix[r], contents[session[r]].person)
        BY <1>t, <2>4, <3>3 DEF AloneIsOwn, FillsOwn, Named
      <4>2. /\ Outcome(r) = [state |-> "pending"]
            /\ Outcome(r)' = [state |-> "recorded", session |-> session[r], prefix |-> prefix[r]]
        BY <2>1, <2>4, <3>3 DEF Outcome
      <4>3. AssertionsBar[session[r]] =
                [person |-> contents[session[r]].person, record |-> Asserted(session[r])]
        BY <3>1
      <4>4. users' = [users EXCEPT ![Name[<<prefix[r], AssertionsBar[session[r]].person>>]] =
                                        AssertionsBar[session[r]].record]
        <5> HIDE DEF AssertionsBar
        <5> QED
          BY <2>4, <4>1, <4>3 DEF Username
      <4>5. OutcomeBar' = [OutcomeBar EXCEPT ![r] = Promise!Recorded(session[r], prefix[r])]
        BY <2>2, <4>2 DEF Promise!Recorded
      <4>6. Promise!Record(r)
        <5> HIDE DEF OutcomeBar, AssertionsBar
        <5>1. OutcomeBar[r] = Promise!Pending
          BY <4>2 DEF OutcomeBar, Promise!Pending
        <5> QED
          BY <2>3, <3>1, <4>4, <4>5, <5>1 DEF Promise!Record, OutcomeBar, AssertionsBar
      <4> QED
        BY <4>6 DEF Promise!Next
    <3> QED
      BY <3>2, <3>3
  <2>5. CASE UNCHANGED users /\ pc'[r] # "success"
    <3>1. CASE Outcome(r)' = Outcome(r)
      BY <2>2, <2>3, <2>5, <3>1
    <3>2. CASE Outcome(r)' # Outcome(r)
      <4>1. Outcome(r) = [state |-> "pending"] /\ Outcome(r)' = [state |-> "without"]
        BY <2>1, <2>5, <3>2 DEF Outcome
      <4>2. Promise!EndWithout(r)
        BY <2>2, <2>3, <2>5, <4>1 DEF Promise!EndWithout, Promise!Pending, Promise!Without
      <4> QED
        BY <4>2 DEF Promise!Next
    <3> QED
      BY <3>1, <3>2
  <2> QED
    BY <1>t, <2>1, <2>4, <2>5, OnlySuccessWrites DEF keycloak
<1>3. CASE UNCHANGED vars
  <2>1. \A r \in Requests : Outcome(r)' = Outcome(r)
    BY <1>3 DEF vars, locals, history, Outcome
  <2> QED
    BY <1>3, <1>a, <2>1 DEF vars, keycloak
<1> QED
  BY <1>1, <1>2, <1>3 DEF Next

(* PostResponse implements UserRecords: a login that no other one overlaps  *)
(* writes the record of its own person, in one step of the promise, or ends *)
(* without a change to any user.                                            *)
THEOREM RecordsKept == Spec => KeepsRecords
BY RecordInvariant, PromiseInit, PromiseStep, PTL
DEF Spec, KeepsRecords, Promise!Spec, OutcomeBar, AssertionsBar

-----------------------------------------------------------------------------
(* Every execution gets nearer to its end with each of its steps. *)

LEMMA Positions ==
    /\ Position["idle"] = 8 /\ Position["clear"] = 7 /\ Position["add"] = 6
    /\ Position["get"] = 5 /\ Position["assign"] = 4 /\ Position["read"] = 3
    /\ Position["nullify"] = 3 /\ Position["process"] = 2 /\ Position["fill"] = 2
    /\ Position["commit"] = 1 /\ Position["success"] = 0 /\ Position["attempted"] = 0
    /\ Position["aborted"] = 0
BY DEF Position

(* No more attributes are left to process than there are claim fields, and  *)
(* one less once one of them has been processed.                            *)
LEMMA LeftIsFinite ==
    ASSUME NEW S \in SUBSET Claim
    PROVE  /\ Cardinality(S) \in 0..Claims
           /\ \A c \in S : Cardinality(S \ {c}) = Cardinality(S) - 1
<1>1. IsFiniteSet(Claim) /\ Cardinality(Claim) = Claims
  BY Numbers, FS_Interval DEF Claim
<1>2. IsFiniteSet(S) /\ Cardinality(S) <= Claims
  BY <1>1, FS_Subset
<1>3. Cardinality(S) \in Nat
  BY <1>2, FS_CardinalityType
<1>4. \A c \in S : Cardinality(S \ {c}) = Cardinality(S) - 1
  BY <1>2, FS_RemoveElement
<1> QED
  BY <1>2, <1>3, <1>4, Numbers

(* What is known of the counters at each label. *)
LEMMA CountersAtLabels ==
    ASSUME TypeOK, LocalsOK, NEW r \in Requests
    PROVE  /\ Claims \in Nat /\ index[r] \in 1..Claims /\ Cardinality(left[r]) \in 0..Claims
           /\ pc[r] = "idle" => asked[r] = "responseAssertions"
           /\ pc[r] \in Reading \cup {"process", "commit"} => index[r] = 1
BY Numbers, LeftIsFinite DEF TypeOK, LocalsOK, LocalOK, Claim

LEMMA StepsLeftInRange ==
    ASSUME TypeOK, LocalsOK, NEW r \in Requests
    PROVE  StepsLeft(r) \in 0..3 * Claims + 13
<1>1. pc[r] \in Labels
  BY DEF TypeOK
<1>2. CASE pc[r] \in {"idle", "clear", "add", "get", "assign", "read"}
  BY <1>2, CountersAtLabels, Positions DEF StepsLeft
<1>3. CASE pc[r] \in {"nullify", "process", "fill"}
  BY <1>3, CountersAtLabels, Positions DEF StepsLeft
<1>4. CASE pc[r] \in Ended \cup {"commit"}
  BY <1>4, CountersAtLabels, Positions DEF StepsLeft, Ended
<1> QED
  BY <1>1, <1>2, <1>3, <1>4 DEF Labels

LEMMA StepCounts ==
    ASSUME TypeOK, LocalsOK, NEW r \in Requests, Act(r)
    PROVE  StepsLeft(r)' < StepsLeft(r)
<1>1. /\ Claims \in Nat /\ index[r] \in 1..Claims /\ Cardinality(left[r]) \in 0..Claims
      /\ pc[r] = "idle" => asked[r] = "responseAssertions"
      /\ pc[r] \in Reading \cup {"process", "commit"} => index[r] = 1
  BY CountersAtLabels
<1>2. ASSUME pc[r] \notin Ended, NEW label \in Ended, End(r, label)
      PROVE  StepsLeft(r)' < StepsLeft(r)
  <2>1. StepsLeft(r)' = 0
    <3>1. pc'[r] = label
      BY <1>2, EndLocals
    <3> QED
      BY <1>2, <3>1, Positions DEF StepsLeft, Ended
  <2>2. StepsLeft(r) > 0
    <3>1. pc[r] \in {"idle", "clear", "add", "get", "assign", "read", "nullify", "process",
                     "fill", "commit"}
      BY <1>2 DEF TypeOK, Labels
    <3>2. CASE pc[r] \in {"idle", "clear", "add", "get", "assign", "read"}
      BY <1>1, <3>2, Positions DEF StepsLeft
    <3>3. CASE pc[r] \in {"nullify", "process", "fill", "commit"}
      BY <1>1, <3>3, Positions DEF StepsLeft
    <3> QED
      BY <3>1, <3>2, <3>3
  <2> QED
    BY <2>1, <2>2
<1>3. CASE Authenticate(r)
  <2>1. pc[r] = "idle" /\ pc'[r] = "clear" /\ asked'[r] = asked[r]
    BY <1>3 DEF Authenticate, TypeOK
  <2> QED
    BY <1>1, <2>1, Positions DEF StepsLeft
<1>4. CASE ClearParams(r) \/ AddParams(r) \/ GetSessionData(r) \/ AssignResp(r)
  <2>1. /\ asked'[r] = asked[r]
        /\ \/ pc[r] = "clear" /\ pc'[r] = "add"
           \/ pc[r] = "add" /\ pc'[r] = "get"
           \/ pc[r] = "get" /\ pc'[r] = "assign"
           \/ pc[r] = "assign" /\ pc'[r] = "read"
    BY <1>4 DEF ClearParams, AddParams, GetSessionData, AssignResp, locals, TypeOK
  <2> QED
    BY <1>1, <2>1, Positions DEF StepsLeft
<1>5. CASE ReadVariable(r)
  <2>1. \/ \E label \in Ended : End(r, label)
        \/ /\ asked[r] = "responseAssertions" /\ asked'[r] = "dsResponse"
           /\ pc'[r] = "clear"
        \/ asked[r] = "dsResponse" /\ pc'[r] = "nullify" /\ index'[r] = index[r]
    BY <1>5 DEF ReadVariable, Ended, TypeOK
  <2>2. pc[r] = "read" /\ pc[r] \notin Ended
    BY <1>5 DEF ReadVariable, Ended
  <2>3. CASE \E label \in Ended : End(r, label)
    BY <1>2, <2>2, <2>3
  <2>4. CASE asked[r] = "responseAssertions" /\ asked'[r] = "dsResponse" /\ pc'[r] = "clear"
    BY <1>1, <2>2, <2>4, Positions DEF StepsLeft
  <2>5. CASE asked[r] = "dsResponse" /\ pc'[r] = "nullify" /\ index'[r] = index[r]
    BY <1>1, <2>2, <2>5, Positions DEF StepsLeft, Reading
  <2> QED
    BY <2>1, <2>3, <2>4, <2>5
<1>6. CASE NullifyClaim(r)
  <2>1. CASE index[r] < Claims
    <3>1. pc[r] = "nullify" /\ pc'[r] = "nullify" /\ index'[r] = index[r] + 1
      BY <1>6, <2>1 DEF NullifyClaim, TypeOK
    <3> QED
      BY <1>1, <2>1, <3>1, Positions DEF StepsLeft
  <2>2. CASE ~(index[r] < Claims)
    <3>1. pc[r] = "nullify" /\ pc'[r] = "process"
      BY <1>6, <2>2 DEF NullifyClaim, TypeOK
    <3>2. Cardinality(left'[r]) \in 0..Claims
      <4>1. TypeOK'
        BY <1>6, TypeStep DEF Next, Step
      <4>2. left'[r] \in SUBSET Claim
        BY <4>1 DEF TypeOK
      <4> QED
        BY <4>2, LeftIsFinite
    <3> QED
      BY <1>1, <3>1, <3>2, Positions DEF StepsLeft
  <2> QED
    BY <2>1, <2>2
<1>7. CASE ProcessAttribute(r)
  <2>1. PICK c \in left[r] : left'[r] = left[r] \ {c}
    BY <1>7 DEF ProcessAttribute, TypeOK
  <2>2. Cardinality(left'[r]) = Cardinality(left[r]) - 1
    BY <2>1, LeftIsFinite DEF TypeOK
  <2>3. pc[r] = "process" /\ pc'[r] = "process"
    BY <1>7 DEF ProcessAttribute
  <2> QED
    BY <1>1, <2>2, <2>3, Positions DEF StepsLeft
<1>8. CASE FindUser(r)
  <2>1. pc[r] = "process" /\ pc[r] \notin Ended
    BY <1>8 DEF FindUser, Ended
  <2>2. CASE End(r, "aborted")
    BY <1>2, <2>1, <2>2 DEF Ended
  <2>3. CASE pc'[r] = "fill" /\ index'[r] = index[r]
    BY <1>1, <2>1, <2>3, Positions DEF StepsLeft
  <2> QED
    BY <1>8, <2>2, <2>3 DEF FindUser, TypeOK
<1>9. CASE FillAttribute(r)
  <2>1. CASE index[r] < Claims
    <3>1. pc[r] = "fill" /\ pc'[r] = "fill" /\ index'[r] = index[r] + 1
      BY <1>9, <2>1 DEF FillAttribute, TypeOK
    <3> QED
      BY <1>1, <2>1, <3>1, Positions DEF StepsLeft
  <2>2. CASE ~(index[r] < Claims)
    <3>1. pc[r] = "fill" /\ pc'[r] = "commit"
      BY <1>9, <2>2 DEF FillAttribute, TypeOK
    <3> QED
      BY <1>1, <3>1, Positions DEF StepsLeft
  <2> QED
    BY <2>1, <2>2
<1>10. CASE EndsEarly(r) \/ Commit(r) \/ GivesUp(r) \/ Fails(r)
  <2>1. pc[r] \notin Ended /\ \E label \in Ended : End(r, label)
    BY <1>10 DEF EndsEarly, Commit, GivesUp, Fails, Ended
  <2> QED
    BY <1>2, <2>1
<1> QED
  BY <1>3, <1>4, <1>5, <1>6, <1>7, <1>8, <1>9, <1>10 DEF Act, Step

(* No execution takes more than 3 * Claims + 13 steps, whatever those it    *)
(* shares the authenticator with do meanwhile.                              *)
THEOREM StepsAreBounded == Spec => EveryStepCounts
<1> DEFINE InRange == \A r \in Requests : StepsLeft(r) \in 0..3 * Claims + 13
<1>1. TypeOK /\ LocalsOK => InRange
  BY StepsLeftInRange
<1>2. ASSUME TypeOK /\ LocalsOK, InRange, InRange', Next, ~UNCHANGED vars, NEW r \in Requests
      PROVE  /\ StepsLeft(r)' \in 0..3 * Claims + 13
             /\ StepsLeft(r)' <= StepsLeft(r)
             /\ Step(r) => StepsLeft(r)' < StepsLeft(r)
  <2>1. StepsLeft(r)' \in 0..3 * Claims + 13 /\ StepsLeft(r) \in 0..3 * Claims + 13
    BY <1>2
  <2> HIDE DEF InRange
  <2>2. StepsLeft(r)' \in Nat /\ StepsLeft(r) \in Nat
    BY <2>1, Numbers
  <2>3. PICK q \in Requests : Act(q)
    BY <1>2 DEF Next, Act, vars
  <2>4. CASE q = r
    BY <1>2, <2>1, <2>2, <2>3, <2>4, StepCounts
  <2>5. CASE q # r
    <3>1. StepsLeft(r)' = StepsLeft(r)
      BY <1>2, <2>3, <2>5, OthersKeepLocals DEF StepsLeft
    <3>2. Step(r) => StepsLeft(r)' < StepsLeft(r)
      BY <1>2, StepCounts DEF Act
    <3> QED
      BY <2>1, <2>2, <3>1, <3>2
  <2> QED
    BY <2>4, <2>5
<1>3. TypeOK /\ LocalsOK /\ InRange /\ InRange' /\ [Next]_vars
        => [\A r \in Requests :
               /\ StepsLeft(r)' \in 0..3 * Claims + 13
               /\ StepsLeft(r)' <= StepsLeft(r)
               /\ Step(r) => StepsLeft(r)' < StepsLeft(r)]_vars
  BY <1>2
<1> QED
  BY <1>1, <1>3, TypeCorrect, PTL DEF EveryStepCounts, Spec
=============================================================================
