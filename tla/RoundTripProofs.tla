---------------------------- MODULE RoundTripProofs ----------------------------
(* Proofs about RoundTrip, for any number of browsers, sessions and trips.  *)
EXTENDS RoundTripInvariant, TLAPS

LEMMA NoNone == None \notin SessionIds /\ None \notin Logins
BY RoundTripAssumption

(* What the parameters of a login are, and where they lead.                 *)
LEMMA VariantsLeadHome ==
    ASSUME TypeOK, NEW l \in Logins
    PROVE  /\ SpDetails(l) \in Details
           /\ SpDetails(l).of = l
           /\ SpDetails(l).claimsvariant = ClaimsVariant(l)
           /\ Endpoint(SpDetails(l).authvariant) = Home(l)
           /\ Home(l) \in Endpoints
<1>1. auth[l] = "esmo" \/ auth[l] = "eidas"
  BY DEF TypeOK, Authenticators
<1>2. EsmoNo # EsmoNoProd /\ {EsmoNo, EsmoNoProd} \cap {"esmo", "eidas"} = {}
  BY RoundTripAssumption
<1>3. AuthVariant(l) \in Variants /\ ClaimsVariant(l) \in ClaimsVariants
  BY DEF AuthVariant, Variants, ClaimsVariant, ClaimsVariants
<1>4. Endpoint(AuthVariant(l)) = Home(l) /\ Home(l) \in Endpoints
  <2>1. CASE auth[l] = "eidas"
    BY <1>2, <2>1 DEF Endpoint, AuthVariant, Home, Endpoints
  <2>2. CASE auth[l] = "esmo" /\ Lower[realm[l]] = Lower[EsmoNo]
    BY <1>2, <2>2, RoundTripAssumption DEF Endpoint, AuthVariant, Home, Endpoints
  <2>3. CASE auth[l] = "esmo" /\ Lower[realm[l]] = Lower[EsmoNoProd]
    BY <1>2, <2>3, RoundTripAssumption DEF Endpoint, AuthVariant, Home, Endpoints
  <2>4. CASE auth[l] = "esmo" /\ Lower[realm[l]] \notin {Lower[EsmoNo], Lower[EsmoNoProd]}
    BY <1>2, <2>4 DEF Endpoint, AuthVariant, Home, Endpoints
  <2> QED
    BY <1>1, <2>1, <2>2, <2>3, <2>4
<1> QED
  BY <1>3, <1>4 DEF SpDetails, Details

-----------------------------------------------------------------------------
(* Types. *)

USE DEF GiveUpNotes, Resource

(* One step of one browser. *)
Act(l) ==
    \/ HandOver(l) \/ GiveUp(l) \/ Abort(l) \/ ShowPage(l) \/ PostAway(l)
    \/ PostBack(l) \/ ValidateToken(l) \/ ReadSpDetails(l) \/ ReturnFails(l) \/ Redirect(l)
    \/ LogIn(l)

LEMMA TypeInit == Init => TypeOK
BY RoundTripAssumption DEF Init, TypeOK, Notes, Note, NoForm, Form, Forms, NewResource, NoRedirect

LEMMA FormTypes ==
    /\ \A to \in {"none", "login", "acm", "idp"}, s \in SessionIds \cup {None} : Form(to, s) \in Forms
    /\ NoForm \in Forms
BY DEF Form, Forms, NoForm

(* A write to one field of a resource record leaves a resource record. *)
LEMMA ResourceTypes ==
    ASSUME NEW S, NEW D, NEW f \in [sessionId : S, details : D]
    PROVE  /\ \A x \in S : [f EXCEPT !.sessionId = x] \in [sessionId : S, details : D]
           /\ \A y \in D : [f EXCEPT !.details = y] \in [sessionId : S, details : D]
OBVIOUS

LEMMA TypeStep ==
    ASSUME TypeOK, \A l \in Logins : RedirectOK(l), [Next]_vars
    PROVE  TypeOK'
<1>a. \A l \in Logins : SpDetails(l) \in Details /\ Home(l) \in Endpoints
  BY VariantsLeadHome
<1> USE DEF TypeOK, login, outgoing, manager, incoming
<1>1. ASSUME NEW l \in Logins, HandOver(l) PROVE TypeOK'
  <2>1. PICK s \in SessionIds, token \in SessionIds \cup {None} :
            /\ owner' = [owner EXCEPT ![s] = l]
            /\ details' \in {details, [details EXCEPT ![s] = SpDetails(l)]}
            /\ \/ /\ notes' = [notes EXCEPT ![l] = [@ EXCEPT !.acm = "true", !.msToken = token,
                                                            !.idp = "false"]]
                  /\ last' = [last EXCEPT ![l] = Form("acm", token)]
               \/ /\ notes' = [notes EXCEPT ![l] = [@ EXCEPT !.idp = "true", !.sessionId = s,
                                                            !.acm = "false"]]
                  /\ last' = [last EXCEPT ![l] = Form("idp", s)]
    BY <1>1 DEF HandOver
  <2>2. details' \in [SessionIds -> Details \cup {None}]
    <3>1. SpDetails(l) \in Details
      BY <1>a
    <3>2. CASE details' = details
      BY <3>2
    <3>3. CASE details' = [details EXCEPT ![s] = SpDetails(l)]
      BY <3>1, <3>3
    <3> QED
      BY <2>1, <3>2, <3>3
  <2>3. last' \in [Logins -> Forms]
    <3>1. Form("acm", token) \in Forms /\ Form("idp", s) \in Forms
      BY FormTypes
    <3>2. last \in [Logins -> Forms]
      OBVIOUS
    <3>3. \E f \in Forms : last' = [last EXCEPT ![l] = f]
      BY <2>1, <3>1
    <3> QED
      BY <3>2, <3>3
  <2>4. notes' \in [Logins -> Notes]
    <3>1. notes[l] \in Notes
      OBVIOUS
    <3>2. [notes[l] EXCEPT !.acm = "true", !.msToken = token, !.idp = "false"] \in Notes
      BY <3>1 DEF Notes
    <3>3. [notes[l] EXCEPT !.idp = "true", !.sessionId = s, !.acm = "false"] \in Notes
      BY <3>1 DEF Notes
    <3>4. \E n \in Notes : notes' = [notes EXCEPT ![l] = n]
      BY <2>1, <3>2, <3>3
    <3> QED
      BY <3>4
  <2>5. owner' \in [SessionIds -> Logins \cup {None}]
    BY <2>1
  <2>6. attempts' \in [Logins -> 0..MaxAttempts] /\ page' \in [Logins -> Forms]
    BY <1>1, FormTypes, RoundTripAssumption DEF HandOver
  <2> QED
    BY <1>1, <2>2, <2>3, <2>4, <2>5, <2>6 DEF HandOver
<1>2. ASSUME NEW l \in Logins, GiveUp(l) \/ Abort(l) PROVE TypeOK'
  <2>1. attempts' \in [Logins -> 0..MaxAttempts] /\ page' \in [Logins -> Forms]
        /\ last' \in [Logins -> Forms]
    <3>1. NoForm \in Forms /\ Form("login", None) \in Forms
      BY FormTypes
    <3>2. \E f \in Forms : last' = [last EXCEPT ![l] = f]
      BY <1>2, <3>1 DEF GiveUp, Abort
    <3>3. attempts' = [attempts EXCEPT ![l] = @ + 1] /\ attempts[l] < MaxAttempts
          /\ page' = [page EXCEPT ![l] = NoForm]
      BY <1>2 DEF GiveUp, Abort
    <3>4. attempts[l] + 1 \in 0..MaxAttempts
      BY <3>3, RoundTripAssumption
    <3> QED
      BY <3>1, <3>2, <3>3, <3>4
  <2>2. notes' \in [Logins -> Notes]
    <3>0. notes[l] \in Notes
      OBVIOUS
    <3>1. [notes[l] EXCEPT !.acm = "false", !.idp = "false"] \in Notes
      BY <3>0 DEF Notes
    <3>2. notes' = notes \/ notes' = [notes EXCEPT ![l] = [notes[l] EXCEPT !.acm = "false", !.idp = "false"]]
      BY <1>2 DEF GiveUp, Abort
    <3> QED
      BY <3>1, <3>2
  <2> QED
    BY <1>2, <2>1, <2>2 DEF GiveUp, Abort
<1>3. ASSUME NEW l \in Logins, ShowPage(l) PROVE TypeOK'
  <2>1. PageOf(notes[l]) \in Forms
    <3>1. notes[l].msToken \in SessionIds \cup {None} /\ notes[l].sessionId \in SessionIds \cup {None}
      BY DEF Notes
    <3> QED
      BY <3>1, FormTypes DEF PageOf
  <2> QED
    BY <1>3, <2>1 DEF ShowPage
<1>4. ASSUME NEW l \in Logins, PostAway(l) PROVE TypeOK'
  <2>1. page[l].session \in SessionIds
    BY <1>4 DEF PostAway, Forms
  <2> QED
    BY <1>4, <2>1 DEF PostAway
<1>5. ASSUME NEW l \in Logins, PostBack(l) PROVE TypeOK'
  <2>1. PICK s \in away[l] : /\ asserted' \in {asserted, [asserted EXCEPT ![s] = l]}
                             /\ msToken' = [msToken EXCEPT ![l] = s]
    BY <1>5 DEF PostBack
  <2>2. asserted' \in [SessionIds -> Logins \cup {None}] /\ msToken' \in [Logins -> SessionIds \cup {None}]
    BY <2>1
  <2>3. returns' \in [Logins -> 0..MaxReturns]
    BY <1>5, RoundTripAssumption DEF PostBack
  <2> QED
    BY <1>5, <2>2, <2>3 DEF PostBack, NewResource
<1>6. ASSUME NEW l \in Logins, ValidateToken(l) PROVE TypeOK'
  <2>1. resource' = [resource EXCEPT ![l] = [resource[l] EXCEPT !.sessionId = msToken[l]]]
        /\ serving' = [serving EXCEPT ![l] = "details"]
    BY <1>6 DEF ValidateToken
  <2>2. [resource[l] EXCEPT !.sessionId = msToken[l]]
            \in [sessionId : SessionIds \cup {None}, details : Details \cup {None}]
    <3>1. resource[l] \in [sessionId : SessionIds \cup {None}, details : Details \cup {None}]
      OBVIOUS
    <3>2. msToken[l] \in SessionIds \cup {None}
      OBVIOUS
    <3> HIDE DEF TypeOK, login, outgoing, manager, incoming
    <3> QED
      BY <3>1, <3>2, ResourceTypes
  <2>3. resource' \in [Logins -> [sessionId : SessionIds \cup {None}, details : Details \cup {None}]]
    BY <2>1, <2>2
  <2> QED
    BY <1>6, <2>1, <2>3 DEF ValidateToken
<1>7. ASSUME NEW l \in Logins, ReadSpDetails(l) PROVE TypeOK'
  <2> DEFINE s == resource[l].sessionId
  <2>1. /\ s \in SessionIds /\ details[s] \in Details
        /\ resource' = [resource EXCEPT ![l] = [resource[l] EXCEPT !.details = details[s]]]
        /\ serving' = [serving EXCEPT ![l] = "redirect"]
    BY <1>7 DEF ReadSpDetails
  <2>2. [resource[l] EXCEPT !.details = details[s]]
            \in [sessionId : SessionIds \cup {None}, details : Details \cup {None}]
    <3>1. resource[l] \in [sessionId : SessionIds \cup {None}, details : Details \cup {None}]
      OBVIOUS
    <3>2. details[s] \in Details \cup {None}
      BY <2>1
    <3> HIDE DEF TypeOK, login, outgoing, manager, incoming
    <3> QED
      BY <3>1, <3>2, ResourceTypes
  <2>3. resource' \in [Logins -> [sessionId : SessionIds \cup {None}, details : Details \cup {None}]]
    BY <2>1, <2>2
  <2> QED
    BY <1>7, <2>1, <2>3 DEF ReadSpDetails
<1>8. ASSUME NEW l \in Logins, ReturnFails(l) PROVE TypeOK'
  BY <1>8 DEF ReturnFails, Served, NewResource
<1>9. ASSUME NEW l \in Logins, Redirect(l) PROVE TypeOK'
  <2>1. \A v : Endpoint(v) \in Endpoints
    BY DEF Endpoint, Endpoints
  <2> QED
    BY <1>9, <2>1 DEF Redirect, Served, NewResource
<1>10. ASSUME NEW l \in Logins, LogIn(l) PROVE TypeOK'
  <2> DEFINE r == redirect[l]
  <2> DEFINE user == [realm |-> RealmOf[r.endpoint], prefix |-> Prefix(r),
                      person |-> asserted[r.sessionId]]
  <2>1. r.sessionId \in SessionIds /\ asserted[r.sessionId] \in Logins /\ r # NoRedirect
        /\ account' = [account EXCEPT ![l] = user]
    BY <1>10 DEF LogIn
  <2>2. r.endpoint \in Endpoints /\ r.details \in Details
    BY <1>a, <2>1 DEF RedirectOK
  <2>3. RealmOf[r.endpoint] \in Homes
    BY <2>2 DEF Homes
  <2>4. Prefix(r) \in Homes \cup {"esmo", "esmob"}
    BY <2>2, <2>3 DEF Prefix, Details, ClaimsVariants
  <2>5. user \in Accounts
    BY <2>1, <2>3, <2>4 DEF Accounts
  <2> HIDE DEF user
  <2>6. account' \in [Logins -> Accounts \cup {None}]
    BY <2>1, <2>5
  <2> QED
    BY <1>10, <2>6 DEF LogIn
<1>11. CASE UNCHANGED vars
  BY <1>11 DEF vars
<1> QED
  BY <1>1, <1>2, <1>3, <1>4, <1>5, <1>6, <1>7, <1>8, <1>9, <1>10, <1>11 DEF Next

-----------------------------------------------------------------------------
(* Sessions are traced to the browsers they were opened for. *)

(* What a step of browser l leaves as it is. *)
LEMMA LoginsStay ==
    ASSUME TypeOK, NEW l \in Logins, Act(l)
    PROVE  /\ UNCHANGED login
           /\ \A x \in Logins : Home(x)' = Home(x) /\ SpDetails(x)' = SpDetails(x)
           /\ \A s \in SessionIds : owner[s] # None => owner'[s] = owner[s]
           /\ \A x \in Logins \ {l} :
                /\ notes'[x] = notes[x] /\ page'[x] = page[x] /\ last'[x] = last[x]
                /\ away'[x] = away[x] /\ msToken'[x] = msToken[x] /\ serving'[x] = serving[x]
                /\ resource'[x] = resource[x] /\ redirect'[x] = redirect[x]
                /\ account'[x] = account[x]
<1>1. UNCHANGED login
  BY DEF Act, HandOver, GiveUp, Abort, ShowPage, PostAway, PostBack, ValidateToken, ReadSpDetails,
     ReturnFails, Redirect, LogIn
<1>2. \A x \in Logins : Home(x)' = Home(x) /\ SpDetails(x)' = SpDetails(x)
  BY <1>1 DEF login, Home, SpDetails, AuthVariant, ClaimsVariant
<1>3. \A s \in SessionIds : owner[s] # None => owner'[s] = owner[s]
  <2>1. CASE HandOver(l)
    BY <2>1 DEF HandOver, TypeOK
  <2>2. owner' = owner \/ HandOver(l)
    BY DEF Act, GiveUp, Abort, ShowPage, PostAway, PostBack, ValidateToken, ReadSpDetails,
       ReturnFails, Redirect, LogIn, manager
  <2> QED
    BY <2>1, <2>2
<1>4. \A x \in Logins \ {l} :
        /\ notes'[x] = notes[x] /\ page'[x] = page[x] /\ last'[x] = last[x]
        /\ away'[x] = away[x] /\ msToken'[x] = msToken[x] /\ serving'[x] = serving[x]
        /\ resource'[x] = resource[x] /\ redirect'[x] = redirect[x]
        /\ account'[x] = account[x]
  <2> USE DEF TypeOK, outgoing, incoming
  <2>1. CASE HandOver(l) \/ GiveUp(l) \/ Abort(l)
    <3>1. /\ UNCHANGED <<away, incoming, account>>
          /\ \E n, f : /\ notes' = [notes EXCEPT ![l] = n] \/ notes' = notes
                      /\ last' = [last EXCEPT ![l] = f]
          /\ page' = [page EXCEPT ![l] = NoForm]
      BY <2>1 DEF HandOver, GiveUp, Abort
    <3> QED
      BY <3>1
  <2>2. CASE ShowPage(l) \/ PostAway(l)
    BY <2>2 DEF ShowPage, PostAway
  <2>3. CASE PostBack(l) \/ ValidateToken(l) \/ ReadSpDetails(l)
    BY <2>3 DEF PostBack, ValidateToken, ReadSpDetails
  <2>4. CASE ReturnFails(l) \/ Redirect(l) \/ LogIn(l)
    BY <2>4 DEF ReturnFails, Redirect, LogIn, Served
  <2> QED
    BY <2>1, <2>2, <2>3, <2>4 DEF Act
<1> QED
  BY <1>1, <1>2, <1>3, <1>4

LEMMA SessionsStep ==
    ASSUME HomeInv, NEW l \in Logins, Act(l), NEW s \in SessionIds
    PROVE  SessionOK(s)'
<1>t. TypeOK /\ SessionOK(s) /\ PagesOK(l)
  BY DEF HomeInv
<1>1. /\ details'[s] # None => owner'[s] # None /\ details'[s] = (SpDetails(owner[s]))'
  <2>1. CASE details'[s] = details[s]
    <3>1. details[s] # None => owner[s] \in Logins /\ owner'[s] = owner[s]
      BY <1>t, LoginsStay DEF SessionOK, TypeOK
    <3>2. \A x \in Logins : SpDetails(x)' = SpDetails(x)
      BY <1>t, LoginsStay
    <3>3. details[s] # None => (SpDetails(owner[s]))' = SpDetails(owner[s])
      BY <3>1, <3>2, LoginsStay, <1>t DEF login, SpDetails, AuthVariant, ClaimsVariant
    <3> QED
      BY <1>t, <2>1, <3>1, <3>3, NoNone DEF SessionOK
  <2>2. CASE details'[s] # details[s]
    <3>1. HandOver(l)
      BY <2>2 DEF Act, GiveUp, Abort, ShowPage, PostAway, PostBack, ValidateToken, ReadSpDetails,
         ReturnFails, Redirect, LogIn, manager
    <3>2. owner'[s] = l /\ details'[s] = SpDetails(l)
      BY <1>t, <2>2, <3>1 DEF HandOver, TypeOK
    <3>3. (SpDetails(owner[s]))' = SpDetails(l)
      BY <3>2, LoginsStay, <1>t DEF login, SpDetails, AuthVariant, ClaimsVariant
    <3> QED
      BY <3>2, <3>3, NoNone
  <2> QED
    BY <2>1, <2>2
<1>2. asserted'[s] # None => asserted'[s] = owner'[s]
  <2>1. CASE asserted'[s] = asserted[s]
    BY <1>t, <2>1, LoginsStay DEF SessionOK
  <2>2. CASE asserted'[s] # asserted[s]
    <3>1. PostBack(l)
      BY <2>2 DEF Act, HandOver, GiveUp, Abort, ShowPage, PostAway, ValidateToken, ReadSpDetails,
         ReturnFails, Redirect, LogIn, manager
    <3>2. s \in away[l] /\ asserted'[s] = l
      BY <1>t, <2>2, <3>1 DEF PostBack, TypeOK
    <3> QED
      BY <1>t, <3>2, LoginsStay, NoNone DEF PagesOK
  <2> QED
    BY <2>1, <2>2
<1> QED
  BY <1>1, <1>2 DEF SessionOK

LEMMA PagesStep ==
    ASSUME HomeInv, NEW l \in Logins, Act(l), NEW x \in Logins
    PROVE  PagesOK(x)'
<1>t. TypeOK /\ PagesOK(x)
  BY DEF HomeInv
<1>0. \A s \in SessionIds : owner[s] = x => owner'[s] = x
  BY <1>t, LoginsStay, NoNone
<1>1. /\ notes[x].msToken \in SessionIds \cup {None} /\ notes[x].sessionId \in SessionIds \cup {None}
      /\ page[x].session \in SessionIds \cup {None} /\ away[x] \subseteq SessionIds
      /\ notes[x] \in Notes /\ page[x] \in Forms
  BY <1>t DEF TypeOK, Notes, Forms
<1>2. /\ Opened(x, notes[x].msToken)' \/ (notes'[x].msToken # notes[x].msToken)
      /\ Opened(x, notes[x].sessionId)' \/ (notes'[x].sessionId # notes[x].sessionId)
      /\ Opened(x, page[x].session)' \/ (page'[x].session # page[x].session)
  BY <1>t, <1>0, <1>1 DEF PagesOK, Opened
<1>3. CASE x # l
  BY <1>t, <1>0, <1>1, <1>2, <1>3, LoginsStay DEF PagesOK
<1>4. CASE x = l /\ HandOver(l)
  <2>1. PICK s \in SessionIds, token \in SessionIds \cup {None} :
            /\ token \in {s, None}
            /\ owner' = [owner EXCEPT ![s] = l]
            /\ \/ notes' = [notes EXCEPT ![l] = [@ EXCEPT !.acm = "true", !.msToken = token,
                                                         !.idp = "false"]]
               \/ notes' = [notes EXCEPT ![l] = [@ EXCEPT !.idp = "true", !.sessionId = s,
                                                         !.acm = "false"]]
    BY <1>4 DEF HandOver
  <2>2. owner'[s] = l
    BY <1>t, <2>1 DEF TypeOK
  <2>3. /\ notes'[l].msToken = notes[l].msToken \/ notes'[l].msToken = token
        /\ notes'[l].sessionId = notes[l].sessionId \/ notes'[l].sessionId = s
    <3>1. notes \in [Logins -> Notes]
      BY <1>t DEF TypeOK
    <3>2. \/ notes'[l] = [notes[l] EXCEPT !.acm = "true", !.msToken = token, !.idp = "false"]
          \/ notes'[l] = [notes[l] EXCEPT !.idp = "true", !.sessionId = s, !.acm = "false"]
      BY <2>1, <3>1
    <3> QED
      BY <1>1, <1>4, <3>2 DEF Notes
  <2>4. page'[l].session = None /\ away' = away
    BY <1>4, <1>t DEF HandOver, NoForm, Form, TypeOK
  <2>5. Opened(l, notes[l].msToken)' /\ Opened(l, notes[l].sessionId)'
    BY <1>2, <1>4, <2>1, <2>2, <2>3 DEF Opened
  <2> QED
    BY <1>t, <1>0, <1>1, <1>4, <2>4, <2>5 DEF PagesOK, Opened
<1>5. CASE x = l /\ (GiveUp(l) \/ Abort(l))
  <2>1. notes'[l].msToken = notes[l].msToken /\ notes'[l].sessionId = notes[l].sessionId
        /\ page'[l].session = None /\ away' = away
    <3>1. /\ notes \in [Logins -> Notes] /\ page \in [Logins -> Forms]
          /\ page' = [page EXCEPT ![l] = NoForm] /\ away' = away
          /\ notes' = notes \/ notes' = [notes EXCEPT ![l] = [notes[l] EXCEPT !.acm = "false", !.idp = "false"]]
      BY <1>5, <1>t DEF GiveUp, Abort, TypeOK
    <3>2. notes'[l] = notes[l] \/ notes'[l] = [notes[l] EXCEPT !.acm = "false", !.idp = "false"]
      BY <3>1
    <3> QED
      BY <1>1, <1>5, <3>1, <3>2 DEF NoForm, Form, Notes
  <2> QED
    BY <1>t, <1>0, <1>1, <1>2, <1>5, <2>1 DEF PagesOK, Opened
<1>6. CASE x = l /\ ShowPage(l)
  <2>1. /\ notes' = notes /\ away' = away
        /\ page'[l].session \in {notes[l].msToken, notes[l].sessionId, None}
    BY <1>6, <1>t DEF ShowPage, PageOf, Form, TypeOK, outgoing
  <2> QED
    BY <1>t, <1>0, <1>1, <1>2, <1>6, <2>1 DEF PagesOK, Opened
<1>7. CASE x = l /\ PostAway(l)
  <2>1. /\ notes' = notes /\ page' = page /\ page[l].session # None
        /\ away'[l] = away[l] \cup {page[l].session}
    BY <1>7, <1>t DEF PostAway, TypeOK, outgoing
  <2> QED
    BY <1>t, <1>0, <1>1, <1>2, <1>7, <2>1 DEF PagesOK, Opened
<1>8. CASE x = l /\ (PostBack(l) \/ ValidateToken(l) \/ ReadSpDetails(l) \/ ReturnFails(l)
                     \/ Redirect(l) \/ LogIn(l))
  <2>1. UNCHANGED <<notes, page, away>>
    BY <1>8 DEF PostBack, ValidateToken, ReadSpDetails, ReturnFails, Redirect, LogIn, outgoing
  <2> QED
    BY <1>t, <1>0, <1>1, <1>2, <1>8, <2>1 DEF PagesOK
<1> QED
  BY <1>3, <1>4, <1>5, <1>6, <1>7, <1>8 DEF Act

LEMMA ServingStep ==
    ASSUME HomeInv, NEW l \in Logins, Act(l), NEW x \in Logins
    PROVE  (ServingOK(x) /\ RedirectOK(x))'
<1>t. TypeOK /\ ServingOK(x) /\ RedirectOK(x) /\ PagesOK(x)
  BY DEF HomeInv
<1>0. \A s \in SessionIds : owner[s] = x => owner'[s] = x
  BY <1>t, LoginsStay, NoNone
<1>1. /\ msToken[x] \in SessionIds \cup {None} /\ away[x] \subseteq SessionIds
      /\ resource[x].sessionId \in SessionIds \cup {None}
      /\ redirect[x].sessionId \in SessionIds \cup {None}
  BY <1>t DEF TypeOK
<1>2. Home(x)' = Home(x) /\ SpDetails(x)' = SpDetails(x)
  BY <1>t, LoginsStay
<1>3. CASE /\ msToken'[x] = msToken[x] /\ serving'[x] = serving[x] /\ resource'[x] = resource[x]
           /\ redirect'[x] = redirect[x]
  BY <1>t, <1>0, <1>1, <1>2, <1>3 DEF ServingOK, RedirectOK, Opened
<1>4. CASE x = l /\ PostBack(l)
  <2>1. /\ msToken'[l] \in away[l] /\ serving'[l] = "validate" /\ redirect' = redirect
    BY <1>4, <1>t DEF PostBack, TypeOK
  <2>2. owner'[msToken'[l]] = l /\ msToken'[l] # None
    BY <1>t, <1>0, <1>1, <1>4, <2>1, NoNone DEF PagesOK
  <2> QED
    BY <1>t, <1>0, <1>1, <1>2, <1>4, <2>1, <2>2 DEF ServingOK, RedirectOK, Opened
<1>5. CASE x = l /\ ValidateToken(l)
  <2>1. /\ serving[l] = "validate" /\ serving'[l] = "details" /\ UNCHANGED <<msToken, redirect>>
        /\ resource'[l].sessionId = msToken[l]
    BY <1>5, <1>t DEF ValidateToken, TypeOK
  <2> QED
    BY <1>t, <1>0, <1>1, <1>2, <1>5, <2>1 DEF ServingOK, RedirectOK, Opened
<1>6. CASE x = l /\ ReadSpDetails(l)
  <2> DEFINE s == resource[l].sessionId
  <2>1. /\ serving[l] = "details" /\ serving'[l] = "redirect" /\ UNCHANGED <<msToken, redirect>>
        /\ resource'[l].sessionId = s /\ resource'[l].details = details[s]
        /\ s \in SessionIds /\ details[s] # None
    BY <1>1, <1>6, <1>t DEF ReadSpDetails, TypeOK
  <2>2. owner[s] = l
    BY <1>6, <1>t, <2>1 DEF ServingOK
  <2>3. details[s] = SpDetails(l)
    BY <2>1, <2>2 DEF HomeInv, SessionOK
  <2> QED
    BY <1>t, <1>0, <1>1, <1>2, <1>6, <2>1, <2>2, <2>3 DEF ServingOK, RedirectOK, Opened
<1>7. CASE x = l /\ ReturnFails(l)
  <2>1. serving'[l] = "idle" /\ msToken'[l] = None /\ redirect' = redirect
    BY <1>7, <1>t DEF ReturnFails, Served, TypeOK
  <2> QED
    BY <1>t, <1>0, <1>1, <1>2, <1>7, <2>1 DEF ServingOK, RedirectOK, Opened
<1>8. CASE x = l /\ Redirect(l)
  <2>1. /\ serving[l] = "redirect" /\ serving'[l] = "idle" /\ msToken'[l] = None
        /\ redirect'[l] = [endpoint |-> Endpoint(resource[l].details.authvariant),
                           details |-> resource[l].details, sessionId |-> resource[l].sessionId]
    BY <1>8, <1>t DEF Redirect, Served, TypeOK
  <2>2. /\ resource[l].details = SpDetails(l) /\ resource[l].sessionId \in SessionIds
        /\ owner[resource[l].sessionId] = l
    BY <1>1, <1>8, <1>t, <2>1 DEF ServingOK
  <2>3. Endpoint(resource[l].details.authvariant) = Home(l)
    BY <1>t, <2>2, VariantsLeadHome
  <2> QED
    BY <1>0, <1>2, <1>8, <2>1, <2>2, <2>3, NoNone DEF ServingOK, RedirectOK, Opened
<1>9. CASE x # l
  BY <1>3, <1>9, <1>t, LoginsStay
<1>10. CASE HandOver(l) \/ GiveUp(l) \/ Abort(l) \/ ShowPage(l) \/ PostAway(l) \/ LogIn(l)
  BY <1>3, <1>10 DEF HandOver, GiveUp, Abort, ShowPage, PostAway, LogIn, incoming
<1> QED
  BY <1>4, <1>5, <1>6, <1>7, <1>8, <1>9, <1>10 DEF Act

LEMMA AccountStep ==
    ASSUME HomeInv, NEW l \in Logins, Act(l)
    PROVE  EndsInOwnAccount'
<1> SUFFICES ASSUME NEW x \in Logins, account'[x] # None
             PROVE  account'[x] = [realm |-> RealmOf[Home(x)], person |-> x,
                                   prefix |-> IF auth[x] = "eidas" THEN RealmOf[Home(x)]
                                              ELSE IF claims[x] THEN "esmob" ELSE "esmo"]
  BY LoginsStay DEF EndsInOwnAccount, HomeInv, login
<1>t. TypeOK /\ EndsInOwnAccount
  BY DEF HomeInv
<1>1. CASE account'[x] = account[x]
  BY <1>1, <1>t DEF EndsInOwnAccount
<1>2. CASE account'[x] # account[x]
  <2>1. x = l /\ LogIn(l)
    BY <1>2, <1>t, LoginsStay DEF Act, HandOver, GiveUp, Abort, ShowPage, PostAway, PostBack,
       ValidateToken, ReadSpDetails, ReturnFails, Redirect
  <2> DEFINE r == redirect[l]
  <2>2. /\ r # NoRedirect /\ r.sessionId \in SessionIds /\ asserted[r.sessionId] # None
        /\ account'[l] = [realm |-> RealmOf[r.endpoint], prefix |-> Prefix(r),
                          person |-> asserted[r.sessionId]]
    BY <1>t, <2>1 DEF LogIn, TypeOK
  <2>3. r.endpoint = Home(l) /\ r.details = SpDetails(l) /\ owner[r.sessionId] = l
    BY <2>2 DEF HomeInv, RedirectOK
  <2>4. asserted[r.sessionId] = l
    BY <2>2, <2>3 DEF HomeInv, SessionOK
  <2>5. Prefix(r) = IF auth[l] = "eidas" THEN RealmOf[Home(l)]
                    ELSE IF claims[l] THEN "esmob" ELSE "esmo"
    <3>1. r.details.claimsvariant = ClaimsVariant(l)
      BY <1>t, <2>3, VariantsLeadHome
    <3>2. None \notin {"esmo", "esmob"}
      BY RoundTripAssumption
    <3> QED
      BY <2>3, <3>1, <3>2 DEF Prefix, ClaimsVariant
  <2> QED
    BY <2>1, <2>2, <2>3, <2>4, <2>5
<1> QED
  BY <1>1, <1>2

LEMMA HomeInit == Init => HomeInv
BY TypeInit, NoNone DEF Init, HomeInv, SessionOK, PagesOK, ServingOK, RedirectOK, Opened, Note,
   NoForm, Form, EndsInOwnAccount

LEMMA HomeStep == HomeInv /\ [Next]_vars => HomeInv'
<1> SUFFICES ASSUME HomeInv, [Next]_vars PROVE HomeInv'
  OBVIOUS
<1>1. TypeOK'
  BY TypeStep DEF HomeInv
<1>2. ASSUME NEW l \in Logins, Act(l) PROVE HomeInv'
  BY <1>1, <1>2, SessionsStep, PagesStep, ServingStep, AccountStep DEF HomeInv
<1>3. CASE UNCHANGED vars
  <2>1. \A s \in SessionIds : SessionOK(s)'
    BY <1>3 DEF vars, login, manager, HomeInv, SessionOK, SpDetails, AuthVariant, ClaimsVariant
  <2>2. \A l \in Logins : PagesOK(l)'
    BY <1>3 DEF vars, outgoing, manager, HomeInv, PagesOK, Opened
  <2>3. \A l \in Logins : ServingOK(l)' /\ RedirectOK(l)'
    BY <1>3 DEF vars, login, manager, incoming, HomeInv, ServingOK, RedirectOK, Opened, Home,
       SpDetails, AuthVariant, ClaimsVariant
  <2>4. EndsInOwnAccount'
    BY <1>3 DEF vars, login, HomeInv, EndsInOwnAccount, Home
  <2> QED
    BY <1>1, <2>1, <2>2, <2>3, <2>4 DEF HomeInv
<1> QED
  BY <1>2, <1>3 DEF Next, Act

(* The inductive invariant: every session, note, page, request and redirect *)
(* is traced to the browser it belongs to.                                  *)
THEOREM HomeInvariant == Spec => []HomeInv
BY HomeInit, HomeStep, PTL DEF Spec

(* Every variable has its type: redirects and accounts included, which are  *)
(* typed only because details and persons are traced to their browser.      *)
THEOREM TypeCorrect == Spec => []TypeOK
<1>1. HomeInv => TypeOK
  BY DEF HomeInv
<1> QED
  BY <1>1, HomeInvariant, PTL

(* A browser that comes back is redirected to the endpoint its login        *)
(* started from, with its own parameters and its own session                *)
(* (prepareSpDetails, SpResponseResource.post, fixedResponse).              *)
THEOREM HomeRedirects == Spec => []RedirectsHome
<1>1. HomeInv => RedirectsHome
  BY VariantsLeadHome DEF HomeInv, RedirectOK, RedirectsHome
<1> QED
  BY <1>1, HomeInvariant, PTL

(* The account that a browser ends in is that of the person who uses it, in *)
(* the realm and under the variant of claims that its login started with.   *)
THEOREM OwnAccounts == Spec => []EndsInOwnAccount
<1>1. HomeInv => EndsInOwnAccount
  BY DEF HomeInv
<1> QED
  BY <1>1, HomeInvariant, PTL

-----------------------------------------------------------------------------
(* The page and the notes. *)

LEMMA PageInit == Init => PageInv
BY DEF Init, PageInv, NotesOfLastAttempt, PageIsOfLastAttempt

LEMMA PageStep == TypeOK /\ PageInv /\ [Next]_vars => PageInv'
<1> SUFFICES ASSUME TypeOK, PageInv, [Next]_vars PROVE PageInv'
  OBVIOUS
<1>1. ASSUME NEW l \in Logins, Act(l), NEW x \in Logins
      PROVE  /\ last'[x] # NoForm => PageOf(notes[x])' = last'[x]
             /\ page'[x] # NoForm => page'[x] = last'[x]
  <2>t. /\ last[x] # NoForm => PageOf(notes[x]) = last[x]
        /\ page[x] # NoForm => page[x] = last[x]
    BY DEF PageInv, NotesOfLastAttempt, PageIsOfLastAttempt
  <2>n. notes \in [Logins -> Notes]
    BY DEF TypeOK
  <2>1. CASE notes'[x] = notes[x] /\ page'[x] = page[x] /\ last'[x] = last[x]
    BY <2>t, <2>1 DEF PageOf
  <2>2. CASE x # l
    BY <1>1, <2>1, <2>2, LoginsStay
  <2>3. CASE x = l /\ HandOver(l)
    <3>1. PICK s \in SessionIds, token \in SessionIds \cup {None} :
              \/ /\ notes' = [notes EXCEPT ![l] = [@ EXCEPT !.acm = "true", !.msToken = token,
                                                           !.idp = "false"]]
                 /\ last' = [last EXCEPT ![l] = Form("acm", token)]
              \/ /\ notes' = [notes EXCEPT ![l] = [@ EXCEPT !.idp = "true", !.sessionId = s,
                                                           !.acm = "false"]]
                 /\ last' = [last EXCEPT ![l] = Form("idp", s)]
      BY <2>3 DEF HandOver
    <3>2. \/ /\ notes'[l].acm = "true" /\ notes'[l].msToken = token /\ last'[l] = Form("acm", token)
          \/ /\ notes'[l].acm = "false" /\ notes'[l].idp = "true" /\ notes'[l].sessionId = s
             /\ last'[l] = Form("idp", s)
      <4>1. last \in [Logins -> Forms]
        BY DEF TypeOK
      <4>2. notes[l] \in Notes
        BY <2>n
      <4>3. \/ /\ notes'[l] = [notes[l] EXCEPT !.acm = "true", !.msToken = token, !.idp = "false"]
               /\ last'[l] = Form("acm", token)
            \/ /\ notes'[l] = [notes[l] EXCEPT !.idp = "true", !.sessionId = s, !.acm = "false"]
               /\ last'[l] = Form("idp", s)
        BY <2>n, <3>1, <4>1
      <4> QED
        BY <4>2, <4>3 DEF Notes
    <3>3. page'[l] = NoForm
      BY <2>3 DEF HandOver, TypeOK
    <3> QED
      BY <2>3, <3>2, <3>3 DEF PageOf
  <2>4. CASE x = l /\ GiveUp(l)
    <3>1. notes'[l] = [notes[l] EXCEPT !.acm = "false", !.idp = "false"]
          /\ last'[l] = Form("login", None) /\ page'[l] = NoForm
      BY <2>4, <2>n DEF GiveUp, TypeOK
    <3>2. notes'[l].acm = "false" /\ notes'[l].idp = "false"
      BY <2>n, <3>1 DEF Notes
    <3> QED
      BY <2>4, <3>1, <3>2 DEF PageOf
  <2>5. CASE x = l /\ Abort(l)
    BY <2>5 DEF Abort, TypeOK
  <2>6. CASE x = l /\ ShowPage(l)
    BY <2>t, <2>6 DEF ShowPage, outgoing, TypeOK, PageOf
  <2>7. CASE PostAway(l) \/ PostBack(l) \/ ValidateToken(l) \/ ReadSpDetails(l) \/ ReturnFails(l)
             \/ Redirect(l) \/ LogIn(l)
    BY <2>1, <2>7 DEF PostAway, PostBack, ValidateToken, ReadSpDetails, ReturnFails, Redirect, LogIn,
       outgoing
  <2> QED
    BY <1>1, <2>2, <2>3, <2>4, <2>5, <2>6, <2>7 DEF Act
<1>2. CASE UNCHANGED vars
  BY <1>2 DEF vars, outgoing, PageInv, NotesOfLastAttempt, PageIsOfLastAttempt, PageOf
<1> QED
  BY <1>1, <1>2 DEF Next, Act, PageInv, NotesOfLastAttempt, PageIsOfLastAttempt

(* The page posts the browser away exactly when the last attempt succeeded, *)
(* with the session of that attempt (createCommonAttributes).               *)
THEOREM PagesOfLastAttempts == Spec => []PageIsOfLastAttempt
<1>1. PageInv => PageIsOfLastAttempt
  BY DEF PageInv
<1> QED
  BY <1>1, TypeCorrect, PageInit, PageStep, PTL DEF Spec

-----------------------------------------------------------------------------
(* The trip implements Homecoming. *)

ArrivedBar == [l \in Logins |-> redirect[l].sessionId]
AdmittedBar == [l \in Logins |-> IF account[l] = None THEN None ELSE account[l].person]

LEMMA TripInit == Init => Trip!Init
BY DEF Init, Trip!Init, NoRedirect

LEMMA TripStep ==
    HomeInv /\ [Next]_vars => [Trip!Next]_<<owner, asserted, ArrivedBar, AdmittedBar>>
<1> SUFFICES ASSUME HomeInv, [Next]_vars
             PROVE  \/ Trip!Next
                    \/ /\ owner' = owner /\ asserted' = asserted
                       /\ ArrivedBar' = ArrivedBar /\ AdmittedBar' = AdmittedBar
  OBVIOUS
<1> USE DEF ArrivedBar, AdmittedBar
<1>t. TypeOK
  BY DEF HomeInv
<1>a. ASSUME redirect' = redirect PROVE ArrivedBar' = ArrivedBar
  BY <1>a
<1>b. ASSUME account' = account PROVE AdmittedBar' = AdmittedBar
  BY <1>b
<1> HIDE DEF ArrivedBar, AdmittedBar
<1>1. ASSUME NEW l \in Logins, HandOver(l) PROVE Trip!Next
  <2>1. (\E s \in SessionIds : owner[s] = None /\ owner' = [owner EXCEPT ![s] = l])
    BY <1>1 DEF HandOver
  <2>2. asserted' = asserted /\ ArrivedBar' = ArrivedBar /\ AdmittedBar' = AdmittedBar
    BY <1>1, <1>a, <1>b DEF HandOver, incoming
  <2>3. Trip!Draw(l)
    BY <2>1, <2>2 DEF Trip!Draw, ArrivedBar, AdmittedBar
  <2> QED
    BY <2>3 DEF Trip!Next
<1>2. ASSUME NEW l \in Logins, PostBack(l)
      PROVE  Trip!Next \/ (owner' = owner /\ asserted' = asserted
                           /\ ArrivedBar' = ArrivedBar /\ AdmittedBar' = AdmittedBar)
  <2>1. owner' = owner /\ ArrivedBar' = ArrivedBar /\ AdmittedBar' = AdmittedBar
    BY <1>2, <1>a, <1>b DEF PostBack
  <2>2. PICK s \in away[l] : asserted' \in {asserted, [asserted EXCEPT ![s] = l]}
    BY <1>2 DEF PostBack
  <2>3. s \in SessionIds /\ owner[s] = l
    BY <1>t, <2>2 DEF HomeInv, PagesOK, TypeOK
  <2>4. CASE asserted' = [asserted EXCEPT ![s] = l]
    <3>1. Trip!Prove(l)
      BY <2>1, <2>3, <2>4 DEF Trip!Prove, ArrivedBar, AdmittedBar
    <3> QED
      BY <3>1 DEF Trip!Next
  <2> QED
    BY <2>1, <2>2, <2>4
<1>3. ASSUME NEW l \in Logins, Redirect(l) PROVE Trip!Next
  <2>1. owner' = owner /\ asserted' = asserted /\ AdmittedBar' = AdmittedBar
    BY <1>3, <1>b DEF Redirect, manager
  <2>2. PICK s \in SessionIds : s = resource[l].sessionId /\ owner[s] = l
    BY <1>3, <1>t DEF Redirect, HomeInv, ServingOK, TypeOK
  <2>3. ArrivedBar' = [ArrivedBar EXCEPT ![l] = s]
    BY <1>3, <1>t, <2>2 DEF Redirect, ArrivedBar, TypeOK
  <2>4. Trip!Arrive(l)
    BY <2>1, <2>2, <2>3 DEF Trip!Arrive, ArrivedBar, AdmittedBar
  <2> QED
    BY <2>4 DEF Trip!Next
<1>4. ASSUME NEW l \in Logins, LogIn(l) PROVE Trip!Next
  <2>1. owner' = owner /\ asserted' = asserted /\ ArrivedBar' = ArrivedBar
    BY <1>4, <1>a DEF LogIn, manager, incoming
  <2>2. PICK s \in SessionIds : redirect[l].sessionId = s /\ asserted[s] # None
    BY <1>4, <1>t DEF LogIn, TypeOK
  <2>3. asserted[s] # None /\ AdmittedBar' = [AdmittedBar EXCEPT ![l] = asserted[s]]
    <3>1. account' = [account EXCEPT ![l] =
              [realm |-> RealmOf[redirect[l].endpoint], prefix |-> Prefix(redirect[l]),
               person |-> asserted[s]]]
      BY <1>4, <2>2 DEF LogIn
    <3>2. account \in [Logins -> Accounts \cup {None}]
      BY <1>t DEF TypeOK
    <3>3. account'[l] # None /\ account'[l].person = asserted[s]
      <4>1. /\ redirect[l].endpoint \in Endpoints /\ redirect[l].details.claimsvariant \in ClaimsVariants
            /\ asserted[s] \in Logins
        BY <1>4, <1>t, <2>2, VariantsLeadHome DEF LogIn, HomeInv, RedirectOK, Details, TypeOK
      <4>2. account'[l].person = asserted[s]
        BY <3>1, <3>2
      <4>3. account'[l] # None
        BY <3>1, <3>2, <4>1, RoundTripAssumption DEF Accounts, Homes, Prefix, ClaimsVariants
      <4> QED
        BY <4>2, <4>3
    <3>4. \A k \in Logins : k # l => account'[k] = account[k]
      BY <3>1, <3>2
    <3> QED
      BY <2>2, <3>3, <3>4 DEF AdmittedBar
  <2>4. Trip!Enter(l)
    BY <2>1, <2>2, <2>3 DEF Trip!Enter, ArrivedBar, AdmittedBar
  <2> QED
    BY <2>4 DEF Trip!Next
<1>5. ASSUME NEW l \in Logins,
             \/ GiveUp(l) \/ Abort(l) \/ ShowPage(l) \/ PostAway(l)
             \/ ValidateToken(l) \/ ReadSpDetails(l) \/ ReturnFails(l)
      PROVE  /\ owner' = owner /\ asserted' = asserted
             /\ ArrivedBar' = ArrivedBar /\ AdmittedBar' = AdmittedBar
  BY <1>5, <1>a, <1>b DEF GiveUp, Abort, ShowPage, PostAway, ValidateToken, ReadSpDetails,
     ReturnFails, manager, incoming
<1>6. CASE UNCHANGED vars
  BY <1>6, <1>a, <1>b DEF vars, manager, incoming
<1> QED
  BY <1>1, <1>2, <1>3, <1>4, <1>5, <1>6 DEF Next

(* RoundTrip implements Homecoming: each step of a trip is one of drawing a *)
(* session, proving it, coming home with it and being let in, or none.      *)
THEOREM ComingHome == Spec => ComesHome
BY HomeInvariant, TripInit, TripStep, PTL DEF Spec, ComesHome, Trip!Spec, ArrivedBar, AdmittedBar
=============================================================================
