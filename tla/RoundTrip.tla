------------------------------- MODULE RoundTrip -------------------------------
(***************************************************************************)
(* A whole login, from the first authorization request to the account it   *)
(* ends in.  The outgoing authenticator stores the OIDC parameters at the  *)
(* Session Manager and leaves notes (prepareSpDetails, authenticateImpl),  *)
(* the login page turns the notes into a form that posts the browser away  *)
(* (SpmsLoginFormsProvider), the ACM or the IdP writes to the session who  *)
(* authenticated and posts the browser back with a token                   *)
(* (SpResponseResource), the stored parameters redirect it to the          *)
(* authorization endpoint of a realm, and there the returning              *)
(* authenticator logs it in (SpmsPostResponseAuthenticator).               *)
(*                                                                         *)
(* The two authenticators are taken at their promises for logins that no   *)
(* other overlaps (modules LoginHandOver and UserRecords, which SpRequest  *)
(* and PostResponse implement).  Each browser is used by one person, who   *)
(* is identified with the login.                                           *)
(***************************************************************************)
EXTENDS Naturals, FiniteSets

CONSTANTS
    Logins,       \* browsers, each with one authentication session in a realm
    SessionIds,   \* ids the Session Manager can issue
    Realms,       \* names of realms
    Flows,        \* the authenticators in the flows of realms, as <<realm, authenticator>>
    Lower,        \* String.toLowerCase, on realm names and parameters
    EsmoNo,       \* parameter ESMO_NO_REALM
    EsmoNoProd,   \* parameter ESMO_NO_PROD_REALM
    RealmOf,      \* the name of the realm that each endpoint belongs to
    MaxAttempts,  \* how often a browser loads the page of one login
    MaxReturns,   \* how often it comes back to SpResponseResource
    None          \* Java's null

Authenticators == {"esmo", "eidas"}
Endpoints == {"ESMO", "EIDAS", "ESMONO", "ESMONOPROD"}
Homes == {RealmOf[e] : e \in Endpoints}

(* A user: the realm it is one of, and the two parts of its name.           *)
Accounts == [realm : Homes, prefix : Homes \cup {"esmo", "esmob"}, person : Logins]

ASSUME RoundTripAssumption ==
    /\ Flows \subseteq Realms \X Authenticators
    /\ Endpoints \subseteq DOMAIN RealmOf
    /\ \A x \in Realms \cup {EsmoNo, EsmoNoProd} : x \in DOMAIN Lower
    /\ Lower[EsmoNo] # Lower[EsmoNoProd]
    /\ {EsmoNo, EsmoNoProd} \cap {"esmo", "eidas"} = {}
    /\ MaxAttempts \in Nat
    /\ MaxReturns \in Nat
    /\ None \notin SessionIds \cup Logins \cup Accounts \cup {"esmo", "esmob"}

VARIABLES
    realm,      \* the realm of each login
    auth,       \* the outgoing authenticator of its flow
    claims,     \* its first request has the parameter claims, which only ESMO looks at
    attempts,   \* how many times the authenticator ran for the login
    returns,    \* how many times the browser came back
    notes,      \* the authentication notes
    page,       \* the form of the page the browser last loaded
    owner,      \* Session Manager: the login that opened a session
    details,    \* Session Manager: the variable spDetails of each session
    asserted,   \* Session Manager: the person that a session asserts
    away,       \* sessions the browser was posted to the ACM or the IdP with
    serving,    \* the step of SpResponseResource.post at work for the browser
    msToken,    \* its parameter: the session that the token stands for
    resource,   \* the fields of the SpResponseResource objects
    redirect,   \* the last redirect of the browser
    account,    \* the user it was logged in as
    last        \* history: the form that the last attempt calls for

login == <<realm, auth, claims>>
outgoing == <<attempts, notes, last>>
manager == <<owner, details, asserted>>
incoming == <<returns, serving, msToken, resource, redirect>>
vars == <<login, outgoing, page, manager, away, incoming, account>>

Variants == {"esmo", "eidas", EsmoNo, EsmoNoProd}
ClaimsVariants == {"esmo", "esmob", None}

(* The other OIDC parameters (state, nonce, scope, ...) are known by the    *)
(* login they belong to; the null ones are left out of the redirect.        *)
Details == [of : Logins, authvariant : Variants, claimsvariant : ClaimsVariants]

(* prepareSpDetails.  The mutant sends the name of the realm as it is.      *)
AuthVariant_realm(l) ==
    IF auth[l] = "esmo" /\ Lower[realm[l]] \in {Lower[EsmoNo], Lower[EsmoNoProd]}
    THEN realm[l] ELSE auth[l]
AuthVariant(l) ==
    IF auth[l] = "eidas" THEN "eidas"
    ELSE IF Lower[realm[l]] = Lower[EsmoNoProd] THEN EsmoNoProd
    ELSE IF Lower[realm[l]] = Lower[EsmoNo] THEN EsmoNo
    ELSE "esmo"
ClaimsVariant(l) ==
    IF auth[l] = "eidas" THEN None ELSE IF claims[l] THEN "esmob" ELSE "esmo"
SpDetails(l) == [of |-> l, authvariant |-> AuthVariant(l), claimsvariant |-> ClaimsVariant(l)]

Note(acm, token, idp, s) == [acm |-> acm, msToken |-> token, idp |-> idp, sessionId |-> s]
Notes == [acm : {"unset", "true", "false"}, msToken : SessionIds \cup {None},
          idp : {"unset", "true", "false"}, sessionId : SessionIds \cup {None}]
Form(to, s) == [to |-> to, session |-> s]
NoForm == Form("none", None)
Forms == [to : {"none", "login", "acm", "idp"}, session : SessionIds \cup {None}]
NewResource == [sessionId |-> None, details |-> None]
NoRedirect == [endpoint |-> None, details |-> None, sessionId |-> None]

TypeOK ==
    /\ realm \in [Logins -> Realms]
    /\ auth \in [Logins -> Authenticators]
    /\ claims \in [Logins -> BOOLEAN]
    /\ attempts \in [Logins -> 0..MaxAttempts]
    /\ returns \in [Logins -> 0..MaxReturns]
    /\ notes \in [Logins -> Notes]
    /\ page \in [Logins -> Forms] /\ last \in [Logins -> Forms]
    /\ owner \in [SessionIds -> Logins \cup {None}]
    /\ details \in [SessionIds -> Details \cup {None}]
    /\ away \in [Logins -> SUBSET SessionIds]
    /\ asserted \in [SessionIds -> Logins \cup {None}]
    /\ serving \in [Logins -> {"idle", "validate", "details", "redirect"}]
    /\ msToken \in [Logins -> SessionIds \cup {None}]
    /\ resource \in [Logins -> [sessionId : SessionIds \cup {None},
                                details : Details \cup {None}]]
    /\ redirect \in [Logins -> [endpoint : Endpoints \cup {None},
                                details : Details \cup {None},
                                sessionId : SessionIds \cup {None}]]
    /\ account \in [Logins -> Accounts \cup {None}]

Init ==
    /\ realm \in [Logins -> Realms]
    /\ auth \in {flow \in [Logins -> Authenticators] : \A l \in Logins : <<realm[l], flow[l]>> \in Flows}
    /\ claims \in {asks \in [Logins -> BOOLEAN] : \A l \in Logins : asks[l] => auth[l] = "esmo"}
    /\ attempts = [l \in Logins |-> 0]
    /\ returns = [l \in Logins |-> 0]
    /\ notes = [l \in Logins |-> Note("unset", None, "unset", None)]
    /\ page = [l \in Logins |-> NoForm]
    /\ owner = [s \in SessionIds |-> None]
    /\ details = [s \in SessionIds |-> None]
    /\ away = [l \in Logins |-> {}]
    /\ asserted = [s \in SessionIds |-> None]
    /\ serving = [l \in Logins |-> "idle"]
    /\ msToken = [l \in Logins |-> None]
    /\ resource = [l \in Logins |-> NewResource]
    /\ redirect = [l \in Logins |-> NoRedirect]
    /\ account = [l \in Logins |-> None]
    /\ last = [l \in Logins |-> NoForm]

-----------------------------------------------------------------------------
(* The authenticator runs, again when the browser reloads the page, and the *)
(* notes outlive it.  It hands over a session of its own, whose spDetails   *)
(* the Session Manager stored or refused; a null token unsets its note.     *)
HandOver(l) ==
    /\ attempts[l] < MaxAttempts
    /\ \E s \in SessionIds, token \in SessionIds \cup {None} :
        /\ owner[s] = None /\ token \in {s, None}
        /\ owner' = [owner EXCEPT ![s] = l]
        /\ details' \in {details, [details EXCEPT ![s] = SpDetails(l)]}
        /\ IF auth[l] = "esmo"
           THEN /\ notes' = [notes EXCEPT ![l] = [@ EXCEPT !.acm = "true", !.msToken = token,
                                                          !.idp = "false"]]
                /\ last' = [last EXCEPT ![l] = Form("acm", token)]
           ELSE /\ notes' = [notes EXCEPT ![l] = [@ EXCEPT !.idp = "true", !.sessionId = s,
                                                          !.acm = "false"]]
                /\ last' = [last EXCEPT ![l] = Form("idp", s)]
    /\ attempts' = [attempts EXCEPT ![l] = @ + 1]
    /\ page' = [page EXCEPT ![l] = NoForm]
    /\ UNCHANGED <<login, asserted, away, incoming, account>>

(* It gives up (the caught exceptions); notes of an earlier attempt stay,   *)
(* except for the two success notes.  The mutant leaves those as well.      *)
GiveUpNotes_none(l) == notes[l]
GiveUpNotes(l) == [notes[l] EXCEPT !.acm = "false", !.idp = "false"]

GiveUp(l) ==
    /\ attempts[l] < MaxAttempts
    /\ notes' = [notes EXCEPT ![l] = GiveUpNotes(l)]
    /\ last' = [last EXCEPT ![l] = Form("login", None)]
    /\ attempts' = [attempts EXCEPT ![l] = @ + 1]
    /\ page' = [page EXCEPT ![l] = NoForm]
    /\ UNCHANGED <<login, manager, away, incoming, account>>

(* It throws: an error page, and the notes stay as they are.                *)
Abort(l) ==
    /\ attempts[l] < MaxAttempts
    /\ last' = [last EXCEPT ![l] = NoForm]
    /\ attempts' = [attempts EXCEPT ![l] = @ + 1]
    /\ page' = [page EXCEPT ![l] = NoForm]
    /\ UNCHANGED <<login, notes, manager, away, incoming, account>>

(* The page after an attempt that succeeded: createCommonAttributes and the *)
(* template of the theme.                                                   *)
PageOf(n) ==
    IF n.acm = "true" THEN Form("acm", n.msToken)
    ELSE IF n.idp = "true" THEN Form("idp", n.sessionId)
    ELSE Form("login", None)

ShowPage(l) ==
    /\ last[l] # NoForm /\ page[l] = NoForm
    /\ page' = [page EXCEPT ![l] = PageOf(notes[l])]
    /\ UNCHANGED <<login, outgoing, manager, away, incoming, account>>

(* The form submits itself; without a token there is nothing to go on with. *)
PostAway(l) ==
    /\ page[l].to \in {"acm", "idp"} /\ page[l].session # None
    /\ away' = [away EXCEPT ![l] = @ \cup {page[l].session}]
    /\ UNCHANGED <<login, outgoing, page, manager, incoming, account>>

-----------------------------------------------------------------------------
(* SpRestResource makes a SpResponseResource for each request; the mutant   *)
(* shares one, as the authenticators are shared.                            *)
Resource_shared(l) == CHOOSE x \in Logins : TRUE
Resource(l) == l

(* The ACM or the IdP writes to a session it was given who authenticated,   *)
(* if anyone did, and posts the browser back with a token of that session - *)
(* any of those it was posted away with, in any order, and more than once.  *)
PostBack(l) ==
    /\ returns[l] < MaxReturns /\ serving[l] = "idle"
    /\ \E s \in away[l] :
        /\ asserted' \in {asserted, [asserted EXCEPT ![s] = l]}
        /\ msToken' = [msToken EXCEPT ![l] = s]
    /\ resource' = [resource EXCEPT ![Resource(l)] = NewResource]
    /\ serving' = [serving EXCEPT ![l] = "validate"]
    /\ returns' = [returns EXCEPT ![l] = @ + 1]
    /\ UNCHANGED <<login, outgoing, page, owner, details, away, redirect, account>>

(* GET /sm/validateToken answers OK with the session of the token.          *)
ValidateToken(l) ==
    /\ serving[l] = "validate"
    /\ resource' = [resource EXCEPT ![Resource(l)].sessionId = msToken[l]]
    /\ serving' = [serving EXCEPT ![l] = "details"]
    /\ UNCHANGED <<login, outgoing, page, manager, away, returns, msToken, redirect, account>>

(* readSessionData("spDetails") and unmarshallSpDetails.                     *)
ReadSpDetails(l) ==
    /\ serving[l] = "details"
    /\ LET s == resource[Resource(l)].sessionId IN
        /\ s # None /\ details[s] # None
        /\ resource' = [resource EXCEPT ![Resource(l)].details = details[s]]
    /\ serving' = [serving EXCEPT ![l] = "redirect"]
    /\ UNCHANGED <<login, outgoing, page, manager, away, returns, msToken, redirect, account>>

Served(l) ==
    /\ serving' = [serving EXCEPT ![l] = "idle"]
    /\ msToken' = [msToken EXCEPT ![l] = None]
    /\ resource' = [resource EXCEPT ![Resource(l)] = NewResource]

(* The token is not valid, a call fails, or the session has no spDetails:   *)
(* an error document.                                                       *)
ReturnFails(l) ==
    /\ serving[l] \in {"validate", "details"}
    /\ Served(l)
    /\ UNCHANGED <<login, outgoing, page, manager, away, returns, redirect, account>>

(* fixedResponse: the endpoint by the authentication variant.               *)
Endpoint(authvariant) ==
    IF authvariant = EsmoNoProd THEN "ESMONOPROD"
    ELSE IF authvariant = EsmoNo THEN "ESMONO"
    ELSE IF authvariant = "eidas" THEN "EIDAS"
    ELSE "ESMO"

Redirect(l) ==
    /\ serving[l] = "redirect"
    /\ LET fields == resource[Resource(l)] IN
        /\ fields.details # None
        /\ redirect' = [redirect EXCEPT ![l] =
                [endpoint |-> Endpoint(fields.details.authvariant),
                 details |-> fields.details, sessionId |-> fields.sessionId]]
    /\ Served(l)
    /\ UNCHANGED <<login, outgoing, page, manager, away, returns, account>>

(* The second authorization request carries the parameters of the redirect  *)
(* to the returning authenticator, which prefers the claims variant to the  *)
(* name of its realm; the mutant does not.  Without an account the browser  *)
(* stays as it was.                                                         *)
Prefix_realm(r) == RealmOf[r.endpoint]
Prefix(r) ==
    IF r.details.claimsvariant # None THEN r.details.claimsvariant ELSE RealmOf[r.endpoint]

LogIn(l) ==
    /\ redirect[l] # NoRedirect
    /\ LET r == redirect[l] IN
        /\ r.sessionId # None /\ asserted[r.sessionId] # None
        /\ account' = [account EXCEPT ![l] = [realm |-> RealmOf[r.endpoint], prefix |-> Prefix(r),
                                              person |-> asserted[r.sessionId]]]
    /\ UNCHANGED <<login, outgoing, page, manager, away, incoming>>

Next ==
    \E l \in Logins :
        \/ HandOver(l) \/ GiveUp(l) \/ Abort(l) \/ ShowPage(l) \/ PostAway(l)
        \/ PostBack(l) \/ ValidateToken(l) \/ ReadSpDetails(l) \/ ReturnFails(l) \/ Redirect(l)
        \/ LogIn(l)

Spec == Init /\ [][Next]_vars

-----------------------------------------------------------------------------
(* The endpoint of the realm and the authenticator a login started with;    *)
(* names of realms are compared without regard to case.                     *)
Home(l) ==
    CASE auth[l] = "eidas" -> "EIDAS"
      [] auth[l] = "esmo" /\ Lower[realm[l]] = Lower[EsmoNo] -> "ESMONO"
      [] auth[l] = "esmo" /\ Lower[realm[l]] = Lower[EsmoNoProd] -> "ESMONOPROD"
      [] OTHER -> "ESMO"

(* However often the page is reloaded, and in whatever order and however    *)
(* often the browser comes back, it is redirected to the endpoint it        *)
(* started from, with its own OIDC parameters and a session that its own    *)
(* login opened (prepareSpDetails and fixedResponse agree on authvariant).  *)
RedirectsHome ==
    \A l \in Logins : redirect[l] # NoRedirect =>
        /\ redirect[l].endpoint = Home(l)
        /\ redirect[l].details.of = l
        /\ owner[redirect[l].sessionId] = l

(* However the trips of several browsers interleave, the account a browser  *)
(* ends in is that of the person who uses it, in the realm of the endpoint  *)
(* it belongs to, under the variant of claims that it asked for (the first  *)
(* request decides, three components and two servers later: authenticate,   *)
(* SpResponseResource.post, authenticateImpl).                              *)
EndsInOwnAccount ==
    \A l \in Logins : account[l] # None =>
        account[l] = [realm |-> RealmOf[Home(l)], person |-> l,
                      prefix |-> IF auth[l] = "eidas" THEN RealmOf[Home(l)]
                                 ELSE IF claims[l] THEN "esmob" ELSE "esmo"]

(* The page posts the browser away exactly when the last attempt succeeded, *)
(* and with the session of that attempt: notes that earlier attempts left   *)
(* in the authentication session never decide (createCommonAttributes).     *)
PageIsOfLastAttempt ==
    \A l \in Logins : page[l] # NoForm => page[l] = last[l]

(* The trip implements what Homecoming says of it: no login ever holds the  *)
(* session of another, a browser comes home with one of its own, and nobody *)
(* is let in without having authenticated for the session that the browser  *)
(* came back with - through reloads, repeated and reordered returns and     *)
(* refused updates (SpResponseResource.post, authenticateImpl).             *)
Trip == INSTANCE Homecoming WITH
    holder <- owner,
    arrived <- [l \in Logins |-> redirect[l].sessionId],
    admitted <- [l \in Logins |-> IF account[l] = None THEN None ELSE account[l].person]
ComesHome == Trip!Spec
=============================================================================
