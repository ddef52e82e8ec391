----------------------------- MODULE PostResponse -----------------------------
(***************************************************************************)
(* The returning half of a login: SpmsPostResponseAuthenticator.  The      *)
(* browser comes back with the id of a Session Manager session; the        *)
(* authenticator fetches what the identity providers asserted in it, and   *)
(* creates or overwrites the Keycloak user of the person asserted.         *)
(*                                                                         *)
(* The factory hands out one authenticator object: the parameter list, the *)
(* response and the 27 claim fields (familyName ... homeOrganization) are  *)
(* shared, without a lock, by all the logins in progress.                  *)
(***************************************************************************)
EXTENDS Naturals, FiniteSets

CONSTANTS
    Requests,          \* executions of authenticate(), one per returning browser
    Sessions,          \* the sessions of the Session Manager
    People,            \* the values of a person identifier
    Contents,          \* what a session can hold: see ContentType
    Claims,            \* the number of claim fields (the code: 27)
    PersonIdentifier,  \* the index of the field personIdentifier (the code: 4)
    Prefixes,          \* realm names and values of the parameter claimsvariant
    Name,              \* the names of users, as Keycloak compares them
    MaxOverlap,        \* how many logins run in the authenticator at a time
    None               \* Java's null

Claim == 1..Claims
Variables == {"responseAssertions", "dsResponse"}

(* What the identity providers left in a session: a map from some of the    *)
(* variables to the claims asserted in them, and the person they are about. *)
ContentType == [person : People,
                variables : UNION {[present -> SUBSET Claim] : present \in SUBSET Variables}]

(* A serialised variable, and each value of an attribute in it. *)
Payload(s, v) == [session |-> s, variable |-> v]
Payloads == [session : Sessions, variable : Variables]

ASSUME PostResponseAssumption ==
    /\ Claims \in Nat
    /\ PersonIdentifier \in Claim
    /\ Contents \subseteq ContentType
    /\ Prefixes \X People \subseteq DOMAIN Name
    /\ MaxOverlap \in Nat \ {0}
    /\ None \notin Sessions \cup Requests \cup Payloads

VARIABLES
    pc,          \* the next step of each execution
    session,     \* the local variable sessionId
    prefix,      \* the local variable realmName
    asked,       \* the session variable that readSessionData is fetching
    reply,       \* an answer that readValue has not yet returned
    data,        \* the locals responseAssertionsStr and dsResponseStr
    index,       \* position in nullifyClaims or in the list of setSingleAttribute
    left,        \* the asserted attributes not yet processed
    username,    \* the local variable username
    found,       \* the user existed when it was looked up
    draft,       \* the attributes of the user, as this transaction sees them
    getParams,   \* the field getParams: the session ids in the list
    resp,        \* the field resp: the session it holds the variables of
    fields,      \* the 27 claim fields
    contents,    \* Session Manager: what each session holds
    users,       \* Keycloak: the attributes of each user
    writer,      \* history: the login that last wrote a user
    overlapped,  \* history: another login ran in the authenticator
    burst        \* history: the sessions of the logins in it since it was last empty

locals == <<session, prefix, asked, reply, data, index, left, username, found, draft>>
shared == <<getParams, resp, fields>>
keycloak == <<users, writer>>
history == <<overlapped, burst>>
vars == <<pc, locals, shared, contents, keycloak, history>>

NoClaims == [c \in Claim |-> None]

(* realmName.concat(".").concat(personIdentifier), which Keycloak turns     *)
(* into lower case; the names of two people can be one.                     *)
Username(p, person) == Name[<<p, person>>]
Usernames == {Username(p, person) : p \in Prefixes, person \in People}

Ended == {"success", "attempted", "aborted"}
Labels == Ended \cup {"idle", "clear", "add", "get", "assign", "read", "nullify",
                      "process", "fill", "commit"}
Active == {r \in Requests : pc[r] \notin Ended \cup {"idle"}}
Alone(r) == ~overlapped[r]

TypeOK ==
    /\ pc \in [Requests -> Labels]
    /\ session \in [Requests -> Sessions \cup {None}]
    /\ prefix \in [Requests -> Prefixes \cup {None}]
    /\ asked \in [Requests -> Variables]
    /\ reply \in [Requests -> Sessions \cup {None}]
    /\ data \in [Requests -> [Variables -> Payloads \cup {None}]]
    /\ index \in [Requests -> Claim]
    /\ left \in [Requests -> SUBSET Claim]
    /\ username \in [Requests -> Usernames \cup {None}]
    /\ found \in [Requests -> BOOLEAN]
    /\ draft \in [Requests -> [Claim -> Payloads \cup {None}]]
    /\ getParams \in SUBSET Sessions
    /\ resp \in Sessions \cup {None}
    /\ fields \in [Claim -> Payloads \cup {None}]
    /\ contents \in [Sessions -> Contents]
    /\ users \in [Usernames -> [Claim -> Payloads \cup {None}] \cup {None}]
    /\ writer \in [Usernames -> Requests \cup {None}]
    /\ overlapped \in [Requests -> BOOLEAN]
    /\ burst \in SUBSET Sessions

Init ==
    /\ pc = [r \in Requests |-> "idle"]
    /\ session = [r \in Requests |-> None]
    /\ prefix = [r \in Requests |-> None]
    /\ asked = [r \in Requests |-> "responseAssertions"]
    /\ reply = [r \in Requests |-> None]
    /\ data = [r \in Requests |-> [v \in Variables |-> None]]
    /\ index = [r \in Requests |-> 1]
    /\ left = [r \in Requests |-> {}]
    /\ username = [r \in Requests |-> None]
    /\ found = [r \in Requests |-> FALSE]
    /\ draft = [r \in Requests |-> NoClaims]
    /\ getParams = {}
    /\ resp = None
    /\ fields = NoClaims
    /\ contents \in [Sessions -> Contents]
    /\ users = [u \in Usernames |-> None]
    /\ writer = [u \in Usernames |-> None]
    /\ overlapped = [r \in Requests |-> FALSE]
    /\ burst = {}

Goto(r, label) == pc' = [pc EXCEPT ![r] = label]

(* The end of an execution; its locals are gone, except that the session    *)
(* and the realm of one that succeeded are kept for the properties.         *)
End(r, label) ==
    /\ Goto(r, label)
    /\ asked' = [asked EXCEPT ![r] = "responseAssertions"]
    /\ reply' = [reply EXCEPT ![r] = None]
    /\ data' = [data EXCEPT ![r] = [v \in Variables |-> None]]
    /\ index' = [index EXCEPT ![r] = 1]
    /\ left' = [left EXCEPT ![r] = {}]
    /\ draft' = [draft EXCEPT ![r] = NoClaims]
    /\ found' = [found EXCEPT ![r] = FALSE]
    /\ username' = [username EXCEPT ![r] = None]
    /\ IF label = "success"
       THEN UNCHANGED <<session, prefix>>
       ELSE /\ session' = [session EXCEPT ![r] = None]
            /\ prefix' = [prefix EXCEPT ![r] = None]

-----------------------------------------------------------------------------
(* A worker enters authenticate() with the query parameters of the browser. *)
Authenticate(r) ==
    /\ pc[r] = "idle"
    /\ Cardinality(Active) < MaxOverlap
    /\ \E s \in Sessions, p \in Prefixes :
        /\ session' = [session EXCEPT ![r] = s]
        /\ prefix' = [prefix EXCEPT ![r] = p]
        /\ burst' = {s} \cup IF Active = {} THEN {} ELSE burst
    /\ overlapped' = [q \in Requests |->
                         \/ overlapped[q]
                         \/ q \in Active
                         \/ q = r /\ Active # {}]
    /\ Goto(r, "clear")
    /\ UNCHANGED <<asked, reply, data, index, left, username, found, draft,
                   shared, contents, keycloak>>

(* Without a sessionId the authenticator makes no attempt; when its         *)
(* services cannot be built it throws.                                      *)
EndsEarly(r) ==
    /\ pc[r] = "idle"
    /\ End(r, "attempted") \/ End(r, "aborted")
    /\ UNCHANGED <<shared, contents, keycloak, history>>

-----------------------------------------------------------------------------
(* readSessionData, first for responseAssertions and then for dsResponse.   *)
(* Of the two parameters it adds, the Session Manager looks at sessionId;   *)
(* the mutant does not clear the list.                                      *)
ClearParams_not(r) ==
    /\ pc[r] = "clear"
    /\ Goto(r, "add")
    /\ UNCHANGED <<locals, shared, contents, keycloak, history>>

ClearParams(r) ==
    /\ pc[r] = "clear"
    /\ getParams' = {}
    /\ Goto(r, "add")
    /\ UNCHANGED <<locals, resp, fields, contents, keycloak, history>>

AddParams(r) ==
    /\ pc[r] = "add"
    /\ getParams' = getParams \cup {session[r]}
    /\ Goto(r, "get")
    /\ UNCHANGED <<locals, resp, fields, contents, keycloak, history>>

(* GET /sm/getSessionData: all the variables of a session in the list, or   *)
(* code ERROR without a session.                                            *)
GetSessionData(r) ==
    /\ pc[r] = "get"
    /\ \E s \in getParams \cup {None} : reply' = [reply EXCEPT ![r] = s]
    /\ Goto(r, "assign")
    /\ UNCHANGED <<session, prefix, asked, data, index, left, username, found, draft,
                   shared, contents, keycloak, history>>

AssignResp(r) ==
    /\ pc[r] = "assign"
    /\ resp' = reply[r]
    /\ reply' = [reply EXCEPT ![r] = None]
    /\ Goto(r, "read")
    /\ UNCHANGED <<session, prefix, asked, data, index, left, username, found, draft,
                   getParams, fields, contents, keycloak, history>>

(* What validateSession goes on with: responseAssertions if the session has *)
(* them, else dsResponse.  The mutant prefers dsResponse.                   *)
Chosen_swapped(d) == IF d["dsResponse"] # None THEN d["dsResponse"] ELSE d["responseAssertions"]
Chosen(d) == IF d["responseAssertions"] # None THEN d["responseAssertions"] ELSE d["dsResponse"]

(* Neither variable is in the session: context.attempted().  The mutant     *)
(* asks again until there is one.                                           *)
NothingAsserted_retry(r) ==
    /\ Goto(r, "clear")
    /\ asked' = [asked EXCEPT ![r] = "responseAssertions"]
    /\ UNCHANGED <<session, prefix, reply, data, index, left, username, found, draft>>
NothingAsserted(r) == End(r, "attempted")

(* resp.getSessionData().getSessionVariables().get(sessionVar): a           *)
(* NullPointerException when resp holds an error; null when the session has *)
(* no such variable.                                                        *)
ReadVariable(r) ==
    /\ pc[r] = "read"
    /\ IF resp = None
       THEN End(r, "aborted")
       ELSE LET v == asked[r]
                read == [data[r] EXCEPT ![v] =
                            IF v \in DOMAIN contents[resp].variables
                            THEN Payload(resp, v) ELSE None]
            IN \/ /\ v = "responseAssertions"
                  /\ data' = [data EXCEPT ![r] = read]
                  /\ asked' = [asked EXCEPT ![r] = "dsResponse"]
                  /\ Goto(r, "clear")
                  /\ UNCHANGED <<session, prefix, reply, index, left, username, found, draft>>
               \/ /\ v = "dsResponse" /\ Chosen(read) = None
                  /\ NothingAsserted(r)
               \/ /\ v = "dsResponse" /\ Chosen(read) # None
                  /\ data' = [data EXCEPT ![r] = read]
                  /\ Goto(r, "nullify")
                  /\ UNCHANGED <<session, prefix, asked, reply, index, left, username,
                                 found, draft>>
    /\ UNCHANGED <<shared, contents, keycloak, history>>

-----------------------------------------------------------------------------
(* nullifyClaims, one field after the other; then the attributes of the     *)
(* chosen variable.  The mutant forgets the last field.                     *)
Nullified_butLast(r) == [fields EXCEPT ![index[r]] = IF index[r] = Claims THEN @ ELSE None]
Nullified(r) == [fields EXCEPT ![index[r]] = None]

(* More of the 27 fields to go; the mutants go one too far, and stop early. *)
More_oneTooFar(r) == index[r] <= Claims
More_oneShort(r) == index[r] + 1 < Claims
More(r) == index[r] < Claims

NullifyClaim(r) ==
    /\ pc[r] = "nullify"
    /\ fields' = Nullified(r)
    /\ IF More(r)
       THEN /\ index' = [index EXCEPT ![r] = @ + 1]
            /\ UNCHANGED <<pc, left>>
       ELSE LET p == Chosen(data[r])
            IN /\ index' = [index EXCEPT ![r] = 1]
               /\ left' = [left EXCEPT ![r] = contents[p.session].variables[p.variable]]
               /\ Goto(r, "process")
    /\ UNCHANGED <<session, prefix, asked, reply, data, username, found, draft,
                   getParams, resp, contents, keycloak, history>>

(* processAttributes: each attribute asserted, in the order of the answer,  *)
(* goes to the field that validateAttributeName finds for it.               *)
ProcessAttribute(r) ==
    /\ pc[r] = "process"
    /\ \E c \in left[r] :
        /\ fields' = [fields EXCEPT ![c] = Chosen(data[r])]
        /\ left' = [left EXCEPT ![r] = @ \ {c}]
    /\ UNCHANGED <<pc, session, prefix, asked, reply, data, index, username, found, draft,
                   getParams, resp, contents, keycloak, history>>

(* The user is looked up by a name built from the field personIdentifier    *)
(* (a NullPointerException when it is null).  A new user has no attributes; *)
(* those of an old one are removed.                                         *)
FindUser(r) ==
    /\ pc[r] = "process" /\ left[r] = {}
    /\ LET p == fields[PersonIdentifier] IN
        IF p = None
        THEN End(r, "aborted")
        ELSE LET u == Username(prefix[r], contents[p.session].person)
             IN /\ username' = [username EXCEPT ![r] = u]
                /\ found' = [found EXCEPT ![r] = users[u] # None]
                /\ draft' = [draft EXCEPT ![r] = NoClaims]
                /\ Goto(r, "fill")
                /\ UNCHANGED <<session, prefix, asked, reply, data, index, left>>
    /\ UNCHANGED <<shared, contents, keycloak, history>>

(* One user.setSingleAttribute after the other, each reading a field.       *)
FillAttribute(r) ==
    /\ pc[r] = "fill"
    /\ draft' = [draft EXCEPT ![r][index[r]] = fields[index[r]]]
    /\ IF More(r)
       THEN /\ index' = [index EXCEPT ![r] = @ + 1]
            /\ UNCHANGED pc
       ELSE /\ index' = [index EXCEPT ![r] = 1]
            /\ Goto(r, "commit")
    /\ UNCHANGED <<session, prefix, asked, reply, data, left, username, found,
                   shared, contents, keycloak, history>>

(* context.success(); Keycloak commits the transaction of the request,      *)
(* which fails if the user to be added exists by now.                       *)
Commit(r) ==
    /\ pc[r] = "commit"
    /\ LET u == username[r] IN
        IF ~found[r] /\ users[u] # None
        THEN /\ End(r, "aborted")
             /\ UNCHANGED keycloak
        ELSE /\ users' = [users EXCEPT ![u] = draft[r]]
             /\ writer' = [writer EXCEPT ![u] = r]
             /\ End(r, "success")
    /\ UNCHANGED <<shared, contents, history>>

(* An answer or a variable is not the JSON expected: the IOException is     *)
(* caught and the execution ends as attempted.                              *)
GivesUp(r) ==
    /\ pc[r] \in {"assign", "process"}
    /\ End(r, "attempted")
    /\ UNCHANGED <<shared, contents, keycloak, history>>

(* What nothing catches: a call that fails, an attribute without a value, a *)
(* transaction that cannot be committed.                                    *)
Fails(r) ==
    /\ pc[r] \in {"get", "assign", "process", "commit"}
    /\ End(r, "aborted")
    /\ UNCHANGED <<shared, contents, keycloak, history>>

Step(r) ==
    \/ ClearParams(r)
    \/ AddParams(r)
    \/ GetSessionData(r)
    \/ AssignResp(r)
    \/ ReadVariable(r)
    \/ NullifyClaim(r)
    \/ ProcessAttribute(r)
    \/ FindUser(r)
    \/ FillAttribute(r)
    \/ Commit(r)
    \/ GivesUp(r)
    \/ Fails(r)

AllEnded == \A r \in Requests : pc[r] \in Ended

Next ==
    \/ \E r \in Requests : Authenticate(r) \/ EndsEarly(r) \/ Step(r)
    \/ AllEnded /\ UNCHANGED vars

(* Once it runs, a worker thread keeps running, and every call returns or   *)
(* fails.                                                                   *)
Fairness == \A r \in Requests : WF_vars(Step(r))

Spec == Init /\ [][Next]_vars
FairSpec == Spec /\ Fairness

-----------------------------------------------------------------------------
(* The attributes that session s asserts: the reference for what a login    *)
(* with this session may write.                                             *)
Asserted(s) ==
    LET variables == contents[s].variables
        v == IF "responseAssertions" \in DOMAIN variables
             THEN "responseAssertions" ELSE "dsResponse"
    IN [c \in Claim |-> IF v \in DOMAIN variables /\ c \in variables[v]
                        THEN Payload(s, v) ELSE None]

(* The record of a user, if a login that ran alone wrote it last, is that   *)
(* of the person of this login's session, with exactly the attributes       *)
(* asserted there: nothing of the user's earlier record, nothing of what    *)
(* earlier logins, finished or failed half way, left in the claim fields    *)
(* (authenticateImpl, nullifyClaims).                                       *)
RecordIsOwnWhenAlone ==
    \A u \in Usernames : writer[u] # None /\ Alone(writer[u]) =>
        LET r == writer[u] IN
        /\ u = Username(prefix[r], contents[session[r]].person)
        /\ users[u] = Asserted(session[r])

(* However the logins in it interleave, what one of them is about to write  *)
(* was asserted in sessions of the same burst: nothing that a login left in *)
(* the parameters, the response or the claim fields outlives the moment at  *)
(* which the authenticator is empty (authenticateImpl, nullifyClaims).      *)
NothingOutlivesItsBurst ==
    \A r \in Requests : pc[r] \in {"fill", "commit"} =>
        \A c \in Claim : draft[r][c] # None => draft[r][c].session \in burst

(* A login that ran alone never reads a variable of another session,        *)
(* whatever parameters and response the logins before it left in the shared *)
(* list and in the shared field (readSessionData).                          *)
ReadsOwnSessionWhenAlone ==
    \A r \in Requests : Alone(r) /\ r \in Active =>
        \A v \in Variables : data[r][v] \in {None, Payload(session[r], v)}

(* Every login that comes back ends: with success, without an attempt, or   *)
(* with an exception.                                                       *)
EveryReturnEnds ==
    \A r \in Requests : r \in Active ~> pc[r] \in Ended

(* How many steps an execution can still take: five to read each variable,  *)
(* one for each field cleared, attribute processed and attribute filled in, *)
(* one to look the user up and one to commit.                               *)
Position ==
    [idle |-> 8, clear |-> 7, add |-> 6, get |-> 5, assign |-> 4, read |-> 3, nullify |-> 3,
     process |-> 2, fill |-> 2, commit |-> 1, success |-> 0, attempted |-> 0, aborted |-> 0]

StepsLeft(r) ==
    Position[pc[r]] +
        (IF pc[r] \in {"idle", "clear", "add", "get", "assign", "read"}
         THEN 3 * Claims + (IF asked[r] = "responseAssertions" THEN 5 ELSE 0)
         ELSE IF pc[r] = "nullify" THEN 3 * Claims - index[r]
         ELSE IF pc[r] = "process" THEN Claims + Cardinality(left[r])
         ELSE IF pc[r] = "fill" THEN Claims - index[r]
         ELSE 0)

(* Each step of an execution brings it nearer to its end, and no step of    *)
(* another, whatever it does to the shared fields, takes it further away:   *)
(* no execution takes more than 3 * Claims + 13 steps (authenticateImpl).   *)
EveryStepCounts ==
    [][\A r \in Requests :
           /\ StepsLeft(r)' \in 0..3 * Claims + 13
           /\ StepsLeft(r)' <= StepsLeft(r)
           /\ Step(r) => StepsLeft(r)' < StepsLeft(r)]_vars

(* Every login implements the promise of UserRecords: one that ran alone    *)
(* writes the record of its own person, at once, once only and nothing      *)
(* else, or changes no user (authenticateImpl).                             *)
Outcome(r) ==
    IF overlapped[r] THEN [state |-> "disturbed"]
    ELSE IF pc[r] = "success"
         THEN [state |-> "recorded", session |-> session[r], prefix |-> prefix[r]]
    ELSE IF pc[r] \in Ended THEN [state |-> "without"]
    ELSE [state |-> "pending"]

Promise == INSTANCE UserRecords WITH
    outcome <- [r \in Requests |-> Outcome(r)],
    assertions <- [s \in Sessions |-> [person |-> contents[s].person, record |-> Asserted(s)]]
KeepsRecords == Promise!Spec
=============================================================================
