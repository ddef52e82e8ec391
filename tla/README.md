# A verification project for the ESMO / eIDAS login of Keycloak

The repository is a Keycloak extension: two authenticators that send a browser
away to the ESMO network (through its ACM) or to an eIDAS identity provider, a
login page that posts it there, a REST resource at which it comes back, and an
authenticator that turns what was asserted about the person into a Keycloak
user.  What the parts have to say to each other they keep in *sessions* of a
remote service, the **Session Manager**, which they call with signed HTTP
requests.

This directory holds TLA+ models of these parts, configurations that check
them with TLC, and proofs checked by TLAPS.  File names below are relative to
`src/esmocloak-module/src/main/java/gr/uagean/`.

    tlc -config SpRequest_pair.cfg MCSpRequest.tla    # one of the runs
    tlapm SpRequestProofs.tla                          # one of the proofs

`PROJECT.json` lists the runs with what each shows, the theorems, the source
lines of every definition, for every property a change of the code
that breaks it, the disagreements found, and the hazards.

## The system

A login, when nothing goes wrong:

1. An OIDC client sends the browser to Keycloak.  The flow of the realm runs
   `SpmsEsmoAuthenticator` or `SpmsEidasAuthenticator`: it opens a session,
   stores up to four variables in it (`spRequest`, the attributes wanted;
   `spMetadata`; `spDetails`, the OIDC parameters; in the Norwegian realms
   `SP_ORIGIN`), and leaves authentication notes: a token of the session for
   the ACM, or the session's id for the IdP.
2. `SpmsLoginFormsProvider` puts the notes into a page whose form submits itself.
3. The ACM or the IdP has the person authenticated, stores the assertions in
   the session, and posts the browser to `SpResponseResource` with a token.
   The resource validates it, reads `spDetails`, and redirects the browser to
   the authorization endpoint of a realm, with the session id and the OIDC
   parameters of step 1.
4. The flow of that realm runs `SpmsPostResponseAuthenticator`: it reads the
   assertions of the session, sorts them into its claim fields, and adds or
   overwrites the Keycloak user they are about.

Identities that come from a brokered provider go through
`AnonymizeEsmoAuthenticator` instead, which gives them a hashed user name.

### Components

| Component | State it keeps | Operations | What makes it correct |
|---|---|---|---|
| **Outgoing authenticators** (`authenticators/SpmsEsmoAuthenticator`, `SpmsEidasAuthenticator`, factories) | fields `resp` and `updateDR` of one object for all logins; authentication notes | `authenticate`, `updateSessionData`, preparation of the payloads | a login hands over *its* session, with *its* documents, complete; every login ends |
| **Returning authenticator** (`authenticators/SpmsPostResponseAuthenticator`, factory) | fields `getParams`, `resp` and 27 claim fields of one object for all logins | `authenticate`, `readSessionData`, `nullifyClaims`, `processAttributes` | the user record is that of the session's person, and nothing else; a request of an attribute and the sorting of its value agree |
| **Login page** (`providers/*`, theme) | none; reads the notes | `createCommonAttributes` | the page follows the last attempt |
| **REST resource** (`rest/*`) | an object of each request | `post`, `readSessionData`, `fixedResponse` | the browser returns to the realm and the OIDC request it started from |
| **Network service, signatures** (`loginWebApp/service/impl/NetworkServiceImpl`, `HttpSignatureServiceImpl`) | none beyond the keys; reads an object its caller shares | `sendPostBody`, `sendPostForm`, `sendGet`, `generateSignature`, `verifySignature` | what was sent in good time verifies; what verifies is what was signed |
| **Anonymizing authenticator** (`authenticators/AnonymizeEsmoAuthenticator`) | the note `EXISTING_USER_INFO`; the users of the realm | `authenticateImpl`, `checkExistingUser` | newcomers are turned away only for their own account; duplicates are reported |
| **Attribute names, DTOs** (`loginWebApp/model/pojo`) | constants, records | | what is asked for and what is sorted go by the same names |
| **Session Manager** (outside the repository) | sessions and their variables | `startSession`, `updateSessionData`, `getSessionData`, `generateToken`, `validateToken` | taken at what the code relies on |
| **Test authenticator** | none | `authenticateImpl` | its calls are inputs of the network service; the rest is not modelled |
| Configuration, microservice registry, metadata, countries, eIDAS properties, parsers and factories, packaging and themes | | | not modelled, see below |

### What is hard about it

* **Singletons with fields.**  Each authenticator factory hands out one object
  (`SINGLETON`), and the objects keep per-login data in fields: between a
  write and the read that follows, any other login can write the same field.
* **Left-overs.**  The fields live as long as the server.  What one login left
  in them, finished or failed half way, is there when the next one starts.
* **Remote calls that fail in many ways.**  An answer with code `ERROR`, no
  answer, an answer that cannot be parsed, an exception while the request is
  signed: `sendPostBody` turns exceptions into `null`, `sendGet` and
  `sendPostForm` send the request unsigned, some callers catch, some do not,
  and most do not read the code.
* **Things computed twice.**  A signed request computes its date and its
  digest twice, and serialises its body three times; where it is posted to and
  what target is signed are given separately.
* **Things listed several times.**  The 27 attributes, the realm variants.
* **Browsers.**  They reload, come back twice, come back with an old token.
* **Decisions used far from where they are made.**  The first request decides
  the realm and the variant of claims; three components and two servers later
  they decide the account.
* **Two transactions.**  Users are looked up and added without excluding
  other logins that do the same.

The hazards of the code, each at its line and with the properties
that cover it, are the list `hazards` of `PROJECT.json`.

## The modules

| Module | Models | Composed with |
|---|---|---|
| `SpRequest` | the two outgoing authenticators, the Session Manager's side of their calls | implements `LoginHandOver` |
| `LoginHandOver` | abstract: what an outgoing authenticator promises of a login that nobody overlaps | |
| `SpRequestInvariant`, `SpRequestProofs` | the strengthened invariants of `SpRequest`; proofs | each extends the one before |
| `PromiseProofs`, `BurstProofs` | the proof of the refinement; proofs about logins that overlap | both extend `SpRequestProofs` |
| `PostResponse` | the returning authenticator, Keycloak's users | implements `UserRecords` |
| `UserRecords` | abstract: what the returning authenticator promises of a login that nobody overlaps | |
| `PostResponseInvariant`, `PostResponseProofs` | the strengthened invariants of `PostResponse`; proofs, that of the refinement included | each extends the one before |
| `RoundTrip` | a whole login: notes, page, ACM/IdP, REST resource, redirect, account | takes the two authenticators at the promises of `LoginHandOver` and `UserRecords`; implements `Homecoming` |
| `Homecoming` | abstract: what the trip of a browser amounts to | |
| `RoundTripInvariant`, `RoundTripProofs` | the strengthened invariants of `RoundTrip`; proofs, that of the refinement included | each extends the one before |
| `AttributeExchange`, `AttributeExchangeProofs` | names of attributes from the request to the claim fields, and to the user's name; proofs | refines a step of `PostResponse` (`ProcessAttribute`), implements `ClaimSorting` |
| `ClaimSorting` | abstract: what sorting an answer into the claim fields amounts to | |
| `SignedRequest`, `SignedRequestProofs` | the three methods of the network service, and the verification | refines the signature check of `SpRequest` (`SignatureMatches`) |
| `Anonymize`, `AnonymizeProofs` | the anonymizing authenticator and the realm's users | |
| `MC*` | the constants and symmetries of the runs | each extends one module, or its invariants |

Operators whose names end in `_something` are not part of a model: each is the
definition before or after it with a plausible mistake in the code, kept to
show which property notices it (`mutants` of `PROJECT.json`).

### SpRequest

One execution of `authenticate()` is a process `r`; `pc[r]` names the next step.
A step is the code between two accesses of a shared field or remote calls, so
that every order in which several workers can access `resp` and `updateDR` is a
behaviour of the model.

| Code | Action |
|---|---|
| entering `authenticate`, `initServices`, payloads (local) | `Authenticate`, `ServicesFail` |
| `sendPostForm(.../sm/startSession)` | `StartSession` |
| `resp = mapper.readValue(...)`, four places | `AssignResp` (`Publish`) |
| `resp.getSessionData().getSessionId()` | `ReadSessionId` |
| `updateDR.setSessionId/VariableName/DataObject` | `SetSessionId`, `SetVariableName`, `SetDataObject` |
| `sendPostBody`: digest, signature, body | `SerialiseForDigest`, `SerialiseForSignature`, `PostUpdate` |
| `sendGet(.../sm/generateToken)` | `GenerateToken` |
| the notes of success | `HandOverToAcm`, `HandOverToIdp` |
| the catch clause of `authenticateImpl` | `GivesUp` |
| exceptions that nothing catches | `CallFails`, a branch of `ReadSessionId` |

Data is known by where it comes from: a document by the login that prepared it
and the variable it is for, a token by its session.  Two variables are history:
`overlapped` marks a login when another one was in the same authenticator at the
same time, and `burst` has the logins, ended ones too, that were there since the
authenticator was last empty.

`TakesFromItsBurst` bounds what an overlap can do: whatever logins take over from
each other, sessions, tokens and documents stay within a burst, so that what is
left in `resp` and `updateDR` never reaches a login that starts when nobody is there.
`EveryStepCounts` bounds how long it lasts: `StepsLeft` falls with each step of a
login and rises with nobody's.

`LoginHandOver` says what remains when all of this is hidden: an undisturbed
login ends without a hand-over, or hands over *once* a session that no other
undisturbed login has, with its own documents, and *nothing changes them
afterwards*.  The refinement mapping is `Promise` at the end of `SpRequest`.

### PostResponse

The same granularity, one step per access of `getParams`, `resp` and a claim
field.  A session's content is the person it is about and, for each of the two
variables, the set of the claims asserted; a value in a claim field is known by
the session and variable it was read from.  `Name` gives the names of users as
Keycloak compares them, so that different persons may have one name.
Keycloak's transaction is modelled by a `draft` which `Commit` writes, or does
not when a user to be added exists.

| Code | Action |
|---|---|
| entering `authenticateImpl`, `initServices` | `Authenticate`, `EndsEarly` |
| `getParams.clear()`, the two `add`s | `ClearParams`, `AddParams` |
| `sendGet(.../sm/getSessionData)`, `resp = readValue(...)` | `GetSessionData`, `AssignResp` |
| `resp.getSessionData()...get(...)`, `validateSession` | `ReadVariable` (`Chosen`, `NothingAsserted`) |
| `nullifyClaims`, a field at a time | `NullifyClaim` |
| a round of the loop of `processAttributes` | `ProcessAttribute` |
| `findUserByNameOrEmail` and what is done with its answer | `FindUser` |
| `setSingleAttribute`, a field at a time | `FillAttribute` |
| `context.success()`, the end of the transaction | `Commit` |
| the catch clause; exceptions that nothing catches | `GivesUp`, `Fails` |

Two history variables mark which logins overlapped another one, and the
`burst`: the sessions of the logins since the authenticator was last empty.

`UserRecords` says what remains when all of this is hidden: an undisturbed login
ends without a change to any user, or writes *once* the record of *one* user,
its session's person, in full.  A disturbed one may leave anything with any one
user.  The refinement mapping is `Promise` at the end of `PostResponse`.

### AttributeExchange

The request side (`prepareAllTypes`, `prepareTypesByClaims`, `resolveAttName`,
`resolveAttFriendlyName`) and the sorting side (`processAttributes`,
`validateAttributeName`) as operators; `Ask`, a round of the loop over the answer
(`ProcessAttribute`) and the name of the user after it (`NameUser`) as actions.  That
the listings spell the 27 attributes alike was compared by reading; the
model has an attribute's three names as one.

The code never compares the answer with the request.  The sources may therefore
return any attribute, asked for or not (`Returned`), any number of times, under its
names or with one of them replaced or dropped, with a value, with null, or
without any; only that they do not put the names of one attribute on another is
taken for granted.  What a login gets from sources that do as they are told
is `GetsWhatItAskedFor`: what it asked for and no more, *but* no user if it did
not ask for the person identifier.  The parameter `claims` decides that, and
need not name it; such a login ends in the exception of `concat`, unless a source
returns the identifier unasked.

`ClaimSorting` hides names and friendly names, and the request: of each thing heard
about a claim no notice is taken, or it is filed under that claim; a missing
value ends the login, and so does the lack of a person identifier at the end.
The refinement mapping is `Sorting` at the end of `AttributeExchange`.

### RoundTrip

The composition: a whole login of each browser, from the first authorization
request to the account it ends in.  Each authenticator is one action here, with
the outcomes that its abstract specification allows a login that runs alone:
`HandOver`, `GiveUp` and `Abort` for the outgoing one (a package of its own, or
none), `LogIn` for the returning one (the account of the session's person in the
realm of the redirect).  `ShowPage` and `PostAway` are the page, `PostBack` the ACM or
IdP (which may answer any session the browser was sent with, several times, with
or without an assertion), and `ValidateToken`, `ReadSpDetails`, `ReturnFails`,
`Redirect` the calls of `SpResponseResource.post`, so that returns of several
browsers interleave; `Resource` is the object that serves a request.  `Lower` is
`toLowerCase`: the authenticator compares realm names without regard to case,
the resource what it reads with `equals`.  `RealmOf` is the realm of each
configured endpoint, `Flows` which authenticators the flows of the realms run.

`Homecoming` hides the notes, the page, the resource and the parameters: a login draws
sessions that no other one ever holds, its browser comes home with one of them,
and it is let in as the person who authenticated for that session.  The
refinement mapping is `Trip` at the end of `RoundTrip`.

### SignedRequest

Time is in seconds.  `AddHeaders` and `GenerateSignature` each read the clock and
the content; `Elapse` and `Change` can come between any two steps; `Format`
stands for writing a date with `YYYY` and reading it with `yyyy`.  A content has
one digest in the charset of the body and another one in a default charset
that differs (`utf8`).  `key` is what `getSigningKey` returned: an RSA key, the
HMAC secret, of which the signer cannot be made (`SignerFails`), or null.  The
request goes to the uri of `/sm/updateSessionData` or to another one, as
`TestEsmoAuthenticator`'s does; `SignedTarget` is what the signature covers.
`verifySignature` is the repository's own; no code in the repository calls it, and that the
Session Manager answers by it is an assumption.  Cryptography is perfect: a
signature verifies exactly for the headers and the target signed.

### Anonymize

The look-up (`CheckExistingUser`) and the commit (`AddUser`) are separate steps,
between which other newcomers or ordinary registrations (`Register`) add users.  The
hash is injective, with values that are no plain name or address.

## What the runs check

| Run | Bounds | What it shows |
|---|---|---|
| `SpRequest_pair` | 2 logins, 2 sessions, both in progress at once, 2 documents, 1 refused update | a login that nobody overlaps in its authenticator hands over its own, complete session, and its updates verify; what overlapping logins take over from each other never crosses to the other authenticator and never leaves their burst; `SpRequest` implements `LoginHandOver`; the invariants of the proofs |
| `SpRequest_ends` | 2 logins, Norwegian realm, 1 document and `SP_ORIGIN` | every login ends, disturbed or not, and within a number of steps that no other login raises |
| `SpRequest_swapped` | 2 logins | *finding*: a login hands over another login's session or token |
| `SpRequest_tokenless` | as above | *finding*: a login succeeds without a token |
| `PostResponse` | 3 logins, 2 at once, 2 sessions, 3 persons of whom 2 share a name, 2 claims, 4 kinds of session | the record that a login running alone writes is that of its session's person, nothing more and nothing less; what overlapping logins write is of their burst's sessions |
| `PostResponse_ends` | 2 logins, 2 sessions, 3 kinds of session | every returning login ends, disturbed or not, and within a number of steps that no other raises; `PostResponse` implements `UserRecords`; the invariants of the proofs |
| `AttributeExchange` | 2 attributes, 1 unknown claim, 1 strange name, 3 returned attributes | every value lands in the field of its attribute; a login gets what it asked for, and a user only if that was the person identifier too; `AttributeExchange` implements `ClaimSorting` |
| `RoundTrip` | 2 browsers, 2 sessions, 2 attempts and 2 returns each, 3 realms with ESMO and one of them with eIDAS as well | the browser returns to where it started and ends in the account of its own person, under the variant of claims it asked for; the page follows the last attempt; `RoundTrip` implements `Homecoming` |
| `Anonymize` | 2 newcomers, 2 providers, 2 names, 1 address, 3 users, each setting of the realm | newcomers are turned away only for their own account; names are rejected by the database only in a race |
| `Anonymize_email` | the same | *finding*: a duplicate e-mail address is not reported |
| `SignedRequest` | 2 uris, 3 kinds of key, 2 charsets, up to 3 delays of 1 s, 290 s, 310 s or an hour, clocks 30 s apart in either direction, dates in and before the last days of December | a prompt request that nothing disturbed is accepted; whatever is accepted was undisturbed, and posted as it was signed |
| `SignedRequest_december` | the same | *finding*: in the last days of December prompt requests are refused |

**Why the bounds are enough.**  In `SpRequest` and `PostResponse` whatever
one login does to another goes through fields that hold one value, so that two
logins at once show every kind of interference; a third, in `PostResponse`, is
a login that runs alone after the other two have left their mixture in the
fields, or before they make it (in `SpRequest` the proofs cover it).  Two documents, or one
and `SP_ORIGIN`, are a first update and a later one, which finds the shared
request filled by the update before; the proofs are for any number.  Two claims
are the person identifier, and one that an answer can lack.  In `RoundTrip` two
attempts and two returns give an old and a new token that come back in either
order or twice.  In `AttributeExchange` three returned attributes are enough for
a value, its repetition, and another attribute between, and for an answer to all of a
request: two attributes, of which the person identifier is one, and an unknown claim.  In `Anonymize` two newcomers of one
provider, or namesakes of two, race with a third user.  In `SignedRequest` a
delay can fall into each of the gaps between dating, signing and checking, and
290 s and 310 s lie on both sides of the five minutes allowed.

**Deadlock** is checked for `SpRequest`, `PostResponse` and `SignedRequest`,
where the end of all executions is an explicit stuttering step.  It is off for
`AttributeExchange`, `RoundTrip` and `Anonymize`: there the browsers and the
answers simply come to an end, or reach the bound on their number.

**Fairness.**  `FairSpec`, in `SpRequest` and in `PostResponse`, has weak
fairness of every worker's `Step`, and none of `Authenticate`: a thread that is in `authenticate` keeps being scheduled, and
every call it makes returns or fails.  The second half is an assumption on the
network, not something the code ensures: `NetworkServiceImpl` builds its
`RestTemplate` without timeouts, and a Session Manager that accepts a connection
and never answers keeps the worker for good.

**Memory.**  Fields are modelled as sequentially consistent.  The Java memory
model lets a thread see older values of unsynchronised fields as well; as the
properties concern logins that run alone, where a worker reads what it wrote
itself, the finer model would only add behaviours of overlapping logins, except
that a worker's write might become visible to a *later* login's worker after
that login's own write.  That two logins which do not overlap are ordered by the
hand-over of requests to the worker threads is an assumption of the models.

## What is proved

The proofs are for every number of logins, sessions, realms, users, attributes,
delays and so on, from the named assumptions on the constants
(`SpRequestAssumption`, `PostResponseAssumption`, `RoundTripAssumption`,
`AttributeExchangeAssumption`, `SignedRequestAssumption`, `AnonymizeAssumption`).
Every invariant and action property that a passing run checks is proved, and so
are the four refinements.

**`SpRequestProofs`** - `TypeCorrect`, `IsolationInvariant`, `Isolation`,
`SignaturesAgree`, `MixingInvariant`, `NoMixing`, `StepsAreBounded`.

`IsolatedWhenAlone` speaks of the end of a login, and of a session at the other
end that any login could still write to.  The inductive invariant `IsolationInv` says
what keeps others away from it, at every step:

* `OverlapIsMarked` - two logins in progress in one authenticator are both
  marked as overlapped, so that of an unmarked one it is known that nobody else
  is between its write and its read;
* `SessionsAreTraced` - the session a login holds, is about to read from `resp`,
  or has in `updateDR` is one it opened, or one of a login that overlapped, like
  itself: an undisturbed login's session is in nobody else's reach, whatever
  the others do to each other, *and later logins find it in `resp` and `updateDR`
  without ever using it*;
* `FieldsAreOwnWhenAlone` - from each setter on, `updateDR` has this login's
  value, which is why the serialisations agree;
* `StoreIsOwnWhenAlone`, `RefusalsAreAnswered` - the session's store holds the
  updates answered so far, except those refused;
* `ControlOK`, `TypeOK`.

`MixingInv` adds to the types that everything in the fields, the notes and the
store of one authenticator stems from its own logins (`SourcesOK`).

`StepsAreBounded` is the part of termination that needs no fairness: a login takes at
most `7 * Documents + 14` steps, however others overwrite its fields, because the
program counter and the number of rounds are its own and no answer makes it
start over.  What it needs of the invariant is `ControlOK`: that `round` does not pass
`Rounds` while an update is under way, and that the realm, on which `Rounds` depends,
is settled when a login enters.

**`BurstProofs`** - `BurstInvariant`, `TakesFromBurst`.  `TakesFromItsBurst` is not
inductive: it says nothing of what is still in a shared field.  `BurstInv` adds,
label by label, that what a login is about to read there was put there by one of
its burst - by itself since its last write, or by one that runs beside it
(`FieldsOfBurst`) - and that the logins in one authenticator agree on their burst
(`BurstsAgree`).  Of a field that nobody will read before writing it, nothing is
said: that is where the left-overs are.

**`PromiseProofs`** - `PromiseKept`: `SpRequest` implements `LoginHandOver`.  The
step in which a login that runs alone sets its notes is `HandOver`, the step
that marks logins as overlapped is `Disturb`, the ways of failing are
`EndWithout`, and all else is a stutter.  That a package never changes afterwards
is where `IsolationInv` is needed: nobody else can reach its session.

**`PostResponseProofs`** - `TypeCorrect`, `RecordInvariant`, `OwnRecords`,
`OwnReads`, `RecordsKept`, `BurstInvariant`, `NothingOutlives`, `StepsAreBounded`.

`RecordInv` has the shape of `IsolationInv`: overlaps are marked
(`OverlapIsMarked`), and for a login that runs alone each label says what the
shared fields hold (`AloneIsOwn`) - the parameter list and the response its own
session's (`ReadsOwn`); the claim fields null up to `index` while they are
cleared, then filled from the attributes already processed, then equal to
what the session asserts (`FillsOwn`).  Before `nullify` nothing is known of
the fields, which is why left-overs do no harm.  `WritersSucceeded` ties the
last writer of a record to a login that is over, so that the record stays.
`RecordsKept` maps `Commit` to `Record` or `WriteDisturbed`.

`BurstInv` covers overlapping logins, of which nothing is known at any label
except where the data comes from: every value that one of them holds, or that
is in a shared field it will read, is of a session of its burst.  Fields that
an earlier burst filled are excluded by position: below `index` in `nullify`,
everywhere from `process` on.

`StepsAreBounded` bounds an execution by `3 * Claims + 13` steps; the attributes left to
process are counted with `Cardinality`, of a set that is finite because it is one of
claims (`LeftIsFinite`).

**`RoundTripProofs`** - `HomeInvariant`, `TypeCorrect`, `HomeRedirects`,
`OwnAccounts`, `PagesOfLastAttempts`, `ComingHome`.  `HomeInv` traces each piece of a login to the
browser that opened its session: what a session stores and asserts is its
opener's (`SessionOK`), and notes, page, the sessions a browser was posted away
with (`PagesOK`), the request being served and its resource (`ServingOK`), and the
redirect (`RedirectOK`) hold sessions of that browser only.  `VariantsLeadHome`
is the agreement between `prepareSpDetails` and `fixedResponse`; it needs that the
two Norwegian parameters differ in more than case, and that neither is `esmo` or
`eidas`, which `RoundTripAssumption` names.  `PageInv` says that the notes always call
for the page of the last attempt.  `ComingHome` maps `HandOver` to `Draw`, `PostBack` to
`Prove` when somebody authenticated, `Redirect` to `Arrive` and `LogIn` to `Enter`; that
the session of a redirect is held by the login it leads home, and that only the holder
is ever asserted, is `HomeInv`.  It needs that null is no account, which
`RoundTripAssumption` says.

**`AttributeExchangeProofs`** - `TypeCorrect`, `ReturnsReach`, `AskedIsGot`, `SortingKept`.
Whatever a source returns carries names of its own claim or strange ones (`ReturnedOK`),
so that it matches the field of its claim or none (`MatchesItsClaim`).  The invariant also
says that of the returns of an attribute one is the last (`LastReturn`): by one step at a
time, since a maximum of a finite set would need an induction; and why a login
ended as it did (`EndingOK`).  `AskedIsGot` needs both: that what came back as asked
is in its field (`FilledAsAsked`), and that an exception then had the lack of a person
identifier for a reason.  For `SortingKept` it is `MatchesItsClaim` that makes a round of
the loop the filing of one thing, although the code goes through all 27 fields.  They need
that strange names and null are no attributes, which `AttributeExchangeAssumption` says.

**`AnonymizeProofs`** - `TypeCorrect`, `OwnDuplicates`, `NamesReported`.  The
invariant relates every account's name to the identity it was made for
(`NamesAreOwn`); names are injective in alias and hash (`HashedNames`), and no
plain address equals a hashed one, which is why the look-up by address never
turns anyone away - and never finds anything.

**`SignedRequestProofs`** - `TypeCorrect`, `PromptAuthorized`, `OnlyAsSigned`.  The
invariant says where the control is, and that as long as no second passed and
nothing changed, the dates and digests of the headers and of the signature are
those of one moment (`DatesAgree`, `DigestsAgree`); conversely, that different
moments have different dates, which holds for calls that end before the year by
which a date can be ahead has passed: the hypothesis `[](now < AheadFrom + Year)`
of `OnlyAsSigned`.

**Model-checked only.**  Liveness (`EveryLoginEnds`, `EveryReturnEnds`) is out of the
prover's reach, as is everything about `ENABLED`.  Of the argument for it the first
half is proved for every instance, that each step counts (`StepsAreBounded`); the
other half, that a login in progress always has a step to take, so that weak fairness
brings it to its end, is checked on the instances of `SpRequest_ends` and
`PostResponse_ends`.  The properties of the findings are false, and their runs show it.

## Where the code disagrees with itself

* **Swapped sessions** (`SpmsEsmoAuthenticator.java:51`, `:75`, `:95`).  `resp`
  is a field of a singleton: of two overlapping logins one can read the session
  id or the token that the other has just stored, and its browser is posted away
  with it.  `IsolatedWhenAlone` and its proof say that this is the only way.
* **A success without a token** (`:95`).  The answer to `generateToken` may have
  code `ERROR` and no token; the code is not read, and the page posts nothing.
* **Duplicate addresses** (`AnonymizeEsmoAuthenticator.java:104`).  The look-up
  hashes the address, the account stores it as it is; duplicates are found by
  the database at the commit, as a failure, and not reported to the next
  authenticators.
* **The last days of December** (`NetworkServiceImpl.java:57`,
  `HttpSignatureServiceImpl.java:86`).  Dates are written with the week-based
  year `YYYY` and read with `yyyy`.

## What is abstracted, what is not modelled

* Payloads: documents are known by who prepared them and for what.  JSON,
  metadata and the wording of attributes are left out.
* Keycloak: its user store, transactions and constraints as the code relies on
  them.  `findUserByNameOrEmail`, which may also find a user by an address, is a
  look-up by name: a user whose e-mail address is the user name of another is left out.
* The header `host`, which `sendPostBody` sets to the whole URL while it signs the
  name alone: what is sent is up to the HTTP client.
* The key store: which kind of key it returns is modelled, how it is loaded is
  not.  The services that `initServices` puts into fields are the same whoever
  made them, and are not modelled as shared.
* **Test authenticator**: its calls are inputs of `SignedRequest`; it keeps no state.
* **Configuration**: its values are constants.
* **Microservice registry, metadata, countries, eIDAS properties; response
  parsers and factories**: taken over from another service; the login paths do
  not call them, and they keep no state that changes.
* **Packaging, themes**: build and appearance, except for the form of the login page
  that `RoundTrip` models.  Counted in lines, the repository is nearly all
  JavaScript and CSS below `src/esmocloak-module/src/main/resources/theme/`: two
  identical copies of a purchased page template with jQuery, moment, date and time
  pickers, charts and other plug-ins (some 21,700 lines of JavaScript each).  It
  is third-party code, and no step of a login depends on it; a model of it would
  say nothing about this system.  The system's own logic is the 5,574 lines of Java, of which
  more than half are DTOs, interfaces, factories, imports and the services named above;
  the definitions stand for some 1,900 lines of them, those with the state, the
  control and the names of attributes.

## Plan

Done: the modules above, in the order `SpRequest` (the core: every login passes
through it, and its fields are the greatest hazard), `PostResponse`,
`AttributeExchange`, `RoundTrip`, `Anonymize`, `SignedRequest`, then the
composition of a whole login in `RoundTrip`, `UserRecords`, and the proofs; then
`Homecoming`, `ClaimSorting`, the bursts of `SpRequest` and the bounds on steps.

What is left:

1. A proof that the promise of `SpRequest` and that of `PostResponse` are what
   `RoundTrip` makes of them: `HandOver` and `LogIn` were derived from the two
   abstract specifications by hand.
2. `AttributeExchange` as a refinement of the loop in `PostResponse`, which takes
   the matching of names as given; `ClaimSorting` is what the two have in common.
3. The users of `Anonymize` and of `PostResponse` in one realm: both authenticators
   name users after a prefix and an identifier.
