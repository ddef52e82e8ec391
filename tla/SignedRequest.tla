----------------------------- MODULE SignedRequest -----------------------------
(***************************************************************************)
(* A signed request to the Session Manager, from the call of sendPostBody, *)
(* sendPostForm or sendGet (NetworkServiceImpl) through generateSignature  *)
(* to verifySignature, the counterpart of generateSignature in             *)
(* HttpSignatureServiceImpl, by which the other end is taken to answer it. *)
(*                                                                         *)
(* The headers of the request and the text that is signed are computed     *)
(* apart, each with a date, and for a body with a digest, of its own; the  *)
(* text also names the target of the request, which sendPostBody does not  *)
(* take from its parameter uri.                                            *)
(***************************************************************************)
EXTENDS Integers

CONSTANTS
    AheadFrom,   \* from here on, until AheadUntil, the week belongs to the
    AheadUntil,  \* next year: the last days of December
    Delays,      \* seconds that may pass between two steps
    Skews,       \* how far the clock of the other end is ahead of this one
    MaxDelays,   \* bound on the number of delays
    UpdateUri,   \* "/sm/updateSessionData"
    OtherUris,   \* the other values of the parameter uri
    None         \* Java's null

Uris == {UpdateUri} \cup OtherUris
Keys == {"privateKey", "secretKey"}
Verdicts == {"AUTHORIZED", "UN_AUTHORIZED", "HEADER_MISSING", "BAD_REQUEST"}

EmptyBody == -1
Bodies == {EmptyBody, 0, 1}
Digests == Bodies \cup {2, 3}
Headers == [date : Int, digest : Digests]
Signatures == [headers : Headers, target : Uris]

ASSUME SignedRequestAssumption ==
    /\ AheadFrom \in Nat /\ AheadUntil \in Nat
    /\ Delays \subseteq Nat \ {0}
    /\ Skews \subseteq Int
    /\ MaxDelays \in Nat
    /\ None \notin Headers \cup Signatures \cup Uris \cup Keys \cup Verdicts

VARIABLES
    key,       \* what getSigningKey returned
    utf8,      \* the default charset writes the content as UTF-8 does
    pc,        \* the next step of the call
    uri,       \* its parameter uri, with the query of sendGet
    call,      \* the method called
    now,       \* the clock, in seconds
    delays,    \* how many delays there were
    skew,      \* of the other end's clock
    version,   \* the current content of postBody, which others can change
    header,    \* the headers original-date and digest, once there are any
    signature, \* the header authorization: the headers and the target signed
    body,      \* what is posted
    verdict,   \* HttpResponseEnum
    history    \* what happened meanwhile: started and sent, at which times, and
               \* whether a second passed or the content changed in between

setup == <<key, utf8>>
vars == <<setup, pc, call, uri, now, delays, skew, version, header, signature, body, verdict, history>>

Calls == {"sendPostBody", "sendPostForm", "sendGet"}
Year == 365 * 24 * 60 * 60

(* The date in the pattern of NetworkServiceImpl and generateSignature,     *)
(* whose YYYY is the year that the week belongs to, read back as a time in  *)
(* the pattern of verifySignature, whose yyyy is the year.                  *)
Format(t) == IF AheadFrom <= t /\ t < AheadUntil THEN t + Year ELSE t

Dated(date, digest) == [date |-> date, digest |-> digest]

TypeOK ==
    /\ key \in Keys \cup {None} /\ utf8 \in BOOLEAN
    /\ pc \in {"idle", "header", "sign", "send", "verify", "answered", "null", "thrown"}
    /\ call \in Calls \cup {None} /\ uri \in Uris \cup {None}
    /\ now \in Nat /\ delays \in 0..MaxDelays /\ skew \in Skews
    /\ version \in 0..1
    /\ header \in Headers \cup {None}
    /\ signature \in Signatures \cup {None}
    /\ body \in Bodies
    /\ verdict \in Verdicts \cup {None}
    /\ history \in [dated : Nat, ticked : BOOLEAN, changed : BOOLEAN]

Init ==
    /\ key \in Keys \cup {None} /\ utf8 \in BOOLEAN
    /\ pc = "idle" /\ call = None /\ uri = None
    /\ now = 0 /\ delays = 0 /\ skew \in Skews
    /\ version = 0
    /\ header = None /\ signature = None /\ body = EmptyBody
    /\ verdict = None
    /\ history = [dated |-> 0, ticked |-> FALSE, changed |-> FALSE]

Building == pc \in {"header", "sign", "send"} /\ ~(header = None /\ signature = None)

-----------------------------------------------------------------------------
(* Digests: of the bytes of the serialised body, written in the default     *)
(* charset, or of nothing.  The mutants give none for nothing, and sign a   *)
(* posted body like a form.                                                 *)
DigestOf_null(c) == IF c = "sendPostBody" THEN version ELSE None
DigestOf(c) ==
    IF c # "sendPostBody" THEN EmptyBody ELSE IF utf8 THEN version ELSE version + 2
SignedDigest_form(c) == EmptyBody
SignedDigest(c) == DigestOf(c)

(* The target of the signature is a literal in sendPostBody.                *)
SignedTarget(c, u) == IF c = "sendPostBody" THEN UpdateUri ELSE u

(* sendPostBody and sendGet date the request before they sign it,           *)
(* sendPostForm signs it first.                                             *)
Start ==
    /\ pc = "idle"
    /\ call' \in Calls /\ uri' \in Uris
    /\ pc' = IF call' = "sendPostForm" THEN "sign" ELSE "header"
    /\ UNCHANGED <<setup, now, delays, skew, version, header, signature, body, verdict, history>>

AddHeaders ==
    /\ pc = "header"
    /\ header' = Dated(Format(now), DigestOf(call))
    /\ pc' = IF call = "sendPostForm" THEN "send" ELSE "sign"
    /\ history' = [history EXCEPT !.dated = now]
    /\ UNCHANGED <<setup, call, uri, now, delays, skew, version, signature, body, verdict>>

(* The signer works in RSA_SHA256: it can be made from a private key only.  *)
GenerateSignature ==
    /\ pc = "sign" /\ key = "privateKey"
    /\ signature' = [headers |-> Dated(Format(now), SignedDigest(call)),
                     target |-> SignedTarget(call, uri)]
    /\ pc' = IF call = "sendPostForm" THEN "header" ELSE "send"
    /\ UNCHANGED <<setup, call, uri, now, delays, skew, version, header, body, verdict, history>>

(* It cannot be made from the HMAC secret, which getSigningKey returns      *)
(* unless ASYNC_SIGNATURE is set, nor from null, when the key store has no  *)
(* such alias: the constructor swallows the exception and getSigner throws  *)
(* it again, unchecked.  Only sendPostBody catches it, and returns null.    *)
SignerFails ==
    /\ pc = "sign" /\ key # "privateKey"
    /\ pc' = IF call = "sendPostBody" THEN "null" ELSE "thrown"
    /\ UNCHANGED <<setup, call, uri, now, delays, skew, version, header, signature, body,
                   verdict, history>>

(* Signing fails with an IOException.  sendPostBody gives up and returns    *)
(* null; sendGet sends the request without the signature, and sendPostForm  *)
(* without any of the headers.                                              *)
SignatureFails ==
    /\ pc = "sign" /\ key = "privateKey"
    /\ pc' = IF call = "sendPostBody" THEN "null" ELSE "send"
    /\ UNCHANGED <<setup, call, uri, now, delays, skew, version, header, signature, body,
                   verdict, history>>

(* The message converter of RestTemplate writes the content in UTF-8.       *)
Send ==
    /\ pc = "send"
    /\ body' = IF call = "sendPostBody" THEN version ELSE EmptyBody
    /\ pc' = "verify"
    /\ UNCHANGED <<setup, call, uri, now, delays, skew, version, header, signature, verdict,
                   history>>

(* Time passes, on this end or in transit. *)
Elapse ==
    /\ pc \notin {"idle", "answered", "null", "thrown"}
    /\ delays < MaxDelays
    /\ \E d \in Delays : now' = now + d
    /\ delays' = delays + 1
    /\ history' = [history EXCEPT
            !.ticked = @ \/ (Building /\ (header = None \/ signature = None))]
    /\ UNCHANGED <<setup, pc, call, uri, skew, version, header, signature, body, verdict>>

(* postBody changes under way: it is the updateDR of an authenticator.      *)
Change ==
    /\ pc \in {"header", "sign", "send"} /\ version = 0
    /\ version' = 1
    /\ history' = [history EXCEPT !.changed = @ \/ (Building /\ call = "sendPostBody")]
    /\ UNCHANGED <<setup, pc, call, uri, now, delays, skew, header, signature, body, verdict>>

-----------------------------------------------------------------------------
Distance(t, u) == IF t < u THEN u - t ELSE t - u

(* hasValidRequestTime: a difference of less than DATE_DIFF_ALLOWED         *)
(* minutes, leaving out whole hours.                                        *)
hasValidRequestTime(received, time) == (Distance(received, time) \div 60) % 60 < 5

(* areDigestsEqual, and isSignatureValid of the headers and the target of   *)
(* the request.  The mutant leaves out the target.                          *)
Matches_noTarget == header.digest = body /\ signature.headers = header
Matches == header.digest = body /\ signature = [headers |-> header, target |-> uri]

verifySignature ==
    IF signature = None THEN "UN_AUTHORIZED"
    ELSE IF header = None THEN "HEADER_MISSING"
    ELSE IF ~hasValidRequestTime(header.date, now + skew) THEN "BAD_REQUEST"
    ELSE IF Matches THEN "AUTHORIZED"
    ELSE "UN_AUTHORIZED"

Verify ==
    /\ pc = "verify"
    /\ verdict' = verifySignature
    /\ pc' = "answered"
    /\ UNCHANGED <<setup, call, uri, now, delays, skew, version, header, signature, body, history>>

Next ==
    \/ Start \/ AddHeaders \/ GenerateSignature \/ SignerFails \/ SignatureFails \/ Send
    \/ Elapse \/ Change \/ Verify
    \/ pc \in {"answered", "null", "thrown"} /\ UNCHANGED vars

Spec == Init /\ [][Next]_vars

-----------------------------------------------------------------------------
(* The other end checks the request within the allowed difference. *)
Prompt == Distance(history.dated, now + skew) < 5 * 60
Undisturbed == signature # None /\ ~history.ticked /\ ~history.changed
Ahead == AheadFrom <= history.dated /\ history.dated < AheadUntil

(* What is posted is what was signed: it goes to the uri in the signature,  *)
(* and its bytes are those of the digest.                                   *)
AsSigned == call = "sendPostBody" => uri = UpdateUri /\ utf8

(* A request whose headers and signature were computed in the same second   *)
(* from the same content, and which is checked within five minutes of its   *)
(* date by the other end's clock, is accepted - except in the last days of  *)
(* December, and except for a body that sendPostBody posts to another uri   *)
(* than /sm/updateSessionData or whose letters the default charset cannot   *)
(* write; the two computations of the headers agree, for each of the three  *)
(* methods (generateSignature, verifySignature).                            *)
PromptRequestsAreAuthorized ==
    pc = "answered" /\ Prompt /\ Undisturbed /\ ~Ahead /\ AsSigned => verdict = "AUTHORIZED"

(* What is accepted is the content, the date and the target that were       *)
(* signed: a request is refused when the second passed between the two      *)
(* computations of the date, when another login changed the content, or     *)
(* when it is posted to another uri - that of TestEsmoAuthenticator, say -  *)
(* or in other bytes than those of the digest (sendPostBody).               *)
AuthorizedAsSigned ==
    verdict = "AUTHORIZED" => Undisturbed /\ AsSigned

(* The same at any time of the year: DATE_FORMAT, in which verifySignature  *)
(* reads the date, is the format that it was written in.                    *)
DatesAreReadAsWritten ==
    pc = "answered" /\ Prompt /\ Undisturbed /\ AsSigned => verdict = "AUTHORIZED"
=============================================================================
