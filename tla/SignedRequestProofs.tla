-------------------------- MODULE SignedRequestProofs --------------------------
(***************************************************************************)
(* Proofs about SignedRequest: its types, and that a prompt request whose  *)
(* computation nothing disturbed is accepted, whatever time passes and     *)
(* however the clocks differ.                                              *)
(***************************************************************************)
EXTENDS SignedRequest, TLAPS

(* Where the control is, and which headers there are. *)
Control ==
    /\ pc = "idle" => header = None /\ signature = None
    /\ pc # "idle" => call \in Calls /\ uri \in Uris
    /\ pc = "header" => header = None /\ (call = "sendPostForm" \/ signature = None)
    /\ pc = "sign" => signature = None /\ (call = "sendPostForm" <=> header = None)
    /\ pc \in {"send", "verify", "answered"} /\ signature # None => header # None

(* The dates are those of the moments at which they were computed, and one  *)
(* moment unless a second passed.                                           *)
DatesAgree ==
    /\ header # None => header.date = Format(history.dated)
    /\ pc = "sign" /\ header # None /\ ~history.ticked => header.date = Format(now)
    /\ pc = "header" /\ signature # None /\ ~history.ticked => signature.headers.date = Format(now)
    /\ header # None /\ signature # None /\ ~history.ticked =>
        signature.headers.date = header.date

(* What is posted. *)
BodyOf(c) == IF c = "sendPostBody" THEN version ELSE EmptyBody

(* The digests and the body are those of the content, unless it changed.    *)
DigestsAgree ==
    ~history.changed =>
        /\ header # None => header.digest = DigestOf(call)
        /\ signature # None => signature.headers.digest = DigestOf(call)
        /\ pc \in {"verify", "answered"} => body = BodyOf(call)

(* The target that is signed. *)
TargetsAgree == signature # None => signature.target = SignedTarget(call, uri)

DatesNotLater == history.dated <= now

IInv ==
    /\ TypeOK
    /\ Control
    /\ DatesAgree
    /\ DigestsAgree
    /\ TargetsAgree
    /\ DatesNotLater
    /\ pc = "answered" => verdict = verifySignature

(* Dates and digests are of their types. *)
LEMMA DatedTypes ==
    ASSUME TypeOK
    PROVE  /\ Format(now) \in Int
           /\ \A c : DigestOf(c) \in Digests
           /\ \A d \in Int, g \in Digests :
                /\ Dated(d, g) \in Headers
                /\ Dated(d, g).date = d /\ Dated(d, g).digest = g
                /\ Dated(d, g) # None
<1>1. Year \in Int
  BY DEF Year
<1>2. Format(now) \in Int
  BY <1>1 DEF Format, TypeOK
<1>3. \A c : DigestOf(c) \in Digests
  BY DEF DigestOf, TypeOK, Digests, Bodies, EmptyBody
<1> QED
  BY <1>2, <1>3, SignedRequestAssumption DEF Dated, Headers

LEMMA IInvInit == Init => IInv
BY SignedRequestAssumption
   DEF Init, IInv, TypeOK, Control, DatesAgree, DigestsAgree, TargetsAgree, DatesNotLater,
       Bodies

LEMMA DatesStep == TypeOK /\ DatesNotLater /\ [Next]_vars => DatesNotLater'
<1> SUFFICES ASSUME TypeOK, DatesNotLater, [Next]_vars PROVE DatesNotLater'
  OBVIOUS
<1> USE DEF TypeOK, DatesNotLater
<1>1. CASE AddHeaders
  BY <1>1 DEF AddHeaders
<1>2. CASE Elapse
  <2>1. PICK d \in Delays : now' = now + d
    BY <1>2 DEF Elapse
  <2>2. now' \in Nat /\ now <= now'
    BY <2>1, SignedRequestAssumption
  <2> QED
    BY <1>2, <2>2 DEF Elapse
<1>3. CASE Change
  BY <1>3 DEF Change
<1>4. CASE Start \/ GenerateSignature \/ SignerFails \/ SignatureFails \/ Send \/ Verify
  BY <1>4 DEF Start, GenerateSignature, SignerFails, SignatureFails, Send, Verify
<1>5. CASE UNCHANGED vars
  BY <1>5 DEF vars
<1> QED
  BY <1>1, <1>2, <1>3, <1>4, <1>5 DEF Next

LEMMA IInvStep == IInv /\ [Next]_vars => IInv'
<1> SUFFICES ASSUME IInv, [Next]_vars PROVE IInv'
  OBVIOUS
<1> USE DEF IInv
<1>0. DatesNotLater'
  BY DatesStep
<1>1. CASE Start
  <2>1. TypeOK'
    BY <1>1 DEF Start, setup, TypeOK
  <2>2. Control' /\ DatesAgree' /\ DigestsAgree' /\ TargetsAgree' /\ pc' # "answered"
    BY <1>1 DEF Start, Control, DatesAgree, DigestsAgree, TargetsAgree, Calls
  <2> QED
    BY <1>0, <2>1, <2>2
<1>2. CASE AddHeaders
  <2>1. header' = Dated(Format(now), DigestOf(call)) /\ header' # None
        /\ header'.date = Format(now) /\ header'.digest = DigestOf(call) /\ header' \in Headers
    BY <1>2, DatedTypes DEF AddHeaders
  <2>2. history'.dated = now /\ history'.ticked = history.ticked
        /\ history'.changed = history.changed
    BY <1>2 DEF AddHeaders, TypeOK
  <2>3. Format(now)' = Format(now) /\ DigestOf(call)' = DigestOf(call)
    BY <1>2 DEF AddHeaders, setup, Format, DigestOf
  <2>4. TypeOK'
    BY <1>2, <2>1 DEF AddHeaders, setup, TypeOK
  <2>5. Control'
    BY <1>2, <2>1 DEF AddHeaders, Control, Calls
  <2>6. DatesAgree'
    BY <1>2, <2>1, <2>2, <2>3 DEF AddHeaders, DatesAgree, Control, Format
  <2>7. DigestsAgree' /\ TargetsAgree' /\ pc' # "answered"
    BY <1>2, <2>1, <2>2, <2>3 DEF AddHeaders, DigestsAgree, TargetsAgree, SignedTarget
  <2> QED
    BY <1>0, <2>4, <2>5, <2>6, <2>7
<1>3. CASE GenerateSignature
  <2>1. /\ signature' # None /\ signature' \in Signatures
        /\ signature'.headers.date = Format(now)
        /\ signature'.headers.digest = DigestOf(call)
        /\ signature'.target = SignedTarget(call, uri)
    <3>1. SignedTarget(call, uri) \in Uris
      BY <1>3 DEF GenerateSignature, Control, SignedTarget, Uris
    <3>2. \A h \in Headers, u \in Uris :
            /\ [headers |-> h, target |-> u] \in Signatures
            /\ [headers |-> h, target |-> u].headers = h
            /\ [headers |-> h, target |-> u].target = u
            /\ [headers |-> h, target |-> u] # None
      BY SignedRequestAssumption DEF Signatures
    <3> QED
      BY <1>3, <3>1, <3>2, DatedTypes DEF GenerateSignature, SignedDigest
  <2>2. UNCHANGED history /\ Format(now)' = Format(now) /\ DigestOf(call)' = DigestOf(call)
    BY <1>3 DEF GenerateSignature, setup, Format, DigestOf
  <2>3. TypeOK'
    BY <1>3, <2>1 DEF GenerateSignature, setup, TypeOK
  <2>4. Control'
    BY <1>3, <2>1 DEF GenerateSignature, Control, Calls
  <2>5. DatesAgree'
    BY <1>3, <2>1, <2>2 DEF GenerateSignature, DatesAgree, Format
  <2>6. DigestsAgree' /\ TargetsAgree' /\ pc' # "answered"
    BY <1>3, <2>1, <2>2 DEF GenerateSignature, DigestsAgree, TargetsAgree, SignedTarget
  <2> QED
    BY <1>0, <2>3, <2>4, <2>5, <2>6
<1>4. CASE SignatureFails \/ SignerFails
  BY <1>0, <1>4 DEF SignatureFails, SignerFails, setup, TypeOK, Control, DatesAgree, DigestsAgree,
              TargetsAgree, SignedTarget, Calls, Format, DigestOf
<1>5. CASE Send
  <2>1. TypeOK'
    BY <1>5 DEF Send, setup, TypeOK, Bodies, EmptyBody
  <2>2. Control' /\ DatesAgree' /\ TargetsAgree' /\ pc' # "answered"
    BY <1>5 DEF Send, Control, DatesAgree, TargetsAgree, SignedTarget, Format
  <2>3. DigestsAgree'
    BY <1>5 DEF Send, setup, DigestsAgree, DigestOf, BodyOf
  <2> QED
    BY <1>0, <2>1, <2>2, <2>3
<1>6. CASE Elapse
  <2>1. /\ UNCHANGED <<key, utf8, pc, call, uri, skew, version, header, signature, body, verdict>>
        /\ now' \in Nat /\ delays' \in 0..MaxDelays
        /\ history' \in [dated : Nat, ticked : BOOLEAN, changed : BOOLEAN]
        /\ history'.dated = history.dated /\ history'.changed = history.changed
        /\ history'.ticked = (history.ticked \/ (Building /\ (header = None \/ signature = None)))
        /\ pc # "answered"
    <3>1. now' \in Nat
      <4>1. PICK d \in Delays : now' = now + d
        BY <1>6 DEF Elapse
      <4> QED
        BY <4>1, SignedRequestAssumption DEF TypeOK
    <3>2. delays' \in 0..MaxDelays
      BY <1>6, SignedRequestAssumption DEF Elapse, TypeOK
    <3> QED
      BY <3>1, <3>2, <1>6 DEF Elapse, setup, TypeOK
  <2>2. TypeOK' /\ Control' /\ DigestsAgree' /\ TargetsAgree'
    BY <2>1 DEF TypeOK, Control, DigestsAgree, DigestOf, BodyOf, TargetsAgree, SignedTarget
  <2>3. DatesAgree'
    BY <2>1 DEF DatesAgree, Building, Control, Format
  <2> QED
    BY <1>0, <2>1, <2>2, <2>3
<1>7. CASE Change
  <2>1. /\ UNCHANGED <<key, utf8, pc, call, uri, now, delays, skew, header, signature, body, verdict>>
        /\ version' = 1 /\ pc \in {"header", "sign", "send"}
        /\ history' \in [dated : Nat, ticked : BOOLEAN, changed : BOOLEAN]
        /\ history'.dated = history.dated /\ history'.ticked = history.ticked
        /\ history'.changed = (history.changed \/ (Building /\ call = "sendPostBody"))
    BY <1>7 DEF Change, setup, TypeOK
  <2>2. TypeOK' /\ Control' /\ DatesAgree' /\ TargetsAgree'
    BY <2>1 DEF TypeOK, Control, DatesAgree, Format, TargetsAgree, SignedTarget
  <2>3. DigestsAgree'
    BY <2>1 DEF DigestsAgree, Building, DigestOf, BodyOf
  <2> QED
    BY <1>0, <2>1, <2>2, <2>3
<1>8. CASE Verify
  <2>1. UNCHANGED <<key, utf8, call, uri, now, delays, skew, version, header, signature, body, history>>
        /\ verdict' = verifySignature /\ pc = "verify" /\ pc' = "answered"
    BY <1>8 DEF Verify, setup
  <2>2. verifySignature' = verifySignature
    BY <2>1 DEF verifySignature, Matches, hasValidRequestTime, Distance
  <2>3. TypeOK'
    BY <2>1 DEF TypeOK, Verdicts, verifySignature
  <2>4. Control' /\ DatesAgree' /\ DigestsAgree' /\ TargetsAgree'
    BY <2>1 DEF Control, DatesAgree, DigestsAgree, Format, DigestOf, BodyOf,
                TargetsAgree, SignedTarget
  <2> QED
    BY <1>0, <2>1, <2>2, <2>3, <2>4
<1>9. CASE UNCHANGED vars
  <2>1. verifySignature' = verifySignature
    BY <1>9 DEF vars, setup, verifySignature, Matches, hasValidRequestTime, Distance
  <2> QED
    BY <1>0, <1>9, <2>1 DEF vars, setup, TypeOK, Control, DatesAgree, DigestsAgree, Format, DigestOf,
                      BodyOf, TargetsAgree, SignedTarget
<1> QED
  BY <1>1, <1>2, <1>3, <1>4, <1>5, <1>6, <1>7, <1>8, <1>9 DEF Next

LEMMA Invariance == Spec => []IInv
BY IInvInit, IInvStep, PTL DEF Spec

(* Every variable keeps to its type. *)
THEOREM TypeCorrect == Spec => []TypeOK
<1>1. IInv => TypeOK
  BY DEF IInv
<1> QED
  BY <1>1, Invariance, PTL

(* A request that nothing disturbed is accepted if it arrives in time, but  *)
(* for the last days of December, for another uri and for letters beyond    *)
(* the default charset (generateSignature, verifySignature).                *)
THEOREM PromptAuthorized == Spec => []PromptRequestsAreAuthorized
<1>1. IInv => PromptRequestsAreAuthorized
  <2> SUFFICES ASSUME IInv, pc = "answered", Prompt, Undisturbed, ~Ahead, AsSigned
               PROVE  verdict = "AUTHORIZED"
    BY DEF PromptRequestsAreAuthorized
  <2>1. header # None /\ signature # None /\ call \in Calls
    BY DEF IInv, Control, Undisturbed
  <2>2. header \in Headers /\ signature \in Signatures
    BY <2>1 DEF IInv, TypeOK
  <2>3. header.date = history.dated
    BY <2>1 DEF IInv, DatesAgree, Format, Ahead
  <2>4. /\ header.date = signature.headers.date
        /\ header.digest = signature.headers.digest
    BY <2>1 DEF IInv, DatesAgree, DigestsAgree, Undisturbed
  <2>5. signature.target = uri
    BY <2>1 DEF IInv, TargetsAgree, SignedTarget, AsSigned
  <2>6. header.digest = body
    <3>1. DigestOf(call) = BodyOf(call)
      BY DEF DigestOf, BodyOf, AsSigned
    <3> QED
      BY <3>1, <2>1 DEF IInv, DigestsAgree, Undisturbed
  <2>7. signature = [headers |-> header, target |-> uri]
    <3>1. \A h \in Headers : h = [date |-> h.date, digest |-> h.digest]
      BY DEF Headers
    <3>2. \A g \in Signatures : g = [headers |-> g.headers, target |-> g.target]
                                /\ g.headers \in Headers
      BY DEF Signatures
    <3>3. signature.headers = header
      BY <3>1, <3>2, <2>2, <2>4
    <3> QED
      BY <3>2, <3>3, <2>2, <2>5
  <2>8. hasValidRequestTime(header.date, now + skew)
    <3>1. history.dated \in Nat /\ now + skew \in Int
      BY SignedRequestAssumption DEF IInv, TypeOK
    <3>2. Distance(history.dated, now + skew) \in 0..299
      BY <3>1 DEF Prompt, Distance
    <3>3. \A d \in 0..299 : (d \div 60) % 60 < 5
      OBVIOUS
    <3> QED
      BY <3>2, <3>3, <2>3 DEF hasValidRequestTime
  <2> QED
    BY <2>1, <2>6, <2>7, <2>8 DEF IInv, verifySignature, Matches
<1> QED
  BY <1>1, Invariance, PTL

-----------------------------------------------------------------------------
(* Whatever came between the two computations has left its trace in them. *)
TicksShow ==
    history.ticked =>
        /\ header # None \/ signature # None
        /\ header # None /\ signature = None => history.dated < now
        /\ header = None /\ signature # None =>
            \E t \in Nat : t < now /\ signature.headers.date = Format(t)
        /\ header # None /\ signature # None =>
            \E t, u \in Nat :
                /\ t < u /\ u <= now
                /\ {header.date, signature.headers.date} = {Format(t), Format(u)}

ChangesShow ==
    /\ call = "sendPostBody" /\ header # None =>
        header.digest \in IF utf8 THEN {0, 1} ELSE {2, 3}
    /\ history.changed =>
        /\ call = "sendPostBody" /\ version = 1
        /\ header # None /\ header.digest \in {0, 2}
        /\ pc \in {"verify", "answered"} => body = 1

TraceInv ==
    /\ TicksShow
    /\ ChangesShow
    /\ pc # "answered" => verdict = None

LEMMA TraceInvInit == Init => TraceInv
BY DEF Init, TraceInv, TicksShow, ChangesShow

LEMMA TraceInvStep == IInv /\ TraceInv /\ [Next]_vars => TraceInv'
<1> SUFFICES ASSUME IInv, TraceInv, [Next]_vars PROVE TraceInv'
  OBVIOUS
<1> USE DEF TraceInv
<1>1. CASE Start
  BY <1>1 DEF Start, IInv, Control, TicksShow, ChangesShow
<1>2. CASE AddHeaders
  <2>1. /\ header' # None /\ header'.date = Format(now) /\ header'.digest = DigestOf(call)
        /\ header = None /\ UNCHANGED <<key, utf8, call, now, version, signature, verdict>>
        /\ history'.dated = now /\ history'.ticked = history.ticked
        /\ history'.changed = history.changed /\ pc' \in {"sign", "send"}
    BY <1>2, DatedTypes DEF AddHeaders, setup, IInv, TypeOK, Control
  <2>2. TicksShow'
    <3>1. SUFFICES ASSUME history.ticked, signature # None
                   PROVE  \E t, u \in Nat :
                            /\ t < u /\ u <= now
                            /\ {header'.date, signature.headers.date} = {Format(t), Format(u)}
      BY <2>1 DEF IInv, Control, TicksShow, Format
    <3>2. PICK t \in Nat : t < now /\ signature.headers.date = Format(t)
      BY <2>1, <3>1 DEF TicksShow
    <3>3. now \in Nat /\ {header'.date, signature.headers.date} = {Format(t), Format(now)}
      BY <2>1, <3>2 DEF IInv, TypeOK
    <3> QED
      BY <3>2, <3>3
  <2>3. ChangesShow'
    BY <2>1 DEF ChangesShow, DigestOf, IInv, TypeOK
  <2> QED
    BY <2>1, <2>2, <2>3, <1>2 DEF AddHeaders
<1>3. CASE GenerateSignature
  <2>1. /\ signature' # None /\ signature'.headers.date = Format(now)
        /\ signature = None /\ pc' \in {"header", "send"}
        /\ UNCHANGED <<key, utf8, call, now, version, header, verdict, history, body>>
    <3>1. \A h \in Headers, u \in Uris :
            /\ [headers |-> h, target |-> u].headers = h
            /\ [headers |-> h, target |-> u] # None
      BY SignedRequestAssumption DEF Signatures
    <3>2. SignedTarget(call, uri) \in Uris
      BY <1>3 DEF GenerateSignature, IInv, Control, SignedTarget, Uris
    <3> QED
      BY <1>3, <3>1, <3>2, DatedTypes DEF GenerateSignature, SignedDigest, setup, IInv, Control
  <2>2. TicksShow'
    <3>1. SUFFICES ASSUME history.ticked, header # None
                   PROVE  \E t, u \in Nat :
                            /\ t < u /\ u <= now
                            /\ {header.date, signature'.headers.date} = {Format(t), Format(u)}
      BY <1>3, <2>1 DEF GenerateSignature, IInv, Control, TicksShow, Format
    <3>2. history.dated < now /\ header.date = Format(history.dated)
      BY <2>1, <3>1 DEF TicksShow, IInv, DatesAgree
    <3>3. now \in Nat /\ history.dated \in Nat
      BY DEF IInv, TypeOK
    <3>4. {header.date, signature'.headers.date} = {Format(history.dated), Format(now)}
      BY <2>1, <3>2
    <3> QED
      BY <3>2, <3>3, <3>4
  <2>3. ChangesShow'
    BY <2>1 DEF ChangesShow
  <2> QED
    BY <2>1, <2>2, <2>3, <1>3 DEF GenerateSignature
<1>4. CASE SignatureFails \/ SignerFails
  <2>1. /\ UNCHANGED <<key, utf8, call, now, version, header, signature, body, verdict, history>>
        /\ pc = "sign" /\ pc' \in {"null", "thrown", "send"}
    BY <1>4 DEF SignatureFails, SignerFails, setup
  <2>2. TicksShow'
    BY <2>1 DEF TicksShow, Format
  <2>3. ChangesShow'
    BY <2>1 DEF ChangesShow
  <2> QED
    BY <2>1, <2>2, <2>3
<1>5. CASE Send
  <2>1. /\ UNCHANGED <<key, utf8, call, now, version, header, signature, verdict, history>>
        /\ pc' = "verify"
        /\ call = "sendPostBody" => body' = version
    BY <1>5 DEF Send, setup
  <2>2. TicksShow'
    BY <2>1 DEF TicksShow, Format
  <2>3. ChangesShow'
    BY <2>1 DEF ChangesShow
  <2> QED
    BY <2>1, <2>2, <2>3, <1>5 DEF Send
<1>6. CASE Elapse
  <2>1. /\ UNCHANGED <<key, utf8, pc, call, version, header, signature, body, verdict>>
        /\ now \in Nat /\ now' \in Nat /\ now < now'
        /\ history.dated \in Nat /\ history'.dated = history.dated
        /\ history'.changed = history.changed
        /\ history'.ticked = (history.ticked \/ (Building /\ (header = None \/ signature = None)))
    <3>1. PICK d \in Delays : now' = now + d
      BY <1>6 DEF Elapse
    <3>2. now' \in Nat /\ now < now'
      BY <3>1, SignedRequestAssumption DEF IInv, TypeOK
    <3> QED
      BY <1>6, <3>2 DEF Elapse, setup, IInv, TypeOK
  <2>2. TicksShow'
    <3> SUFFICES ASSUME history'.ticked PROVE TicksShow'
      BY DEF TicksShow
    <3>1. CASE header # None /\ signature = None
      <4>1. history.dated <= now
        BY <3>1 DEF IInv, DatesNotLater
      <4> QED
        BY <2>1, <3>1, <4>1 DEF TicksShow
    <3>2. CASE header = None /\ signature # None
      <4>1. \E t \in Nat : t < now' /\ signature.headers.date = Format(t)
        <5>1. CASE history.ticked
          <6>1. PICK t \in Nat : t < now /\ signature.headers.date = Format(t)
            BY <3>2, <5>1 DEF TicksShow
          <6>2. t < now'
            BY <6>1, <2>1
          <6> QED
            BY <6>1, <6>2
        <5>2. CASE ~history.ticked
          <6>1. pc = "header"
            BY <3>2, <5>2, <2>1 DEF Building, IInv, Control
          <6>2. signature.headers.date = Format(now)
            BY <6>1, <3>2, <5>2 DEF IInv, DatesAgree
          <6> QED
            BY <6>2, <2>1
        <5> QED
          BY <5>1, <5>2
      <4>2. PICK t \in Nat : t < now' /\ signature.headers.date = Format(t)
        BY <4>1
      <4> QED
        BY <4>2, <2>1, <3>2 DEF TicksShow, Format
    <3>3. CASE header # None /\ signature # None
      <4>1. history.ticked
        BY <2>1, <3>3
      <4>2. PICK t \in Nat, u \in Nat :
                /\ t < u /\ u <= now
                /\ {header.date, signature.headers.date} = {Format(t), Format(u)}
        BY <3>3, <4>1 DEF TicksShow
      <4>3. u <= now'
        BY <4>2, <2>1
      <4> QED
        BY <4>2, <4>3, <2>1, <3>3 DEF TicksShow, Format
    <3>4. CASE header = None /\ signature = None
      BY <3>4, <2>1 DEF TicksShow, Building
    <3> QED
      BY <3>1, <3>2, <3>3, <3>4
  <2>3. ChangesShow'
    BY <2>1 DEF ChangesShow
  <2> QED
    BY <2>1, <2>2, <2>3
<1>7. CASE Change
  <2>1. /\ UNCHANGED <<key, utf8, pc, call, now, header, signature, body, verdict>>
        /\ version = 0 /\ version' = 1 /\ pc \in {"header", "sign", "send"}
        /\ history'.dated = history.dated /\ history'.ticked = history.ticked
        /\ history'.changed = (history.changed \/ (Building /\ call = "sendPostBody"))
    BY <1>7 DEF Change, setup, IInv, TypeOK
  <2>2. TicksShow'
    BY <2>1 DEF TicksShow, Format
  <2>3. ChangesShow'
    <3>1. ~history.changed
      BY <2>1 DEF ChangesShow
    <3>2. Building /\ call = "sendPostBody" => header # None
      BY <2>1 DEF Building, IInv, Control
    <3>3. call = "sendPostBody" /\ header # None => header.digest \in {0, 2}
      BY <2>1, <3>1 DEF IInv, DigestsAgree, DigestOf
    <3> QED
      BY <2>1, <3>1, <3>2, <3>3 DEF ChangesShow
  <2> QED
    BY <2>1, <2>2, <2>3
<1>8. CASE Verify
  <2>1. UNCHANGED <<key, utf8, call, now, version, header, signature, body, history>>
        /\ pc = "verify" /\ pc' = "answered"
    BY <1>8 DEF Verify, setup
  <2> QED
    BY <2>1 DEF TicksShow, ChangesShow, Format
<1>9. CASE UNCHANGED vars
  BY <1>9 DEF vars, setup, TicksShow, ChangesShow, Format
<1> QED
  BY <1>1, <1>2, <1>3, <1>4, <1>5, <1>6, <1>7, <1>8, <1>9 DEF Next

(* Two dates less than a year apart are written differently. *)
LEMMA DatesDiffer ==
    ASSUME NEW t \in Nat, NEW u \in Nat, t < u, u < AheadFrom + Year
    PROVE  Format(t) # Format(u)
BY SignedRequestAssumption DEF Format, Year

(* Only what was signed is accepted, of any call that takes less than the   *)
(* year by which a date can be ahead (sendPostBody, generateSignature,      *)
(* verifySignature).                                                        *)
THEOREM OnlyAsSigned == Spec /\ [](now < AheadFrom + Year) => []AuthorizedAsSigned
<1>1. IInv /\ TraceInv /\ now < AheadFrom + Year => AuthorizedAsSigned
  <2> SUFFICES ASSUME IInv, TraceInv, now < AheadFrom + Year, verdict = "AUTHORIZED"
               PROVE  Undisturbed /\ AsSigned
    BY DEF AuthorizedAsSigned
  <2>1. pc = "answered" /\ verifySignature = "AUTHORIZED"
    BY SignedRequestAssumption DEF TraceInv, IInv, Verdicts
  <2>2. /\ signature # None /\ header # None /\ header.digest = body
        /\ signature = [headers |-> header, target |-> uri]
    BY <2>1 DEF verifySignature, Matches
  <2>3. ~history.ticked
    <3> SUFFICES ASSUME history.ticked PROVE FALSE
      OBVIOUS
    <3>1. PICK t \in Nat, u \in Nat :
                /\ t < u /\ u <= now
                /\ {header.date, signature.headers.date} = {Format(t), Format(u)}
      BY <2>2 DEF TraceInv, TicksShow
    <3>2. header.date = signature.headers.date
      BY <2>2
    <3>3. now \in Nat /\ AheadFrom + Year \in Nat
      BY SignedRequestAssumption DEF IInv, TypeOK, Year
    <3>4. u < AheadFrom + Year
      BY <3>1, <3>3
    <3>5. Format(t) # Format(u)
      BY <3>1, <3>4, DatesDiffer
    <3> QED
      BY <3>1, <3>2, <3>5
  <2>4. ~history.changed
    BY <2>1, <2>2 DEF TraceInv, ChangesShow
  <2>5. AsSigned
    <3> SUFFICES ASSUME call = "sendPostBody" PROVE uri = UpdateUri /\ utf8
      BY DEF AsSigned
    <3>1. uri = UpdateUri
      BY <2>2 DEF IInv, TargetsAgree, SignedTarget
    <3>2. body \in Bodies /\ header.digest \in IF utf8 THEN {0, 1} ELSE {2, 3}
      BY <2>2 DEF IInv, TypeOK, TraceInv, ChangesShow
    <3> QED
      BY <2>2, <3>1, <3>2 DEF Bodies, EmptyBody, IInv, TypeOK
  <2> QED
    BY <2>2, <2>3, <2>4, <2>5 DEF Undisturbed
<1>2. Spec => []TraceInv
  BY Invariance, TraceInvInit, TraceInvStep, PTL DEF Spec
<1> QED
  BY <1>1, <1>2, Invariance, PTL
=============================================================================
