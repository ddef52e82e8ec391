------------------------- MODULE AttributeExchangeProofs -------------------------
(***************************************************************************)
(* Proofs about AttributeExchange: whatever the attributes, and whatever   *)
(* the sources return, asked for or not and however often, values reach    *)
(* the fields of the attributes they are of.                               *)
(***************************************************************************)
EXTENDS AttributeExchange, TLAPS

(* What a source can return, at position n of the answer.                   *)
ReturnedOK(at, n) ==
    /\ at.claim \in Claims
    /\ at.name \in {AttName(at.claim), None} \cup Strange
    /\ at.friendlyName \in {AttFriendlyName(at.claim)} \cup Strange
    /\ at.value \in {n, None, Missing}

AskedOK == \A t \in asked : t.claim \in Claims /\ t = Type(t.claim)

LastReturn(a, i) == i \in Returns(a) /\ \A j \in Returns(a) : j <= i

(* Why a login ended as it did.                                             *)
EndingOK ==
    /\ ending = "user" => fields[PersonIdentifier] # None
    /\ ending = "exception" =>
          fields[PersonIdentifier] = None \/ \E i \in DOMAIN answer : answer[i].value = Missing

(* Besides the types: of finitely many returns of an attribute one is the   *)
(* last, and it is the one in the field of that attribute.                  *)
ExchangeInv ==
    /\ TypeOK /\ AskedOK
    /\ \A n \in DOMAIN answer : ReturnedOK(answer[n], n)
    /\ \A a \in Attributes : Returns(a) # {} => \E i \in Returns(a) : LastReturn(a, i)
    /\ ReturnsReachTheirFields
    /\ EndingOK

-----------------------------------------------------------------------------
(* What a request and an answer are made of. *)

LEMMA TypesOfClaims ==
    ASSUME NEW c \in Claims
    PROVE  /\ Type(c) \in [claim : Claims, name : Attributes \cup {None},
                           friendlyName : Attributes \cup {None}]
           /\ Type(c).claim = c /\ Type(c).name = AttName(c)
           /\ Type(c).friendlyName = AttFriendlyName(c)
BY DEF Type, AttName, AttFriendlyName, Claims

LEMMA ReturnedTypes ==
    ASSUME NEW n \in 1..MaxReturned, NEW at \in Returned(n)
    PROVE  /\ ReturnedOK(at, n)
           /\ at \in [claim : Claims, name : Attributes \cup Strange \cup {None},
                      friendlyName : Attributes \cup Strange \cup {None},
                      value : 1..MaxReturned \cup {None, Missing}]
<1>1. PICK c \in Claims : at \in [claim : {c}, name : {AttName(c), None} \cup Strange,
                                  friendlyName : {AttFriendlyName(c)} \cup Strange,
                                  value : {n, None, Missing}]
  BY DEF Returned
<1>2. AttName(c) \in Attributes \cup {None} /\ AttFriendlyName(c) \in Attributes \cup {None}
  BY DEF AttName, AttFriendlyName
<1>3. ReturnedOK(at, n)
  BY <1>1 DEF ReturnedOK
<1> QED
  BY <1>1, <1>2, <1>3

(* The field that an attribute reaches is that of its claim, and it reaches *)
(* one unless one of its names was replaced, or the friendly name dropped.  *)
LEMMA MatchesItsClaim ==
    ASSUME NEW at, NEW n, ReturnedOK(at, n), NEW a \in Attributes
    PROVE  Matches(at, a) <=> at.claim = a /\ at.friendlyName = a /\ at.name \in {a, None}
<1>1. a # None /\ a # Unknown /\ a \notin Strange
  BY AttributeExchangeAssumption
<1>2. ASSUME at.friendlyName = a PROVE at.claim = a
  BY <1>1, <1>2 DEF ReturnedOK, AttFriendlyName
<1> QED
  BY <1>2 DEF Matches

-----------------------------------------------------------------------------
LEMMA ExchangeInit == Init => ExchangeInv
<1> SUFFICES ASSUME Init PROVE ExchangeInv
  OBVIOUS
<1>1. DOMAIN answer = {} /\ Len(answer) = 0
  BY DEF Init
<1>2. TypeOK
  <2>1. asked = {} /\ answer = << >> /\ ending = "none" /\ sent = FALSE /\ MaxReturned \in Nat
    BY AttributeExchangeAssumption DEF Init
  <2>2. fields \in [Attributes -> 1..MaxReturned \cup {None}]
    BY DEF Init
  <2>3. \A S : << >> \in Seq(S)
    OBVIOUS
  <2>4. Len(answer) <= MaxReturned
    BY <1>1, <2>1
  <2> QED
    BY <2>1, <2>2, <2>3, <2>4 DEF TypeOK
<1>3. \A a \in Attributes : Returns(a) = {} /\ fields[a] = None
  BY <1>1 DEF Init, Returns
<1> QED
  BY <1>1, <1>2, <1>3 DEF Init, ExchangeInv, AskedOK, ReturnsReachTheirFields, EndingOK

(* As long as the answer and the fields stay, so do the facts about them.   *)
LEMMA AnswerStays ==
    ASSUME ExchangeInv, UNCHANGED <<answer, fields>>
    PROVE  /\ \A n \in DOMAIN answer' : ReturnedOK(answer[n], n)'
           /\ \A a \in Attributes : Returns(a)' # {} => \E i \in Returns(a)' : LastReturn(a, i)'
           /\ ReturnsReachTheirFields'
<1>1. \A a \in Attributes : Returns(a)' = Returns(a)
  BY DEF Returns
<1>2. \A n \in DOMAIN answer' : ReturnedOK(answer[n], n)'
  BY DEF ExchangeInv, ReturnedOK
<1>3. \A a \in Attributes : Returns(a)' # {} => \E i \in Returns(a)' : LastReturn(a, i)'
  BY <1>1 DEF ExchangeInv, LastReturn
<1>4. ASSUME NEW a \in Attributes
      PROVE  fields'[a] = IF Returns(a)' = {} THEN None
                          ELSE answer'[CHOOSE i \in Returns(a)' : \A j \in Returns(a)' : j <= i].value
  <2>1. fields[a] = IF Returns(a) = {} THEN None
                    ELSE answer[CHOOSE i \in Returns(a) : \A j \in Returns(a) : j <= i].value
    BY DEF ExchangeInv, ReturnsReachTheirFields
  <2> QED
    BY <1>1, <2>1
<1> QED
  BY <1>2, <1>3, <1>4 DEF ReturnsReachTheirFields

LEMMA AskStep == ExchangeInv /\ Ask => ExchangeInv'
<1> SUFFICES ASSUME ExchangeInv, Ask PROVE ExchangeInv'
  OBVIOUS
<1>1. UNCHANGED <<answer, fields, ending>> /\ sent' = TRUE
  BY DEF Ask
<1>2. \A t \in asked' : \E c \in Claims : t = Type(c)
  BY AttributeExchangeAssumption DEF Ask, AllTypes, TypesByClaims, EidasTypes, Claims
<1>3. AskedOK'
  BY <1>2, TypesOfClaims DEF AskedOK
<1>4. TypeOK'
  BY <1>1, <1>2, TypesOfClaims DEF ExchangeInv, TypeOK
<1>5. EndingOK'
  BY <1>1 DEF ExchangeInv, EndingOK
<1> QED
  BY <1>1, <1>3, <1>4, <1>5, AnswerStays DEF ExchangeInv

LEMMA NameStep == ExchangeInv /\ NameUser => ExchangeInv'
<1> SUFFICES ASSUME ExchangeInv, NameUser PROVE ExchangeInv'
  OBVIOUS
<1>1. UNCHANGED <<sent, asked, answer, fields>>
  BY DEF NameUser
<1>2. EndingOK'
  BY DEF NameUser, EndingOK
<1>3. TypeOK' /\ AskedOK'
  BY DEF NameUser, ExchangeInv, TypeOK, AskedOK
<1> QED
  BY <1>1, <1>2, <1>3, AnswerStays DEF ExchangeInv

(* One attribute more: it counts as the last return of the attribute it     *)
(* matches, and as none of any other.                                       *)
LEMMA ProcessStep == ExchangeInv /\ ProcessAttribute => ExchangeInv'
<1> SUFFICES ASSUME ExchangeInv, ProcessAttribute PROVE ExchangeInv'
  OBVIOUS
<1>t. TypeOK /\ AskedOK
  BY DEF ExchangeInv
<1> DEFINE n == Len(answer) + 1
<1> DEFINE Sent == [claim : Claims, name : Attributes \cup Strange \cup {None},
                    friendlyName : Attributes \cup Strange \cup {None},
                    value : 1..MaxReturned \cup {None, Missing}]
<1>1. n \in 1..MaxReturned
  BY <1>t, AttributeExchangeAssumption DEF ProcessAttribute, TypeOK
<1>2. PICK at \in Returned(n) :
          LET matching == {a \in Attributes : Matches(at, a)}
              throws == matching # {} /\ at.value = Missing IN
          /\ answer' = Append(answer, at)
          /\ ending' = IF throws THEN "exception" ELSE "none"
          /\ fields' = IF throws THEN fields
                       ELSE [a \in Attributes |-> IF a \in matching THEN at.value ELSE fields[a]]
  BY DEF ProcessAttribute
<1>3. ReturnedOK(at, n) /\ at \in Sent
  BY <1>1, ReturnedTypes
<1>4. asked' = asked /\ sent' = sent /\ ending = "none"
  BY DEF ProcessAttribute
<1>5. /\ answer' \in Seq(Sent) /\ Len(answer') = n /\ answer'[n] = at
      /\ DOMAIN answer = 1..Len(answer) /\ DOMAIN answer' = 1..n
      /\ \A i \in DOMAIN answer : answer'[i] = answer[i]
  BY <1>t, <1>2, <1>3 DEF TypeOK
<1>6. \A a \in Attributes :
        Matches(at, a) <=> at.claim = a /\ at.friendlyName = a /\ at.name \in {a, None}
  BY <1>3, MatchesItsClaim
<1>7. at.value = Missing \/ at.value \in 1..MaxReturned \cup {None}
  BY <1>3
<1> DEFINE Throws == (\E a \in Attributes : Matches(at, a)) /\ at.value = Missing
<1>8. /\ Throws => fields' = fields /\ ending' = "exception"
      /\ ~Throws => /\ ending' = "none"
                    /\ fields' = [a \in Attributes |-> IF Matches(at, a) THEN at.value ELSE fields[a]]
  BY <1>2
<1>9. TypeOK'
  <2>1. fields' \in [Attributes -> 1..MaxReturned \cup {None}]
    <3>1. CASE Throws
      BY <1>t, <1>8, <3>1 DEF TypeOK
    <3>2. CASE ~Throws
      BY <1>t, <1>7, <1>8, <3>2 DEF TypeOK
    <3> QED
      BY <3>1, <3>2
  <2>2. ending' \in {"none", "user", "exception"}
    BY <1>8
  <2> QED
    BY <1>t, <1>1, <1>4, <1>5, <2>1, <2>2 DEF TypeOK
<1>10. \A i \in DOMAIN answer' : ReturnedOK(answer[i], i)'
  <2>1. \A i \in DOMAIN answer : ReturnedOK(answer[i], i)
    BY DEF ExchangeInv
  <2>2. DOMAIN answer' = DOMAIN answer \cup {n}
    BY <1>t, <1>5 DEF TypeOK
  <2> HIDE DEF n
  <2> QED
    BY <1>3, <1>5, <2>1, <2>2 DEF ReturnedOK
<1>11. ASSUME NEW a \in Attributes
       PROVE  Returns(a)' = IF Matches(at, a) /\ at.value # Missing
                            THEN Returns(a) \cup {n} ELSE Returns(a)
  BY <1>5, <1>6, <1>11 DEF Returns
<1>12. \A a \in Attributes : Returns(a) \subseteq 1..Len(answer) /\ Len(answer) \in Nat
  BY <1>t, <1>5 DEF Returns, TypeOK
<1>13. ASSUME NEW a \in Attributes, Returns(a)' # {}
       PROVE  \E i \in Returns(a)' : LastReturn(a, i)'
  <2>1. CASE Matches(at, a) /\ at.value # Missing
    <3>1. n \in Returns(a)' /\ \A j \in Returns(a)' : j <= n
      BY <1>11, <1>12, <2>1
    <3> QED
      BY <3>1 DEF LastReturn
  <2>2. CASE ~(Matches(at, a) /\ at.value # Missing)
    <3>1. Returns(a)' = Returns(a)
      BY <1>11, <2>2
    <3> QED
      BY <1>13, <3>1 DEF ExchangeInv, LastReturn
  <2> QED
    BY <2>1, <2>2
<1>14. ASSUME NEW a \in Attributes
       PROVE  fields'[a] = IF Returns(a)' = {} THEN None
                           ELSE answer'[CHOOSE i \in Returns(a)' : \A j \in Returns(a)' : j <= i].value
  <2>1. CASE Matches(at, a) /\ at.value # Missing
    <3>1. Returns(a)' = Returns(a) \cup {n} /\ fields'[a] = at.value
      BY <1>8, <1>11, <2>1
    <3>2. n \in Returns(a)' /\ \A j \in Returns(a)' : j <= n
      BY <1>12, <3>1
    <3>3. \A i \in Returns(a)' : (\A j \in Returns(a)' : j <= i) => i = n
      <4>1. n \in Nat /\ \A i \in Returns(a)' : i \in Nat
        BY <1>12, <3>1
      <4> HIDE DEF n
      <4> QED
        BY <3>2, <4>1
    <3>4. (CHOOSE i \in Returns(a)' : \A j \in Returns(a)' : j <= i) = n
      BY <3>2, <3>3
    <3> QED
      BY <1>5, <3>1, <3>2, <3>4
  <2>2. CASE ~(Matches(at, a) /\ at.value # Missing)
    <3>1. Returns(a)' = Returns(a)
      BY <1>11, <2>2
    <3>2. fields'[a] = fields[a]
      BY <1>t, <1>8, <2>2 DEF TypeOK
    <3>3. Returns(a) # {} =>
            (CHOOSE i \in Returns(a) : \A j \in Returns(a) : j <= i) \in DOMAIN answer
      BY <1>14 DEF ExchangeInv, LastReturn, Returns
    <3> QED
      BY <1>5, <1>14, <3>1, <3>2, <3>3 DEF ExchangeInv, ReturnsReachTheirFields
  <2> QED
    BY <2>1, <2>2
<1>15. EndingOK'
  <2>1. n \in DOMAIN answer' /\ answer'[n] = at
    BY <1>1, <1>5
  <2> QED
    BY <1>8, <2>1 DEF EndingOK
<1> QED
  BY <1>t, <1>4, <1>9, <1>10, <1>13, <1>14, <1>15
  DEF ExchangeInv, AskedOK, ReturnsReachTheirFields

LEMMA ExchangeInvariant == Spec => []ExchangeInv
<1>1. ASSUME ExchangeInv, UNCHANGED vars PROVE ExchangeInv'
  <2>1. UNCHANGED <<sent, asked, answer, fields, ending>>
    BY <1>1 DEF vars
  <2>2. TypeOK' /\ AskedOK' /\ EndingOK'
    BY <1>1, <2>1 DEF ExchangeInv, TypeOK, AskedOK, EndingOK
  <2> QED
    BY <1>1, <2>1, <2>2, AnswerStays DEF ExchangeInv
<1>2. ExchangeInv /\ [Next]_vars => ExchangeInv'
  BY <1>1, AskStep, NameStep, ProcessStep DEF Next
<1> QED
  BY ExchangeInit, <1>2, PTL DEF Spec

-----------------------------------------------------------------------------
(* Every variable has its type, whatever the attributes are.                *)
THEOREM TypeCorrect == Spec => []TypeOK
<1>1. ExchangeInv => TypeOK
  BY DEF ExchangeInv
<1> QED
  BY <1>1, ExchangeInvariant, PTL

(* Whatever was asked for, every value that a source returns for an         *)
(* attribute reaches the field of that attribute and no other, and the last *)
(* of several wins (resolveAttName, resolveAttFriendlyName,                 *)
(* processAttributes).                                                      *)
THEOREM ReturnsReach == Spec => []ReturnsReachTheirFields
<1>1. ExchangeInv => ReturnsReachTheirFields
  BY DEF ExchangeInv
<1> QED
  BY <1>1, ExchangeInvariant, PTL

(* When all that was asked for came back as asked, a value is in a field    *)
(* exactly if the attribute was asked for.                                  *)
LEMMA FilledAsAsked ==
    ASSUME ExchangeInv, AnsweredAsAsked, NEW a \in Attributes
    PROVE  fields[a] # None <=> \E t \in asked : t.claim = a
<1>t. TypeOK /\ AskedOK
  BY DEF ExchangeInv
<1>1. a \in Claims /\ AttName(a) = a /\ AttFriendlyName(a) = a
  BY DEF Claims, AttName, AttFriendlyName
<1>2. ASSUME NEW i \in DOMAIN answer
      PROVE  /\ i \in 1..MaxReturned /\ answer[i].value = i /\ i # None /\ i # Missing
             /\ \E t \in asked : t.claim = answer[i].claim
             /\ answer[i].claim = a => answer[i].name = a /\ answer[i].friendlyName = a
  <2>1. PICK t \in asked : answer[i] = [claim |-> t.claim, name |-> t.name,
                                        friendlyName |-> t.friendlyName, value |-> i]
    BY DEF AnsweredAsAsked
  <2>2. i \in 1..MaxReturned
    BY <1>t, AttributeExchangeAssumption DEF TypeOK
  <2>3. t.claim = a => t.name = a /\ t.friendlyName = a
    BY <1>t, <1>1, TypesOfClaims DEF AskedOK
  <2> QED
    BY <2>1, <2>2, <2>3, AttributeExchangeAssumption
<1>3. Returns(a) = {i \in DOMAIN answer : answer[i].claim = a}
  BY <1>2 DEF Returns
<1>4. Returns(a) = {} <=> ~\E t \in asked : t.claim = a
  BY <1>2, <1>3 DEF AnsweredAsAsked
<1>5. ASSUME Returns(a) # {} PROVE fields[a] # None
  <2>1. (CHOOSE i \in Returns(a) : \A j \in Returns(a) : j <= i) \in DOMAIN answer
    BY <1>5 DEF ExchangeInv, LastReturn, Returns
  <2>2. fields[a] = answer[CHOOSE i \in Returns(a) : \A j \in Returns(a) : j <= i].value
    BY <1>5 DEF ExchangeInv, ReturnsReachTheirFields
  <2>3. \A i \in DOMAIN answer : answer[i].value # None
    BY <1>2
  <2> QED
    BY <2>1, <2>2, <2>3
<1> QED
  BY <1>4, <1>5 DEF ExchangeInv, ReturnsReachTheirFields

(* From sources that do as they are told a login gets what it asked for and *)
(* no more, and when it ends, it ends with a user exactly if it asked for   *)
(* the person identifier (prepareTypesByClaims, authenticateImpl).          *)
THEOREM AskedIsGot == Spec => []GetsWhatItAskedFor
<1>1. ExchangeInv => GetsWhatItAskedFor
  <2> SUFFICES ASSUME ExchangeInv, AnsweredAsAsked PROVE GetsWhatItAskedFor
    BY DEF GetsWhatItAskedFor
  <2>1. \A i \in DOMAIN answer : answer[i].value # Missing
    <3>1. ASSUME NEW i \in DOMAIN answer PROVE answer[i].value = i /\ i \in 1..MaxReturned
      BY AttributeExchangeAssumption DEF AnsweredAsAsked, ExchangeInv, TypeOK
    <3> QED
      BY <3>1, AttributeExchangeAssumption
  <2>2. PersonIdentifier \in Attributes
    BY AttributeExchangeAssumption
  <2> QED
    BY <2>1, <2>2, FilledAsAsked DEF GetsWhatItAskedFor, ExchangeInv, EndingOK
<1> QED
  BY <1>1, ExchangeInvariant, PTL

-----------------------------------------------------------------------------
(* Sorting implements ClaimSorting. *)

HeardBar == [i \in DOMAIN answer |-> [of |-> answer[i].claim, value |-> answer[i].value]]

LEMMA SortingInit == Init => Sorting!Init
<1> SUFFICES ASSUME Init PROVE Sorting!Init
  OBVIOUS
<1>1. HeardBar = << >>
  BY DEF Init, HeardBar
<1> QED
  BY <1>1 DEF Init, Sorting!Init, HeardBar

(* One attribute more is one thing more that is heard.                      *)
LEMMA HeardGrows ==
    ASSUME TypeOK, NEW at \in [claim : Claims, name : Attributes \cup Strange \cup {None},
                               friendlyName : Attributes \cup Strange \cup {None},
                               value : 1..MaxReturned \cup {None, Missing}],
           answer' = Append(answer, at)
    PROVE  HeardBar' = Append(HeardBar, [of |-> at.claim, value |-> at.value])
<1> DEFINE n == Len(answer)
<1> DEFINE Things == [of : Claims, value : 1..MaxReturned \cup {None, Missing}]
<1> DEFINE Attribute == [claim : Claims, name : Attributes \cup Strange \cup {None},
                         friendlyName : Attributes \cup Strange \cup {None},
                         value : 1..MaxReturned \cup {None, Missing}]
<1>1. /\ n \in Nat /\ DOMAIN answer = 1..n /\ DOMAIN answer' = 1..n+1
      /\ answer'[n+1] = at /\ \A i \in 1..n : answer'[i] = answer[i]
      /\ \A i \in 1..n : answer[i].claim \in Claims
                         /\ answer[i].value \in 1..MaxReturned \cup {None, Missing}
  <2>1. answer \in Seq(Attribute) /\ at \in Attribute
    BY DEF TypeOK
  <2>2. \A i \in 1..n : answer[i] \in Attribute
    <3> HIDE DEF Attribute
    <3> QED
      BY <2>1
  <2>3. /\ n \in Nat /\ DOMAIN answer = 1..n /\ DOMAIN answer' = 1..n+1
        /\ answer'[n+1] = at /\ \A i \in 1..n : answer'[i] = answer[i]
    <3> HIDE DEF Attribute
    <3> QED
      BY <2>1
  <2> QED
    BY <2>2, <2>3
<1>2. HeardBar \in Seq(Things) /\ Len(HeardBar) = n
  BY <1>1 DEF HeardBar
<1>3. HeardBar' = [i \in 1..n+1 |-> [of |-> answer'[i].claim, value |-> answer'[i].value]]
  BY <1>1 DEF HeardBar
<1>4. Append(HeardBar, [of |-> at.claim, value |-> at.value])
        = [i \in 1..n+1 |-> IF i = n+1 THEN [of |-> at.claim, value |-> at.value] ELSE HeardBar[i]]
  BY <1>2
<1>5. \A i \in 1..n : HeardBar[i] = [of |-> answer[i].claim, value |-> answer[i].value]
  BY <1>1 DEF HeardBar
<1> QED
  BY <1>1, <1>3, <1>4, <1>5

LEMMA SortingStep ==
    ExchangeInv /\ [Next]_vars => [Sorting!Next]_<<HeardBar, fields, ending>>
<1> SUFFICES ASSUME ExchangeInv, [Next]_vars
             PROVE  \/ Sorting!Next
                    \/ HeardBar' = HeardBar /\ fields' = fields /\ ending' = ending
  OBVIOUS
<1>t. TypeOK /\ AskedOK
  BY DEF ExchangeInv
<1>h. answer' = answer => HeardBar' = HeardBar
  BY DEF HeardBar
<1>1. CASE Ask
  BY <1>1, <1>h DEF Ask
<1>2. CASE NameUser
  <2>1. Sorting!Identify
    BY <1>2, <1>h DEF NameUser, Sorting!Identify, HeardBar
  <2> QED
    BY <2>1 DEF Sorting!Next
<1>3. CASE ProcessAttribute
  <2> DEFINE n == Len(answer) + 1
  <2>1. n \in 1..MaxReturned
    BY <1>3, <1>t, AttributeExchangeAssumption DEF ProcessAttribute, TypeOK
  <2>2. PICK at \in Returned(n) :
            LET matching == {a \in Attributes : Matches(at, a)}
                throws == matching # {} /\ at.value = Missing IN
            /\ answer' = Append(answer, at)
            /\ ending' = IF throws THEN "exception" ELSE "none"
            /\ fields' = IF throws THEN fields
                         ELSE [a \in Attributes |-> IF a \in matching THEN at.value ELSE fields[a]]
    BY <1>3 DEF ProcessAttribute
  <2>3. ending = "none"
    BY <1>3 DEF ProcessAttribute
  <2>4. ReturnedOK(at, n) /\ at.value \in 1..MaxReturned \cup {None, Missing}
        /\ HeardBar' = Append(HeardBar, [of |-> at.claim, value |-> at.value])
    BY <1>t, <2>1, <2>2, ReturnedTypes, HeardGrows
  <2>5. Sorting!Hear(at.claim, at.value)
    BY <2>3, <2>4 DEF Sorting!Hear, HeardBar
  <2>6. \A a \in Attributes : Matches(at, a) => at.claim = a
    BY <2>4, MatchesItsClaim
  <2>7. CASE \A a \in Attributes : ~Matches(at, a)
    <3>1. fields' = fields /\ ending' = ending
      BY <1>t, <2>2, <2>3, <2>7 DEF TypeOK
    <3>2. Sorting!Ignore(at.claim, at.value)
      BY <2>5, <3>1 DEF Sorting!Ignore
    <3>3. at.claim \in Attributes \/ at.claim = Unknown
      BY <2>4 DEF ReturnedOK, Claims
    <3> QED
      BY <2>4, <3>2, <3>3 DEF Sorting!Next
  <2>8. ASSUME NEW a \in Attributes, Matches(at, a)
        PROVE  Sorting!Next
    <3>1. a = at.claim /\ \A b \in Attributes : Matches(at, b) <=> b = a
      BY <2>6, <2>8
    <3>2. CASE at.value = Missing
      <4>1. ending' = "exception" /\ fields' = fields
        BY <2>2, <2>8, <3>2
      <4>2. Sorting!Fail(a)
        BY <2>5, <3>1, <3>2, <4>1 DEF Sorting!Fail
      <4> QED
        BY <4>2 DEF Sorting!Next
    <3>3. CASE at.value # Missing
      <4>1. /\ ending' = "none"
            /\ fields' = [b \in Attributes |-> IF b = a THEN at.value ELSE fields[b]]
        BY <2>2, <3>1, <3>3
      <4>2. fields' = [fields EXCEPT ![a] = at.value]
        BY <1>t, <4>1 DEF TypeOK
      <4>3. Sorting!File(a, at.value)
        BY <2>3, <2>5, <3>1, <3>3, <4>1, <4>2 DEF Sorting!File
      <4> QED
        BY <2>4, <4>3 DEF Sorting!Next
    <3> QED
      BY <3>2, <3>3
  <2> QED
    BY <2>7, <2>8
<1>4. CASE UNCHANGED vars
  BY <1>4, <1>h DEF vars
<1> QED
  BY <1>1, <1>2, <1>3, <1>4 DEF Next

(* AttributeExchange implements ClaimSorting: every step files one thing    *)
(* that was heard of an attribute in the field of that attribute, or takes  *)
(* no notice of it, or ends the login.                                      *)
THEOREM SortingKept == Spec => SortsTheAnswer
BY ExchangeInvariant, SortingInit, SortingStep, PTL
DEF Spec, SortsTheAnswer, Sorting!Spec, HeardBar
=============================================================================
