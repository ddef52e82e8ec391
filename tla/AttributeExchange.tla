--------------------------- MODULE AttributeExchange ---------------------------
(***************************************************************************)
(* The names under which attributes travel: prepareSpRequest asks for all  *)
(* of them, for the eIDAS ones, or for those of the OIDC parameter claims; *)
(* the attribute sources return some attributes, asked for or not; and     *)
(* processAttributes, which knows nothing of the request, sorts them into  *)
(* the claim fields, one of which the user is named after.                 *)
(*                                                                         *)
(* An attribute is a constant of EidasConstants, EduOrgConstants,          *)
(* EduPersonConstants or SchacConstants, with a name, a FRIENDLY name and  *)
(* a SHORT name.  The code knows 27, and no two share any of these names,  *)
(* so that here each of the three is the attribute itself.                 *)
(***************************************************************************)
EXTENDS Naturals, Sequences

CONSTANTS
    Attributes,       \* the attributes the code knows
    EidasAttributes,  \* those the eIDAS authenticator asks for
    PersonIdentifier, \* the one that users are named after
    Unknown,          \* a claim that is the short name of no attribute
    Strange,          \* what sources can put instead of names, null maybe among it
    MaxReturned,      \* bound on the number of attributes the sources return
    Missing,          \* an empty or missing array of values
    None              \* Java's null

ASSUME AttributeExchangeAssumption ==
    /\ EidasAttributes \subseteq Attributes
    /\ PersonIdentifier \in Attributes
    /\ Unknown \notin Attributes
    /\ Strange \cap Attributes = {}
    /\ None \notin Attributes \cup {Unknown, Missing}
    /\ MaxReturned \in Nat
    /\ {None, Missing} \cap 1..MaxReturned = {}

VARIABLES
    sent,    \* the request is made
    asked,   \* the attributes of the request
    answer,  \* what the sources returned so far, oldest first
    fields,  \* the claim fields of SpmsPostResponseAuthenticator
    ending   \* whether the login has a user, or threw an exception

vars == <<sent, asked, answer, fields, ending>>

Claims == Attributes \cup {Unknown}

(* resolveAttName and resolveAttFriendlyName, null for an unknown claim.    *)
(* The mutants let it pass, or fall through to some attribute.              *)
AttName_through(claim) == claim
AttName(claim) == IF claim \in Attributes THEN claim ELSE None
AttFriendlyName_default(claim) ==
    IF claim \in Attributes THEN claim ELSE CHOOSE a \in Attributes : TRUE
AttFriendlyName(claim) == IF claim \in Attributes THEN claim ELSE None

Type(claim) == [claim |-> claim, name |-> AttName(claim), friendlyName |-> AttFriendlyName(claim)]

(* The three requests: prepareAllTypes, prepareTypesByClaims and the eIDAS  *)
(* one.  (The claim is kept for the properties; it is not sent.)            *)
AllTypes == {Type(a) : a \in Attributes}
TypesByClaims(claims) == {Type(c) : c \in claims}
EidasTypes == {Type(a) : a \in EidasAttributes}

(* validateAttributeName.  The mutant does without the friendly name.       *)
Matches_nameOnly(at, a) == IF at.name # None THEN at.name = a ELSE at.friendlyName = a
Matches(at, a) ==
    \/ at.name = a /\ at.friendlyName = a
    \/ at.name = None /\ at.friendlyName = a

(* An attribute that the sources return, whether or not it was asked for:   *)
(* under its names, or with one that they replaced or dropped; with a       *)
(* value, with the null that a request carries, or without any.  (That no   *)
(* source puts the names of one attribute on another is its own to keep.)   *)
Returned(n) ==
    UNION {[claim : {c}, name : {AttName(c), None} \cup Strange,
            friendlyName : {AttFriendlyName(c)} \cup Strange,
            value : {n, None, Missing}] : c \in Claims}

Init ==
    /\ sent = FALSE
    /\ asked = {}
    /\ answer = <<>>
    /\ fields = [a \in Attributes |-> None]
    /\ ending = "none"

(* A claims parameter of commas alone asks for nothing. *)
Ask ==
    /\ ~sent
    /\ sent' = TRUE
    /\ \/ asked' = AllTypes
       \/ asked' = EidasTypes
       \/ \E claims \in SUBSET Claims : asked' = TypesByClaims(claims)
    /\ UNCHANGED <<answer, fields, ending>>

(* One round of the loop of processAttributes, over the attributes of all   *)
(* the attribute sets in turn: values[0] goes to the field that matches,    *)
(* and throws when there is none.                                           *)
ProcessAttribute ==
    /\ sent /\ ending = "none"
    /\ Len(answer) < MaxReturned
    /\ \E at \in Returned(Len(answer) + 1) :
        LET matching == {a \in Attributes : Matches(at, a)}
            throws == matching # {} /\ at.value = Missing IN
        /\ answer' = Append(answer, at)
        /\ ending' = IF throws THEN "exception" ELSE "none"
        /\ fields' = IF throws THEN fields
                     ELSE [a \in Attributes |->
                              IF a \in matching THEN at.value ELSE fields[a]]
    /\ UNCHANGED <<sent, asked>>

(* After the loop: concat throws on a personIdentifier that is null.  The   *)
(* mutant uses the operator +, which writes it as "null".                   *)
NameUser_plus ==
    /\ sent /\ ending = "none"
    /\ ending' = "user"
    /\ UNCHANGED <<sent, asked, answer, fields>>

NameUser ==
    /\ sent /\ ending = "none"
    /\ ending' = IF fields[PersonIdentifier] = None THEN "exception" ELSE "user"
    /\ UNCHANGED <<sent, asked, answer, fields>>

Next == Ask \/ ProcessAttribute \/ NameUser

Spec == Init /\ [][Next]_vars

-----------------------------------------------------------------------------
TypeOK ==
    /\ sent \in BOOLEAN
    /\ asked \subseteq [claim : Claims, name : Attributes \cup {None},
                         friendlyName : Attributes \cup {None}]
    /\ answer \in Seq([claim : Claims, name : Attributes \cup Strange \cup {None},
                        friendlyName : Attributes \cup Strange \cup {None},
                        value : 1..MaxReturned \cup {None, Missing}])
    /\ Len(answer) <= MaxReturned
    /\ fields \in [Attributes -> 1..MaxReturned \cup {None}]
    /\ ending \in {"none", "user", "exception"}

(* The positions at which attribute a was returned under its names: the     *)
(* friendly name, and the name unless it was dropped.                       *)
Returns(a) == {i \in DOMAIN answer :
                  /\ answer[i].claim = a /\ answer[i].friendlyName = a
                  /\ answer[i].name \in {a, None} /\ answer[i].value # Missing}

(* Asking and sorting agree: every value returned for an attribute under    *)
(* the names that requests ask for it by reaches the field of that          *)
(* attribute and no other, whether or not it was asked for, and the last of *)
(* several returns wins (resolveAttName, resolveAttFriendlyName and         *)
(* processAttributes).                                                      *)
ReturnsReachTheirFields ==
    \A a \in Attributes :
        fields[a] = IF Returns(a) = {} THEN None
                    ELSE answer[CHOOSE i \in Returns(a) : \A j \in Returns(a) : j <= i].value

(* The sources did as they were told: all that was asked for came back,     *)
(* with a value and as it was asked, and nothing else did.                  *)
AnsweredAsAsked ==
    /\ \A i \in DOMAIN answer : \E t \in asked :
           answer[i] = [claim |-> t.claim, name |-> t.name,
                        friendlyName |-> t.friendlyName, value |-> i]
    /\ \A t \in asked : \E i \in DOMAIN answer : answer[i].claim = t.claim

(* From sources that do as they are told a login gets what it asked for and *)
(* no more, unknown claims or not; but it gets a user only if it asked for  *)
(* the person identifier, which the parameter claims can leave out and the  *)
(* name of the user cannot (prepareTypesByClaims, authenticateImpl).        *)
GetsWhatItAskedFor ==
    AnsweredAsAsked =>
        /\ \A a \in Attributes : fields[a] # None <=> \E t \in asked : t.claim = a
        /\ ending = "user" => \E t \in asked : t.claim = PersonIdentifier
        /\ ending = "exception" => \A t \in asked : t.claim # PersonIdentifier

(* Sorting implements ClaimSorting: what is returned about an attribute,    *)
(* under whatever names, asked for or not, ends in the field of that        *)
(* attribute or nowhere; what is returned about an unknown claim fills      *)
(* nothing and harms nothing; and a known attribute without values is the   *)
(* end of the login (processAttributes, authenticateImpl).                  *)
Sorting == INSTANCE ClaimSorting WITH
    Values <- 1..MaxReturned \cup {None, Missing},
    heard <- [i \in DOMAIN answer |-> [of |-> answer[i].claim, value |-> answer[i].value]]
SortsTheAnswer == Sorting!Spec
=============================================================================
