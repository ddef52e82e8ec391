---------------------------- MODULE AnonymizeProofs ----------------------------
(***************************************************************************)
(* Proofs about Anonymize: its types, that a newcomer is turned away only  *)
(* for an account of its own, and that the database rejects a name only in *)
(* a race.                                                                 *)
(***************************************************************************)
EXTENDS Anonymize, Sequences, FiniteSetTheorems, TLAPS

(* The account of an identity is named after it, and a note names a user    *)
(* with the name that the newcomer would be given; none is added without.   *)
NamesAreOwn ==
    /\ \A u \in users : u.of # None => u.username = Username(u.of)
    /\ \A u \in users : u.of = None => u.username \in {<<n>> : n \in Names}
    /\ \A l \in Logins : existing[l] # None => existing[l].username = Username(identity[l])
    /\ \A l \in Logins : pc[l] = "add" => Login(identity[l]) # None

IInv ==
    /\ TypeOK
    /\ IsFiniteSet(users)
    /\ NamesAreOwn
    /\ TakenNamesAreReported

USE DEF Goto

(* Hashed names differ from each other as the names and providers do, and   *)
(* from the names of users that registered with the realm.                  *)
LEMMA HashedNames ==
    /\ \A i, j \in Identities :
        Username(i) = Username(j) => i.alias = j.alias /\ Login(i) = Login(j)
    /\ \A i \in Identities, n \in Names : Username(i) # <<n>>
<1>1. ASSUME NEW i \in Identities, NEW j \in Identities, Username(i) = Username(j)
      PROVE  i.alias = j.alias /\ Login(i) = Login(j)
  <2>1. i.alias = j.alias /\ Hash(Login(i)) = Hash(Login(j))
    BY <1>1 DEF Username
  <2>2. \A x, y : Hash(x) = Hash(y) => x = y
    <3> SUFFICES ASSUME NEW x, NEW y, Hash(x) = Hash(y) PROVE x = y
      OBVIOUS
    <3>1. Hash(x).hash = x /\ Hash(y).hash = y
      BY DEF Hash
    <3> QED
      BY <3>1
  <2> QED
    BY <2>1, <2>2
<1>2. ASSUME NEW i \in Identities, NEW n \in Names PROVE Username(i) # <<n>>
  <2>1. Len(Username(i)) = 2 /\ Len(<<n>>) = 1
    BY DEF Username
  <2> QED
    BY <2>1
<1> QED
  BY <1>1, <1>2

(* The account that a login may add is a user of the types. *)
LEMMA AccountType ==
    ASSUME TypeOK, NEW l \in Logins, Login(identity[l]) # None
    PROVE  /\ Account(identity[l]).username \in Aliases \X {Hash(x) : x \in Names \cup Emails}
           /\ Account(identity[l]).email \in Emails \cup {None}
           /\ Account(identity[l]).of = identity[l]
           /\ Account(identity[l]) \in [username : Aliases \X {Hash(x) : x \in Names \cup Emails},
                                        email : Emails \cup {None}, of : Identities]
<1>1. identity[l] \in Identities
  BY DEF TypeOK
<1>2. Login(identity[l]) \in Names \cup Emails
  BY <1>1 DEF Login, Identities
<1>3. Username(identity[l]) \in Aliases \X {Hash(x) : x \in Names \cup Emails}
  BY <1>1, <1>2 DEF Username, Identities
<1> QED
  BY <1>1, <1>3 DEF Account, Identities

-----------------------------------------------------------------------------
LEMMA IInvInit == Init => IInv
<1> SUFFICES ASSUME Init PROVE IInv
  OBVIOUS
<1>1. IsFiniteSet(users) /\ Cardinality(users) = 0
  BY FS_EmptySet DEF Init
<1> QED
  BY <1>1, AnonymizeAssumption DEF Init, IInv, TypeOK, NamesAreOwn, TakenNamesAreReported

(* A user is added: by a login, or in another way. *)
LEMMA UserAdded ==
    ASSUME IsFiniteSet(users), Cardinality(users) < MaxUsers, NEW u, users' = users \cup {u}
    PROVE  IsFiniteSet(users') /\ Cardinality(users') <= MaxUsers
<1>1. IsFiniteSet(users') /\ Cardinality(users') \in {Cardinality(users), Cardinality(users) + 1}
  BY FS_AddElement
<1>2. Cardinality(users) \in Nat
  BY FS_CardinalityType
<1> QED
  BY <1>1, <1>2, AnonymizeAssumption

LEMMA IInvStep == IInv /\ [Next]_vars => IInv'
<1> SUFFICES ASSUME IInv, [Next]_vars PROVE IInv'
  OBVIOUS
<1> USE DEF IInv
<1>1. ASSUME NEW l \in Logins, Attempted(l) \/ NoName(l) \/ Retry(l) PROVE IInv'
  <2>1. /\ UNCHANGED <<realm, identity, existing, users>>
        /\ pc' \in [Logins -> {"start", "add", "challenged", "attempted", "success", "failed"}]
        /\ raced' \in [Logins -> BOOLEAN]
        /\ \A q \in Logins : pc'[q] = "add" => pc[q] = "add" /\ raced'[q] = raced[q]
    BY <1>1 DEF Attempted, NoName, Retry, TypeOK
  <2>2. \A i \in Identities : Username(i)' = Username(i) /\ Login(i)' = Login(i)
    BY <2>1 DEF Username, Login, realm
  <2>3. TypeOK' /\ IsFiniteSet(users)'
    BY <2>1 DEF TypeOK, realm
  <2>4. NamesAreOwn'
    BY <2>1, <2>2 DEF NamesAreOwn, Username, Login, realm
  <2>5. TakenNamesAreReported'
    BY <2>1, <2>2 DEF TakenNamesAreReported, TypeOK
  <2> QED
    BY <2>3, <2>4, <2>5
<1>2. ASSUME NEW l \in Logins, CheckExistingUser(l) PROVE IInv'
  <2>1. UNCHANGED <<realm, identity, users>> /\ identity[l] \in Identities
    BY <1>2 DEF CheckExistingUser, TypeOK
  <2>2. \A i \in Identities : Username(i)' = Username(i)
    BY <2>1 DEF Username, Login, realm
  <2>3. SameHashedEmail(identity[l]) = {}
    <3>1. \A u \in users : u.email \in Emails \cup {None}
      BY DEF TypeOK, Ordinary
    <3> QED
      BY <3>1, <2>1, AnonymizeAssumption DEF SameHashedEmail, Identities
  <2>4. Duplicates(identity[l]) = {u \in users : u.username = Username(identity[l])}
    BY <2>3 DEF Duplicates
  <2>5. CASE \E u \in Duplicates(identity[l]) :
                /\ existing' = [existing EXCEPT ![l] = u]
                /\ pc' = [pc EXCEPT ![l] = "challenged"]
    <3>1. PICK u \in users : /\ u.username = Username(identity[l])
                             /\ existing' = [existing EXCEPT ![l] = u]
                             /\ pc' = [pc EXCEPT ![l] = "challenged"]
      BY <2>5, <2>4
    <3>2. TypeOK' /\ IsFiniteSet(users)'
      BY <3>1, <2>1, <1>2 DEF CheckExistingUser, TypeOK, realm
    <3>3. NamesAreOwn'
      BY <3>1, <2>1 DEF NamesAreOwn, Username, Login, realm, TypeOK
    <3>4. TakenNamesAreReported'
      BY <3>1, <2>1, <2>2, <1>2 DEF TakenNamesAreReported, TypeOK, CheckExistingUser
    <3> QED
      BY <3>2, <3>3, <3>4
  <2>6. CASE /\ Duplicates(identity[l]) = {}
             /\ pc' = [pc EXCEPT ![l] = "add"]
             /\ UNCHANGED existing
    <3>1. TypeOK' /\ IsFiniteSet(users)'
      BY <2>6, <2>1, <1>2 DEF CheckExistingUser, TypeOK, realm
    <3>2. NamesAreOwn'
      BY <2>6, <2>1, <1>2 DEF NamesAreOwn, Username, Login, realm, CheckExistingUser, TypeOK
    <3>3. TakenNamesAreReported'
      BY <2>6, <2>4, <2>1, <2>2, <1>2 DEF TakenNamesAreReported, TypeOK, CheckExistingUser
    <3> QED
      BY <3>1, <3>2, <3>3
  <2> QED
    BY <2>5, <2>6, <1>2 DEF CheckExistingUser
<1>3. ASSUME NEW l \in Logins, AddUser(l) PROVE IInv'
  <2> DEFINE id == identity[l]
  <2>1. UNCHANGED <<realm, identity, existing>> /\ pc[l] = "add" /\ id \in Identities
    BY <1>3 DEF AddUser, TypeOK
  <2>2. \A i \in Identities : Username(i)' = Username(i) /\ Login(i)' = Login(i)
    BY <2>1 DEF Username, Login, realm
  <2>3. CASE UNCHANGED <<users, raced>> /\ pc' = [pc EXCEPT ![l] = "failed"]
    BY <2>1, <2>2, <2>3 DEF TypeOK, NamesAreOwn, TakenNamesAreReported, realm, Username, Login
  <2>4. CASE /\ Cardinality(users) < MaxUsers
             /\ users' = users \cup {Account(id)}
             /\ raced' = [q \in Logins |-> q # l /\ (raced[q] \/ pc[q] = "add")]
             /\ pc' = [pc EXCEPT ![l] = "success"]
    <3> DEFINE u == Account(id)
    <3>1. /\ u.username = Username(id) /\ u.of = id
          /\ u \in [username : Aliases \X {Hash(x) : x \in Names \cup Emails},
                    email : Emails \cup {None}, of : Identities]
      <4>1. Login(id) # None
        BY <2>1 DEF NamesAreOwn
      <4> QED
        BY <4>1, AccountType DEF Account
    <3>2. IsFiniteSet(users') /\ Cardinality(users') <= MaxUsers
      BY <2>4, UserAdded
    <3>3. TypeOK'
      BY <3>1, <3>2, <2>4, <2>1 DEF TypeOK, realm
    <3>4. NamesAreOwn'
      <4>1. id # None
        BY <2>1, AnonymizeAssumption
      <4>2. \A w \in users' : w.of # None => w.username = Username(w.of)'
        <5>1. users' = users \cup {u} /\ \A x : Username(x)' = Username(x)
          BY <2>4, <2>1 DEF Username, Login, realm
        <5>2. u.username = Username(u.of)
          BY <3>1
        <5> HIDE DEF u
        <5> QED
          BY <5>1, <5>2 DEF NamesAreOwn
      <4>3. \A w \in users' : w.of = None => w.username \in {<<n>> : n \in Names}
        <5> HIDE DEF u
        <5> QED
          BY <4>1, <3>1, <2>4 DEF NamesAreOwn, u
      <4>4. \A q \in Logins : existing'[q] # None => existing'[q].username = Username(identity[q])'
        BY <2>1, <2>2 DEF NamesAreOwn, TypeOK
      <4>5. \A q \in Logins : pc'[q] = "add" => Login(identity[q])' # None
        BY <2>4, <2>1, <2>2 DEF NamesAreOwn, TypeOK
      <4> QED
        BY <4>2, <4>3, <4>4, <4>5 DEF NamesAreOwn
    <3>5. TakenNamesAreReported'
      BY <2>4, <2>1 DEF TakenNamesAreReported, TypeOK
    <3> QED
      BY <3>2, <3>3, <3>4, <3>5
  <2> QED
    BY <2>3, <2>4, <1>3 DEF AddUser
<1>4. ASSUME Register PROVE IInv'
  <2>1. PICK u \in Ordinary : users' = users \cup {u}
    BY <1>4 DEF Register
  <2>2. /\ UNCHANGED <<realm, pc, identity, existing>>
        /\ raced' = [q \in Logins |-> raced[q] \/ pc[q] = "add"]
    BY <1>4 DEF Register
  <2>3. IsFiniteSet(users') /\ Cardinality(users') <= MaxUsers
    BY <1>4, <2>1, UserAdded DEF Register
  <2>4. TypeOK'
    BY <2>1, <2>2, <2>3 DEF TypeOK, realm
  <2>5. NamesAreOwn'
    BY <2>1, <2>2 DEF NamesAreOwn, Username, Login, realm, Ordinary, TypeOK
  <2>6. TakenNamesAreReported'
    BY <2>2 DEF TakenNamesAreReported, TypeOK
  <2> QED
    BY <2>3, <2>4, <2>5, <2>6
<1>5. CASE UNCHANGED vars
  BY <1>5 DEF vars, realm, TypeOK, NamesAreOwn, TakenNamesAreReported, Username, Login
<1> QED
  BY <1>1, <1>2, <1>3, <1>4, <1>5 DEF Next

LEMMA Invariance == Spec => []IInv
BY IInvInit, IInvStep, PTL DEF Spec

(* Every variable keeps to its type, whatever the identities, the settings  *)
(* of the realm and the number of logins and users.                         *)
THEOREM TypeCorrect == Spec => []TypeOK
<1>1. IInv => TypeOK
  BY DEF IInv
<1> QED
  BY <1>1, Invariance, PTL

(* The database rejects the name of an account only in a race (authenticate *)
(* of AnonymizeEsmoAuthenticator).                                          *)
THEOREM NamesReported == Spec => []TakenNamesAreReported
<1>1. IInv => TakenNamesAreReported
  BY DEF IInv
<1> QED
  BY <1>1, Invariance, PTL

(* A newcomer is turned away only for an account of the same name at the    *)
(* same provider (getUsername and checkExistingUser).                       *)
THEOREM OwnDuplicates == Spec => []TurnedAwayForOneself
<1>1. IInv => TurnedAwayForOneself
  <2> SUFFICES ASSUME IInv, NEW l \in Logins, existing[l] # None
               PROVE  /\ existing[l].of # None
                      /\ existing[l].of.alias = identity[l].alias
                      /\ Login(existing[l].of) = Login(identity[l])
    BY DEF TurnedAwayForOneself
  <2>1. identity[l] \in Identities /\ existing[l] \in users
        /\ existing[l].username = Username(identity[l])
    BY DEF IInv, TypeOK, NamesAreOwn
  <2>2. existing[l].of # None
    BY <2>1, HashedNames DEF IInv, NamesAreOwn
  <2>3. existing[l].of \in Identities
    BY <2>1, <2>2 DEF IInv, TypeOK, Ordinary
  <2>4. Username(existing[l].of) = Username(identity[l])
    BY <2>1, <2>2 DEF IInv, NamesAreOwn
  <2> QED
    BY <2>1, <2>2, <2>3, <2>4, HashedNames
<1> QED
  BY <1>1, Invariance, PTL
=============================================================================
