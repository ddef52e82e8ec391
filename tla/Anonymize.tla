------------------------------- MODULE Anonymize -------------------------------
(***************************************************************************)
(* AnonymizeEsmoAuthenticator, a step of the first login through an        *)
(* identity provider: it looks for a user that the newcomer duplicates,    *)
(* and reports it, or creates an account under a hashed name.              *)
(*                                                                         *)
(* The look-up and the new account belong to one transaction of Keycloak,  *)
(* which other logins and registrations do not wait for.  Its database     *)
(* admits one user of a name and, unless the realm allows duplicates, one  *)
(* of an e-mail address.                                                   *)
(***************************************************************************)
EXTENDS Naturals, FiniteSets

CONSTANTS
    Logins,    \* first logins, each in its authentication session
    Aliases,   \* the identity providers
    Names,     \* user names at an identity provider
    Emails,    \* e-mail addresses
    MaxUsers,  \* bound on the number of users
    None       \* Java's null

VARIABLES
    emailAsUsername,   \* realm.isRegistrationEmailAsUsername()
    duplicateEmails,   \* realm.isDuplicateEmailsAllowed()
    pc,                \* the next step of each login
    identity,          \* the BrokeredIdentityContext of each login
    existing,          \* its note EXISTING_USER_INFO: the user duplicated
    users,             \* the users of the realm
    raced              \* history: users were added since the login's look-up

realm == <<emailAsUsername, duplicateEmails>>
vars == <<realm, pc, identity, existing, users, raced>>

Identities == [alias : Aliases, name : Names, email : Emails \cup {None}]

(* sha256String keeps different inputs apart, and its hexadecimal digits    *)
(* are no user's name or address; null it does not accept.                  *)
Hash(x) == [hash |-> x]

ASSUME AnonymizeAssumption ==
    /\ MaxUsers \in Nat
    /\ None \notin Aliases \cup Names \cup Emails \cup Identities
    /\ \A x \in Emails : Hash(x) \notin Emails \cup {None}

(* getUsername.  The mutant leaves out the alias of the provider.           *)
Login(id) == IF emailAsUsername THEN id.email ELSE id.name
Username_noAlias(id) == <<Hash(Login(id))>>
Username(id) == <<id.alias, Hash(Login(id))>>

(* A user, and for the properties the identity that it was created for; of  *)
(* is None for one that registered in another way.                          *)
Account(id) == [username |-> Username(id), email |-> id.email, of |-> id]
Ordinary == [username : {<<n>> : n \in Names}, email : Emails \cup {None}, of : {None}]

(* The constraints of the database on a new user. *)
SameEmail(u, v) == ~duplicateEmails /\ u.email # None /\ u.email = v.email
Admits(u) == \A v \in users : v.username # u.username /\ ~SameEmail(u, v)

TypeOK ==
    /\ emailAsUsername \in BOOLEAN /\ duplicateEmails \in BOOLEAN
    /\ pc \in [Logins -> {"start", "add", "challenged", "attempted", "success", "failed"}]
    /\ identity \in [Logins -> Identities]
    /\ existing \in [Logins -> users \cup {None}]
    /\ users \subseteq Ordinary \cup [username : Aliases \X {Hash(x) : x \in Names \cup Emails},
                                     email : Emails \cup {None}, of : Identities]
    /\ Cardinality(users) <= MaxUsers
    /\ raced \in [Logins -> BOOLEAN]

(* Keycloak switches duplicateEmails off with emailAsUsername on. *)
Init ==
    /\ emailAsUsername \in BOOLEAN /\ duplicateEmails \in BOOLEAN
    /\ ~(emailAsUsername /\ duplicateEmails)
    /\ pc = [l \in Logins |-> "start"]
    /\ identity \in [Logins -> Identities]
    /\ existing = [l \in Logins |-> None]
    /\ users = {}
    /\ raced = [l \in Logins |-> FALSE]

Goto(l, label) == pc' = [pc EXCEPT ![l] = label]

-----------------------------------------------------------------------------
(* checkExistingUser: a user with the hashed e-mail address for an address, *)
(* or with the name.  The mutant looks for the address only.                *)
SameHashedEmail(id) ==
    {u \in users : ~duplicateEmails /\ id.email # None /\ u.email = Hash(id.email)}
Duplicates_emailOnly(id) == SameHashedEmail(id)
Duplicates(id) ==
    IF SameHashedEmail(id) # {} THEN SameHashedEmail(id)
    ELSE {u \in users : u.username = Username(id)}

(* A login whose note names a duplicate makes no second attempt. *)
Attempted(l) ==
    /\ pc[l] = "start" /\ existing[l] # None
    /\ Goto(l, "attempted")
    /\ UNCHANGED <<realm, identity, existing, users, raced>>

(* Without an address in a realm that uses it as name: a                    *)
(* NullPointerException in sha256String, before the test for null.          *)
NoName(l) ==
    /\ pc[l] = "start" /\ existing[l] = None /\ Login(identity[l]) = None
    /\ Goto(l, "failed")
    /\ raced' = [raced EXCEPT ![l] = FALSE]
    /\ UNCHANGED <<realm, identity, existing, users>>

(* checkExistingUser reports a duplicate (a challenge: the error page, with *)
(* a note for the next authenticators), or the account is added.            *)
CheckExistingUser(l) ==
    LET id == identity[l] IN
    /\ pc[l] = "start" /\ existing[l] = None /\ Login(id) # None
    /\ \/ \E u \in Duplicates(id) :
            /\ existing' = [existing EXCEPT ![l] = u]
            /\ Goto(l, "challenged")
       \/ /\ Duplicates(id) = {}
          /\ Goto(l, "add")
          /\ UNCHANGED existing
    /\ raced' = [raced EXCEPT ![l] = FALSE]
    /\ UNCHANGED <<realm, identity, users>>

(* addUser, the setters and the commit of the transaction; what the         *)
(* database does not admit rolls it back, notes included.                   *)
AddUser(l) ==
    LET u == Account(identity[l]) IN
    /\ pc[l] = "add"
    /\ IF Admits(u)
       THEN /\ Cardinality(users) < MaxUsers
            /\ users' = users \cup {u}
            /\ raced' = [q \in Logins |-> q # l /\ (raced[q] \/ pc[q] = "add")]
            /\ Goto(l, "success")
       ELSE /\ Goto(l, "failed")
            /\ UNCHANGED <<users, raced>>
    /\ UNCHANGED <<realm, identity, existing>>

(* The browser tries again. *)
Retry(l) ==
    /\ pc[l] \in {"challenged", "failed"}
    /\ Goto(l, "start")
    /\ UNCHANGED <<realm, identity, existing, users, raced>>

(* A user registers with the form of the realm, or is imported. *)
Register ==
    /\ Cardinality(users) < MaxUsers
    /\ \E u \in Ordinary : Admits(u) /\ users' = users \cup {u}
    /\ raced' = [q \in Logins |-> raced[q] \/ pc[q] = "add"]
    /\ UNCHANGED <<realm, pc, identity, existing>>

Next ==
    \/ \E l \in Logins :
        Attempted(l) \/ NoName(l) \/ CheckExistingUser(l) \/ AddUser(l) \/ Retry(l)
    \/ Register

Spec == Init /\ [][Next]_vars

-----------------------------------------------------------------------------
(* A newcomer is turned away only for an account of the same identity, the  *)
(* same name at the same provider: never for the account of a namesake from *)
(* another provider, nor for one that registered with the realm             *)
(* (getUsername, checkExistingUser).                                        *)
TurnedAwayForOneself ==
    \A l \in Logins : existing[l] # None =>
        /\ existing[l].of # None
        /\ existing[l].of.alias = identity[l].alias
        /\ Login(existing[l].of) = Login(identity[l])

(* An account whose name is taken is never about to be added, unless the    *)
(* user of that name was added after the look-up: the database rejects a    *)
(* name only in a race of two logins (checkExistingUser and addUser).       *)
TakenNamesAreReported ==
    \A l \in Logins :
        pc[l] = "add" /\ ~raced[l] => \A u \in users : u.username # Username(identity[l])

(* "Set duplicated user, so next authenticators can deal with it" (the      *)
(* comment on the note): unless it was added in between, a user that the    *)
(* newcomer duplicates is found before the account is added.                *)
DuplicatesAreReported ==
    \A l \in Logins : pc[l] = "add" /\ ~raced[l] => Admits(Account(identity[l]))
=============================================================================
