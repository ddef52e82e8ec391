--------------------------- MODULE RoundTripInvariant ---------------------------
(***************************************************************************)
(* Why the properties of RoundTrip hold: each piece of a login is traced   *)
(* to the browser that opened its session.                                 *)
(***************************************************************************)
EXTENDS RoundTrip

(* A session, if any, that was opened for login l.                          *)
Opened(l, s) == s # None => owner[s] = l

SessionOK(s) ==
    /\ details[s] # None => owner[s] # None /\ details[s] = SpDetails(owner[s])
    /\ asserted[s] # None => asserted[s] = owner[s]

(* What the pages of login l know of sessions, and what the requests of its *)
(* browser to SpResponseResource do.                                        *)
PagesOK(l) ==
    /\ Opened(l, notes[l].msToken) /\ Opened(l, notes[l].sessionId)
    /\ Opened(l, page[l].session)
    /\ \A s \in away[l] : owner[s] = l

ServingOK(l) ==
    /\ Opened(l, msToken[l])
    /\ serving[l] # "idle" => msToken[l] # None
    /\ serving[l] \in {"details", "redirect"} =>
        resource[l].sessionId # None /\ owner[resource[l].sessionId] = l
    /\ serving[l] = "redirect" => resource[l].details = SpDetails(l)

RedirectOK(l) ==
    redirect[l] # NoRedirect =>
        /\ redirect[l].endpoint = Home(l)
        /\ redirect[l].details = SpDetails(l)
        /\ redirect[l].sessionId # None /\ owner[redirect[l].sessionId] = l

HomeInv ==
    /\ TypeOK
    /\ \A s \in SessionIds : SessionOK(s)
    /\ \A l \in Logins : PagesOK(l) /\ ServingOK(l) /\ RedirectOK(l)
    /\ EndsInOwnAccount

(* The notes call for the page of the last attempt, unless it threw.        *)
NotesOfLastAttempt == \A l \in Logins : last[l] # NoForm => PageOf(notes[l]) = last[l]

PageInv == NotesOfLastAttempt /\ PageIsOfLastAttempt
=============================================================================
