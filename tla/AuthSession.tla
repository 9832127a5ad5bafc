------------------------------- MODULE AuthSession -------------------------------
(***************************************************************************)
(* The login session of a dashboard user: the auth stores of the pages     *)
(* open in a browser, the cookies these share, the handlers of             *)
(* internal/auth and the table refresh_tokens.  A refresh token is         *)
(* exchanged for a new one at every refresh; the views use an access       *)
(* token, which the store of the page holds and nobody can revoke.  One    *)
(* SQL statement is one step, an answer's headers set the cookies before   *)
(* the page goes on, and calls overlap, of one page (a second navigation)  *)
(* or of several.                                                          *)
(***************************************************************************)
EXTENDS Integers, FiniteSets

CONSTANTS
    Pages,     \* tabs of the browser, each with a store of its own
    Calls,     \* HTTP calls of the pages
    Tokens,    \* refresh tokens; each is drawn at random once
    Secure,    \* secureCookies: the server is not in development
    Faults,    \* which of "db" and "lost" (the connection of a call breaks) happen
    None       \* no token, no page

ASSUME SecureAssumption == Secure \in BOOLEAN
ASSUME FaultsAssumption == Faults \subseteq {"db", "lost"}
ASSUME NoneAssumption == None \notin Tokens \cup Pages

VARIABLES
    registered,  \* TRUE iff there is a row of users for the email
    row,     \* token -> "none", "active", "revoked", "expired"
    parent,  \* token -> the token it was exchanged for, or None
    jar,     \* the browser's cookies
    access,  \* page -> the access token in its store: "none", "valid", "expired"
    page,    \* call -> the page that makes it
    op,      \* what each call is for
    phase,   \* how far it is
    sent,    \* the cookies it was sent with
    fresh    \* the token issued for it, or None

vars == <<registered, row, parent, jar, access, page, op, phase, sent, fresh>>

Names == {"refresh_token", "__Host-refresh_token"}
refreshCookieName == IF Secure THEN "__Host-refresh_token" ELSE "refresh_token"
NoCookies == [n \in Names |-> None]
Jars == [Names -> Tokens \cup {None}]

Ops == {"none", "register", "login", "refresh", "logout", "view"}
Phases == {"new", "sent", "stale", "created", "found", "issuing", "issued", "signedIn", "served",
           "denied", "refused", "cleared", "loggedOut", "done", "lost"}
Over == {"done", "lost"}
Underway == {c \in Calls : phase[c] \notin Over \cup {"new"}}

TypeOK ==
    /\ row \in [Tokens -> {"none", "active", "revoked", "expired"}]
    /\ parent \in [Tokens -> Tokens \cup {None}]
    /\ registered \in BOOLEAN
    /\ jar \in Jars /\ access \in [Pages -> {"none", "valid", "expired"}]
    /\ page \in [Calls -> Pages \cup {None}]
    /\ op \in [Calls -> Ops] /\ phase \in [Calls -> Phases]
    /\ sent \in [Calls -> Jars] /\ fresh \in [Calls -> Tokens \cup {None}]

Init ==
    /\ row = [t \in Tokens |-> "none"] /\ parent = [t \in Tokens |-> None]
    /\ registered \in BOOLEAN
    /\ jar = NoCookies /\ access = [p \in Pages |-> "none"]
    /\ page = [c \in Calls |-> None]
    /\ op = [c \in Calls |-> "none"] /\ phase = [c \in Calls |-> "new"]
    /\ sent = [c \in Calls |-> NoCookies] /\ fresh = [c \in Calls |-> None]

Go(c, o, from, to) ==
    /\ op[c] = o /\ phase[c] = from
    /\ phase' = [phase EXCEPT ![c] = to]

--------------------------------------------------------------------------------
(* The frontend: the store, the router and the views *)

\* What the store of the page of c holds from now on.
Store(c, a) == access' = [access EXCEPT ![page[c]] = a]

\* The router restores while there is no access token; the forms register and log in.
\* With one the views load, and the sidebar logs out.  fetch sends all the cookies.
Call(p, c, o) ==
    /\ (access[p] = "none") <=> (o \in {"register", "login", "refresh"})
    /\ phase[c] = "new"
    /\ phase' = [phase EXCEPT ![c] = IF o = "view" /\ access[p] = "expired" THEN "stale" ELSE "sent"]
    /\ page' = [page EXCEPT ![c] = p]
    /\ op' = [op EXCEPT ![c] = o]
    /\ sent' = [sent EXCEPT ![c] = jar]
    /\ UNCHANGED <<registered, row, parent, jar, access, fresh>>

\* register() of the store goes on to login().
Registered(c) ==
    /\ Go(c, "register", "created", "sent")
    /\ op' = [op EXCEPT ![c] = "login"]
    /\ sent' = [sent EXCEPT ![c] = jar]
    /\ UNCHANGED <<registered, row, parent, jar, access, page, fresh>>

\* The page is loaded again: its store is empty, the cookies stay.  A call that it
\* gives up is lost first.
Reload(p) ==
    /\ access[p] # "none" /\ \A c \in Underway : page[c] # p
    /\ access' = [access EXCEPT ![p] = "none"]
    /\ UNCHANGED <<registered, row, parent, jar, page, op, phase, sent, fresh>>

\* The time of an access token passes.  Nothing in the frontend looks at it.
ExpireAccess(p) ==
    /\ access[p] = "valid"
    /\ access' = [access EXCEPT ![p] = "expired"]
    /\ UNCHANGED <<registered, row, parent, jar, page, op, phase, sent, fresh>>

--------------------------------------------------------------------------------
(* The handlers *)

\* The limiter (RateLimiter) refuses; only these routes are limited.  No cookie is set.
RateLimited(c) ==
    /\ \/ Go(c, "register", "sent", "done") /\ UNCHANGED access
       \/ Go(c, "login", "sent", "done") /\ UNCHANGED access
       \/ Go(c, "refresh", "sent", "done") /\ Store(c, "none")
    /\ UNCHANGED <<registered, row, parent, jar, page, op, sent, fresh>>

\* Refresh, the SELECT: the token is there, not revoked and not expired.
Usable(t) == t \in Tokens /\ row[t] = "active"

FindToken(c) ==
    /\ LET t == sent[c][refreshCookieName]
       IN  \/ Usable(t) /\ Go(c, "refresh", "sent", "found")
           \/ (~Usable(t) \/ "db" \in Faults) /\ Go(c, "refresh", "sent", "denied")
    /\ UNCHANGED <<registered, row, parent, jar, access, page, op, sent, fresh>>

\* The UPDATE of refresh_tokens in Refresh and Logout.
Revoked(t) == [row EXCEPT ![t] = "revoked"]

\* A fault: the used token stays active.
RevokeNothing(c) ==
    /\ Go(c, "refresh", "found", "issuing")
    /\ UNCHANGED <<registered, row, parent, jar, access, page, op, sent, fresh>>

\* Refresh, the UPDATE: it does not look whether the token is revoked by now.  When
\* it fails it may have been executed.
RevokeUsed(c) ==
    /\ \/ /\ Go(c, "refresh", "found", "issuing")
          /\ row' = Revoked(sent[c][refreshCookieName])
       \/ /\ "db" \in Faults
          /\ Go(c, "refresh", "found", "denied")
          /\ row' \in {row, Revoked(sent[c][refreshCookieName])}
    /\ UNCHANGED <<registered, parent, jar, access, page, op, sent, fresh>>

\* Register: the data may be invalid, the email taken, or the INSERT fail, executed
\* or not.
Register(c) ==
    /\ \/ ~registered /\ registered' = TRUE /\ Go(c, "register", "sent", "created")
       \/ registered' = registered /\ Go(c, "register", "sent", "denied")
       \/ "db" \in Faults /\ registered' = TRUE /\ Go(c, "register", "sent", "denied")
    /\ UNCHANGED <<row, parent, jar, access, page, op, sent, fresh>>

\* UserFromAccessToken, for me and the handlers of the views.  The token may expire
\* on its way.
UserFromAccessToken(c) ==
    /\ \/ Go(c, "view", "sent", "served")
       \/ Go(c, "view", "sent", "denied")
       \/ Go(c, "view", "stale", "denied")
    /\ UNCHANGED <<registered, row, parent, jar, access, page, op, sent, fresh>>

\* Login, up to issue: the password, the status of the user and last_login_at.
Login(c) ==
    /\ \/ registered /\ Go(c, "login", "sent", "issuing")
       \/ Go(c, "login", "sent", "denied")
    /\ UNCHANGED <<registered, row, parent, jar, access, page, op, sent, fresh>>

\* issue, for Login and Refresh.  A token stored by a failing INSERT is known to
\* nobody.
Issue(c) ==
    /\ \/ \E t \in Tokens :
             /\ row[t] = "none"
             /\ Go(c, op[c], "issuing", "issued")
             /\ row' = [row EXCEPT ![t] = "active"]
             /\ parent' = [parent EXCEPT ![t] = IF op[c] = "login" THEN None
                                                ELSE sent[c][refreshCookieName]]
             /\ fresh' = [fresh EXCEPT ![c] = t]
       \/ /\ "db" \in Faults
          /\ Go(c, op[c], "issuing", "denied")
          /\ UNCHANGED <<row, parent, fresh>>
    /\ UNCHANGED <<registered, jar, access, page, op, sent>>

\* logout reads the cookie of the development name; its error is ignored.
Logout(c) ==
    /\ Go(c, "logout", "sent", "cleared")
    /\ LET t == sent[c]["refresh_token"]
       IN  \/ t # None /\ row' = Revoked(t)
           \/ (t = None \/ "db" \in Faults) /\ row' = row
    /\ UNCHANGED <<registered, parent, jar, access, page, op, sent, fresh>>

\* The time of a token passes.
Expire(t) ==
    /\ row[t] = "active"
    /\ row' = [row EXCEPT ![t] = "expired"]
    /\ UNCHANGED <<registered, parent, jar, access, page, op, phase, sent, fresh>>

--------------------------------------------------------------------------------
(* The answer: its headers reach the browser, then its body the page *)

\* A fault: the new token of a refresh is not set as a cookie.
SetOnLoginOnly(c) ==
    /\ Go(c, op[c], "issued", "signedIn")
    /\ jar' = IF op[c] = "login" THEN [jar EXCEPT ![refreshCookieName] = fresh[c]] ELSE jar
    /\ UNCHANGED <<registered, row, parent, access, page, op, sent, fresh>>

\* For all the pages, after a login or a refresh.
setRefreshCookie(c) ==
    /\ Go(c, op[c], "issued", "signedIn")
    /\ jar' = [jar EXCEPT ![refreshCookieName] = fresh[c]]
    /\ UNCHANGED <<registered, row, parent, access, page, op, sent, fresh>>

\* Likewise, after a refresh that is denied and after a logout.
clearRefreshCookie(c) ==
    /\ \/ Go(c, "refresh", "denied", "refused")
       \/ Go(c, "logout", "cleared", "loggedOut")
    /\ jar' = NoCookies
    /\ UNCHANGED <<registered, row, parent, access, page, op, sent, fresh>>

\* A fault: the store takes the refresh token for the access token.
SignedInWithRefreshToken(c) ==
    /\ Go(c, op[c], "signedIn", "done")
    /\ Store(c, fresh[c])
    /\ UNCHANGED <<registered, row, parent, jar, page, op, sent, fresh>>

SignedIn(c) ==
    /\ Go(c, op[c], "signedIn", "done")
    /\ Store(c, "valid")
    /\ UNCHANGED <<registered, row, parent, jar, page, op, sent, fresh>>

\* restore() clears the store of its page; any other call that is denied changes
\* nothing, and a view shows the error.
Denied(c) ==
    /\ \/ Go(c, "refresh", "refused", "done") /\ Store(c, "none")
       \/ op[c] # "refresh" /\ Go(c, op[c], "denied", "done") /\ UNCHANGED access
    /\ UNCHANGED <<registered, row, parent, jar, page, op, sent, fresh>>

\* The view shows what it got.
Loaded(c) ==
    /\ Go(c, "view", "served", "done")
    /\ UNCHANGED <<registered, row, parent, jar, access, page, op, sent, fresh>>

\* logout() clears the store of its page only.
LoggedOut(c) ==
    /\ Go(c, "logout", "loggedOut", "done")
    /\ Store(c, "none")
    /\ UNCHANGED <<registered, row, parent, jar, page, op, sent, fresh>>

\* The connection breaks, or the page gives the call up.  The handler's context is
\* done, so it runs no further statement; api throws, which only restore() catches.
Lose(c) ==
    /\ "lost" \in Faults
    /\ c \in Underway
    /\ phase' = [phase EXCEPT ![c] = "lost"]
    /\ IF op[c] = "refresh" THEN Store(c, "none") ELSE UNCHANGED access
    /\ UNCHANGED <<registered, row, parent, jar, page, op, sent, fresh>>

--------------------------------------------------------------------------------

\* The calls, or the tokens, of the model are used up.
Terminated ==
    /\ Underway = {} \/ (\A t \in Tokens : row[t] # "none")
    /\ UNCHANGED vars

Next ==
    \/ \E c \in Calls : \/ \E p \in Pages, o \in Ops \ {"none"} : Call(p, c, o)
                        \/ RateLimited(c) \/ FindToken(c) \/ RevokeUsed(c)
                        \/ Register(c) \/ Login(c) \/ Issue(c) \/ Logout(c)
                        \/ UserFromAccessToken(c) \/ Registered(c) \/ Loaded(c)
                        \/ setRefreshCookie(c) \/ clearRefreshCookie(c)
                        \/ SignedIn(c) \/ Denied(c) \/ LoggedOut(c) \/ Lose(c)
    \/ \E t \in Tokens : Expire(t)
    \/ \E p \in Pages : Reload(p) \/ ExpireAccess(p)
    \/ Terminated

Spec == Init /\ [][Next]_vars

--------------------------------------------------------------------------------
(* Properties *)

\* docs/backend.md:129, "revoke old token": of a token and the one it was exchanged
\* for, never both can be used, whatever overlaps, fails or breaks off in between.
ExchangedIsRevoked ==
    \A t \in Tokens : row[t] = "active" /\ parent[t] # None => row[parent[t]] = "revoked"

\* A page that is loaded again can restore the session, as long as the token lives: a
\* cookie in the browser is a token that was neither exchanged nor revoked, through any
\* logins, refreshes and logouts of several pages that overlap or fail; unless a refresh
\* or a logout that was sent with it is still underway, or was lost.
CookieIsUsable ==
    LET t == jar[refreshCookieName]
    IN  t # None =>
           \/ row[t] \in {"active", "expired"}
           \/ \E c \in Calls : /\ op[c] \in {"refresh", "logout"} /\ phase[c] # "done"
                                /\ sent[c][refreshCookieName] = t

--------------------------------------------------------------------------------
(* What documents, comments or tests say and the code does not keep: TLC finds a   *)
(* counterexample to each of these under the constants that README.md names        *)

\* docs/backend.md:130: logout revokes the refresh token.  Once it has answered, the
\* token that the session was refreshed with cannot be used.
LogoutRevokes ==
    \A c \in Calls :
        op[c] = "logout" /\ phase[c] = "done" /\ sent[c][refreshCookieName] # None =>
            row[sent[c][refreshCookieName]] # "active"

\* auth/integration_test.go:53-55: a refresh token that was used is refused.  No two
\* tokens are issued in exchange for one.
UsedOnce == \A t, u \in Tokens : parent[t] # None /\ parent[t] = parent[u] => t = u

\* frontend/src/stores/auth.test.ts:4-5: restore() clears state when there is no valid
\* session to restore.  Only a logout drops the cookie of a token that can be used.
SessionIsNotDropped ==
    [][LET t == jar[refreshCookieName]
       IN  Usable(t) /\ jar'[refreshCookieName] = None
              => \E c \in Calls : op[c] = "logout" /\ phase'[c] # phase[c]]_vars

\* frontend/src/stores/auth.test.ts:6: logout() always clears local state.
LogoutClearsStore ==
    [][\A c \in Calls : op[c] = "logout" /\ phase[c] \notin Over /\ phase'[c] \in Over
          => access'[page[c]] = "none"]_vars

\* ngrok_clone_implementation_plan.md:1873, "retry refresh on 401": a view that is denied
\* does not leave the store with an access token that has expired.
ExpiredIsRefreshed ==
    [][\A c \in Calls : op[c] = "view" /\ phase[c] = "denied" /\ phase'[c] = "done"
          => access'[page[c]] # "expired"]_vars
================================================================================
