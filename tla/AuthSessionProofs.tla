---------------------------- MODULE AuthSessionProofs ----------------------------
(***************************************************************************)
(* For any number of pages, calls and tokens, whatever overlaps and fails: *)
(* an exchanged token is revoked, and the browser's cookie can be used.    *)
(* The inductive invariant follows a token from its drawing to the cookie. *)
(***************************************************************************)
EXTENDS AuthSession, TLAPS

Cookie(c) == sent[c][refreshCookieName]

\* The browser has the token, or sent it with a call.
Known(t) == jar[refreshCookieName] = t \/ \E c \in Calls : Cookie(c) = t

Alive(t) == t \in Tokens /\ row[t] \in {"active", "expired"}

\* The call may have revoked its token; when it ends it changes the cookie, or is lost.
Spent(c) ==
    \/ op[c] \in {"refresh", "logout"} /\ phase[c] = "lost"
    \/ op[c] = "refresh" /\ phase[c] \in {"issuing", "issued", "denied"}
    \/ op[c] = "logout" /\ phase[c] = "cleared"

\* Between the SELECT and the INSERT of a refresh.
Exchange ==
    /\ \A c \in Calls :
          /\ phase[c] = "issuing" => op[c] \in {"login", "refresh"}
          /\ op[c] = "refresh" /\ phase[c] \in {"found", "issuing"} => Cookie(c) \in Tokens
          /\ op[c] = "refresh" /\ phase[c] = "issuing" => row[Cookie(c)] = "revoked"
    /\ \A t \in Tokens : parent[t] # None => row[parent[t]] = "revoked"

\* A token is drawn, issued to one call, and known only when that call has answered.
Drawn ==
    /\ \A t \in Tokens : row[t] = "none" => ~Known(t)
    /\ \A c \in Calls : phase[c] = "issued" => Alive(fresh[c]) /\ ~Known(fresh[c])
    /\ \A c, d \in Calls :
          phase[c] = "issued" /\ phase[d] = "issued" /\ fresh[c] = fresh[d] => c = d

\* The cookie of the other name is never set.
OneCookie ==
    \A n \in Names : n # refreshCookieName => jar[n] = None /\ \A c \in Calls : sent[c][n] = None

\* The cookie can be used, unless a call that was sent with it has used it up.
Restorable ==
    jar[refreshCookieName] # None =>
        \/ Alive(jar[refreshCookieName])
        \/ \E c \in Calls : Spent(c) /\ Cookie(c) = jar[refreshCookieName]

IInv == TypeOK /\ Exchange /\ Drawn /\ OneCookie /\ Restorable

--------------------------------------------------------------------------------

\* The cookie has one of the two names, in development and in production.
LEMMA CookieName == refreshCookieName \in Names /\ "refresh_token" \in Names
BY Zenon DEF refreshCookieName, Names

\* Every statement and every answer keeps the types.
LEMMA TypeStep ==
    TypeOK /\ [Next]_vars => TypeOK'
<1> SUFFICES ASSUME TypeOK, [Next]_vars PROVE TypeOK'
    OBVIOUS
<1> USE CookieName, NoneAssumption DEF TypeOK, Jars, Ops, Phases
<1>1. ASSUME NEW p \in Pages, NEW c \in Calls, NEW o \in Ops \ {"none"}, Call(p, c, o) PROVE TypeOK'
    BY <1>1 DEF Call
<1>2. ASSUME NEW c \in Calls, Registered(c) PROVE TypeOK'
    BY <1>2 DEF Registered, Go
<1>3. ASSUME NEW c \in Calls, RateLimited(c) PROVE TypeOK'
    BY ZenonT(60), <1>3 DEF RateLimited, Store, Go
<1>4. ASSUME NEW c \in Calls, FindToken(c) PROVE TypeOK'
    BY ZenonT(60), <1>4 DEF FindToken, Usable, Go
<1>5. ASSUME NEW c \in Calls, RevokeUsed(c) PROVE TypeOK'
    BY ZenonT(60), <1>5 DEF RevokeUsed, Revoked, Go
<1>6. ASSUME NEW c \in Calls, Register(c) PROVE TypeOK'
    BY ZenonT(60), <1>6 DEF Register, Go
<1>7. ASSUME NEW c \in Calls, UserFromAccessToken(c) PROVE TypeOK'
    BY ZenonT(60), <1>7 DEF UserFromAccessToken, Go
<1>8. ASSUME NEW c \in Calls, Login(c) PROVE TypeOK'
    BY ZenonT(60), <1>8 DEF Login, Go
<1>9. ASSUME NEW c \in Calls, Issue(c) PROVE TypeOK'
  <2>1. sent[c][refreshCookieName] \in Tokens \cup {None} /\ None \in Tokens \cup {None}
    BY SMTT(60), Z3T(60)
  <2>2. CASE UNCHANGED <<row, parent, fresh>>
    BY ZenonT(60), <1>9, <2>2 DEF Issue, Go
  <2>3. ASSUME NEW t \in Tokens, NEW p \in Tokens \cup {None},
               row' = [row EXCEPT ![t] = "active"],
               parent' = [parent EXCEPT ![t] = p],
               fresh' = [fresh EXCEPT ![c] = t]
        PROVE  TypeOK'
    BY ZenonT(60), <1>9, <2>3 DEF Issue, Go
  <2> QED
    BY <1>9, <2>1, <2>2, <2>3 DEF Issue
<1>10. ASSUME NEW c \in Calls, Logout(c) PROVE TypeOK'
    BY <1>10 DEF Logout, Revoked, Go
<1>20. ASSUME NEW c \in Calls, setRefreshCookie(c) PROVE TypeOK'
    BY SMTT(60), Z3T(60), <1>20 DEF setRefreshCookie, Go
<1>21. ASSUME NEW c \in Calls, clearRefreshCookie(c) PROVE TypeOK'
    BY SMTT(60), Z3T(60), <1>21 DEF clearRefreshCookie, NoCookies, Go
<1>11. ASSUME NEW c \in Calls, SignedIn(c) PROVE TypeOK'
    BY <1>11 DEF SignedIn, Store, Go
<1>12. ASSUME NEW c \in Calls, Denied(c) PROVE TypeOK'
    BY ZenonT(60), <1>12 DEF Denied, Store, Go
<1>13. ASSUME NEW c \in Calls, Loaded(c) PROVE TypeOK'
    BY <1>13 DEF Loaded, Go
<1>14. ASSUME NEW c \in Calls, LoggedOut(c) PROVE TypeOK'
    BY <1>14 DEF LoggedOut, Store, Go
<1>15. ASSUME NEW c \in Calls, Lose(c) PROVE TypeOK'
    BY ZenonT(60), <1>15 DEF Lose, Store, Underway, Over
<1>16. ASSUME NEW t \in Tokens, Expire(t) PROVE TypeOK'
    BY <1>16 DEF Expire
<1>17. ASSUME NEW p \in Pages, Reload(p) PROVE TypeOK'
    BY <1>17 DEF Reload
<1>18. ASSUME NEW p \in Pages, ExpireAccess(p) PROVE TypeOK'
    BY Zenon, <1>18 DEF ExpireAccess
<1>19. CASE Terminated \/ UNCHANGED vars
    BY ZenonT(60), <1>19 DEF Terminated, vars
<1> QED
    BY <1>1, <1>2, <1>3, <1>4, <1>5, <1>6, <1>7, <1>8, <1>9, <1>10,
       <1>11, <1>12, <1>13, <1>14, <1>15, <1>16, <1>17, <1>18, <1>19, <1>20, <1>21 DEF Next

\* A token that is issued in exchange finds its parent revoked, and revoked tokens stay so.
LEMMA ExchangeStep ==
    TypeOK /\ Exchange /\ [Next]_vars => Exchange'
<1> SUFFICES ASSUME TypeOK, Exchange, [Next]_vars PROVE Exchange'
    OBVIOUS
<1> USE CookieName, NoneAssumption DEF TypeOK, Jars, Exchange, Cookie
<1>1. ASSUME NEW p \in Pages, NEW c \in Calls, NEW o \in Ops \ {"none"}, Call(p, c, o) PROVE Exchange'
    BY SMTT(60), Z3T(60), <1>1 DEF Call
<1>2. ASSUME NEW c \in Calls, Registered(c) PROVE Exchange'
    BY ZenonT(60), <1>2 DEF Registered, Go
<1>3. ASSUME NEW c \in Calls, RateLimited(c) PROVE Exchange'
    BY SMTT(60), Z3T(60), <1>3 DEF RateLimited, Store, Go
<1>4. ASSUME NEW c \in Calls, FindToken(c) PROVE Exchange'
    BY SMTT(60), Z3T(60), <1>4 DEF FindToken, Usable, Go
<1>5. ASSUME NEW c \in Calls, RevokeUsed(c) PROVE Exchange'
    BY SMTT(60), Z3T(60), <1>5 DEF RevokeUsed, Revoked, Go
<1>6. ASSUME NEW c \in Calls, Register(c) PROVE Exchange'
    BY SMTT(60), Z3T(60), <1>6 DEF Register, Go
<1>7. ASSUME NEW c \in Calls, UserFromAccessToken(c) PROVE Exchange'
    BY SMTT(60), Z3T(60), <1>7 DEF UserFromAccessToken, Go
<1>8. ASSUME NEW c \in Calls, Login(c) PROVE Exchange'
    BY SMTT(60), Z3T(60), <1>8 DEF Login, Go
<1>9. ASSUME NEW c \in Calls, Issue(c) PROVE Exchange'
    BY SMTT(60), Z3T(60), <1>9 DEF Issue, Go
<1>10. ASSUME NEW c \in Calls, Logout(c) PROVE Exchange'
    BY SMTT(60), Z3T(60), <1>10 DEF Logout, Revoked, Go
<1>20. ASSUME NEW c \in Calls, setRefreshCookie(c) PROVE Exchange'
    BY SMTT(60), Z3T(60), <1>20 DEF setRefreshCookie, Go
<1>21. ASSUME NEW c \in Calls, clearRefreshCookie(c) PROVE Exchange'
    BY SMTT(60), Z3T(60), <1>21 DEF clearRefreshCookie, NoCookies, Go
<1>11. ASSUME NEW c \in Calls, SignedIn(c) PROVE Exchange'
    BY ZenonT(60), <1>11 DEF SignedIn, Store, Go
<1>12. ASSUME NEW c \in Calls, Denied(c) PROVE Exchange'
    BY ZenonT(60), <1>12 DEF Denied, Store, Go
<1>13. ASSUME NEW c \in Calls, Loaded(c) PROVE Exchange'
    BY ZenonT(60), <1>13 DEF Loaded, Go
<1>14. ASSUME NEW c \in Calls, LoggedOut(c) PROVE Exchange'
    BY ZenonT(60), <1>14 DEF LoggedOut, Store, Go
<1>15. ASSUME NEW c \in Calls, Lose(c) PROVE Exchange'
    BY ZenonT(60), <1>15 DEF Lose, Store, Underway, Over
<1>16. ASSUME NEW t \in Tokens, Expire(t) PROVE Exchange'
    BY SMTT(60), Z3T(60), <1>16 DEF Expire
<1>17. ASSUME NEW p \in Pages, Reload(p) PROVE Exchange'
    BY <1>17 DEF Reload
<1>18. ASSUME NEW p \in Pages, ExpireAccess(p) PROVE Exchange'
    BY <1>18 DEF ExpireAccess
<1>19. CASE Terminated \/ UNCHANGED vars
    BY ZenonT(60), <1>19 DEF Terminated, vars
<1> QED
    BY ZenonT(60), <1>1, <1>2, <1>3, <1>4, <1>5, <1>6, <1>7, <1>8, <1>9, <1>10,
       <1>11, <1>12, <1>13, <1>14, <1>15, <1>16, <1>17, <1>18, <1>19, <1>20, <1>21 DEF Next

\* A token reaches the browser only with the answer of the one call it was issued for.
LEMMA DrawnStep ==
    TypeOK /\ OneCookie /\ Exchange /\ Drawn /\ [Next]_vars => Drawn'
<1> SUFFICES ASSUME TypeOK, OneCookie, Exchange, Drawn, [Next]_vars PROVE Drawn'
    BY Zenon
<1> USE CookieName, NoneAssumption DEF TypeOK, Jars, Drawn, Known, Alive, Cookie
<1>1. ASSUME NEW p \in Pages, NEW c \in Calls, NEW o \in Ops \ {"none"}, Call(p, c, o) PROVE Drawn'
    BY SMTT(60), Z3T(60), <1>1 DEF Call
<1>2. ASSUME NEW c \in Calls, Registered(c) PROVE Drawn'
  <2>1. \A t \in Tokens : Known(t)' => Known(t)
    BY <1>2 DEF Registered
  <2>2. \A d \in Calls : phase'[d] = "issued" => phase[d] = "issued"
    BY <1>2 DEF Registered, Go
  <2>3. row' = row /\ fresh' = fresh
    BY <1>2 DEF Registered
  <2> HIDE DEF TypeOK, Known
  <2> QED
    BY <2>1, <2>2, <2>3
<1>3. ASSUME NEW c \in Calls, RateLimited(c) PROVE Drawn'
  <2>1. \A d \in Calls : phase'[d] = "issued" => phase[d] = "issued"
    BY ZenonT(60), <1>3 DEF RateLimited, Store, Go
  <2>2. UNCHANGED <<row, jar, sent, fresh>>
    BY <1>3 DEF RateLimited
  <2> HIDE DEF TypeOK
  <2> QED
    BY ZenonT(60), <2>1, <2>2
<1>4. ASSUME NEW c \in Calls, FindToken(c) PROVE Drawn'
  <2>1. \A d \in Calls : phase'[d] = "issued" => phase[d] = "issued"
    BY ZenonT(60), <1>4 DEF FindToken, Go
  <2>2. UNCHANGED <<row, jar, sent, fresh>>
    BY <1>4 DEF FindToken
  <2> HIDE DEF TypeOK
  <2> QED
    BY <2>1, <2>2
<1>5. ASSUME NEW c \in Calls, RevokeUsed(c) PROVE Drawn'
  <2>1. row' = row \/ (Cookie(c) \in Tokens /\ row' = [row EXCEPT ![Cookie(c)] = "revoked"])
    BY <1>5 DEF RevokeUsed, Revoked, Go, Exchange
  <2>2. \A t \in Tokens : /\ row'[t] = "none" => row[t] = "none"
                          /\ t # Cookie(c) => row'[t] = row[t]
    BY ZenonT(60), <2>1
  <2>3. \A d \in Calls : phase'[d] = "issued" => phase[d] = "issued" /\ fresh[d] # Cookie(c)
    BY SMTT(60), Z3T(60), <1>5 DEF RevokeUsed, Revoked, Go
  <2>4. jar' = jar /\ sent' = sent /\ fresh' = fresh
    BY <1>5 DEF RevokeUsed
  <2> HIDE DEF TypeOK
  <2>5. ASSUME NEW t \in Tokens, row'[t] = "none" PROVE ~Known(t)'
    BY SMTT(60), Z3T(60), <2>2, <2>4, <2>5
  <2>6. ASSUME NEW d \in Calls, phase'[d] = "issued" PROVE (Alive(fresh[d]) /\ ~Known(fresh[d]))'
    <3>1. Alive(fresh[d]) /\ ~Known(fresh[d]) /\ fresh[d] # Cookie(c)
      BY <2>3, <2>6
    <3> QED
      BY Zenon, <2>2, <2>4, <3>1
  <2>7. ASSUME NEW d \in Calls, NEW e \in Calls, phase'[d] = "issued", phase'[e] = "issued",
               fresh'[d] = fresh'[e]
        PROVE  d = e
    BY <2>3, <2>4, <2>7
  <2> HIDE DEF Known, Alive
  <2> QED
    BY <2>5, <2>6, <2>7
<1>6. ASSUME NEW c \in Calls, Register(c) PROVE Drawn'
  <2>1. \A d \in Calls : phase'[d] = "issued" => phase[d] = "issued"
    BY ZenonT(60), <1>6 DEF Register, Go
  <2>2. UNCHANGED <<row, jar, sent, fresh>>
    BY <1>6 DEF Register
  <2> HIDE DEF TypeOK
  <2> QED
    BY <2>1, <2>2
<1>7. ASSUME NEW c \in Calls, UserFromAccessToken(c) PROVE Drawn'
  <2>1. \A d \in Calls : phase'[d] = "issued" => phase[d] = "issued"
    BY ZenonT(60), <1>7 DEF UserFromAccessToken, Go
  <2>2. UNCHANGED <<row, jar, sent, fresh>>
    BY <1>7 DEF UserFromAccessToken
  <2> HIDE DEF TypeOK
  <2> QED
    BY <2>1, <2>2
<1>8. ASSUME NEW c \in Calls, Login(c) PROVE Drawn'
  <2>1. \A d \in Calls : phase'[d] = "issued" => phase[d] = "issued"
    BY ZenonT(60), <1>8 DEF Login, Go
  <2>2. UNCHANGED <<row, jar, sent, fresh>>
    BY <1>8 DEF Login
  <2> HIDE DEF TypeOK
  <2> QED
    BY <2>1, <2>2
<1>9. ASSUME NEW c \in Calls, Issue(c) PROVE Drawn'
  <2>1. CASE UNCHANGED <<row, fresh>>
    BY SMTT(60), Z3T(60), <1>9, <2>1 DEF Issue, Go
  <2>2. ASSUME NEW t \in Tokens, row[t] = "none", phase' = [phase EXCEPT ![c] = "issued"],
               row' = [row EXCEPT ![t] = "active"], fresh' = [fresh EXCEPT ![c] = t]
        PROVE  Drawn'
    <3>1. ~Known(t) /\ (\A d \in Calls : phase[d] = "issued" => fresh[d] # t)
      BY <2>2
    <3>2. /\ \A u \in Tokens : u # t => row'[u] = row[u]
          /\ row'[t] = "active" /\ fresh'[c] = t /\ phase'[c] = "issued"
          /\ \A d \in Calls : d # c => fresh'[d] = fresh[d] /\ phase'[d] = phase[d]
      BY ZenonT(60), <2>2
    <3>3. jar' = jar /\ sent' = sent
      BY <1>9 DEF Issue
    <3>4. \A u \in Tokens : row'[u] = "none" => ~Known(u)'
      BY SMTT(60), Z3T(60), <3>2, <3>3
    <3>5. ASSUME NEW d \in Calls, phase'[d] = "issued" PROVE (Alive(fresh[d]) /\ ~Known(fresh[d]))'
      <4>1. CASE d = c
        BY Zenon, <4>1, <3>1, <3>2, <3>3
      <4>2. CASE d # c
        BY SMTT(60), Z3T(60), <4>2, <3>1, <3>2, <3>3, <3>5
      <4> QED
        BY <4>1, <4>2
    <3>6. ASSUME NEW d \in Calls, NEW e \in Calls, phase'[d] = "issued", phase'[e] = "issued",
                 fresh'[d] = fresh'[e]
          PROVE  d = e
      BY SMTT(60), Z3T(60), <3>1, <3>2, <3>6
    <3> HIDE DEF Known, Alive
    <3> QED
      BY <3>4, <3>5, <3>6
  <2> QED
    BY Zenon, <1>9, <2>1, <2>2 DEF Issue, Go
<1>10. ASSUME NEW c \in Calls, Logout(c) PROVE Drawn'
  <2>1. row' = row \/ (Cookie(c) \in Tokens /\ row' = [row EXCEPT ![Cookie(c)] = "revoked"])
    BY SMTT(60), Z3T(60), <1>10 DEF Logout, Revoked, Go, OneCookie
  <2>2. \A t \in Tokens : /\ row'[t] = "none" => row[t] = "none"
                          /\ t # Cookie(c) => row'[t] = row[t]
    BY <2>1
  <2>3. \A d \in Calls : phase'[d] = "issued" => phase[d] = "issued" /\ fresh[d] # Cookie(c)
    BY ZenonT(60), <1>10 DEF Logout, Revoked, Go
  <2>4. jar' = jar /\ sent' = sent /\ fresh' = fresh
    BY <1>10 DEF Logout
  <2> HIDE DEF TypeOK
  <2>5. ASSUME NEW t \in Tokens, row'[t] = "none" PROVE ~Known(t)'
    BY <2>2, <2>4, <2>5
  <2>6. ASSUME NEW d \in Calls, phase'[d] = "issued" PROVE (Alive(fresh[d]) /\ ~Known(fresh[d]))'
    <3>1. Alive(fresh[d]) /\ ~Known(fresh[d]) /\ fresh[d] # Cookie(c)
      BY <2>3, <2>6
    <3> QED
      BY <2>2, <2>4, <3>1
  <2>7. ASSUME NEW d \in Calls, NEW e \in Calls, phase'[d] = "issued", phase'[e] = "issued",
               fresh'[d] = fresh'[e]
        PROVE  d = e
    BY <2>3, <2>4, <2>7
  <2> HIDE DEF Known, Alive
  <2> QED
    BY <2>5, <2>6, <2>7
<1>20. ASSUME NEW c \in Calls, setRefreshCookie(c) PROVE Drawn'
    BY SMTT(60), Z3T(60), <1>20 DEF setRefreshCookie, Go
<1>21. ASSUME NEW c \in Calls, clearRefreshCookie(c) PROVE Drawn'
    BY SMTT(60), Z3T(60), <1>21 DEF clearRefreshCookie, NoCookies, Go
<1>11. ASSUME NEW c \in Calls, SignedIn(c) PROVE Drawn'
    BY SMTT(60), Z3T(60), <1>11 DEF SignedIn, Store, Go
<1>12. ASSUME NEW c \in Calls, Denied(c) PROVE Drawn'
    BY SMTT(60), Z3T(60), <1>12 DEF Denied, Store, Go
<1>13. ASSUME NEW c \in Calls, Loaded(c) PROVE Drawn'
  <2>1. \A d \in Calls : phase'[d] = "issued" => phase[d] = "issued"
    BY <1>13 DEF Loaded, Go
  <2>2. UNCHANGED <<row, jar, sent, fresh>>
    BY <1>13 DEF Loaded
  <2> HIDE DEF TypeOK
  <2> QED
    BY <2>1, <2>2
<1>14. ASSUME NEW c \in Calls, LoggedOut(c) PROVE Drawn'
    BY SMTT(60), Z3T(60), <1>14 DEF LoggedOut, Store, Go
<1>15. ASSUME NEW c \in Calls, Lose(c) PROVE Drawn'
    BY SMTT(60), Z3T(60), <1>15 DEF Lose, Store, Underway, Over
<1>16. ASSUME NEW t \in Tokens, Expire(t) PROVE Drawn'
    BY ZenonT(60), <1>16 DEF Expire
<1>17. ASSUME NEW p \in Pages, Reload(p) PROVE Drawn'
    BY ZenonT(60), <1>17 DEF Reload
<1>18. ASSUME NEW p \in Pages, ExpireAccess(p) PROVE Drawn'
    BY ZenonT(60), <1>18 DEF ExpireAccess
<1>19. CASE Terminated \/ UNCHANGED vars
    BY SMTT(60), Z3T(60), <1>19 DEF Terminated, vars
<1> QED
    BY ZenonT(60), <1>1, <1>2, <1>3, <1>4, <1>5, <1>6, <1>7, <1>8, <1>9, <1>10,
       <1>11, <1>12, <1>13, <1>14, <1>15, <1>16, <1>17, <1>18, <1>19, <1>20, <1>21 DEF Next

\* Only the name of the build is set.
LEMMA OneCookieStep ==
    TypeOK /\ OneCookie /\ [Next]_vars => OneCookie'
<1> SUFFICES ASSUME TypeOK, OneCookie, [Next]_vars PROVE OneCookie'
    OBVIOUS
<1> USE CookieName, NoneAssumption DEF TypeOK, Jars, OneCookie
<1>1. ASSUME NEW p \in Pages, NEW c \in Calls, NEW o \in Ops \ {"none"}, Call(p, c, o) PROVE OneCookie'
    BY <1>1 DEF Call
<1>2. ASSUME NEW c \in Calls, Registered(c) PROVE OneCookie'
    BY <1>2 DEF Registered, Go
<1>3. ASSUME NEW c \in Calls, RateLimited(c) PROVE OneCookie'
    BY <1>3 DEF RateLimited, Store, Go
<1>4. ASSUME NEW c \in Calls, FindToken(c) PROVE OneCookie'
    BY <1>4 DEF FindToken, Usable, Go
<1>5. ASSUME NEW c \in Calls, RevokeUsed(c) PROVE OneCookie'
    BY <1>5 DEF RevokeUsed, Revoked, Go
<1>6. ASSUME NEW c \in Calls, Register(c) PROVE OneCookie'
    BY <1>6 DEF Register, Go
<1>7. ASSUME NEW c \in Calls, UserFromAccessToken(c) PROVE OneCookie'
    BY <1>7 DEF UserFromAccessToken, Go
<1>8. ASSUME NEW c \in Calls, Login(c) PROVE OneCookie'
    BY <1>8 DEF Login, Go
<1>9. ASSUME NEW c \in Calls, Issue(c) PROVE OneCookie'
    BY <1>9 DEF Issue, Go
<1>10. ASSUME NEW c \in Calls, Logout(c) PROVE OneCookie'
    BY <1>10 DEF Logout, Revoked, Go
<1>20. ASSUME NEW c \in Calls, setRefreshCookie(c) PROVE OneCookie'
    BY SMTT(60), Z3T(60), <1>20 DEF setRefreshCookie, Go
<1>21. ASSUME NEW c \in Calls, clearRefreshCookie(c) PROVE OneCookie'
    BY SMTT(60), Z3T(60), <1>21 DEF clearRefreshCookie, NoCookies, Go
<1>11. ASSUME NEW c \in Calls, SignedIn(c) PROVE OneCookie'
    BY <1>11 DEF SignedIn, Store, Go
<1>12. ASSUME NEW c \in Calls, Denied(c) PROVE OneCookie'
    BY ZenonT(60), <1>12 DEF Denied, Store, Go
<1>13. ASSUME NEW c \in Calls, Loaded(c) PROVE OneCookie'
    BY <1>13 DEF Loaded, Go
<1>14. ASSUME NEW c \in Calls, LoggedOut(c) PROVE OneCookie'
    BY <1>14 DEF LoggedOut, Store, Go
<1>15. ASSUME NEW c \in Calls, Lose(c) PROVE OneCookie'
    BY SMTT(60), Z3T(60), <1>15 DEF Lose, Store, Underway, Over
<1>16. ASSUME NEW t \in Tokens, Expire(t) PROVE OneCookie'
    BY <1>16 DEF Expire
<1>17. ASSUME NEW p \in Pages, Reload(p) PROVE OneCookie'
    BY <1>17 DEF Reload
<1>18. ASSUME NEW p \in Pages, ExpireAccess(p) PROVE OneCookie'
    BY Zenon, <1>18 DEF ExpireAccess
<1>19. CASE Terminated \/ UNCHANGED vars
    BY ZenonT(60), <1>19 DEF Terminated, vars
<1> QED
    BY ZenonT(60), <1>1, <1>2, <1>3, <1>4, <1>5, <1>6, <1>7, <1>8, <1>9, <1>10,
       <1>11, <1>12, <1>13, <1>14, <1>15, <1>16, <1>17, <1>18, <1>19, <1>20, <1>21 DEF Next

\* Whoever uses the cookie's token up replaces the cookie, drops it or is lost.
LEMMA RestorableStep ==
    TypeOK /\ Exchange /\ Drawn /\ OneCookie /\ Restorable /\ [Next]_vars => Restorable'
<1> SUFFICES ASSUME TypeOK, Exchange, Drawn, OneCookie, Restorable, [Next]_vars PROVE Restorable'
    BY Zenon
<1> USE CookieName, NoneAssumption
    DEF TypeOK, Jars, Exchange, Drawn, OneCookie, Restorable, Known, Alive, Cookie, Spent
<1>1. ASSUME NEW p \in Pages, NEW c \in Calls, NEW o \in Ops \ {"none"}, Call(p, c, o) PROVE Restorable'
    BY SMTT(60), Z3T(60), <1>1 DEF Call
<1>2. ASSUME NEW c \in Calls, Registered(c) PROVE Restorable'
    BY SMTT(60), Z3T(60), <1>2 DEF Registered, Go
<1>3. ASSUME NEW c \in Calls, RateLimited(c) PROVE Restorable'
    BY SMTT(60), Z3T(60), <1>3 DEF RateLimited, Store, Go
<1>4. ASSUME NEW c \in Calls, FindToken(c) PROVE Restorable'
    BY SMTT(60), Z3T(60), <1>4 DEF FindToken, Usable, Go
<1>5. ASSUME NEW c \in Calls, RevokeUsed(c) PROVE Restorable'
    BY SMTT(60), Z3T(60), <1>5 DEF RevokeUsed, Revoked, Go
<1>6. ASSUME NEW c \in Calls, Register(c) PROVE Restorable'
    BY SMTT(60), Z3T(60), <1>6 DEF Register, Go
<1>7. ASSUME NEW c \in Calls, UserFromAccessToken(c) PROVE Restorable'
    BY SMTT(60), Z3T(60), <1>7 DEF UserFromAccessToken, Go
<1>8. ASSUME NEW c \in Calls, Login(c) PROVE Restorable'
    BY SMTT(60), Z3T(60), <1>8 DEF Login, Go
<1>9. ASSUME NEW c \in Calls, Issue(c) PROVE Restorable'
    BY SMTT(60), Z3T(60), <1>9 DEF Issue, Go
<1>10. ASSUME NEW c \in Calls, Logout(c) PROVE Restorable'
    BY SMTT(60), Z3T(60), <1>10 DEF Logout, Revoked, Go
<1>20. ASSUME NEW c \in Calls, setRefreshCookie(c) PROVE Restorable'
    BY SMTT(60), Z3T(60), <1>20 DEF setRefreshCookie, Go
<1>21. ASSUME NEW c \in Calls, clearRefreshCookie(c) PROVE Restorable'
    BY SMTT(60), Z3T(60), <1>21 DEF clearRefreshCookie, NoCookies, Go
<1>11. ASSUME NEW c \in Calls, SignedIn(c) PROVE Restorable'
    BY SMTT(60), Z3T(60), <1>11 DEF SignedIn, Store, Go
<1>12. ASSUME NEW c \in Calls, Denied(c) PROVE Restorable'
    BY SMTT(60), Z3T(60), <1>12 DEF Denied, Store, Go
<1>13. ASSUME NEW c \in Calls, Loaded(c) PROVE Restorable'
    BY SMTT(60), Z3T(60), <1>13 DEF Loaded, Go
<1>14. ASSUME NEW c \in Calls, LoggedOut(c) PROVE Restorable'
    BY Zenon, <1>14 DEF LoggedOut, Store, Go
<1>15. ASSUME NEW c \in Calls, Lose(c) PROVE Restorable'
    BY SMTT(60), Z3T(60), <1>15 DEF Lose, Store, Underway, Over
<1>16. ASSUME NEW t \in Tokens, Expire(t) PROVE Restorable'
    BY SMTT(60), Z3T(60), <1>16 DEF Expire
<1>17. ASSUME NEW p \in Pages, Reload(p) PROVE Restorable'
    BY ZenonT(60), <1>17 DEF Reload
<1>18. ASSUME NEW p \in Pages, ExpireAccess(p) PROVE Restorable'
    BY ZenonT(60), <1>18 DEF ExpireAccess
<1>19. CASE Terminated \/ UNCHANGED vars
    BY SMTT(60), Z3T(60), <1>19 DEF Terminated, vars
<1> QED
    BY ZenonT(60), <1>1, <1>2, <1>3, <1>4, <1>5, <1>6, <1>7, <1>8, <1>9, <1>10,
       <1>11, <1>12, <1>13, <1>14, <1>15, <1>16, <1>17, <1>18, <1>19, <1>20, <1>21 DEF Next

\* Nothing is issued, sent or known at first.
LEMMA InitIInv == Init => IInv
<1> SUFFICES ASSUME Init PROVE IInv
    OBVIOUS
<1> USE CookieName, NoneAssumption DEF Init, NoCookies
<1>1. TypeOK
    BY DEF TypeOK, Jars, Ops, Phases
<1>2. Exchange /\ OneCookie
    BY DEF Exchange, OneCookie, Cookie
<1>3. Drawn /\ Restorable
    BY DEF Drawn, Restorable, Known, Alive, Cookie
<1> QED
    BY <1>1, <1>2, <1>3 DEF IInv

\* The life of a token, for any number of pages, calls and tokens.
THEOREM TokensAreTracked == Spec => []IInv
<1>1. IInv /\ [Next]_vars => IInv'
    BY TypeStep, ExchangeStep, DrawnStep, OneCookieStep, RestorableStep DEF IInv
<1> QED
    BY InitIInv, <1>1, PTL DEF Spec

\* The cookie jars, the tables and the calls of the pages keep their types.
THEOREM TypeCorrect == Spec => []TypeOK
<1>1. IInv => TypeOK
    BY DEF IInv
<1> QED
    BY <1>1, TokensAreTracked, PTL

\* docs/backend.md:129, "revoke old token": Refresh never leaves a token usable beside the
\* one that was issued for it, with any overlap of calls and any fault of the database or
\* of a connection.
THEOREM ExchangedAreRevoked == Spec => []ExchangedIsRevoked
<1>1. IInv => ExchangedIsRevoked
    BY Zenon DEF IInv, Exchange, ExchangedIsRevoked
<1> QED
    BY <1>1, TokensAreTracked, PTL

\* The cookie in the browser is a token that restore() can use until it expires, with
\* any number of pages, unless a refresh or a logout that was sent with it is underway
\* or was lost.
THEOREM CookiesAreUsable == Spec => []CookieIsUsable
<1>1. IInv => CookieIsUsable
  <2>1. ASSUME NEW c \in Calls, Spent(c) PROVE op[c] \in {"refresh", "logout"} /\ phase[c] # "done"
    BY <2>1 DEF Spent
  <2> QED
    BY <2>1 DEF IInv, Restorable, CookieIsUsable, Alive, Cookie
<1> QED
    BY <1>1, TokensAreTracked, PTL
================================================================================
