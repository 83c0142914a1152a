--------------------------- MODULE BrowserSession ----------------------------
(***************************************************************************)
(* One browser tab's session: AuthProvider (frontend/src/auth), the token  *)
(* holder and middleware (frontend/src/api), the routes of app/api/auth.py *)
(* and Keycloak's sessions.  Answers arrive in any order.                  *)
(***************************************************************************)
EXTENDS Accounts, Sequences

CONSTANT NoOne

VARIABLES
    tab,       \* AuthProvider and api/auth.ts
    cookie,    \* the refresh cookie: a Keycloak session, or 0
    session,   \* Keycloak: the user of each session it opened, in order, and which still stand
    signin,    \* POST /auth/login and the profile read after it
    signout,   \* POST /auth/logout
    refresh,   \* POST /auth/refresh
    call       \* one ordinary authenticated request

tabVars == <<tab, cookie, session, signin, signout, refresh, call>>

NoSignin == [phase |-> "none", user |-> NoOne, sid |-> 0]
NoSignout == [phase |-> "none", sid |-> 0]
NoRefresh == [phase |-> "none", sid |-> 0, boot |-> FALSE, clears |-> FALSE]
NoCall == [phase |-> "none", path |-> "ordinary", token |-> NoOne, status |-> 0]

BrowserInit ==
    /\ tab = [phase |-> "starting", user |-> NoOne, token |-> NoOne, stale |-> FALSE, expired |-> FALSE,
              established |-> FALSE, last |-> "none", crossed |-> FALSE]
    /\ \/ session = [users |-> <<>>, live |-> {}]
       \/ \E u \in Users : Live(u) /\ session = [users |-> <<u>>, live |-> {1}]
    /\ cookie = IF session.live = {} THEN 0 ELSE 1
    /\ signin = NoSignin /\ signout = NoSignout /\ call = NoCall
    /\ refresh = [NoRefresh EXCEPT !.phase = "asked", !.boot = TRUE]

\* Requests whose answers the tab would take for the session it has by then.
Crossing == (refresh.phase # "none" /\ ~refresh.boot) \/ call # NoCall

\* Mutant: the token outlives the session.
KeepsToken(to, didExpire, cause) ==
    [to EXCEPT !.established = FALSE, !.user = NoOne, !.expired = didExpire, !.phase = "anonymous",
               !.last = cause]

ClearSession(to, didExpire, cause) ==
    [to EXCEPT !.token = NoOne, !.stale = FALSE, !.established = FALSE, !.user = NoOne,
               !.expired = didExpire, !.phase = "anonymous", !.last = cause]

\* The session ends because something refused it; `last` keeps why the last session ended.
EndedBy(cause) == ClearSession(tab, tab.established, IF tab.established THEN cause ELSE tab.last)

\* What these actions never touch.
others == <<account, trail, holders, command, torn, raced, usurped>>

Fault == faults < MaxFaults /\ faults' = faults + 1
-----------------------------------------------------------------------------
(* The middleware                                                          *)

\* Mutant: the refresh itself waits for a fresh token.
FreshensRefresh == {"login", "logout"}

\* Routes without a bearer: nothing to freshen.
Unauthenticated == {"login", "refresh", "logout"}

\* Routes whose 401 does not end the session.
SessionExempt == Unauthenticated \cup {"change-password"}

NeedsFreshToken == tab.token # NoOne /\ tab.stale

\* ensureFreshToken
PassesMiddleware(path) == path \in Unauthenticated \/ ~NeedsFreshToken
-----------------------------------------------------------------------------
(* Refresh                                                                 *)

SendRefresh ==
    /\ refresh.phase = "asked" /\ PassesMiddleware("refresh")
    /\ refresh' = [refresh EXCEPT !.phase = "sent", !.sid = cookie]
    /\ UNCHANGED <<others, tab, cookie, session, signin, signout, call, row, flows, faults>>

\* service.refresh: no cookie, or a session Keycloak no longer honours, is a 401.
HandleRefresh ==
    /\ refresh.phase = "sent"
    /\ LET sid == refresh.sid
           good == sid \in session.live /\ MayAuthenticate(session.users[sid])
       IN refresh' = [refresh EXCEPT !.phase = IF good THEN "granted" ELSE "denied", !.clears = (sid # 0 /\ ~good)]
    /\ UNCHANGED <<others, tab, cookie, session, signin, signout, call, row, flows, faults>>

\* 503, or no answer.
RefreshUnavailable ==
    /\ refresh.phase \in {"sent", "granted"} /\ Fault
    /\ refresh' = [refresh EXCEPT !.phase = "denied", !.clears = FALSE]
    /\ UNCHANGED <<others, tab, cookie, session, signin, signout, call, row, flows>>

\* What a new token does to the tab; a session that goes on keeps its user.
Take(user) == [tab EXCEPT !.token = user, !.stale = FALSE]

RefreshArrives ==
    /\ refresh.phase \in {"granted", "denied"}
    /\ LET good == refresh.phase = "granted"
           user == IF good THEN session.users[refresh.sid] ELSE NoOne
       IN /\ cookie' = CASE good -> refresh.sid [] ~good /\ refresh.clears -> 0 [] OTHER -> cookie
          /\ tab' = CASE good -> Take(user)
                      [] ~good /\ refresh.boot -> [tab EXCEPT !.phase = "anonymous"]
                      [] OTHER -> EndedBy("refused")
          /\ signin' = IF refresh.boot /\ good THEN [NoSignin EXCEPT !.phase = "profile", !.user = user] ELSE signin
    /\ refresh' = NoRefresh
    /\ UNCHANGED <<others, session, signout, call, row, flows, faults>>
-----------------------------------------------------------------------------
(* Sign-in                                                                 *)

SignIn(u) ==
    /\ tab.phase = "anonymous" /\ signin = NoSignin /\ signout = NoSignout /\ flows < MaxFlows
    /\ flows' = flows + 1
    /\ signin' = [phase |-> "sent", user |-> u, sid |-> 0]
    /\ UNCHANGED <<others, tab, cookie, session, signout, refresh, call, row, faults>>

\* password_grant: wrong credentials and a closed account are refused alike.
PasswordGrant ==
    /\ signin.phase = "sent"
    /\ IF MayAuthenticate(signin.user)
       THEN /\ session' = [users |-> Append(session.users, signin.user),
                           live |-> session.live \cup {Len(session.users) + 1}]
            /\ signin' = [signin EXCEPT !.phase = "granted", !.sid = Len(session.users) + 1]
       ELSE signin' = NoSignin /\ UNCHANGED session
    /\ UNCHANGED <<others, tab, cookie, signout, refresh, call, row, flows, faults>>

\* The row is created or refreshed, and the event recorded, in one commit.
LoginCommits ==
    /\ signin.phase = "granted"
    /\ row' = [row EXCEPT ![signin.user] = Upserted(signin.user)]
    /\ signin' = [signin EXCEPT !.phase = "committed"]
    /\ UNCHANGED <<others, tab, cookie, session, signout, refresh, call, flows, faults>>

\* Keycloak, the database or the answer is lost; Keycloak's session stands.
SignInFails ==
    /\ signin.phase \in {"sent", "granted", "committed"} /\ Fault
    /\ signin' = NoSignin
    /\ UNCHANGED <<others, tab, cookie, session, signout, refresh, call, row, flows>>

\* adopt takes the token before it knows whose it is.
SignInArrives ==
    /\ signin.phase = "committed"
    /\ cookie' = signin.sid
    /\ tab' = [Take(signin.user) EXCEPT !.crossed = (tab.crossed \/ Crossing)]
    /\ signin' = [signin EXCEPT !.phase = "profile"]
    /\ UNCHANGED <<others, session, signout, refresh, call, row, flows, faults>>

\* What GET /auth/me, or any authenticated route, answers the token it was sent.
StatusFor(token) == CASE token = NoOne \/ (token # NoOne /\ row[token] = "absent") -> 401
                      [] token # NoOne /\ row[token] = "disabled" -> 403
                      [] OTHER -> 200

\* The profile is read, or the token is dropped again; a 401 also runs the session's end.  The
\* request and its answer are one step, and the network does not fail in between.
Adopt ==
    LET status == StatusFor(tab.token)
    IN /\ signin.phase = "profile"
       /\ tab' = IF status = 200
                 THEN [tab EXCEPT !.established = TRUE, !.user = tab.token, !.expired = FALSE,
                                  !.phase = "authenticated", !.last = "none"]
                 ELSE [(IF status = 401 THEN EndedBy("refused") ELSE tab)
                       EXCEPT !.token = NoOne, !.phase = "anonymous"]
       /\ signin' = NoSignin
       /\ UNCHANGED <<others, cookie, session, signout, refresh, call, row, flows, faults>>
-----------------------------------------------------------------------------
(* Sign-out                                                                *)

SignOut ==
    /\ tab.phase = "authenticated" /\ signout = NoSignout /\ flows < MaxFlows
    /\ flows' = flows + 1
    /\ signout' = [phase |-> "sent", sid |-> cookie]
    /\ UNCHANGED <<others, tab, cookie, session, signin, refresh, call, row, faults>>

HandleLogout ==
    /\ signout.phase = "sent"
    /\ session' = [session EXCEPT !.live = @ \ {signout.sid}]
    /\ signout' = [signout EXCEPT !.phase = "answered"]
    /\ UNCHANGED <<others, tab, cookie, signin, refresh, call, row, flows, faults>>

\* 503 still clears the cookie.
LogoutUnavailable ==
    /\ signout.phase = "sent" /\ Fault
    /\ signout' = [signout EXCEPT !.phase = "answered"]
    /\ UNCHANGED <<others, tab, cookie, session, signin, refresh, call, row, flows>>

SignedOut ==
    /\ signout.phase = "answered"
    /\ cookie' = 0
    /\ tab' = [ClearSession(tab, FALSE, "signed out") EXCEPT !.crossed = (tab.crossed \/ Crossing)]
    /\ signout' = NoSignout
    /\ UNCHANGED <<others, session, signin, refresh, call, row, flows, faults>>
-----------------------------------------------------------------------------
(* A request                                                               *)

StartCall(path) ==
    /\ tab.phase = "authenticated" /\ call = NoCall /\ flows < MaxFlows
    /\ flows' = flows + 1
    /\ call' = [NoCall EXCEPT !.phase = "waiting", !.path = path]
    /\ UNCHANGED <<others, tab, cookie, session, signin, signout, refresh, row, faults>>

\* The call finds its token about to expire; a renewal under way is waited for, not repeated.
AskRefresh ==
    /\ call.phase = "waiting" /\ ~PassesMiddleware(call.path)
    /\ call' = [call EXCEPT !.phase = "renewing"]
    /\ refresh' = IF refresh = NoRefresh THEN [NoRefresh EXCEPT !.phase = "asked"] ELSE refresh
    /\ UNCHANGED <<others, tab, cookie, session, signin, signout, row, flows, faults>>

\* With the token there is by then, or none.
SendCall ==
    /\ \/ call.phase = "waiting" /\ PassesMiddleware(call.path)
       \/ call.phase = "renewing" /\ refresh = NoRefresh
    /\ call' = [call EXCEPT !.phase = "sent", !.token = tab.token]
    /\ UNCHANGED <<others, tab, cookie, session, signin, signout, refresh, row, flows, faults>>

\* get_current_user; change-password has a 401 of its own.
HandleCall ==
    /\ call.phase = "sent"
    /\ \E status \in {StatusFor(call.token)} \cup (IF call.path = "change-password" THEN {401} ELSE {}) :
          call' = [call EXCEPT !.phase = "answered", !.status = status]
    /\ UNCHANGED <<others, tab, cookie, session, signin, signout, refresh, row, flows, faults>>

\* A token that outlived its five minutes on the way.
CallTooLate ==
    /\ call.phase = "sent" /\ Fault
    /\ call' = [call EXCEPT !.phase = "answered", !.status = 401]
    /\ UNCHANGED <<others, tab, cookie, session, signin, signout, refresh, row, flows>>

CallArrives ==
    /\ call.phase = "answered"
    /\ tab' = IF call.status = 401 /\ call.path \notin SessionExempt
              THEN EndedBy(IF call.path = "change-password" THEN "wrong password" ELSE "refused") ELSE tab
    /\ call' = NoCall
    /\ UNCHANGED <<others, cookie, session, signin, signout, refresh, row, flows, faults>>

\* Half a minute to expiry.
Age ==
    /\ tab.phase = "authenticated" /\ tab.token # NoOne /\ ~tab.stale
    /\ tab' = [tab EXCEPT !.stale = TRUE]
    /\ UNCHANGED <<others, cookie, session, signin, signout, refresh, call, row, flows, faults>>

Answers ==
    \/ SendRefresh \/ HandleRefresh \/ RefreshArrives
    \/ PasswordGrant \/ LoginCommits \/ SignInArrives \/ Adopt
    \/ HandleLogout \/ SignedOut
    \/ AskRefresh \/ SendCall \/ HandleCall \/ CallArrives

BrowserNext ==
    \/ Answers \/ RefreshUnavailable \/ SignInFails \/ LogoutUnavailable \/ CallTooLate
    \/ \E u \in Users : SignIn(u)
    \/ SignOut \/ Age
    \/ \E path \in {"ordinary", "change-password"} : StartCall(path)
-----------------------------------------------------------------------------
(* Properties                                                              *)

\* A tab never acts for one user under the name of another, and a tab nobody is signed in to
\* holds no token, unless an answer crossed a sign-in or a sign-out.
ActsAsShown ==
    ~tab.crossed => /\ tab.phase = "authenticated" => tab.token \in {NoOne, tab.user}
                    /\ tab.phase = "anonymous" /\ signin.phase # "profile" => tab.token = NoOne

\* A wrong current password ends no session, and the login screen speaks of an expired session
\* only after one was refused.
EndsForCause ==
    /\ tab.last # "wrong password"
    /\ tab.expired => tab.last = "refused"

\* The session a tab shows is the one it has, and it was not taken away without a reason: the
\* tokens, the rotation and the 401 handling of AuthProvider.tsx and client.ts together.
SessionIsHonest == ActsAsShown /\ EndsForCause

\* Every renewal ends, and with it the wait of every request that needed it.
RenewalEnds == call.phase = "renewing" ~> call.phase # "renewing"

\* A session that was refused leaves a login screen that says so.
ExpiryIsTold == tab.phase = "anonymous" /\ tab.last = "refused" => tab.expired
=============================================================================
