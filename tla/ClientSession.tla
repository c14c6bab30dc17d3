--------------------------- MODULE ClientSession ---------------------------
(* The sessions of one browser: what its tabs, its cookie jar and its       *)
(* localStorage share, the interceptor that renews an expired access token  *)
(* (api/client.ts), login, logout and the guard of the protected routes.    *)
(* The server keeps one row per refresh token and signs access tokens it    *)
(* never looks up again.                                                    *)
(*                                                                          *)
(* Both cookies of a login, the signed one and the readable                 *)
(* "cogni_cash_logged_in", are set, dropped and expire together: cookie     *)
(* stands for the pair and holds the user it was issued for.                *)
EXTENDS Naturals, FiniteSets

CONSTANTS Users, Tabs, Calls, Tokens, None

ASSUME NoneAssumption == None \notin Users \cup Tokens
ASSUME CallsAssumption == Calls \subseteq Nat /\ Tokens \subseteq Nat

VARIABLES
    owner,    \* owner[k]: whose refresh token k is; None: not issued yet
    revoked,  \* the refresh tokens the server no longer accepts
    cookie,   \* the user of the access token in the cookie jar
    saved,    \* localStorage.refresh_token
    at,       \* at[t]: "app", or how tab t came to the login page
    cached,   \* cached[t]: whose answers the query cache of tab t holds
    call,     \* call[c]: a request and the code that awaits its answer
    changed,  \* the users whose password has been changed or reset
    over      \* "ended": a logout was completed that nothing overlapped

vars == <<owner, revoked, cookie, saved, at, cached, call, changed, over>>

Idle == [kind |-> "none", tab |-> None, user |-> None, token |-> None,
         again |-> FALSE, awaited |-> TRUE]

\* A request carries the cookie of the moment it is sent, which decides whether
\* it will be answered or denied. "refresh" is a renewal on its way, "refreshed"
\* and "refused" its answers; "entered" is the answer to a login; "logout" is on
\* its way, "gone" answered, "lost" failed. again: the request was sent a second
\* time; awaited: the query cache still waits for it.
Kinds == {"none", "answered", "denied", "refresh", "refreshed", "refused",
          "entered", "logout", "gone", "lost"}

CallRecord == [kind  : Kinds, tab : Tabs \cup {None}, user : Users \cup {None},
               token : Tokens \cup {None}, again : BOOLEAN, awaited : BOOLEAN]

\* The application, or the login page: loaded, or reached by a logout, by the
\* interceptor or by the guard of the routes.
Pages == {"app", "loaded", "logout", "forced", "guard"}
AtLogin(t) == at[t] # "app"

TypeOK ==
    /\ owner \in [Tokens -> Users \cup {None}]
    /\ revoked \subseteq {k \in Tokens : owner[k] # None}
    /\ cookie \in Users \cup {None}
    /\ saved \in {k \in Tokens : owner[k] # None} \cup {None}
    /\ at \in [Tabs -> Pages]
    /\ cached \in [Tabs -> SUBSET Users]
    /\ call \in [Calls -> CallRecord]
    /\ changed \subseteq Users
    /\ over \in {"no", "ended", "disturbed"}

\* A browser that was never logged in, every tab on the login page.
Init ==
    /\ owner = [k \in Tokens |-> None]
    /\ revoked = {}
    /\ cookie = None
    /\ saved = None
    /\ at = [t \in Tabs |-> "loaded"]
    /\ cached = [t \in Tabs |-> {}]
    /\ call = [c \in Calls |-> Idle]
    /\ changed = {}
    /\ over = "no"

Valid(k) == k \in Tokens /\ owner[k] # None /\ k \notin revoked

\* Renewals and logouts whose answers have not arrived yet.
Renewing == {c \in Calls : call[c].kind \in {"refresh", "refreshed"}}
Leaving  == {c \in Calls : call[c].kind \in {"logout", "gone", "lost"}}

\* The first free slot: which one carries a request makes no difference.
Free(c) == call[c] = Idle /\ \A d \in Calls : call[d] = Idle => c <= d

\* A query of tab t, answered or denied by the authentication middleware.
Query(t) ==
    [Idle EXCEPT !.tab = t, !.user = cookie, !.kind = IF cookie = None THEN "denied" ELSE "answered"]

\* A full page load ends the code of the tab that awaits answers, and empties
\* its query cache.
Dropped(t, c) == IF call[c].tab = t THEN Idle ELSE call[c]

----------------------------------------------------------------------------
(* The pages *)

\* Rendering a protected route: without the readable cookie the router goes
\* to /login inside the same document, the query cache as it is.
Navigate(t) ==
    /\ at[t] = "app"
    /\ cookie = None
    /\ at' = [at EXCEPT ![t] = "guard"]
    /\ UNCHANGED <<owner, revoked, cookie, saved, cached, call, changed, over>>

\* Opening or reloading the application in a tab.
Open(t) ==
    /\ \E page \in {"loaded"} \cup (IF cookie = None THEN {} ELSE {"app"}) :
         at' = [at EXCEPT ![t] = page]
    /\ cached' = [cached EXCEPT ![t] = {}]
    /\ call' = [c \in Calls |-> Dropped(t, c)]
    /\ UNCHANGED <<owner, revoked, cookie, saved, changed, over>>

\* A query of a page of the application.
Get(c, t) ==
    /\ at[t] = "app"
    /\ Free(c)
    /\ call' = [call EXCEPT ![c] = Query(t)]
    /\ UNCHANGED <<owner, revoked, cookie, saved, at, cached, changed, over>>

\* The form of the login page; its button waits for one answer at a time.
\* AuthService.Login issues one more refresh token; the earlier ones stay.
Login(c, t, u) ==
    /\ AtLogin(t)
    /\ \A d \in Calls : call[d].tab = t => call[d].kind # "entered"
    /\ Free(c)
    /\ \E k \in Tokens :
         /\ owner[k] = None /\ \A l \in Tokens : l < k => owner[l] # None
         /\ owner' = [owner EXCEPT ![k] = u]
         /\ call' = [call EXCEPT ![c] = [Idle EXCEPT !.kind = "entered", !.tab = t, !.user = u, !.token = k]]
    /\ UNCHANGED <<revoked, cookie, saved, at, cached, changed, over>>

\* Mutated: the token is revoked but stays in localStorage.
MutLogout(c, t) ==
    /\ at[t] = "app"
    /\ Free(c)
    /\ call' = [call EXCEPT ![c] = [Idle EXCEPT !.kind = "logout", !.tab = t, !.token = saved]]
    /\ over' = IF Renewing = {} THEN over ELSE "disturbed"
    /\ UNCHANGED <<owner, revoked, cookie, saved, at, cached, changed>>

\* Layout.handleLogout: the token leaves localStorage before the request.
Logout(c, t) ==
    /\ at[t] = "app"
    /\ Free(c)
    /\ call' = [call EXCEPT ![c] = [Idle EXCEPT !.kind = "logout", !.tab = t, !.token = saved]]
    /\ saved' = None
    /\ over' = IF Renewing = {} THEN over ELSE "disturbed"
    /\ UNCHANGED <<owner, revoked, cookie, at, cached, changed>>

----------------------------------------------------------------------------
(* The server *)

Answer(c, r) == call' = [call EXCEPT ![c] = r]

\* Mutated: a refresh token is good for one renewal.
MutServeRefresh(c) ==
    /\ call[c].kind = "refresh"
    /\ Answer(c, IF Valid(call[c].token)
                 THEN [call[c] EXCEPT !.kind = "refreshed", !.user = owner[call[c].token]]
                 ELSE [call[c] EXCEPT !.kind = "refused"])
    /\ revoked' = revoked \cup {call[c].token}
    /\ UNCHANGED <<owner, cookie, saved, at, cached, changed, over>>

\* AuthService.Refresh: a token that is known and not revoked is answered with
\* itself and a new access token.
ServeRefresh(c) ==
    /\ call[c].kind = "refresh"
    /\ Answer(c, IF Valid(call[c].token)
                 THEN [call[c] EXCEPT !.kind = "refreshed", !.user = owner[call[c].token]]
                 ELSE [call[c] EXCEPT !.kind = "refused"])
    /\ UNCHANGED <<owner, revoked, cookie, saved, at, cached, changed, over>>

\* AuthService.Logout revokes the token of the body, if it came with one.
ServeLogout(c) ==
    /\ call[c].kind = "logout"
    /\ revoked' = revoked \cup ({call[c].token} \ {None})
    /\ Answer(c, [call[c] EXCEPT !.kind = "gone"])
    /\ UNCHANGED <<owner, cookie, saved, at, cached, changed, over>>

\* A new password, once per user (a bound), revokes all refresh tokens of the
\* user: from the settings page, where the access token tells the user, or with
\* the link of a mail. Nothing happens to access tokens.
RevokeAll(u) ==
    /\ u \notin changed
    /\ revoked' = revoked \cup {k \in Tokens : owner[k] = u}
    /\ changed' = changed \cup {u}
    /\ UNCHANGED <<owner, cookie, saved, at, cached, call, over>>

ChangePassword(t) == at[t] = "app" /\ cookie # None /\ RevokeAll(cookie)
ResetPassword(u)  == RevokeAll(u)

\* A request or its answer is lost: a renewal counts as refused, a logout ends
\* without cookies being dropped, everything else rejects.
Lose(c) ==
    /\ call[c].kind \in {"answered", "denied", "entered", "refresh", "logout"}
    /\ Answer(c, CASE call[c].kind = "refresh" -> [call[c] EXCEPT !.kind = "refused"]
                   [] call[c].kind = "logout"  -> [call[c] EXCEPT !.kind = "lost"]
                   [] OTHER -> Idle)
    /\ UNCHANGED <<owner, revoked, cookie, saved, at, cached, changed, over>>

\* Both cookies expire 24 hours after they were set.
Expire ==
    /\ cookie # None
    /\ cookie' = None
    /\ UNCHANGED <<owner, revoked, saved, at, cached, call, changed, over>>

----------------------------------------------------------------------------
(* The answers *)

Arrive(c) ==
    /\ call[c].kind = "answered"
    /\ cached' = IF call[c].awaited THEN [cached EXCEPT ![call[c].tab] = @ \cup {call[c].user}]
                 ELSE cached
    /\ call' = [call EXCEPT ![c] = Idle]
    /\ UNCHANGED <<owner, revoked, cookie, saved, at, changed, over>>

\* window.location.href = '/login'.
ForceOut(t) ==
    /\ at' = [at EXCEPT ![t] = "forced"]
    /\ cached' = [cached EXCEPT ![t] = {}]
    /\ call' = [c \in Calls |-> Dropped(t, c)]

\* The interceptor on a 401: not twice for one request, not on /login, and
\* with a stored refresh token only.
Denied(c) ==
    /\ call[c].kind = "denied"
    /\ \/ /\ call[c].again \/ AtLogin(call[c].tab)
          /\ Answer(c, Idle)
          /\ UNCHANGED <<at, cached>>
       \/ /\ ~call[c].again /\ ~AtLogin(call[c].tab) /\ saved # None
          /\ Answer(c, [call[c] EXCEPT !.kind = "refresh", !.token = saved])
          /\ UNCHANGED <<at, cached>>
       \/ /\ ~call[c].again /\ ~AtLogin(call[c].tab) /\ saved = None
          /\ ForceOut(call[c].tab)
    /\ UNCHANGED <<owner, revoked, cookie, saved, changed, over>>

\* The new access token is in the jar, the refresh token is stored again, and
\* the original request is sent once more.
Refreshed(c) ==
    /\ call[c].kind = "refreshed"
    /\ cookie' = call[c].user
    /\ saved' = call[c].token
    /\ Answer(c, [Idle EXCEPT !.kind = "answered", !.tab = call[c].tab, !.user = cookie',
                              !.again = TRUE, !.awaited = call[c].awaited])
    /\ UNCHANGED <<owner, revoked, at, cached, changed, over>>

\* Any failure of the renewal drops the stored token, whichever it is by now.
Refused(c) ==
    /\ call[c].kind = "refused"
    /\ saved' = None
    /\ ForceOut(call[c].tab)
    /\ UNCHANGED <<owner, revoked, cookie, changed, over>>

\* Mutated: the wrong field of the answer is stored.
MutEntered(c) ==
    /\ call[c].kind = "entered"
    /\ cookie' = call[c].user
    /\ saved' = call[c].user
    /\ at' = [at EXCEPT ![call[c].tab] = "app"]
    /\ call' = [call EXCEPT ![c] = Idle]
    /\ UNCHANGED <<owner, revoked, cached, changed, over>>

Entered(c) ==
    /\ call[c].kind = "entered"
    /\ cookie' = call[c].user
    /\ saved' = call[c].token
    /\ at' = [at EXCEPT ![call[c].tab] = "app"]
    /\ call' = [call EXCEPT ![c] = Idle]
    /\ over' = IF Leaving \cup Renewing = {} THEN "no" ELSE "disturbed"
    /\ UNCHANGED <<owner, revoked, cached, changed>>

\* Mutated: queryClient.clear() is forgotten.
MutLoggedOut(c) ==
    /\ call[c].kind \in {"gone", "lost"}
    /\ cookie' = IF call[c].kind = "gone" THEN None ELSE cookie
    /\ at' = [at EXCEPT ![call[c].tab] = "logout"]
    /\ call' = [call EXCEPT ![c] = Idle]
    /\ UNCHANGED <<owner, revoked, saved, cached, changed, over>>

\* After the answer, or the failure, of the logout: queryClient.clear(), which
\* also forgets the queries under way, and the login page.
LoggedOut(c) ==
    LET t == call[c].tab IN
    /\ call[c].kind \in {"gone", "lost"}
    /\ cookie' = IF call[c].kind = "gone" THEN None ELSE cookie
    /\ cached' = [cached EXCEPT ![t] = {}]
    /\ at' = [at EXCEPT ![t] = "logout"]
    /\ call' = [d \in Calls |->
                  CASE d = c           -> Idle
                    [] d # c /\ call[d].tab = t -> [call[d] EXCEPT !.awaited = FALSE]
                    [] OTHER           -> call[d]]
    /\ over' = IF call[c].kind = "gone" /\ over # "disturbed" THEN "ended" ELSE "disturbed"
    /\ UNCHANGED <<owner, revoked, saved, changed>>

Next ==
    \/ \E t \in Tabs : Navigate(t) \/ Open(t) \/ ChangePassword(t)
    \/ \E c \in Calls, t \in Tabs : Get(c, t) \/ Logout(c, t) \/ \E u \in Users : Login(c, t, u)
    \/ \E c \in Calls :
        \/ ServeRefresh(c) \/ ServeLogout(c) \/ Lose(c)
        \/ Arrive(c) \/ Denied(c) \/ Refreshed(c) \/ Refused(c) \/ Entered(c) \/ LoggedOut(c)
    \/ \E u \in Users : ResetPassword(u)
    \/ Expire

Spec == Init /\ [][Next]_vars

----------------------------------------------------------------------------
(* Properties *)

\* After a logout that no login and no renewal overlapped, nothing in the
\* browser opens the application again: no cookie, no stored refresh token,
\* and no answer still under way that would bring one (Layout.handleLogout
\* takes the token away before it asks the server, client.ts:17-21 brings it
\* back).
LogoutIsFinal ==
    over = "ended" => cookie = None /\ saved = None /\ Renewing = {}

\* The stored refresh token is one the server accepts, however many requests
\* of however many tabs renew the session with it at once, unless the password
\* was changed or a logout was overlapped: nobody loses a session because two
\* requests met the same expired cookie (auth_service.go:113 answers with the
\* same token for that reason).
StoredTokenWorks ==
    saved # None /\ saved \in revoked => owner[saved] \in changed \/ over = "disturbed"

\* Whoever logs in on a login page reached by a logout, by the interceptor or
\* by loading it starts from an empty query cache, whatever was under way when
\* the page was left. (The guard in App.tsx:38 keeps the cache.)
LoginPageIsClean ==
    \A t \in Tabs : at[t] \in {"loaded", "logout", "forced"} => cached[t] = {}

============================================================================
