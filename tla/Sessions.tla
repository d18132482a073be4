------------------------------ MODULE Sessions ------------------------------
(***************************************************************************)
(* Sessions from end to end: the token adapter's transactions              *)
(* (jwttokens/adapter.go), the handlers and the middleware in front of it  *)
(* (auth_handlers.go, middleware.go) and the auth state of the browser     *)
(* tabs that call them (api.js, App.jsx).                                  *)
(*                                                                         *)
(* All sessions are of one user and all tabs of one browser: they share    *)
(* localStorage, but each reads it only when it loads and keeps its own    *)
(* copy from then on.  A tab is shown while the user is logged in to it,   *)
(* the restoring of its session after a load included.  A call is one      *)
(* HTTP request; connect marks a refresh that a connection attempt awaits, *)
(* stale one that began before the tab was last cleared, which cancels     *)
(* the attempt.  The stages of a call are                                  *)
(*   sent      on its way, or not yet picked up by the handler             *)
(*   looked    RefreshSession has selected the row and knows what to do    *)
(*   valid     the middleware has accepted the access token                *)
(*   written   the transaction has written and not committed               *)
(*   answered  the answer is on its way to the tab                         *)
(*   waiting   the tab waits for a refresh before it sends the call again  *)
(* Access tokens expire at any time: validation may refuse one that is not *)
(* revoked.  TouchSession is left out: it writes columns nothing reads.    *)
(***************************************************************************)
EXTENDS SessionStore, SqliteLocks, FiniteSets

CONSTANTS Tabs, MaxSessions, MaxTokens, MaxTime, MaxRequests, NoTab, NoCall

Calls == Tx

ASSUME SessionConstants ==
    /\ NoTab \notin Tabs /\ NoCall \notin Tx
    /\ MaxSessions \in Nat /\ MaxTokens \in Nat /\ MaxTime \in Nat
    /\ MaxRequests \in Nat

VARIABLES
    rows,      \* auth_sessions
    now,       \* time in steps of 30 days
    calls,     \* the requests under way
    started,   \* requests started so far, for the bound MaxRequests
    tabs,      \* authState, refreshPromise and isLoggedIn of each tab
    storage,   \* localStorage
    parent,    \* history: the token each token was exchanged for, 0 at login
    exposed,   \* history: sessions whose client may legitimately replay a token
    own,       \* history: the session the tab last logged in to or loaded
    torn       \* history: tabs whose auth state changed under a running refresh

db == <<rows, lock, parent>>
server == <<db, started>>
client == <<tabs, storage, own, torn>>
vars == <<rows, now, calls, started, tabs, storage, parent, exposed, own, torn, lock>>

NoAuth == [refresh |-> 0, session |-> 0, issued |-> 0]

LoggedOut == [auth |-> NoAuth, promise |-> NoCall, shown |-> FALSE]

Idle == [stage |-> "idle", kind |-> "none", tab |-> NoTab, token |-> 0, sid |-> 0,
         target |-> 0, doing |-> "none", answer |-> "none", stale |-> FALSE,
         connect |-> FALSE, retried |-> FALSE, on |-> NoCall]

Init ==
    /\ rows = <<>> /\ now = 0
    /\ calls = [c \in Calls |-> Idle]
    /\ started = 0
    /\ tabs = [t \in Tabs |-> LoggedOut]
    /\ storage = NoAuth
    /\ parent = <<>> /\ exposed = {}
    /\ own = [t \in Tabs |-> 0]
    /\ torn = {}
    /\ lock = LocksFree

-----------------------------------------------------------------------------
(* The server.                                                             *)

At(c, stage) == calls[c].stage = stage

Answered(c, call) ==
    calls' = [calls EXCEPT ![c] = IF @.tab = NoTab THEN Idle ELSE [call EXCEPT !.stage = "answered"]]

\* The server answers; nobody reads the answer when the tab is gone.
Answer(c, a) == Answered(c, [calls[c] EXCEPT !.answer = a])

\* A request is lost on its way, or the rate limiter answers 429.
NotServed(c) ==
    /\ At(c, "sent")
    /\ Answer(c, "failed")
    /\ UNCHANGED <<server, client, now, exposed>>

\* Mutant: the SELECT runs on the pool, not on the transaction.
LookupOutside(c) ==
    LET verdict == Verdict(rows, calls[c].token, now)
    IN  /\ At(c, "sent") /\ calls[c].kind = "refresh"
        /\ IF verdict = "refuse" THEN Answer(c, "refused")
           ELSE calls' = [calls EXCEPT ![c].stage = "looked", ![c].doing = verdict,
                                       ![c].sid = SessionWith(rows, calls[c].token)]
        /\ UNCHANGED <<server, client, now, exposed>>

\* RefreshSession up to its decision; a token it refuses ends the transaction.
Lookup(c) ==
    LET verdict == Verdict(rows, calls[c].token, now)
    IN  /\ At(c, "sent") /\ calls[c].kind = "refresh"
        /\ IF verdict = "refuse"
           THEN Answer(c, "refused") /\ UNCHANGED lock
           ELSE /\ Share(c)
                /\ calls' = [calls EXCEPT ![c].stage = "looked", ![c].doing = verdict,
                                          ![c].sid = SessionWith(rows, calls[c].token)]
        /\ UNCHANGED <<rows, parent, started, client, now, exposed>>

\* The UPDATE of a refresh.
Write(c) ==
    /\ At(c, "looked")
    /\ Reserve(c)
    /\ calls' = [calls EXCEPT ![c].stage = "written"]
    /\ UNCHANGED <<rows, parent, started, client, now, exposed>>

\* LoginPassword has accepted the password: the INSERT of IssueSession.
WriteLogin(c) ==
    /\ At(c, "sent") /\ calls[c].kind = "login"
    /\ Len(rows) < MaxSessions
    /\ Reserve(c)
    /\ calls' = [calls EXCEPT ![c].stage = "written", ![c].doing = "issue"]
    /\ UNCHANGED <<rows, parent, started, client, now, exposed>>

\* The middleware: a statement of its own, before the handler's transaction.
Validate(c) ==
    /\ At(c, "sent") /\ calls[c].kind \in {"logout", "revoke"}
    /\ \/ /\ ~rows[calls[c].sid].revoked
          /\ calls' = [calls EXCEPT ![c].stage = "valid"]
       \/ Answer(c, "invalid")
    /\ UNCHANGED <<server, client, now, exposed>>

\* The UPDATE of RevokeSession; no row means that the session is not found.
WriteRevocation(c) ==
    /\ At(c, "valid")
    /\ IF rows[calls[c].target] = Gone
       THEN Answer(c, "failed") /\ UNCHANGED lock
       ELSE /\ Reserve(c)
            /\ calls' = [calls EXCEPT ![c].stage = "written", ![c].doing = "revoke"]
    /\ UNCHANGED <<rows, parent, started, client, now, exposed>>

\* The tokens in the answer of a login or refresh: the next one drawn.
Granted(c, sid) ==
    Answered(c, [calls[c] EXCEPT !.answer = "ok", !.token = Len(parent) + 1, !.sid = sid])

\* COMMIT of a login.
CommitLogin(c) ==
    /\ At(c, "written") /\ calls[c].doing = "issue"
    /\ Len(parent) < MaxTokens
    /\ CommitLock(c)
    /\ rows' = IssueSession(rows, Len(parent) + 1, now)
    /\ parent' = Append(parent, 0)
    /\ Granted(c, Len(rows) + 1)
    /\ UNCHANGED <<started, client, now, exposed>>

\* COMMIT of a rotation.
CommitRotation(c) ==
    /\ At(c, "written") /\ calls[c].doing = "rotate"
    /\ Len(parent) < MaxTokens
    /\ CommitLock(c)
    /\ rows' = Rotate(rows, calls[c].sid, Len(parent) + 1, now)
    /\ parent' = Append(parent, calls[c].token)
    /\ Granted(c, calls[c].sid)
    /\ UNCHANGED <<started, client, now, exposed>>

\* Mutant: the transaction is left to the deferred Rollback.
CommitEndRollsBack(c) ==
    /\ At(c, "written") /\ calls[c].doing \in {"expired", "replay"}
    /\ Release(c)
    /\ Answer(c, IF calls[c].doing = "replay" THEN "replay" ELSE "refused")
    /\ UNCHANGED <<rows, parent, started, client, now, exposed>>

\* COMMIT of the revocation of an expired session or of a replayed token.
CommitEnd(c) ==
    /\ At(c, "written") /\ calls[c].doing \in {"expired", "replay"}
    /\ CommitLock(c)
    /\ rows' = RevokeSession(rows, calls[c].sid, calls[c].doing, now)
    /\ Answer(c, IF calls[c].doing = "replay" THEN "replay" ELSE "refused")
    /\ UNCHANGED <<parent, started, client, now, exposed>>

\* COMMIT of a logout or of the revocation of another session.
CommitRevocation(c) ==
    /\ At(c, "written") /\ calls[c].doing = "revoke"
    /\ CommitLock(c)
    /\ rows' = RevokeSession(rows, calls[c].target, "user", now)
    /\ Answer(c, "ok")
    /\ UNCHANGED <<parent, started, client, now, exposed>>

\* Any statement fails, or waits for a lock for too long: the transaction is
\* rolled back.  Refresh answers every error with 401.
Fail(c) ==
    /\ \/ calls[c].stage \in {"looked", "valid", "written"}
       \/ At(c, "sent") /\ calls[c].kind \in {"login", "refresh"}
    /\ Release(c)
    /\ Answer(c, IF calls[c].kind = "refresh" THEN "refused" ELSE "failed")
    /\ UNCHANGED <<rows, parent, started, client, now, exposed>>

\* Every 256th call that succeeds deletes old rows, before it answers.
MaybeCleanup(c) ==
    /\ At(c, "answered") /\ calls[c].answer = "ok"
    /\ AutoCommit
    /\ rows' = Cleaned(rows, now)
    /\ UNCHANGED <<lock, parent, started, calls, client, now, exposed>>

-----------------------------------------------------------------------------
(* The tabs.                                                               *)

\* The refreshes a tab has under way.
Refreshing(t) == {c \in Calls : /\ calls[c].kind = "refresh" /\ calls[c].tab = t}

NewCall(kind, t) == [Idle EXCEPT !.stage = "sent", !.kind = kind, !.tab = t,
                                 !.sid = tabs[t].auth.session]

RefreshCall(t, connect) ==
    [NewCall("refresh", t) EXCEPT !.token = tabs[t].auth.refresh, !.connect = connect]

Payload(c) == [refresh |-> calls[c].token, session |-> calls[c].sid,
               issued |-> now]

Start == started < MaxRequests /\ started' = started + 1

\* setAuthState: the tab's copy and localStorage together.
SetAuth(t, auth, promise, shown) ==
    /\ tabs' = [tabs EXCEPT ![t] = [auth |-> auth, promise |-> promise, shown |-> shown]]
    /\ storage' = auth

\* The auth state changes while refreshes other than c are running.
Tear(t, c) == torn' = IF Refreshing(t) \ {c} = {} THEN torn ELSE torn \cup {t}

\* clearLoggedInState, with the calls in done over.
ClearTab(t, done) ==
    /\ SetAuth(t, NoAuth, NoCall, FALSE)
    /\ torn' = IF Refreshing(t) \ done = {} THEN torn \ {t} ELSE torn \cup {t}
    /\ own' = [own EXCEPT ![t] = 0]

\* Its effect on a call: a running refresh belongs to an earlier login.
Outdated(c, t) ==
    IF c \in Refreshing(t) THEN [calls[c] EXCEPT !.stale = TRUE] ELSE calls[c]

ClearLoggedIn(t, done) ==
    /\ ClearTab(t, done)
    /\ calls' = [c \in Calls |-> IF c \in done THEN Idle ELSE Outdated(c, t)]

\* Submitting the login form, which can be submitted twice.
StartLogin(t, c) ==
    /\ ~tabs[t].shown /\ At(c, "idle")
    /\ calls' = [calls EXCEPT ![c] = [NewCall("login", t) EXCEPT !.sid = 0]]
    /\ Start
    /\ UNCHANGED <<db, client, now, exposed>>

\* Mutant: a refresh that is under way is not shared.
StartRefreshAgain(t, c) ==
    /\ tabs[t].shown /\ tabs[t].auth.refresh # 0
    /\ At(c, "idle")
    /\ calls' = [calls EXCEPT ![c] = RefreshCall(t, TRUE)]
    /\ tabs' = [tabs EXCEPT ![t].promise = c]
    /\ Start
    /\ UNCHANGED <<db, storage, own, torn, now, exposed>>

\* ensureAccessToken before a connection, with an access token that is due.
StartRefresh(t, c) ==
    /\ tabs[t].shown /\ tabs[t].auth.refresh # 0
    /\ tabs[t].promise = NoCall
    /\ At(c, "idle")
    /\ calls' = [calls EXCEPT ![c] = RefreshCall(t, TRUE)]
    /\ tabs' = [tabs EXCEPT ![t].promise = c]
    /\ Start
    /\ UNCHANGED <<db, storage, own, torn, now, exposed>>

\* The same while a refresh is under way, which is shared.
ShareRefresh(t) ==
    /\ tabs[t].shown /\ tabs[t].auth.refresh # 0
    /\ \E c \in Refreshing(t) :
          /\ tabs[t].promise = c /\ ~calls[c].connect
          /\ calls' = [calls EXCEPT ![c].connect = TRUE]
    /\ UNCHANGED <<server, client, now, exposed>>

\* The same without tokens, which the failure of an earlier login's refresh
\* has cleared: there is no access token to connect with.
ConnectsWithout(t) ==
    /\ tabs[t].shown /\ tabs[t].auth.refresh = 0
    /\ ClearLoggedIn(t, {})
    /\ UNCHANGED <<server, now, exposed>>

\* The same with a refresh token the tab's clock says is over.
ClientExpires(t) ==
    /\ tabs[t].shown /\ tabs[t].auth.refresh # 0
    /\ tabs[t].auth.issued < now
    /\ ClearLoggedIn(t, {})
    /\ UNCHANGED <<server, now, exposed>>

\* handleLogout; without a token the request fails at once.
StartLogout(t, c) ==
    /\ tabs[t].shown /\ At(c, "idle")
    /\ IF tabs[t].auth.session = 0
       THEN ClearLoggedIn(t, {}) /\ UNCHANGED started
       ELSE /\ calls' = [calls EXCEPT ![c] = [NewCall("logout", t) EXCEPT !.target = tabs[t].auth.session]]
            /\ UNCHANGED client
            /\ Start
    /\ UNCHANGED <<db, now, exposed>>

\* The account page revokes another session of the list.
StartRevoke(t, c) ==
    /\ tabs[t].shown /\ At(c, "idle") /\ tabs[t].auth.session # 0
    /\ \E target \in DOMAIN rows \ {tabs[t].auth.session} :
          calls' = [calls EXCEPT ![c] = [NewCall("revoke", t) EXCEPT !.target = target]]
    /\ Start
    /\ UNCHANGED <<db, client, now, exposed>>

\* An answer is lost: fetch rejects.
Lost(c) ==
    /\ At(c, "answered") /\ calls[c].answer # "failed"
    /\ Answer(c, "failed")
    /\ exposed' = IF calls[c].kind = "refresh" /\ calls[c].answer = "ok"
                  THEN exposed \cup {calls[c].sid} ELSE exposed
    /\ UNCHANGED <<server, client, now>>

Arrives(c, kind) == At(c, "answered") /\ calls[c].kind = kind

\* loginUser: the payload is applied and the tab is logged in.
LoginArrives(c) ==
    LET t == calls[c].tab
    IN  /\ Arrives(c, "login")
        /\ calls' = [calls EXCEPT ![c] = Idle]
        /\ IF calls[c].answer = "ok"
           THEN /\ SetAuth(t, Payload(c), tabs[t].promise, TRUE)
                /\ own' = [own EXCEPT ![t] = calls[c].sid]
                /\ Tear(t, c)
                /\ exposed' = IF Refreshing(t) = {} THEN exposed
                              ELSE exposed \cup {calls[r].sid : r \in Refreshing(t) \cup {c}}
           ELSE UNCHANGED <<client, exposed>>
        /\ UNCHANGED <<server, now>>

Waiters(c) == {w \in Calls : At(w, "waiting") /\ calls[w].on = c}

Resent(w, sid) ==
    [calls[w] EXCEPT !.stage = "sent", !.sid = sid, !.retried = TRUE, !.on = NoCall,
                     !.answer = "none", !.target = IF calls[w].kind = "logout" THEN sid ELSE @]

\* The connection attempt that awaits refresh c was cancelled meanwhile.
Cancelled(c) == calls[c].stale /\ calls[c].connect

\* A refresh succeeds: applySessionPayload, and the calls that waited for it
\* are sent again.  Then an attempt that was cancelled clears the tab, even
\* one that is logged in again by now.
RefreshArrives(c) ==
    LET t == calls[c].tab
    IN  /\ Arrives(c, "refresh") /\ calls[c].answer = "ok"
        /\ IF Cancelled(c) THEN ClearTab(t, {c})
           ELSE SetAuth(t, Payload(c), NoCall, tabs[t].shown) /\ UNCHANGED <<own, torn>>
        /\ calls' = [w \in Calls |-> IF w = c THEN Idle
                                     ELSE IF w \in Waiters(c) THEN Resent(w, calls[c].sid)
                                     ELSE IF Cancelled(c) THEN Outdated(w, t)
                                     ELSE calls[w]]
        /\ UNCHANGED <<server, now, exposed>>

Refusals == {"refused", "replay"}

\* Mutant: the failure does not reach the application.
RefusalArrivesQuietly(c) ==
    LET t == calls[c].tab
    IN  /\ Arrives(c, "refresh") /\ calls[c].answer \in Refusals
        /\ SetAuth(t, NoAuth, NoCall, tabs[t].shown)
        /\ calls' = [w \in Calls |-> IF w \in Waiters(c) \cup {c} THEN Idle ELSE calls[w]]
        /\ Tear(t, c)
        /\ UNCHANGED <<server, own, now, exposed>>

\* 401: clearAuthState, and the callers log the tab out - unless the only one
\* is a connection attempt of an earlier login.
RefusalArrives(c) ==
    LET t == calls[c].tab
    IN  /\ Arrives(c, "refresh") /\ calls[c].answer \in Refusals
        /\ IF calls[c].stale /\ Waiters(c) = {}
           THEN /\ SetAuth(t, NoAuth, NoCall, tabs[t].shown)
                /\ calls' = [calls EXCEPT ![c] = Idle]
                /\ Tear(t, c)
                /\ UNCHANGED own
           ELSE ClearLoggedIn(t, Waiters(c) \cup {c})
        /\ UNCHANGED <<server, now, exposed>>

\* 429 or a lost request: the tokens stay, the callers fail, and a logout that
\* waited for the refresh clears the tab all the same.
RefreshFails(c) ==
    LET t == calls[c].tab
        done == Waiters(c) \cup {c}
    IN  /\ Arrives(c, "refresh") /\ calls[c].answer = "failed"
        /\ IF \E w \in Waiters(c) : calls[w].kind = "logout"
           THEN ClearLoggedIn(t, done)
           ELSE /\ tabs' = [tabs EXCEPT ![t].promise = NoCall]
                /\ calls' = [w \in Calls |-> IF w \in done THEN Idle ELSE calls[w]]
                /\ UNCHANGED <<storage, own, torn>>
        /\ UNCHANGED <<server, now, exposed>>

\* apiRequest is answered "invalid token" for the first time: refreshSession,
\* shared or started, and then once more.
InvalidArrives(c) ==
    LET t == calls[c].tab
        p == tabs[t].promise
        Waiting(on) == [calls[c] EXCEPT !.stage = "waiting", !.on = on]
    IN  /\ At(c, "answered")
        /\ calls[c].answer = "invalid" /\ ~calls[c].retried /\ tabs[t].auth.refresh # 0
        /\ \/ /\ p # NoCall
              /\ calls' = [calls EXCEPT ![c] = Waiting(p)]
              /\ UNCHANGED <<client, started>>
           \/ /\ p = NoCall
              /\ \E r \in Calls :
                    /\ At(r, "idle")
                    /\ calls' = [calls EXCEPT ![c] = Waiting(r), ![r] = RefreshCall(t, FALSE)]
                    /\ tabs' = [tabs EXCEPT ![t].promise = r]
              /\ Start
              /\ UNCHANGED <<storage, own, torn>>
           \/ /\ tabs[t].auth.issued < now
              /\ ClearLoggedIn(t, {c}) /\ UNCHANGED started
        /\ UNCHANGED <<db, now, exposed>>

\* Any other end of apiRequest.
RequestArrives(c) ==
    LET t == calls[c].tab
        invalid == calls[c].answer = "invalid"
    IN  /\ At(c, "answered") /\ calls[c].kind \in {"logout", "revoke"}
        /\ invalid => calls[c].retried \/ tabs[t].auth.refresh = 0
        /\ IF calls[c].kind = "logout" \/ invalid
           THEN ClearLoggedIn(t, {c})
           ELSE calls' = [calls EXCEPT ![c] = Idle] /\ UNCHANGED client
        /\ UNCHANGED <<server, now, exposed>>

\* The tab is loaded again: it reads localStorage and forgets its requests,
\* which the server goes on with.
Reload(t) ==
    LET stored == storage.session
    IN  /\ tabs' = [tabs EXCEPT ![t] = [auth |-> storage, promise |-> NoCall,
                                        shown |-> stored # 0]]
        /\ calls' = [c \in Calls |-> IF calls[c].tab # t THEN calls[c]
                                     ELSE IF calls[c].stage \in {"waiting", "answered"} THEN Idle
                                     ELSE [calls[c] EXCEPT !.tab = NoTab]]
        /\ own' = [own EXCEPT ![t] = stored]
        /\ torn' = torn \ {t}
        /\ exposed' = exposed \cup {calls[c].sid : c \in Refreshing(t)}
                              \cup {s \in {stored} : \E u \in Tabs \ {t} : tabs[u].auth.session = s}
        /\ UNCHANGED <<server, storage, now>>

\* No request lasts for 30 days.
Tick ==
    /\ now < MaxTime
    /\ \A c \in Calls : At(c, "idle")
    /\ now' = now + 1
    /\ UNCHANGED <<server, client, calls, exposed>>

ServerStep(c) ==
    \/ NotServed(c) \/ Lookup(c) \/ Write(c) \/ WriteLogin(c) \/ Validate(c)
    \/ WriteRevocation(c) \/ CommitLogin(c) \/ CommitRotation(c) \/ CommitEnd(c)
    \/ CommitRevocation(c) \/ Fail(c) \/ MaybeCleanup(c)

TabStep(c) ==
    \/ Lost(c) \/ LoginArrives(c) \/ RefreshArrives(c) \/ RefusalArrives(c)
    \/ RefreshFails(c) \/ InvalidArrives(c) \/ RequestArrives(c)

UserStep(t) ==
    \/ ClientExpires(t) \/ ShareRefresh(t) \/ ConnectsWithout(t) \/ Reload(t)
    \/ \E c \in Calls : StartLogin(t, c) \/ StartRefresh(t, c) \/ StartLogout(t, c)
                           \/ StartRevoke(t, c)

Next == \/ \E c \in Calls : ServerStep(c) \/ TabStep(c)
        \/ \E t \in Tabs : UserStep(t)
        \/ Tick

Spec == Init /\ [][Next]_vars

-----------------------------------------------------------------------------
(* What is checked.                                                        *)

Kinds == {"none", "login", "refresh", "logout", "revoke"}

Stages == {"idle", "sent", "looked", "valid", "written", "answered", "waiting"}

\* Types, and what the table's constraints do not say: a session's previous
\* token is the one its current token was exchanged for.
TypeOK ==
    /\ now \in 0..MaxTime
    /\ DOMAIN rows \subseteq 1..MaxSessions
    /\ lock \in [Tx -> Locks]
    /\ \A i \in DOMAIN rows : rows[i] # Gone =>
          /\ rows[i].cur \in DOMAIN parent
          /\ rows[i].prev = parent[rows[i].cur]
    /\ \A c \in Calls : /\ calls[c].stage \in Stages /\ calls[c].kind \in Kinds
                        /\ calls[c].tab \in Tabs \cup {NoTab}
                        /\ calls[c].token \in 0..Len(parent) /\ calls[c].sid \in 0..Len(rows)
    /\ \A t \in Tabs : tabs[t].promise \in Calls \cup {NoCall} /\ tabs[t].shown \in BOOLEAN

\* A refresh token buys at most one successor, however many tabs and retries
\* present it at once.
OneSuccessor ==
    \A j, k \in DOMAIN parent : parent[j] = parent[k] /\ parent[j] # 0 => j = k

\* When a refresh is answered as a replay, the session is over.
ReplayEndsSession ==
    \A c \in Calls : calls[c].kind = "refresh" /\ calls[c].answer = "replay" =>
        rows[calls[c].sid].revoked

\* Nobody loses a session to the replay detection without a cause: an answer
\* was lost, the tab was loaded again during a refresh, two tabs hold the
\* session, or the user logged in while a refresh of an earlier login ran.
ReplayNeedsCause ==
    \A i \in DOMAIN rows : rows[i].reason = "replay" => i \in exposed

\* A logged-in tab acts for the session it logged in to or loaded; only a
\* refresh that was running when it logged in or out can change that.
TabKeepsItsSession ==
    \A t \in Tabs : tabs[t].shown => t \in torn \/ tabs[t].auth.session = own[t]

\* What became of each session: expiry ends it as a revocation does.
LifeOf(row) == IF row = Gone THEN "gone" ELSE IF Live(row, now) THEN "live" ELSE "ended"

Lifecycle == INSTANCE SessionLifecycle
    WITH life <- [i \in DOMAIN rows |-> LifeOf(rows[i])],
         token <- [i \in DOMAIN rows |-> rows[i].cur],
         Tokens <- 1..MaxTokens

\* The abstract session: issued once, one token at a time, ended for good.
ImplementsLifecycle == Lifecycle!Spec
=============================================================================
