# go-chat-site in TLA+

go-chat-site is a direct-message chat: a Go server (HTTP API, one WebSocket per
browser tab, SQLite) and a React client. This directory models the parts of it
in which several actors meet: tabs, HTTP requests, goroutines, a database that
can refuse a statement, and a process that can stop. `PROJECT.json` maps every
definition to the lines it models.

Check a run with `tlc -workers 2 -config MCRelay.cfg MCDirectMessaging`, the
proofs about a component with `tlapm RelayHubProofs.tla` and so on.

## 1. Inventory

Paths are relative to `src/server/internal` unless they start with `client/`.

| Component | State | Operations | Talks to |
|---|---|---|---|
| Durable relay, `core/messaging/service.go` | none of its own | `SendDirect`: store, push, correlate, mark delivered | store (statements), transport (call) |
| Receipt endpoints, `adapters/httpapi/messages_handlers.go` | a request's locals | `MarkRead`, `MarkDelivered`, `MarkThreadRead` | store, transport |
| Message store, `adapters/store/sqlitemessaging` | `messages`, `message_deliveries`, `message_client_correlations` | inserts, two COALESCE upserts, correlation upsert, paged listings | SQLite |
| Relay hub, `adapters/transport/wsrelay` | `clients` map, per connection a channel of 16 frames, a `closed` flag and an RWMutex, the hub's mutex and context | `AddClient`, `RemoveClient`, `SendDirect`, `DisconnectSession`, `Shutdown`, broadcasts, `readLoop`, `writeLoop` | durable relay (from `readLoop`), session service, clients |
| Sync service, `core/messaging/sync_service.go` | none | `Sync` | store |
| Client catch-up, `runSync` in `client/src/components/Chat.jsx` | cursor, threads, one cancel flag per run | page loop, apply, receipts, commit of the cursor | sync and receipt endpoints |
| Client threads and composer, `Chat.jsx` | threads, pending client ids, thread summaries | send, ack, error, receipts, summaries | WebSocket, HTTP |
| Client session and connection, `client/src/api.js`, `ws.js`, `App.jsx` | tokens, socket, reconnect timer, `onlineUsers`, `lastWsMessage` | login, refresh, logout, reconnect | auth endpoints, hub |
| Sessions, `adapters/identity/jwttokens`, `adapters/httpapi/auth_handlers.go` | `auth_sessions` rows, signed access tokens | login, refresh with rotation, replay detection, revoke, clean-up | hub (disconnect) |
| Login throttle and rate limits, `adapters/httpapi/auth_security.go`, `ratelimit.go` | counters per key and window | count, lock, reset | SQLite |
| Contacts, `store/sqlite_contacts.go` | `contacts`, `contact_invites` | add, remove, invite, accept, reject | |
| Wallet, `store/sqlite_wallet.go` | `wallet_accounts`, `wallet_transfers` | open on first use, `SendMoney` | |
| Device keys, `adapters/store/sqliteidentity/device_keys.go` | `device_identities`, `device_prekeys` | register, rotate, publish, revoke, directory | |
| Accounts, migrations, routing, configuration, UI, encryption in the client, marketplace types | | | |

What is hard in each, and what makes it right:

- **Durable relay.** Four statements and a push with a failure or a stop of the
  process possible between any two; two tabs of a user that pick the same client
  id. Right when an acknowledgement, an offline error and the `delivery_failed`
  flag a reload shows all agree with what happened to that very message.
- **Receipts.** The relay's mark, the recipient's receipts and paged thread
  reads upsert the same rows. Right when timestamps are written once, a
  read message counts as delivered, only the recipient can set it, a thread read
  leaves nothing out and no receipt frame announces what is not on record.
- **Hub.** Several goroutines remove the same connection while others wait to
  write to it, under two kinds of locks; shutdown closes everything while it holds
  the mutex. Right when nobody sends on a closed channel, nobody waits for ever,
  no connection is left open and unregistered, and presence adds up.
- **Sync.** Two reads that are not one snapshot, and client runs that
  are cancelled, fail or overlap while they share one cursor. Right when the cursor
  never passes a message the client has not got.
- **Sessions.** Rotation against retries, second tabs, reloads and logout; a refresh
  response that arrives after logout or after the next login, where a cancelled
  connection attempt logs the tab out again. Right when a refresh
  token buys one successor, a replay ends the session and nothing else is taken for a
  replay, and a tab acts for the session it logged in to.
- **Throttle and rate limits.** Read-modify-write of counters by parallel
  requests; window boundaries. Right when no window lets more than its limit pass,
  nobody is locked who has not earned it, and a lock is lifted early only by an
  attempt that was already past it, or with its row when it is configured to outlast
  the day a row is kept.
- **Contacts, wallet, device keys.** Unique rows and terminal invite states;
  transactions that read, decide and write; a directory read in several
  statements. Right when contacts follow the recorded answers, the books
  balance, revoked devices keep no prekeys and the directory leaves out no device
  that was in use throughout.

`PROJECT.json` lists the hazards one by one at the line where each bites,
with the properties that cover it or the reason why none does.

## 2. Modules

    MessageStore        the tables as values, the statements as operators
      |-- MessageStoreProofs     TLAPS: what a page of a listing is
      |-- DirectMessaging        SendDirect + receipt endpoints + process stop
      |     |-- MessageLifecycle       what they promise (refined)
      |     |-- DirectMessagingProofs  TLAPS: acknowledgements and receipts
      |     |-- DeliveryProofs         TLAPS: failures, thread reads, refinement
      |     `-- MCDirectMessaging      instances
      `-- MessageSync            Sync + runSync
            |-- MessageSyncProofs      TLAPS
            `-- MCMessageSync          instances
    RelayHub            the hub, its locks and loops
      |-- RelayHubProofs         TLAPS
      `-- MCRelayHub             instances
    SqliteLocks         SQLite's locks (external), one database file
      |-- Sessions               token transactions + middleware + tabs
      |     |-- SessionStore           auth_sessions as a value, its statements
      |     |-- SessionLifecycle       what they promise (refined)
      |     |-- SessionsProofs         TLAPS, with the refinement
      |     `-- MCSessions             instance
      |-- LoginGuard             rate limits + lockout
      |     |-- LoginGuardProofs       TLAPS
      |     `-- MCLoginGuard           instances
      `-- Requests               requests that run a transaction
            |-- Contacts, Wallet, DeviceKeys
            `-- Accounts               the three on one database
                  |-- AccountsProofs         TLAPS
                  `-- MCAccounts             instance

`DirectMessaging` and `MessageSync` share `MessageStore`, so a statement means the
same in both. `DirectMessaging` sees the hub through the `Transport` interface
only: `SendDirect` answers `true` when at least one connection took the frame,
which is a nondeterministic Boolean. `RelayHub` is the other side of that
interface: what happens to a frame from there on, and that the call returns.

### MessageStore

`msgs` is the `messages` table: position *i* holds row *i*, because `AUTOINCREMENT`
hands out increasing ids. (SQLite leaves gaps when a transaction is rolled
back; the inserts here are single statements.) `dels` and `corrs` are the two side
tables; a missing row is a record of NULLs, which no code path can tell from a row
of NULLs. Bodies, names and times of creation are left out: nothing branches on
them. One SQL statement is one operator and so one atomic step; SQLite has no
finer interleaving between connections.

### DirectMessaging

| Variable | In the code |
|---|---|
| `messages`, `deliveries`, `correlations` | the tables |
| `conn[c]` | the locals of `SendDirect` called by the `readLoop` of connection `c`, `pc` is the next statement |
| `handler[h]` | the locals of one HTTP request |
| `now` | `time.Now()` |
| `relayed`, `replies`, `notices` | history: what the transport accepted |
| `handler[h].owed` | history: the messages a thread read has to cover |

| Action | Code |
|---|---|
| `Receive`, `Reply` | `readLoop` before and after `SendDirect` |
| `Insert`, `Fetch` | `SaveDirectMessage`: the INSERT and the row read back |
| `Push`, `Correlate`, `Mark` | the rest of `SendDirect`, in its order |
| `StatementFails` | any of these statements returns an error |
| `RequestMark`, `Upsert`, `Notify` | `MarkRead`, `MarkDelivered` |
| `RequestThreadRead`, `ListPage`, `MarkNext`, `ThreadDone`, `Respond` | `MarkThreadRead`: the paging loop, then one upsert and one push per message |
| `RequestFails` | the error returns of the handlers |
| `Crash` | the process stops anywhere; the tables survive |

An error answer is not kept in `replies` as it names no message. A lost answer is
the branch of `Reply` that leaves `replies` alone, a lost receipt frame the same
branch of `Notify`. `RelayService`, used when no store is configured, is
`Push` and `Reply` alone and has no module of its own.

`MessageLifecycle` is the promise in four actions: messages get consecutive ids,
go from stored through delivered to read, never back, and are acknowledged only when
delivered. The refinement mapping reads the status off the tables (`StatusOf`)
and the acknowledgements off the history.

### RelayHub

| Variable | In the code |
|---|---|
| `registered` | the key set of `h.clients` |
| `queue[c]`, `closed[c]` | the channel `c.send` and the flag `c.closed` |
| `connOpen[c]` | the WebSocket |
| `reader[c]` | `WebSocketHandler`, then `readLoop` with `Hub.SendDirect` inside: `todo` is the snapshot, `on` the connection being written to |
| `writer[c]` | `writeLoop` |
| `closer[p]` | a goroutine in `RemoveClient`, `DisconnectSession` or `Shutdown`; a connection's own `readLoop` closes it as process `c` |
| `revoked` | sessions with `revoked_at` set |
| `announce[<<c, occasion>>]` | the broadcast goroutine owed by the first or the last connection of a user |

The hub's mutex is not a variable: every critical section of it but one is a
single action, guarded by `HubFree`; `Shutdown` holds it from `ShutdownLocks` to
its last target. A connection's `sendMu` is derived: it is held shared by whoever is in
`Waiting(c)`, and a closer in `lock` keeps new readers out
(`LockPending`), as Go's RWMutex does. `CloseChannel` needs the lock free of
readers, `SendTo`, `Reply`, `Greet` and `BroadcastTo` need no writer pending.
After 500 ms a waiting sender gives up, which is always possible (`WaitTimeout`).
The pings and the read deadline are `WriteFails` and `ReadFails`.

### MessageSync

`run[r]` is one invocation of the `runSync` effect with the request it has in flight:
`inbox` and `outbox` are the two result sets inside `Sync`, read by two actions;
`got` is what the loop has collected, `after` its local cursor.
`checkpoint` is `syncCursorRef`, shared by all runs. `StartRun` cancels the
runs before it, because React runs the clean-up of the previous effect first;
a cancelled run still does what the code does after its last look at the flag,
which is to write the cursor. `raced` and `known` are history. Two things are
assumed: every user is a contact, and no frames arrive.

### SqliteLocks

The server opens SQLite with its rollback journal, a pool of connections and
DEFERRED transactions. `lock[t]` is what the transaction of process `t` holds: `Share`
with its first SELECT, `Reserve` with its first write, `CommitLock` when nobody else
holds anything. A writing statement outside a transaction is `AutoCommit`. In the
modules that use it a transaction's writes take effect with its COMMIT, which is when
others can see them; what it does before is what it has read and the lock it
holds. Waiting for a lock is a step that is not taken yet, `SQLITE_BUSY` is a
statement that fails, and every statement may fail. Lock modes are what makes
read-then-write transactions safe here: each mutant that moves a SELECT out of its
transaction (`LookupOutside`, `SelectInviteOutside`, `PublishPrekeysOutside`)
breaks a property.

### Sessions

| Variable | In the code |
|---|---|
| `rows` | `auth_sessions`, row *i* at position *i* (`SessionStore`) |
| `calls[c]` | one HTTP request: the locals of the handler and the adapter, then the answer on its way |
| `tabs[t]` | a tab's `authState`, `refreshPromise` (`api.js`) and `isLoggedIn` (`App.jsx`) |
| `storage` | `localStorage`, written by every tab and read when one loads |
| `parent`, `exposed`, `own`, `torn` | history: what each token was exchanged for; sessions with a cause for a replay; the session a tab logged in to or loaded; tabs whose auth state changed under a running refresh |

| Action | Code |
|---|---|
| `Lookup`, `Write`, `CommitRotation`, `CommitEnd` | `RefreshSession` |
| `WriteLogin`, `CommitLogin` | `IssueSession` after the password was accepted |
| `Validate`, `WriteRevocation`, `CommitRevocation` | the middleware, then `Logout` or `RevokeSession` |
| `Fail`, `NotServed`, `Lost` | a statement fails, a request is lost or limited, an answer is lost |
| `MaybeCleanup` | the DELETE of every 256th call |
| `StartLogin`, `StartLogout`, `StartRevoke` | what a user starts in a tab |
| `StartRefresh`, `ShareRefresh`, `ConnectsWithout`, `ClientExpires` | `ensureAccessToken` before a connection attempt: a refresh of its own, one already under way, no token at all, an expired refresh token |
| `LoginArrives`, `RefreshArrives`, `RefusalArrives`, `RefreshFails`, `InvalidArrives`, `RequestArrives` | what the tab does with each answer, callers that await the promise included |
| `Reload` | the tab is loaded again; the server goes on with its requests |
| `Tick` | more than 30 days pass: the life time of a refresh token and the clean-up's retention |

A refresh is awaited by a connection attempt (`connect`), by requests that were answered
"invalid token" (`Waiters`), or by both. `stale` says that the tab was cleared since it
began, which ends the effect in `App.jsx` the attempt belongs to. `refreshSession` applies the
payload of a success whatever happened meanwhile; then `RefreshArrives` depends on who
waited. A cancelled attempt calls `clearLoggedInState` (`App.jsx:162`) and so
logs the tab out, also of a newer login, and cancels that login's refreshes in turn.
Without one the tokens stay: this is how a tab can end up with tokens of an earlier
session, which `TabKeepsItsSession` admits for the tabs in `torn` and for no other. A
cancelled attempt whose refresh fails returns silently (`RefusalArrives`, `RefreshFails`).
A tab that restores its session when it loads (`bootstrapAuth`) counts as shown.
A login that is answered while a refresh of the same tab runs exposes both sessions:
the answer of that refresh is applied after the login's, so the tab may go on with either
token, and with both after the next login or reload.
Access tokens expire at any time: `Validate` may refuse one of a live session.

`SessionLifecycle` is the promise: a session is issued with a token, exchanges it
while live, ends by revocation or expiry, stays ended, is forgotten. The mapping
reads the state off each row and the clock (`LifeOf`), so expiry with nobody
writing anything is a step of the abstract specification.

### LoginGuard

`attempts[a]` is one `POST /api/login`: twice through `sharedWindowRateLimiter.allow`
(`Hit`, `Decide`: the address, then the user name), `lockedUntil` (`CheckLock`),
the password, and then either the SELECT and the upsert of `recordLoginFailure`
(`ReadThrottle`, `Upsert`: two statements without a transaction) or the DELETE of
`recordLoginSuccess` (`Clear`). A database error lets a request past a limiter
(`LimiterFails`), refuses it at the lock check and is ignored when a result is
recorded (`StatementFails`). `hits` and `throttle` are the two tables; `served`,
`failures`, `answered`, `locks`, `disturbed` and the attempts' `seen` and `stale` are
history.

### Requests, Contacts, Wallet, DeviceKeys, Accounts

`Requests` holds what the three share: `req[p]`, what the handler in goroutine `p`
remembers between two statements, and the opening, committing and failing of its
transaction. Handlers of one writing statement are one action (`OneStatement`).
`Contacts` (`contacts`, `invites`), `Wallet` (`balance`, `transfers`) and `DeviceKeys`
(`devices`) each add their tables and handlers; `Accounts` runs them on
one database, where their transactions compete for its locks. The device directory is a
list (`GetDirectory`), one read per device on it (`ListPrekeys`) and the answer;
`before` in such a request is history. An action stands for the branch that does
something; `ErrNotFound`, `ErrInviteExists` and `ErrInsufficientFund` leave all
tables as they were and are not steps.

## 3. Runs

| Run | Question | Instance | Distinct states |
|---|---|---|---|
| `relay` | Are acknowledgement, offline error and `delivery_failed` true? | 2 tabs of one user, 2 client ids, 2 messages, one read request | about 1 200 000 |
| `receipts` | Do racing receipt writers keep the table right, and is the life cycle implemented? | 1 tab, 1 request, 2 messages, 2 clock values, pages of 1 | about 2 300 000 |
| `relay_failure` | Does "delivery failed" mean not delivered? No | 1 tab, 2 messages | counterexample |
| `hub` | Do locks, registry and presence agree? | 2 tabs, 1 session, capacity 1, 1 message, logout | about 980 000 |
| `hub_live` | Does everything that must end, end? | 2 users, shutdown, capacity 1, 1 message | about 40 000 |
| `hub_revocation` | Is a revoked session disconnected? Not if its handshake was under way | as `hub` | counterexample |
| `sync` | Does the cursor pass anything unseen? | 2 users, 2 runs, 3 messages, pages of 1 | about 3 900 000 |
| `sync_skip` | Is `next_after_id` a checkpoint? Not quite | as `sync` | counterexample |
| `sessions` | Do rotation, replay detection and the tabs' tokens stay consistent, and is the life cycle implemented? | 2 tabs, 2 requests at a time, 4 in all, 2 sessions, 4 tokens, 1 step of 30 days | about 500 000 |
| `login` | Do limits and lockout do what they are for under concurrency? | 2 attempts at a time, 4 in all, 1 address, limits of 3, threshold of 2, locks of 3 steps, rows kept for 1, 3 steps of time, failing statements | about 4 100 000 |
| `login_lockout` | Does the threshold of wrong passwords lock? Not when they are parallel | as `login` with locks of 2 steps and rows kept for 2, no statement fails | counterexample |
| `accounts` | Do contacts, books, devices and the directory stay consistent? | 3 users, 2 requests at a time, 3 in all, 2 amounts, 2 prekeys | about 660 000 |

Bounds, and why they are enough:

- `MaxMessages` bounds inserts only. Two messages let a client id
  move from one to the other with the first still in flight, and give a thread two
  pages of one row; three messages let one be overtaken while a run is
  between pages.
- `ClientIds` are shared by two tabs of one user, the only processes that can
  compete for a correlation row (it is keyed by the sender). The second id lets each
  tab have its own too. A third tab would be one more competitor for the same row.
- `MaxTime = 2` in `receipts` makes a second write visible as a different
  timestamp; in `relay` times are not compared and one value will do.
- `PageLimit` and `Limit` are 1 (200 in the code), so that every message is a page
  boundary.
- `SendCap = 1` (16 in the code): full, then room again, is reached with one frame.
  `MaxSends` is one message from one connection: a waiting sender and a pending
  close of the connection it waits for need no more.
- `Occasions` selects the broadcasts that are followed to their end. `hub_live` keeps
  only those of last connections, as the online ones behave the same and no liveness
  property depends on either.
- `MayEnd`: one logout in `hub`, one shutdown in `hub_live`.
- `sessions`: a replay needs a login, a rotation and the old token once more, which
  is three requests; the fourth is the logout, the second login or the other
  tab's refresh that comes in between. Two sessions are what it takes to act
  for the wrong one. One step of time makes a session expire and the
  clean-up find it.
- `login`: with a threshold of 2, two attempts lose an update and a third one lifts a
  lock it has not seen; the fourth fills a limit of 3. Rate windows (2 steps) and the
  lockout window (1) end within the 3 steps of time. A lock is longer than a row is kept, so
  that the clean-up meets rows that still lock and `LockLiftNeedsCause` its second case.
- `accounts`: two requests at a time are every pair of handlers that can meet
  in a transaction; the third prepares what they meet on (an invitation, a
  contact, a second device). Three users tell an invitation between two of them from
  one with somebody else and give a transfer a bystander. A device with two
  prekeys is there from the start.
- In `hub` and `hub_live` a connection is used once and all of them may be gone in the
  end, so the hub really comes to rest; in `login` and `accounts` the bound on requests
  ends a behaviour. Deadlock is not looked for in these. All other runs look for it.
- Symmetry is used between the two tabs of `relay`, the two runs of `sync`, the tabs and
  the requests of `sessions`, the attempts of `login`, and the users and the goroutines of
  `accounts`, which differ in nothing; with action properties and step simulation, which look at
  one step at a time, and never with liveness.

Fairness (`hub_live` only): goroutines that can run do run, and timers and
deadlines fire. Weak fairness is asked of what a `readLoop`, `writeLoop` or closer
can do by itself, and of the failure of a read or a write only when the connection
is dead: the 60 s read deadline and the write of the next ping see to that. No
client is required to connect, send or leave, nobody to revoke or stop, and no
broadcast to finish. The other runs check safety and assume no fairness. Go's RWMutex makes new readers wait behind a pending writer, so
weak fairness of the writer is what it gives.

### Where code and documents disagree

- `relay_failure`: `docs/architecture/api.md:69` says the sender receives
  `message_ack` on successful relay. When the correlation or the delivery
  mark cannot be written, the sender gets an error for a message the recipient has.
- `hub_revocation`: `docs/architecture/security.md:91` says logout disconnects
  matching WebSocket clients. A connection that was authenticated
  before the logout and registers after it stays.
- `sync_skip`: `docs/architecture/api.md:75` calls `next_after_id` a durable
  checkpoint. `Sync` reads inbox and outbox separately; a message stored in
  between is passed when a newer message of the user's own is on the page.
  `sync` shows that this is the only way: `CursorCovers` allows exactly
  the overtaken messages.
- `login_lockout`: `docs/architecture/security.md:24` says that 5 failed logins in 15 minutes
  trigger a cool-down. Failures verified in parallel are counted once, so the
  threshold can be reached without a lock. `LockWhenDue` in `login` shows that overlap
  and database errors are the only ways.

## 4. Proofs

Every invariant and every action property of the passing runs is a theorem for all
values of the constants, and so are both refinements. The liveness properties of
`hub_live` are not (see the end of this section). A property is seldom inductive as it
stands: what is proved first is an invariant that says what every process knows at
every stage (`Invariance`), and the properties follow from it.

### DirectMessaging

`DirectMessagingProofs`, for any set of users, connections, requests and client ids and
any bounds:

| Theorem | Statement |
|---|---|
| `TypeCorrect` | `Spec => []TypeOK` |
| `AcksAreTruthful` | `Spec => []AckedIsDelivered` |
| `ReceiptTableIsValid` | `Spec => []ReceiptRowsValid` |
| `NoticesAreTruthful` | `Spec => []NoticeIsTruthful` |
| `ReceiptsAreFinal` | `Spec => FirstReceiptWins` |
| `ReadByRecipientOnly` | `Spec => OnlyRecipientReads` |

The assumption is `ConstantsAssumption` of `DirectMessaging`: there is a user, every
connection has one, client ids are positive, bounds are at least 1.

That an acknowledged message is delivered depends on what
the send had established when it got to its reply, so the inductive
invariant `IInv` adds two conjuncts: `SendOK`, what each stage of `SendDirect` knows
(after the insert the id names a row of this sender; after the push, `ok` means
the frame was accepted; at the reply, "ack" means the mark is written), and
`RequestOK`, the same for the receipt requests (the message belongs to
the requester; at the notification the receipt is on record; what a thread request
has collected is its own inbox). The argument has three layers. *Types*: each
action keeps `TypeOK`. *Growth*: whatever step is taken, rows of `messages` stay as
they are (`StoreGrows`) and receipts that are set stay set (`ReceiptsGrow`, from
`ReceiptChange`, which says that every step writes at most one receipt row and who
wrote it). *Stages*: a process that does not move keeps its facts because
the tables only grow (`SendOKStable`, `RequestOKStable`); one that
moves is checked action by action.

`DeliveryProofs` goes on from there:

| Theorem | Statement |
|---|---|
| `OutcomesInvariant` | `Spec => []OutcomeInv`, the invariant the next two follow from |
| `RowsAreUnambiguous` | `Spec => []CorrelationUnambiguous` |
| `FailuresAreTruthful` | `Spec => []FailureIsTruthful` |
| `OfflineIsShown` | `Spec => []OfflineStaysVisible` |
| `ThreadReadsComplete` | `Spec => []ThreadReadIsComplete` |
| `MessagesLiveForward` | `Spec => ImplementsLifecycle` |

An answer "offline" stays true only if nobody offers that frame later, which no
stage of one send can know alone. `OutcomeInv`, a second inductive invariant on top of
`IInv`, says it of all of them: two sends never work on one message (`SendsApart`), and
what a send has not offered, recorded or answered yet is in no history and no row.
`CorrelationUnambiguous` rests on the same fact and on the upsert's condition.
For thread reads, `ThreadsOK` says where a message that is owed can be: still ahead of
the paging loop, collected, or read. The refinement takes each action to the action of
`MessageLifecycle` it is, or to a stutter; only the inserts, the marks and the
acknowledgements show.

`MessageStoreProofs` has the lemmas on pages that these proofs and those on the
catch-up share: ORDER BY and LIMIT return the first rows, all of them when
there are no more than the limit, exactly the limit otherwise.

### RelayHub

`RelayHubProofs`, for any users, connections, sessions, capacity and bounds:

| Theorem | Statement |
|---|---|
| `TypeCorrect` | `Spec => []TypeOK` |
| `NobodySendsOnClosedChannel` | `Spec => []NoSendOnClosedChannel` |
| `NobodyIsOrphaned` | `Spec => []NoOrphan` |
| `DisconnectCompletes` | `Spec => []DisconnectIsComplete` |
| `PresenceIsBalanced` | `Spec => []PresenceBalanced` |

The assumption is `ConstantsAssumption` of `RelayHub`: there are connections, each has a user
and a session, process names differ, the capacity is at least 1.
`PresenceIsBalanced` also assumes that there are finitely many connections, because it counts
announcements, and that both broadcasts are followed (`Occasions`), as they are in `hub`.

The invariant is about responsibility. A connection is `Safe` once its channel is closed
or somebody is bound to close it, and stays so. Connections leave the map in two
places: `RemoveClient` makes the one that leaves safe in the same critical section, and
`Shutdown` empties the map only when it has made all of them safe, keeping the mutex
meanwhile (`SweepOK`). `FoundOK` says of `DisconnectSession` that what it found
and has not dealt with is on its list or in its hands. For presence, two finite sets of
announcements change by one element together with the first or last connection.

### MessageSync

`MessageSyncProofs`, for any users, overlapping runs, page size and bounds:

| Theorem | Statement |
|---|---|
| `TypeCorrect` | `Spec => []TypeOK` |
| `CursorLosesNothing` | `Spec => []CursorCovers` |
| `RunsComplete` | `Spec => []CompletedRunIsComplete` |

What a run has read of the inbox is the beginning of it; what it lacks either comes
after a full page, or was stored between the two reads and is in `raced`, or is
younger than everything read (`ReadOK`). So a page passes over no message but an
overtaken one, the pages of a run cover everything up to its local cursor (`CoversOK`), and
the cursor all runs share does too, in whatever order they write it. A run that was
not cancelled ends with a short page, which holds the rest of what was stored when it
started (`KnownOK`).

### Sessions

`SessionsProofs`, for any tabs, requests at a time and bounds; the assumption is
`SessionConstants` (no tab and no request is called like the absence of one):

| Theorem | Statement |
|---|---|
| `TypeCorrect` | `Spec => []TypeOK` |
| `TokensHaveOneSuccessor` | `Spec => []OneSuccessor` |
| `ReplayIsFinal` | `Spec => []ReplayEndsSession` |
| `TabsKeepTheirSession` | `Spec => []TabKeepsItsSession` |
| `ReplaysHaveACause` | `Spec => []ReplayNeedsCause` |
| `SessionsLiveOnce` | `Spec => ImplementsLifecycle` |

*Tables*: a call between its first look and its commit holds its lock, so nobody else
commits and what it looked at is still so when it commits. A row's current token has
not been exchanged, is no other row's, and gives way to a new one together with its
exchange; a revoked row stays revoked. *Tabs*: a refresh is flagged stale as soon as its
tab is cleared, and a tab with a stale refresh, or with a login during one, is torn
(`KeepsOK`), so that in any other tab every answer is of the session the tab holds; a
stale success that a connection attempt awaits clears the tab. *Causes*: while nothing has exposed a session, at most one tab holds it, with
its current token, and at most one refresh of it runs (`CauseInv`); a replay needs an older
token, and who sends one was exposed before. `CauseInv` failed at first for a tab
that logs in while its refresh runs, twice, in a behaviour longer than the bounds of
`sessions`: the history `exposed` had left out the session of the login itself.

### LoginGuard

`LoginGuardProofs`, for any attempts at a time, addresses, limits, thresholds and
times; the assumption is `GuardConstants` (limits, rate windows, the threshold and the lock's
duration are positive; nothing relates that duration to the day a row is kept, as
`LOGIN_LOCKOUT_DURATION_MINUTES` may be anything):

| Theorem | Statement |
|---|---|
| `TypeCorrect` | `Spec => []TypeOK` |
| `LimiterHolds` | `Spec => []WindowLimit` |
| `LocksAreEarned` | `Spec => []LockIsEarned` |
| `DueLocksAreSet` | `Spec => []LockWhenDue` |
| `LocksAreKept` | `Spec => LockLiftNeedsCause` |

*Limiter*: nothing but the attempt that holds RESERVED changes a window's hits, and the
clean-up spares the windows in use, so the hits of a window never fall below what it
served (`WindowsOK`). *Lockout*: an attempt that passed the lock check and has seen every lock
set since knows that the user name is not locked (`SeenOK`), so only an earlier one
lifts a lock; the clean-up meets a row that locks only if locks outlast rows. Unless a count was lost, the
row has counted everything answered in this step (`DueOK`). What a row counts are
failures on record since its first one (`EarnedOK`), and a count never exceeds the attempts
that can have paid for it (`CountOK`), although stale rows are written back. To reason
about them, `failures` is the sequence of the times of all wrong passwords.

### Accounts

`AccountsProofs`, for any users, goroutines, amounts and bounds and any nonempty set of
prekeys:

| Theorem | Statement |
|---|---|
| `TypeCorrect` | `Spec => []TypeOK` |
| `ContactsAreCaused` | `Spec => []ContactsHaveCause` |
| `RevokedDevicesAreEmpty` | `Spec => []RevokedHasNoPrekeys` |
| `AnswersAreFinal` | `Spec => InvitationIsFinal` |
| `BooksAreBalanced` | `Spec => []BooksBalance` |
| `DirectoriesAreCurrent` | `Spec => []DirectoryIsCurrent` |

The assumptions are `RequestConstants`, `WalletConstants` (amounts are positive whole
cents) and `PrekeyConstants` (a device is registered with at least one prekey, so there is
one). What a transaction writes was decided when it read, so the inductive invariant
`IInv` adds `ReqOK`, what each request still knows (the invitation it answers is pending,
the device it changes is in use), and the types of the table rows. The whole argument is in
`CommitOK` and `OneStatementOK`: a table changes only in a step for which nobody else
holds a lock, `UnlockedIsQuiet` says that requests without a lock know nothing about the
tables, and so no request's knowledge is ever made false by another. Each action then
needs one lemma about its own table.

For the books, `BooksInv` keeps two facts on top of that: a transfer between its
check of the balance and its commit is still covered, and every balance is what the log of
transfers says. The latter needs to know how the sum over the log changes with one
more row, whatever order `MapThenSumSet` adds in. It is proved by induction over the size
of the set, stated as a set of numbers that contains 0 and with each number its successor
(`AllNumbers`, from the well-foundedness of `<`), because the library's induction
theorems take operators as parameters: `SumsExist`, `SumsAgree`, `SumsInAnyOrder`,
then `TotalGrows`.

For the directory, `DirectoryInv` follows a listing from device to device: what it has read
and what it has left make up the owner's devices in use when it came in, and devices
stay with their user and stay revoked (`DevicesStay`).

### What stays with TLC

`SendReturns`, `DeadConnectionLeaves`, `ShutdownDrains` and `AcceptedIsWritten` of `hub_live`
say that something eventually happens. They rest on weak fairness, hence on
`ENABLED`, which TLAPS as installed cannot reason about; they are model-checked only.
The four expected counterexamples are single instances. `ThreadReadsComplete` and
`RunsComplete` are safety: they say what holds when a read or a run has ended, not that
it ends.

## 5. Not modelled

- End-to-end encryption in the client works on one message at a time; a message is
  an id here, so there is nothing to interleave.
- Accounts and profiles are single statements on one row; migrations are one
  transaction before anything else runs; marketplace has types only; routing,
  configuration and rendering are I/O.
- Client threads: optimistic bubbles, acks, receipts and frames in the threads, the
  summaries and the two other writers of the sync cursor (`Chat.jsx:1028` and
  `1129`), senders who are not contacts, and the one-slot `lastWsMessage`. They are
  listed as hazards without a property.
- The client's socket, its reconnect timer and its online list; the order in which
  presence announcements arrive is promised nowhere.
- Sessions: registration, the list of sessions, `last_seen_at` and labels, tokens
  without a session. Login: the in-memory limiter that serves when there is no
  database, and the other routes' limits, which are the same code with another key.
- Wallet: rounding of dollars to cents. Devices: `device_sessions`, which only tells
  an owner which device is the current one, and the owner's own list. Listings that
  are single reads.
- Within the modelled parts: message bodies and device envelopes, validation that
  ends before any state changes, logging, request ids, and the order of entries
  within one listing beyond what paging needs.

## 6. Plan

The models of the first plan are there but for the client's threads and its online
list (section 5), and what the runs check of safety is proved. What is left:

1. **Client threads**: the thread state of `Chat.jsx` with the other writers of the sync
   cursor (`Chat.jsx:1028` and `1129`) and senders who are not contacts, on top of
   `MessageSync`; then `CursorCovers` for all writers.
2. **Online list**: presence frames in the client, on top of `RelayHub`.
3. **Proofs** about these, and lemmas for a proof that a stopped hub comes to rest: what
   is enabled in each state of a closer, as far as it can be said without `ENABLED`.
