------------------------------ MODULE RelayHub ------------------------------
(***************************************************************************)
(* wsrelay.Hub: the in-memory registry of WebSocket connections.           *)
(*                                                                         *)
(* Every connection has a bounded channel `send` that many goroutines fill *)
(* and its writeLoop drains, guarded by an RWMutex: senders hold it shared *)
(* (for up to 500 ms), close() takes it exclusively before it closes the   *)
(* channel.  RemoveClient is called by the connection's own readLoop and   *)
(* by DisconnectSession, Shutdown closes everything while it holds the     *)
(* hub's mutex.  The hub's other critical sections are single steps that   *)
(* need that mutex free; each use of a connection's mutex is a step.       *)
(***************************************************************************)
EXTENDS Naturals, Sequences, FiniteSets

CONSTANTS
    Users,          \* user accounts
    Clients,        \* connections (values of type *client), each used once
    ClientUser,     \* the user a connection is authenticated as
    Sessions,       \* login sessions
    ClientSession,  \* the session a connection is authenticated with
    Server,         \* the goroutine that runs Shutdown
    MayEnd,         \* bound: sessions that may be revoked; Server if it may stop
    Occasions,      \* bound: the broadcasts that are followed, online and offline
    SendCap,        \* capacity of the send channel (16 in the code)
    MaxSends        \* bound: direct messages each connection sends (a function)

ASSUME ConstantsAssumption ==
    /\ Clients # {}
    /\ ClientUser \in [Clients -> Users]
    /\ ClientSession \in [Clients -> Sessions]
    /\ Clients \cap Sessions = {}
    /\ Server \notin Clients \cup Sessions
    /\ MayEnd \subseteq Sessions \cup {Server}
    /\ Occasions \subseteq {"online", "offline"}
    /\ SendCap \in Nat \ {0}
    /\ MaxSends \in [Clients -> Nat]

\* Everyone who closes connections: readLoops, requests that revoke a
\* session, and Shutdown.
Closers == Clients \cup Sessions \cup {Server}

VARIABLES
    registered,  \* the connections in h.clients
    queue,       \* what is buffered in each send channel
    closed,      \* the closed flag: the channel is closed
    connOpen,    \* the WebSocket can still be read and written
    reader,      \* the handshake and then the readLoop of each connection
    writer,      \* the writeLoop of each connection
    closer,      \* what each closer is doing
    revoked,     \* sessions revoked in the database
    announce     \* the online and the offline broadcast of each connection

vars == <<registered, queue, closed, connOpen, reader, writer, closer, revoked, announce>>

\* Direct messages are told apart; presence frames and replies are not.
DirectFrames == UNION {[from : {c}, n : 1..MaxSends[c]] : c \in Clients}
Other == [from |-> Server, n |-> 0]

NoTarget == CHOOSE c \in Clients : TRUE

Init ==
    /\ registered = {}
    /\ queue = [c \in Clients |-> <<>>]
    /\ closed = [c \in Clients |-> FALSE]
    /\ connOpen = [c \in Clients |-> FALSE]
    /\ reader = [c \in Clients |-> [pc |-> "offline", todo |-> {}, on |-> c, n |-> 0]]
    /\ writer = [c \in Clients |-> "off"]
    /\ closer = [p \in Closers |-> [pc |-> "idle", todo |-> {}, found |-> {}, target |-> NoTarget]]
    /\ revoked = {}
    /\ announce = [b \in Clients \X Occasions |-> [pc |-> "none", todo |-> {}]]

\* h.mu: only Shutdown keeps it from one step to the next.
HubFree == closer[Server].pc \notin {"next", "close", "lock", "shut"}

\* h.ctx is cancelled.
Stopping == closer[Server].pc # "idle"

\* Goroutines that hold c.sendMu shared from one step to the next: SendDirect
\* calls that wait for room in c's channel.
Waiting(c) == {r \in Clients : reader[r].pc = "wait" /\ reader[r].on = c}

\* A closer has called c.sendMu.Lock(): new RLock() calls wait behind it.
LockPending(c) == \E p \in Closers : closer[p].pc = "lock" /\ closer[p].target = c

HasRoom(c) == Len(queue[c]) < SendCap

\* Mutant: the frame is queued whether there is room or not.
TrySendOverfull(c, frame) ==
    IF closed[c] THEN queue ELSE [queue EXCEPT ![c] = Append(@, frame)]

\* sendWithTimeout(frame, 0), once the lock is held.
TrySend(c, frame) ==
    IF closed[c] \/ ~HasRoom(c) THEN queue ELSE [queue EXCEPT ![c] = Append(@, frame)]

Of(u) == {c \in registered : ClientUser[c] = u}

\* The broadcast of b, a connection and an occasion, moves from one stage to
\* the next.
Advance(b, from, to) ==
    IF b \in DOMAIN announce /\ announce[b].pc = from
    THEN [announce EXCEPT ![b].pc = to] ELSE announce

-----------------------------------------------------------------------------
(* The handshake: WebSocketHandler and AddClient.                           *)

\* The authenticator accepts the token of a session that is not revoked and
\* the connection is upgraded.
Authenticate(c) ==
    /\ reader[c].pc = "offline"
    /\ ClientSession[c] \notin revoked
    /\ reader' = [reader EXCEPT ![c].pc = "add"]
    /\ connOpen' = [connOpen EXCEPT ![c] = TRUE]
    /\ UNCHANGED <<registered, queue, closed, writer, closer, revoked, announce>>

\* The first connection of a user owes the others a user_online frame.
AddClient(c) ==
    /\ reader[c].pc = "add"
    /\ HubFree
    /\ registered' = registered \cup {c}
    /\ announce' = IF Of(ClientUser[c]) = {}
                   THEN Advance(<<c, "online">>, "none", "due") ELSE announce
    /\ reader' = [reader EXCEPT ![c].pc = "greet"]
    /\ UNCHANGED <<queue, closed, connOpen, writer, closer, revoked>>

\* presence_state is offered to the new connection, the broadcast is started
\* and so are the two loops.
Greet(c) ==
    /\ reader[c].pc = "greet"
    /\ ~LockPending(c)
    /\ queue' = TrySend(c, Other)
    /\ announce' = Advance(<<c, "online">>, "due", "go")
    /\ reader' = [reader EXCEPT ![c].pc = "read"]
    /\ writer' = [writer EXCEPT ![c] = "run"]
    /\ UNCHANGED <<registered, closed, connOpen, closer, revoked>>

-----------------------------------------------------------------------------
(* The readLoop and Hub.SendDirect.                                         *)

\* A direct_message for user u is read; SendDirect takes its snapshot.
StartSend(c, u) ==
    /\ reader[c].pc = "read"
    /\ connOpen[c]
    /\ HubFree
    /\ reader[c].n < MaxSends[c]
    /\ reader' = [reader EXCEPT ![c].pc = IF Of(u) = {} THEN "reply" ELSE "send",
                                ![c].todo = Of(u), ![c].n = @ + 1]
    /\ UNCHANGED <<registered, queue, closed, connOpen, writer, closer, revoked, announce>>

Frame(c) == [from |-> c, n |-> reader[c].n]

\* SendDirect is through with connection d.
Served(c, d) ==
    LET rest == reader[c].todo \ {d}
    IN [reader EXCEPT ![c].todo = rest, ![c].on = c,
                      ![c].pc = IF rest = {} THEN "reply" ELSE "send"]

\* c.sendMu.RLock() of the next connection in the snapshot: a closed one is
\* skipped, a channel with room takes the frame, a full one is waited for.
SendTo(c, d) ==
    /\ reader[c].pc = "send"
    /\ d \in reader[c].todo
    /\ ~LockPending(d)
    /\ queue' = TrySend(d, Frame(c))
    /\ reader' = IF closed[d] \/ HasRoom(d)
                 THEN Served(c, d)
                 ELSE [reader EXCEPT ![c].pc = "wait", ![c].on = d]
    /\ UNCHANGED <<registered, closed, connOpen, writer, closer, revoked, announce>>

WaitAccepted(c) ==
    LET d == reader[c].on
    IN /\ reader[c].pc = "wait"
       /\ HasRoom(d)
       /\ queue' = [queue EXCEPT ![d] = Append(@, Frame(c))]
       /\ reader' = Served(c, d)
       /\ UNCHANGED <<registered, closed, connOpen, writer, closer, revoked, announce>>

\* Mutant: the wait for room in the channel has no timer.
WaitForever(c) == FALSE /\ UNCHANGED vars

\* 500 ms are over.
WaitTimeout(c) ==
    /\ reader[c].pc = "wait"
    /\ reader' = Served(c, reader[c].on)
    /\ UNCHANGED <<registered, queue, closed, connOpen, writer, closer, revoked, announce>>

\* The ack or the error for the sender, dropped when the channel is full.
Reply(c) ==
    /\ reader[c].pc = "reply"
    /\ ~LockPending(c)
    /\ queue' = TrySend(c, Other)
    /\ reader' = [reader EXCEPT ![c].pc = "read"]
    /\ UNCHANGED <<registered, closed, connOpen, writer, closer, revoked, announce>>

\* Mutant: the readLoop returns without RemoveClient.
ReadFailsQuietly(c) ==
    /\ reader[c].pc = "read"
    /\ reader' = [reader EXCEPT ![c].pc = "done"]
    /\ UNCHANGED <<registered, queue, closed, connOpen, writer, closer, revoked, announce>>

\* ReadJSON returns an error: the connection is closed, the peer is gone (the
\* read deadline), or the frame is malformed or too long.
ReadFails(c) ==
    /\ reader[c].pc = "read"
    /\ reader' = [reader EXCEPT ![c].pc = "done"]
    /\ closer' = [closer EXCEPT ![c].pc = "remove", ![c].target = c]
    /\ UNCHANGED <<registered, queue, closed, connOpen, writer, revoked, announce>>

-----------------------------------------------------------------------------
(* The writeLoop.                                                           *)

Write(c) ==
    /\ writer[c] = "run"
    /\ queue[c] # <<>>
    /\ connOpen[c]
    /\ queue' = [queue EXCEPT ![c] = Tail(@)]
    /\ UNCHANGED <<registered, closed, connOpen, reader, writer, closer, revoked, announce>>

\* The peer is gone or too slow: the next frame, or a ping, cannot be written.
WriteFails(c) ==
    /\ writer[c] = "run"
    /\ \/ queue[c] # <<>> /\ queue' = [queue EXCEPT ![c] = Tail(@)]
       \/ UNCHANGED queue
    /\ writer' = [writer EXCEPT ![c] = "done"]
    /\ connOpen' = [connOpen EXCEPT ![c] = FALSE]
    /\ UNCHANGED <<registered, closed, reader, closer, revoked, announce>>

\* Mutant: the writeLoop does not watch the hub's context.
WriterIgnoresContext(c) ==
    /\ writer[c] = "run"
    /\ closed[c] /\ queue[c] = <<>>
    /\ writer' = [writer EXCEPT ![c] = "done"]
    /\ connOpen' = [connOpen EXCEPT ![c] = FALSE]
    /\ UNCHANGED <<registered, queue, closed, reader, closer, revoked, announce>>

\* Mutant: the writeLoop leaves the connection open behind it.
WriterKeepsConn(c) ==
    /\ writer[c] = "run"
    /\ \/ closed[c] /\ queue[c] = <<>>
       \/ Stopping
    /\ writer' = [writer EXCEPT ![c] = "done"]
    /\ UNCHANGED <<registered, queue, closed, connOpen, reader, closer, revoked, announce>>

\* The channel is closed and drained, or the hub's context is cancelled.
WriterStops(c) ==
    /\ writer[c] = "run"
    /\ \/ closed[c] /\ queue[c] = <<>>
       \/ Stopping
    /\ writer' = [writer EXCEPT ![c] = "done"]
    /\ connOpen' = [connOpen EXCEPT ![c] = FALSE]
    /\ UNCHANGED <<registered, queue, closed, reader, closer, revoked, announce>>

-----------------------------------------------------------------------------
(* RemoveClient, DisconnectSession and Shutdown.                            *)

\* Logout and DELETE /api/sessions: RevokeSession commits, then the hub is told.
RevokeSession(s) ==
    /\ s \in MayEnd
    /\ closer[s].pc = "idle"
    /\ revoked' = revoked \cup {s}
    /\ closer' = [closer EXCEPT ![s].pc = "find"]
    /\ UNCHANGED <<registered, queue, closed, connOpen, reader, writer, announce>>

DisconnectSession(s) ==
    LET matches == {c \in registered : ClientSession[c] = s}
    IN /\ closer[s].pc = "find"
       /\ HubFree
       /\ closer' = [closer EXCEPT ![s].pc = "next", ![s].todo = matches, ![s].found = matches]
       /\ UNCHANGED <<registered, queue, closed, connOpen, reader, writer, revoked, announce>>

\* h.cancel(), before the mutex is taken.
Shutdown ==
    /\ Server \in MayEnd
    /\ closer[Server].pc = "idle"
    /\ closer' = [closer EXCEPT ![Server].pc = "cancel"]
    /\ UNCHANGED <<registered, queue, closed, connOpen, reader, writer, revoked, announce>>

ShutdownLocks ==
    /\ closer[Server].pc = "cancel"
    /\ closer' = [closer EXCEPT ![Server].pc = "next", ![Server].todo = registered]
    /\ UNCHANGED <<registered, queue, closed, connOpen, reader, writer, revoked, announce>>

NextTarget(p, c) ==
    /\ closer[p].pc = "next"
    /\ c \in closer[p].todo
    /\ closer' = [closer EXCEPT ![p].pc = IF p = Server THEN "close" ELSE "remove",
                                ![p].todo = @ \ {c}, ![p].target = c]
    /\ UNCHANGED <<registered, queue, closed, connOpen, reader, writer, revoked, announce>>

\* The map is replaced when Shutdown is through.
LastTarget(p) ==
    /\ closer[p].pc = "next"
    /\ closer[p].todo = {}
    /\ closer' = [closer EXCEPT ![p].pc = "done", ![p].target = NoTarget]
    /\ registered' = IF p = Server THEN {} ELSE registered
    /\ UNCHANGED <<queue, closed, connOpen, reader, writer, revoked, announce>>

\* RemoveClient returns to the readLoop's end or to DisconnectSession.
Return(p) == IF p \in Clients THEN "done" ELSE "next"

\* Mutant: nothing more is done unless this was the user's last connection.
UnregisterLastOnly(p) ==
    LET c == closer[p].target
        last == Of(ClientUser[c]) = {c}
    IN /\ closer[p].pc = "remove"
       /\ HubFree
       /\ registered' = registered \ {c}
       /\ announce' = IF last THEN Advance(<<c, "offline">>, "none", "due") ELSE announce
       /\ closer' = [closer EXCEPT ![p].pc = IF last THEN "close" ELSE Return(p)]
       /\ UNCHANGED <<queue, closed, connOpen, reader, writer, revoked>>

\* Mutant: every removal is announced, not only the user's last one.
UnregisterAnnouncesAll(p) ==
    LET c == closer[p].target
    IN /\ closer[p].pc = "remove"
       /\ HubFree
       /\ registered' = registered \ {c}
       /\ announce' = IF c \in registered
                      THEN Advance(<<c, "offline">>, "none", "due") ELSE announce
       /\ closer' = [closer EXCEPT ![p].pc = IF c \in registered THEN "close" ELSE Return(p)]
       /\ UNCHANGED <<queue, closed, connOpen, reader, writer, revoked>>

\* Mutant: DisconnectSession stops at a connection that is already gone.
UnregisterStops(p) ==
    LET c == closer[p].target
    IN /\ closer[p].pc = "remove"
       /\ HubFree
       /\ registered' = registered \ {c}
       /\ announce' = IF Of(ClientUser[c]) = {c}
                      THEN Advance(<<c, "offline">>, "none", "due") ELSE announce
       /\ closer' = [closer EXCEPT ![p].pc = IF c \in registered THEN "close" ELSE "done"]
       /\ UNCHANGED <<queue, closed, connOpen, reader, writer, revoked>>

\* RemoveClient's critical section.  Whoever finds the connection in the map
\* goes on to close it; the user's last connection owes a user_offline frame.
Unregister(p) ==
    LET c == closer[p].target
    IN /\ closer[p].pc = "remove"
       /\ HubFree
       /\ registered' = registered \ {c}
       /\ announce' = IF Of(ClientUser[c]) = {c}
                      THEN Advance(<<c, "offline">>, "none", "due") ELSE announce
       /\ closer' = [closer EXCEPT ![p].pc = IF c \in registered THEN "close" ELSE Return(p)]
       /\ UNCHANGED <<queue, closed, connOpen, reader, writer, revoked>>

\* close() calls c.sendMu.Lock().
LockClient(p) ==
    /\ closer[p].pc = "close"
    /\ closer' = [closer EXCEPT ![p].pc = "lock"]
    /\ UNCHANGED <<registered, queue, closed, connOpen, reader, writer, revoked, announce>>

\* What follows close().
AfterClose(p) == IF p = Server THEN "next" ELSE "announce"

\* Mutant: the channel is closed without the exclusive lock.
CloseUnlocked(p) ==
    LET c == closer[p].target
    IN /\ closer[p].pc = "lock"
       /\ closed' = [closed EXCEPT ![c] = TRUE]
       /\ closer' = [closer EXCEPT ![p].pc = IF closed[c] THEN AfterClose(p) ELSE "shut"]
       /\ UNCHANGED <<registered, queue, connOpen, reader, writer, revoked, announce>>

\* The lock is granted once nobody holds it shared; the channel is closed
\* unless somebody else has done so.
CloseChannel(p) ==
    LET c == closer[p].target
    IN /\ closer[p].pc = "lock"
       /\ Waiting(c) = {}
       /\ closed' = [closed EXCEPT ![c] = TRUE]
       /\ closer' = [closer EXCEPT ![p].pc = IF closed[c] THEN AfterClose(p) ELSE "shut"]
       /\ UNCHANGED <<registered, queue, connOpen, reader, writer, revoked, announce>>

CloseConn(p) ==
    /\ closer[p].pc = "shut"
    /\ connOpen' = [connOpen EXCEPT ![closer[p].target] = FALSE]
    /\ closer' = [closer EXCEPT ![p].pc = AfterClose(p)]
    /\ UNCHANGED <<registered, queue, closed, reader, writer, revoked, announce>>

\* The offline broadcast is started if it is due.
AnnounceOffline(p) ==
    /\ closer[p].pc = "announce"
    /\ announce' = Advance(<<closer[p].target, "offline">>, "due", "go")
    /\ closer' = [closer EXCEPT ![p].pc = Return(p)]
    /\ UNCHANGED <<registered, queue, closed, connOpen, reader, writer, revoked>>

-----------------------------------------------------------------------------
(* broadcastExcept, a goroutine for each first and each last connection.    *)

BroadcastFind(b) ==
    LET others == {c \in registered : ClientUser[c] # ClientUser[b[1]]}
    IN /\ announce[b].pc = "go"
       /\ HubFree
       /\ announce' = [announce EXCEPT ![b] = [pc |-> IF others = {} THEN "done" ELSE "send",
                                               todo |-> others]]
       /\ UNCHANGED <<registered, queue, closed, connOpen, reader, writer, closer, revoked>>

BroadcastTo(b, c) ==
    /\ announce[b].pc = "send"
    /\ c \in announce[b].todo
    /\ ~LockPending(c)
    /\ queue' = TrySend(c, Other)
    /\ announce' = [announce EXCEPT ![b].todo = @ \ {c},
                                    ![b].pc = IF announce[b].todo = {c} THEN "done" ELSE "send"]
    /\ UNCHANGED <<registered, closed, connOpen, reader, writer, closer, revoked>>

-----------------------------------------------------------------------------
\* What a connection's handshake and readLoop do by themselves.
ReaderStep(c) ==
    \/ AddClient(c) \/ Greet(c)
    \/ \E d \in Clients : SendTo(c, d)
    \/ WaitAccepted(c) \/ WaitTimeout(c) \/ Reply(c)

WriterStep(c) == Write(c) \/ WriterStops(c)

CloserStep(p) ==
    \/ p \in Sessions /\ DisconnectSession(p)
    \/ p = Server /\ ShutdownLocks
    \/ \E c \in Clients : NextTarget(p, c)
    \/ LastTarget(p) \/ Unregister(p) \/ LockClient(p) \/ CloseChannel(p)
    \/ CloseConn(p) \/ AnnounceOffline(p)

Next ==
    \/ \E c \in Clients :
          \/ Authenticate(c) \/ ReaderStep(c) \/ ReadFails(c)
          \/ \E u \in Users : StartSend(c, u)
          \/ WriterStep(c) \/ WriteFails(c)
    \/ \E s \in Sessions : RevokeSession(s)
    \/ \E p \in Closers : CloserStep(p)
    \/ Shutdown
    \/ \E b \in Clients \X Occasions :
          BroadcastFind(b) \/ \E c \in Clients : BroadcastTo(b, c)

Spec == Init /\ [][Next]_vars

\* Goroutines that can run do run, mutexes are granted, timers and deadlines
\* fire: a dead connection fails its next read and its next write or ping.
\* Clients need not connect, send or leave, nobody has to revoke or stop, and
\* nothing below relies on a broadcast ever finishing.
Fairness ==
    /\ \A c \in Clients :
          /\ WF_vars(ReaderStep(c) \/ (~connOpen[c] /\ ReadFails(c)))
          /\ WF_vars(WriterStep(c) \/ (~connOpen[c] /\ WriteFails(c)))
    /\ \A p \in Closers : WF_vars(CloserStep(p))

FairSpec == Spec /\ Fairness
-----------------------------------------------------------------------------
(* Properties.                                                              *)

ReaderPcs == {"offline", "add", "greet", "read", "send", "wait", "reply", "done"}
CloserPcs == {"idle", "find", "cancel", "next", "remove", "close", "lock", "shut",
              "announce", "done"}
BroadcastPcs == {"none", "due", "go", "send", "done"}

\* The type invariant; a channel never holds more than its capacity.
TypeOK ==
    /\ registered \subseteq Clients
    /\ queue \in [Clients -> Seq(DirectFrames \cup {Other})]
    /\ \A c \in Clients : Len(queue[c]) <= SendCap
    /\ closed \in [Clients -> BOOLEAN]
    /\ connOpen \in [Clients -> BOOLEAN]
    /\ reader \in [Clients -> [pc : ReaderPcs, todo : SUBSET Clients,
                               on : Clients, n : Nat]]
    /\ \A c \in Clients : reader[c].n <= MaxSends[c]
    /\ writer \in [Clients -> {"off", "run", "done"}]
    /\ closer \in [Closers -> [pc : CloserPcs, todo : SUBSET Clients,
                               found : SUBSET Clients, target : Clients]]
    /\ revoked \subseteq Sessions
    /\ announce \in [Clients \X Occasions -> [pc : BroadcastPcs, todo : SUBSET Clients]]

\* No goroutine is ever blocked in a send on a closed channel, which would
\* panic and take the whole server down: a waiting sender's connection stays
\* open until the wait ends (sendMu in sendWithTimeout and close).
NoSendOnClosedChannel == \A c \in Clients : Waiting(c) # {} => ~closed[c]

\* p has taken responsibility for closing c.
IsClosing(p, c) == closer[p].target = c /\ closer[p].pc \in {"close", "lock"}

WasAdded(c) == reader[c].pc \notin {"offline", "add"}

\* A connection that has left the map is closed, or the goroutine that took
\* it out is on its way to close it: none stays behind with an open channel
\* and a writeLoop nobody will ever stop.
NoOrphan ==
    \A c \in Clients : WasAdded(c) /\ c \notin registered
        => closed[c] \/ \E p \in Closers : IsClosing(p, c)

\* When DisconnectSession returns, every connection of the session that it
\* found is out of the map and is closed or being closed, whoever else was
\* removing connections at the same time.
DisconnectIsComplete ==
    \A s \in Sessions : closer[s].pc = "done" => \A c \in closer[s].found :
        /\ c \notin registered
        /\ closed[c] \/ \E p \in Closers : IsClosing(p, c)

Announced(u, occasion) ==
    Cardinality({c \in Clients : ClientUser[c] = u /\ announce[c, occasion].pc # "none"})

\* Presence broadcasts add up, with any number of tabs coming and going at
\* once: until the hub is shut down, a user has been announced online exactly
\* once more than offline while connected, and as often when not.
PresenceBalanced ==
    closer[Server].pc # "done" => \A u \in Users :
        Announced(u, "online") = Announced(u, "offline") + IF Of(u) = {} THEN 0 ELSE 1

\* Hub.SendDirect returns: neither a full channel, nor a dead recipient, nor
\* a concurrent close or shutdown blocks the sender's readLoop for ever.
SendReturns ==
    \A c \in Clients : reader[c].pc \in {"send", "wait", "reply"} ~> reader[c].pc = "read"

\* A connection that can no longer be read or written leaves the map.
DeadConnectionLeaves ==
    \A c \in Clients : c \in registered /\ ~connOpen[c] ~> c \notin registered

\* After the context is cancelled Shutdown finishes, and every connection,
\* also one whose handshake was under way, is closed and forgotten.
ShutdownDrains ==
    /\ Stopping ~> closer[Server].pc = "done"
    /\ \A c \in Clients :
          Stopping /\ WasAdded(c) ~> [](c \notin registered /\ ~connOpen[c])

\* A frame that was accepted for a connection, and so reported as delivered,
\* is written to it unless the connection breaks.
AcceptedIsWritten ==
    \A c \in Clients, f \in DirectFrames :
        (\E i \in DOMAIN queue[c] : queue[c][i] = f)
            ~> ~(connOpen[c] /\ \E i \in DOMAIN queue[c] : queue[c][i] = f)

\* security.md: logout revokes the current session and disconnects matching
\* WebSocket clients.  A handshake that was authenticated before the
\* revocation and registers after it stays connected.
RevokedIsDisconnected ==
    \A s \in Sessions : closer[s].pc = "done" =>
        \A c \in registered : ClientSession[c] # s
=============================================================================
