-------------------------- MODULE DirectMessaging ---------------------------
(***************************************************************************)
(* The durable relay of direct messages and the receipt endpoints.         *)
(*                                                                         *)
(* A WebSocket connection's readLoop handles one direct_message at a time: *)
(* DurableRelayService.SendDirect stores the row, reads it back, offers    *)
(* the frame to the transport, records the client-id correlation, marks    *)
(* the row delivered and answers the sender.  The HTTP handlers MarkRead,  *)
(* MarkDelivered and MarkThreadRead write the same receipt rows and notify *)
(* the sender of the message.  Every statement and every call to the       *)
(* transport is a step of its own, any of them may fail, and the process   *)
(* may stop between any two of them, losing what is not in the database.   *)
(*                                                                         *)
(* The transport (wsrelay.Hub) appears through its contract: SendDirect    *)
(* answers TRUE when some connection of the user accepted the frame.       *)
(***************************************************************************)
EXTENDS MessageStore

CONSTANTS
    Users,        \* user accounts
    Conns,        \* WebSocket connections of senders
    ConnUser,     \* the user each connection was authenticated as
    Handlers,     \* HTTP requests in flight at once
    Requests,     \* receipt endpoints the clients call: read, delivered, thread
    ClientIds,    \* client-chosen message ids other than 0
    MaxMessages,  \* bound: rows ever inserted into messages
    MaxTime,      \* bound: ticks of the clock behind time.Now
    PageLimit     \* pageLimit of MarkThreadRead (200 in the code)

ASSUME ConstantsAssumption ==
    /\ Users # {}
    /\ ConnUser \in [Conns -> Users]
    /\ Requests \subseteq {"read", "delivered", "thread"}
    /\ ClientIds \subseteq Nat \ {0}
    /\ MaxMessages \in Nat \ {0}
    /\ MaxTime \in Nat \ {0}
    /\ PageLimit \in Nat \ {0}

MessageIds == 1..MaxMessages
Times == 1..MaxTime

VARIABLES
    messages,      \* the messages table
    deliveries,    \* the message_deliveries table
    correlations,  \* the message_client_correlations table
    now,           \* the clock
    conn,          \* what the readLoop of each connection is doing
    handler,       \* what each HTTP request is doing
    relayed,       \* ids of frames the transport has accepted, ever
    replies,       \* acks and offline errors the senders' connections accepted, ever
    notices        \* receipt frames the transport has accepted, ever

store == <<messages, deliveries, correlations>>
sent  == <<relayed, replies, notices>>
vars  == <<store, now, conn, handler, sent>>

Outcomes == {"ack", "offline", "failed"}

IdleConn == [pc |-> "idle", to |-> CHOOSE u \in Users : TRUE, cid |-> 0,
             id |-> 0, ok |-> FALSE, ts |-> NoTime, outcome |-> "failed"]

IdleHandler == [pc |-> "idle", kind |-> "read", user |-> CHOOSE u \in Users : TRUE,
                with |-> CHOOSE u \in Users : TRUE, id |-> 0, ts |-> NoTime,
                before |-> 0, todo |-> {}, owed |-> {}]

Init ==
    /\ messages = <<>>
    /\ deliveries = [id \in MessageIds |-> NoReceipt]
    /\ correlations = [p \in Users \X ClientIds |-> NoCorrelation]
    /\ now = 1
    /\ conn = [c \in Conns |-> IdleConn]
    /\ handler = [h \in Handlers |-> IdleHandler]
    /\ relayed = {}
    /\ replies = {}
    /\ notices = {}

Tick ==
    /\ now < MaxTime
    /\ now' = now + 1
    /\ UNCHANGED <<store, conn, handler, sent>>

-----------------------------------------------------------------------------
(* DurableRelayService.SendDirect, run by the readLoop of connection c.     *)

\* A direct_message frame whose recipient resolves; a frame of another type,
\* without a recipient or with an unknown one leaves all of this unchanged.
Receive(c, to, cid) ==
    /\ conn[c].pc = "idle"
    /\ Len(messages) < MaxMessages
    /\ conn' = [conn EXCEPT ![c] = [IdleConn EXCEPT !.pc = "insert", !.to = to, !.cid = cid]]
    /\ UNCHANGED <<store, now, handler, sent>>

\* Mutant: the id is read back one too high.
InsertOffByOne(c) ==
    /\ conn[c].pc = "insert"
    /\ Len(messages) < MaxMessages
    /\ messages' = SaveDirectMessage(messages, ConnUser[c], conn[c].to)
    /\ conn' = [conn EXCEPT ![c].pc = "fetch", ![c].id = Len(messages') + 1]
    /\ UNCHANGED <<deliveries, correlations, now, handler, sent>>

Insert(c) ==
    /\ conn[c].pc = "insert"
    /\ Len(messages) < MaxMessages
    /\ messages' = SaveDirectMessage(messages, ConnUser[c], conn[c].to)
    /\ conn' = [conn EXCEPT ![c].pc = "fetch", ![c].id = Len(messages')]
    /\ UNCHANGED <<deliveries, correlations, now, handler, sent>>

\* Mutant: the row read back is the newest one, not the inserted one.
FetchNewest(c) ==
    /\ conn[c].pc = "fetch"
    /\ conn' = [conn EXCEPT ![c].pc = "push", ![c].id = Len(messages)]
    /\ UNCHANGED <<store, now, handler, sent>>

\* SaveDirectMessage returns the row it reads back.
Fetch(c) ==
    /\ conn[c].pc = "fetch"
    /\ conn' = [conn EXCEPT ![c].pc = "push"]
    /\ UNCHANGED <<store, now, handler, sent>>

\* Mutant: the sender is acknowledged without the delivery mark.
AckWithoutMark(m) ==
    [m EXCEPT !.pc = "reply", !.outcome = IF m.ok THEN "ack" ELSE "offline"]

\* Once the correlation is out of the way: an offline recipient ends the
\* call, otherwise time.Now is taken for the delivery mark.
AfterCorrelation(m) ==
    IF m.ok THEN [m EXCEPT !.pc = "mark", !.ts = now]
            ELSE [m EXCEPT !.pc = "reply", !.outcome = "offline"]

Push(c) ==
    /\ conn[c].pc = "push"
    /\ \E accepted \in BOOLEAN :
          LET m == [conn[c] EXCEPT !.ok = accepted]
          IN /\ relayed' = IF accepted THEN relayed \cup {m.id} ELSE relayed
             /\ conn' = [conn EXCEPT ![c] = IF m.cid # 0
                                            THEN [m EXCEPT !.pc = "correlate"]
                                            ELSE AfterCorrelation(m)]
    /\ UNCHANGED <<store, now, handler, replies, notices>>

Correlate(c) ==
    /\ conn[c].pc = "correlate"
    /\ correlations' = RecordCorrelation(correlations, ConnUser[c], conn[c].cid,
                                         conn[c].id, conn[c].ok)
    /\ conn' = [conn EXCEPT ![c] = AfterCorrelation(@)]
    /\ UNCHANGED <<messages, deliveries, now, handler, sent>>

Mark(c) ==
    /\ conn[c].pc = "mark"
    /\ deliveries' = MarkDelivered(deliveries, conn[c].id, conn[c].ts)
    /\ conn' = [conn EXCEPT ![c].pc = "reply", ![c].outcome = "ack"]
    /\ UNCHANGED <<messages, correlations, now, handler, sent>>

\* Mutant: a failed delivery mark is logged and ignored.
FailureSwallowed(c) ==
    /\ conn[c].pc \in {"insert", "fetch", "correlate", "mark"}
    /\ conn' = [conn EXCEPT ![c].pc = "reply",
                            ![c].outcome = IF conn[c].pc = "mark" THEN "ack" ELSE "failed"]
    /\ UNCHANGED <<store, now, handler, sent>>

\* A statement fails (locked database, cancelled context): SendDirect returns
\* the error and the sender is told "delivery failed".
StatementFails(c) ==
    /\ conn[c].pc \in {"insert", "fetch", "correlate", "mark"}
    /\ conn' = [conn EXCEPT ![c].pc = "reply", ![c].outcome = "failed"]
    /\ UNCHANGED <<store, now, handler, sent>>

ReplyOf(c) == [user |-> ConnUser[c], cid |-> conn[c].cid,
               id |-> conn[c].id, outcome |-> conn[c].outcome]

\* trySend: the answer is dropped when the connection's queue is full or closed.
\* "delivery failed" names no stored message and is not kept in the history.
Reply(c) ==
    /\ conn[c].pc = "reply"
    /\ \/ /\ conn[c].outcome # "failed"
          /\ replies' = replies \cup {ReplyOf(c)}
       \/ UNCHANGED replies
    /\ conn' = [conn EXCEPT ![c] = IdleConn]
    /\ UNCHANGED <<store, now, handler, relayed, notices>>

-----------------------------------------------------------------------------
(* The receipt endpoints.                                                   *)

\* MarkRead and MarkDelivered up to their upsert: the row is looked up for the
\* caller, twice, and time.Now is taken.  Rows of messages never change, so
\* both look-ups agree; a request for a message of somebody else ends here.
RequestMark(h, u, kind, id) ==
    /\ handler[h].pc = "idle"
    /\ OwnedBy(messages, u, id)
    /\ handler' = [handler EXCEPT ![h] = [IdleHandler EXCEPT !.pc = "upsert", !.kind = kind,
                                            !.user = u, !.id = id, !.ts = now]]
    /\ UNCHANGED <<store, now, conn, sent>>

Unread(id) == deliveries[id].read = NoTime

RequestThreadRead(h, u, with) ==
    /\ "thread" \in Requests
    /\ handler[h].pc = "idle"
    /\ handler' = [handler EXCEPT ![h] =
          [IdleHandler EXCEPT !.pc = "page", !.kind = "thread", !.user = u, !.with = with,
                              !.owed = {id \in InboxWith(messages, u, with) : Unread(id)}]]
    /\ UNCHANGED <<store, now, conn, sent>>

\* Mutant: the next page starts below the predecessor of the last row.
NextPageSkips(r) ==
    LET page == InboxPage(messages, r.user, r.with, r.before, PageLimit)
        more == Cardinality(page) = PageLimit
    IN [r EXCEPT !.pc     = IF more THEN "page" ELSE "each",
                 !.todo   = @ \cup {id \in page : Unread(id)},
                 !.before = IF more THEN (CHOOSE x \in page : \A y \in page : x <= y) - 1 ELSE @]

\* One page of the thread, newest first; a short page is the last one.
NextPage(r) ==
    LET page == InboxPage(messages, r.user, r.with, r.before, PageLimit)
        more == Cardinality(page) = PageLimit
    IN [r EXCEPT !.pc     = IF more THEN "page" ELSE "each",
                 !.todo   = @ \cup {id \in page : Unread(id)},
                 !.before = IF more THEN CHOOSE x \in page : \A y \in page : x <= y ELSE @]

ListPage(h) ==
    /\ handler[h].pc = "page"
    /\ handler' = [handler EXCEPT ![h] = NextPage(@)]
    /\ UNCHANGED <<store, now, conn, sent>>

\* The collected messages are marked one by one, newest first.
MarkNext(h) ==
    /\ handler[h].pc = "each"
    /\ \E id \in handler[h].todo :
          /\ \A other \in handler[h].todo : other <= id
          /\ handler' = [handler EXCEPT ![h].pc = "upsert", ![h].id = id, ![h].ts = now]
    /\ UNCHANGED <<store, now, conn, sent>>

Upsert(h) ==
    LET r == handler[h]
    IN /\ r.pc = "upsert"
       /\ deliveries' = IF r.kind = "delivered" THEN MarkDelivered(deliveries, r.id, r.ts)
                                                ELSE MarkRead(deliveries, r.id, r.ts)
       /\ handler' = [handler EXCEPT ![h].pc = "notify"]
       /\ UNCHANGED <<messages, correlations, now, conn, sent>>

\* Mutant: the receipt is pushed to the reader.
NoticeToReader(r) ==
    [to |-> r.user, id |-> r.id,
     kind |-> IF r.kind = "delivered" THEN "message_delivered" ELSE "message_read"]

Notice(r) ==
    [to |-> messages[r.id].from, id |-> r.id,
     kind |-> IF r.kind = "delivered" THEN "message_delivered" ELSE "message_read"]

\* tryPushReceipt ignores what the transport answers; MarkThreadRead goes on
\* with the next message, the other two handlers are done.
Notify(h) ==
    LET r == handler[h]
    IN /\ r.pc = "notify"
       /\ \/ notices' = notices \cup {Notice(r)}
          \/ UNCHANGED notices
       /\ handler' = [handler EXCEPT ![h] =
             IF r.kind = "thread" THEN [r EXCEPT !.pc = "each", !.todo = @ \ {r.id}]
                                  ELSE IdleHandler]
       /\ UNCHANGED <<store, now, conn, relayed, replies>>

\* All collected messages are marked: the thread request answers 200.
ThreadDone(h) ==
    /\ handler[h].pc = "each"
    /\ handler[h].todo = {}
    /\ handler' = [handler EXCEPT ![h].pc = "ok"]
    /\ UNCHANGED <<store, now, conn, sent>>

Respond(h) ==
    /\ handler[h].pc = "ok"
    /\ handler' = [handler EXCEPT ![h] = IdleHandler]
    /\ UNCHANGED <<store, now, conn, sent>>

\* A listing or an upsert fails: an error response, with part of the thread marked.
RequestFails(h) ==
    /\ handler[h].pc \in {"page", "upsert"}
    /\ handler' = [handler EXCEPT ![h] = IdleHandler]
    /\ UNCHANGED <<store, now, conn, sent>>

\* The process stops and is started again: only the database survives.
Crash ==
    /\ conn' = [c \in Conns |-> IdleConn]
    /\ handler' = [h \in Handlers |-> IdleHandler]
    /\ UNCHANGED <<store, now, sent>>

-----------------------------------------------------------------------------
SendStep(c) ==
    \/ \E to \in Users, cid \in ClientIds \cup {0} : Receive(c, to, cid)
    \/ Insert(c) \/ Fetch(c) \/ Push(c) \/ Correlate(c) \/ Mark(c)
    \/ StatementFails(c) \/ Reply(c)

ReceiptStep(h) ==
    \/ \E u \in Users, kind \in Requests \ {"thread"}, id \in MessageIds :
          RequestMark(h, u, kind, id)
    \/ \E u, with \in Users : RequestThreadRead(h, u, with)
    \/ ListPage(h) \/ MarkNext(h) \/ Upsert(h) \/ Notify(h)
    \/ ThreadDone(h) \/ Respond(h) \/ RequestFails(h)

Next ==
    \/ Tick
    \/ \E c \in Conns : SendStep(c)
    \/ \E h \in Handlers : ReceiptStep(h)
    \/ Crash

Spec == Init /\ [][Next]_vars
-----------------------------------------------------------------------------
(* Properties.                                                              *)

ConnStates ==
    [pc : {"idle", "insert", "fetch", "push", "correlate", "mark", "reply"},
     to : Users, cid : ClientIds \cup {0}, id : MessageIds \cup {0},
     ok : BOOLEAN, ts : Times \cup {NoTime}, outcome : Outcomes]

HandlerStates ==
    [pc : {"idle", "page", "each", "upsert", "notify", "ok"},
     kind : {"read", "delivered", "thread"}, user : Users, with : Users,
     id : MessageIds \cup {0}, ts : Times \cup {NoTime},
     before : MessageIds \cup {0}, todo : SUBSET MessageIds, owed : SUBSET MessageIds]

ReceiptRows == [delivered : Times \cup {NoTime}, read : Times \cup {NoTime}]

Replies == [user : Users, cid : ClientIds \cup {0}, id : MessageIds,
            outcome : Outcomes \ {"failed"}]

Notices == [to : Users, id : MessageIds, kind : {"message_delivered", "message_read"}]

\* The type invariant.
TypeOK ==
    /\ messages \in Seq([from : Users, to : Users])
    /\ Len(messages) <= MaxMessages
    /\ deliveries \in [MessageIds -> ReceiptRows]
    /\ correlations \in [Users \X ClientIds -> [stored : MessageIds \cup {0}, delivered : BOOLEAN]]
    /\ now \in Times
    /\ conn \in [Conns -> ConnStates]
    /\ handler \in [Handlers -> HandlerStates]
    /\ relayed \subseteq MessageIds
    /\ replies \subseteq Replies
    /\ notices \subseteq Notices

Delivered(id) == deliveries[id].delivered # NoTime
WasRead(id)   == deliveries[id].read # NoTime

\* A message_ack is never early and never lost to a restart: the message it
\* names is in the table under the sender it answers, its frame was accepted
\* by the transport, and its delivery is on record (service.go, SendDirect).
AckedIsDelivered ==
    \A r \in replies : r.outcome = "ack" =>
        /\ r.id \in DOMAIN messages
        /\ messages[r.id].from = r.user
        /\ r.id \in relayed
        /\ Delivered(r.id)

\* A failure shown to the sender is the truth: neither an offline error nor
\* the delivery_failed flag of the outbox queries ever concerns a message
\* whose frame a recipient's connection accepted, whatever client ids are
\* reused and wherever the process stopped.
FailureIsTruthful ==
    /\ \A r \in replies : r.outcome = "offline" =>
           r.id \in DOMAIN messages /\ r.id \notin relayed
    /\ \A id \in DOMAIN messages :
           DeliveryFailed(messages, deliveries, correlations, ClientIds, id) => id \notin relayed

\* A sender who was told "offline" finds it flagged in the outbox after a
\* reload, unless the recipient has it by now or the client id was used again.
OfflineStaysVisible ==
    \A r \in replies :
        (r.outcome = "offline" /\ r.cid # 0 /\ correlations[r.user, r.cid].stored = r.id)
            => \/ DeliveryFailed(messages, deliveries, correlations, ClientIds, r.id)
               \/ Delivered(r.id)

\* The LEFT JOIN of the outbox queries yields one row per message: no two
\* correlation rows name the same message, and a row names a message of its
\* own sender.
CorrelationUnambiguous ==
    \A p \in DOMAIN correlations : correlations[p].stored # 0 =>
        /\ correlations[p].stored \in DOMAIN messages
        /\ messages[correlations[p].stored].from = p[1]
        /\ \A q \in DOMAIN correlations :
               correlations[q].stored = correlations[p].stored => q = p

\* The CHECK and the foreign key of message_deliveries, which SQLite enforces
\* only on the one pooled connection that ran the PRAGMA: receipts exist for
\* stored messages only, and a read message counts as delivered.
ReceiptRowsValid ==
    \A id \in MessageIds :
        /\ WasRead(id) => Delivered(id)
        /\ Delivered(id) => id \in DOMAIN messages

\* A message_delivered or message_read frame goes to the sender of the message
\* it names, and only after the receipt it announces is durable.
NoticeIsTruthful ==
    \A n \in notices :
        /\ n.id \in DOMAIN messages
        /\ messages[n.id].from = n.to
        /\ IF n.kind = "message_read" THEN WasRead(n.id) ELSE Delivered(n.id)

\* When read-thread answers 200, every message of the thread that was stored
\* and unread when the request arrived is read: the descending pages skip
\* nothing, whatever is inserted or marked in between.
ThreadReadIsComplete ==
    \A h \in Handlers : handler[h].pc = "ok" => \A id \in handler[h].owed : WasRead(id)

\* A receipt timestamp is written once: the relay's own mark, the recipient's
\* marks and thread reads race on the same row and none overwrites another.
FirstReceiptWins ==
    [][\A id \in MessageIds :
          /\ Delivered(id) => deliveries'[id].delivered = deliveries[id].delivered
          /\ WasRead(id)   => deliveries'[id].read = deliveries[id].read]_vars

\* A message becomes read only by a request of its own recipient.
OnlyRecipientReads ==
    [][\A id \in MessageIds : deliveries'[id].read # deliveries[id].read =>
          \E h \in Handlers : /\ handler[h].id = id
                              /\ id \in DOMAIN messages
                              /\ handler[h].user = messages[id].to]_vars

\* The status of a message as the tables tell it.
StatusOf(id) ==
    IF id \notin DOMAIN messages THEN "absent"
    ELSE IF WasRead(id) THEN "read"
    ELSE IF Delivered(id) THEN "delivered" ELSE "stored"

Lifecycle ==
    INSTANCE MessageLifecycle WITH
        Ids    <- MessageIds,
        status <- [id \in MessageIds |-> StatusOf(id)],
        acked  <- {r.id : r \in {x \in replies : x.outcome = "ack"}}

\* The relay and the receipt endpoints implement the promised life cycle.
ImplementsLifecycle == Lifecycle!Spec

\* api.md: the sender receives message_ack on successful relay.  The frame is
\* accepted before the correlation and the delivery mark are written, and a
\* failure of either is answered with an error.
RelayedIsNotReportedFailed ==
    \A c \in Conns : conn[c].pc = "reply" /\ conn[c].outcome = "failed"
                        => conn[c].id \notin relayed
=============================================================================
