----------------------- MODULE DirectMessagingProofs ------------------------
(***************************************************************************)
(* Proofs about DirectMessaging, for any users, connections, requests in   *)
(* flight, client ids and bounds.                                          *)
(*                                                                         *)
(* The properties of replies, receipts and notices are not inductive: what *)
(* a goroutine is about to announce has to be true before it announces it. *)
(* SendOK and RequestOK say what each stage of a send and of a request has *)
(* established, and IInv is their conjunction with the properties.         *)
(***************************************************************************)
EXTENDS DirectMessaging, MessageStoreProofs, SequenceTheorems

\* A send past its insert names a stored message of its own user; past an
\* accepted push the frame is relayed; before an ack the mark is written.
SendOKFor(m, c) ==
    /\ (\/ m.pc \in {"fetch", "push", "correlate", "mark"}
        \/ m.pc = "reply" /\ m.outcome # "failed")
           => m.id \in DOMAIN messages /\ messages[m.id].from = ConnUser[c]
    /\ m.pc = "correlate" /\ m.ok => m.id \in relayed
    /\ m.pc = "mark" => m.ts \in Times /\ m.id \in relayed
    /\ m.pc = "reply" /\ m.outcome = "ack" => m.id \in relayed /\ Delivered(m.id)

SendOK == \A c \in Conns : SendOKFor(conn[c], c)

\* A request works on messages to its own user only, and notifies after its
\* upsert.
RequestOKFor(r) ==
    /\ \A id \in r.todo : OwnedBy(messages, r.user, id)
    /\ r.pc \in {"upsert", "notify"} => OwnedBy(messages, r.user, r.id) /\ r.ts \in Times
    /\ r.pc = "notify" => /\ Delivered(r.id)
                          /\ r.kind # "delivered" => WasRead(r.id)

RequestOK == \A h \in Handlers : RequestOKFor(handler[h])

\* The inductive invariant.
IInv ==
    /\ TypeOK
    /\ SendOK
    /\ RequestOK
    /\ AckedIsDelivered
    /\ ReceiptRowsValid
    /\ NoticeIsTruthful

-----------------------------------------------------------------------------
(* Facts about the data.                                                    *)

\* The idle records are of their types.
LEMMA IdleTypes == IdleConn \in ConnStates /\ IdleHandler \in HandlerStates
<1>1. (CHOOSE u \in Users : TRUE) \in Users
  BY ConstantsAssumption
<1>2. QED
  BY <1>1 DEF IdleConn, IdleHandler, ConnStates, HandlerStates, NoTime, Outcomes

\* A page is a set of stored messages to the reader, and a full one is not empty.
LEMMA PageFacts ==
    ASSUME TypeOK, NEW u \in Users, NEW with \in Users, NEW before \in Nat
    PROVE  LET page == InboxPage(messages, u, with, before, PageLimit)
           IN /\ page \subseteq MessageIds
              /\ \A id \in page : OwnedBy(messages, u, id)
              /\ Cardinality(page) = PageLimit
                    => (CHOOSE x \in page : \A y \in page : x <= y) \in page
<1> DEFINE page == InboxPage(messages, u, with, before, PageLimit)
<1>1. DOMAIN messages \subseteq MessageIds
  BY ConstantsAssumption, LenProperties DEF TypeOK, MessageIds
<1>2. page \subseteq InboxOf(messages, u)
  BY DEF InboxPage, InboxWith, Newest
<1>3. page \subseteq MessageIds /\ \A id \in page : OwnedBy(messages, u, id)
  BY <1>1, <1>2 DEF InboxOf, OwnedBy
<1>4. Cardinality(page) = PageLimit => page # {}
  BY ConstantsAssumption, FS_EmptySet
<1>5. page \in SUBSET Nat
  BY <1>3 DEF MessageIds
<1> HIDE DEF page
<1>6. page # {} => (CHOOSE x \in page : \A y \in page : x <= y) \in page
  BY <1>5, LeastElement
<1>7. QED
  BY <1>3, <1>4, <1>6 DEF page

-----------------------------------------------------------------------------
(* The initial states.                                                      *)

\* The inductive invariant holds of an empty database and idle goroutines.
LEMMA InitIInv == Init => IInv
<1> SUFFICES ASSUME Init PROVE IInv
  OBVIOUS
<1>1. TypeOK
  <2>1. messages \in Seq([from : Users, to : Users]) /\ Len(messages) <= MaxMessages
    BY ConstantsAssumption DEF Init
  <2>2. conn \in [Conns -> ConnStates] /\ handler \in [Handlers -> HandlerStates]
    BY IdleTypes DEF Init
  <2>3. deliveries \in [MessageIds -> ReceiptRows]
    BY DEF Init, ReceiptRows, NoReceipt, NoTime
  <2>4. correlations \in [Users \X ClientIds -> [stored : MessageIds \cup {0}, delivered : BOOLEAN]]
    BY DEF Init, NoCorrelation
  <2>5. now \in Times
    BY ConstantsAssumption DEF Init, Times
  <2>6. QED
    BY <2>1, <2>2, <2>3, <2>4, <2>5 DEF Init, TypeOK
<1>2. SendOK
  BY DEF Init, SendOK, SendOKFor, IdleConn
<1>3. RequestOK
  BY DEF Init, RequestOK, RequestOKFor, IdleHandler
<1>4. AckedIsDelivered /\ NoticeIsTruthful
  BY DEF Init, AckedIsDelivered, NoticeIsTruthful
<1>5. ReceiptRowsValid
  BY DEF Init, ReceiptRowsValid, WasRead, Delivered, NoReceipt
<1>6. QED
  BY <1>1, <1>2, <1>3, <1>4, <1>5 DEF IInv

-----------------------------------------------------------------------------
(* Type correctness is preserved.                                           *)

\* Receipt marks keep the rows of message_deliveries well formed.
LEMMA ReceiptTypes ==
    ASSUME TypeOK, NEW id \in MessageIds, NEW t \in Times
    PROVE  /\ MarkDelivered(deliveries, id, t) \in [MessageIds -> ReceiptRows]
           /\ MarkRead(deliveries, id, t) \in [MessageIds -> ReceiptRows]
BY DEF TypeOK, MarkDelivered, MarkRead, Coalesce, ReceiptRows

\* The stage after the correlation is of the type of a send.
LEMMA AfterCorrelationType ==
    ASSUME TypeOK, NEW m \in ConnStates
    PROVE  AfterCorrelation(m) \in ConnStates
<1>1. [m EXCEPT !.pc = "mark", !.ts = now] \in ConnStates
  BY DEF TypeOK, ConnStates
<1>2. [m EXCEPT !.pc = "reply", !.outcome = "offline"] \in ConnStates
  BY DEF ConnStates, Outcomes
<1>3. QED
  BY <1>1, <1>2 DEF AfterCorrelation

\* A send's steps.
LEMMA SendTypes ==
    ASSUME IInv, NEW c \in Conns, SendStep(c)
    PROVE  TypeOK'
<1> USE DEF IInv
<1>0. DOMAIN messages = 1..Len(messages) /\ Len(messages) \in Nat /\ DOMAIN messages \subseteq MessageIds
  BY ConstantsAssumption, LenProperties DEF TypeOK, MessageIds
<1>1. ASSUME NEW to \in Users, NEW cid \in ClientIds \cup {0}, Receive(c, to, cid)
      PROVE  TypeOK'
  <2>1. [IdleConn EXCEPT !.pc = "insert", !.to = to, !.cid = cid] \in ConnStates
    BY IdleTypes DEF ConnStates
  <2>2. conn' \in [Conns -> ConnStates]
    BY <1>1, <2>1 DEF Receive, TypeOK
  <2>3. QED
    BY <1>1, <2>2 DEF Receive, TypeOK, store, sent
<1>2. CASE Insert(c)
  <2>1. [from |-> ConnUser[c], to |-> conn[c].to] \in [from : Users, to : Users]
    BY ConstantsAssumption DEF TypeOK, ConnStates
  <2>2. messages' \in Seq([from : Users, to : Users]) /\ Len(messages') = Len(messages) + 1
    BY <1>2, <2>1, AppendProperties DEF Insert, SaveDirectMessage, TypeOK
  <2>3. Len(messages') <= MaxMessages /\ Len(messages') \in MessageIds
    BY <1>0, <1>2, <2>2, ConstantsAssumption DEF Insert, MessageIds
  <2>4. conn' \in [Conns -> ConnStates]
    <3>1. [conn[c] EXCEPT !.pc = "fetch", !.id = Len(messages')] \in ConnStates
      BY <2>3 DEF TypeOK, ConnStates
    <3>2. conn' = [conn EXCEPT ![c] = [conn[c] EXCEPT !.pc = "fetch", !.id = Len(messages')]]
      BY <1>2 DEF Insert
    <3>3. QED
      BY <3>1, <3>2 DEF TypeOK
  <2>5. QED
    BY <1>2, <2>2, <2>3, <2>4 DEF Insert, TypeOK, sent
<1>3. CASE Fetch(c)
  <2>1. [conn[c] EXCEPT !.pc = "push"] \in ConnStates
    BY DEF TypeOK, ConnStates
  <2>2. conn' = [conn EXCEPT ![c] = [conn[c] EXCEPT !.pc = "push"]]
    BY <1>3 DEF Fetch
  <2>3. conn' \in [Conns -> ConnStates]
    BY <2>1, <2>2 DEF TypeOK
  <2>4. QED
    BY <1>3, <2>3 DEF Fetch, TypeOK, store, sent
<1>4. CASE Push(c)
  <2>1. PICK accepted \in BOOLEAN :
           LET m == [conn[c] EXCEPT !.ok = accepted]
           IN /\ relayed' = IF accepted THEN relayed \cup {m.id} ELSE relayed
              /\ conn' = [conn EXCEPT ![c] = IF m.cid # 0 THEN [m EXCEPT !.pc = "correlate"]
                                                          ELSE AfterCorrelation(m)]
    BY <1>4 DEF Push
  <2>2. conn[c].id \in MessageIds
    BY <1>0, <1>4 DEF Push, SendOK, SendOKFor
  <2>3. relayed' \subseteq MessageIds
    BY <2>1, <2>2 DEF TypeOK, ConnStates
  <2>4. conn' \in [Conns -> ConnStates]
    <3> DEFINE m == [conn[c] EXCEPT !.ok = accepted]
    <3>1. m \in ConnStates
      BY DEF TypeOK, ConnStates
    <3> HIDE DEF m
    <3>2. [m EXCEPT !.pc = "correlate"] \in ConnStates /\ AfterCorrelation(m) \in ConnStates
      BY <3>1, AfterCorrelationType
         DEF ConnStates
    <3>3. QED
      BY <2>1, <3>2 DEF TypeOK, m
  <2>5. QED
    BY <1>4, <2>3, <2>4 DEF Push, TypeOK, store
<1>5. CASE Correlate(c)
  <2>1. conn[c].id \in MessageIds /\ conn[c].ok \in BOOLEAN
    BY <1>0, <1>5 DEF Correlate, SendOK, SendOKFor, TypeOK, ConnStates
  <2>2. correlations' \in [Users \X ClientIds -> [stored : MessageIds \cup {0}, delivered : BOOLEAN]]
    BY <1>5, <2>1 DEF Correlate, RecordCorrelation, TypeOK
  <2>3. conn' \in [Conns -> ConnStates]
    BY <1>5, AfterCorrelationType DEF Correlate, TypeOK
  <2>4. QED
    BY <1>5, <2>2, <2>3 DEF Correlate, TypeOK, sent
<1>6. CASE Mark(c)
  <2>1. conn[c].id \in MessageIds /\ conn[c].ts \in Times
    BY <1>0, <1>6 DEF Mark, SendOK, SendOKFor
  <2>2. deliveries' \in [MessageIds -> ReceiptRows]
    BY <1>6, <2>1, ReceiptTypes DEF Mark
  <2>3. conn' \in [Conns -> ConnStates]
    <3>1. [conn[c] EXCEPT !.pc = "reply", !.outcome = "ack"] \in ConnStates
      BY DEF TypeOK, ConnStates, Outcomes
    <3>2. conn' = [conn EXCEPT ![c] = [conn[c] EXCEPT !.pc = "reply", !.outcome = "ack"]]
      BY <1>6 DEF Mark
    <3>3. QED
      BY <3>1, <3>2 DEF TypeOK
  <2>4. QED
    BY <1>6, <2>2, <2>3 DEF Mark, TypeOK, sent
<1>7. CASE StatementFails(c)
  <2>1. [conn[c] EXCEPT !.pc = "reply", !.outcome = "failed"] \in ConnStates
    BY DEF TypeOK, ConnStates, Outcomes
  <2>2. conn' = [conn EXCEPT ![c] = [conn[c] EXCEPT !.pc = "reply", !.outcome = "failed"]]
    BY <1>7 DEF StatementFails
  <2>3. conn' \in [Conns -> ConnStates]
    BY <2>1, <2>2 DEF TypeOK
  <2>4. QED
    BY <1>7, <2>3 DEF StatementFails, TypeOK, store, sent
<1>8. CASE Reply(c)
  <2>1. conn' \in [Conns -> ConnStates]
    BY <1>8, IdleTypes DEF Reply, TypeOK
  <2>2. conn[c].outcome # "failed" => ReplyOf(c) \in Replies
    BY <1>0, <1>8, ConstantsAssumption DEF Reply, SendOK, SendOKFor, TypeOK, ConnStates, ReplyOf, Replies, Outcomes
  <2>3. replies' \subseteq Replies
    BY <1>8, <2>2 DEF Reply, TypeOK
  <2>4. QED
    BY <1>8, <2>1, <2>3 DEF Reply, TypeOK, store
<1>9. QED
  BY <1>1, <1>2, <1>3, <1>4, <1>5, <1>6, <1>7, <1>8, SendStep(c) DEF SendStep

\* A receipt request's steps.
LEMMA ReceiptStepTypes ==
    ASSUME IInv, NEW h \in Handlers, ReceiptStep(h)
    PROVE  TypeOK'
<1> USE DEF IInv
<1>0. DOMAIN messages \subseteq MessageIds
  BY ConstantsAssumption, LenProperties DEF TypeOK, MessageIds
<1>1. ASSUME NEW u \in Users, NEW kind \in Requests \ {"thread"}, NEW id \in MessageIds,
             RequestMark(h, u, kind, id)
      PROVE  TypeOK'
  <2>1. [IdleHandler EXCEPT !.pc = "upsert", !.kind = kind, !.user = u, !.id = id, !.ts = now]
           \in HandlerStates
    BY IdleTypes, ConstantsAssumption DEF HandlerStates, TypeOK
  <2>2. handler' \in [Handlers -> HandlerStates]
    BY <1>1, <2>1 DEF RequestMark, TypeOK
  <2>3. QED
    BY <1>1, <2>2 DEF RequestMark, TypeOK, store, sent
<1>2. ASSUME NEW u \in Users, NEW with \in Users, RequestThreadRead(h, u, with)
      PROVE  TypeOK'
  <2> DEFINE owed == {id \in InboxWith(messages, u, with) : Unread(id)}
  <2>1. owed \subseteq MessageIds
    BY <1>0 DEF InboxWith, InboxOf
  <2> HIDE DEF owed
  <2>2. [IdleHandler EXCEPT !.pc = "page", !.kind = "thread", !.user = u, !.with = with,
                            !.owed = owed] \in HandlerStates
    BY <2>1, IdleTypes DEF HandlerStates
  <2>3. handler' \in [Handlers -> HandlerStates]
    BY <1>2, <2>2 DEF RequestThreadRead, TypeOK, owed
  <2>4. QED
    BY <1>2, <2>3 DEF RequestThreadRead, TypeOK, store, sent
<1>3. CASE ListPage(h)
  <2> DEFINE r == handler[h]
             page == InboxPage(messages, r.user, r.with, r.before, PageLimit)
  <2>1. r \in HandlerStates /\ r.before \in Nat
    BY DEF TypeOK, HandlerStates, MessageIds
  <2>2. /\ page \subseteq MessageIds
        /\ Cardinality(page) = PageLimit
              => (CHOOSE x \in page : \A y \in page : x <= y) \in page
    <3>1. r.user \in Users /\ r.with \in Users
      BY <2>1 DEF HandlerStates
    <3>2. QED
      BY <2>1, <3>1, PageFacts
  <2>3. NextPage(r) \in HandlerStates
    <3> HIDE DEF page
    <3>1. {id \in page : Unread(id)} \subseteq MessageIds
      BY <2>2
    <3>2. QED
      BY <2>1, <2>2, <3>1 DEF NextPage, HandlerStates, page
  <2>4. handler' = [handler EXCEPT ![h] = NextPage(r)]
    BY <1>3 DEF ListPage
  <2>5. handler' \in [Handlers -> HandlerStates]
    BY <2>3, <2>4 DEF TypeOK
  <2>6. QED
    BY <1>3, <2>5 DEF ListPage, TypeOK, store, sent
<1>4. CASE MarkNext(h)
  <2>1. PICK id \in handler[h].todo :
           handler' = [handler EXCEPT ![h] = [handler[h] EXCEPT !.pc = "upsert", !.id = id, !.ts = now]]
    BY <1>4 DEF MarkNext
  <2>2. [handler[h] EXCEPT !.pc = "upsert", !.id = id, !.ts = now] \in HandlerStates
    <3>1. handler[h] \in HandlerStates /\ now \in Times
      BY DEF TypeOK
    <3>2. id \in MessageIds
      BY <3>1 DEF HandlerStates
    <3>3. QED
      BY <3>1, <3>2 DEF HandlerStates
  <2>3. handler' \in [Handlers -> HandlerStates]
    BY <2>1, <2>2 DEF TypeOK
  <2>4. QED
    BY <1>4, <2>3 DEF MarkNext, TypeOK, store, sent
<1>5. CASE Upsert(h)
  <2>1. handler[h].id \in MessageIds /\ handler[h].ts \in Times
    BY <1>0, <1>5 DEF Upsert, RequestOK, RequestOKFor, OwnedBy
  <2>2. deliveries' \in [MessageIds -> ReceiptRows]
    BY <1>5, <2>1, ReceiptTypes DEF Upsert
  <2>3. handler' \in [Handlers -> HandlerStates]
    <3>1. [handler[h] EXCEPT !.pc = "notify"] \in HandlerStates
      BY DEF TypeOK, HandlerStates
    <3>2. handler' = [handler EXCEPT ![h] = [handler[h] EXCEPT !.pc = "notify"]]
      BY <1>5 DEF Upsert
    <3>3. QED
      BY <3>1, <3>2 DEF TypeOK
  <2>4. QED
    BY <1>5, <2>2, <2>3 DEF Upsert, TypeOK, sent
<1>6. CASE Notify(h)
  <2>1. handler[h].id \in DOMAIN messages
    BY <1>6 DEF Notify, RequestOK, RequestOKFor, OwnedBy
  <2>2. messages[handler[h].id].from \in Users
    <3>1. messages \in [DOMAIN messages -> [from : Users, to : Users]]
      BY LenProperties DEF TypeOK
    <3>2. QED
      BY <2>1, <3>1
  <2>3. Notice(handler[h]) \in Notices
    BY <1>0, <2>1, <2>2 DEF Notice, Notices
  <2>4. notices' \subseteq Notices
    BY <1>6, <2>3 DEF Notify, TypeOK
  <2>5. handler' \in [Handlers -> HandlerStates]
    <3>1. PICK rest : rest = handler[h].todo \ {handler[h].id}
      OBVIOUS
    <3>2. handler[h] \in HandlerStates
      BY DEF TypeOK
    <3>3. [handler[h] EXCEPT !.pc = "each", !.todo = rest] \in HandlerStates
      BY <3>1, <3>2 DEF HandlerStates
    <3>4. [handler[h] EXCEPT !.pc = "each", !.todo = @ \ {handler[h].id}] \in HandlerStates
      BY <3>1, <3>3
    <3>5. QED
      BY <1>6, <3>4, IdleTypes DEF Notify, TypeOK
  <2>6. QED
    BY <1>6, <2>4, <2>5 DEF Notify, TypeOK, store
<1>7. CASE ThreadDone(h)
  <2>1. [handler[h] EXCEPT !.pc = "ok"] \in HandlerStates
    BY DEF TypeOK, HandlerStates
  <2>2. handler' = [handler EXCEPT ![h] = [handler[h] EXCEPT !.pc = "ok"]]
    BY <1>7 DEF ThreadDone
  <2>3. handler' \in [Handlers -> HandlerStates]
    BY <2>1, <2>2 DEF TypeOK
  <2>4. QED
    BY <1>7, <2>3 DEF ThreadDone, TypeOK, store, sent
<1>8. CASE Respond(h)
  BY <1>8, IdleTypes DEF Respond, TypeOK, store, sent
<1>9. CASE RequestFails(h)
  BY <1>9, IdleTypes DEF RequestFails, TypeOK, store, sent
<1>10. QED
  BY <1>1, <1>2, <1>3, <1>4, <1>5, <1>6, <1>7, <1>8, <1>9, ReceiptStep(h) DEF ReceiptStep

\* Every step keeps the types.
LEMMA TypePreserved == IInv /\ [Next]_vars => TypeOK'
<1> SUFFICES ASSUME IInv, [Next]_vars PROVE TypeOK'
  OBVIOUS
<1>1. CASE Tick
  BY <1>1, ConstantsAssumption DEF Tick, IInv, TypeOK, Times, store, sent
<1>2. ASSUME NEW c \in Conns, SendStep(c) PROVE TypeOK'
  BY <1>2, SendTypes
<1>3. ASSUME NEW h \in Handlers, ReceiptStep(h) PROVE TypeOK'
  BY <1>3, ReceiptStepTypes
<1>4. CASE Crash
  BY <1>4, IdleTypes DEF Crash, IInv, TypeOK, store, sent
<1>5. CASE UNCHANGED vars
  BY <1>5 DEF vars, IInv, TypeOK, store, sent
<1>6. QED
  BY <1>1, <1>2, <1>3, <1>4, <1>5 DEF Next

-----------------------------------------------------------------------------
(* What is durable stays.                                                   *)

\* How a step may change the receipts: not at all, or by one mark of one row.
LEMMA ReceiptChange ==
    ASSUME IInv, [Next]_vars
    PROVE  \/ UNCHANGED deliveries
           \/ \E c \in Conns : /\ conn[c].pc = "mark"
                               /\ deliveries' = MarkDelivered(deliveries, conn[c].id, conn[c].ts)
           \/ \E h \in Handlers :
                 /\ Upsert(h)
                 /\ deliveries' \in {MarkDelivered(deliveries, handler[h].id, handler[h].ts),
                                     MarkRead(deliveries, handler[h].id, handler[h].ts)}
<1>1. ASSUME NEW c \in Conns, SendStep(c)
      PROVE  UNCHANGED deliveries \/ Mark(c)
  BY <1>1 DEF SendStep, Receive, Insert, Fetch, Push, Correlate, StatementFails, Reply, store
<1>2. ASSUME NEW h \in Handlers, ReceiptStep(h)
      PROVE  UNCHANGED deliveries \/ Upsert(h)
  BY <1>2 DEF ReceiptStep, RequestMark, RequestThreadRead, ListPage, MarkNext, Notify,
              ThreadDone, Respond, RequestFails, store
<1>3. CASE Tick \/ Crash \/ UNCHANGED vars
  BY <1>3 DEF Tick, Crash, vars, store
<1>4. \A c \in Conns : Mark(c) => /\ conn[c].pc = "mark"
                                  /\ deliveries' = MarkDelivered(deliveries, conn[c].id, conn[c].ts)
  BY DEF Mark
<1>5. \A h \in Handlers : Upsert(h) =>
         deliveries' \in {MarkDelivered(deliveries, handler[h].id, handler[h].ts),
                          MarkRead(deliveries, handler[h].id, handler[h].ts)}
  BY DEF Upsert
<1>6. QED
  BY <1>1, <1>2, <1>3, <1>4, <1>5 DEF Next

\* A mark sets timestamps that were NULL and touches no others.
LEMMA MarkSetsOnce ==
    ASSUME TypeOK, NEW id \in MessageIds, NEW t \in Times, NEW x \in MessageIds,
           deliveries' \in {MarkDelivered(deliveries, id, t), MarkRead(deliveries, id, t)}
    PROVE  /\ Delivered(x) => deliveries'[x].delivered = deliveries[x].delivered
           /\ WasRead(x) => deliveries'[x].read = deliveries[x].read
           /\ x # id => deliveries'[x] = deliveries[x]
           /\ deliveries'[id].delivered # NoTime
           /\ deliveries' = MarkRead(deliveries, id, t) => deliveries'[id].read # NoTime
<1>1. t # NoTime
  BY DEF Times, NoTime
<1>2. CASE deliveries' = MarkDelivered(deliveries, id, t)
  <2>1. deliveries' = [deliveries EXCEPT ![id] =
                          [deliveries[id] EXCEPT !.delivered = Coalesce(@, t)]]
    BY <1>2 DEF MarkDelivered
  <2>2. deliveries[id] \in ReceiptRows /\ deliveries[x] \in ReceiptRows
    BY DEF TypeOK
  <2>3. QED
    BY <1>1, <2>1, <2>2, <1>2
       DEF TypeOK, MarkRead, Coalesce, Delivered, WasRead, ReceiptRows
<1>3. CASE deliveries' = MarkRead(deliveries, id, t)
  BY <1>1, <1>3 DEF TypeOK, MarkRead, Coalesce, Delivered, WasRead, ReceiptRows
<1>4. QED
  BY <1>2, <1>3

\* No step unwrites a receipt.
LEMMA ReceiptsGrow ==
    ASSUME IInv, [Next]_vars, NEW x \in MessageIds
    PROVE  /\ Delivered(x) => Delivered(x)' /\ deliveries'[x].delivered = deliveries[x].delivered
           /\ WasRead(x) => WasRead(x)' /\ deliveries'[x].read = deliveries[x].read
<1>0. DOMAIN messages \subseteq MessageIds
  BY ConstantsAssumption, LenProperties DEF IInv, TypeOK, MessageIds
<1>1. CASE UNCHANGED deliveries
  BY <1>1 DEF Delivered, WasRead
<1>2. ASSUME NEW c \in Conns, conn[c].pc = "mark",
             deliveries' = MarkDelivered(deliveries, conn[c].id, conn[c].ts)
      PROVE  /\ Delivered(x) => deliveries'[x].delivered = deliveries[x].delivered
             /\ WasRead(x) => deliveries'[x].read = deliveries[x].read
  <2>1. conn[c].id \in MessageIds /\ conn[c].ts \in Times
    BY <1>0, <1>2 DEF IInv, SendOK, SendOKFor
  <2>2. QED
    BY <1>2, <2>1, MarkSetsOnce DEF IInv
<1>3. ASSUME NEW h \in Handlers, Upsert(h),
             deliveries' \in {MarkDelivered(deliveries, handler[h].id, handler[h].ts),
                              MarkRead(deliveries, handler[h].id, handler[h].ts)}
      PROVE  /\ Delivered(x) => deliveries'[x].delivered = deliveries[x].delivered
             /\ WasRead(x) => deliveries'[x].read = deliveries[x].read
  <2>1. handler[h].id \in MessageIds /\ handler[h].ts \in Times
    BY <1>0, <1>3 DEF IInv, RequestOK, RequestOKFor, Upsert, OwnedBy
  <2>2. QED
    BY <1>3, <2>1, MarkSetsOnce DEF IInv
<1>4. /\ Delivered(x) => deliveries'[x].delivered = deliveries[x].delivered
      /\ WasRead(x) => deliveries'[x].read = deliveries[x].read
  BY <1>1, <1>2, <1>3, ReceiptChange
<1>5. QED
  BY <1>4 DEF Delivered, WasRead

\* Messages are never changed or deleted, nor is anything relayed forgotten.
LEMMA StoreGrows ==
    ASSUME IInv, [Next]_vars
    PROVE  /\ \A id \in DOMAIN messages :
                 id \in DOMAIN messages' /\ messages'[id] = messages[id]
           /\ relayed \subseteq relayed'
<1>1. ASSUME NEW c \in Conns, Insert(c)
      PROVE  \A id \in DOMAIN messages : id \in DOMAIN messages' /\ messages'[id] = messages[id]
  <2>1. [from |-> ConnUser[c], to |-> conn[c].to] \in [from : Users, to : Users]
    BY ConstantsAssumption DEF IInv, TypeOK, ConnStates
  <2>2. messages' = Append(messages, [from |-> ConnUser[c], to |-> conn[c].to])
    BY <1>1 DEF Insert, SaveDirectMessage
  <2>3. /\ messages' \in Seq([from : Users, to : Users])
        /\ Len(messages') = Len(messages) + 1
        /\ \A i \in 1..Len(messages) : messages'[i] = messages[i]
    BY <2>1, <2>2, AppendProperties DEF IInv, TypeOK
  <2>4. /\ DOMAIN messages = 1..Len(messages) /\ Len(messages) \in Nat
        /\ DOMAIN messages' = 1..Len(messages')
    BY <2>3, LenProperties DEF IInv, TypeOK
  <2>5. QED
    BY <2>3, <2>4
<1>2. ASSUME NEW c \in Conns, SendStep(c)
      PROVE  (UNCHANGED messages \/ Insert(c)) /\ relayed \subseteq relayed'
  BY <1>2 DEF SendStep, Receive, Insert, Fetch, Push, Correlate, Mark, StatementFails, Reply,
              store, sent
<1>3. ASSUME NEW h \in Handlers, ReceiptStep(h)
      PROVE  UNCHANGED <<messages, relayed>>
  BY <1>3 DEF ReceiptStep, RequestMark, RequestThreadRead, ListPage, MarkNext, Upsert, Notify,
              ThreadDone, Respond, RequestFails, store, sent
<1>4. CASE Tick \/ Crash \/ UNCHANGED vars
  BY <1>4 DEF Tick, Crash, vars, store, sent
<1>5. QED
  BY <1>1, <1>2, <1>3, <1>4 DEF Next

-----------------------------------------------------------------------------
(* The invariant is preserved.                                              *)

\* Other steps than its own leave a send as good as it was.
LEMMA SendOKStable ==
    ASSUME IInv, [Next]_vars, NEW c \in Conns, conn'[c] = conn[c]
    PROVE  SendOKFor(conn[c], c)'
<1>1. SendOKFor(conn[c], c)
  BY DEF IInv, SendOK
<1>2. DOMAIN messages \subseteq MessageIds
  BY ConstantsAssumption, LenProperties DEF IInv, TypeOK, MessageIds
<1>3. \A id \in DOMAIN messages : Delivered(id) => Delivered(id)'
  BY <1>2, ReceiptsGrow
<1>4. QED
  BY <1>1, <1>3, StoreGrows DEF SendOKFor

\* The stage after the correlation keeps what the push established.
LEMMA AfterCorrelationFacts ==
    ASSUME now \in Times, NEW c \in Conns, NEW m \in ConnStates,
           conn'[c] = AfterCorrelation(m),
           m.id \in DOMAIN messages', messages'[m.id].from = ConnUser[c],
           m.ok => m.id \in relayed'
    PROVE  SendOKFor(conn[c], c)'
<1>1. CASE m.ok
  <2>1. conn'[c] = [m EXCEPT !.pc = "mark", !.ts = now]
    BY <1>1 DEF AfterCorrelation
  <2>2. conn'[c].pc = "mark" /\ conn'[c].id = m.id /\ conn'[c].ts = now
    BY <2>1 DEF ConnStates
  <2>3. QED
    BY <1>1, <2>2 DEF SendOKFor
<1>2. CASE ~m.ok
  <2>1. conn'[c] = [m EXCEPT !.pc = "reply", !.outcome = "offline"]
    BY <1>2 DEF AfterCorrelation
  <2>2. conn'[c].pc = "reply" /\ conn'[c].id = m.id /\ conn'[c].outcome = "offline"
    BY <2>1 DEF ConnStates
  <2>3. QED
    BY <2>2 DEF SendOKFor
<1>3. QED
  BY <1>1, <1>2

\* Every step keeps what the stages of all sends have established.
LEMMA SendPreserved == IInv /\ [Next]_vars => SendOK'
<1> SUFFICES ASSUME IInv, [Next]_vars, NEW d \in Conns PROVE SendOKFor(conn[d], d)'
  BY DEF SendOK
<1>0. TypeOK'
  BY TypePreserved
<1>1. \A c \in Conns : SendOKFor(conn[c], c)
  BY DEF IInv, SendOK
<1>2. ASSUME NEW c \in Conns, SendStep(c)
      PROVE  SendOKFor(conn[d], d)'
  <2>1. CASE d # c
    <3>1. conn'[d] = conn[d]
      BY <1>2, <2>1 DEF SendStep, Receive, Insert, Fetch, Push, Correlate, Mark, StatementFails,
                        Reply, IInv, TypeOK
    <3>2. QED
      BY <3>1, SendOKStable
  <2>2. SendOKFor(conn[c], c)'
    <3>0. conn[c] \in ConnStates /\ conn' \in [Conns -> ConnStates] /\ now \in Times
      BY <1>0 DEF IInv, TypeOK
    <3>1. ASSUME NEW to \in Users, NEW cid \in ClientIds \cup {0}, Receive(c, to, cid)
          PROVE  SendOKFor(conn[c], c)'
      <4>1. conn'[c].pc = "insert"
        BY <3>0, <3>1, IdleTypes DEF Receive, IInv, TypeOK, ConnStates
      <4>2. QED
        BY <4>1 DEF SendOKFor
    <3>2. CASE Insert(c)
      <4>1. [from |-> ConnUser[c], to |-> conn[c].to] \in [from : Users, to : Users]
        BY <3>0, ConstantsAssumption DEF ConnStates
      <4>2. /\ Len(messages') = Len(messages) + 1 /\ Len(messages) \in Nat
            /\ DOMAIN messages' = 1..Len(messages')
            /\ messages'[Len(messages')] = [from |-> ConnUser[c], to |-> conn[c].to]
        BY <1>0, <3>2, <4>1, AppendProperties, LenProperties
           DEF Insert, SaveDirectMessage, IInv, TypeOK
      <4>3. conn'[c] = [conn[c] EXCEPT !.pc = "fetch", !.id = Len(messages')]
        BY <3>2 DEF Insert, IInv, TypeOK
      <4>4. conn'[c].pc = "fetch" /\ conn'[c].id = Len(messages')
        BY <3>0, <4>3 DEF ConnStates
      <4>5. QED
        BY <4>2, <4>4 DEF SendOKFor
    <3>3. CASE Fetch(c)
      <4>1. conn'[c] = [conn[c] EXCEPT !.pc = "push"]
        BY <3>3 DEF Fetch, IInv, TypeOK
      <4>2. conn[c].pc = "fetch" /\ conn'[c].pc = "push" /\ conn'[c].id = conn[c].id
        BY <3>0, <3>3, <4>1 DEF Fetch, ConnStates
      <4>3. QED
        BY <1>1, <4>2, StoreGrows DEF SendOKFor
    <3>4. CASE Push(c)
      <4>1. PICK accepted \in BOOLEAN :
               LET m == [conn[c] EXCEPT !.ok = accepted]
               IN /\ relayed' = IF accepted THEN relayed \cup {m.id} ELSE relayed
                  /\ conn' = [conn EXCEPT ![c] = IF m.cid # 0 THEN [m EXCEPT !.pc = "correlate"]
                                                              ELSE AfterCorrelation(m)]
        BY <3>4 DEF Push
      <4> DEFINE m == [conn[c] EXCEPT !.ok = accepted]
      <4>2. m \in ConnStates /\ m.id = conn[c].id /\ m.ok = accepted
        BY <3>0 DEF ConnStates
      <4>3. /\ relayed' = IF accepted THEN relayed \cup {m.id} ELSE relayed
            /\ conn'[c] = IF m.cid # 0 THEN [m EXCEPT !.pc = "correlate"] ELSE AfterCorrelation(m)
        BY <4>1 DEF IInv, TypeOK
      <4> HIDE DEF m
      <4>4. m.id \in DOMAIN messages' /\ messages'[m.id].from = ConnUser[c]
        BY <1>1, <3>4, <4>2, StoreGrows DEF SendOKFor, Push
      <4>5. m.ok => m.id \in relayed'
        BY <4>2, <4>3
      <4>6. CASE m.cid # 0
        <5>1. conn'[c].pc = "correlate" /\ conn'[c].id = m.id /\ conn'[c].ok = m.ok
          BY <4>2, <4>3, <4>6 DEF ConnStates
        <5>2. QED
          BY <4>4, <4>5, <5>1 DEF SendOKFor
      <4>7. CASE m.cid = 0
        BY <3>0, <4>2, <4>3, <4>4, <4>5, <4>7, AfterCorrelationFacts
      <4>8. QED
        BY <4>6, <4>7
    <3>5. CASE Correlate(c)
      <4>1. conn'[c] = AfterCorrelation(conn[c]) /\ conn[c].pc = "correlate"
        BY <3>5 DEF Correlate, IInv, TypeOK
      <4>2. /\ conn[c].id \in DOMAIN messages' /\ messages'[conn[c].id].from = ConnUser[c]
            /\ conn[c].ok => conn[c].id \in relayed'
        BY <1>1, <4>1, StoreGrows DEF SendOKFor
      <4>3. QED
        BY <3>0, <4>1, <4>2, AfterCorrelationFacts
    <3>6. CASE Mark(c)
      <4>1. conn'[c] = [conn[c] EXCEPT !.pc = "reply", !.outcome = "ack"] /\ conn[c].pc = "mark"
        BY <3>6 DEF Mark, IInv, TypeOK
      <4>2. conn'[c].pc = "reply" /\ conn'[c].id = conn[c].id
        BY <3>0, <4>1 DEF ConnStates
      <4>3. /\ conn[c].id \in DOMAIN messages /\ messages[conn[c].id].from = ConnUser[c]
            /\ conn[c].id \in relayed /\ conn[c].ts \in Times
        BY <1>1, <4>1 DEF SendOKFor
      <4>4. conn[c].id \in MessageIds
        BY <4>3, ConstantsAssumption, LenProperties DEF IInv, TypeOK, MessageIds
      <4>5. Delivered(conn[c].id)'
        <5> DEFINE id == conn[c].id
                   t == conn[c].ts
        <5>1. deliveries' = MarkDelivered(deliveries, id, t)
          BY <3>6 DEF Mark
        <5> HIDE DEF id, t
        <5>2. deliveries'[id].delivered # NoTime
          BY <4>3, <4>4, <5>1, MarkSetsOnce DEF IInv, id, t
        <5>3. conn'[c].id = id
          BY <4>2 DEF id
        <5>4. QED
          BY <5>2, <5>3 DEF Delivered
      <4>6. QED
        BY <4>2, <4>3, <4>5, StoreGrows DEF SendOKFor, Delivered
    <3>7. CASE StatementFails(c)
      <4>1. conn'[c] = [conn[c] EXCEPT !.pc = "reply", !.outcome = "failed"]
        BY <3>7 DEF StatementFails, IInv, TypeOK
      <4>2. conn'[c].pc = "reply" /\ conn'[c].outcome = "failed"
        BY <3>0, <4>1 DEF ConnStates
      <4>3. QED
        BY <4>2 DEF SendOKFor
    <3>8. CASE Reply(c)
      <4>1. conn'[c].pc = "idle"
        BY <3>8 DEF Reply, IdleConn, IInv, TypeOK
      <4>2. QED
        BY <4>1 DEF SendOKFor
    <3>9. QED
      BY <1>2, <3>1, <3>2, <3>3, <3>4, <3>5, <3>6, <3>7, <3>8 DEF SendStep
  <2>3. QED
    BY <2>1, <2>2
<1>3. ASSUME NEW h \in Handlers, ReceiptStep(h)
      PROVE  SendOKFor(conn[d], d)'
  <2>1. conn' = conn
    BY <1>3 DEF ReceiptStep, RequestMark, RequestThreadRead, ListPage, MarkNext, Upsert, Notify,
                ThreadDone, Respond, RequestFails
  <2>2. QED
    BY <2>1, SendOKStable
<1>4. CASE Tick \/ UNCHANGED vars
  <2>1. conn' = conn
    BY <1>4 DEF Tick, vars
  <2>2. QED
    BY <2>1, SendOKStable
<1>5. CASE Crash
  <2>1. conn'[d].pc = "idle"
    BY <1>5 DEF Crash, IdleConn
  <2>2. QED
    BY <2>1 DEF SendOKFor
<1>6. QED
  BY <1>2, <1>3, <1>4, <1>5 DEF Next

\* Other steps than its own leave a request as good as it was.
LEMMA RequestOKStable ==
    ASSUME IInv, [Next]_vars, NEW h \in Handlers, handler'[h] = handler[h]
    PROVE  RequestOKFor(handler[h])'
<1>1. RequestOKFor(handler[h])
  BY DEF IInv, RequestOK
<1>2. DOMAIN messages \subseteq MessageIds
  BY ConstantsAssumption, LenProperties DEF IInv, TypeOK, MessageIds
<1>3. ASSUME NEW id \in DOMAIN messages
      PROVE  /\ deliveries[id].delivered # NoTime => deliveries'[id].delivered # NoTime
             /\ deliveries[id].read # NoTime => deliveries'[id].read # NoTime
  BY <1>2, ReceiptsGrow DEF Delivered, WasRead
<1>4. ASSUME NEW id, OwnedBy(messages, handler[h].user, id)
      PROVE  OwnedBy(messages', handler[h].user, id) /\ id \in DOMAIN messages
  BY <1>4, StoreGrows DEF OwnedBy
<1>5. \A id \in handler'[h].todo : OwnedBy(messages', handler'[h].user, id)
  BY <1>1, <1>4 DEF RequestOKFor
<1>6. QED
  BY <1>1, <1>3, <1>4, <1>5 DEF RequestOKFor, Delivered, WasRead

\* Every step keeps what the stages of all receipt requests have established.
LEMMA RequestPreserved == IInv /\ [Next]_vars => RequestOK'
<1> SUFFICES ASSUME IInv, [Next]_vars, NEW g \in Handlers PROVE RequestOKFor(handler[g])'
  BY DEF RequestOK
<1>0. TypeOK'
  BY TypePreserved
<1>1. \A h \in Handlers : RequestOKFor(handler[h])
  BY DEF IInv, RequestOK
<1>2. DOMAIN messages \subseteq MessageIds
  BY ConstantsAssumption, LenProperties DEF IInv, TypeOK, MessageIds
<1>3. ASSUME NEW h \in Handlers, ReceiptStep(h)
      PROVE  RequestOKFor(handler[g])'
  <2>1. CASE g # h
    <3>1. handler'[g] = handler[g]
      BY <1>3, <2>1 DEF ReceiptStep, RequestMark, RequestThreadRead, ListPage, MarkNext, Upsert,
                        Notify, ThreadDone, Respond, RequestFails, IInv, TypeOK
    <3>2. QED
      BY <3>1, RequestOKStable
  <2>2. RequestOKFor(handler[h])'
    <3>0. handler[h] \in HandlerStates /\ now \in Times
      BY DEF IInv, TypeOK
    <3>1. ASSUME NEW u \in Users, NEW kind \in Requests \ {"thread"}, NEW id \in MessageIds,
                 RequestMark(h, u, kind, id)
          PROVE  RequestOKFor(handler[h])'
      <4>1. handler'[h] = [IdleHandler EXCEPT !.pc = "upsert", !.kind = kind, !.user = u,
                                              !.id = id, !.ts = now]
        BY <3>1 DEF RequestMark, IInv, TypeOK
      <4>2. /\ handler'[h].pc = "upsert" /\ handler'[h].todo = {}
            /\ handler'[h].user = u /\ handler'[h].id = id /\ handler'[h].ts = now
        BY <4>1 DEF IdleHandler
      <4>3. OwnedBy(messages, u, id) /\ messages' = messages
        BY <3>1 DEF RequestMark, store
      <4>4. QED
        BY <3>0, <4>2, <4>3 DEF RequestOKFor
    <3>2. ASSUME NEW u \in Users, NEW with \in Users, RequestThreadRead(h, u, with)
          PROVE  RequestOKFor(handler[h])'
      <4>1. handler'[h].pc = "page" /\ handler'[h].todo = {}
        BY <3>2 DEF RequestThreadRead, IdleHandler, IInv, TypeOK
      <4>2. QED
        BY <4>1 DEF RequestOKFor
    <3>3. CASE ListPage(h)
      <4> DEFINE r == handler[h]
                 page == InboxPage(messages, r.user, r.with, r.before, PageLimit)
      <4>1. \A id \in page : OwnedBy(messages, r.user, id)
        <5>1. r.user \in Users /\ r.with \in Users /\ r.before \in Nat
          BY <3>0 DEF HandlerStates, MessageIds
        <5>2. QED
          BY <5>1, PageFacts DEF IInv
      <4>2. handler'[h] = NextPage(r) /\ messages' = messages
        BY <3>3 DEF ListPage, IInv, TypeOK, store
      <4>3. /\ NextPage(r).user = r.user /\ NextPage(r).pc \in {"page", "each"}
            /\ NextPage(r).todo \subseteq r.todo \cup page
        <5> HIDE DEF page
        <5>1. QED
          BY <3>0 DEF NextPage, HandlerStates, page
      <4>4. \A id \in r.todo : OwnedBy(messages, r.user, id)
        BY <1>1 DEF RequestOKFor
      <4> HIDE DEF r, page
      <4>5. QED
        BY <4>1, <4>2, <4>3, <4>4 DEF RequestOKFor
    <3>4. CASE MarkNext(h)
      <4>1. PICK id \in handler[h].todo :
               handler' = [handler EXCEPT ![h] = [handler[h] EXCEPT !.pc = "upsert", !.id = id,
                                                                    !.ts = now]]
        BY <3>4 DEF MarkNext
      <4>2. /\ handler'[h].pc = "upsert" /\ handler'[h].todo = handler[h].todo
            /\ handler'[h].user = handler[h].user /\ handler'[h].id = id /\ handler'[h].ts = now
        BY <3>0, <4>1 DEF HandlerStates, IInv, TypeOK
      <4>3. messages' = messages
        BY <3>4 DEF MarkNext, store
      <4>4. QED
        BY <1>1, <3>0, <4>2, <4>3 DEF RequestOKFor
    <3>5. CASE Upsert(h)
      <4> DEFINE id == handler[h].id
                 t == handler[h].ts
      <4>1. handler[h].pc = "upsert" /\ handler'[h] = [handler[h] EXCEPT !.pc = "notify"]
            /\ messages' = messages
        BY <3>5 DEF Upsert, IInv, TypeOK
      <4>2. /\ handler'[h].pc = "notify" /\ handler'[h].todo = handler[h].todo
            /\ handler'[h].user = handler[h].user /\ handler'[h].id = id
            /\ handler'[h].ts = t /\ handler'[h].kind = handler[h].kind
        BY <3>0, <4>1 DEF HandlerStates
      <4>3. id \in MessageIds /\ t \in Times
        BY <1>1, <1>2, <4>1 DEF RequestOKFor, OwnedBy
      <4>4. /\ handler[h].kind = "delivered" => deliveries' = MarkDelivered(deliveries, id, t)
            /\ handler[h].kind # "delivered" => deliveries' = MarkRead(deliveries, id, t)
        BY <3>5 DEF Upsert
      <4> HIDE DEF id, t
      <4>5. /\ deliveries'[id].delivered # NoTime
            /\ handler[h].kind # "delivered" => deliveries'[id].read # NoTime
        BY <4>3, <4>4, MarkSetsOnce DEF IInv
      <4>6. QED
        BY <1>1, <4>1, <4>2, <4>3, <4>5 DEF RequestOKFor, Delivered, WasRead, id, t
    <3>6. CASE Notify(h)
      <4>1. CASE handler[h].kind = "thread"
        <5>1. handler'[h] = [handler[h] EXCEPT !.pc = "each", !.todo = @ \ {handler[h].id}]
          BY <3>6, <4>1 DEF Notify, IInv, TypeOK
        <5>2. /\ handler'[h].pc = "each" /\ handler'[h].todo = handler[h].todo \ {handler[h].id}
              /\ handler'[h].user = handler[h].user
          BY <3>0, <5>1 DEF HandlerStates
        <5>3. messages' = messages
          BY <3>6 DEF Notify, store
        <5>4. QED
          BY <1>1, <5>2, <5>3 DEF RequestOKFor
      <4>2. CASE handler[h].kind # "thread"
        <5>1. handler'[h].pc = "idle" /\ handler'[h].todo = {}
          BY <3>6, <4>2 DEF Notify, IdleHandler, IInv, TypeOK
        <5>2. QED
          BY <5>1 DEF RequestOKFor
      <4>3. QED
        BY <4>1, <4>2
    <3>7. CASE ThreadDone(h)
      <4>1. handler'[h] = [handler[h] EXCEPT !.pc = "ok"] /\ handler[h].todo = {}
        BY <3>7 DEF ThreadDone, IInv, TypeOK
      <4>2. handler'[h].pc = "ok" /\ handler'[h].todo = {}
        BY <3>0, <4>1 DEF HandlerStates
      <4>3. QED
        BY <4>2 DEF RequestOKFor
    <3>8. CASE Respond(h) \/ RequestFails(h)
      <4>1. handler'[h].pc = "idle" /\ handler'[h].todo = {}
        BY <3>8 DEF Respond, RequestFails, IdleHandler, IInv, TypeOK
      <4>2. QED
        BY <4>1 DEF RequestOKFor
    <3>9. QED
      BY <1>3, <3>1, <3>2, <3>3, <3>4, <3>5, <3>6, <3>7, <3>8 DEF ReceiptStep
  <2>3. QED
    BY <2>1, <2>2
<1>4. ASSUME NEW c \in Conns, SendStep(c)
      PROVE  RequestOKFor(handler[g])'
  <2>1. handler' = handler
    BY <1>4 DEF SendStep, Receive, Insert, Fetch, Push, Correlate, Mark, StatementFails, Reply
  <2>2. QED
    BY <2>1, RequestOKStable
<1>5. CASE Tick \/ UNCHANGED vars
  <2>1. handler' = handler
    BY <1>5 DEF Tick, vars
  <2>2. QED
    BY <2>1, RequestOKStable
<1>6. CASE Crash
  <2>1. handler'[g].pc = "idle" /\ handler'[g].todo = {}
    BY <1>6 DEF Crash, IdleHandler
  <2>2. QED
    BY <2>1 DEF RequestOKFor
<1>7. QED
  BY <1>3, <1>4, <1>5, <1>6 DEF Next

\* An ack that is on its way to the sender is already true.
LEMMA AcksPreserved == IInv /\ [Next]_vars => AckedIsDelivered'
<1> SUFFICES ASSUME IInv, [Next]_vars, NEW r \in replies', r.outcome = "ack"
             PROVE  /\ r.id \in DOMAIN messages' /\ messages'[r.id].from = r.user
                    /\ r.id \in relayed'
                    /\ deliveries'[r.id].delivered # NoTime
  BY DEF AckedIsDelivered, Delivered
<1>1. /\ r.id \in DOMAIN messages /\ messages[r.id].from = r.user
      /\ r.id \in relayed /\ Delivered(r.id)
  <2>1. CASE r \in replies
    BY <2>1 DEF IInv, AckedIsDelivered
  <2>2. ASSUME NEW c \in Conns, Reply(c), r \notin replies
        PROVE  /\ r.id \in DOMAIN messages /\ messages[r.id].from = r.user
               /\ r.id \in relayed /\ Delivered(r.id)
    <3>1. r = ReplyOf(c) /\ conn[c].pc = "reply"
      BY <2>2 DEF Reply
    <3>2. r.id = conn[c].id /\ r.user = ConnUser[c] /\ conn[c].outcome = "ack"
      BY <3>1 DEF ReplyOf
    <3>3. SendOKFor(conn[c], c)
      BY DEF IInv, SendOK
    <3>4. QED
      BY <3>1, <3>2, <3>3 DEF SendOKFor
  <2>3. replies' = replies \/ \E c \in Conns : Reply(c)
    BY DEF Next, Tick, Crash, vars, sent, SendStep, Receive, Insert, Fetch, Push, Correlate, Mark,
           StatementFails, ReceiptStep, RequestMark, RequestThreadRead, ListPage, MarkNext,
           Upsert, Notify, ThreadDone, Respond, RequestFails
  <2>4. QED
    BY <2>1, <2>2, <2>3
<1>2. r.id \in MessageIds
  BY <1>1, ConstantsAssumption, LenProperties DEF IInv, TypeOK, MessageIds
<1>3. QED
  BY <1>1, <1>2, StoreGrows, ReceiptsGrow DEF Delivered

\* Marks are made on stored messages, and read_at never without delivered_at.
LEMMA ReceiptRowsPreserved == IInv /\ [Next]_vars => ReceiptRowsValid'
<1> SUFFICES ASSUME IInv, [Next]_vars, NEW x \in MessageIds
             PROVE  /\ deliveries'[x].read # NoTime => deliveries'[x].delivered # NoTime
                    /\ deliveries'[x].delivered # NoTime => x \in DOMAIN messages'
  BY DEF ReceiptRowsValid, WasRead, Delivered
<1>0. DOMAIN messages \subseteq MessageIds
  BY ConstantsAssumption, LenProperties DEF IInv, TypeOK, MessageIds
<1>1. /\ WasRead(x) => Delivered(x)
      /\ Delivered(x) => x \in DOMAIN messages
  BY DEF IInv, ReceiptRowsValid
<1>2. ASSUME NEW id \in DOMAIN messages, NEW t \in Times,
             deliveries' \in {MarkDelivered(deliveries, id, t), MarkRead(deliveries, id, t)}
      PROVE  /\ deliveries'[x].read # NoTime => deliveries'[x].delivered # NoTime
             /\ deliveries'[x].delivered # NoTime => x \in DOMAIN messages
  <2>1. /\ x # id => deliveries'[x] = deliveries[x]
        /\ deliveries'[id].delivered # NoTime
    BY <1>0, <1>2, MarkSetsOnce DEF IInv
  <2>2. QED
    BY <1>1, <2>1 DEF Delivered, WasRead
<1>3. ASSUME NEW c \in Conns, conn[c].pc = "mark"
      PROVE  conn[c].id \in DOMAIN messages /\ conn[c].ts \in Times
  BY <1>3 DEF IInv, SendOK, SendOKFor
<1>4. ASSUME NEW h \in Handlers, Upsert(h)
      PROVE  handler[h].id \in DOMAIN messages /\ handler[h].ts \in Times
  BY <1>4 DEF IInv, RequestOK, RequestOKFor, Upsert, OwnedBy
<1>5. CASE UNCHANGED deliveries
  BY <1>1, <1>5, StoreGrows DEF Delivered, WasRead
<1>6. QED
  BY <1>2, <1>3, <1>4, <1>5, ReceiptChange, StoreGrows

\* A notice is pushed only after its upsert, to the sender of its message.
LEMMA NoticesPreserved == IInv /\ [Next]_vars => NoticeIsTruthful'
<1> SUFFICES ASSUME IInv, [Next]_vars, NEW n \in notices'
             PROVE  /\ n.id \in DOMAIN messages' /\ messages'[n.id].from = n.to
                    /\ IF n.kind = "message_read" THEN deliveries'[n.id].read # NoTime
                                                  ELSE deliveries'[n.id].delivered # NoTime
  BY DEF NoticeIsTruthful, Delivered, WasRead
<1>1. /\ n.id \in DOMAIN messages /\ messages[n.id].from = n.to
      /\ IF n.kind = "message_read" THEN WasRead(n.id) ELSE Delivered(n.id)
  <2>1. CASE n \in notices
    BY <2>1 DEF IInv, NoticeIsTruthful
  <2>2. ASSUME NEW h \in Handlers, Notify(h), n \notin notices
        PROVE  /\ n.id \in DOMAIN messages /\ messages[n.id].from = n.to
               /\ IF n.kind = "message_read" THEN WasRead(n.id) ELSE Delivered(n.id)
    <3>1. n = Notice(handler[h]) /\ handler[h].pc = "notify"
      BY <2>2 DEF Notify
    <3>2. /\ n.id = handler[h].id /\ n.to = messages[handler[h].id].from
          /\ n.kind = "message_read" => handler[h].kind # "delivered"
      BY <3>1 DEF Notice
    <3>3. RequestOKFor(handler[h])
      BY DEF IInv, RequestOK
    <3>4. QED
      BY <3>1, <3>2, <3>3 DEF RequestOKFor, OwnedBy
  <2>3. notices' = notices \/ \E h \in Handlers : Notify(h)
    BY DEF Next, Tick, Crash, vars, sent, SendStep, Receive, Insert, Fetch, Push, Correlate, Mark,
           StatementFails, Reply, ReceiptStep, RequestMark, RequestThreadRead, ListPage, MarkNext,
           Upsert, ThreadDone, Respond, RequestFails
  <2>4. QED
    BY <2>1, <2>2, <2>3
<1>2. n.id \in MessageIds
  BY <1>1, ConstantsAssumption, LenProperties DEF IInv, TypeOK, MessageIds
<1>3. QED
  BY <1>1, <1>2, StoreGrows, ReceiptsGrow DEF Delivered, WasRead

-----------------------------------------------------------------------------
(* The theorems.                                                            *)

\* The inductive invariant holds in every reachable state, whatever the
\* interleaving of sends, receipt requests, failed statements and restarts.
THEOREM Invariance == Spec => []IInv
<1>1. IInv /\ [Next]_vars => IInv'
  BY TypePreserved, SendPreserved, RequestPreserved, AcksPreserved, ReceiptRowsPreserved,
     NoticesPreserved DEF IInv
<1>2. QED
  BY InitIInv, <1>1, PTL DEF Spec

\* Every state of the relay and the receipt endpoints is of the declared types.
THEOREM TypeCorrect == Spec => []TypeOK
<1>1. IInv => TypeOK
  BY DEF IInv
<1>2. QED
  BY Invariance, <1>1, PTL

\* SendDirect acknowledges stored, relayed and marked messages only.
THEOREM AcksAreTruthful == Spec => []AckedIsDelivered
<1>1. IInv => AckedIsDelivered
  BY DEF IInv
<1>2. QED
  BY Invariance, <1>1, PTL

\* The receipt table satisfies its CHECK and its foreign key without SQLite's help.
THEOREM ReceiptTableIsValid == Spec => []ReceiptRowsValid
<1>1. IInv => ReceiptRowsValid
  BY DEF IInv
<1>2. QED
  BY Invariance, <1>1, PTL

\* Receipt frames announce durable receipts to the right user.
THEOREM NoticesAreTruthful == Spec => []NoticeIsTruthful
<1>1. IInv => NoticeIsTruthful
  BY DEF IInv
<1>2. QED
  BY Invariance, <1>1, PTL

\* No interleaving of marks overwrites a receipt timestamp.
THEOREM ReceiptsAreFinal == Spec => FirstReceiptWins
<1>1. IInv /\ [Next]_vars =>
         [\A id \in MessageIds :
             /\ Delivered(id) => deliveries'[id].delivered = deliveries[id].delivered
             /\ WasRead(id)   => deliveries'[id].read = deliveries[id].read]_vars
  BY ReceiptsGrow
<1>2. QED
  BY Invariance, <1>1, PTL DEF Spec, FirstReceiptWins

\* Only a request of the recipient makes a message read.
THEOREM ReadByRecipientOnly == Spec => OnlyRecipientReads
<1> DEFINE OfRecipient ==
       \A id \in MessageIds : deliveries'[id].read # deliveries[id].read =>
          \E h \in Handlers : /\ handler[h].id = id
                              /\ id \in DOMAIN messages
                              /\ handler[h].user = messages[id].to
<1>1. IInv /\ [Next]_vars => OfRecipient
  <2> SUFFICES ASSUME IInv, [Next]_vars, NEW x \in MessageIds,
                      deliveries'[x].read # deliveries[x].read
               PROVE  \E h \in Handlers : /\ handler[h].id = x
                                          /\ x \in DOMAIN messages
                                          /\ handler[h].user = messages[x].to
    OBVIOUS
  <2>0. DOMAIN messages \subseteq MessageIds
    BY ConstantsAssumption, LenProperties DEF IInv, TypeOK, MessageIds
  <2>1. ASSUME NEW c \in Conns, conn[c].pc = "mark",
               deliveries' = MarkDelivered(deliveries, conn[c].id, conn[c].ts)
        PROVE  FALSE
    <3>1. conn[c].id \in MessageIds
      BY <2>0, <2>1 DEF IInv, SendOK, SendOKFor
    <3>2. deliveries'[x].read = deliveries[x].read
      BY <2>1, <3>1 DEF MarkDelivered, IInv, TypeOK, ReceiptRows
    <3>3. QED
      BY <3>2
  <2>2. ASSUME NEW h \in Handlers, Upsert(h),
               deliveries' \in {MarkDelivered(deliveries, handler[h].id, handler[h].ts),
                                MarkRead(deliveries, handler[h].id, handler[h].ts)}
        PROVE  handler[h].id = x /\ x \in DOMAIN messages /\ handler[h].user = messages[x].to
    <3>1. /\ handler[h].id \in DOMAIN messages /\ handler[h].user = messages[handler[h].id].to
          /\ handler[h].ts \in Times
      BY <2>2 DEF IInv, RequestOK, RequestOKFor, Upsert, OwnedBy
    <3>2. x # handler[h].id => deliveries'[x] = deliveries[x]
      BY <2>0, <2>2, <3>1, MarkSetsOnce DEF IInv
    <3>3. QED
      BY <3>1, <3>2
  <2>3. QED
    BY <2>1, <2>2, ReceiptChange
<1>2. QED
  BY Invariance, <1>1, PTL DEF Spec, OnlyRecipientReads

=============================================================================
