--------------------------- MODULE DeliveryProofs ---------------------------
(***************************************************************************)
(* Proofs about DirectMessaging that need to know where each message is on *)
(* its way: who has been told what of it, which row names it, and what a   *)
(* thread read still has ahead.                                            *)
(*                                                                         *)
(* FailureIsTruthful and OfflineStaysVisible relate answers and rows that  *)
(* stay for good to frames that may still be offered, so they rest on      *)
(* OutcomeInv: two sends never work on one message, and what has not been  *)
(* offered, recorded or answered yet is nowhere to be found.  ThreadsOK    *)
(* says where a message that a thread read owes can be.  Both are proved   *)
(* on top of the invariant of DirectMessagingProofs.                       *)
(*                                                                         *)
(* The last part proves that every step is a step of MessageLifecycle or   *)
(* invisible to it.                                                        *)
(***************************************************************************)
EXTENDS DirectMessagingProofs

\* A send whose message is in the table and whose answer is not settled yet.
Sending(m) ==
    \/ m.pc \in {"fetch", "push", "correlate", "mark"}
    \/ m.pc = "reply" /\ m.outcome # "failed"

\* Its frame has not been offered, its correlation is not written, the
\* recipient did not take its frame.
Unoffered(m)  == m.pc \in {"fetch", "push"}
Unrecorded(m) == m.pc \in {"fetch", "push", "correlate"}
Refused(m)    == \/ m.pc = "correlate" /\ ~m.ok
                 \/ m.pc = "reply" /\ m.outcome = "offline"

\* Only stored messages are relayed.
RelayedIsStored == relayed \subseteq DOMAIN messages

\* Two sends never work on one message.
SendsApart ==
    \A c, d \in Conns :
        Sending(conn[c]) /\ Sending(conn[d]) /\ conn[c].id = conn[d].id => c = d

\* Nobody has seen the frame of a send before its push or after a refused one,
\* nobody was answered about it before its push, and nothing refers to it
\* before its correlation.
UntoldFor(m) ==
    /\ Unoffered(m) \/ Refused(m) => m.id \notin relayed
    /\ Unoffered(m) => \A r \in replies : r.id # m.id
    /\ Unrecorded(m) => \A p \in Users \X ClientIds : correlations[p].stored # m.id

SendsUntold == \A c \in Conns : UntoldFor(conn[c])

\* A correlation row names a message of its sender, tells whether the frame was
\* accepted, and is the only one of its message.
RowOK(p) ==
    LET row == correlations[p]
    IN  row.stored # 0 =>
            /\ row.stored \in DOMAIN messages
            /\ messages[row.stored].from = p[1]
            /\ row.delivered <=> row.stored \in relayed
            /\ \A q \in Users \X ClientIds : correlations[q].stored = row.stored => q = p

RowsOK == \A p \in Users \X ClientIds : RowOK(p)

\* An offline error names a stored message of its addressee that nobody has.
OfflineOK ==
    \A r \in replies : r.outcome = "offline" =>
        /\ r.id \in DOMAIN messages
        /\ messages[r.id].from = r.user
        /\ r.id \notin relayed

OutcomeInv ==
    /\ RelayedIsStored
    /\ SendsApart
    /\ SendsUntold
    /\ RowsOK
    /\ OfflineOK

\* What a thread read owes is read, collected, or still ahead of its pages.
ThreadOKFor(r) ==
    \A id \in r.owed :
        \/ r.pc \in {"page", "each", "upsert", "notify", "ok"} /\ WasRead(id)
        \/ r.pc \in {"page", "each", "upsert", "notify"} /\ id \in r.todo
        \/ /\ r.pc = "page"
           /\ id \in InboxWith(messages, r.user, r.with)
           /\ r.before > 0 => id < r.before

ThreadsOK == \A h \in Handlers : ThreadOKFor(handler[h])

-----------------------------------------------------------------------------
(* How a step of a send moves its connection.                               *)

Alone(c) == \A d \in Conns : d # c => conn'[d] = conn[d]

\* It gives the message up, or it was not sending: nothing else changes.
GivesUp(c) ==
    /\ ~Sending(conn'[c])
    /\ UNCHANGED <<messages, deliveries, correlations, relayed, replies>>

Inserts(c) ==
    /\ messages' = SaveDirectMessage(messages, ConnUser[c], conn[c].to)
    /\ conn'[c].pc = "fetch" /\ conn'[c].id = Len(messages')
    /\ UNCHANGED <<deliveries, correlations, relayed, replies>>

Fetches(c) ==
    /\ conn[c].pc = "fetch" /\ conn'[c].pc = "push" /\ conn'[c].id = conn[c].id
    /\ UNCHANGED <<messages, deliveries, correlations, relayed, replies>>

Offers(c, accepted) ==
    /\ conn[c].pc = "push" /\ conn'[c].id = conn[c].id
    /\ Sending(conn'[c]) /\ ~Unoffered(conn'[c]) /\ (Refused(conn'[c]) => ~accepted)
    /\ relayed' = IF accepted THEN relayed \cup {conn[c].id} ELSE relayed
    /\ UNCHANGED <<messages, deliveries, correlations, replies>>

Records(c) ==
    /\ conn[c].pc = "correlate" /\ conn'[c].id = conn[c].id
    /\ Sending(conn'[c]) /\ ~Unrecorded(conn'[c]) /\ (Refused(conn'[c]) => ~conn[c].ok)
    /\ correlations' = [correlations EXCEPT ![<<ConnUser[c], conn[c].cid>>] =
                           [stored |-> conn[c].id, delivered |-> conn[c].ok]]
    /\ UNCHANGED <<messages, deliveries, relayed, replies>>

Marks(c) ==
    /\ conn[c].pc = "mark" /\ conn'[c].id = conn[c].id
    /\ conn'[c].pc = "reply" /\ conn'[c].outcome = "ack"
    /\ deliveries' = MarkDelivered(deliveries, conn[c].id, conn[c].ts)
    /\ UNCHANGED <<messages, correlations, relayed, replies>>

Answers(c) ==
    /\ conn[c].pc = "reply" /\ ~Sending(conn'[c])
    /\ replies' = replies \/ (conn[c].outcome # "failed" /\ replies' = replies \cup {ReplyOf(c)})
    /\ UNCHANGED <<messages, deliveries, correlations, relayed>>

\* Every step of a send is one of these moves of its own connection.
LEMMA SendMoves ==
    ASSUME IInv, NEW c \in Conns, SendStep(c)
    PROVE  /\ Alone(c)
           /\ \/ GivesUp(c) \/ Inserts(c) \/ Fetches(c) \/ Records(c) \/ Marks(c) \/ Answers(c)
              \/ \E accepted \in BOOLEAN : Offers(c, accepted)
<1>1. conn \in [Conns -> ConnStates] /\ conn[c] \in ConnStates
  BY DEF IInv, TypeOK
<1>2. Alone(c)
  BY <1>1, SendStep(c) DEF SendStep, Receive, Insert, Fetch, Push, Correlate, Mark, StatementFails,
                           Reply, Alone
<1>3. ASSUME NEW to \in Users, NEW cid \in ClientIds \cup {0}, Receive(c, to, cid)
      PROVE  GivesUp(c)
  <2>1. conn'[c].pc = "insert"
    BY <1>1, <1>3, IdleTypes DEF Receive, ConnStates
  <2>2. QED
    BY <1>3, <2>1 DEF Receive, GivesUp, Sending, store, sent
<1>4. CASE Insert(c)
  <2>1. conn'[c] = [conn[c] EXCEPT !.pc = "fetch", !.id = Len(messages')]
    BY <1>1, <1>4 DEF Insert
  <2>2. conn'[c].pc = "fetch" /\ conn'[c].id = Len(messages')
    BY <1>1, <2>1 DEF ConnStates
  <2>3. QED
    BY <1>2, <1>4, <2>2 DEF Insert, Inserts, sent
<1>5. CASE Fetch(c)
  <2>1. conn'[c] = [conn[c] EXCEPT !.pc = "push"]
    BY <1>1, <1>5 DEF Fetch
  <2>2. conn'[c].pc = "push" /\ conn'[c].id = conn[c].id
    BY <1>1, <2>1 DEF ConnStates
  <2>3. QED
    BY <1>2, <1>5, <2>2 DEF Fetch, Fetches, store, sent
<1>6. ASSUME NEW m \in ConnStates, conn'[c] = AfterCorrelation(m)
      PROVE  /\ conn'[c].id = m.id /\ Sending(conn'[c]) /\ ~Unrecorded(conn'[c])
             /\ ~Unoffered(conn'[c]) /\ (Refused(conn'[c]) => ~m.ok)
  <2>1. CASE m.ok
    <3>1. conn'[c] = [m EXCEPT !.pc = "mark", !.ts = now]
      BY <1>6, <2>1 DEF AfterCorrelation
    <3>2. conn'[c].pc = "mark" /\ conn'[c].id = m.id
      BY <3>1 DEF ConnStates
    <3>3. QED
      BY <3>2 DEF Sending, Unrecorded, Unoffered, Refused
  <2>2. CASE ~m.ok
    <3>1. conn'[c] = [m EXCEPT !.pc = "reply", !.outcome = "offline"]
      BY <1>6, <2>2 DEF AfterCorrelation
    <3>2. conn'[c].pc = "reply" /\ conn'[c].outcome = "offline" /\ conn'[c].id = m.id
      BY <3>1 DEF ConnStates
    <3>3. QED
      BY <2>2, <3>2 DEF Sending, Unrecorded, Unoffered, Refused
  <2>3. QED
    BY <2>1, <2>2
<1>7. CASE Push(c)
  <2>1. PICK accepted \in BOOLEAN :
           LET m == [conn[c] EXCEPT !.ok = accepted]
           IN /\ relayed' = IF accepted THEN relayed \cup {m.id} ELSE relayed
              /\ conn' = [conn EXCEPT ![c] = IF m.cid # 0 THEN [m EXCEPT !.pc = "correlate"]
                                                          ELSE AfterCorrelation(m)]
    BY <1>7 DEF Push
  <2> DEFINE m == [conn[c] EXCEPT !.ok = accepted]
  <2>2. m \in ConnStates /\ m.id = conn[c].id /\ m.ok = accepted
    BY <1>1 DEF ConnStates
  <2>3. /\ relayed' = IF accepted THEN relayed \cup {m.id} ELSE relayed
        /\ conn'[c] = IF m.cid # 0 THEN [m EXCEPT !.pc = "correlate"] ELSE AfterCorrelation(m)
    BY <1>1, <2>1
  <2> HIDE DEF m
  <2>4. /\ conn'[c].id = m.id /\ Sending(conn'[c]) /\ ~Unoffered(conn'[c])
        /\ Refused(conn'[c]) => ~accepted
    <3>1. CASE m.cid # 0
      <4>1. conn'[c].pc = "correlate" /\ conn'[c].id = m.id /\ conn'[c].ok = m.ok
        BY <2>2, <2>3, <3>1 DEF ConnStates
      <4>2. QED
        BY <2>2, <4>1 DEF Sending, Unoffered, Refused
    <3>2. CASE m.cid = 0
      BY <1>6, <2>2, <2>3, <3>2
    <3>3. QED
      BY <3>1, <3>2
  <2>5. Offers(c, accepted)
    BY <1>7, <2>2, <2>3, <2>4 DEF Push, Offers, store
  <2>6. QED
    BY <1>2, <2>5
<1>8. CASE Correlate(c)
  <2>1. conn'[c] = AfterCorrelation(conn[c])
    BY <1>1, <1>8 DEF Correlate
  <2>2. QED
    BY <1>1, <1>6, <1>8, <2>1, <1>2 DEF Correlate, Records, RecordCorrelation, sent
<1>9. CASE Mark(c)
  <2>1. conn'[c] = [conn[c] EXCEPT !.pc = "reply", !.outcome = "ack"]
    BY <1>1, <1>9 DEF Mark
  <2>2. conn'[c].pc = "reply" /\ conn'[c].outcome = "ack" /\ conn'[c].id = conn[c].id
    BY <1>1, <2>1 DEF ConnStates
  <2>3. QED
    BY <1>9, <2>2, <1>2 DEF Mark, Marks, sent
<1>10. CASE StatementFails(c)
  <2>1. conn'[c] = [conn[c] EXCEPT !.pc = "reply", !.outcome = "failed"]
    BY <1>1, <1>10 DEF StatementFails
  <2>2. conn'[c].pc = "reply" /\ conn'[c].outcome = "failed"
    BY <1>1, <2>1 DEF ConnStates
  <2>3. QED
    BY <1>10, <2>2, <1>2 DEF StatementFails, GivesUp, Sending, store, sent
<1>11. CASE Reply(c)
  <2>1. conn'[c].pc = "idle"
    BY <1>1, <1>11 DEF Reply, IdleConn
  <2>2. QED
    BY <1>11, <2>1, <1>2 DEF Reply, Answers, Sending, store
<1>12. QED
  BY <1>2, <1>3, <1>4, <1>5, <1>7, <1>8, <1>9, <1>10, <1>11, SendStep(c) DEF SendStep

\* What the other steps change of all this: nothing, and a restart forgets the sends.
LEMMA OtherMoves ==
    ASSUME IInv, [Next]_vars, ~ \E c \in Conns : SendStep(c)
    PROVE  /\ UNCHANGED <<messages, correlations, relayed, replies>>
           /\ conn' = conn \/ \A c \in Conns : ~Sending(conn'[c]) /\ conn'[c].pc = "idle"
<1>1. ASSUME NEW h \in Handlers, ReceiptStep(h)
      PROVE  UNCHANGED <<messages, correlations, relayed, replies, conn>>
  BY <1>1 DEF ReceiptStep, RequestMark, RequestThreadRead, ListPage, MarkNext, Upsert, Notify,
              ThreadDone, Respond, RequestFails, store, sent
<1>2. CASE Tick \/ UNCHANGED vars
  BY <1>2 DEF Tick, vars, store, sent
<1>3. CASE Crash
  BY <1>3 DEF Crash, IdleConn, Sending, store, sent
<1>4. QED
  BY <1>1, <1>2, <1>3 DEF Next

-----------------------------------------------------------------------------
(* The invariant is preserved by the steps of the sends.                    *)

\* Ids are the positions of the rows, and a new row's id is new.
LEMMA IdsAre ==
    ASSUME IInv
    PROVE  /\ DOMAIN messages = 1..Len(messages) /\ Len(messages) \in Nat
           /\ DOMAIN messages \subseteq MessageIds
           /\ \A c \in Conns : Sending(conn[c]) =>
                 conn[c].id \in DOMAIN messages /\ messages[conn[c].id].from = ConnUser[c]
<1>1. DOMAIN messages = 1..Len(messages) /\ Len(messages) \in Nat
  BY LenProperties DEF IInv, TypeOK
<1>2. DOMAIN messages \subseteq MessageIds
  BY <1>1, ConstantsAssumption DEF IInv, TypeOK, MessageIds
<1>3. ASSUME NEW c \in Conns, Sending(conn[c])
      PROVE  conn[c].id \in DOMAIN messages /\ messages[conn[c].id].from = ConnUser[c]
  BY <1>3 DEF IInv, SendOK, SendOKFor, Sending
<1>4. QED
  BY <1>1, <1>2, <1>3

\* The id an insert reads back is the position of the new row, and no other row changes.
LEMMA InsertedIs ==
    ASSUME IInv, NEW c \in Conns, Inserts(c)
    PROVE  /\ Len(messages') = Len(messages) + 1
           /\ DOMAIN messages' = 1..Len(messages')
           /\ conn'[c].id \in DOMAIN messages'
           /\ conn'[c].id \notin DOMAIN messages
           /\ \A id \in DOMAIN messages : messages'[id] = messages[id]
<1>1. [from |-> ConnUser[c], to |-> conn[c].to] \in [from : Users, to : Users]
  BY ConstantsAssumption DEF IInv, TypeOK, ConnStates
<1>2. messages' = Append(messages, [from |-> ConnUser[c], to |-> conn[c].to])
  BY DEF Inserts, SaveDirectMessage
<1>3. /\ messages' \in Seq([from : Users, to : Users])
      /\ Len(messages') = Len(messages) + 1
      /\ \A i \in 1..Len(messages) : messages'[i] = messages[i]
  BY <1>1, <1>2, AppendProperties DEF IInv, TypeOK
<1>4. DOMAIN messages' = 1..Len(messages')
  BY <1>3, LenProperties
<1>5. QED
  BY <1>3, <1>4, IdsAre DEF Inserts

\* A send keeps its message; only an insert gives it one, and that one is new.
LEMMA SendsApartPreserved ==
    ASSUME IInv, OutcomeInv, NEW c \in Conns, SendStep(c)
    PROVE  SendsApart'
<1>1. Sending(conn'[c]) =>
         \/ Sending(conn[c]) /\ conn'[c].id = conn[c].id
         \/ conn'[c].id \notin DOMAIN messages
  <2>1. CASE GivesUp(c) \/ Answers(c)
    BY <2>1 DEF GivesUp, Answers
  <2>2. CASE Inserts(c)
    BY <2>2, InsertedIs
  <2>3. CASE Fetches(c) \/ Records(c) \/ Marks(c) \/ \E accepted \in BOOLEAN : Offers(c, accepted)
    BY <2>3 DEF Fetches, Records, Marks, Offers, Sending
  <2>4. QED
    BY <2>1, <2>2, <2>3, SendMoves
<1>2. \A d \in Conns : d # c => conn'[d] = conn[d]
  BY SendMoves DEF Alone
<1>3. \A d \in Conns : Sending(conn[d]) => conn[d].id \in DOMAIN messages
  BY IdsAre
<1>4. \A d, e \in Conns :
         Sending(conn[d]) /\ Sending(conn[e]) /\ conn[d].id = conn[e].id => d = e
  BY DEF OutcomeInv, SendsApart
<1>5. ASSUME NEW d \in Conns, d # c, Sending(conn'[c]), Sending(conn'[d])
      PROVE  conn'[c].id # conn'[d].id
  BY <1>1, <1>2, <1>3, <1>4, <1>5
<1>6. ASSUME NEW d \in Conns, NEW e \in Conns, Sending(conn'[d]), Sending(conn'[e]),
             conn'[d].id = conn'[e].id, d # e
      PROVE  FALSE
  <2>1. CASE d = c
    BY <1>5, <1>6, <2>1
  <2>2. CASE e = c
    BY <1>5, <1>6, <2>2
  <2>3. CASE d # c /\ e # c
    BY <1>2, <1>4, <1>6, <2>3
  <2>4. QED
    BY <2>1, <2>2, <2>3
<1>7. QED
  BY <1>6 DEF SendsApart

\* Frames of stored messages only are pushed.
LEMMA RelayedPreserved ==
    ASSUME IInv, OutcomeInv, NEW c \in Conns, SendStep(c)
    PROVE  RelayedIsStored'
<1>1. relayed \subseteq DOMAIN messages
  BY DEF OutcomeInv, RelayedIsStored
<1>2. CASE Inserts(c)
  <2>1. DOMAIN messages \subseteq DOMAIN messages'
    BY <1>2, InsertedIs, IdsAre
  <2>2. QED
    BY <1>1, <1>2, <2>1 DEF RelayedIsStored, Inserts
<1>3. ASSUME NEW accepted \in BOOLEAN, Offers(c, accepted)
      PROVE  RelayedIsStored'
  <2>1. conn[c].id \in DOMAIN messages
    BY <1>3, IdsAre DEF Offers, Sending
  <2>2. QED
    BY <1>1, <1>3, <2>1 DEF Offers, RelayedIsStored
<1>4. CASE GivesUp(c) \/ Fetches(c) \/ Records(c) \/ Marks(c) \/ Answers(c)
  BY <1>1, <1>4 DEF GivesUp, Fetches, Records, Marks, Answers, RelayedIsStored
<1>5. QED
  BY <1>2, <1>3, <1>4, SendMoves

\* What a send has not told yet stays untold by the steps of others, and its
\* own steps tell one thing at a time.
LEMMA UntoldPreserved ==
    ASSUME IInv, OutcomeInv, NEW c \in Conns, SendStep(c)
    PROVE  SendsUntold'
<1> SUFFICES ASSUME NEW d \in Conns
             PROVE  /\ Unoffered(conn'[d]) \/ Refused(conn'[d]) => conn'[d].id \notin relayed'
                    /\ Unoffered(conn'[d]) => \A r \in replies' : r.id # conn'[d].id
                    /\ Unrecorded(conn'[d]) =>
                          \A p \in Users \X ClientIds : correlations'[p].stored # conn'[d].id
  BY DEF SendsUntold, UntoldFor
<1>1. UntoldFor(conn[d]) /\ UntoldFor(conn[c])
  BY DEF OutcomeInv, SendsUntold
<1>2. \A e \in Conns : e # c => conn'[e] = conn[e]
  BY SendMoves DEF Alone
<1>3. ASSUME NEW m
      PROVE  /\ Unoffered(m) => Unrecorded(m) /\ ~Refused(m)
             /\ Unrecorded(m) => Sending(m)
             /\ Refused(m) => Sending(m)
  BY DEF Unoffered, Unrecorded, Refused, Sending
<1>4. \A e \in Conns : Sending(conn[e]) => conn[e].id \in DOMAIN messages
  BY IdsAre
<1>5. Sending(conn[c]) /\ Sending(conn[d]) /\ c # d => conn[c].id # conn[d].id
  BY DEF OutcomeInv, SendsApart
<1>6. CASE GivesUp(c)
  BY <1>1, <1>2, <1>3, <1>6 DEF GivesUp, UntoldFor
<1>7. CASE Inserts(c)
  <2>1. relayed \subseteq DOMAIN messages
    BY DEF OutcomeInv, RelayedIsStored
  <2>2. \A r \in replies : r.id \in DOMAIN messages
    <3>1. ASSUME NEW r \in replies
          PROVE  r.outcome = "ack" \/ r.outcome = "offline"
      BY DEF IInv, TypeOK, Replies, Outcomes
    <3>2. QED
      BY <3>1 DEF OutcomeInv, OfflineOK, IInv, AckedIsDelivered
  <2>3. \A p \in Users \X ClientIds :
           correlations[p].stored = 0 \/ correlations[p].stored \in DOMAIN messages
    BY DEF OutcomeInv, RowsOK, RowOK
  <2>4. CASE d = c
    <3>1. conn'[d].id \notin DOMAIN messages /\ conn'[d].id # 0
      BY <1>7, <2>4, InsertedIs
    <3>2. QED
      BY <1>7, <2>1, <2>2, <2>3, <3>1 DEF Inserts
  <2>5. CASE d # c
    BY <1>1, <1>2, <1>7, <2>5 DEF Inserts, UntoldFor
  <2>6. QED
    BY <2>4, <2>5
<1>8. CASE Fetches(c)
  <2>1. CASE d = c
    BY <1>1, <1>8, <2>1 DEF Fetches, UntoldFor, Unoffered, Unrecorded, Refused
  <2>2. CASE d # c
    BY <1>1, <1>2, <1>8, <2>2 DEF Fetches, UntoldFor
  <2>3. QED
    BY <2>1, <2>2
<1>9. ASSUME NEW accepted \in BOOLEAN, Offers(c, accepted)
      PROVE  /\ Unoffered(conn'[d]) \/ Refused(conn'[d]) => conn'[d].id \notin relayed'
             /\ Unoffered(conn'[d]) => \A r \in replies' : r.id # conn'[d].id
             /\ Unrecorded(conn'[d]) =>
                   \A p \in Users \X ClientIds : correlations'[p].stored # conn'[d].id
  <2>1. Unoffered(conn[c]) /\ Unrecorded(conn[c]) /\ Sending(conn[c])
    BY <1>9 DEF Offers, Unoffered, Unrecorded, Sending
  <2>2. CASE d = c
    BY <1>1, <1>9, <2>1, <2>2 DEF Offers, UntoldFor
  <2>3. CASE d # c
    BY <1>1, <1>2, <1>3, <1>5, <1>9, <2>1, <2>3 DEF Offers, UntoldFor
  <2>4. QED
    BY <2>2, <2>3
<1>10. CASE Records(c)
  <2>1. Unrecorded(conn[c]) /\ Sending(conn[c])
    BY <1>10 DEF Records, Unrecorded, Sending
  <2>2. CASE d = c
    <3>1. ~Unrecorded(conn'[d]) /\ ~Unoffered(conn'[d])
      BY <1>3, <1>10, <2>2 DEF Records
    <3>2. Refused(conn'[d]) => Refused(conn[d])
      BY <1>10, <2>2 DEF Records, Refused
    <3>3. QED
      BY <1>1, <1>10, <2>2, <3>1, <3>2 DEF Records, UntoldFor
  <2>3. CASE d # c
    <3>1. ASSUME NEW p \in Users \X ClientIds, Unrecorded(conn[d])
          PROVE  correlations'[p].stored # conn[d].id
      <4>1. correlations[p].stored # conn[d].id /\ conn[c].id # conn[d].id
        BY <1>1, <1>3, <1>5, <2>1, <2>3, <3>1 DEF UntoldFor
      <4>2. /\ correlations'[p] = correlations[p]
               \/ correlations'[p] = [stored |-> conn[c].id, delivered |-> conn[c].ok]
        BY <1>10 DEF Records, IInv, TypeOK
      <4>3. QED
        BY <4>1, <4>2
    <3>2. QED
      BY <1>1, <1>2, <1>10, <2>3, <3>1 DEF Records, UntoldFor
  <2>4. QED
    BY <2>2, <2>3
<1>11. CASE Marks(c)
  <2>1. CASE d = c
    BY <1>11, <2>1 DEF Marks, Unoffered, Unrecorded, Refused
  <2>2. CASE d # c
    BY <1>1, <1>2, <1>11, <2>2 DEF Marks, UntoldFor
  <2>3. QED
    BY <2>1, <2>2
<1>12. CASE Answers(c)
  <2>1. CASE d = c
    BY <1>3, <1>12, <2>1 DEF Answers
  <2>2. CASE d # c
    <3>1. ASSUME NEW r \in replies', Unoffered(conn[d])
          PROVE  r.id # conn[d].id
      <4>1. CASE r \in replies
        BY <1>1, <3>1, <4>1 DEF UntoldFor
      <4>2. CASE r \notin replies
        <5>1. conn[c].outcome # "failed" /\ r = ReplyOf(c)
          BY <1>12, <4>2 DEF Answers
        <5>2. r.id = conn[c].id /\ Sending(conn[c])
          BY <1>12, <5>1 DEF Answers, ReplyOf, Sending
        <5>3. QED
          BY <1>3, <1>5, <2>2, <3>1, <5>2
      <4>3. QED
        BY <4>1, <4>2
    <3>2. QED
      BY <1>1, <1>2, <1>12, <2>2, <3>1 DEF Answers, UntoldFor
  <2>3. QED
    BY <2>1, <2>2
<1>13. QED
  BY <1>6, <1>7, <1>8, <1>9, <1>10, <1>11, <1>12, SendMoves

\* The upsert of a correlation writes what the push answered, about a message
\* no other row names; a push or an insert is about a message no row names.
LEMMA RowsPreserved ==
    ASSUME IInv, OutcomeInv, NEW c \in Conns, SendStep(c)
    PROVE  RowsOK'
<1> SUFFICES ASSUME NEW p \in Users \X ClientIds, correlations'[p].stored # 0
             PROVE  LET id == correlations'[p].stored
                    IN  /\ id \in DOMAIN messages' /\ messages'[id].from = p[1]
                        /\ correlations'[p].delivered <=> id \in relayed'
                        /\ \A q \in Users \X ClientIds : correlations'[q].stored = id => q = p
  BY DEF RowsOK, RowOK
<1>1. \A q \in Users \X ClientIds : RowOK(q)
  BY DEF OutcomeInv, RowsOK
<1>2. UntoldFor(conn[c])
  BY DEF OutcomeInv, SendsUntold
<1>3. CASE UNCHANGED <<messages, correlations, relayed>>
  BY <1>1, <1>3 DEF RowOK
<1>4. CASE Inserts(c)
  <2>1. correlations' = correlations /\ relayed' = relayed
    BY <1>4 DEF Inserts
  <2>2. \A id \in DOMAIN messages : id \in DOMAIN messages' /\ messages'[id] = messages[id]
    BY <1>4, InsertedIs, IdsAre
  <2>3. QED
    BY <1>1, <2>1, <2>2 DEF RowOK
<1>5. ASSUME NEW accepted \in BOOLEAN, Offers(c, accepted)
      PROVE  LET id == correlations'[p].stored
             IN  /\ id \in DOMAIN messages' /\ messages'[id].from = p[1]
                 /\ correlations'[p].delivered <=> id \in relayed'
                 /\ \A q \in Users \X ClientIds : correlations'[q].stored = id => q = p
  <2>1. correlations' = correlations /\ messages' = messages
    BY <1>5 DEF Offers
  <2>2. correlations[p].stored # conn[c].id
    BY <1>2, <1>5 DEF Offers, UntoldFor, Unrecorded
  <2>3. correlations[p].stored \in relayed' <=> correlations[p].stored \in relayed
    BY <1>5, <2>2 DEF Offers
  <2>4. QED
    BY <1>1, <2>1, <2>3 DEF RowOK
<1>6. CASE Records(c)
  <2> DEFINE key == <<ConnUser[c], conn[c].cid>>
             new == [stored |-> conn[c].id, delivered |-> conn[c].ok]
  <2>1. /\ messages' = messages /\ relayed' = relayed
        /\ correlations' = [correlations EXCEPT ![key] = new]
    BY <1>6 DEF Records
  <2>2. /\ conn[c].id \in DOMAIN messages /\ messages[conn[c].id].from = ConnUser[c]
        /\ conn[c].ok <=> conn[c].id \in relayed
    <3>1. /\ conn[c].ok => conn[c].id \in relayed
          /\ ~ conn[c].ok => conn[c].id \notin relayed
      BY <1>2, <1>6 DEF Records, UntoldFor, Refused, IInv, SendOK, SendOKFor
    <3>2. QED
      BY <1>6, <3>1, IdsAre DEF Records, Sending
  <2>3. \A q \in Users \X ClientIds : correlations[q].stored # conn[c].id
    BY <1>2, <1>6 DEF Records, UntoldFor, Unrecorded
  <2>4. key[1] = ConnUser[c] /\ new.stored = conn[c].id /\ new.delivered = conn[c].ok
    OBVIOUS
  <2> HIDE DEF key, new
  <2>5. \A q \in Users \X ClientIds :
           correlations'[q] = IF q = key THEN new ELSE correlations[q]
    BY <2>1 DEF IInv, TypeOK
  <2>6. CASE p = key
    BY <2>1, <2>2, <2>3, <2>4, <2>5, <2>6
  <2>7. CASE p # key
    <3>1. correlations'[p] = correlations[p] /\ RowOK(p)
      BY <1>1, <2>5, <2>7
    <3>2. ASSUME NEW q \in Users \X ClientIds, correlations'[q].stored = correlations[p].stored
          PROVE  q = p
      BY <2>3, <2>4, <2>5, <3>1, <3>2 DEF RowOK
    <3>3. QED
      BY <2>1, <3>1, <3>2 DEF RowOK
  <2>8. QED
    BY <2>6, <2>7
<1>7. CASE GivesUp(c) \/ Fetches(c) \/ Marks(c) \/ Answers(c)
  BY <1>3, <1>7 DEF GivesUp, Fetches, Marks, Answers
<1>8. QED
  BY <1>4, <1>5, <1>6, <1>7, SendMoves

\* A refused send answers "offline" about a message nobody took, and no other
\* send offers that message again.
LEMMA OfflinePreserved ==
    ASSUME IInv, OutcomeInv, NEW c \in Conns, SendStep(c)
    PROVE  OfflineOK'
<1> SUFFICES ASSUME NEW r \in replies', r.outcome = "offline"
             PROVE  /\ r.id \in DOMAIN messages' /\ messages'[r.id].from = r.user
                    /\ r.id \notin relayed'
  BY DEF OfflineOK
<1>1. UntoldFor(conn[c])
  BY DEF OutcomeInv, SendsUntold
<1>2. r \in replies => /\ r.id \in DOMAIN messages /\ messages[r.id].from = r.user
                       /\ r.id \notin relayed
  BY DEF OutcomeInv, OfflineOK
<1>3. CASE Inserts(c)
  <2>1. \A id \in DOMAIN messages : id \in DOMAIN messages' /\ messages'[id] = messages[id]
    BY <1>3, InsertedIs, IdsAre
  <2>2. QED
    BY <1>2, <1>3, <2>1 DEF Inserts
<1>4. ASSUME NEW accepted \in BOOLEAN, Offers(c, accepted)
      PROVE  /\ r.id \in DOMAIN messages' /\ messages'[r.id].from = r.user
             /\ r.id \notin relayed'
  BY <1>1, <1>2, <1>4 DEF Offers, UntoldFor, Unoffered
<1>5. CASE Answers(c)
  <2>1. CASE r \in replies
    BY <1>2, <1>5, <2>1 DEF Answers
  <2>2. CASE r \notin replies
    <3>1. conn[c].outcome # "failed" /\ r = ReplyOf(c)
      BY <1>5, <2>2 DEF Answers
    <3>2. /\ r.id = conn[c].id /\ r.user = ConnUser[c]
          /\ Sending(conn[c]) /\ Refused(conn[c])
      BY <1>5, <3>1 DEF Answers, ReplyOf, Sending, Refused
    <3>3. QED
      BY <1>1, <1>5, <3>2, IdsAre DEF Answers, UntoldFor
  <2>3. QED
    BY <2>1, <2>2
<1>6. CASE GivesUp(c) \/ Fetches(c) \/ Records(c) \/ Marks(c)
  BY <1>2, <1>6 DEF GivesUp, Fetches, Records, Marks
<1>7. QED
  BY <1>3, <1>4, <1>5, <1>6, SendMoves

\* Every step keeps what is known of the outcomes; a restart forgets the sends only.
LEMMA OutcomePreserved == IInv /\ OutcomeInv /\ [Next]_vars => OutcomeInv'
<1> SUFFICES ASSUME IInv, OutcomeInv, [Next]_vars PROVE OutcomeInv'
  OBVIOUS
<1>1. ASSUME NEW c \in Conns, SendStep(c)
      PROVE  OutcomeInv'
  BY <1>1, SendsApartPreserved, RelayedPreserved, UntoldPreserved, RowsPreserved, OfflinePreserved
     DEF OutcomeInv
<1>2. CASE ~ \E c \in Conns : SendStep(c)
  <2>1. UNCHANGED <<messages, correlations, relayed, replies>>
    BY <1>2, OtherMoves
  <2>2. conn' = conn \/ \A c \in Conns : ~Sending(conn'[c])
    BY <1>2, OtherMoves
  <2>3. (RelayedIsStored /\ RowsOK /\ OfflineOK)'
    BY <2>1 DEF OutcomeInv, RelayedIsStored, RowsOK, RowOK, OfflineOK
  <2>4. SendsApart'
    BY <2>2 DEF OutcomeInv, SendsApart
  <2>5. SendsUntold'
    <3>1. CASE conn' = conn
      BY <2>1, <3>1 DEF OutcomeInv, SendsUntold, UntoldFor
    <3>2. CASE \A c \in Conns : ~Sending(conn'[c])
      BY <3>2 DEF SendsUntold, UntoldFor, Sending, Unoffered, Unrecorded, Refused
    <3>3. QED
      BY <2>2, <3>1, <3>2
  <2>6. QED
    BY <2>3, <2>4, <2>5 DEF OutcomeInv
<1>3. QED
  BY <1>1, <1>2

\* Nothing is told of an empty table.
LEMMA InitOutcome == Init => OutcomeInv
<1> SUFFICES ASSUME Init PROVE OutcomeInv
  OBVIOUS
<1>1. \A c \in Conns : conn[c].pc = "idle"
  BY DEF Init, IdleConn
<1>2. SendsApart /\ SendsUntold
  BY <1>1 DEF SendsApart, SendsUntold, UntoldFor, Sending, Unoffered, Unrecorded, Refused
<1>3. RowsOK
  BY DEF Init, RowsOK, RowOK, NoCorrelation
<1>4. QED
  BY <1>2, <1>3 DEF Init, OutcomeInv, RelayedIsStored, OfflineOK

\* What the sends have told, and what the correlation rows say of it, is
\* consistent in every reachable state.
THEOREM OutcomesInvariant == Spec => []OutcomeInv
BY Invariance, InitOutcome, OutcomePreserved, PTL DEF Spec

-----------------------------------------------------------------------------
(* The properties of outcomes.                                              *)

\* The outbox queries join a message with at most one correlation row, one of
\* its own sender: client ids that are used again and tabs that race on one
\* never make two rows name a message.
THEOREM RowsAreUnambiguous == Spec => []CorrelationUnambiguous
<1>1. IInv /\ OutcomeInv => CorrelationUnambiguous
  <2> SUFFICES ASSUME IInv, OutcomeInv PROVE CorrelationUnambiguous
    OBVIOUS
  <2>1. DOMAIN correlations = Users \X ClientIds
    BY DEF IInv, TypeOK
  <2>2. QED
    BY <2>1 DEF OutcomeInv, RowsOK, RowOK, CorrelationUnambiguous
<1>2. QED
  BY Invariance, OutcomesInvariant, <1>1, PTL

\* DeliveryFailed as the correlation rows tell it.
LEMMA FailedRow ==
    ASSUME IInv, OutcomeInv, NEW id \in DOMAIN messages,
           DeliveryFailed(messages, deliveries, correlations, ClientIds, id)
    PROVE  id \notin relayed
<1>1. PICK cid \in ClientIds : /\ correlations[messages[id].from, cid].stored = id
                               /\ ~correlations[messages[id].from, cid].delivered
  BY Zenon DEF DeliveryFailed
<1>2. PICK p : p = <<messages[id].from, cid>>
  OBVIOUS
<1>3. correlations[p].stored = id /\ ~correlations[p].delivered
  BY <1>1, <1>2, Zenon
<1>4. p \in Users \X ClientIds
  <2>1. messages \in [DOMAIN messages -> [from : Users, to : Users]]
    BY LenProperties DEF IInv, TypeOK
  <2>2. messages[id].from \in Users
    BY <2>1
  <2>3. QED
    BY <1>2, <2>2
<1>5. RowOK(p) /\ id # 0
  BY <1>4, IdsAre DEF OutcomeInv, RowsOK
<1>6. QED
  BY <1>3, <1>5 DEF RowOK

\* No sender is told "offline", nor shown delivery_failed, about a message
\* whose frame a connection of the recipient accepted.
THEOREM FailuresAreTruthful == Spec => []FailureIsTruthful
<1>1. IInv /\ OutcomeInv => FailureIsTruthful
  BY FailedRow DEF OutcomeInv, OfflineOK, FailureIsTruthful
<1>2. QED
  BY Invariance, OutcomesInvariant, <1>1, PTL

\* What a sender was told is offline is flagged in the outbox as long as the
\* correlation row is the one of that send and nobody marked the message.
THEOREM OfflineIsShown == Spec => []OfflineStaysVisible
<1>1. ASSUME IInv, OutcomeInv, NEW r \in replies, r.outcome = "offline",
             NEW p \in Users \X ClientIds, correlations[p].stored = r.id
      PROVE  ~correlations[p].delivered
  <2>1. r.id \in DOMAIN messages /\ r.id \notin relayed
    BY <1>1 DEF OutcomeInv, OfflineOK
  <2>2. RowOK(p) /\ r.id # 0
    BY <1>1, <2>1, IdsAre DEF OutcomeInv, RowsOK
  <2>3. QED
    BY <1>1, <2>1, <2>2 DEF RowOK
<1>2. ASSUME IInv, NEW r \in replies, r.cid # 0
      PROVE  r.cid \in ClientIds /\ <<r.user, r.cid>> \in Users \X ClientIds
  BY <1>2 DEF IInv, TypeOK, Replies
<1>3. ASSUME OutcomeInv, NEW r \in replies, r.outcome = "offline"
      PROVE  messages[r.id].from = r.user
  BY <1>3 DEF OutcomeInv, OfflineOK
<1>4. IInv /\ OutcomeInv => OfflineStaysVisible
  <2> SUFFICES ASSUME IInv, OutcomeInv, NEW r \in replies, r.outcome = "offline", r.cid # 0,
                      correlations[r.user, r.cid].stored = r.id, ~Delivered(r.id)
               PROVE  DeliveryFailed(messages, deliveries, correlations, ClientIds, r.id)
    BY Zenon DEF OfflineStaysVisible
  <2>1. correlations[<<r.user, r.cid>>].stored = r.id
    BY Zenon
  <2>2. ~correlations[<<r.user, r.cid>>].delivered
    BY <1>1, <1>2, <2>1, Zenon
  <2>3. /\ correlations[messages[r.id].from, r.cid].stored = r.id
        /\ ~correlations[messages[r.id].from, r.cid].delivered
    BY <1>3, <2>1, <2>2, Zenon
  <2>4. QED
    BY <1>2, <2>3, Zenon DEF DeliveryFailed, Delivered
<1>5. QED
  BY Invariance, OutcomesInvariant, <1>4, PTL

-----------------------------------------------------------------------------
(* Thread reads.                                                            *)

\* Other steps than its own leave a thread read as good as it was: rows are
\* never changed and receipts never unwritten.
LEMMA ThreadStable ==
    ASSUME IInv, [Next]_vars, NEW h \in Handlers, ThreadOKFor(handler[h]), handler'[h] = handler[h]
    PROVE  ThreadOKFor(handler[h])'
<1>1. PICK r : r = handler[h] /\ r = handler'[h]
  OBVIOUS
<1>2. \A id \in MessageIds : WasRead(id) => deliveries'[id].read # NoTime
  BY ReceiptsGrow DEF WasRead
<1>3. \A id \in DOMAIN messages : id \in DOMAIN messages' /\ messages'[id] = messages[id]
  BY StoreGrows
<1>4. r.owed \subseteq MessageIds
  BY <1>1 DEF IInv, TypeOK, HandlerStates
<1>5. \A id \in InboxWith(messages, r.user, r.with) : id \in InboxWith(messages', r.user, r.with)
  BY <1>3 DEF InboxWith, InboxOf
<1>6. ASSUME NEW id \in r.owed
      PROVE  \/ r.pc \in {"page", "each", "upsert", "notify", "ok"} /\ deliveries'[id].read # NoTime
             \/ r.pc \in {"page", "each", "upsert", "notify"} /\ id \in r.todo
             \/ /\ r.pc = "page"
                /\ id \in InboxWith(messages', r.user, r.with)
                /\ r.before > 0 => id < r.before
  BY <1>1, <1>2, <1>4, <1>5 DEF ThreadOKFor
<1>7. QED
  BY <1>1, <1>6 DEF ThreadOKFor, WasRead

\* A page collects what is unread on it, and the next one starts below it.
LEMMA PageCovers ==
    ASSUME IInv, NEW h \in Handlers, ThreadOKFor(handler[h]), ListPage(h)
    PROVE  ThreadOKFor(handler[h])'
<1>1. PICK r \in HandlerStates : r = handler[h]
  BY DEF IInv, TypeOK
<1>2. /\ r.pc = "page" /\ handler'[h] = NextPage(r)
      /\ messages' = messages /\ deliveries' = deliveries
  BY <1>1 DEF ListPage, IInv, TypeOK, store
<1>3. PICK ids : ids = {id \in InboxWith(messages, r.user, r.with) : r.before > 0 => id < r.before}
  OBVIOUS
<1>4. ids \subseteq MessageIds /\ r.before \in Nat
  BY <1>1, <1>3, IdsAre DEF InboxWith, InboxOf, HandlerStates, MessageIds
<1> DEFINE page == InboxPage(messages, r.user, r.with, r.before, PageLimit)
           more == Cardinality(page) = PageLimit
           least == CHOOSE x \in page : \A y \in page : x <= y
<1>5. page = Newest(ids, PageLimit)
  BY <1>3 DEF InboxPage
<1> HIDE DEF page
<1>6. /\ page \subseteq ids
      /\ \A x \in ids \ page, y \in page : x < y
      /\ page # ids => more
  BY <1>4, <1>5, ConstantsAssumption, NewestFacts DEF MessageIds
<1>7. more => least \in page
  <2>1. more => page # {}
    BY ConstantsAssumption, FS_EmptySet
  <2>2. page \in SUBSET Nat
    BY <1>4, <1>6 DEF MessageIds
  <2>3. QED
    BY <2>1, <2>2, LeastElement
<1> HIDE DEF more, least
<1>8. PICK s : s = NextPage(r)
  OBVIOUS
<1>9. /\ s.pc = (IF more THEN "page" ELSE "each")
       /\ s.todo = r.todo \cup {id \in page : Unread(id)}
       /\ s.before = (IF more THEN least ELSE r.before)
       /\ s.owed = r.owed /\ s.user = r.user /\ s.with = r.with
  BY <1>1, <1>8 DEF NextPage, HandlerStates, page, more, least
<1>10. ASSUME NEW id \in r.owed
       PROVE  \/ WasRead(id)
              \/ id \in s.todo
              \/ s.pc = "page" /\ id \in ids /\ id < s.before
  <2>1. CASE WasRead(id) \/ id \in r.todo
    BY <1>9, <2>1
  <2>2. CASE ~ (WasRead(id) \/ id \in r.todo)
    <3>1. id \in ids
      BY <1>1, <1>2, <1>3, <2>2 DEF ThreadOKFor
    <3>2. CASE id \in page
      BY <1>9, <2>2, <3>2 DEF Unread, WasRead
    <3>3. CASE id \notin page
      BY <1>6, <1>7, <1>9, <3>1, <3>3
    <3>4. QED
      BY <3>2, <3>3
  <2>3. QED
    BY <2>1, <2>2
<1>11. /\ s.pc \in {"page", "each"}
       /\ \A id \in ids : id \in InboxWith(messages, s.user, s.with)
  BY <1>3, <1>9
<1>12. \A id \in s.owed :
          \/ s.pc \in {"page", "each", "upsert", "notify", "ok"} /\ deliveries'[id].read # NoTime
          \/ s.pc \in {"page", "each", "upsert", "notify"} /\ id \in s.todo
          \/ /\ s.pc = "page"
             /\ id \in InboxWith(messages', s.user, s.with)
             /\ s.before > 0 => id < s.before
  BY <1>2, <1>9, <1>10, <1>11 DEF WasRead
<1>13. handler'[h] = s
  BY <1>2, <1>8
<1>14. QED
  BY <1>12, <1>13 DEF ThreadOKFor, WasRead

\* The steps of a request: it collects, marks what it collected, and lets go of
\* a message only after its read mark.
LEMMA ThreadStep ==
    ASSUME IInv, [Next]_vars, NEW h \in Handlers, ThreadOKFor(handler[h]), ReceiptStep(h)
    PROVE  ThreadOKFor(handler[h])'
<1>1. PICK r \in HandlerStates : r = handler[h]
  BY DEF IInv, TypeOK
<1>2. \A id \in MessageIds : WasRead(id) => deliveries'[id].read # NoTime
  BY ReceiptsGrow DEF WasRead
<1>3. r.owed \subseteq MessageIds /\ handler \in [Handlers -> HandlerStates]
  BY <1>1 DEF IInv, TypeOK, HandlerStates
<1>4. ASSUME handler'[h].owed = {}
      PROVE  ThreadOKFor(handler[h])'
  BY <1>4 DEF ThreadOKFor
<1>5. ASSUME NEW s, handler'[h] = s, s.owed = r.owed,
             s.pc \in {"each", "upsert", "notify", "ok"},
             r.pc \in {"each", "upsert", "notify"},
             \A id \in r.todo \ s.todo : deliveries'[id].read # NoTime,
             s.pc = "ok" => s.todo = {}
      PROVE  ThreadOKFor(handler[h])'
  <2>1. \A id \in s.owed :
           \/ deliveries'[id].read # NoTime
           \/ s.pc \in {"page", "each", "upsert", "notify"} /\ id \in s.todo
    BY <1>1, <1>2, <1>3, <1>5 DEF ThreadOKFor
  <2>2. QED
    BY <1>5, <2>1 DEF ThreadOKFor, WasRead
<1>6. ASSUME NEW u \in Users, NEW kind \in Requests \ {"thread"}, NEW id \in MessageIds,
             RequestMark(h, u, kind, id)
      PROVE  ThreadOKFor(handler[h])'
  <2>1. handler'[h].owed = {}
    BY <1>3, <1>6 DEF RequestMark, IdleHandler
  <2>2. QED
    BY <1>4, <2>1
<1>7. ASSUME NEW u \in Users, NEW with \in Users, RequestThreadRead(h, u, with)
      PROVE  ThreadOKFor(handler[h])'
  <2>1. PICK s : s = [IdleHandler EXCEPT !.pc = "page", !.kind = "thread", !.user = u,
                         !.with = with,
                         !.owed = {id \in InboxWith(messages, u, with) : Unread(id)}]
    OBVIOUS
  <2>2. handler'[h] = s /\ messages' = messages
    BY <1>3, <1>7, <2>1 DEF RequestThreadRead, store
  <2>3. /\ s.pc = "page" /\ s.before = 0 /\ s.user = u /\ s.with = with
        /\ s.owed \subseteq InboxWith(messages, u, with)
    BY <2>1 DEF IdleHandler
  <2>4. \A id \in s.owed : id \in InboxWith(messages', s.user, s.with)
    BY <2>2, <2>3
  <2>5. QED
    BY <2>2, <2>3, <2>4 DEF ThreadOKFor
<1>8. CASE MarkNext(h)
  <2>1. PICK id \in r.todo : handler'[h] = [r EXCEPT !.pc = "upsert", !.id = id, !.ts = now]
    BY <1>1, <1>3, <1>8 DEF MarkNext
  <2>2. PICK s : s = [r EXCEPT !.pc = "upsert", !.id = id, !.ts = now]
    OBVIOUS
  <2>3. s.pc = "upsert" /\ s.owed = r.owed /\ s.todo = r.todo
    BY <1>1, <2>2 DEF HandlerStates
  <2>4. r.pc = "each"
    BY <1>1, <1>8 DEF MarkNext
  <2>5. QED
    BY <1>5, <2>1, <2>2, <2>3, <2>4
<1>9. CASE Upsert(h)
  <2>1. PICK s : s = [r EXCEPT !.pc = "notify"]
    OBVIOUS
  <2>2. s.pc = "notify" /\ s.owed = r.owed /\ s.todo = r.todo
    BY <1>1, <2>1 DEF HandlerStates
  <2>3. r.pc = "upsert" /\ handler'[h] = s
    BY <1>1, <1>3, <1>9, <2>1 DEF Upsert
  <2>4. QED
    BY <1>5, <2>2, <2>3
<1>10. CASE Notify(h)
  <2>1. CASE r.kind = "thread"
    <3>1. PICK s : s = [r EXCEPT !.pc = "each", !.todo = r.todo \ {r.id}]
      OBVIOUS
    <3>2. s.pc = "each" /\ s.owed = r.owed /\ s.todo = r.todo \ {r.id}
      BY <1>1, <3>1 DEF HandlerStates
    <3>3. r.pc = "notify" /\ handler'[h] = s /\ deliveries' = deliveries
      BY <1>1, <1>3, <1>10, <2>1, <3>1 DEF Notify, store
    <3>4. WasRead(r.id)
      BY <1>1, <2>1, <3>3 DEF IInv, RequestOK, RequestOKFor
    <3>5. \A id \in r.todo \ s.todo : deliveries'[id].read # NoTime
      BY <3>2, <3>3, <3>4 DEF WasRead
    <3>6. QED
      BY <1>5, <3>2, <3>3, <3>5
  <2>2. CASE r.kind # "thread"
    <3>1. handler'[h].owed = {}
      BY <1>1, <1>3, <1>10, <2>2 DEF Notify, IdleHandler
    <3>2. QED
      BY <1>4, <3>1
  <2>3. QED
    BY <2>1, <2>2
<1>11. CASE ThreadDone(h)
  <2>1. PICK s : s = [r EXCEPT !.pc = "ok"]
    OBVIOUS
  <2>2. s.pc = "ok" /\ s.owed = r.owed /\ s.todo = r.todo
    BY <1>1, <2>1 DEF HandlerStates
  <2>3. r.pc = "each" /\ r.todo = {} /\ handler'[h] = s
    BY <1>1, <1>3, <1>11, <2>1 DEF ThreadDone
  <2>4. QED
    BY <1>5, <2>2, <2>3
<1>12. CASE Respond(h) \/ RequestFails(h)
  <2>1. handler'[h].owed = {}
    BY <1>3, <1>12 DEF Respond, RequestFails, IdleHandler
  <2>2. QED
    BY <1>4, <2>1
<1>13. QED
  BY <1>6, <1>7, <1>8, <1>9, <1>10, <1>11, <1>12, PageCovers, ReceiptStep(h) DEF ReceiptStep

\* Every step keeps what the thread reads owe within reach.
LEMMA ThreadsPreserved == IInv /\ ThreadsOK /\ [Next]_vars => ThreadsOK'
<1> SUFFICES ASSUME IInv, ThreadsOK, [Next]_vars, NEW g \in Handlers
             PROVE  ThreadOKFor(handler[g])'
  BY DEF ThreadsOK
<1>1. ThreadOKFor(handler[g])
  BY DEF ThreadsOK
<1>2. ASSUME NEW h \in Handlers, ReceiptStep(h)
      PROVE  ThreadOKFor(handler[g])'
  <2>1. CASE g = h
    BY <1>1, <1>2, <2>1, ThreadStep
  <2>2. CASE g # h
    <3>1. handler'[g] = handler[g]
      BY <1>2, <2>2 DEF ReceiptStep, RequestMark, RequestThreadRead, ListPage, MarkNext, Upsert,
                        Notify, ThreadDone, Respond, RequestFails, IInv, TypeOK
    <3>2. QED
      BY <1>1, <3>1, ThreadStable
  <2>3. QED
    BY <2>1, <2>2
<1>3. ASSUME NEW c \in Conns, SendStep(c)
      PROVE  handler' = handler
  BY <1>3 DEF SendStep, Receive, Insert, Fetch, Push, Correlate, Mark, StatementFails, Reply
<1>4. CASE Tick \/ UNCHANGED vars
  BY <1>1, <1>4, ThreadStable DEF Tick, vars
<1>5. CASE Crash
  BY <1>5 DEF Crash, IdleHandler, ThreadOKFor
<1>6. QED
  BY <1>1, <1>2, <1>3, <1>4, <1>5, ThreadStable DEF Next

\* A thread read that answers 200 has read every message of the thread that was
\* stored and unread when it arrived, whatever the page limit.
THEOREM ThreadReadsComplete == Spec => []ThreadReadIsComplete
<1>1. Init => ThreadsOK
  BY DEF Init, ThreadsOK, ThreadOKFor, IdleHandler
<1>2. ThreadsOK => ThreadReadIsComplete
  BY DEF ThreadsOK, ThreadOKFor, ThreadReadIsComplete
<1>3. QED
  BY Invariance, <1>1, <1>2, ThreadsPreserved, PTL DEF Spec

-----------------------------------------------------------------------------
(* The refinement.                                                          *)

Status == [id \in MessageIds |-> StatusOf(id)]

Acked == {r.id : r \in {x \in replies : x.outcome = "ack"}}

\* A step that touches no table of receipts changes no status but of a new row.
LEMMA StatusSame ==
    ASSUME UNCHANGED <<messages, deliveries>>
    PROVE  Status' = Status
BY DEF Status, StatusOf, WasRead, Delivered

\* Without an answer nothing is acknowledged.
LEMMA AckedSame ==
    ASSUME UNCHANGED replies
    PROVE  Acked' = Acked
BY DEF Acked

\* A step about one message changes the status of no other.
LEMMA StatusMoves ==
    ASSUME NEW id \in MessageIds, NEW new, StatusOf(id)' = new,
           \A x \in MessageIds : x # id => StatusOf(x)' = StatusOf(x)
    PROVE  Status' = [Status EXCEPT ![id] = new]
<1>1. Status' = [x \in MessageIds |-> Status'[x]] /\ DOMAIN Status = MessageIds
  BY DEF Status
<1>2. \A x \in MessageIds : Status[x] = StatusOf(x) /\ Status'[x] = StatusOf(x)'
  BY DEF Status
<1>3. QED
  BY <1>1, <1>2

\* Ids are handed out in order: the next row's id is the least absent one.
LEMMA StoresAbstractly ==
    ASSUME IInv, [Next]_vars, NEW c \in Conns, Inserts(c)
    PROVE  Lifecycle!Next
<1>1. PICK id : id = conn'[c].id
  OBVIOUS
<1>2. /\ id \in DOMAIN messages' /\ id \notin DOMAIN messages
      /\ id = Len(messages) + 1
      /\ DOMAIN messages' = 1..Len(messages) + 1
      /\ DOMAIN messages = 1..Len(messages) /\ Len(messages) \in Nat
  BY <1>1, InsertedIs, IdsAre DEF Inserts
<1>3. DOMAIN messages' \subseteq MessageIds
  <2>1. TypeOK'
    BY TypePreserved
  <2>2. QED
    BY <2>1, ConstantsAssumption, LenProperties DEF TypeOK, MessageIds
<1>4. deliveries' = deliveries /\ replies' = replies
  BY DEF Inserts
<1>5. ~WasRead(id) /\ ~Delivered(id)
  BY <1>2, <1>3 DEF IInv, ReceiptRowsValid
<1>6. StatusOf(id) = "absent" /\ StatusOf(id)' = "stored"
  BY <1>2, <1>4, <1>5 DEF StatusOf, WasRead, Delivered
<1>7. \A x \in MessageIds : x # id => (x \in DOMAIN messages' <=> x \in DOMAIN messages)
  BY <1>2 DEF MessageIds
<1>8. \A x \in MessageIds : x # id => StatusOf(x)' = StatusOf(x)
  BY <1>4, <1>7 DEF StatusOf, WasRead, Delivered
<1>9. id \in MessageIds
  BY <1>2, <1>3
<1>10. Status' = [Status EXCEPT ![id] = "stored"]
  BY <1>6, <1>8, <1>9, StatusMoves
<1>11. \A other \in MessageIds : other < id => Status[other] # "absent"
  BY <1>2 DEF MessageIds, Status, StatusOf
<1>12. Status[id] = "absent" /\ Acked' = Acked
  BY <1>4, <1>6, <1>9, AckedSame DEF Status
<1>13. Lifecycle!Store(id)
  BY <1>10, <1>11, <1>12 DEF Lifecycle!Store, Status, Acked
<1>14. QED
  BY <1>9, <1>13 DEF Lifecycle!Next

\* A delivery mark delivers a stored message and changes nothing afterwards.
LEMMA DeliversAbstractly ==
    ASSUME IInv, NEW id \in DOMAIN messages, NEW t \in Times,
           deliveries' = MarkDelivered(deliveries, id, t), UNCHANGED <<messages, replies>>
    PROVE  [Lifecycle!Next]_<<Status, Acked>>
<1>1. id \in MessageIds /\ Acked' = Acked
  BY IdsAre, AckedSame
<1>2. /\ \A x \in MessageIds : x # id => deliveries'[x] = deliveries[x]
      /\ deliveries'[id].delivered # NoTime
  BY <1>1, MarkSetsOnce DEF IInv
<1>3. deliveries'[id].read = deliveries[id].read
  <2>1. deliveries[id] \in ReceiptRows
    BY <1>1 DEF IInv, TypeOK
  <2>2. deliveries' = [deliveries EXCEPT ![id] =
                          [deliveries[id] EXCEPT !.delivered = Coalesce(@, t)]]
    BY DEF MarkDelivered
  <2>3. QED
    BY <1>1, <2>1, <2>2 DEF IInv, TypeOK, ReceiptRows
<1>4. \A x \in MessageIds : x # id => StatusOf(x)' = StatusOf(x)
  BY <1>2 DEF StatusOf, WasRead, Delivered
<1>5. CASE StatusOf(id) = "stored"
  <2>1. StatusOf(id)' = "delivered"
    BY <1>2, <1>3, <1>5 DEF StatusOf, WasRead, Delivered
  <2>2. Status' = [Status EXCEPT ![id] = "delivered"]
    BY <1>1, <1>4, <2>1, StatusMoves
  <2>3. Status[id] = "stored"
    BY <1>1, <1>5 DEF Status
  <2>4. Lifecycle!Deliver(id)
    BY <1>1, <2>2, <2>3 DEF Lifecycle!Deliver, Status, Acked
  <2>5. QED
    BY <1>1, <2>4 DEF Lifecycle!Next
<1>6. CASE StatusOf(id) # "stored"
  <2>1. StatusOf(id)' = StatusOf(id)
    BY <1>2, <1>3, <1>6 DEF StatusOf, WasRead, Delivered
  <2>2. Status' = Status
    BY <1>4, <2>1 DEF Status
  <2>3. QED
    BY <1>1, <2>2
<1>7. QED
  BY <1>5, <1>6

\* A read mark reads a message whether or not it was delivered before.
LEMMA ReadsAbstractly ==
    ASSUME IInv, NEW id \in DOMAIN messages, NEW t \in Times,
           deliveries' = MarkRead(deliveries, id, t), UNCHANGED <<messages, replies>>
    PROVE  [Lifecycle!Next]_<<Status, Acked>>
<1>1. id \in MessageIds /\ Acked' = Acked
  BY IdsAre, AckedSame
<1>2. /\ \A x \in MessageIds : x # id => deliveries'[x] = deliveries[x]
      /\ deliveries'[id].read # NoTime
  BY <1>1, MarkSetsOnce DEF IInv
<1>3. \A x \in MessageIds : x # id => StatusOf(x)' = StatusOf(x)
  BY <1>2 DEF StatusOf, WasRead, Delivered
<1>4. StatusOf(id)' = "read"
  BY <1>2 DEF StatusOf, WasRead
<1>5. CASE StatusOf(id) = "read"
  <2>1. Status' = Status
    BY <1>3, <1>4, <1>5 DEF Status
  <2>2. QED
    BY <1>1, <2>1
<1>6. CASE StatusOf(id) # "read"
  <2>1. StatusOf(id) \in {"stored", "delivered"}
    BY <1>6 DEF StatusOf
  <2>2. Status' = [Status EXCEPT ![id] = "read"]
    BY <1>1, <1>3, <1>4, StatusMoves
  <2>3. Status[id] \in {"stored", "delivered"}
    BY <1>1, <2>1 DEF Status
  <2>4. Lifecycle!Read(id)
    BY <1>1, <2>2, <2>3 DEF Lifecycle!Read, Status, Acked
  <2>5. QED
    BY <1>1, <2>4 DEF Lifecycle!Next
<1>7. QED
  BY <1>5, <1>6

\* An ack follows the mark; the other answers acknowledge nothing.
LEMMA AcknowledgesAbstractly ==
    ASSUME IInv, NEW c \in Conns, Answers(c)
    PROVE  [Lifecycle!Next]_<<Status, Acked>>
<1>1. Status' = Status
  BY StatusSame DEF Answers
<1>2. CASE replies' = replies
  BY <1>1, <1>2, AckedSame
<1>3. CASE replies' = replies \cup {ReplyOf(c)} /\ conn[c].outcome # "failed"
  <2>1. CASE conn[c].outcome = "ack"
    <3>1. PICK id : id = conn[c].id
      OBVIOUS
    <3>2. id \in DOMAIN messages /\ id \in MessageIds /\ Delivered(id)
      BY <2>1, <3>1, IdsAre DEF Answers, Sending, IInv, SendOK, SendOKFor
    <3>3. ReplyOf(c).id = id /\ ReplyOf(c).outcome = "ack"
      BY <2>1, <3>1 DEF ReplyOf
    <3>4. Acked' = Acked \cup {id}
      BY <1>3, <3>3 DEF Acked
    <3>5. Status[id] \in {"delivered", "read"}
      BY <3>2 DEF Status, StatusOf
    <3>6. Lifecycle!Acknowledge(id)
      BY <1>1, <3>4, <3>5 DEF Lifecycle!Acknowledge, Status, Acked
    <3>7. QED
      BY <3>2, <3>6 DEF Lifecycle!Next
  <2>2. CASE conn[c].outcome # "ack"
    <3>1. ReplyOf(c).outcome # "ack"
      BY <2>2 DEF ReplyOf
    <3>2. Acked' = Acked
      BY <1>3, <3>1 DEF Acked
    <3>3. QED
      BY <1>1, <3>2
  <2>3. QED
    BY <2>1, <2>2
<1>4. QED
  BY <1>2, <1>3 DEF Answers

\* Every step is one of the life cycle or leaves statuses and acknowledgements alone.
LEMMA StepsAbstractly == IInv /\ [Next]_vars => [Lifecycle!Next]_<<Status, Acked>>
<1> SUFFICES ASSUME IInv, [Next]_vars PROVE [Lifecycle!Next]_<<Status, Acked>>
  OBVIOUS
<1>1. CASE UNCHANGED <<messages, deliveries, replies>>
  BY <1>1, StatusSame, AckedSame
<1>2. ASSUME NEW c \in Conns, SendStep(c)
      PROVE  [Lifecycle!Next]_<<Status, Acked>>
  <2>1. CASE Marks(c)
    <3>1. conn[c].id \in DOMAIN messages /\ conn[c].ts \in Times
      BY <2>1 DEF Marks, IInv, SendOK, SendOKFor
    <3>2. QED
      BY <2>1, <3>1, DeliversAbstractly DEF Marks
  <2>2. CASE GivesUp(c) \/ Fetches(c) \/ Records(c) \/ \E accepted \in BOOLEAN : Offers(c, accepted)
    BY <1>1, <2>2 DEF GivesUp, Fetches, Records, Offers
  <2>3. QED
    BY <1>2, <2>1, <2>2, SendMoves, StoresAbstractly, AcknowledgesAbstractly
<1>3. ASSUME NEW h \in Handlers, Upsert(h)
      PROVE  [Lifecycle!Next]_<<Status, Acked>>
  <2>1. handler[h].id \in DOMAIN messages /\ handler[h].ts \in Times
    BY <1>3 DEF Upsert, IInv, RequestOK, RequestOKFor, OwnedBy
  <2>2. /\ UNCHANGED <<messages, replies>>
        /\ \/ deliveries' = MarkDelivered(deliveries, handler[h].id, handler[h].ts)
           \/ deliveries' = MarkRead(deliveries, handler[h].id, handler[h].ts)
    BY <1>3 DEF Upsert, sent
  <2>3. QED
    BY <2>1, <2>2, DeliversAbstractly, ReadsAbstractly
<1>4. ASSUME NEW h \in Handlers, ReceiptStep(h), ~Upsert(h)
      PROVE  UNCHANGED <<messages, deliveries, replies>>
  BY <1>4 DEF ReceiptStep, RequestMark, RequestThreadRead, ListPage, MarkNext, Notify,
              ThreadDone, Respond, RequestFails, store, sent
<1>5. CASE Tick \/ Crash \/ UNCHANGED vars
  BY <1>1, <1>5 DEF Tick, Crash, vars, store, sent
<1>6. QED
  BY <1>1, <1>2, <1>3, <1>4, <1>5 DEF Next

\* The relay and the receipt endpoints keep the promised life cycle of a
\* message: each statement or answer stores the next message, moves one forward
\* to delivered or read, acknowledges one that is delivered, or is invisible.
THEOREM MessagesLiveForward == Spec => ImplementsLifecycle
<1>1. Init => Lifecycle!Init
  BY DEF Init, Lifecycle!Init, StatusOf
<1>2. IInv /\ [Next]_vars =>
        [Lifecycle!Next]_<<[id \in MessageIds |-> StatusOf(id)],
                           {r.id : r \in {x \in replies : x.outcome = "ack"}}>>
  BY StepsAbstractly DEF Status, Acked
<1>3. QED
  BY Invariance, <1>1, <1>2, PTL DEF Spec, ImplementsLifecycle, Lifecycle!Spec
=============================================================================
