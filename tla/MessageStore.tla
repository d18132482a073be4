---------------------------- MODULE MessageStore ----------------------------
(***************************************************************************)
(* The durable message tables of the SQLite messaging adapter              *)
(* (adapters/store/sqlitemessaging) as values, and the statements the      *)
(* adapter runs on them as operators.  A statement is atomic in SQLite, so *)
(* each operator is one atomic read or write; the modules that use this    *)
(* one decide which statements may interleave.                             *)
(*                                                                         *)
(*   msgs   the messages table: position i holds the row with id i, which  *)
(*          AUTOINCREMENT hands out in insertion order and never reuses    *)
(*   dels   message_deliveries: id -> the two receipt timestamps, NoTime   *)
(*          for NULL (a row without timestamps is never written)           *)
(*   corrs  message_client_correlations, keyed by its unique index         *)
(*          (sender, client message id); stored = 0 where there is no row  *)
(***************************************************************************)
EXTENDS Integers, Sequences, FiniteSets

NoTime == 0

NoReceipt == [delivered |-> NoTime, read |-> NoTime]

NoCorrelation == [stored |-> 0, delivered |-> FALSE]

\* INSERT INTO messages: the row and the id LastInsertId reports for it.
SaveDirectMessage(msgs, from, to) ==
    Append(msgs, [from |-> from, to |-> to])

\* Mutant: the arguments of COALESCE are swapped.
LastWins(old, new) == IF new = NoTime THEN old ELSE new

\* COALESCE(old, new): the first timestamp written wins.
Coalesce(old, new) == IF old = NoTime THEN new ELSE old

MarkDelivered(dels, id, t) ==
    [dels EXCEPT ![id].delivered = Coalesce(@, t)]

\* Mutant: read_at alone is written.
MarkReadOnly(dels, id, t) == [dels EXCEPT ![id].read = Coalesce(@, t)]

MarkRead(dels, id, t) ==
    [dels EXCEPT ![id] = [delivered |-> Coalesce(@.delivered, t),
                          read      |-> Coalesce(@.read, t)]]

\* Mutant: the conflict clause forgets the delivered column.
RecordStale(corrs, sender, cid, id, ok) ==
    [corrs EXCEPT ![<<sender, cid>>] =
        IF @.stored = 0 THEN [stored |-> id, delivered |-> ok] ELSE [@ EXCEPT !.stored = id]]

\* The upsert on (sender_user_id, client_message_id): a client id that is used
\* again takes over the row of the earlier message.
RecordCorrelation(corrs, sender, cid, id, ok) ==
    [corrs EXCEPT ![<<sender, cid>>] = [stored |-> id, delivered |-> ok]]

\* Mutant: any stored message will do.
Exists(msgs, u, id) == id \in DOMAIN msgs

\* ensureRecipientOwnsMessage, and the WHERE clause of GetMessageForRecipient.
OwnedBy(msgs, u, id) == id \in DOMAIN msgs /\ msgs[id].to = u

InboxOf(msgs, u) == {id \in DOMAIN msgs : msgs[id].to = u}

OutboxOf(msgs, u) == {id \in DOMAIN msgs : msgs[id].from = u}

\* The extra predicate of the ...WithUser queries.
InboxWith(msgs, u, with) ==
    {id \in InboxOf(msgs, u) : msgs[id].from = with \/ msgs[id].to = with}

\* ORDER BY id DESC LIMIT n and ORDER BY id ASC LIMIT n over a set of ids.
Newest(ids, n) == {x \in ids : Cardinality({y \in ids : y > x}) < n}

Oldest(ids, n) == {x \in ids : Cardinality({y \in ids : y < x}) < n}

\* One page of the descending inbox listing; before = 0 starts at the newest.
InboxPage(msgs, u, with, before, n) ==
    Newest({id \in InboxWith(msgs, u, with) : before > 0 => id < before}, n)

\* The delivery_failed column of the outbox queries: LEFT JOIN on the
\* correlation rows of this message and its sender.
DeliveryFailed(msgs, dels, corrs, cids, id) ==
    /\ dels[id].delivered = NoTime
    /\ \E c \in cids : /\ corrs[msgs[id].from, c].stored = id
                       /\ ~corrs[msgs[id].from, c].delivered
=============================================================================
