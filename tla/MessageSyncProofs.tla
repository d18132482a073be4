------------------------- MODULE MessageSyncProofs --------------------------
(***************************************************************************)
(* Proofs about MessageSync, for any users, runs, page size and bounds.    *)
(*                                                                         *)
(* The argument: what a run has read of the inbox is the beginning of it,  *)
(* and what it lacks either comes after a full page, or was stored between *)
(* the two reads and is marked as raced, or is younger than everything     *)
(* read (ReadOK).  A page therefore passes over no message but an          *)
(* overtaken one, so the pages of a run cover everything up to its cursor  *)
(* (CoversOK), and so does the cursor all runs share, in whatever order    *)
(* they write it.  A run that was not cancelled ends with a short page,    *)
(* which holds the rest of what was stored when it started (KnownOK).      *)
(***************************************************************************)
EXTENDS MessageSync, MessageStoreProofs, SequenceTheorems

\* What a run has collected so far is in the table.
CarriesOK(q) ==
    /\ q.after <= Len(messages)
    /\ q.got \subseteq Mine /\ q.known \subseteq Mine
    /\ q.inbox \subseteq {id \in InboxOf(messages, Me) : id > q.after}
    /\ q.outbox \subseteq {id \in OutboxOf(messages, Me) : id > q.after}
    /\ q.pc = "commit" => q.got \subseteq received

CoversOK(q) ==
    q.pc # "idle" =>
        \A id \in Mine : id <= q.after => id \in received \cup q.got \/ Overtaken(id)

\* What the two reads of a request do not hold.
ReadOK(q) ==
    /\ q.pc \in {"outbox", "page"} =>
          \A id \in InboxOf(messages, Me) : id > q.after /\ id \notin q.inbox =>
             /\ \A x \in q.inbox : x < id
             /\ \/ Cardinality(q.inbox) = FetchLimit
                \/ id \in raced
                \/ q.pc = "page" /\ \A x \in q.outbox : x < id
    /\ q.pc = "page" =>
          \A id \in OutboxOf(messages, Me) : id > q.after /\ id \notin q.outbox =>
             /\ \A x \in q.outbox : x < id
             /\ Cardinality(q.outbox) = FetchLimit \/ \A x \in q.inbox : x < id

\* What was stored when the run started is read, or there is another page.
KnownOK(q) ==
    /\ q.pc \in {"outbox", "page"} =>
          \A id \in q.known \cap InboxOf(messages, Me) : id > q.after /\ id \notin q.inbox =>
             Cardinality(q.inbox) = FetchLimit
    /\ q.pc = "page" =>
          \A id \in q.known \cap OutboxOf(messages, Me) : id > q.after /\ id \notin q.outbox =>
             Cardinality(q.outbox) = FetchLimit
    /\ q.pc = "commit" \/ (q.pc = "apply" /\ ~q.cancelled) =>
          \A id \in q.known : id \in received \cup q.got \/ Overtaken(id)

RunOK(q) == CarriesOK(q) /\ CoversOK(q) /\ ReadOK(q) /\ KnownOK(q)

IInv ==
    /\ TypeOK
    /\ checkpoint <= Len(messages)
    /\ \A r \in Runs : RunOK(run[r])
    /\ CursorCovers

-----------------------------------------------------------------------------
(* Facts about the table and about one run.                                *)

Table == 1..Len(messages)

LEMMA TableFacts ==
    ASSUME TypeOK
    PROVE  /\ Len(messages) \in Nat /\ DOMAIN messages = Table /\ Table \subseteq Ids
           /\ InboxOf(messages, Me) \subseteq Mine /\ OutboxOf(messages, Me) \subseteq Mine
           /\ Mine \subseteq Table /\ \A id \in Table : id \in Nat /\ id >= 1
           /\ \A id \in Mine : id \in InboxOf(messages, Me) \/ id \in OutboxOf(messages, Me)
           /\ Limit \in Nat /\ FetchLimit = Limit + 1 /\ FetchLimit \in Nat
<1>1. Len(messages) \in Nat /\ DOMAIN messages = Table /\ Len(messages) <= MaxMessages
  BY DEF TypeOK, Table
<1>2. MaxMessages \in Nat /\ Limit \in Nat
  BY ConstantsAssumption
<1>3. Table \subseteq Ids /\ \A id \in Table : id \in Nat /\ id >= 1
  BY <1>1, <1>2 DEF Table, Ids
<1>4. Mine \subseteq Table
  BY <1>1 DEF Mine, InboxOf, OutboxOf
<1>5. QED
  BY <1>1, <1>2, <1>3, <1>4 DEF Mine, FetchLimit

LEMMA RunFacts ==
    ASSUME TypeOK, NEW q \in RunStates, RunOK(q)
    PROVE  /\ q.after \in Nat /\ q.after <= Len(messages)
           /\ q.inbox \subseteq InboxOf(messages, Me) /\ q.inbox \in SUBSET (1..Len(messages))
           /\ q.outbox \subseteq OutboxOf(messages, Me) /\ q.outbox \in SUBSET (1..Len(messages))
           /\ Merged(q) \subseteq Mine /\ Merged(q) \in SUBSET (1..Len(messages))
           /\ \A id \in Merged(q) : id > q.after
<1>1. q.after \in Nat /\ q.after <= Len(messages)
  BY DEF RunStates, RunOK, CarriesOK, Ids
<1>2. q.inbox \subseteq InboxOf(messages, Me) /\ \A id \in q.inbox : id > q.after
  BY DEF RunOK, CarriesOK
<1>3. q.outbox \subseteq OutboxOf(messages, Me) /\ \A id \in q.outbox : id > q.after
  BY DEF RunOK, CarriesOK
<1>4. q.inbox \subseteq Table /\ q.outbox \subseteq Table
  BY <1>2, <1>3, TableFacts
<1>5. QED
  BY <1>1, <1>2, <1>3, <1>4, TableFacts DEF Merged, Table

LEMMA IdleOK == IdleRun \in RunStates /\ RunOK(IdleRun)'
<1>1. IdleRun \in RunStates
  BY DEF IdleRun, RunStates
<1>2. /\ IdleRun.pc = "idle" /\ IdleRun.after = 0 /\ IdleRun.inbox = {} /\ IdleRun.outbox = {}
      /\ IdleRun.got = {} /\ IdleRun.known = {}
  BY DEF IdleRun
<1>3. QED
  BY <1>1, <1>2 DEF RunOK, CarriesOK, CoversOK, ReadOK, KnownOK

\* A run stays as it should be while others bring messages into the threads.
LEMMA OthersStay ==
    ASSUME NEW q, RunOK(q), messages' = messages, raced' = raced, received \subseteq received'
    PROVE  RunOK(q)'
<1>1. Mine' = Mine /\ \A id : Overtaken(id)' <=> Overtaken(id)
  BY DEF Mine, Overtaken
<1>2. CarriesOK(q)' /\ CoversOK(q)' /\ ReadOK(q)' /\ KnownOK(q)'
  <2>1. CarriesOK(q)'
    BY <1>1 DEF RunOK, CarriesOK
  <2>2. CoversOK(q)'
    BY <1>1 DEF RunOK, CoversOK
  <2>3. ReadOK(q)'
    BY DEF RunOK, ReadOK
  <2>4. KnownOK(q)'
    BY <1>1 DEF RunOK, KnownOK
  <2>5. QED
    BY <2>1, <2>2, <2>3, <2>4
<1>3. QED
  BY <1>2 DEF RunOK

LEMMA CancelKeeps ==
    ASSUME NEW q \in RunStates, RunOK(q), NEW b \in BOOLEAN, b \/ q.pc = "idle"
    PROVE  LET p == [q EXCEPT !.cancelled = b] IN p \in RunStates /\ RunOK(p)
<1> DEFINE p == [q EXCEPT !.cancelled = b]
<1>1. /\ p \in RunStates /\ p.pc = q.pc /\ p.after = q.after /\ p.inbox = q.inbox
      /\ p.outbox = q.outbox /\ p.got = q.got /\ p.known = q.known /\ p.cancelled = b
  BY DEF RunStates
<1> HIDE DEF p
<1>2. CarriesOK(p) /\ CoversOK(p)
  BY <1>1 DEF RunOK, CarriesOK, CoversOK
<1>3. ReadOK(p)
  BY <1>1 DEF RunOK, ReadOK
<1>4. KnownOK(p)
  BY <1>1 DEF RunOK, KnownOK
<1>5. QED
  BY <1>1, <1>2, <1>3, <1>4 DEF RunOK, p

\* What a step of one run leaves to be shown.
LEMMA OneRun ==
    ASSUME IInv, NEW r \in Runs, NEW p \in RunStates, RunOK(p)',
           run' = [run EXCEPT ![r] = p], messages' = messages, raced' = raced,
           received \subseteq received', received' \subseteq Mine,
           checkpoint' \in Ids \cup {0}, checkpoint' <= Len(messages), CursorCovers'
    PROVE  IInv'
<1>1. run \in [Runs -> RunStates]
  BY DEF IInv, TypeOK
<1>2. Mine' = Mine
  BY DEF Mine
<1>3. TypeOK'
  BY <1>1, <1>2 DEF IInv, TypeOK
<1>4. ASSUME NEW s \in Runs PROVE RunOK(run[s])'
  <2>1. CASE s = r
    BY <1>1, <2>1
  <2>2. CASE s # r
    <3>1. PICK q : q = run[s]
      OBVIOUS
    <3>2. RunOK(q)'
      BY <3>1, OthersStay DEF IInv
    <3>3. run'[s] = q
      BY <1>1, <2>2, <3>1
    <3>4. QED
      BY <3>2, <3>3
  <2>3. QED
    BY <2>1, <2>2
<1>5. QED
  BY <1>3, <1>4 DEF IInv

\* The shared cursor and the threads are as before.
LEMMA CursorStays ==
    ASSUME IInv, messages' = messages, raced' = raced, received \subseteq received',
           checkpoint' = checkpoint
    PROVE  checkpoint' \in Ids \cup {0} /\ checkpoint' <= Len(messages) /\ CursorCovers'
<1>1. Mine' = Mine /\ \A id : Overtaken(id)' <=> Overtaken(id)
  BY DEF Mine, Overtaken
<1>2. QED
  BY <1>1 DEF IInv, TypeOK, CursorCovers

-----------------------------------------------------------------------------
(* The two reads and the page.                                             *)

\* A page passes over no message but an overtaken one.
LEMMA PageCovers ==
    ASSUME TypeOK, NEW q \in RunStates, RunOK(q), q.pc = "page",
           NEW h \in Page(q), NEW id \in Mine, id > q.after, id <= h
    PROVE  id \in Page(q) \/ Overtaken(id)
<1> DEFINE page == Page(q)
<1>1. /\ Len(messages) \in Nat /\ Limit \in Nat /\ FetchLimit = Limit + 1
      /\ Merged(q) \in SUBSET (1..Len(messages))
      /\ q.inbox \in SUBSET (1..Len(messages)) /\ q.outbox \in SUBSET (1..Len(messages))
      /\ q.outbox \subseteq OutboxOf(messages, Me)
      /\ id \in Nat
  BY TableFacts, RunFacts
<1>2. /\ page \subseteq Merged(q) /\ Cardinality(page) <= Limit
      /\ \A x \in Merged(q) \ page, y \in page : y < x
  BY <1>1, OldestFacts DEF Page
<1> HIDE DEF page
<1>3. h \in page /\ h \in Merged(q) /\ h \in Nat
  BY <1>1, <1>2 DEF page
<1>4. Merged(q) = q.inbox \cup q.outbox
  BY DEF Merged
<1>5. CASE id \in Merged(q)
  <2>1. ~(h < id)
    BY <1>1, <1>3
  <2>2. id \in page
    BY <1>2, <1>3, <1>5, <2>1
  <2>3. QED
    BY <2>2 DEF page
<1>6. ASSUME NEW part, part \in {q.inbox, q.outbox}, id \notin Merged(q),
             \A x \in part : x < id
      PROVE  Cardinality(part) # FetchLimit
  <2>1. ASSUME NEW x \in part PROVE x \in page
    <3>1. x \in Merged(q) /\ x \in Nat /\ x < id
      BY <1>1, <1>4, <1>6
    <3>2. ~(h < x)
      BY <1>1, <1>3, <3>1
    <3>3. QED
      BY <1>2, <1>3, <3>1, <3>2
  <2>2. part \in SUBSET page /\ page \in SUBSET (1..Len(messages)) /\ part \in SUBSET (1..Len(messages))
    BY <1>1, <1>2, <1>6, <2>1
  <2>3. Cardinality(part) <= Cardinality(page)
    BY <1>1, <2>2, SmallerSet
  <2>4. Cardinality(part) \in Nat /\ Cardinality(page) \in Nat
    BY <1>1, <2>2, FiniteBelow
  <2>5. QED
    BY <1>1, <1>2, <2>3, <2>4
<1>7. CASE id \notin Merged(q) /\ id \in InboxOf(messages, Me)
  <2>1. /\ \A x \in q.inbox : x < id
        /\ \/ Cardinality(q.inbox) = FetchLimit
           \/ id \in raced
           \/ \A x \in q.outbox : x < id
    BY <1>4, <1>7 DEF RunOK, ReadOK
  <2>2. Cardinality(q.inbox) # FetchLimit
    BY <1>6, <1>7, <2>1
  <2>3. CASE \A x \in q.outbox : x < id
    BY <1>1, <1>3, <1>4, <2>1, <2>3
  <2>4. CASE id \in raced /\ \E x \in q.outbox : ~(x < id)
    <3>1. PICK own \in q.outbox : ~(own < id)
      BY <2>4
    <3>2. own \in Nat /\ own # id
      BY <1>1, <1>4, <1>7, <3>1
    <3>3. own > id
      BY <1>1, <3>1, <3>2
    <3>4. QED
      BY <1>1, <2>4, <3>3 DEF Overtaken
  <2>5. QED
    BY <2>1, <2>2, <2>3, <2>4
<1>8. CASE id \notin Merged(q) /\ id \in OutboxOf(messages, Me)
  <2>1. /\ \A x \in q.outbox : x < id
        /\ Cardinality(q.outbox) = FetchLimit \/ \A x \in q.inbox : x < id
    BY <1>4, <1>8 DEF RunOK, ReadOK
  <2>2. Cardinality(q.outbox) # FetchLimit
    BY <1>6, <1>8, <2>1
  <2>3. QED
    BY <1>1, <1>3, <1>4, <2>1, <2>2
<1>9. QED
  BY <1>5, <1>7, <1>8, TableFacts

LEMMA ReadInboxOK ==
    ASSUME IInv, NEW r \in Runs, ReadInbox(r)
    PROVE  IInv'
<1>1. TypeOK /\ run[r] \in RunStates /\ RunOK(run[r]) /\ received \subseteq Mine
  BY DEF IInv, TypeOK
<1>2. PICK q : q = run[r]
  OBVIOUS
<1>3. q \in RunStates /\ RunOK(q) /\ q.pc = "inbox" /\ q.after \in Nat
  BY <1>1, <1>2, RunFacts DEF ReadInbox
<1> DEFINE ids == {id \in InboxOf(messages, Me) : id > q.after}
           read == Oldest(ids, FetchLimit)
<1>4. ids \in SUBSET (1..Len(messages)) /\ Len(messages) \in Nat /\ FetchLimit \in Nat
      /\ ids \subseteq Ids
  BY <1>1, TableFacts DEF Table
<1>5. /\ read \subseteq ids
      /\ \A x \in ids \ read, y \in read : y < x
      /\ read # ids => Cardinality(read) = FetchLimit
  BY <1>4, OldestFacts
<1>6. PICK p : p = [q EXCEPT !.pc = "outbox", !.inbox = read]
  OBVIOUS
<1> HIDE DEF read
<1>7. /\ p \in RunStates /\ p.pc = "outbox" /\ p.inbox = read /\ p.after = q.after
      /\ p.outbox = q.outbox /\ p.got = q.got /\ p.known = q.known
  BY <1>3, <1>4, <1>5, <1>6 DEF RunStates
<1>8. /\ run' = [run EXCEPT ![r] = p] /\ messages' = messages /\ raced' = raced
      /\ received' = received /\ checkpoint' = checkpoint
  <2>1. run' = [run EXCEPT ![r].pc = "outbox", ![r].inbox = read]
    BY <1>2 DEF ReadInbox, read
  <2>2. QED
    BY <1>1, <1>2, <1>6, <2>1 DEF ReadInbox, IInv, TypeOK
<1>9. CarriesOK(p) /\ CoversOK(p)
  <2>1. CarriesOK(p)
    BY <1>3, <1>5, <1>7 DEF RunOK, CarriesOK
  <2>2. CoversOK(p)
    BY <1>3, <1>7 DEF RunOK, CoversOK
  <2>3. QED
    BY <2>1, <2>2
<1>10. ReadOK(p)
  <2>1. ASSUME NEW id \in InboxOf(messages, Me), id > p.after, id \notin p.inbox
        PROVE  (\A x \in p.inbox : x < id) /\ Cardinality(p.inbox) = FetchLimit
    BY <1>5, <1>7, <2>1
  <2>2. QED
    BY <1>7, <2>1 DEF ReadOK
<1>11. KnownOK(p)
  BY <1>5, <1>7 DEF KnownOK
<1>12. RunOK(p)'
  <2>1. RunOK(p)
    BY <1>9, <1>10, <1>11 DEF RunOK
  <2>2. QED
    BY <1>8, <2>1, OthersStay
<1>13. QED
  BY <1>1, <1>7, <1>8, <1>12, OneRun, CursorStays

LEMMA ReadOutboxOK ==
    ASSUME IInv, NEW r \in Runs, ReadOutbox(r)
    PROVE  IInv'
<1>1. TypeOK /\ run[r] \in RunStates /\ RunOK(run[r]) /\ received \subseteq Mine
  BY DEF IInv, TypeOK
<1>2. PICK q : q = run[r]
  OBVIOUS
<1>3. q \in RunStates /\ RunOK(q) /\ q.pc = "outbox" /\ q.after \in Nat
  BY <1>1, <1>2, RunFacts DEF ReadOutbox
<1> DEFINE ids == {id \in OutboxOf(messages, Me) : id > q.after}
           read == Oldest(ids, FetchLimit)
<1>4. ids \in SUBSET (1..Len(messages)) /\ Len(messages) \in Nat /\ FetchLimit \in Nat
      /\ ids \subseteq Ids
  BY <1>1, TableFacts DEF Table
<1>5. /\ read \subseteq ids
      /\ \A x \in ids \ read, y \in read : y < x
      /\ read # ids => Cardinality(read) = FetchLimit
  BY <1>4, OldestFacts
<1>6. PICK p : p = [q EXCEPT !.pc = "page", !.outbox = read]
  OBVIOUS
<1> HIDE DEF read
<1>7. /\ p \in RunStates /\ p.pc = "page" /\ p.outbox = read /\ p.after = q.after
      /\ p.inbox = q.inbox /\ p.got = q.got /\ p.known = q.known
  BY <1>3, <1>4, <1>5, <1>6 DEF RunStates
<1>8. /\ run' = [run EXCEPT ![r] = p] /\ messages' = messages /\ raced' = raced
      /\ received' = received /\ checkpoint' = checkpoint
  <2>1. run' = [run EXCEPT ![r].pc = "page", ![r].outbox = read]
    BY <1>2 DEF ReadOutbox, read
  <2>2. QED
    BY <1>1, <1>2, <1>6, <2>1 DEF ReadOutbox, IInv, TypeOK
<1>9. CarriesOK(p)
  BY <1>3, <1>5, <1>7 DEF RunOK, CarriesOK
<1>10. CoversOK(p)
  BY <1>3, <1>7 DEF RunOK, CoversOK
<1>11. ReadOK(p)
  <2>1. ASSUME NEW id \in InboxOf(messages, Me), id > p.after, id \notin p.inbox
        PROVE  (\A x \in p.inbox : x < id) /\ (Cardinality(p.inbox) = FetchLimit \/ id \in raced)
    BY <1>3, <1>7, <2>1 DEF RunOK, ReadOK
  <2>2. ASSUME NEW id \in OutboxOf(messages, Me), id > p.after, id \notin p.outbox
        PROVE  (\A x \in p.outbox : x < id) /\ Cardinality(p.outbox) = FetchLimit
    BY <1>5, <1>7, <2>2
  <2>3. QED
    BY <1>7, <2>1, <2>2 DEF ReadOK
<1>12. KnownOK(p)
  <2>1. ASSUME NEW id \in p.known \cap InboxOf(messages, Me), id > p.after, id \notin p.inbox
        PROVE  Cardinality(p.inbox) = FetchLimit
    BY <1>3, <1>7, <2>1 DEF RunOK, KnownOK
  <2>2. ASSUME NEW id \in OutboxOf(messages, Me), id > p.after, id \notin p.outbox
        PROVE  Cardinality(p.outbox) = FetchLimit
    BY <1>5, <1>7, <2>2
  <2>3. QED
    BY <1>7, <2>1, <2>2 DEF KnownOK
<1>13. RunOK(p)'
  <2>1. RunOK(p)
    BY <1>9, <1>10, <1>11, <1>12 DEF RunOK
  <2>2. QED
    BY <1>8, <2>1, OthersStay
<1>14. QED
  BY <1>1, <1>7, <1>8, <1>13, OneRun, CursorStays

\* The cursor of a run after a page, and what a last page holds.
LEMMA PageEnds ==
    ASSUME TypeOK, NEW q \in RunStates, RunOK(q), q.pc = "page"
    PROVE  /\ Page(q) \subseteq Merged(q)
           /\ NextAfterID(q) \in Ids \cup {0} /\ NextAfterID(q) <= Len(messages)
           /\ \A id \in Mine : id > q.after /\ id <= NextAfterID(q) => id \in Page(q) \/ Overtaken(id)
           /\ ~HasMore(q) => Page(q) = Merged(q)
           /\ ~HasMore(q) => Cardinality(q.inbox) # FetchLimit /\ Cardinality(q.outbox) # FetchLimit
<1>1. /\ Len(messages) \in Nat /\ Limit \in Nat /\ FetchLimit = Limit + 1
      /\ Merged(q) \in SUBSET (1..Len(messages)) /\ Merged(q) \subseteq Mine /\ Mine \subseteq Ids
      /\ q.after \in Ids \cup {0} /\ q.after <= Len(messages)
      /\ \A id \in Mine : id \in Nat
  BY TableFacts, RunFacts DEF RunStates
<1>2. /\ Page(q) \subseteq Merged(q)
      /\ Cardinality(Merged(q)) <= Limit => Page(q) = Merged(q)
  BY <1>1, OldestFacts DEF Page
<1>3. Cardinality(Merged(q)) \in Nat
  BY <1>1, FiniteBelow
<1>4. /\ NextAfterID(q) \in Ids \cup {0} /\ NextAfterID(q) <= Len(messages)
      /\ \A id \in Mine : id > q.after /\ id <= NextAfterID(q) => id \in Page(q) \/ Overtaken(id)
  <2>1. CASE Page(q) = {}
    <3>1. NextAfterID(q) = q.after /\ q.after \in Nat
      BY <1>1, <2>1 DEF NextAfterID, Ids
    <3>2. QED
      BY <1>1, <3>1
  <2>2. CASE Page(q) # {}
    <3>1. Page(q) \in SUBSET (0..Len(messages))
      BY <1>1, <1>2
    <3>2. NextAfterID(q) \in Page(q)
      BY <1>1, <2>2, <3>1, GreatestElement DEF NextAfterID, Highest
    <3>3. NextAfterID(q) \in Ids \cup {0} /\ NextAfterID(q) <= Len(messages)
      BY <1>1, <1>2, <3>1, <3>2
    <3>4. ASSUME NEW id \in Mine, id > q.after, id <= NextAfterID(q)
          PROVE  id \in Page(q) \/ Overtaken(id)
      BY <3>2, <3>4, PageCovers
    <3>5. QED
      BY <3>3, <3>4
  <2>3. QED
    BY <2>1, <2>2
<1>5. ASSUME ~HasMore(q)
      PROVE  /\ Page(q) = Merged(q)
             /\ Cardinality(q.inbox) # FetchLimit /\ Cardinality(q.outbox) # FetchLimit
  <2>1. Cardinality(Merged(q)) <= Limit
    BY <1>1, <1>3, <1>5 DEF HasMore
  <2>2. ASSUME NEW part \in SUBSET Merged(q) PROVE Cardinality(part) # FetchLimit
    <3>1. Cardinality(part) <= Cardinality(Merged(q)) /\ part \in SUBSET (1..Len(messages))
      BY <1>1, SmallerSet
    <3>2. Cardinality(part) \in Nat
      BY <1>1, <3>1, FiniteBelow
    <3>3. QED
      BY <1>1, <1>3, <2>1, <3>1, <3>2
  <2>3. q.inbox \in SUBSET Merged(q) /\ q.outbox \in SUBSET Merged(q)
    BY DEF Merged
  <2>4. QED
    BY <1>2, <2>1, <2>2, <2>3
<1>6. QED
  BY <1>2, <1>4, <1>5

LEMMA TakePageOK ==
    ASSUME IInv, NEW r \in Runs, TakePage(r)
    PROVE  IInv'
<1>1. TypeOK /\ run[r] \in RunStates /\ RunOK(run[r]) /\ received \subseteq Mine
  BY DEF IInv, TypeOK
<1>2. PICK q : q = run[r]
  OBVIOUS
<1>3. q \in RunStates /\ RunOK(q) /\ q.pc = "page" /\ q.after \in Nat
  BY <1>1, <1>2, RunFacts DEF TakePage
<1>4. PICK page, next, more : page = Page(q) /\ next = NextAfterID(q) /\ more = HasMore(q)
  OBVIOUS
<1>5. /\ page \subseteq Merged(q) /\ Merged(q) \subseteq Mine /\ Mine \subseteq Ids
      /\ next \in Ids \cup {0} /\ next <= Len(messages)
      /\ \A id \in Mine : id > q.after /\ id <= next => id \in page \/ Overtaken(id)
      /\ ~more => page = Merged(q)
      /\ ~more => Cardinality(q.inbox) # FetchLimit /\ Cardinality(q.outbox) # FetchLimit
      /\ \A id \in Mine : id \in Nat
  BY <1>1, <1>3, <1>4, PageEnds, RunFacts, TableFacts
<1>6. PICK p : p = Loop(q)
  OBVIOUS
<1>7. /\ p \in RunStates /\ p.pc = (IF more /\ ~q.cancelled THEN "inbox" ELSE "apply")
      /\ p.after = next /\ p.inbox = {} /\ p.outbox = {} /\ p.got = q.got \cup page
      /\ p.known = q.known /\ p.cancelled = q.cancelled
  BY <1>3, <1>4, <1>5, <1>6 DEF RunStates, Loop
<1>8. /\ run' = [run EXCEPT ![r] = p] /\ messages' = messages /\ raced' = raced
      /\ received' = received /\ checkpoint' = checkpoint
  BY <1>1, <1>2, <1>6 DEF TakePage, IInv, TypeOK
<1>9. CarriesOK(p)
  BY <1>3, <1>5, <1>7 DEF RunOK, CarriesOK
<1>10. \A id \in Mine : id <= q.after => id \in received \cup q.got \/ Overtaken(id)
  BY <1>3 DEF RunOK, CoversOK
<1>11. CoversOK(p)
  <2>1. ASSUME NEW id \in Mine, id <= next PROVE id \in received \cup p.got \/ Overtaken(id)
    <3>1. CASE id <= q.after
      BY <1>7, <1>10, <3>1
    <3>2. CASE id > q.after
      BY <1>5, <1>7, <2>1, <3>2
    <3>3. QED
      BY <1>3, <1>5, <3>1, <3>2
  <2>2. QED
    BY <1>7, <2>1 DEF CoversOK
<1>12. ReadOK(p)
  BY <1>7 DEF ReadOK
<1>13. KnownOK(p)
  <2>1. ASSUME p.pc = "apply", ~p.cancelled, NEW id \in p.known
        PROVE  id \in received \cup p.got \/ Overtaken(id)
    <3>1. id \in Mine /\ id \in q.known
      BY <1>3, <1>7, <2>1 DEF RunOK, CarriesOK
    <3>2. CASE id <= q.after
      BY <1>7, <1>10, <3>1, <3>2
    <3>3. CASE id > q.after
      <4>1. ~more
        BY <1>7, <2>1
      <4>2. id \in q.inbox \/ id \in q.outbox
        BY <1>3, <1>5, <3>1, <3>3, <4>1, <1>1, TableFacts DEF RunOK, KnownOK
      <4>3. QED
        BY <1>5, <1>7, <4>1, <4>2 DEF Merged
    <3>4. QED
      BY <1>3, <1>5, <3>1, <3>2, <3>3
  <2>2. QED
    BY <1>7, <2>1 DEF KnownOK
<1>14. RunOK(p)'
  <2>1. RunOK(p)
    BY <1>9, <1>11, <1>12, <1>13 DEF RunOK
  <2>2. QED
    BY <1>8, <2>1, OthersStay
<1>15. QED
  BY <1>1, <1>7, <1>8, <1>14, OneRun, CursorStays

-----------------------------------------------------------------------------
(* The start and the end of a run.                                         *)

LEMMA StartRunOK ==
    ASSUME IInv, NEW r \in Runs, StartRun(r)
    PROVE  IInv'
<1>1. TypeOK /\ run \in [Runs -> RunStates] /\ received \subseteq Mine /\ CursorCovers
      /\ checkpoint \in Ids \cup {0} /\ checkpoint <= Len(messages)
  BY DEF IInv, TypeOK
<1>2. /\ messages' = messages /\ raced' = raced /\ received' = received /\ checkpoint' = checkpoint
      /\ run' = [s \in Runs |-> IF s = r
                              THEN [IdleRun EXCEPT !.pc = "inbox", !.after = checkpoint, !.known = Mine]
                              ELSE [run[s] EXCEPT !.cancelled = (run[s].pc # "idle")]]
  BY DEF StartRun
<1>3. ASSUME NEW s \in Runs
      PROVE  run'[s] \in RunStates /\ RunOK(run[s])'
  <2>1. CASE s = r
    <3>1. PICK p : p = [IdleRun EXCEPT !.pc = "inbox", !.after = checkpoint, !.known = Mine]
      OBVIOUS
    <3>2. /\ p.pc = "inbox" /\ p.after = checkpoint /\ p.inbox = {} /\ p.outbox = {}
          /\ p.got = {} /\ p.known = Mine /\ p.cancelled = FALSE
      BY <3>1 DEF IdleRun
    <3>3. p \in RunStates
      <4>1. IdleRun \in RunStates /\ Mine \subseteq Ids
        BY <1>1, IdleOK, TableFacts
      <4>2. QED
        BY <1>1, <3>1, <4>1 DEF RunStates
    <3>4. RunOK(p)
      BY <1>1, <3>2 DEF RunOK, CarriesOK, CoversOK, ReadOK, KnownOK, CursorCovers
    <3>5. RunOK(p)'
      BY <1>2, <3>4, OthersStay
    <3>6. run'[s] = p
      BY <1>2, <2>1, <3>1
    <3>7. QED
      BY <3>3, <3>5, <3>6
  <2>2. CASE s # r
    <3>1. PICK q : q = run[s]
      OBVIOUS
    <3>2. q \in RunStates /\ RunOK(q)
      BY <1>1, <3>1 DEF IInv
    <3>3. PICK p : p = [q EXCEPT !.cancelled = (q.pc # "idle")]
      OBVIOUS
    <3>4. p \in RunStates /\ RunOK(p)
      BY <3>2, <3>3, CancelKeeps
    <3>5. RunOK(p)'
      BY <1>2, <3>4, OthersStay
    <3>6. run'[s] = p
      BY <1>2, <2>2, <3>1, <3>3
    <3>7. QED
      BY <3>4, <3>5, <3>6
  <2>3. QED
    BY <2>1, <2>2
<1>4. TypeOK'
  <2>1. run' \in [Runs -> RunStates]
    BY <1>2, <1>3
  <2>2. Mine' = Mine
    BY <1>2 DEF Mine
  <2>3. QED
    BY <1>1, <1>2, <2>1, <2>2 DEF TypeOK
<1>5. QED
  BY <1>2, <1>3, <1>4, CursorStays DEF IInv

LEMMA CancelOK ==
    ASSUME IInv, NEW r \in Runs, Cancel(r)
    PROVE  IInv'
<1>1. TypeOK /\ run[r] \in RunStates /\ RunOK(run[r]) /\ received \subseteq Mine
  BY DEF IInv, TypeOK
<1>2. PICK q : q = run[r]
  OBVIOUS
<1>3. PICK p : p = [q EXCEPT !.cancelled = TRUE]
  OBVIOUS
<1>4. p \in RunStates /\ RunOK(p)
  BY <1>1, <1>2, <1>3, CancelKeeps
<1>5. /\ run' = [run EXCEPT ![r] = p] /\ messages' = messages /\ raced' = raced
      /\ received' = received /\ checkpoint' = checkpoint
  BY <1>1, <1>2, <1>3 DEF Cancel, IInv, TypeOK
<1>6. RunOK(p)'
  BY <1>4, <1>5, OthersStay
<1>7. QED
  BY <1>1, <1>4, <1>5, <1>6, OneRun, CursorStays

\* A run that ends without touching the threads.
LEMMA EndsIdle ==
    ASSUME IInv, NEW r \in Runs, run' = [run EXCEPT ![r] = IdleRun],
           messages' = messages, raced' = raced, received' = received,
           checkpoint' \in Ids \cup {0}, checkpoint' <= Len(messages), CursorCovers'
    PROVE  IInv'
<1>1. received \subseteq Mine
  BY DEF IInv, TypeOK
<1>2. QED
  BY <1>1, IdleOK, OneRun

LEMMA ApplyOK ==
    ASSUME IInv, NEW r \in Runs, Apply(r)
    PROVE  IInv'
<1>1. TypeOK /\ run[r] \in RunStates /\ RunOK(run[r]) /\ received \subseteq Mine
  BY DEF IInv, TypeOK
<1>2. messages' = messages /\ raced' = raced /\ checkpoint' = checkpoint
  BY DEF Apply
<1>3. CASE run[r].cancelled
  <2>1. run' = [run EXCEPT ![r] = IdleRun] /\ received' = received
    BY <1>3 DEF Apply
  <2>2. QED
    BY <1>2, <2>1, CursorStays, EndsIdle
<1>4. CASE ~run[r].cancelled
  <2>1. PICK q : q = run[r]
    OBVIOUS
  <2>2. PICK p : p = [q EXCEPT !.pc = "commit"]
    OBVIOUS
  <2>3. /\ q \in RunStates /\ RunOK(q) /\ q.pc = "apply" /\ ~q.cancelled
        /\ received' = received \cup q.got
    BY <1>1, <1>4, <2>1 DEF Apply
  <2>4. /\ p \in RunStates /\ p.pc = "commit" /\ p.after = q.after /\ p.inbox = q.inbox
        /\ p.outbox = q.outbox /\ p.got = q.got /\ p.known = q.known
    BY <2>2, <2>3 DEF RunStates
  <2>5. run' = [run EXCEPT ![r] = p]
    BY <1>1, <1>4, <2>1, <2>2 DEF Apply, IInv, TypeOK
  <2>6. Mine' = Mine /\ \A id : Overtaken(id)' <=> Overtaken(id)
    BY <1>2 DEF Mine, Overtaken
  <2>7. q.got \subseteq Mine
    BY <2>3 DEF RunOK, CarriesOK
  <2>8. CarriesOK(p)'
    BY <1>2, <2>3, <2>4, <2>6 DEF RunOK, CarriesOK
  <2>9. CoversOK(p)'
    BY <2>3, <2>4, <2>6 DEF RunOK, CoversOK
  <2>10. ReadOK(p)'
    BY <2>4 DEF ReadOK
  <2>11. KnownOK(p)'
    <3>1. \A id \in q.known : id \in received \cup q.got \/ Overtaken(id)
      BY <2>3 DEF RunOK, KnownOK
    <3>2. QED
      BY <2>3, <2>4, <2>6, <3>1 DEF KnownOK
  <2>12. RunOK(p)'
    BY <2>8, <2>9, <2>10, <2>11 DEF RunOK
  <2>13. received \subseteq received' /\ received' \subseteq Mine
    BY <1>1, <2>3, <2>7
  <2>14. QED
    BY <1>2, <2>4, <2>5, <2>12, <2>13, OneRun, CursorStays
<1>5. QED
  BY <1>3, <1>4

\* The cursor a run writes covers everything up to it, though another run may
\* have written a higher one meanwhile.
LEMMA CommitOK ==
    ASSUME IInv, NEW r \in Runs, Commit(r)
    PROVE  IInv'
<1>1. TypeOK /\ run[r] \in RunStates /\ RunOK(run[r])
  BY DEF IInv, TypeOK
<1>2. /\ messages' = messages /\ raced' = raced /\ received' = received
      /\ checkpoint' = run[r].after /\ run' = [run EXCEPT ![r] = IdleRun] /\ run[r].pc = "commit"
  BY DEF Commit
<1>3. Mine' = Mine /\ \A id : Overtaken(id)' <=> Overtaken(id)
  BY <1>2 DEF Mine, Overtaken
<1>4. \A id \in Mine : id <= run[r].after => id \in received \/ Overtaken(id)
  BY <1>1, <1>2 DEF RunOK, CoversOK, CarriesOK
<1>5. CursorCovers'
  BY <1>2, <1>3, <1>4 DEF CursorCovers
<1>6. checkpoint' \in Ids \cup {0} /\ checkpoint' <= Len(messages)
  BY <1>1, <1>2 DEF RunStates, RunOK, CarriesOK
<1>7. QED
  BY <1>2, <1>5, <1>6, EndsIdle

LEMMA FailOK ==
    ASSUME IInv, NEW r \in Runs, Fail(r)
    PROVE  IInv'
BY CursorStays, EndsIdle DEF Fail

-----------------------------------------------------------------------------
(* A message is stored.                                                    *)

LEMMA SendOK ==
    ASSUME IInv, NEW from \in Users, NEW to \in Users, Send(from, to)
    PROVE  IInv'
<1>1. PICK n : n = Len(messages) + 1
  OBVIOUS
<1>2. /\ TypeOK /\ messages \in Seq([from : Users, to : Users]) /\ Len(messages) \in Nat
      /\ Len(messages) < MaxMessages /\ MaxMessages \in Nat /\ n \in Nat /\ n \in Ids
      /\ \A id \in Mine : id \in Nat /\ id < n
  BY <1>1, TableFacts, ConstantsAssumption DEF IInv, TypeOK, Send, Ids, Table
<1>3. /\ messages' \in Seq([from : Users, to : Users]) /\ Len(messages') = n
      /\ DOMAIN messages' = (DOMAIN messages) \cup {n} /\ n \notin DOMAIN messages
      /\ messages'[n] = [from |-> from, to |-> to]
      /\ \A id \in DOMAIN messages : messages'[id] = messages[id]
  BY <1>1, <1>2 DEF Send, SaveDirectMessage
<1>4. /\ run' = run /\ checkpoint' = checkpoint /\ received' = received
      /\ raced' = IF to = Me /\ \E r \in Runs : run[r].pc = "outbox" THEN raced \cup {n} ELSE raced
  BY <1>3 DEF Send
<1>5. /\ InboxOf(messages', Me) = InboxOf(messages, Me) \cup (IF to = Me THEN {n} ELSE {})
      /\ OutboxOf(messages', Me) = OutboxOf(messages, Me) \cup (IF from = Me THEN {n} ELSE {})
  BY <1>3 DEF InboxOf, OutboxOf
<1>6. /\ Mine \subseteq Mine' /\ \A id \in Mine' : id \in Mine \/ id = n
      /\ \A id : Overtaken(id) => Overtaken(id)'
  <2>1. Mine' = InboxOf(messages', Me) \cup OutboxOf(messages', Me)
    BY DEF Mine
  <2>2. Mine \subseteq Mine' /\ \A id \in Mine' : id \in Mine \/ id = n
    BY <1>5, <2>1 DEF Mine
  <2>3. raced \subseteq raced' /\ OutboxOf(messages, Me) \subseteq OutboxOf(messages', Me)
    BY <1>4, <1>5
  <2>4. \A id : Overtaken(id) => Overtaken(id)'
    BY <2>3 DEF Overtaken
  <2>5. QED
    BY <2>2, <2>4
<1>7. TypeOK'
  <2>1. received' \subseteq Mine' /\ raced' \subseteq InboxOf(messages', Me)
    BY <1>2, <1>4, <1>5, <1>6 DEF TypeOK
  <2>2. Len(messages') <= MaxMessages
    BY <1>1, <1>2, <1>3
  <2>3. QED
    BY <1>2, <1>3, <1>4, <2>1, <2>2 DEF TypeOK
<1>8. checkpoint \in Nat /\ checkpoint <= Len(messages) /\ checkpoint < n
  BY <1>1, <1>2 DEF IInv, TypeOK, Ids
<1>9. CursorCovers'
  <2>1. ASSUME NEW id \in Mine', id <= checkpoint PROVE id \in received \/ Overtaken(id)'
    <3>1. id \in Mine
      BY <1>2, <1>6, <1>8, <2>1
    <3>2. QED
      BY <1>6, <2>1, <3>1 DEF IInv, CursorCovers
  <2>2. QED
    BY <1>4, <2>1 DEF CursorCovers
<1>10. ASSUME NEW r \in Runs PROVE RunOK(run[r])'
  <2>1. PICK q : q = run[r]
    OBVIOUS
  <2>2. q \in RunStates /\ RunOK(q)
    BY <1>2, <2>1 DEF IInv, TypeOK
  <2>3. /\ q.after \in Nat /\ q.after < n
        /\ q.inbox \subseteq InboxOf(messages, Me) /\ \A x \in q.inbox : x < n
        /\ q.outbox \subseteq OutboxOf(messages, Me) /\ \A x \in q.outbox : x < n
        /\ q.known \subseteq Mine
    <3>1. q.after \in Nat /\ q.after <= Len(messages)
      BY <1>2, <2>2, RunFacts
    <3>2. /\ q.inbox \subseteq InboxOf(messages, Me) /\ q.outbox \subseteq OutboxOf(messages, Me)
          /\ InboxOf(messages, Me) \subseteq Mine /\ OutboxOf(messages, Me) \subseteq Mine
      BY <1>2, <2>2, RunFacts, TableFacts
    <3>3. q.known \subseteq Mine
      BY <2>2 DEF RunOK, CarriesOK
    <3>4. QED
      BY <1>1, <1>2, <3>1, <3>2, <3>3
  <2>4. CarriesOK(q)'
    <3>1. /\ q.got \subseteq Mine /\ \A id \in q.inbox : id > q.after
          /\ \A id \in q.outbox : id > q.after
          /\ q.pc = "commit" => q.got \subseteq received
      BY <2>2 DEF RunOK, CarriesOK
    <3>2. q.after <= Len(messages')
      BY <1>2, <1>3, <2>3
    <3>3. q.got \subseteq Mine' /\ q.known \subseteq Mine'
      BY <1>6, <2>3, <3>1
    <3>4. q.inbox \subseteq InboxOf(messages', Me) /\ q.outbox \subseteq OutboxOf(messages', Me)
      BY <1>5, <2>3
    <3>5. q.pc = "commit" => q.got \subseteq received'
      BY <1>4, <3>1
    <3>6. QED
      BY <3>1, <3>2, <3>3, <3>4, <3>5 DEF CarriesOK
  <2>5. CoversOK(q)'
    <3>1. ASSUME q.pc # "idle", NEW id \in Mine', id <= q.after
          PROVE  id \in received \cup q.got \/ Overtaken(id)'
      <4>1. id \in Mine
        BY <1>2, <1>6, <2>3, <3>1
      <4>2. QED
        BY <1>6, <2>2, <3>1, <4>1 DEF RunOK, CoversOK
    <3>2. QED
      BY <1>4, <3>1 DEF CoversOK
  <2>6. ReadOK(q)'
    <3>1. ASSUME q.pc \in {"outbox", "page"}, NEW id \in InboxOf(messages', Me),
                 id > q.after, id \notin q.inbox
          PROVE  /\ \A x \in q.inbox : x < id
                 /\ \/ Cardinality(q.inbox) = FetchLimit
                    \/ id \in raced'
                    \/ q.pc = "page" /\ \A x \in q.outbox : x < id
      <4>1. CASE id \in InboxOf(messages, Me)
        BY <1>4, <2>2, <3>1, <4>1 DEF RunOK, ReadOK
      <4>2. CASE id = n /\ to = Me
        <5>1. q.pc = "outbox" => n \in raced'
          BY <1>4, <2>1, <4>2
        <5>2. QED
          BY <2>3, <3>1, <4>2, <5>1
      <4>3. QED
        BY <1>5, <4>1, <4>2
    <3>2. ASSUME q.pc = "page", NEW id \in OutboxOf(messages', Me), id > q.after, id \notin q.outbox
          PROVE  /\ \A x \in q.outbox : x < id
                 /\ Cardinality(q.outbox) = FetchLimit \/ \A x \in q.inbox : x < id
      <4>1. CASE id \in OutboxOf(messages, Me)
        BY <2>2, <3>2, <4>1 DEF RunOK, ReadOK
      <4>2. CASE id = n
        BY <2>3, <4>2
      <4>3. QED
        BY <1>5, <4>1, <4>2
    <3>3. QED
      BY <3>1, <3>2 DEF ReadOK
  <2>7. KnownOK(q)'
    <3>1. \A id \in q.known : id # n
      BY <1>2, <2>3
    <3>2. /\ \A id \in q.known \cap InboxOf(messages', Me) : id \in InboxOf(messages, Me)
          /\ \A id \in q.known \cap OutboxOf(messages', Me) : id \in OutboxOf(messages, Me)
      BY <1>5, <3>1
    <3>3. QED
      BY <1>4, <1>6, <2>2, <3>2 DEF RunOK, KnownOK
  <2>8. RunOK(q)'
    BY <2>4, <2>5, <2>6, <2>7 DEF RunOK
  <2>9. run'[r] = q
    BY <1>4, <2>1
  <2>10. QED
    BY <2>8, <2>9
<1>11. QED
  BY <1>3, <1>4, <1>7, <1>8, <1>9, <1>10 DEF IInv

-----------------------------------------------------------------------------
(* The theorems.                                                           *)

LEMMA Initially == Init => IInv
<1> SUFFICES ASSUME Init PROVE IInv
  OBVIOUS
<1>1. messages = <<>> /\ Len(messages) = 0 /\ DOMAIN messages = {}
  BY DEF Init
<1>2. Mine = {} /\ InboxOf(messages, Me) = {}
  BY <1>1 DEF Mine, InboxOf, OutboxOf
<1>3. /\ IdleRun \in RunStates /\ IdleRun.pc = "idle" /\ IdleRun.after = 0
      /\ IdleRun.inbox = {} /\ IdleRun.outbox = {} /\ IdleRun.got = {} /\ IdleRun.known = {}
  BY IdleOK DEF IdleRun
<1>4. TypeOK
  BY <1>1, <1>2, <1>3, ConstantsAssumption DEF Init, TypeOK
<1>5. RunOK(IdleRun)
  BY <1>1, <1>3 DEF RunOK, CarriesOK, CoversOK, ReadOK, KnownOK
<1>6. QED
  BY <1>1, <1>2, <1>4, <1>5 DEF Init, IInv, CursorCovers

LEMMA Stutters ==
    ASSUME IInv, UNCHANGED vars
    PROVE  IInv'
<1>1. /\ messages' = messages /\ raced' = raced /\ received' = received
      /\ checkpoint' = checkpoint /\ run' = run
  BY DEF vars
<1>2. ASSUME NEW r \in Runs PROVE RunOK(run[r])'
  <2>1. PICK q : q = run[r]
    OBVIOUS
  <2>2. RunOK(q)' /\ run'[r] = q
    BY <1>1, <2>1, OthersStay DEF IInv
  <2>3. QED
    BY <2>2
<1>3. Mine' = Mine /\ InboxOf(messages', Me) = InboxOf(messages, Me)
  BY <1>1 DEF Mine
<1>4. TypeOK'
  BY <1>1, <1>3 DEF IInv, TypeOK
<1>5. QED
  BY <1>1, <1>2, <1>4, CursorStays DEF IInv

LEMMA Preserved == IInv /\ [Next]_vars => IInv'
<1> SUFFICES ASSUME IInv, [Next]_vars PROVE IInv'
  OBVIOUS
<1>1. ASSUME NEW r \in Runs,
             \/ StartRun(r) \/ Cancel(r) \/ ReadInbox(r) \/ ReadOutbox(r)
             \/ TakePage(r) \/ Apply(r) \/ Commit(r) \/ Fail(r)
      PROVE  IInv'
  BY <1>1, StartRunOK, CancelOK, ReadInboxOK, ReadOutboxOK, TakePageOK, ApplyOK, CommitOK, FailOK
<1>2. QED
  BY <1>1, SendOK, Stutters DEF Next

\* Whatever is stored while runs read, overlap, fail or are cancelled, what each
\* run has read and collected relates to the table as the argument above says.
THEOREM Invariance == Spec => []IInv
<1>1. QED
  BY Initially, Preserved, PTL DEF Spec

\* Every variable keeps its type, and the threads of the client hold only messages
\* to or from its user.
THEOREM TypeCorrect == Spec => []TypeOK
<1>1. IInv => TypeOK
  BY DEF IInv
<1>2. QED
  BY Invariance, <1>1, PTL

\* The cursor runSync keeps passes over no message unseen, in whatever order
\* overlapping runs write it, save those that Sync's two reads let in between
\* them while a message of the user's own was stored after.
THEOREM CursorLosesNothing == Spec => []CursorCovers
<1>1. IInv => CursorCovers
  BY DEF IInv
<1>2. QED
  BY Invariance, <1>1, PTL

\* A run that was not cancelled before it applied its pages has brought everything
\* that was stored when it started, whatever the page size, save the overtaken.
THEOREM RunsComplete == Spec => []CompletedRunIsComplete
<1>1. IInv => CompletedRunIsComplete
  <2> SUFFICES ASSUME IInv, NEW r \in Runs, run[r].pc = "commit", NEW id \in run[r].known
               PROVE  id \in received \/ Overtaken(id)
    BY DEF CompletedRunIsComplete
  <2>1. RunOK(run[r])
    BY DEF IInv
  <2>2. QED
    BY <2>1 DEF RunOK, CarriesOK, KnownOK
<1>2. QED
  BY Invariance, <1>1, PTL
=============================================================================
