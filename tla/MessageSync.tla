---------------------------- MODULE MessageSync -----------------------------
(***************************************************************************)
(* Catching up after a reconnect: SyncService.Sync answers GET             *)
(* /api/messaging/sync and the runSync effect of Chat.jsx walks its pages. *)
(*                                                                         *)
(* The service merges two separate reads, inbox then outbox, so messages   *)
(* can be stored between them.  The client keeps one cursor for all runs:  *)
(* a new run starts from it while an older one, though cancelled, may have *)
(* passed its last look at the flag and still be about to write it.        *)
(* Frames that arrive over the WebSocket, and senders who are not in the   *)
(* contact list (which runSync skips), are left out.                       *)
(***************************************************************************)
EXTENDS MessageStore

CONSTANTS
    Users,        \* user accounts, all of them contacts of Me
    Me,           \* the user whose client catches up
    Runs,         \* invocations of runSync that overlap
    Limit,        \* page size the client asks for (200 in the code)
    MaxMessages   \* bound: rows ever inserted into messages

ASSUME ConstantsAssumption ==
    /\ Me \in Users
    /\ Limit \in Nat \ {0}
    /\ MaxMessages \in Nat

VARIABLES
    messages,    \* the messages table
    run,         \* what each runSync is doing
    checkpoint,  \* syncCursorRef
    received,    \* ids of the synced messages in the client's threads
    raced        \* incoming messages stored between the two reads of a request

vars == <<messages, run, checkpoint, received, raced>>

IdleRun == [pc |-> "idle", cancelled |-> FALSE, after |-> 0, inbox |-> {},
            outbox |-> {}, got |-> {}, known |-> {}]

Init ==
    /\ messages = <<>>
    /\ run = [r \in Runs |-> IdleRun]
    /\ checkpoint = 0
    /\ received = {}
    /\ raced = {}

Mine == InboxOf(messages, Me) \cup OutboxOf(messages, Me)

Highest(ids) == CHOOSE x \in ids : \A y \in ids : y <= x

\* Anybody's message is stored, whatever the runs are doing.
Send(from, to) ==
    /\ Len(messages) < MaxMessages
    /\ messages' = SaveDirectMessage(messages, from, to)
    /\ raced' = IF to = Me /\ \E r \in Runs : run[r].pc = "outbox"
                THEN raced \cup {Len(messages')} ELSE raced
    /\ UNCHANGED <<run, checkpoint, received>>

-----------------------------------------------------------------------------
(* SyncService.Sync.                                                        *)

\* Mutant: one row too few to tell whether there is another page.
FetchPageOnly == Limit

FetchLimit == Limit + 1

ReadInbox(r) ==
    /\ run[r].pc = "inbox"
    /\ run' = [run EXCEPT ![r].pc = "outbox",
                          ![r].inbox = Oldest({id \in InboxOf(messages, Me) : id > run[r].after},
                                              FetchLimit)]
    /\ UNCHANGED <<messages, checkpoint, received, raced>>

ReadOutbox(r) ==
    /\ run[r].pc = "outbox"
    /\ run' = [run EXCEPT ![r].pc = "page",
                          ![r].outbox = Oldest({id \in OutboxOf(messages, Me) : id > run[r].after},
                                               FetchLimit)]
    /\ UNCHANGED <<messages, checkpoint, received, raced>>

\* mergeStoredMessagesAscending keeps one copy of a message to oneself.
Merged(q) == q.inbox \cup q.outbox

HasMore(q) == Cardinality(Merged(q)) > Limit

Page(q) == Oldest(Merged(q), Limit)

\* Mutant: the cursor is the id the next page starts with.
NextAfterExclusive(q) == IF Page(q) = {} THEN q.after ELSE Highest(Page(q)) + 1

\* Mutant: the cursor moves past rows that were cut off the page.
NextAfterMerged(q) == IF Merged(q) = {} THEN q.after ELSE Highest(Merged(q))

NextAfterID(q) == IF Page(q) = {} THEN q.after ELSE Highest(Page(q))

-----------------------------------------------------------------------------
(* runSync.                                                                 *)

\* The effect runs for a new syncToken: the previous run is cancelled and the
\* loop starts at the cursor.
StartRun(r) ==
    /\ run[r].pc = "idle"
    /\ run' = [s \in Runs |-> IF s = r
                              THEN [IdleRun EXCEPT !.pc = "inbox", !.after = checkpoint,
                                                   !.known = Mine]
                              ELSE [run[s] EXCEPT !.cancelled = (run[s].pc # "idle")]]
    /\ UNCHANGED <<messages, checkpoint, received, raced>>

\* The effect is cleaned up: another thread is selected, contacts are reloaded.
Cancel(r) ==
    /\ run[r].pc # "idle"
    /\ run' = [run EXCEPT ![r].cancelled = TRUE]
    /\ UNCHANGED <<messages, checkpoint, received, raced>>

\* A page has arrived: the loop goes on while there is more and the run is
\* not cancelled.
Loop(q) ==
    [q EXCEPT !.pc = IF HasMore(q) /\ ~q.cancelled THEN "inbox" ELSE "apply",
              !.after = NextAfterID(q), !.got = @ \cup Page(q),
              !.inbox = {}, !.outbox = {}]

TakePage(r) ==
    /\ run[r].pc = "page"
    /\ run' = [run EXCEPT ![r] = Loop(@)]
    /\ UNCHANGED <<messages, checkpoint, received, raced>>

\* The collected messages go into the threads unless the run is cancelled.
Apply(r) ==
    /\ run[r].pc = "apply"
    /\ IF run[r].cancelled
       THEN /\ run' = [run EXCEPT ![r] = IdleRun]
            /\ UNCHANGED received
       ELSE /\ run' = [run EXCEPT ![r].pc = "commit"]
            /\ received' = received \cup run[r].got
    /\ UNCHANGED <<messages, checkpoint, raced>>

\* After the awaited receipt requests the cursor is written, cancelled or not.
Commit(r) ==
    /\ run[r].pc = "commit"
    /\ checkpoint' = run[r].after
    /\ run' = [run EXCEPT ![r] = IdleRun]
    /\ UNCHANGED <<messages, received, raced>>

\* A sync or a receipt request fails: the run ends, the cursor stays.
Fail(r) ==
    /\ run[r].pc \in {"inbox", "outbox", "page", "commit"}
    /\ run' = [run EXCEPT ![r] = IdleRun]
    /\ UNCHANGED <<messages, checkpoint, received, raced>>

-----------------------------------------------------------------------------
Next ==
    \/ \E from, to \in Users : Send(from, to)
    \/ \E r \in Runs :
          \/ StartRun(r) \/ Cancel(r) \/ ReadInbox(r) \/ ReadOutbox(r)
          \/ TakePage(r) \/ Apply(r) \/ Commit(r) \/ Fail(r)

Spec == Init /\ [][Next]_vars
-----------------------------------------------------------------------------
(* Properties.                                                              *)

Ids == 1..MaxMessages

RunStates ==
    [pc : {"idle", "inbox", "outbox", "page", "apply", "commit"}, cancelled : BOOLEAN,
     after : Ids \cup {0}, inbox : SUBSET Ids, outbox : SUBSET Ids,
     got : SUBSET Ids, known : SUBSET Ids]

\* The type invariant; the client never holds a message that is not its user's.
TypeOK ==
    /\ messages \in Seq([from : Users, to : Users])
    /\ Len(messages) <= MaxMessages
    /\ run \in [Runs -> RunStates]
    /\ checkpoint \in Ids \cup {0}
    /\ received \subseteq Mine
    /\ raced \subseteq InboxOf(messages, Me)

\* The one way a message can be lost: it came in between the two reads of a
\* request and a message of the user's own was stored after it.
Overtaken(id) == id \in raced /\ \E own \in OutboxOf(messages, Me) : own > id

\* The cursor passes nothing else unseen, whatever runs overlap, fail or are
\* cancelled, and in whatever order they write it: every message up to it is
\* in the client's threads or was overtaken.  A user who sends nothing loses
\* nothing.
CursorCovers ==
    \A id \in Mine : id <= checkpoint => id \in received \/ Overtaken(id)

\* A run that was not cancelled before it applied its pages has brought the
\* client everything that was stored when the run started.
CompletedRunIsComplete ==
    \A r \in Runs : run[r].pc = "commit" =>
        \A id \in run[r].known : id \in received \/ Overtaken(id)

\* api.md: clients should treat cursor.next_after_id as the next durable
\* checkpoint after each page, which promises that nothing up to it is missing.
CursorSkipsNothing == \A id \in Mine : id <= checkpoint => id \in received
=============================================================================
