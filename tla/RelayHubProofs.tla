--------------------------- MODULE RelayHubProofs ---------------------------
(***************************************************************************)
(* Proofs about RelayHub, for any users, connections, sessions, channel    *)
(* capacity and bounds, and with a Shutdown at any moment.                 *)
(*                                                                         *)
(* The argument is about responsibility.  A connection is Safe once its    *)
(* channel is closed or somebody is bound to close it, and a safe one      *)
(* stays so (SafeStays).  Connections leave the map in two places:         *)
(* RemoveClient makes the one that leaves safe in the same critical        *)
(* section, and Shutdown empties the map only when it has made them all    *)
(* safe, having kept the mutex meanwhile (SweepOK).                        *)
(***************************************************************************)
EXTENDS RelayHub, TLAPS, FiniteSetTheorems

Safe(c) == closed[c] \/ \E p \in Closers : IsClosing(p, c)

\* Who is in the map has been through AddClient; the handler that sends a
\* frame has counted it.
HandshakeOK ==
    /\ \A c \in registered : WasAdded(c)
    /\ \A c \in Clients : reader[c].pc \in {"send", "wait"} => reader[c].n > 0

\* What the three kinds of closers do.  A readLoop removes its own connection,
\* when it has ended and not before.
ClosersOK ==
    /\ \A c \in Clients :
          /\ closer[c].pc \in {"idle", "remove", "close", "lock", "shut", "announce", "done"}
          /\ closer[c].pc = "idle" <=> reader[c].pc # "done"
          /\ closer[c].pc # "idle" => closer[c].target = c
    /\ \A s \in Sessions : closer[s].pc # "cancel"
    /\ closer[Server].pc \in {"idle", "cancel", "next", "close", "lock", "shut", "done"}

\* What DisconnectSession has found and has not yet dealt with is on its list
\* or in its hands.
Handled(s, c) ==
    \/ c \in closer[s].todo
    \/ closer[s].pc = "remove" /\ closer[s].target = c
    \/ c \notin registered /\ Safe(c)

\* The connections found have been added once and are not added again.
FoundOK ==
    \A s \in Sessions :
        /\ closer[s].pc \in {"idle", "find"} => closer[s].found = {}
        /\ closer[s].pc = "done" => closer[s].todo = {}
        /\ \A c \in closer[s].found : WasAdded(c) /\ Handled(s, c)

\* While Shutdown keeps the mutex, the connections in the map are on its list
\* or safe.
SweepOK == ~HubFree => \A c \in registered : c \in closer[Server].todo \/ Safe(c)

\* The inductive invariant.
IInv ==
    /\ TypeOK
    /\ HandshakeOK
    /\ ClosersOK
    /\ NoSendOnClosedChannel
    /\ NoOrphan
    /\ FoundOK
    /\ SweepOK

\* Which connections have been announced, for PresenceBalanced.
AnnouncedOK ==
    \A c \in Clients :
        /\ announce[c, "online"].pc # "none" => WasAdded(c)
        /\ announce[c, "offline"].pc # "none" => WasAdded(c) /\ c \notin registered

-----------------------------------------------------------------------------
(* Queues, senders and closers.                                             *)

Frames == DirectFrames \cup {Other}

ReaderStates == [pc : ReaderPcs, todo : SUBSET Clients, on : Clients, n : Nat]

CloserStates == [pc : CloserPcs, todo : SUBSET Clients, found : SUBSET Clients, target : Clients]

BroadcastStates == [pc : BroadcastPcs, todo : SUBSET Clients]

\* What the ASSUMEs of RelayHub give.
LEMMA HubConstants ==
    /\ SendCap \in Nat /\ SendCap > 0
    /\ MaxSends \in [Clients -> Nat]
    /\ NoTarget \in Clients
    /\ Clients \cap Sessions = {} /\ Server \notin Clients /\ Server \notin Sessions
    /\ Closers = Clients \cup Sessions \cup {Server}
BY ConstantsAssumption DEF NoTarget, Closers

\* A direct message that is being sent is one of those the bound allows.
LEMMA FrameType ==
    ASSUME TypeOK, HandshakeOK, NEW c \in Clients, reader[c].pc \in {"send", "wait"}
    PROVE  Frame(c) \in Frames
<1>1. /\ reader[c].n \in Nat /\ reader[c].n > 0 /\ reader[c].n <= MaxSends[c]
      /\ MaxSends[c] \in Nat
  BY HubConstants DEF TypeOK, HandshakeOK
<1>2. Frame(c) \in [from : {c}, n : 1..MaxSends[c]]
  BY <1>1 DEF Frame
<1>3. QED
  BY <1>2 DEF Frames, DirectFrames

\* Whatever is appended where there is room, a channel stays in its bounds.
LEMMA QueueStays ==
    ASSUME TypeOK, NEW c \in Clients, NEW f \in Frames,
           \/ queue' = TrySend(c, f)
           \/ HasRoom(c) /\ queue' = [queue EXCEPT ![c] = Append(@, f)]
    PROVE  /\ queue' \in [Clients -> Seq(DirectFrames \cup {Other})]
           /\ \A d \in Clients : Len(queue'[d]) <= SendCap
<1>1. queue \in [Clients -> Seq(Frames)] /\ \A d \in Clients : Len(queue[d]) <= SendCap
  BY DEF TypeOK, Frames
<1>2. CASE UNCHANGED queue
  BY <1>1, <1>2 DEF Frames
<1>3. CASE HasRoom(c) /\ queue' = [queue EXCEPT ![c] = Append(@, f)]
  <2>1. queue[c] \in Seq(Frames) /\ Len(queue[c]) \in Nat /\ Len(queue[c]) < SendCap
    BY <1>1, <1>3 DEF HasRoom
  <2>2. /\ Append(queue[c], f) \in Seq(Frames)
        /\ Len(Append(queue[c], f)) = Len(queue[c]) + 1
    BY <2>1
  <2>3. Len(Append(queue[c], f)) <= SendCap
    BY <2>1, <2>2, HubConstants
  <2>4. QED
    BY <1>1, <1>3, <2>2, <2>3 DEF Frames
<1>4. QED
  BY <1>2, <1>3 DEF TrySend

LEMMA TailStays ==
    ASSUME TypeOK, NEW c \in Clients, queue[c] # <<>>,
           queue' = [queue EXCEPT ![c] = Tail(@)]
    PROVE  /\ queue' \in [Clients -> Seq(DirectFrames \cup {Other})]
           /\ \A d \in Clients : Len(queue'[d]) <= SendCap
<1>1. queue \in [Clients -> Seq(Frames)] /\ \A d \in Clients : Len(queue[d]) <= SendCap
  BY DEF TypeOK, Frames
<1>2. queue[c] \in Seq(Frames) /\ Len(queue[c]) \in Nat
  BY <1>1
<1>3. Tail(queue[c]) \in Seq(Frames) /\ Len(Tail(queue[c])) = Len(queue[c]) - 1
  BY <1>2
<1>4. Len(Tail(queue[c])) <= SendCap
  BY <1>1, <1>2, <1>3, HubConstants
<1>5. QED
  BY <1>1, <1>3, <1>4 DEF Frames

LEMMA AdvanceType ==
    ASSUME TypeOK, NEW b, NEW from, NEW to \in BroadcastPcs
    PROVE  Advance(b, from, to) \in [Clients \X Occasions -> [pc : BroadcastPcs, todo : SUBSET Clients]]
<1>1. PICK B, T : B = Clients \X Occasions /\ T = SUBSET Clients
  OBVIOUS
<1>2. announce \in [B -> [pc : BroadcastPcs, todo : T]]
  BY <1>1 DEF TypeOK
<1>3. CASE b \in B /\ announce[b].pc = from
  <2>1. announce[b] \in [pc : BroadcastPcs, todo : T]
    BY <1>2, <1>3
  <2>2. [announce[b] EXCEPT !.pc = to] \in [pc : BroadcastPcs, todo : T]
    BY <2>1
  <2>3. Advance(b, from, to) = [announce EXCEPT ![b] = [announce[b] EXCEPT !.pc = to]]
    BY <1>2, <1>3 DEF Advance
  <2>4. QED
    BY <1>1, <1>2, <1>3, <2>2, <2>3
<1>4. CASE ~(b \in B /\ announce[b].pc = from)
  BY <1>1, <1>2, <1>4 DEF Advance
<1>5. QED
  BY <1>3, <1>4

-----------------------------------------------------------------------------
(* What a step makes of the record of a connection or of a closer.          *)

ReaderTo(c, pc, todo, on, n) ==
    reader' = [reader EXCEPT ![c] = [pc |-> pc, todo |-> todo, on |-> on, n |-> n]]

CloserTo(p, pc, todo, found, target) ==
    closer' = [closer EXCEPT ![p] = [pc |-> pc, todo |-> todo, found |-> found, target |-> target]]

LEMMA ReaderShape ==
    ASSUME TypeOK, NEW c \in Clients
    PROVE  /\ reader = [d \in Clients |-> reader[d]]
           /\ reader[c] = [pc |-> reader[c].pc, todo |-> reader[c].todo,
                           on |-> reader[c].on, n |-> reader[c].n]
BY DEF TypeOK

LEMMA CloserShape ==
    ASSUME TypeOK, NEW p \in Closers
    PROVE  /\ closer = [q \in Closers |-> closer[q]]
           /\ closer[p] = [pc |-> closer[p].pc, todo |-> closer[p].todo,
                           found |-> closer[p].found, target |-> closer[p].target]
BY DEF TypeOK

LEMMA MovesTo ==
    ASSUME NEW S, NEW f, NEW g, NEW c \in S, NEW r,
           f = [d \in S |-> f[d]], g = [d \in S |-> g[d]],
           g[c] = r, \A d \in S \ {c} : g[d] = f[d]
    PROVE  g = [f EXCEPT ![c] = r]
OBVIOUS

LEMMA AuthenticateTo ==
    ASSUME TypeOK, NEW c \in Clients, Authenticate(c)
    PROVE  ReaderTo(c, "add", reader[c].todo, reader[c].on, reader[c].n)
<1>1. /\ reader = [q \in Clients |-> reader[q]]
      /\ reader[c] = [pc |-> reader[c].pc, todo |-> reader[c].todo, on |-> reader[c].on, n |-> reader[c].n]
  BY ReaderShape
<1>2. /\ reader' = [q \in Clients |-> reader'[q]]
      /\ reader'[c] = [pc |-> "add", todo |-> reader[c].todo, on |-> reader[c].on, n |-> reader[c].n]
      /\ \A q \in Clients \ {c} : reader'[q] = reader[q]
  BY <1>1 DEF Authenticate
<1>3. QED
  BY <1>1, <1>2, MovesTo DEF ReaderTo

LEMMA AddTo ==
    ASSUME TypeOK, NEW c \in Clients, AddClient(c)
    PROVE  ReaderTo(c, "greet", reader[c].todo, reader[c].on, reader[c].n)
<1>1. /\ reader = [q \in Clients |-> reader[q]]
      /\ reader[c] = [pc |-> reader[c].pc, todo |-> reader[c].todo, on |-> reader[c].on, n |-> reader[c].n]
  BY ReaderShape
<1>2. /\ reader' = [q \in Clients |-> reader'[q]]
      /\ reader'[c] = [pc |-> "greet", todo |-> reader[c].todo, on |-> reader[c].on, n |-> reader[c].n]
      /\ \A q \in Clients \ {c} : reader'[q] = reader[q]
  BY <1>1 DEF AddClient
<1>3. QED
  BY <1>1, <1>2, MovesTo DEF ReaderTo

LEMMA GreetTo ==
    ASSUME TypeOK, NEW c \in Clients, Greet(c)
    PROVE  ReaderTo(c, "read", reader[c].todo, reader[c].on, reader[c].n)
<1>1. /\ reader = [q \in Clients |-> reader[q]]
      /\ reader[c] = [pc |-> reader[c].pc, todo |-> reader[c].todo, on |-> reader[c].on, n |-> reader[c].n]
  BY ReaderShape
<1>2. /\ reader' = [q \in Clients |-> reader'[q]]
      /\ reader'[c] = [pc |-> "read", todo |-> reader[c].todo, on |-> reader[c].on, n |-> reader[c].n]
      /\ \A q \in Clients \ {c} : reader'[q] = reader[q]
  BY <1>1 DEF Greet
<1>3. QED
  BY <1>1, <1>2, MovesTo DEF ReaderTo

LEMMA StartSendTo ==
    ASSUME TypeOK, NEW c \in Clients, NEW u \in Users, StartSend(c, u)
    PROVE  ReaderTo(c, IF Of(u) = {} THEN "reply" ELSE "send", Of(u), reader[c].on, reader[c].n + 1)
<1>1. /\ reader = [q \in Clients |-> reader[q]]
      /\ reader[c] = [pc |-> reader[c].pc, todo |-> reader[c].todo, on |-> reader[c].on, n |-> reader[c].n]
  BY ReaderShape
<1>2. /\ reader' = [q \in Clients |-> reader'[q]]
      /\ reader'[c] = [pc |-> IF Of(u) = {} THEN "reply" ELSE "send", todo |-> Of(u), on |-> reader[c].on, n |-> reader[c].n + 1]
      /\ \A q \in Clients \ {c} : reader'[q] = reader[q]
  BY <1>1 DEF StartSend
<1>3. QED
  BY <1>1, <1>2, MovesTo DEF ReaderTo

LEMMA ServedTo ==
    ASSUME TypeOK, NEW c \in Clients, NEW d, NEW rest,
           rest = reader[c].todo \ {d}, reader' = Served(c, d)
    PROVE  ReaderTo(c, IF rest = {} THEN "reply" ELSE "send", rest, c, reader[c].n)
<1>1. /\ reader = [q \in Clients |-> reader[q]]
      /\ reader[c] = [pc |-> reader[c].pc, todo |-> reader[c].todo, on |-> reader[c].on, n |-> reader[c].n]
  BY ReaderShape
<1>2. /\ reader' = [q \in Clients |-> reader'[q]]
      /\ reader'[c] = [pc |-> IF rest = {} THEN "reply" ELSE "send", todo |-> rest, on |-> c, n |-> reader[c].n]
      /\ \A q \in Clients \ {c} : reader'[q] = reader[q]
  BY <1>1 DEF Served
<1>3. QED
  BY <1>1, <1>2, MovesTo DEF ReaderTo

LEMMA WaitTo ==
    ASSUME TypeOK, NEW c \in Clients, NEW d,
           reader' = [reader EXCEPT ![c].pc = "wait", ![c].on = d]
    PROVE  ReaderTo(c, "wait", reader[c].todo, d, reader[c].n)
<1>1. /\ reader = [q \in Clients |-> reader[q]]
      /\ reader[c] = [pc |-> reader[c].pc, todo |-> reader[c].todo, on |-> reader[c].on, n |-> reader[c].n]
  BY ReaderShape
<1>2. /\ reader' = [q \in Clients |-> reader'[q]]
      /\ reader'[c] = [pc |-> "wait", todo |-> reader[c].todo, on |-> d, n |-> reader[c].n]
      /\ \A q \in Clients \ {c} : reader'[q] = reader[q]
  BY <1>1
<1>3. QED
  BY <1>1, <1>2, MovesTo DEF ReaderTo

LEMMA ReplyTo ==
    ASSUME TypeOK, NEW c \in Clients, Reply(c)
    PROVE  ReaderTo(c, "read", reader[c].todo, reader[c].on, reader[c].n)
<1>1. /\ reader = [q \in Clients |-> reader[q]]
      /\ reader[c] = [pc |-> reader[c].pc, todo |-> reader[c].todo, on |-> reader[c].on, n |-> reader[c].n]
  BY ReaderShape
<1>2. /\ reader' = [q \in Clients |-> reader'[q]]
      /\ reader'[c] = [pc |-> "read", todo |-> reader[c].todo, on |-> reader[c].on, n |-> reader[c].n]
      /\ \A q \in Clients \ {c} : reader'[q] = reader[q]
  BY <1>1 DEF Reply
<1>3. QED
  BY <1>1, <1>2, MovesTo DEF ReaderTo

LEMMA ReadFailsTo ==
    ASSUME TypeOK, NEW c \in Clients, ReadFails(c)
    PROVE  ReaderTo(c, "done", reader[c].todo, reader[c].on, reader[c].n)
<1>1. /\ reader = [q \in Clients |-> reader[q]]
      /\ reader[c] = [pc |-> reader[c].pc, todo |-> reader[c].todo, on |-> reader[c].on, n |-> reader[c].n]
  BY ReaderShape
<1>2. /\ reader' = [q \in Clients |-> reader'[q]]
      /\ reader'[c] = [pc |-> "done", todo |-> reader[c].todo, on |-> reader[c].on, n |-> reader[c].n]
      /\ \A q \in Clients \ {c} : reader'[q] = reader[q]
  BY <1>1 DEF ReadFails
<1>3. QED
  BY <1>1, <1>2, MovesTo DEF ReaderTo

LEMMA ReadEndsTo ==
    ASSUME TypeOK, NEW c \in Clients, ReadFails(c)
    PROVE  CloserTo(c, "remove", closer[c].todo, closer[c].found, c)
<1>0. c \in Closers
  BY HubConstants
<1>1. /\ closer = [q \in Closers |-> closer[q]]
      /\ closer[c] = [pc |-> closer[c].pc, todo |-> closer[c].todo, found |-> closer[c].found, target |-> closer[c].target]
  BY <1>0, CloserShape
<1>2. /\ closer' = [q \in Closers |-> closer'[q]]
      /\ closer'[c] = [pc |-> "remove", todo |-> closer[c].todo, found |-> closer[c].found, target |-> c]
      /\ \A q \in Closers \ {c} : closer'[q] = closer[q]
  BY <1>0, <1>1 DEF ReadFails
<1>3. QED
  BY <1>0, <1>1, <1>2, MovesTo DEF CloserTo

LEMMA RevokeTo ==
    ASSUME TypeOK, NEW p \in Closers, RevokeSession(p)
    PROVE  CloserTo(p, "find", closer[p].todo, closer[p].found, closer[p].target)
<1>1. /\ closer = [q \in Closers |-> closer[q]]
      /\ closer[p] = [pc |-> closer[p].pc, todo |-> closer[p].todo, found |-> closer[p].found, target |-> closer[p].target]
  BY CloserShape
<1>2. /\ closer' = [q \in Closers |-> closer'[q]]
      /\ closer'[p] = [pc |-> "find", todo |-> closer[p].todo, found |-> closer[p].found, target |-> closer[p].target]
      /\ \A q \in Closers \ {p} : closer'[q] = closer[q]
  BY <1>1 DEF RevokeSession
<1>3. QED
  BY <1>1, <1>2, MovesTo DEF CloserTo

LEMMA DisconnectTo ==
    ASSUME TypeOK, NEW p \in Closers, DisconnectSession(p), NEW matches,
           matches = {c \in registered : ClientSession[c] = p}
    PROVE  CloserTo(p, "next", matches, matches, closer[p].target)
<1>1. /\ closer = [q \in Closers |-> closer[q]]
      /\ closer[p] = [pc |-> closer[p].pc, todo |-> closer[p].todo, found |-> closer[p].found, target |-> closer[p].target]
  BY CloserShape
<1>2. /\ closer' = [q \in Closers |-> closer'[q]]
      /\ closer'[p] = [pc |-> "next", todo |-> matches, found |-> matches, target |-> closer[p].target]
      /\ \A q \in Closers \ {p} : closer'[q] = closer[q]
  BY <1>1 DEF DisconnectSession
<1>3. QED
  BY <1>1, <1>2, MovesTo DEF CloserTo

LEMMA ShutdownTo ==
    ASSUME TypeOK, Shutdown
    PROVE  CloserTo(Server, "cancel", closer[Server].todo, closer[Server].found, closer[Server].target)
<1>0. Server \in Closers
  BY HubConstants
<1>1. /\ closer = [q \in Closers |-> closer[q]]
      /\ closer[Server] = [pc |-> closer[Server].pc, todo |-> closer[Server].todo, found |-> closer[Server].found, target |-> closer[Server].target]
  BY <1>0, CloserShape
<1>2. /\ closer' = [q \in Closers |-> closer'[q]]
      /\ closer'[Server] = [pc |-> "cancel", todo |-> closer[Server].todo, found |-> closer[Server].found, target |-> closer[Server].target]
      /\ \A q \in Closers \ {Server} : closer'[q] = closer[q]
  BY <1>0, <1>1 DEF Shutdown
<1>3. QED
  BY <1>0, <1>1, <1>2, MovesTo DEF CloserTo

LEMMA ShutdownLocksTo ==
    ASSUME TypeOK, ShutdownLocks
    PROVE  CloserTo(Server, "next", registered, closer[Server].found, closer[Server].target)
<1>0. Server \in Closers
  BY HubConstants
<1>1. /\ closer = [q \in Closers |-> closer[q]]
      /\ closer[Server] = [pc |-> closer[Server].pc, todo |-> closer[Server].todo, found |-> closer[Server].found, target |-> closer[Server].target]
  BY <1>0, CloserShape
<1>2. /\ closer' = [q \in Closers |-> closer'[q]]
      /\ closer'[Server] = [pc |-> "next", todo |-> registered, found |-> closer[Server].found, target |-> closer[Server].target]
      /\ \A q \in Closers \ {Server} : closer'[q] = closer[q]
  BY <1>0, <1>1 DEF ShutdownLocks
<1>3. QED
  BY <1>0, <1>1, <1>2, MovesTo DEF CloserTo

LEMMA NextTargetTo ==
    ASSUME TypeOK, NEW p \in Closers, NEW c \in Clients, NextTarget(p, c)
    PROVE  CloserTo(p, IF p = Server THEN "close" ELSE "remove", closer[p].todo \ {c}, closer[p].found, c)
<1>1. /\ closer = [q \in Closers |-> closer[q]]
      /\ closer[p] = [pc |-> closer[p].pc, todo |-> closer[p].todo, found |-> closer[p].found, target |-> closer[p].target]
  BY CloserShape
<1>2. /\ closer' = [q \in Closers |-> closer'[q]]
      /\ closer'[p] = [pc |-> IF p = Server THEN "close" ELSE "remove", todo |-> closer[p].todo \ {c}, found |-> closer[p].found, target |-> c]
      /\ \A q \in Closers \ {p} : closer'[q] = closer[q]
  BY <1>1 DEF NextTarget
<1>3. QED
  BY <1>1, <1>2, MovesTo DEF CloserTo

LEMMA LastTargetTo ==
    ASSUME TypeOK, NEW p \in Closers, LastTarget(p)
    PROVE  CloserTo(p, "done", closer[p].todo, closer[p].found, NoTarget)
<1>1. /\ closer = [q \in Closers |-> closer[q]]
      /\ closer[p] = [pc |-> closer[p].pc, todo |-> closer[p].todo, found |-> closer[p].found, target |-> closer[p].target]
  BY CloserShape
<1>2. /\ closer' = [q \in Closers |-> closer'[q]]
      /\ closer'[p] = [pc |-> "done", todo |-> closer[p].todo, found |-> closer[p].found, target |-> NoTarget]
      /\ \A q \in Closers \ {p} : closer'[q] = closer[q]
  BY <1>1 DEF LastTarget
<1>3. QED
  BY <1>1, <1>2, MovesTo DEF CloserTo

LEMMA UnregisterTo ==
    ASSUME TypeOK, NEW p \in Closers, Unregister(p)
    PROVE  CloserTo(p, IF closer[p].target \in registered THEN "close" ELSE Return(p), closer[p].todo, closer[p].found, closer[p].target)
<1>1. /\ closer = [q \in Closers |-> closer[q]]
      /\ closer[p] = [pc |-> closer[p].pc, todo |-> closer[p].todo, found |-> closer[p].found, target |-> closer[p].target]
  BY CloserShape
<1>2. /\ closer' = [q \in Closers |-> closer'[q]]
      /\ closer'[p] = [pc |-> IF closer[p].target \in registered THEN "close" ELSE Return(p), todo |-> closer[p].todo, found |-> closer[p].found, target |-> closer[p].target]
      /\ \A q \in Closers \ {p} : closer'[q] = closer[q]
  BY <1>1 DEF Unregister
<1>3. QED
  BY <1>1, <1>2, MovesTo DEF CloserTo

LEMMA LockTo ==
    ASSUME TypeOK, NEW p \in Closers, LockClient(p)
    PROVE  CloserTo(p, "lock", closer[p].todo, closer[p].found, closer[p].target)
<1>1. /\ closer = [q \in Closers |-> closer[q]]
      /\ closer[p] = [pc |-> closer[p].pc, todo |-> closer[p].todo, found |-> closer[p].found, target |-> closer[p].target]
  BY CloserShape
<1>2. /\ closer' = [q \in Closers |-> closer'[q]]
      /\ closer'[p] = [pc |-> "lock", todo |-> closer[p].todo, found |-> closer[p].found, target |-> closer[p].target]
      /\ \A q \in Closers \ {p} : closer'[q] = closer[q]
  BY <1>1 DEF LockClient
<1>3. QED
  BY <1>1, <1>2, MovesTo DEF CloserTo

LEMMA CloseChannelTo ==
    ASSUME TypeOK, NEW p \in Closers, CloseChannel(p)
    PROVE  CloserTo(p, IF closed[closer[p].target] THEN AfterClose(p) ELSE "shut", closer[p].todo, closer[p].found, closer[p].target)
<1>1. /\ closer = [q \in Closers |-> closer[q]]
      /\ closer[p] = [pc |-> closer[p].pc, todo |-> closer[p].todo, found |-> closer[p].found, target |-> closer[p].target]
  BY CloserShape
<1>2. /\ closer' = [q \in Closers |-> closer'[q]]
      /\ closer'[p] = [pc |-> IF closed[closer[p].target] THEN AfterClose(p) ELSE "shut", todo |-> closer[p].todo, found |-> closer[p].found, target |-> closer[p].target]
      /\ \A q \in Closers \ {p} : closer'[q] = closer[q]
  BY <1>1 DEF CloseChannel
<1>3. QED
  BY <1>1, <1>2, MovesTo DEF CloserTo

LEMMA CloseConnTo ==
    ASSUME TypeOK, NEW p \in Closers, CloseConn(p)
    PROVE  CloserTo(p, AfterClose(p), closer[p].todo, closer[p].found, closer[p].target)
<1>1. /\ closer = [q \in Closers |-> closer[q]]
      /\ closer[p] = [pc |-> closer[p].pc, todo |-> closer[p].todo, found |-> closer[p].found, target |-> closer[p].target]
  BY CloserShape
<1>2. /\ closer' = [q \in Closers |-> closer'[q]]
      /\ closer'[p] = [pc |-> AfterClose(p), todo |-> closer[p].todo, found |-> closer[p].found, target |-> closer[p].target]
      /\ \A q \in Closers \ {p} : closer'[q] = closer[q]
  BY <1>1 DEF CloseConn
<1>3. QED
  BY <1>1, <1>2, MovesTo DEF CloserTo

LEMMA AnnounceTo ==
    ASSUME TypeOK, NEW p \in Closers, AnnounceOffline(p)
    PROVE  CloserTo(p, Return(p), closer[p].todo, closer[p].found, closer[p].target)
<1>1. /\ closer = [q \in Closers |-> closer[q]]
      /\ closer[p] = [pc |-> closer[p].pc, todo |-> closer[p].todo, found |-> closer[p].found, target |-> closer[p].target]
  BY CloserShape
<1>2. /\ closer' = [q \in Closers |-> closer'[q]]
      /\ closer'[p] = [pc |-> Return(p), todo |-> closer[p].todo, found |-> closer[p].found, target |-> closer[p].target]
      /\ \A q \in Closers \ {p} : closer'[q] = closer[q]
  BY <1>1 DEF AnnounceOffline
<1>3. QED
  BY <1>1, <1>2, MovesTo DEF CloserTo

-----------------------------------------------------------------------------
(* The type invariant.                                                      *)

LEMMA ReaderTyped ==
    ASSUME TypeOK, NEW c \in Clients, NEW pc \in ReaderPcs, NEW todo \in SUBSET Clients,
           NEW on \in Clients, NEW n \in Nat, n <= MaxSends[c],
           ReaderTo(c, pc, todo, on, n)
    PROVE  /\ reader' \in [Clients -> ReaderStates]
           /\ \A d \in Clients : reader'[d].n <= MaxSends[d]
BY DEF TypeOK, ReaderTo, ReaderStates

LEMMA CloserTyped ==
    ASSUME TypeOK, NEW p \in Closers, NEW pc \in CloserPcs, NEW todo \in SUBSET Clients,
           NEW found \in SUBSET Clients, NEW target \in Clients,
           CloserTo(p, pc, todo, found, target)
    PROVE  closer' \in [Closers -> CloserStates]
BY DEF TypeOK, CloserTo, CloserStates

LEMMA ReaderFields ==
    ASSUME TypeOK, NEW c \in Clients
    PROVE  /\ reader[c].pc \in ReaderPcs /\ reader[c].todo \in SUBSET Clients
           /\ reader[c].on \in Clients /\ reader[c].n \in Nat /\ reader[c].n <= MaxSends[c]
BY DEF TypeOK

LEMMA CloserFields ==
    ASSUME TypeOK, NEW p \in Closers
    PROVE  /\ closer[p].pc \in CloserPcs /\ closer[p].todo \in SUBSET Clients
           /\ closer[p].found \in SUBSET Clients /\ closer[p].target \in Clients
BY DEF TypeOK

LEMMA BroadcastStays ==
    ASSUME TypeOK, NEW b \in Clients \X Occasions, NEW c, BroadcastFind(b) \/ BroadcastTo(b, c)
    PROVE  announce' \in [Clients \X Occasions -> BroadcastStates]
<1>1. PICK pc \in BroadcastPcs, todo \in SUBSET Clients :
          announce' = [announce EXCEPT ![b] = [pc |-> pc, todo |-> todo]]
  <2>1. CASE BroadcastFind(b)
    BY <2>1 DEF BroadcastFind, TypeOK, BroadcastPcs
  <2>2. CASE BroadcastTo(b, c)
    <3>1. /\ announce = [a \in Clients \X Occasions |-> announce[a]]
          /\ announce[b] = [pc |-> announce[b].pc, todo |-> announce[b].todo]
          /\ announce[b].todo \in SUBSET Clients
      BY DEF TypeOK
    <3>2. PICK pc \in BroadcastPcs : pc = IF announce[b].todo = {c} THEN "done" ELSE "send"
      BY DEF BroadcastPcs
    <3>3. announce' = [announce EXCEPT ![b] = [pc |-> pc, todo |-> announce[b].todo \ {c}]]
      <4>1. /\ announce' = [a \in Clients \X Occasions |-> announce'[a]]
            /\ announce'[b] = [pc |-> pc, todo |-> announce[b].todo \ {c}]
            /\ \A a \in (Clients \X Occasions) \ {b} : announce'[a] = announce[a]
        BY <2>2, <3>1, <3>2 DEF BroadcastTo
      <4>2. QED
        BY <3>1, <4>1, MovesTo
    <3>4. QED
      BY <3>1, <3>3
  <2>3. QED
    BY <2>1, <2>2
<1>2. QED
  BY <1>1 DEF TypeOK, BroadcastStates

LEMMA ServedTyped ==
    ASSUME TypeOK, NEW c \in Clients, NEW d, reader' = Served(c, d)
    PROVE  /\ reader' \in [Clients -> ReaderStates]
           /\ \A e \in Clients : reader'[e].n <= MaxSends[e]
<1>1. PICK rest \in SUBSET Clients : rest = reader[c].todo \ {d}
  BY ReaderFields
<1>2. PICK pc \in ReaderPcs : pc = IF rest = {} THEN "reply" ELSE "send"
  BY DEF ReaderPcs
<1>3. ReaderTo(c, pc, rest, c, reader[c].n)
  BY <1>1, <1>2, ServedTo
<1>4. QED
  BY <1>3, ReaderFields, ReaderTyped

LEMMA TypeStep ==
    ASSUME TypeOK, HandshakeOK, [Next]_vars
    PROVE  TypeOK'
<1> USE DEF ReaderStates, CloserStates, BroadcastStates
<1>1. CASE UNCHANGED vars
  BY <1>1 DEF vars, TypeOK
<1>2. ASSUME NEW c \in Clients, Authenticate(c) PROVE TypeOK'
  <2>1. reader' \in [Clients -> ReaderStates] /\ \A d \in Clients : reader'[d].n <= MaxSends[d]
    BY <1>2, AuthenticateTo, ReaderFields, ReaderTyped DEF ReaderPcs
  <2>2. QED
    BY <1>2, <2>1 DEF Authenticate, TypeOK
<1>3. ASSUME NEW c \in Clients, AddClient(c) PROVE TypeOK'
  <2>1. reader' \in [Clients -> ReaderStates] /\ \A d \in Clients : reader'[d].n <= MaxSends[d]
    BY <1>3, AddTo, ReaderFields, ReaderTyped DEF ReaderPcs
  <2>2. announce' \in [Clients \X Occasions -> BroadcastStates]
    BY <1>3, AdvanceType DEF AddClient, BroadcastPcs, TypeOK
  <2>3. QED
    BY <1>3, <2>1, <2>2 DEF AddClient, TypeOK
<1>4. ASSUME NEW c \in Clients, Greet(c) PROVE TypeOK'
  <2>1. reader' \in [Clients -> ReaderStates] /\ \A d \in Clients : reader'[d].n <= MaxSends[d]
    BY <1>4, GreetTo, ReaderFields, ReaderTyped DEF ReaderPcs
  <2>2. announce' \in [Clients \X Occasions -> BroadcastStates]
    BY <1>4, AdvanceType DEF Greet, BroadcastPcs
  <2>3. queue' \in [Clients -> Seq(DirectFrames \cup {Other})] /\ \A d \in Clients : Len(queue'[d]) <= SendCap
    BY <1>4, QueueStays DEF Greet, Frames
  <2>4. QED
    BY <1>4, <2>1, <2>2, <2>3 DEF Greet, TypeOK
<1>5. ASSUME NEW c \in Clients, NEW u \in Users, StartSend(c, u) PROVE TypeOK'
  <2>1. reader' \in [Clients -> ReaderStates] /\ \A d \in Clients : reader'[d].n <= MaxSends[d]
    <3>1. reader[c].n + 1 \in Nat /\ reader[c].n + 1 <= MaxSends[c] /\ Of(u) \in SUBSET Clients
      <4>1. reader[c].n < MaxSends[c] /\ MaxSends[c] \in Nat /\ reader[c].n \in Nat
        BY <1>5, HubConstants, ReaderFields DEF StartSend
      <4>2. Of(u) \in SUBSET Clients
        BY DEF Of, TypeOK
      <4>3. QED
        BY <4>1, <4>2
    <3>2. PICK pc \in ReaderPcs : pc = IF Of(u) = {} THEN "reply" ELSE "send"
      BY DEF ReaderPcs
    <3>3. ReaderTo(c, pc, Of(u), reader[c].on, reader[c].n + 1)
      BY <1>5, <3>2, StartSendTo
    <3>4. QED
      BY <3>1, <3>3, ReaderFields, ReaderTyped
  <2>2. QED
    BY <1>5, <2>1 DEF StartSend, TypeOK
<1>6. ASSUME NEW c \in Clients, NEW d \in Clients, SendTo(c, d) PROVE TypeOK'
  <2>1. reader' \in [Clients -> ReaderStates] /\ \A e \in Clients : reader'[e].n <= MaxSends[e]
    BY <1>6, ServedTyped, WaitTo, ReaderFields, ReaderTyped DEF SendTo, ReaderPcs
  <2>2. queue' \in [Clients -> Seq(DirectFrames \cup {Other})] /\ \A e \in Clients : Len(queue'[e]) <= SendCap
    BY <1>6, FrameType, QueueStays DEF SendTo
  <2>3. QED
    BY <1>6, <2>1, <2>2 DEF SendTo, TypeOK
<1>7. ASSUME NEW c \in Clients, WaitAccepted(c) PROVE TypeOK'
  <2>1. reader' \in [Clients -> ReaderStates] /\ \A d \in Clients : reader'[d].n <= MaxSends[d]
    BY <1>7, ServedTyped DEF WaitAccepted
  <2>2. queue' \in [Clients -> Seq(DirectFrames \cup {Other})] /\ \A d \in Clients : Len(queue'[d]) <= SendCap
    BY <1>7, ReaderFields, FrameType, QueueStays DEF WaitAccepted
  <2>3. QED
    BY <1>7, <2>1, <2>2 DEF WaitAccepted, TypeOK
<1>8. ASSUME NEW c \in Clients, WaitTimeout(c) PROVE TypeOK'
  <2>1. reader' \in [Clients -> ReaderStates] /\ \A d \in Clients : reader'[d].n <= MaxSends[d]
    BY <1>8, ServedTyped DEF WaitTimeout
  <2>2. QED
    BY <1>8, <2>1 DEF WaitTimeout, TypeOK
<1>9. ASSUME NEW c \in Clients, Reply(c) PROVE TypeOK'
  <2>1. reader' \in [Clients -> ReaderStates] /\ \A d \in Clients : reader'[d].n <= MaxSends[d]
    BY <1>9, ReplyTo, ReaderFields, ReaderTyped DEF ReaderPcs
  <2>2. queue' \in [Clients -> Seq(DirectFrames \cup {Other})] /\ \A d \in Clients : Len(queue'[d]) <= SendCap
    BY <1>9, QueueStays DEF Reply, Frames
  <2>3. QED
    BY <1>9, <2>1, <2>2 DEF Reply, TypeOK
<1>10. ASSUME NEW c \in Clients, ReadFails(c) PROVE TypeOK'
  <2>1. reader' \in [Clients -> ReaderStates] /\ \A d \in Clients : reader'[d].n <= MaxSends[d]
    BY <1>10, ReadFailsTo, ReaderFields, ReaderTyped DEF ReaderPcs
  <2>2. closer' \in [Closers -> CloserStates]
    <3>1. c \in Closers /\ "remove" \in CloserPcs
      BY HubConstants DEF CloserPcs
    <3>2. CloserTo(c, "remove", closer[c].todo, closer[c].found, c)
      BY <1>10, ReadEndsTo
    <3>3. closer[c].todo \in SUBSET Clients /\ closer[c].found \in SUBSET Clients
      BY <3>1, CloserFields
    <3>4. QED
      BY <3>1, <3>2, <3>3, CloserTyped
  <2>3. QED
    BY <1>10, <2>1, <2>2 DEF ReadFails, TypeOK
<1>11. ASSUME NEW c \in Clients, Write(c) PROVE TypeOK'
  <2>1. queue' \in [Clients -> Seq(DirectFrames \cup {Other})] /\ \A d \in Clients : Len(queue'[d]) <= SendCap
    BY <1>11, TailStays DEF Write
  <2>2. QED
    BY <1>11, <2>1 DEF Write, TypeOK
<1>12. ASSUME NEW c \in Clients, WriteFails(c) PROVE TypeOK'
  <2>1. queue' \in [Clients -> Seq(DirectFrames \cup {Other})] /\ \A d \in Clients : Len(queue'[d]) <= SendCap
    BY <1>12, TailStays DEF WriteFails, TypeOK
  <2>2. QED
    BY <1>12, <2>1 DEF WriteFails, TypeOK
<1>13. ASSUME NEW c \in Clients, WriterStops(c) PROVE TypeOK'
  BY <1>13 DEF WriterStops, TypeOK
<1>14. ASSUME NEW p \in Sessions, RevokeSession(p) PROVE TypeOK'
  <2>1. closer' \in [Closers -> CloserStates]
    <3>1. p \in Closers
      BY HubConstants
    <3>2. QED
      BY <1>14, <3>1, RevokeTo, CloserFields, CloserTyped DEF CloserPcs
  <2>2. QED
    BY <1>14, <2>1 DEF RevokeSession, TypeOK
<1>15. ASSUME NEW p \in Sessions, DisconnectSession(p) PROVE TypeOK'
  <2>1. closer' \in [Closers -> CloserStates]
    <3>1. p \in Closers
      BY HubConstants
    <3>2. PICK matches \in SUBSET Clients : matches = {c \in registered : ClientSession[c] = p}
      BY DEF TypeOK
    <3>3. CloserTo(p, "next", matches, matches, closer[p].target)
      BY <1>15, <3>1, <3>2, DisconnectTo
    <3>4. QED
      BY <3>1, <3>3, CloserFields, CloserTyped DEF CloserPcs
  <2>2. QED
    BY <1>15, <2>1 DEF DisconnectSession, TypeOK
<1>16. ASSUME Shutdown PROVE TypeOK'
  <2>1. closer' \in [Closers -> CloserStates]
    BY <1>16, HubConstants, ShutdownTo, CloserFields, CloserTyped DEF CloserPcs
  <2>2. QED
    BY <1>16, <2>1 DEF Shutdown, TypeOK
<1>17. ASSUME ShutdownLocks PROVE TypeOK'
  <2>1. closer' \in [Closers -> CloserStates]
    BY <1>17, HubConstants, ShutdownLocksTo, CloserFields, CloserTyped DEF CloserPcs, TypeOK
  <2>2. QED
    BY <1>17, <2>1 DEF ShutdownLocks, TypeOK
<1>18. ASSUME NEW p \in Closers, NEW c \in Clients, NextTarget(p, c) PROVE TypeOK'
  <2>1. closer' \in [Closers -> CloserStates]
    <3>1. PICK pc \in CloserPcs : pc = IF p = Server THEN "close" ELSE "remove"
      BY DEF CloserPcs
    <3>2. CloserTo(p, pc, closer[p].todo \ {c}, closer[p].found, c)
      BY <1>18, <3>1, NextTargetTo
    <3>3. closer[p].todo \ {c} \in SUBSET Clients
      BY CloserFields
    <3>4. QED
      BY <3>2, <3>3, CloserFields, CloserTyped
  <2>2. QED
    BY <1>18, <2>1 DEF NextTarget, TypeOK
<1>19. ASSUME NEW p \in Closers, LastTarget(p) PROVE TypeOK'
  <2>1. closer' \in [Closers -> CloserStates]
    BY <1>19, LastTargetTo, HubConstants, CloserFields, CloserTyped DEF CloserPcs
  <2>2. QED
    BY <1>19, <2>1 DEF LastTarget, TypeOK
<1>20. ASSUME NEW p \in Closers, Unregister(p) PROVE TypeOK'
  <2>1. closer' \in [Closers -> CloserStates]
    BY <1>20, UnregisterTo, CloserFields, CloserTyped DEF CloserPcs, Return
  <2>2. announce' \in [Clients \X Occasions -> BroadcastStates]
    BY <1>20, AdvanceType DEF Unregister, BroadcastPcs, TypeOK
  <2>3. QED
    BY <1>20, <2>1, <2>2 DEF Unregister, TypeOK
<1>21. ASSUME NEW p \in Closers, LockClient(p) PROVE TypeOK'
  <2>1. closer' \in [Closers -> CloserStates]
    BY <1>21, LockTo, CloserFields, CloserTyped DEF CloserPcs
  <2>2. QED
    BY <1>21, <2>1 DEF LockClient, TypeOK
<1>22. ASSUME NEW p \in Closers, CloseChannel(p) PROVE TypeOK'
  <2>1. closer' \in [Closers -> CloserStates]
    BY <1>22, CloseChannelTo, CloserFields, CloserTyped DEF CloserPcs, AfterClose
  <2>2. QED
    BY <1>22, <2>1 DEF CloseChannel, TypeOK
<1>23. ASSUME NEW p \in Closers, CloseConn(p) PROVE TypeOK'
  <2>1. closer' \in [Closers -> CloserStates]
    BY <1>23, CloseConnTo, CloserFields, CloserTyped DEF CloserPcs, AfterClose
  <2>2. QED
    BY <1>23, <2>1 DEF CloseConn, TypeOK
<1>24. ASSUME NEW p \in Closers, AnnounceOffline(p) PROVE TypeOK'
  <2>1. closer' \in [Closers -> CloserStates]
    BY <1>24, AnnounceTo, CloserFields, CloserTyped DEF CloserPcs, Return
  <2>2. announce' \in [Clients \X Occasions -> BroadcastStates]
    BY <1>24, AdvanceType DEF AnnounceOffline, BroadcastPcs
  <2>3. QED
    BY <1>24, <2>1, <2>2 DEF AnnounceOffline, TypeOK
<1>25. ASSUME NEW b \in Clients \X Occasions, BroadcastFind(b) PROVE TypeOK'
  <2>1. announce' \in [Clients \X Occasions -> BroadcastStates]
    BY <1>25, BroadcastStays
  <2>2. QED
    BY <1>25, <2>1 DEF BroadcastFind, TypeOK
<1>26. ASSUME NEW b \in Clients \X Occasions, NEW c \in Clients, BroadcastTo(b, c) PROVE TypeOK'
  <2>1. announce' \in [Clients \X Occasions -> BroadcastStates]
    BY <1>26, BroadcastStays
  <2>2. queue' \in [Clients -> Seq(DirectFrames \cup {Other})] /\ \A d \in Clients : Len(queue'[d]) <= SendCap
    BY <1>26, QueueStays DEF BroadcastTo, Frames
  <2>3. QED
    BY <1>26, <2>1, <2>2 DEF BroadcastTo, TypeOK
<1>27. QED
  BY <1>1, <1>2, <1>3, <1>4, <1>5, <1>6, <1>7, <1>8, <1>9, <1>10, <1>11, <1>12, <1>13, <1>14, <1>15, <1>16, <1>17, <1>18, <1>19, <1>20, <1>21, <1>22, <1>23, <1>24, <1>25, <1>26 DEF Next, ReaderStep, WriterStep, CloserStep, Closers

-----------------------------------------------------------------------------
(* What a step is: a connection reads, a readLoop ends, somebody closes, or *)
(* nothing happens to the map, the closed flags, readers and closers.       *)

Reads(c) ==
    \/ Authenticate(c) \/ AddClient(c) \/ Greet(c) \/ \E u \in Users : StartSend(c, u)
    \/ \E d \in Clients : SendTo(c, d)
    \/ WaitAccepted(c) \/ WaitTimeout(c) \/ Reply(c)

Closes(p) ==
    \/ p \in Sessions /\ (RevokeSession(p) \/ DisconnectSession(p))
    \/ p = Server /\ (Shutdown \/ ShutdownLocks)
    \/ \E c \in Clients : NextTarget(p, c)
    \/ LastTarget(p) \/ Unregister(p) \/ LockClient(p) \/ CloseChannel(p)
    \/ CloseConn(p) \/ AnnounceOffline(p)

LEMMA StepCases ==
    ASSUME [Next]_vars
    PROVE  \/ UNCHANGED <<registered, closed, reader, closer>>
           \/ \E c \in Clients : Reads(c)
           \/ \E c \in Clients : ReadFails(c)
           \/ \E p \in Closers : Closes(p)
<1>1. CASE UNCHANGED vars
  BY <1>1 DEF vars
<1>2. ASSUME NEW c \in Clients, WriterStep(c) \/ WriteFails(c)
      PROVE  UNCHANGED <<registered, closed, reader, closer>>
  BY <1>2 DEF WriterStep, Write, WriterStops, WriteFails
<1>3. ASSUME NEW b, NEW c, BroadcastFind(b) \/ BroadcastTo(b, c)
      PROVE  UNCHANGED <<registered, closed, reader, closer>>
  BY <1>3 DEF BroadcastFind, BroadcastTo
<1>4. Sessions \subseteq Closers /\ Server \in Closers
  BY HubConstants
<1>5. QED
  BY <1>1, <1>2, <1>3, <1>4 DEF Next, ReaderStep, CloserStep, Reads, Closes

\* What becomes of a connection that reads.
ReadOutcome(c, pc, todo, on, n) ==
    /\ ReaderTo(c, pc, todo, on, n)
    /\ pc \in ReaderPcs \ {"offline", "done"} /\ on \in Clients /\ n \in Nat
    /\ pc = "add" <=> reader[c].pc = "offline"
    /\ pc \in {"send", "wait"} => n > 0
    /\ pc = "wait" => ~closed[on]

\* A connection that reads does nothing to closed flags and closers; only
\* AddClient adds it to the map.
LEMMA ReadsMoves ==
    ASSUME TypeOK, HandshakeOK, NEW c \in Clients, Reads(c)
    PROVE  /\ UNCHANGED <<closed, closer>>
           /\ \/ UNCHANGED registered /\ reader[c].pc # "add"
              \/ registered' = registered \cup {c} /\ reader[c].pc = "add" /\ HubFree
           /\ reader[c].pc # "done"
           /\ \E pc, todo, on, n : ReadOutcome(c, pc, todo, on, n)
<1>1. reader[c].on \in Clients /\ reader[c].n \in Nat
  BY ReaderFields
<1>2. CASE Authenticate(c)
  <2>1. ReaderTo(c, "add", reader[c].todo, reader[c].on, reader[c].n)
    BY <1>2, AuthenticateTo
  <2>2. ReadOutcome(c, "add", reader[c].todo, reader[c].on, reader[c].n)
    BY <1>1, <1>2, <2>1 DEF Authenticate, ReadOutcome, ReaderPcs
  <2>3. QED
    BY <1>2, <2>2 DEF Authenticate
<1>3. CASE AddClient(c)
  <2>1. ReaderTo(c, "greet", reader[c].todo, reader[c].on, reader[c].n)
    BY <1>3, AddTo
  <2>2. ReadOutcome(c, "greet", reader[c].todo, reader[c].on, reader[c].n)
    BY <1>1, <1>3, <2>1 DEF AddClient, ReadOutcome, ReaderPcs
  <2>3. QED
    BY <1>3, <2>2 DEF AddClient
<1>4. CASE Greet(c)
  <2>1. ReaderTo(c, "read", reader[c].todo, reader[c].on, reader[c].n)
    BY <1>4, GreetTo
  <2>2. ReadOutcome(c, "read", reader[c].todo, reader[c].on, reader[c].n)
    BY <1>1, <1>4, <2>1 DEF Greet, ReadOutcome, ReaderPcs
  <2>3. QED
    BY <1>4, <2>2 DEF Greet
<1>5. CASE \E u \in Users : StartSend(c, u)
  <2>1. PICK u \in Users : StartSend(c, u)
    BY <1>5
  <2>2. PICK pc \in ReaderPcs : pc = IF Of(u) = {} THEN "reply" ELSE "send"
    BY DEF ReaderPcs
  <2>3. ReaderTo(c, pc, Of(u), reader[c].on, reader[c].n + 1)
    BY <2>1, <2>2, StartSendTo
  <2>4. reader[c].n + 1 \in Nat /\ reader[c].n + 1 > 0
    BY <1>1
  <2>5. reader[c].pc = "read"
    BY <2>1 DEF StartSend
  <2>6. ReadOutcome(c, pc, Of(u), reader[c].on, reader[c].n + 1)
    BY <1>1, <2>2, <2>3, <2>4, <2>5 DEF ReadOutcome
  <2>7. QED
    BY <2>1, <2>5, <2>6 DEF StartSend
<1>6. ASSUME NEW d, reader' = Served(c, d), reader[c].pc \in {"send", "wait"}
      PROVE  \E pc, todo, on, n : ReadOutcome(c, pc, todo, on, n)
  <2>1. PICK rest : rest = reader[c].todo \ {d}
    OBVIOUS
  <2>2. PICK pc \in ReaderPcs : pc = IF rest = {} THEN "reply" ELSE "send"
    BY DEF ReaderPcs
  <2>3. ReaderTo(c, pc, rest, c, reader[c].n)
    BY <1>6, <2>1, <2>2, ServedTo
  <2>4. ReadOutcome(c, pc, rest, c, reader[c].n)
    BY <1>1, <1>6, <2>2, <2>3 DEF HandshakeOK, ReadOutcome
  <2>5. QED
    BY <2>4
<1>7. CASE \E d \in Clients : SendTo(c, d)
  <2>1. PICK d \in Clients : SendTo(c, d)
    BY <1>7
  <2>2. CASE reader' = Served(c, d)
    BY <1>6, <2>1, <2>2 DEF SendTo
  <2>3. CASE ~closed[d] /\ reader' = [reader EXCEPT ![c].pc = "wait", ![c].on = d]
    <3>1. ReaderTo(c, "wait", reader[c].todo, d, reader[c].n)
      BY <2>3, WaitTo
    <3>2. ReadOutcome(c, "wait", reader[c].todo, d, reader[c].n)
      BY <1>1, <2>1, <2>3, <3>1 DEF SendTo, HandshakeOK, ReaderPcs, ReadOutcome
    <3>3. QED
      BY <2>1, <3>2 DEF SendTo
  <2>4. QED
    BY <2>1, <2>2, <2>3 DEF SendTo
<1>8. CASE WaitAccepted(c) \/ WaitTimeout(c)
  BY <1>6, <1>8 DEF WaitAccepted, WaitTimeout
<1>9. CASE Reply(c)
  <2>1. ReaderTo(c, "read", reader[c].todo, reader[c].on, reader[c].n)
    BY <1>9, ReplyTo
  <2>2. ReadOutcome(c, "read", reader[c].todo, reader[c].on, reader[c].n)
    BY <1>1, <1>9, <2>1 DEF Reply, ReadOutcome, ReaderPcs
  <2>3. QED
    BY <1>9, <2>2 DEF Reply
<1>10. QED
  BY <1>2, <1>3, <1>4, <1>5, <1>7, <1>8, <1>9 DEF Reads

-----------------------------------------------------------------------------
(* The handshake and the channels.                                          *)

\* The handshake is passed once.
LEMMA WasAddedStays ==
    ASSUME TypeOK, HandshakeOK, [Next]_vars, NEW c \in Clients, WasAdded(c)
    PROVE  WasAdded(c)'
<1>1. CASE UNCHANGED reader
  BY <1>1 DEF WasAdded
<1>2. ASSUME NEW d \in Clients, Reads(d) PROVE WasAdded(c)'
  <2>1. PICK pc, todo, on, n : ReadOutcome(d, pc, todo, on, n)
    BY <1>2, ReadsMoves
  <2>2. reader'[d].pc = pc /\ \A e \in Clients \ {d} : reader'[e] = reader[e]
    BY <2>1 DEF ReadOutcome, ReaderTo, TypeOK
  <2>3. QED
    BY <2>1, <2>2 DEF ReadOutcome, WasAdded
<1>3. ASSUME NEW d \in Clients, ReadFails(d) PROVE WasAdded(c)'
  <2>1. ReaderTo(d, "done", reader[d].todo, reader[d].on, reader[d].n)
    BY <1>3, ReadFailsTo
  <2>2. reader'[d].pc = "done" /\ \A e \in Clients \ {d} : reader'[e] = reader[e]
    BY <2>1 DEF ReaderTo, TypeOK
  <2>3. QED
    BY <2>2 DEF WasAdded
<1>4. ASSUME NEW p \in Closers, Closes(p) PROVE UNCHANGED reader
  BY <1>4 DEF Closes, RevokeSession, DisconnectSession, Shutdown, ShutdownLocks, NextTarget,
              LastTarget, Unregister, LockClient, CloseChannel, CloseConn, AnnounceOffline
<1>5. QED
  BY <1>1, <1>2, <1>3, <1>4, StepCases

LEMMA HandshakeStep ==
    ASSUME TypeOK, HandshakeOK, [Next]_vars
    PROVE  HandshakeOK'
<1>1. CASE UNCHANGED <<registered, reader>>
  BY <1>1 DEF HandshakeOK, WasAdded
<1>2. ASSUME NEW c \in Clients, Reads(c) PROVE HandshakeOK'
  <2>1. PICK pc, todo, on, n : ReadOutcome(c, pc, todo, on, n)
    BY <1>2, ReadsMoves
  <2>2. /\ reader'[c].pc = pc /\ reader'[c].n = n
        /\ \A d \in Clients \ {c} : reader'[d] = reader[d]
    BY <2>1 DEF ReadOutcome, ReaderTo, TypeOK
  <2>3. \A d \in registered' : WasAdded(d)'
    <3>1. ASSUME NEW d \in registered', d # c PROVE WasAdded(d)'
      <4>1. d \in registered
        BY <1>2, <3>1, ReadsMoves
      <4>2. d \in Clients /\ WasAdded(d)
        BY <4>1 DEF HandshakeOK, TypeOK
      <4>3. QED
        BY <2>2, <3>1, <4>2 DEF WasAdded
    <3>2. ASSUME c \in registered' PROVE WasAdded(c)'
      BY <1>2, <2>1, <2>2, <3>2, ReadsMoves DEF ReadOutcome, HandshakeOK, WasAdded
    <3>3. QED
      BY <3>1, <3>2
  <2>4. QED
    BY <2>1, <2>2, <2>3 DEF ReadOutcome, HandshakeOK
<1>3. ASSUME NEW c \in Clients, ReadFails(c) PROVE HandshakeOK'
  <2>1. /\ reader'[c].pc = "done" /\ \A d \in Clients \ {c} : reader'[d] = reader[d]
        /\ registered' = registered
    BY <1>3, ReadFailsTo DEF ReadFails, ReaderTo, TypeOK
  <2>2. WasAdded(c)' /\ \A d \in Clients \ {c} : WasAdded(d) <=> WasAdded(d)'
    BY <2>1 DEF WasAdded
  <2>3. registered \subseteq Clients
    BY DEF TypeOK
  <2>4. QED
    BY <2>1, <2>2, <2>3 DEF HandshakeOK
<1>4. ASSUME NEW p \in Closers, Closes(p)
      PROVE  UNCHANGED reader /\ registered' \subseteq registered
  BY <1>4 DEF Closes, RevokeSession, DisconnectSession, Shutdown, ShutdownLocks, NextTarget,
              LastTarget, Unregister, LockClient, CloseChannel, CloseConn, AnnounceOffline
<1>5. ASSUME NEW p \in Closers, Closes(p) PROVE HandshakeOK'
  BY <1>4, <1>5 DEF HandshakeOK, WasAdded
<1>6. QED
  BY <1>1, <1>2, <1>3, <1>5, StepCases

LEMMA ChannelStep ==
    ASSUME TypeOK, HandshakeOK, NoSendOnClosedChannel, [Next]_vars
    PROVE  NoSendOnClosedChannel'
<1>1. CASE UNCHANGED <<closed, reader>>
  BY <1>1 DEF NoSendOnClosedChannel, Waiting
<1>2. ASSUME NEW c \in Clients, Reads(c) PROVE NoSendOnClosedChannel'
  <2>1. PICK pc, todo, on, n : ReadOutcome(c, pc, todo, on, n)
    BY <1>2, ReadsMoves
  <2>2. /\ reader'[c].pc = pc /\ reader'[c].on = on
        /\ \A d \in Clients \ {c} : reader'[d] = reader[d]
        /\ closed' = closed
    BY <1>2, <2>1, ReadsMoves DEF ReadOutcome, ReaderTo, TypeOK
  <2>3. QED
    BY <2>1, <2>2 DEF ReadOutcome, NoSendOnClosedChannel, Waiting
<1>3. ASSUME NEW c \in Clients, ReadFails(c) PROVE NoSendOnClosedChannel'
  BY <1>3, ReadFailsTo DEF ReadFails, NoSendOnClosedChannel, Waiting, ReaderTo, TypeOK
<1>4. ASSUME NEW p \in Closers, Closes(p) PROVE NoSendOnClosedChannel'
  <2>1. CASE CloseChannel(p)
    BY <2>1 DEF CloseChannel, NoSendOnClosedChannel, Waiting, TypeOK
  <2>2. CASE ~CloseChannel(p)
    <3>1. UNCHANGED <<closed, reader>>
      BY <1>4, <2>2 DEF Closes, RevokeSession, DisconnectSession, Shutdown, ShutdownLocks,
            NextTarget, LastTarget, Unregister, LockClient, CloseConn, AnnounceOffline
    <3>2. QED
      BY <1>1, <3>1
  <2>3. QED
    BY <2>1, <2>2
<1>5. QED
  BY <1>1, <1>2, <1>3, <1>4, StepCases

-----------------------------------------------------------------------------
(* Closers.                                                                 *)

LEMMA CloserMoves ==
    ASSUME TypeOK, NEW p \in Closers, NEW pc, NEW todo, NEW found, NEW target,
           CloserTo(p, pc, todo, found, target)
    PROVE  /\ closer'[p].pc = pc /\ closer'[p].todo = todo
           /\ closer'[p].found = found /\ closer'[p].target = target
           /\ \A q \in Closers \ {p} : closer'[q] = closer[q]
BY DEF TypeOK, CloserTo

\* Where a closer may be, by its kind.
CloserOutcome(p, pc, todo, found, target) ==
    /\ CloserTo(p, pc, todo, found, target)
    /\ pc # "idle"
    /\ p \in Clients => /\ closer[p].pc # "idle" /\ target = closer[p].target
                        /\ pc \in {"remove", "close", "lock", "shut", "announce", "done"}
    /\ p \in Sessions => pc # "cancel"
    /\ p = Server => pc \in {"cancel", "next", "close", "lock", "shut", "done"}

LEMMA ClosesOutcome ==
    ASSUME TypeOK, ClosersOK, NEW p \in Closers, Closes(p)
    PROVE  \E pc, todo, found, target : CloserOutcome(p, pc, todo, found, target)
<1> USE HubConstants
<1>1. ASSUME NEW pc, NEW todo, NEW found, NEW target,
             CloserTo(p, pc, todo, found, target), pc # "idle",
             p \in Clients => closer[p].pc # "idle" /\ target = closer[p].target
                              /\ pc \in {"remove", "close", "lock", "shut", "announce", "done"},
             p \in Sessions => pc # "cancel",
             p = Server => pc \in {"cancel", "next", "close", "lock", "shut", "done"}
      PROVE  \E a, b, c, d : CloserOutcome(p, a, b, c, d)
  <2>1. CloserOutcome(p, pc, todo, found, target)
    BY <1>1 DEF CloserOutcome
  <2>2. QED
    BY <2>1
<1>2. CASE p \in Sessions /\ RevokeSession(p)
  BY <1>1, <1>2, RevokeTo
<1>3. CASE p \in Sessions /\ DisconnectSession(p)
  <2>1. PICK matches : matches = {c \in registered : ClientSession[c] = p}
    OBVIOUS
  <2>2. CloserTo(p, "next", matches, matches, closer[p].target)
    BY <1>3, <2>1, DisconnectTo
  <2>3. QED
    BY <1>1, <1>3, <2>2
<1>4. CASE p = Server /\ Shutdown
  BY <1>1, <1>4, ShutdownTo
<1>5. CASE p = Server /\ ShutdownLocks
  BY <1>1, <1>5, ShutdownLocksTo
<1>6. CASE \E c \in Clients : NextTarget(p, c)
  <2>1. PICK c \in Clients : NextTarget(p, c)
    BY <1>6
  <2>2. PICK pc : pc = IF p = Server THEN "close" ELSE "remove"
    OBVIOUS
  <2>3. CloserTo(p, pc, closer[p].todo \ {c}, closer[p].found, c)
    BY <2>1, <2>2, NextTargetTo
  <2>4. p \notin Clients
    BY <2>1 DEF NextTarget, ClosersOK
  <2>5. QED
    BY <1>1, <2>2, <2>3, <2>4
<1>7. CASE LastTarget(p)
  <2>1. p \notin Clients
    BY <1>7 DEF LastTarget, ClosersOK
  <2>2. QED
    BY <1>1, <1>7, <2>1, LastTargetTo
<1>8. CASE Unregister(p)
  <2>1. p # Server
    BY <1>8 DEF Unregister, ClosersOK
  <2>2. PICK pc : pc = IF closer[p].target \in registered THEN "close" ELSE Return(p)
    OBVIOUS
  <2>3. CloserTo(p, pc, closer[p].todo, closer[p].found, closer[p].target)
    BY <1>8, <2>2, UnregisterTo
  <2>4. p \in Clients => closer[p].pc # "idle"
    BY <1>8 DEF Unregister
  <2>5. QED
    BY <1>1, <2>1, <2>2, <2>3, <2>4 DEF Return
<1>9. CASE LockClient(p)
  <2>1. closer[p].pc = "close" /\ CloserTo(p, "lock", closer[p].todo, closer[p].found, closer[p].target)
    BY <1>9, LockTo DEF LockClient
  <2>2. QED
    BY <1>1, <2>1
<1>10. CASE CloseChannel(p)
  <2>1. PICK pc : pc = IF closed[closer[p].target] THEN AfterClose(p) ELSE "shut"
    OBVIOUS
  <2>2. closer[p].pc = "lock" /\ CloserTo(p, pc, closer[p].todo, closer[p].found, closer[p].target)
    BY <1>10, <2>1, CloseChannelTo DEF CloseChannel
  <2>3. QED
    BY <1>1, <2>1, <2>2 DEF AfterClose
<1>11. CASE CloseConn(p)
  <2>1. PICK pc : pc = AfterClose(p)
    OBVIOUS
  <2>2. closer[p].pc = "shut" /\ CloserTo(p, pc, closer[p].todo, closer[p].found, closer[p].target)
    BY <1>11, <2>1, CloseConnTo DEF CloseConn
  <2>3. QED
    BY <1>1, <2>1, <2>2 DEF AfterClose
<1>12. CASE AnnounceOffline(p)
  <2>1. PICK pc : pc = Return(p)
    OBVIOUS
  <2>2. closer[p].pc = "announce" /\ CloserTo(p, pc, closer[p].todo, closer[p].found, closer[p].target)
    BY <1>12, <2>1, AnnounceTo DEF AnnounceOffline
  <2>3. p # Server
    BY <2>2 DEF ClosersOK
  <2>4. QED
    BY <1>1, <2>1, <2>2, <2>3 DEF Return
<1>13. QED
  BY <1>2, <1>3, <1>4, <1>5, <1>6, <1>7, <1>8, <1>9, <1>10, <1>11, <1>12 DEF Closes

\* What closers do, whoever they are.
LEMMA ClosesMoves ==
    ASSUME TypeOK, ClosersOK, NEW p \in Closers, Closes(p)
    PROVE  /\ UNCHANGED reader /\ registered' \subseteq registered
           /\ \A q \in Closers \ {p} : closer'[q] = closer[q]
           /\ \A c \in Clients : closed[c] => closed'[c]
<1>1. UNCHANGED reader /\ registered' \subseteq registered
  BY DEF Closes, RevokeSession, DisconnectSession, Shutdown, ShutdownLocks, NextTarget,
         LastTarget, Unregister, LockClient, CloseChannel, CloseConn, AnnounceOffline
<1>2. \A q \in Closers \ {p} : closer'[q] = closer[q]
  BY ClosesOutcome, CloserMoves DEF CloserOutcome
<1>3. \A c \in Clients : closed[c] => closed'[c]
  BY DEF Closes, RevokeSession, DisconnectSession, Shutdown, ShutdownLocks, NextTarget,
         LastTarget, Unregister, LockClient, CloseChannel, CloseConn, AnnounceOffline, TypeOK
<1>4. QED
  BY <1>1, <1>2, <1>3

\* A readLoop that ends has not been closing anything.
LEMMA ReadEnds ==
    ASSUME TypeOK, ClosersOK, NEW c \in Clients, ReadFails(c)
    PROVE  /\ c \in Closers /\ UNCHANGED <<registered, closed>>
           /\ closer[c].pc = "idle" /\ closer'[c].pc = "remove" /\ closer'[c].target = c
           /\ \A q \in Closers \ {c} : closer'[q] = closer[q]
           /\ reader'[c].pc = "done" /\ \A d \in Clients \ {c} : reader'[d] = reader[d]
<1>1. c \in Closers
  BY HubConstants
<1>2. UNCHANGED <<registered, closed>> /\ closer[c].pc = "idle"
  BY DEF ReadFails, ClosersOK
<1>3. CloserTo(c, "remove", closer[c].todo, closer[c].found, c)
  BY ReadEndsTo
<1>4. ReaderTo(c, "done", reader[c].todo, reader[c].on, reader[c].n)
  BY ReadFailsTo
<1>5. reader'[c].pc = "done" /\ \A d \in Clients \ {c} : reader'[d] = reader[d]
  BY <1>4 DEF ReaderTo, TypeOK
<1>6. QED
  BY <1>1, <1>2, <1>3, <1>5, CloserMoves

LEMMA ClosersStep ==
    ASSUME TypeOK, HandshakeOK, ClosersOK, [Next]_vars
    PROVE  ClosersOK'
<1> USE HubConstants
<1>1. CASE UNCHANGED <<reader, closer>>
  BY <1>1 DEF ClosersOK
<1>2. ASSUME NEW c \in Clients, Reads(c) PROVE ClosersOK'
  <2>1. PICK pc, todo, on, n : ReadOutcome(c, pc, todo, on, n)
    BY <1>2, ReadsMoves
  <2>2. reader'[c].pc # "done" /\ \A d \in Clients \ {c} : reader'[d] = reader[d]
    BY <2>1 DEF ReadOutcome, ReaderTo, TypeOK
  <2>3. reader[c].pc # "done" /\ UNCHANGED closer
    BY <1>2, ReadsMoves
  <2>4. QED
    BY <2>2, <2>3 DEF ClosersOK
<1>3. ASSUME NEW c \in Clients, ReadFails(c) PROVE ClosersOK'
  BY <1>3, ReadEnds DEF ClosersOK
<1>4. ASSUME NEW p \in Closers, Closes(p) PROVE ClosersOK'
  <2>1. UNCHANGED reader
    BY <1>4, ClosesMoves
  <2>2. PICK pc, todo, found, target : CloserOutcome(p, pc, todo, found, target)
    BY <1>4, ClosesOutcome
  <2>3. /\ closer'[p].pc = pc /\ closer'[p].target = target
        /\ \A q \in Closers \ {p} : closer'[q] = closer[q]
    BY <2>2, CloserMoves DEF CloserOutcome
  <2>4. QED
    BY <2>1, <2>2, <2>3 DEF CloserOutcome, ClosersOK
<1>5. QED
  BY <1>1, <1>2, <1>3, <1>4, StepCases

-----------------------------------------------------------------------------
(* Responsibility.                                                          *)

\* Who is bound to close a connection does so before it turns to anything else.
LEMMA SafeStays ==
    ASSUME TypeOK, HandshakeOK, ClosersOK, [Next]_vars, NEW c \in Clients, Safe(c)
    PROVE  Safe(c)'
<1>1. CASE UNCHANGED <<closed, closer>>
  BY <1>1 DEF Safe, IsClosing
<1>2. ASSUME NEW d \in Clients, ReadFails(d) PROVE Safe(c)'
  BY <1>2, ReadEnds DEF Safe, IsClosing
<1>3. ASSUME NEW p \in Closers, Closes(p) PROVE Safe(c)'
  <2>1. CASE closed[c]
    BY <1>3, <2>1, ClosesMoves DEF Safe
  <2>2. CASE \E q \in Closers \ {p} : IsClosing(q, c)
    BY <1>3, <2>2, ClosesMoves DEF Safe, IsClosing
  <2>3. CASE IsClosing(p, c)
    <3>1. CASE LockClient(p)
      <4>1. CloserTo(p, "lock", closer[p].todo, closer[p].found, closer[p].target)
        BY <3>1, LockTo
      <4>2. closer'[p].pc = "lock" /\ closer'[p].target = c
        BY <2>3, <4>1, CloserMoves DEF IsClosing
      <4>3. QED
        BY <4>2 DEF Safe, IsClosing
    <3>2. CASE CloseChannel(p)
      BY <2>3, <3>2 DEF CloseChannel, IsClosing, Safe, TypeOK
    <3>3. closer[p].pc \in {"close", "lock"}
      BY <2>3 DEF IsClosing
    <3>4. QED
      BY <1>3, <3>1, <3>2, <3>3 DEF Closes, RevokeSession, DisconnectSession, Shutdown,
            ShutdownLocks, NextTarget, LastTarget, Unregister, CloseConn, AnnounceOffline
  <2>4. QED
    BY <2>1, <2>2, <2>3 DEF Safe
<1>4. QED
  BY <1>1, <1>2, <1>3, ReadsMoves, StepCases

\* RemoveClient leaves the connection safe.
LEMMA UnregisterIsSafe ==
    ASSUME IInv, NEW p \in Closers, Unregister(p), [Next]_vars,
           NEW c \in Clients, c = closer[p].target, WasAdded(c)
    PROVE  c \notin registered' /\ Safe(c)'
<1>1. c \notin registered'
  BY DEF Unregister
<1>2. CASE c \in registered
  <2>1. CloserTo(p, "close", closer[p].todo, closer[p].found, closer[p].target)
    BY <1>2, UnregisterTo DEF IInv
  <2>2. closer'[p].pc = "close" /\ closer'[p].target = c
    BY <2>1, CloserMoves DEF IInv
  <2>3. QED
    BY <1>1, <2>2 DEF Safe, IsClosing
<1>3. CASE c \notin registered
  BY <1>1, <1>3, SafeStays DEF IInv, NoOrphan, Safe
<1>4. QED
  BY <1>2, <1>3

LEMMA OrphanStep ==
    ASSUME IInv, [Next]_vars
    PROVE  NoOrphan'
<1> USE DEF IInv
<1> SUFFICES ASSUME NEW c \in Clients, WasAdded(c)', c \notin registered'
             PROVE  Safe(c)'
  BY DEF NoOrphan, Safe
<1>1. CASE WasAdded(c) /\ c \notin registered
  BY <1>1, SafeStays DEF NoOrphan, Safe
<1>2. CASE c \in registered
  <2>1. PICK p \in Closers : Closes(p)
    BY <1>2, StepCases, ReadsMoves, ReadEnds
  <2>2. CASE Unregister(p)
    <3>1. c = closer[p].target
      BY <1>2, <2>2 DEF Unregister
    <3>2. QED
      BY <1>2, <2>2, <3>1, UnregisterIsSafe DEF HandshakeOK
  <2>3. CASE LastTarget(p)
    <3>1. p = Server /\ closer[p].pc = "next" /\ closer[p].todo = {}
      BY <1>2, <2>3 DEF LastTarget
    <3>2. Safe(c)
      BY <1>2, <3>1 DEF SweepOK, HubFree
    <3>3. QED
      BY <3>2, SafeStays
  <2>4. CASE ~Unregister(p) /\ ~LastTarget(p)
    BY <1>2, <2>1, <2>4 DEF Closes, RevokeSession, DisconnectSession, Shutdown, ShutdownLocks,
          NextTarget, LockClient, CloseChannel, CloseConn, AnnounceOffline
  <2>5. QED
    BY <2>2, <2>3, <2>4
<1>3. CASE ~WasAdded(c) /\ c \notin registered
  <2>1. ASSUME NEW d \in Clients, Reads(d) PROVE FALSE
    <3>1. PICK pc, todo, on, n : ReadOutcome(d, pc, todo, on, n)
      BY <2>1, ReadsMoves
    <3>2. reader'[d].pc = pc /\ \A e \in Clients \ {d} : reader'[e] = reader[e]
      BY <3>1 DEF ReadOutcome, ReaderTo, TypeOK
    <3>3. c = d /\ reader[c].pc = "add"
      BY <1>3, <3>1, <3>2 DEF ReadOutcome, WasAdded
    <3>4. QED
      BY <2>1, <3>3, ReadsMoves
  <2>2. ASSUME NEW d \in Clients, ReadFails(d) PROVE FALSE
    BY <1>3, <2>2, ReadEnds DEF ReadFails, WasAdded
  <2>3. CASE UNCHANGED reader
    BY <1>3, <2>3 DEF WasAdded
  <2>4. QED
    BY <2>1, <2>2, <2>3, ClosesMoves, StepCases
<1>4. QED
  BY <1>1, <1>2, <1>3

\* Who is out of the map and has been added stays out of it.
LEMMA GoneStays ==
    ASSUME IInv, [Next]_vars, NEW c \in Clients, WasAdded(c), c \notin registered
    PROVE  c \notin registered'
<1>1. ASSUME NEW d \in Clients, Reads(d) PROVE c \notin registered'
  BY <1>1, ReadsMoves DEF IInv, WasAdded
<1>2. QED
  BY <1>1, StepCases, ReadEnds, ClosesMoves DEF IInv

\* What a session has found stays dealt with while somebody else moves.
LEMMA FoundKept ==
    ASSUME IInv, [Next]_vars, NEW s \in Sessions, closer'[s] = closer[s],
           NEW c \in closer'[s].found
    PROVE  WasAdded(c)' /\ Handled(s, c)'
<1>1. c \in Clients /\ WasAdded(c) /\ Handled(s, c)
  BY CloserFields, HubConstants DEF IInv, FoundOK
<1>2. WasAdded(c)'
  BY <1>1, WasAddedStays DEF IInv
<1>3. c \notin registered /\ Safe(c) => c \notin registered' /\ Safe(c)'
  BY <1>1, GoneStays, SafeStays DEF IInv
<1>4. QED
  BY <1>1, <1>2, <1>3 DEF Handled

\* DisconnectSession deals with what it has found, one connection at a time.
LEMMA FoundByItself ==
    ASSUME IInv, [Next]_vars, NEW s \in Sessions, Closes(s)
    PROVE  /\ closer'[s].pc \in {"idle", "find"} => closer'[s].found = {}
           /\ closer'[s].pc = "done" => closer'[s].todo = {}
           /\ \A c \in closer'[s].found : WasAdded(c)' /\ Handled(s, c)'
<1> DEFINE Goal == /\ closer'[s].pc \in {"idle", "find"} => closer'[s].found = {}
                   /\ closer'[s].pc = "done" => closer'[s].todo = {}
                   /\ \A c \in closer'[s].found : WasAdded(c)' /\ Handled(s, c)'
<1> USE DEF IInv
<1>1. s \in Closers /\ s # Server /\ s \notin Clients /\ UNCHANGED reader
  BY HubConstants, ClosesMoves
<1>2. \A c \in Clients : WasAdded(c) => WasAdded(c)'
  BY <1>1 DEF WasAdded
<1>3. \A c \in closer[s].found : c \in Clients /\ WasAdded(c) /\ Handled(s, c)
  BY <1>1, CloserFields DEF FoundOK
<1>4. \A c \in Clients : WasAdded(c) /\ c \notin registered /\ Safe(c)
                          => c \notin registered' /\ Safe(c)'
  BY GoneStays, SafeStays
\* A step between two connections.
<1>5. ASSUME NEW pc, NEW target, pc \notin {"idle", "find", "done"}, closer[s].pc # "remove",
             CloserTo(s, pc, closer[s].todo, closer[s].found, target)
      PROVE  Goal
  <2>1. /\ closer'[s].pc = pc /\ closer'[s].todo = closer[s].todo
        /\ closer'[s].found = closer[s].found
    BY <1>1, <1>5, CloserMoves
  <2>2. QED
    BY <1>2, <1>3, <1>4, <1>5, <2>1 DEF Handled
<1>6. CASE RevokeSession(s)
  <2>1. CloserTo(s, "find", closer[s].todo, closer[s].found, closer[s].target)
    BY <1>1, <1>6, RevokeTo
  <2>2. closer'[s].pc = "find" /\ closer'[s].found = {}
    BY <1>1, <1>6, <2>1, CloserMoves DEF RevokeSession, FoundOK
  <2>3. QED
    BY <2>2
<1>7. CASE DisconnectSession(s)
  <2>1. PICK matches : matches = {c \in registered : ClientSession[c] = s}
    OBVIOUS
  <2>2. CloserTo(s, "next", matches, matches, closer[s].target)
    BY <1>1, <1>7, <2>1, DisconnectTo
  <2>3. closer'[s].pc = "next" /\ closer'[s].todo = matches /\ closer'[s].found = matches
    BY <1>1, <2>2, CloserMoves
  <2>4. \A c \in matches : c \in Clients /\ WasAdded(c)
    BY <2>1 DEF TypeOK, HandshakeOK
  <2>5. QED
    BY <1>2, <2>3, <2>4 DEF Handled
<1>8. CASE \E d \in Clients : NextTarget(s, d)
  <2>1. PICK d \in Clients : NextTarget(s, d)
    BY <1>8
  <2>2. CloserTo(s, "remove", closer[s].todo \ {d}, closer[s].found, d)
    BY <1>1, <2>1, NextTargetTo
  <2>3. /\ closer'[s].pc = "remove" /\ closer'[s].todo = closer[s].todo \ {d}
        /\ closer'[s].found = closer[s].found /\ closer'[s].target = d
    BY <1>1, <2>2, CloserMoves
  <2>4. closer[s].pc = "next"
    BY <2>1 DEF NextTarget
  <2>5. QED
    BY <1>2, <1>3, <1>4, <2>3, <2>4 DEF Handled
<1>9. CASE LastTarget(s)
  <2>1. CloserTo(s, "done", closer[s].todo, closer[s].found, NoTarget)
    BY <1>1, <1>9, LastTargetTo
  <2>2. /\ closer'[s].pc = "done" /\ closer'[s].todo = closer[s].todo
        /\ closer'[s].found = closer[s].found
    BY <1>1, <2>1, CloserMoves
  <2>3. closer[s].pc = "next" /\ closer[s].todo = {}
    BY <1>9 DEF LastTarget
  <2>4. QED
    BY <1>2, <1>3, <1>4, <2>2, <2>3 DEF Handled
<1>10. CASE Unregister(s)
  <2>1. PICK pc : pc = IF closer[s].target \in registered THEN "close" ELSE Return(s)
    OBVIOUS
  <2>2. pc \in {"close", "next"}
    BY <1>1, <2>1 DEF Return
  <2>3. CloserTo(s, pc, closer[s].todo, closer[s].found, closer[s].target)
    BY <1>1, <1>10, <2>1, UnregisterTo
  <2>4. /\ closer'[s].pc = pc /\ closer'[s].todo = closer[s].todo
        /\ closer'[s].found = closer[s].found
    BY <1>1, <2>3, CloserMoves
  <2>5. ASSUME NEW c \in closer[s].found, c = closer[s].target
        PROVE  c \notin registered' /\ Safe(c)'
    BY <1>1, <1>3, <1>10, <2>5, UnregisterIsSafe
  <2>6. QED
    BY <1>2, <1>3, <1>4, <2>2, <2>4, <2>5 DEF Handled
<1>11. CASE LockClient(s)
  <2>1. /\ CloserTo(s, "lock", closer[s].todo, closer[s].found, closer[s].target)
        /\ closer[s].pc = "close"
    BY <1>1, <1>11, LockTo DEF LockClient
  <2>2. QED
    BY <1>5, <2>1
<1>12. CASE CloseChannel(s)
  <2>1. PICK pc : pc = IF closed[closer[s].target] THEN AfterClose(s) ELSE "shut"
    OBVIOUS
  <2>2. /\ CloserTo(s, pc, closer[s].todo, closer[s].found, closer[s].target)
        /\ closer[s].pc = "lock"
    BY <1>1, <1>12, <2>1, CloseChannelTo DEF CloseChannel
  <2>3. pc \in {"announce", "shut"}
    BY <1>1, <2>1 DEF AfterClose
  <2>4. QED
    BY <1>5, <2>2, <2>3
<1>13. CASE CloseConn(s)
  <2>1. /\ CloserTo(s, "announce", closer[s].todo, closer[s].found, closer[s].target)
        /\ closer[s].pc = "shut"
    BY <1>1, <1>13, CloseConnTo DEF CloseConn, AfterClose
  <2>2. QED
    BY <1>5, <2>1
<1>14. CASE AnnounceOffline(s)
  <2>1. /\ CloserTo(s, "next", closer[s].todo, closer[s].found, closer[s].target)
        /\ closer[s].pc = "announce"
    BY <1>1, <1>14, AnnounceTo DEF AnnounceOffline, Return
  <2>2. QED
    BY <1>5, <2>1
<1>15. QED
  BY <1>1, <1>6, <1>7, <1>8, <1>9, <1>10, <1>11, <1>12, <1>13, <1>14 DEF Closes

LEMMA FoundStep ==
    ASSUME IInv, [Next]_vars
    PROVE  FoundOK'
<1> SUFFICES ASSUME NEW s \in Sessions
             PROVE  /\ closer'[s].pc \in {"idle", "find"} => closer'[s].found = {}
                    /\ closer'[s].pc = "done" => closer'[s].todo = {}
                    /\ \A c \in closer'[s].found : WasAdded(c)' /\ Handled(s, c)'
  BY DEF FoundOK
<1>1. s \in Closers /\ s \notin Clients
  BY HubConstants
<1>2. closer'[s] = closer[s] \/ Closes(s)
  BY <1>1, StepCases, ReadsMoves, ReadEnds, ClosesMoves DEF IInv
<1>3. CASE closer'[s] = closer[s]
  BY <1>3, FoundKept DEF IInv, FoundOK
<1>4. QED
  BY <1>2, <1>3, FoundByItself

\* While the mutex is Shutdown's, what is in the map is on its list or safe.
LEMMA SweepStep ==
    ASSUME IInv, [Next]_vars
    PROVE  SweepOK'
<1> USE DEF IInv
<1> SUFFICES ASSUME ~HubFree', NEW c \in registered'
             PROVE  c \in closer'[Server].todo \/ Safe(c)'
  BY DEF SweepOK
<1>1. Server \in Closers /\ Server \notin Clients /\ Server \notin Sessions
  BY HubConstants
<1>2. Safe(c) => Safe(c)'
  BY SafeStays, TypeStep DEF TypeOK
<1>3. ASSUME closer'[Server] = closer[Server]
      PROVE  c \in closer'[Server].todo \/ Safe(c)'
  <2>1. ~HubFree
    BY <1>3 DEF HubFree
  <2>2. registered' \subseteq registered
    BY <2>1, StepCases, ReadsMoves, ReadEnds, ClosesMoves
  <2>3. QED
    BY <1>2, <1>3, <2>1, <2>2 DEF SweepOK
<1>4. ASSUME Closes(Server)
      PROVE  c \in closer'[Server].todo \/ Safe(c)'
  <2>1. c \in registered /\ c \in Clients
    BY <1>1, <1>4, ClosesMoves DEF TypeOK
  <2>2. closer[Server].pc \notin {"remove", "announce"}
    BY DEF ClosersOK
  <2>3. ASSUME closer'[Server].todo = closer[Server].todo, ~HubFree
        PROVE  c \in closer'[Server].todo \/ Safe(c)'
    BY <1>2, <2>1, <2>3 DEF SweepOK
  <2>4. CASE Shutdown
    <3>1. CloserTo(Server, "cancel", closer[Server].todo, closer[Server].found, closer[Server].target)
      BY <2>4, ShutdownTo
    <3>2. QED
      BY <1>1, <3>1, CloserMoves DEF HubFree
  <2>5. CASE ShutdownLocks
    <3>1. CloserTo(Server, "next", registered, closer[Server].found, closer[Server].target)
      BY <2>5, ShutdownLocksTo
    <3>2. QED
      BY <1>1, <2>1, <3>1, CloserMoves
  <2>6. CASE \E d \in Clients : NextTarget(Server, d)
    <3>1. PICK d \in Clients : NextTarget(Server, d)
      BY <2>6
    <3>2. CloserTo(Server, "close", closer[Server].todo \ {d}, closer[Server].found, d)
      BY <1>1, <3>1, NextTargetTo
    <3>3. /\ closer'[Server].pc = "close" /\ closer'[Server].target = d
          /\ closer'[Server].todo = closer[Server].todo \ {d}
      BY <1>1, <3>2, CloserMoves
    <3>4. c \in closer[Server].todo \/ Safe(c)
      BY <2>1, <3>1 DEF NextTarget, HubFree, SweepOK
    <3>5. c = d => Safe(c)'
      BY <1>1, <3>3 DEF Safe, IsClosing
    <3>6. QED
      BY <1>2, <3>3, <3>4, <3>5
  <2>7. CASE LastTarget(Server)
    BY <2>7 DEF LastTarget
  <2>8. CASE LockClient(Server)
    <3>1. CloserTo(Server, "lock", closer[Server].todo, closer[Server].found, closer[Server].target)
      BY <1>1, <2>8, LockTo
    <3>2. QED
      BY <1>1, <2>3, <2>8, <3>1, CloserMoves DEF LockClient, HubFree
  <2>9. CASE CloseChannel(Server)
    <3>1. PICK pc : pc = IF closed[closer[Server].target] THEN AfterClose(Server) ELSE "shut"
      OBVIOUS
    <3>2. CloserTo(Server, pc, closer[Server].todo, closer[Server].found, closer[Server].target)
      BY <1>1, <2>9, <3>1, CloseChannelTo
    <3>3. QED
      BY <1>1, <2>3, <2>9, <3>2, CloserMoves DEF CloseChannel, HubFree
  <2>10. CASE CloseConn(Server)
    <3>1. CloserTo(Server, AfterClose(Server), closer[Server].todo, closer[Server].found, closer[Server].target)
      BY <1>1, <2>10, CloseConnTo
    <3>2. QED
      BY <1>1, <2>3, <2>10, <3>1, CloserMoves DEF CloseConn, HubFree
  <2>11. QED
    BY <1>1, <1>4, <2>2, <2>4, <2>5, <2>6, <2>7, <2>8, <2>9, <2>10
       DEF Closes, Unregister, AnnounceOffline
<1>5. closer'[Server] = closer[Server] \/ Closes(Server)
  BY <1>1, StepCases, ReadsMoves, ReadEnds, ClosesMoves
<1>6. QED
  BY <1>3, <1>4, <1>5

-----------------------------------------------------------------------------
(* The inductive invariant.                                                 *)

LEMMA Initially == Init => IInv
<1> SUFFICES ASSUME Init PROVE IInv
  OBVIOUS
<1> USE HubConstants DEF Init
<1>1. TypeOK
  <2>1. queue \in [Clients -> Seq(DirectFrames \cup {Other})] /\ \A c \in Clients : Len(queue[c]) <= SendCap
    OBVIOUS
  <2>2. reader \in [Clients -> [pc : ReaderPcs, todo : SUBSET Clients, on : Clients, n : Nat]]
        /\ \A c \in Clients : reader[c].n <= MaxSends[c]
    BY DEF ReaderPcs
  <2>3. closer \in [Closers -> [pc : CloserPcs, todo : SUBSET Clients,
                               found : SUBSET Clients, target : Clients]]
    BY DEF CloserPcs
  <2>4. announce \in [Clients \X Occasions -> [pc : BroadcastPcs, todo : SUBSET Clients]]
    BY DEF BroadcastPcs
  <2>5. QED
    BY <2>1, <2>2, <2>3, <2>4 DEF TypeOK
<1>2. HandshakeOK
  BY DEF HandshakeOK
<1>3. ClosersOK
  BY DEF ClosersOK
<1>4. NoSendOnClosedChannel
  BY DEF NoSendOnClosedChannel, Waiting
<1>5. NoOrphan
  BY DEF NoOrphan, WasAdded
<1>6. FoundOK
  BY DEF FoundOK
<1>7. SweepOK
  BY DEF SweepOK
<1>8. QED
  BY <1>1, <1>2, <1>3, <1>4, <1>5, <1>6, <1>7 DEF IInv

\* The inductive invariant holds throughout.
THEOREM Invariance == Spec => []IInv
<1>1. IInv /\ [Next]_vars => IInv'
  <2> SUFFICES ASSUME IInv, [Next]_vars PROVE IInv'
    OBVIOUS
  <2>1. TypeOK'
    BY TypeStep DEF IInv
  <2>2. HandshakeOK'
    BY HandshakeStep DEF IInv
  <2>3. ClosersOK'
    BY ClosersStep DEF IInv
  <2>4. NoSendOnClosedChannel'
    BY ChannelStep DEF IInv
  <2>5. NoOrphan'
    BY OrphanStep
  <2>6. FoundOK'
    BY FoundStep
  <2>7. SweepOK'
    BY SweepStep
  <2>8. QED
    BY <2>1, <2>2, <2>3, <2>4, <2>5, <2>6, <2>7 DEF IInv
<1>2. QED
  BY Initially, <1>1, PTL DEF Spec

\* Every variable keeps its type and no send channel exceeds its capacity
\* (wsrelay.go, the channel of a client).
THEOREM TypeCorrect == Spec => []TypeOK
<1>1. IInv => TypeOK
  BY DEF IInv
<1>2. QED
  BY Invariance, <1>1, PTL

\* No sender is ever waiting for room in a channel that is closed, so no send
\* panics (sendWithTimeout and close of wsrelay.go).
THEOREM NobodySendsOnClosedChannel == Spec => []NoSendOnClosedChannel
<1>1. IInv => NoSendOnClosedChannel
  BY DEF IInv
<1>2. QED
  BY Invariance, <1>1, PTL

\* Every connection that has left the map has its channel closed or somebody
\* who is about to close it (RemoveClient and Shutdown of wsrelay.go).
THEOREM NobodyIsOrphaned == Spec => []NoOrphan
<1>1. IInv => NoOrphan
  BY DEF IInv
<1>2. QED
  BY Invariance, <1>1, PTL

\* When DisconnectSession returns it has dealt with all it found, whoever else
\* was removing connections meanwhile (DisconnectSession of wsrelay.go).
THEOREM DisconnectCompletes == Spec => []DisconnectIsComplete
<1>1. IInv => DisconnectIsComplete
  <2> SUFFICES ASSUME IInv, NEW s \in Sessions, closer[s].pc = "done",
                      NEW c \in closer[s].found
               PROVE  c \notin registered /\ Safe(c)
    BY DEF DisconnectIsComplete, Safe
  <2>1. QED
    BY DEF IInv, FoundOK, Handled
<1>2. QED
  BY Invariance, <1>1, PTL

-----------------------------------------------------------------------------
(* Presence.                                                                *)

BothOccasions == Occasions = {"online", "offline"}

\* Connections of u that have been announced.
AnnouncedOf(u, occasion) ==
    {c \in Clients : ClientUser[c] = u /\ announce[c, occasion].pc # "none"}

\* A broadcast that is under way goes on; none is announced again.
LEMMA AnnounceMovesOn ==
    ASSUME TypeOK, NEW b \in Clients \X Occasions, NEW c,
           \/ announce' = Advance(b, "due", "go")
           \/ BroadcastFind(b) \/ BroadcastTo(b, c)
    PROVE  \A a \in Clients \X Occasions : announce'[a].pc # "none" <=> announce[a].pc # "none"
<1>0. PICK B, T : B = Clients \X Occasions /\ T = SUBSET Clients
  OBVIOUS
<1> b \in B /\ announce \in [B -> [pc : BroadcastPcs, todo : T]]
  BY <1>0 DEF TypeOK
<1>1. CASE announce' = Advance(b, "due", "go")
  BY <1>0, <1>1 DEF Advance
<1>2. CASE BroadcastFind(b)
  BY <1>0, <1>2 DEF BroadcastFind
<1>3. CASE BroadcastTo(b, c)
  <2>1. /\ \A a \in B \ {b} : announce'[a] = announce[a]
        /\ announce[b].pc = "send"
    BY <1>3 DEF BroadcastTo
  <2>2. announce'[b].pc = IF announce[b].todo = {c} THEN "done" ELSE "send"
    BY <1>3 DEF BroadcastTo
  <2>3. QED
    BY <1>0, <2>1, <2>2
<1>4. QED
  BY <1>1, <1>2, <1>3

LEMMA AnnounceStarts ==
    ASSUME TypeOK, NEW b \in Clients \X Occasions, announce' = Advance(b, "none", "due")
    PROVE  /\ announce'[b].pc # "none"
           /\ \A a \in (Clients \X Occasions) \ {b} : announce'[a] = announce[a]
<1>1. PICK B, T : B = Clients \X Occasions /\ T = SUBSET Clients
  OBVIOUS
<1>2. b \in B /\ announce \in [B -> [pc : BroadcastPcs, todo : T]]
  BY <1>1 DEF TypeOK
<1>3. announce'[b].pc # "none" /\ \A a \in B \ {b} : announce'[a] = announce[a]
  BY <1>2 DEF Advance
<1>4. QED
  BY <1>1, <1>3

\* The only steps that announce a connection, or else nothing is announced and
\* users stay as present as they are.
LEMMA PresenceCases ==
    ASSUME IInv, BothOccasions, [Next]_vars
    PROVE  \/ \E c \in Clients : AddClient(c)
           \/ \E p \in Closers : Unregister(p)
           \/ closer'[Server].pc = "done"
              /\ registered' = {} /\ UNCHANGED announce
           \/ /\ UNCHANGED registered
              /\ \A a \in Clients \X Occasions :
                    announce'[a].pc # "none" <=> announce[a].pc # "none"
<1> DEFINE Kept == /\ UNCHANGED registered
                   /\ \A a \in Clients \X Occasions :
                         announce'[a].pc # "none" <=> announce[a].pc # "none"
<1>1. CASE UNCHANGED <<registered, announce>>
  BY <1>1
<1>2. ASSUME NEW c \in Clients, Greet(c) PROVE Kept
  BY <1>2, AnnounceMovesOn DEF Greet, IInv, BothOccasions
<1>3. ASSUME NEW p \in Closers, AnnounceOffline(p) PROVE Kept
  BY <1>3, AnnounceMovesOn, CloserFields DEF AnnounceOffline, IInv, BothOccasions
<1>4. ASSUME NEW b \in Clients \X Occasions, NEW c, BroadcastFind(b) \/ BroadcastTo(b, c)
      PROVE  Kept
  BY <1>4, AnnounceMovesOn DEF BroadcastFind, BroadcastTo, IInv
<1>5. ASSUME NEW p \in Closers, LastTarget(p)
      PROVE  \/ UNCHANGED <<registered, announce>>
             \/ closer'[Server].pc = "done" /\ registered' = {} /\ UNCHANGED announce
  <2>1. CloserTo(p, "done", closer[p].todo, closer[p].found, NoTarget)
    BY <1>5, LastTargetTo DEF IInv
  <2>2. closer'[p].pc = "done"
    BY <2>1, CloserMoves DEF IInv
  <2>3. QED
    BY <1>5, <2>2 DEF LastTarget
<1>6. QED
  BY <1>1, <1>2, <1>3, <1>4, <1>5
     DEF Next, ReaderStep, WriterStep, CloserStep, Authenticate, StartSend, SendTo, WaitAccepted,
         WaitTimeout, Reply, ReadFails, Write, WriteFails, WriterStops, RevokeSession,
         DisconnectSession, Shutdown, ShutdownLocks, NextTarget, LockClient, CloseChannel,
         CloseConn, vars

LEMMA AnnouncedStep ==
    ASSUME IInv, BothOccasions, AnnouncedOK, [Next]_vars
    PROVE  AnnouncedOK'
<1> USE DEF IInv
<1> SUFFICES ASSUME NEW c \in Clients
             PROVE  /\ announce'[c, "online"].pc # "none" => WasAdded(c)'
                    /\ announce'[c, "offline"].pc # "none" => WasAdded(c)' /\ c \notin registered'
  BY DEF AnnouncedOK
<1> DEFINE Goal == /\ announce'[c, "online"].pc # "none" => WasAdded(c)'
                   /\ announce'[c, "offline"].pc # "none" => WasAdded(c)' /\ c \notin registered'
<1>1. <<c, "online">> \in Clients \X Occasions /\ <<c, "offline">> \in Clients \X Occasions
  BY DEF BothOccasions
<1>2. WasAdded(c) => WasAdded(c)' /\ (c \notin registered => c \notin registered')
  BY WasAddedStays, GoneStays
<1>3. ASSUME announce'[c, "online"].pc # "none" => announce[c, "online"].pc # "none",
             announce'[c, "offline"].pc # "none" => announce[c, "offline"].pc # "none"
      PROVE  Goal
  BY <1>2, <1>3 DEF AnnouncedOK
<1>4. ASSUME NEW d \in Clients, AddClient(d) PROVE Goal
  <2>1. CASE UNCHANGED announce
    BY <1>3, <2>1
  <2>2. CASE announce' = Advance(<<d, "online">>, "none", "due")
    <3>1. \A a \in (Clients \X Occasions) \ {<<d, "online">>} : announce'[a] = announce[a]
      BY <2>2, AnnounceStarts DEF BothOccasions
    <3>2. CASE c = d
      <4>1. c \in registered'
        BY <1>4, <3>2 DEF AddClient
      <4>2. WasAdded(c)'
        BY <4>1, HandshakeStep DEF HandshakeOK
      <4>3. announce'[c, "offline"].pc = "none"
        <5>1. announce[c, "offline"].pc = "none"
          BY <1>4, <3>2 DEF AddClient, WasAdded, AnnouncedOK
        <5>2. QED
          BY <1>1, <3>1, <5>1
      <4>4. QED
        BY <4>2, <4>3
    <3>3. CASE c # d
      BY <1>1, <1>3, <3>1, <3>3
    <3>4. QED
      BY <3>2, <3>3
  <2>3. QED
    BY <1>4, <2>1, <2>2 DEF AddClient
<1>5. ASSUME NEW p \in Closers, Unregister(p) PROVE Goal
  <2>1. CASE UNCHANGED announce
    BY <1>3, <2>1
  <2>2. CASE Of(ClientUser[closer[p].target]) = {closer[p].target}
    <3>1. PICK d \in registered : d = closer[p].target
      BY <2>2 DEF Of
    <3>2. d \in Clients /\ announce' = Advance(<<d, "offline">>, "none", "due")
      BY <1>5, <2>2, <3>1 DEF Unregister, TypeOK
    <3>3. \A a \in (Clients \X Occasions) \ {<<d, "offline">>} : announce'[a] = announce[a]
      BY <3>2, AnnounceStarts DEF BothOccasions
    <3>4. CASE c = d
      <4>1. WasAdded(c)' /\ c \notin registered'
        BY <1>2, <1>5, <3>1, <3>4 DEF Unregister, HandshakeOK
      <4>2. QED
        BY <4>1
    <3>5. CASE c # d
      BY <1>1, <1>3, <3>3, <3>5
    <3>6. QED
      BY <3>4, <3>5
  <2>3. QED
    BY <1>5, <2>1, <2>2 DEF Unregister
<1>6. CASE \A a \in Clients \X Occasions : announce'[a].pc # "none" <=> announce[a].pc # "none"
  BY <1>1, <1>3, <1>6
<1>7. QED
  BY <1>3, <1>4, <1>5, <1>6, PresenceCases

\* Shutdown does not start again.
LEMMA ShutdownStays ==
    ASSUME IInv, [Next]_vars, closer[Server].pc = "done"
    PROVE  closer'[Server].pc = "done"
<1> USE DEF IInv
<1>1. Server \in Closers /\ Server \notin Clients /\ Server \notin Sessions
  BY HubConstants
<1>2. ~Closes(Server)
  BY <1>1 DEF Closes, Shutdown, ShutdownLocks, NextTarget, LastTarget, Unregister, LockClient,
              CloseChannel, CloseConn, AnnounceOffline
<1>3. closer'[Server] = closer[Server]
  BY <1>1, <1>2, StepCases, ReadsMoves, ReadEnds, ClosesMoves
<1>4. QED
  BY <1>3

\* One more announced connection.
LEMMA OneMore ==
    ASSUME IsFiniteSet(Clients), NEW S \in SUBSET Clients, NEW c \in Clients, c \notin S
    PROVE  /\ Cardinality(S) \in Nat
           /\ Cardinality(S \cup {c}) = Cardinality(S) + 1
BY FS_Subset, FS_CardinalityType, FS_AddElement

\* The books of one user.
Balance(u) == Announced(u, "online") = Announced(u, "offline") + IF Of(u) = {} THEN 0 ELSE 1

LEMMA AddBalances ==
    ASSUME IInv, BothOccasions, AnnouncedOK, IsFiniteSet(Clients), [Next]_vars,
           NEW u \in Users, Balance(u), NEW c \in Clients, AddClient(c)
    PROVE  Balance(u)'
<1> USE DEF IInv
<1>1. registered' = registered \cup {c} /\ c \notin registered
  BY DEF AddClient, HandshakeOK, WasAdded
<1>2. CASE ClientUser[c] = u /\ Of(u) = {}
  <2>1. announce' = Advance(<<c, "online">>, "none", "due")
    BY <1>2 DEF AddClient
  <2>2. /\ announce'[c, "online"].pc # "none"
        /\ \A a \in (Clients \X Occasions) \ {<<c, "online">>} : announce'[a] = announce[a]
    BY <2>1, AnnounceStarts DEF BothOccasions
  <2>3. announce[c, "online"].pc = "none"
    BY DEF AddClient, AnnouncedOK, WasAdded
  <2>4. AnnouncedOf(u, "online")' = AnnouncedOf(u, "online") \cup {c}
    BY <1>2, <2>2 DEF AnnouncedOf, BothOccasions
  <2>5. AnnouncedOf(u, "offline")' = AnnouncedOf(u, "offline")
    BY <2>2 DEF AnnouncedOf, BothOccasions
  <2>6. c \notin AnnouncedOf(u, "online") /\ AnnouncedOf(u, "online") \in SUBSET Clients
    BY <2>3 DEF AnnouncedOf
  <2>7. Cardinality(AnnouncedOf(u, "online")') = Cardinality(AnnouncedOf(u, "online")) + 1
    BY <2>4, <2>6, OneMore
  <2>8. Of(u)' # {}
    BY <1>1, <1>2 DEF Of
  <2>9. Cardinality(AnnouncedOf(u, "online")) = Cardinality(AnnouncedOf(u, "offline")) + 0
    BY <1>2 DEF Balance, Announced, AnnouncedOf
  <2>10. Cardinality(AnnouncedOf(u, "offline")) \in Nat
    BY FS_Subset, FS_CardinalityType DEF AnnouncedOf
  <2>11. Cardinality(AnnouncedOf(u, "online")') = Cardinality(AnnouncedOf(u, "offline")') + 1
    BY <2>5, <2>7, <2>9, <2>10
  <2>12. QED
    BY <2>8, <2>11 DEF Balance, Announced, AnnouncedOf
<1>3. CASE ~(ClientUser[c] = u /\ Of(u) = {})
  <2>1. \A d \in Clients : ClientUser[d] = u =>
           announce'[d, "online"] = announce[d, "online"] /\ announce'[d, "offline"] = announce[d, "offline"]
    <3>1. CASE UNCHANGED announce
      BY <3>1
    <3>2. CASE ClientUser[c] # u /\ announce' = Advance(<<c, "online">>, "none", "due")
      <4>1. \A a \in (Clients \X Occasions) \ {<<c, "online">>} : announce'[a] = announce[a]
        BY <3>2, AnnounceStarts DEF BothOccasions
      <4>2. ASSUME NEW d \in Clients, d # c
            PROVE  {<<d, "online">>, <<d, "offline">>} \subseteq (Clients \X Occasions) \ {<<c, "online">>}
        BY <4>2 DEF BothOccasions
      <4>3. QED
        BY <3>2, <4>1, <4>2
    <3>3. QED
      BY <1>3, <3>1, <3>2 DEF AddClient
  <2>2. /\ AnnouncedOf(u, "online")' = AnnouncedOf(u, "online")
        /\ AnnouncedOf(u, "offline")' = AnnouncedOf(u, "offline")
    BY <2>1 DEF AnnouncedOf
  <2>3. Of(u)' = {} <=> Of(u) = {}
    BY <1>1, <1>3 DEF Of
  <2>4. QED
    BY <2>2, <2>3 DEF Balance, Announced, AnnouncedOf
<1>4. QED
  BY <1>2, <1>3

LEMMA UnregisterBalances ==
    ASSUME IInv, BothOccasions, AnnouncedOK, IsFiniteSet(Clients), [Next]_vars,
           NEW u \in Users, Balance(u), NEW p \in Closers, Unregister(p)
    PROVE  Balance(u)'
<1> USE DEF IInv
<1>1. PICK c \in Clients : c = closer[p].target
  BY CloserFields
<1>2. registered' = registered \ {c}
  BY <1>1 DEF Unregister
<1>3. CASE Of(u) = {c}
  <2>1. c \in registered /\ ClientUser[c] = u
    BY <1>3 DEF Of
  <2>2. announce' = Advance(<<c, "offline">>, "none", "due")
    BY <1>1, <1>3, <2>1 DEF Unregister
  <2>3. /\ announce'[c, "offline"].pc # "none"
        /\ \A a \in (Clients \X Occasions) \ {<<c, "offline">>} : announce'[a] = announce[a]
    BY <2>2, AnnounceStarts DEF BothOccasions
  <2>4. announce[c, "offline"].pc = "none"
    BY <2>1 DEF AnnouncedOK
  <2>5. AnnouncedOf(u, "offline")' = AnnouncedOf(u, "offline") \cup {c}
    BY <2>1, <2>3 DEF AnnouncedOf, BothOccasions
  <2>6. AnnouncedOf(u, "online")' = AnnouncedOf(u, "online")
    BY <2>3 DEF AnnouncedOf, BothOccasions
  <2>7. c \notin AnnouncedOf(u, "offline") /\ AnnouncedOf(u, "offline") \in SUBSET Clients
    BY <2>4 DEF AnnouncedOf
  <2>8. /\ Cardinality(AnnouncedOf(u, "offline")) \in Nat
        /\ Cardinality(AnnouncedOf(u, "offline")') = Cardinality(AnnouncedOf(u, "offline")) + 1
    BY <2>5, <2>7, OneMore
  <2>9. Of(u)' = {}
    BY <1>2, <1>3 DEF Of
  <2>10. Cardinality(AnnouncedOf(u, "online")) = Cardinality(AnnouncedOf(u, "offline")) + 1
    BY <1>3 DEF Balance, Announced, AnnouncedOf
  <2>11. Cardinality(AnnouncedOf(u, "online")') = Cardinality(AnnouncedOf(u, "offline")') + 0
    BY <2>6, <2>8, <2>10
  <2>12. QED
    BY <2>9, <2>11 DEF Balance, Announced, AnnouncedOf
<1>4. CASE Of(u) # {c}
  <2>1. \A d \in Clients : ClientUser[d] = u =>
           announce'[d, "online"] = announce[d, "online"] /\ announce'[d, "offline"] = announce[d, "offline"]
    <3>1. CASE UNCHANGED announce
      BY <3>1
    <3>2. CASE ClientUser[c] # u /\ announce' = Advance(<<c, "offline">>, "none", "due")
      <4>1. \A a \in (Clients \X Occasions) \ {<<c, "offline">>} : announce'[a] = announce[a]
        BY <3>2, AnnounceStarts DEF BothOccasions
      <4>2. ASSUME NEW d \in Clients, d # c
            PROVE  {<<d, "online">>, <<d, "offline">>} \subseteq (Clients \X Occasions) \ {<<c, "offline">>}
        BY <4>2 DEF BothOccasions
      <4>3. QED
        BY <3>2, <4>1, <4>2
    <3>3. QED
      BY <1>1, <1>4, <3>1, <3>2 DEF Unregister
  <2>2. /\ AnnouncedOf(u, "online")' = AnnouncedOf(u, "online")
        /\ AnnouncedOf(u, "offline")' = AnnouncedOf(u, "offline")
    BY <2>1 DEF AnnouncedOf
  <2>3. Of(u)' = Of(u) \ {c}
    BY <1>2 DEF Of
  <2>4. Of(u)' = {} <=> Of(u) = {}
    BY <1>4, <2>3
  <2>5. QED
    BY <2>2, <2>4 DEF Balance, Announced, AnnouncedOf
<1>5. QED
  BY <1>3, <1>4

LEMMA BalanceStep ==
    ASSUME IInv, BothOccasions, AnnouncedOK, PresenceBalanced, IsFiniteSet(Clients), [Next]_vars
    PROVE  PresenceBalanced'
<1> SUFFICES ASSUME closer'[Server].pc # "done", NEW u \in Users
             PROVE  Balance(u)'
  BY DEF PresenceBalanced, Balance
<1>1. Balance(u)
  BY ShutdownStays DEF PresenceBalanced, Balance
<1>2. CASE /\ UNCHANGED registered
           /\ \A a \in Clients \X Occasions : announce'[a].pc # "none" <=> announce[a].pc # "none"
  <2>1. /\ AnnouncedOf(u, "online")' = AnnouncedOf(u, "online")
        /\ AnnouncedOf(u, "offline")' = AnnouncedOf(u, "offline")
    BY <1>2 DEF AnnouncedOf, BothOccasions
  <2>2. Of(u)' = Of(u)
    BY <1>2 DEF Of
  <2>3. QED
    BY <1>1, <2>1, <2>2 DEF Balance, Announced, AnnouncedOf
<1>3. QED
  BY <1>1, <1>2, PresenceCases, AddBalances, UnregisterBalances

\* Where both broadcasts are followed and there are finitely many connections,
\* a user has been announced online once more than offline while connected and
\* as often when not, until the hub has been shut down (AddClient and
\* RemoveClient of wsrelay.go).
THEOREM PresenceIsBalanced ==
    ASSUME IsFiniteSet(Clients), Occasions = {"online", "offline"}
    PROVE  Spec => []PresenceBalanced
<1>1. Init => AnnouncedOK /\ PresenceBalanced
  <2> SUFFICES ASSUME Init PROVE AnnouncedOK /\ PresenceBalanced
    OBVIOUS
  <2>1. \A a \in Clients \X Occasions : announce[a].pc = "none"
    BY DEF Init
  <2>2. \A c \in Clients : announce[c, "online"].pc = "none" /\ announce[c, "offline"].pc = "none"
    BY <2>1
  <2>3. AnnouncedOK
    BY <2>2 DEF AnnouncedOK
  <2>4. \A u \in Users : AnnouncedOf(u, "online") = {} /\ AnnouncedOf(u, "offline") = {} /\ Of(u) = {}
    BY <2>2 DEF AnnouncedOf, Of, Init
  <2>5. Cardinality({}) = 0
    BY FS_EmptySet
  <2>6. \A u \in Users : Announced(u, "online") = 0 /\ Announced(u, "offline") = 0
    BY <2>4, <2>5 DEF Announced, AnnouncedOf
  <2>7. PresenceBalanced
    BY <2>4, <2>6 DEF PresenceBalanced
  <2>8. QED
    BY <2>3, <2>7
<1>2. IInv /\ AnnouncedOK /\ PresenceBalanced /\ [Next]_vars => AnnouncedOK' /\ PresenceBalanced'
  BY AnnouncedStep, BalanceStep DEF BothOccasions
<1>3. QED
  BY Invariance, <1>1, <1>2, PTL DEF Spec
=============================================================================
