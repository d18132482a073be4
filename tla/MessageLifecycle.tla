-------------------------- MODULE MessageLifecycle --------------------------
(***************************************************************************)
(* What durable messaging promises to the users, whatever fails: messages  *)
(* get consecutive ids, a message only moves forward from stored to        *)
(* delivered to read, and a sender is told of a delivery only when it is   *)
(* on record.  Nothing here knows of statements, frames or restarts.       *)
(***************************************************************************)
EXTENDS Naturals

CONSTANT Ids   \* 1..n: the ids the store can hand out

VARIABLES
    status,    \* how far each message has come
    acked      \* ids whose delivery was acknowledged to the sender

States == {"absent", "stored", "delivered", "read"}

Init == /\ status = [id \in Ids |-> "absent"]
        /\ acked = {}

Store(id) ==
    /\ status[id] = "absent"
    /\ \A other \in Ids : other < id => status[other] # "absent"
    /\ status' = [status EXCEPT ![id] = "stored"]
    /\ UNCHANGED acked

Deliver(id) ==
    /\ status[id] = "stored"
    /\ status' = [status EXCEPT ![id] = "delivered"]
    /\ UNCHANGED acked

Read(id) ==
    /\ status[id] \in {"stored", "delivered"}
    /\ status' = [status EXCEPT ![id] = "read"]
    /\ UNCHANGED acked

Acknowledge(id) ==
    /\ status[id] \in {"delivered", "read"}
    /\ acked' = acked \cup {id}
    /\ UNCHANGED status

Next == \E id \in Ids : Store(id) \/ Deliver(id) \/ Read(id) \/ Acknowledge(id)

Spec == Init /\ [][Next]_<<status, acked>>
=============================================================================
