------------------------------ MODULE Requests ------------------------------
(***************************************************************************)
(* API requests that run a transaction: what a handler remembers between   *)
(* two statements.  The server has one goroutine per request; Tx are those *)
(* that run at a time, each of them in                                     *)
(*   idle      no request                                                  *)
(*   looked    the transaction has read and not written                    *)
(*   written   it has written and not committed                            *)
(*   listing   a read of several statements is between two of them         *)
(*   answered  such a read is complete                                     *)
(* A request of one statement is one step.  The transaction's own writes   *)
(* take effect with its COMMIT: until then nobody else sees them.          *)
(***************************************************************************)
EXTENDS SqliteLocks, Integers, FiniteSets

CONSTANTS Users, MaxRequests     \* MaxRequests bounds the requests of a run

ASSUME RequestConstants == MaxRequests \in Nat

VARIABLES
    req,       \* the request of each goroutine
    started    \* requests started so far

requests == <<req, started, lock>>

Idle == [op |-> "none", stage |-> "idle"]

RequestsInit == /\ req = [p \in Tx |-> Idle]
                /\ started = 0
                /\ lock = LocksFree

Start == started < MaxRequests /\ started' = started + 1

\* A handler that is one writing statement.
OneStatement ==
    /\ Start
    /\ AutoCommit
    /\ UNCHANGED <<req, lock>>

\* A handler whose transaction starts with a SELECT, or with a write.
BeginRead(p, r) ==
    /\ req[p] = Idle
    /\ Start
    /\ Share(p)
    /\ req' = [req EXCEPT ![p] = r]

BeginWrite(p, r) ==
    /\ req[p] = Idle
    /\ Start
    /\ Reserve(p)
    /\ req' = [req EXCEPT ![p] = r]

\* COMMIT of p's transaction, which is a request for op.
Commit(p, op) ==
    /\ req[p].stage = "written" /\ req[p].op = op
    /\ CommitLock(p)
    /\ req' = [req EXCEPT ![p] = Idle]
    /\ UNCHANGED started

\* Any statement fails or waits for a lock for too long, or the client goes
\* away: the deferred Rollback undoes the transaction.
Fail(p) ==
    /\ req[p].stage \in {"looked", "written", "listing"}
    /\ Release(p)
    /\ req' = [req EXCEPT ![p] = Idle]
    /\ UNCHANGED started

RequestsOK ==
    /\ started \in 0..MaxRequests
    /\ lock \in [Tx -> Locks]
    /\ \A p \in Tx : lock[p] = CASE req[p].stage = "looked"  -> "shared"
                                 [] req[p].stage = "written" -> "reserved"
                                 [] OTHER -> "none"
=============================================================================
