---------------------------- MODULE SqliteLocks -----------------------------
(***************************************************************************)
(* The locks of SQLite's rollback journal, as the server uses them: one    *)
(* database file, a pool of connections, DEFERRED transactions and a busy  *)
(* timeout.  A transaction takes SHARED with its first read and RESERVED   *)
(* with its first write; it commits when nobody else holds a lock.  A      *)
(* transaction that cannot get what it needs waits, and fails when it has  *)
(* waited too long (at once when it holds SHARED and wants RESERVED); the  *)
(* modules that use this one let every statement fail, which covers both.  *)
(* A waiting writer keeps new readers out (PENDING): such a reader waits,  *)
(* which is a reader that does not take its step yet.                      *)
(***************************************************************************)

CONSTANT Tx       \* whoever runs a transaction at a time

VARIABLE lock     \* what each transaction holds

Locks == {"none", "shared", "reserved"}

LocksFree == [t \in Tx |-> "none"]

\* The first SELECT of a transaction.
Share(t) == lock' = [lock EXCEPT ![t] = "shared"]

\* The first INSERT, UPDATE or DELETE of a transaction.
Reserve(t) ==
    /\ \A other \in Tx \ {t} : lock[other] # "reserved"
    /\ lock' = [lock EXCEPT ![t] = "reserved"]

Release(t) == lock' = [lock EXCEPT ![t] = "none"]

\* COMMIT of a transaction that has written.
CommitLock(t) ==
    /\ \A other \in Tx \ {t} : lock[other] = "none"
    /\ Release(t)

\* A writing statement outside a transaction: BEGIN, write and COMMIT in one.
AutoCommit == \A t \in Tx : lock[t] = "none"
=============================================================================
