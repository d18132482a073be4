----------------------------- MODULE MCRelayHub -----------------------------
(* Instances of RelayHub: two tabs of one user, and two users.              *)
EXTENDS RelayHub, TLC

CONSTANTS alice, bob, conn1, conn2, session1, session2

TwoTabs == (conn1 :> bob) @@ (conn2 :> bob)
OneSession == (conn1 :> session1) @@ (conn2 :> session1)

TwoUsers == (conn1 :> alice) @@ (conn2 :> bob)
TwoSessions == (conn1 :> session1) @@ (conn2 :> session2)

OneSender == (conn1 :> 1) @@ (conn2 :> 0)
EachOne == (conn1 :> 1) @@ (conn2 :> 1)
=============================================================================
