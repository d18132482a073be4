------------------------- MODULE MCDirectMessaging --------------------------
(* Finite instances of DirectMessaging for TLC.                             *)
EXTENDS DirectMessaging, TLC

CONSTANTS alice, bob, tab1, tab2, req1

\* Two tabs of one user: the only way two sends race on one client id.
TwoTabs == (tab1 :> alice) @@ (tab2 :> alice)

OneTab == tab1 :> alice

\* Both tabs send as the same user.
Interchangeable == Permutations({tab1, tab2})
=============================================================================
