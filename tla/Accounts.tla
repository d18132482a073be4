------------------------------ MODULE Accounts ------------------------------
(***************************************************************************)
(* The request/response half of the server: contacts, wallets and devices  *)
(* on one database, whose locks their transactions share.                  *)
(***************************************************************************)
EXTENDS Contacts, Wallet, DeviceKeys

vars == <<requests, contactVars, walletVars, deviceVars>>

Init == RequestsInit /\ ContactsInit /\ WalletInit /\ DevicesInit

Next == \E p \in Tx :
    \/ ContactsStep(p) /\ UNCHANGED <<walletVars, deviceVars>>
    \/ WalletStep(p) /\ UNCHANGED <<contactVars, deviceVars>>
    \/ DevicesStep(p) /\ UNCHANGED <<contactVars, walletVars>>
    \/ Fail(p) /\ UNCHANGED <<contactVars, walletVars, deviceVars>>

Spec == Init /\ [][Next]_vars

-----------------------------------------------------------------------------
(* What is checked, with BooksBalance, RevokedHasNoPrekeys and             *)
(* DirectoryIsCurrent of the parts.                                        *)

\* Types, the tables' constraints, and: a request holds a lock only between the
\* statements of its transaction.
TypeOK == RequestsOK /\ ContactsOK /\ WalletOK /\ DevicesOK

\* Users are in each other's contacts only because they added them or because
\* an invitation between them was accepted - never through one whose status
\* says rejected or pending, however many tabs answer it at once.
ContactsHaveCause ==
    \A pair \in contacts :
        \/ pair \in added
        \/ \E i \in DOMAIN invites : /\ {invites[i].from, invites[i].to} = {pair[1], pair[2]}
                                     /\ invites[i].status = "accepted"

\* An answered invitation keeps its answer.
InvitationIsFinal ==
    [][\A i \in DOMAIN invites : invites[i].status # "pending" =>
          invites'[i].status = invites[i].status]_vars
=============================================================================
