------------------------------ MODULE Contacts ------------------------------
(***************************************************************************)
(* Contacts and invitations (store/sqlite_contacts.go behind               *)
(* invite_handlers.go and contacts_handlers.go).  A contact is a directed  *)
(* pair of users.  An invitation is a row that is never deleted; the row   *)
(* with id i is invites[i].  User names are resolved before the statement  *)
(* and never change.                                                       *)
(***************************************************************************)
EXTENDS Requests, Sequences

VARIABLES
    contacts,    \* contacts: <<user, contact>>
    invites,     \* contact_invites
    added        \* history: pairs whose first user has added the second

contactVars == <<contacts, invites, added>>

Statuses == {"pending", "accepted", "rejected"}

\* Mutant: the index is on the ordered pair.
InvitedBy(a, b) == \E i \in DOMAIN invites : invites[i].from = a /\ invites[i].to = b

\* The unique index on the unordered pair, whatever the status.
Invited(a, b) == \E i \in DOMAIN invites : {invites[i].from, invites[i].to} = {a, b}

ContactsInit ==
    /\ contacts = {} /\ added = {}
    /\ invites = <<>>

\* AddContact: INSERT OR IGNORE, for one side only.
AddContact(u, c) ==
    /\ u # c
    /\ OneStatement
    /\ contacts' = contacts \cup {<<u, c>>}
    /\ added' = added \cup {<<u, c>>}
    /\ UNCHANGED invites

\* RemoveContact: the other side keeps its row.
RemoveContact(u, c) ==
    /\ <<u, c>> \in contacts
    /\ OneStatement
    /\ contacts' = contacts \ {<<u, c>>}
    /\ UNCHANGED <<invites, added>>

\* CreateInvite; ErrInviteExists leaves everything as it is.
CreateInvite(u, c) ==
    /\ u # c /\ ~Invited(u, c)
    /\ OneStatement
    /\ invites' = Append(invites, [from |-> u, to |-> c, status |-> "pending"])
    /\ UNCHANGED <<contacts, added>>

\* Mutant: the SELECT runs on the pool, not on the transaction.
SelectInviteOutside(p, u) == \E i \in DOMAIN invites, status \in {"accepted", "rejected"} :
    /\ invites[i].to = u /\ invites[i].status = "pending"
    /\ req[p] = Idle
    /\ Start
    /\ req' = [req EXCEPT ![p] = [op |-> "respond", stage |-> "looked", invite |-> i,
                                  status |-> status]]
    /\ UNCHANGED <<contactVars, lock>>

\* Mutant: the row is not required to be pending.
SelectInviteAnew(p, u) == \E i \in DOMAIN invites, status \in {"accepted", "rejected"} :
    /\ invites[i].to = u
    /\ BeginRead(p, [op |-> "respond", stage |-> "looked", invite |-> i, status |-> status])
    /\ UNCHANGED contactVars

\* UpdateInviteStatus up to its SELECT, which finds the row; ErrNotFound ends
\* the transaction with nothing done.
SelectInvite(p, u) == \E i \in DOMAIN invites, status \in {"accepted", "rejected"} :
    /\ invites[i].to = u /\ invites[i].status = "pending"
    /\ BeginRead(p, [op |-> "respond", stage |-> "looked", invite |-> i, status |-> status])
    /\ UNCHANGED contactVars

\* The UPDATE of the invitation.
UpdateInvite(p) ==
    /\ req[p].stage = "looked" /\ req[p].op = "respond"
    /\ Reserve(p)
    /\ req' = [req EXCEPT ![p].stage = "written"]
    /\ UNCHANGED <<started, contactVars>>

\* Its COMMIT, with the two contacts of an accepted invitation.
CommitInvite(p) ==
    LET i == req[p].invite
        both == {<<invites[i].from, invites[i].to>>, <<invites[i].to, invites[i].from>>}
    IN  /\ Commit(p, "respond")
        /\ invites' = [invites EXCEPT ![i].status = req[p].status]
        /\ contacts' = IF req[p].status = "accepted" THEN contacts \cup both ELSE contacts
        /\ UNCHANGED added

ContactsStep(p) ==
    \/ \E u, c \in Users : AddContact(u, c) \/ RemoveContact(u, c) \/ CreateInvite(u, c)
    \/ \E u \in Users : SelectInvite(p, u)
    \/ UpdateInvite(p) \/ CommitInvite(p)

ContactsOK ==
    /\ contacts \subseteq Users \X Users
    /\ \A i, j \in DOMAIN invites :
          /\ {invites[i].from, invites[i].to} \subseteq Users
          /\ invites[i].from # invites[i].to
          /\ invites[i].status \in Statuses
          /\ {invites[i].from, invites[i].to} = {invites[j].from, invites[j].to} => i = j
=============================================================================
