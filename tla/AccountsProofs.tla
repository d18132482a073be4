--------------------------- MODULE AccountsProofs ---------------------------
(***************************************************************************)
(* Proofs about Accounts, for any users, goroutines, amounts, prekeys and  *)
(* bounds.                                                                 *)
(*                                                                         *)
(* What a transaction has read holds until it commits, because whoever     *)
(* changes a table does so while nobody else holds a lock.  RequestOKFor   *)
(* says what each request knows; a request without a lock (Quiet) knows    *)
(* nothing that a change of a table could make false.                      *)
(*                                                                         *)
(* On top of that, BooksInv keeps the balances in step with the log of     *)
(* transfers and every transfer on its way covered, and DirectoryInv       *)
(* relates what a directory request has read, and still has to read, to    *)
(* the devices as they are now.                                            *)
(***************************************************************************)
EXTENDS Accounts, TLAPS, SequenceTheorems, FiniteSetTheorems, WellFoundedInduction

Answers == {"accepted", "rejected"}

Invitations == [from : Users, to : Users, status : Statuses]

Devices == [user : Users, revoked : BOOLEAN, signed : Nat, active : SUBSET Prekeys]

\* No request, or one that reads in statements of their own.
Quiet(r) ==
    \/ r = Idle
    \/ /\ r.stage \in {"listing", "answered"}
       /\ r = [op |-> "directory", stage |-> r.stage, owner |-> r.owner,
               before |-> r.before, todo |-> r.todo, found |-> r.found]

\* An answer to an invitation that is pending.
Responds(r) ==
    /\ r \in [op : {"respond"}, stage : {"looked", "written"}, invite : DOMAIN invites,
              status : Answers]
    /\ invites[r.invite].status = "pending"

Sends(r) == r \in [op : {"send"}, stage : {"written"}, from : Users, to : Users, amount : Amounts]

Registers(r) ==
    /\ r \in [op : {"register"}, stage : {"written"}, user : Users, keys : SUBSET Prekeys]
    /\ r.keys # {}

\* A change of a device that is in use.
Changes(r) ==
    /\ r \in [op : {"rotate", "publish", "unregister"}, stage : {"looked", "written"},
              device : DOMAIN devices, keys : SUBSET Prekeys]
    /\ ~devices[r.device].revoked

RequestOKFor(r) == Quiet(r) \/ Responds(r) \/ Sends(r) \/ Registers(r) \/ Changes(r)

\* What RequestsOK says of the lock of a request in this stage.
HeldIn(stage) == CASE stage = "looked"  -> "shared"
                   [] stage = "written" -> "reserved"
                   [] OTHER -> "none"

ReqOK == req = [p \in Tx |-> req[p]] /\ \A p \in Tx : RequestOKFor(req[p])

TablesOK == invites \in Seq(Invitations) /\ devices \in Seq(Devices)

\* The inductive invariant.
IInv ==
    /\ TypeOK
    /\ ReqOK
    /\ TablesOK
    /\ ContactsHaveCause
    /\ RevokedHasNoPrekeys

-----------------------------------------------------------------------------
(* Requests and locks.                                                     *)

\* Who holds no lock is quiet.
LEMMA UnlockedIsQuiet ==
    ASSUME IInv, NEW p \in Tx, lock[p] = "none"
    PROVE  Quiet(req[p])
BY DEF IInv, TypeOK, RequestsOK, ReqOK, RequestOKFor, Responds, Sends, Registers, Changes

\* A request that takes a step of its own and leaves the tables alone.
LEMMA RequestMoves ==
    ASSUME IInv, NEW p \in Tx, NEW r, NEW held,
           req' = [req EXCEPT ![p] = r],
           lock' = [lock EXCEPT ![p] = held],
           held = HeldIn(r.stage), started' \in 0..MaxRequests
    PROVE  /\ RequestsOK'
           /\ req' = [q \in Tx |-> req'[q]]
           /\ req'[p] = r /\ \A q \in Tx \ {p} : req'[q] = req[q]
<1>1. req = [q \in Tx |-> req[q]]
  BY DEF IInv, ReqOK
<1>2. req'[p] = r /\ \A q \in Tx \ {p} : req'[q] = req[q]
  BY <1>1
<1>3. req' = [q \in Tx |-> req'[q]]
  BY <1>1
<1>4. lock \in [Tx -> Locks] /\ \A q \in Tx : lock[q] = HeldIn(req[q].stage)
  BY DEF IInv, TypeOK, RequestsOK, HeldIn
<1>5. held \in Locks
  BY DEF HeldIn, Locks
<1>6. lock' \in [Tx -> Locks] /\ \A q \in Tx : lock'[q] = HeldIn(req'[q].stage)
  BY <1>2, <1>4, <1>5
<1>7. QED
  BY <1>2, <1>3, <1>6 DEF RequestsOK, HeldIn

\* and it goes on knowing what RequestOKFor says.
LEMMA RequestMovesOK ==
    ASSUME IInv, NEW p \in Tx, NEW r, NEW held,
           req' = [req EXCEPT ![p] = r],
           lock' = [lock EXCEPT ![p] = held],
           held = HeldIn(r.stage), started' \in 0..MaxRequests,
           RequestOKFor(r),
           UNCHANGED <<invites, devices>>
    PROVE  RequestsOK' /\ ReqOK'
<1>1. /\ RequestsOK'
      /\ req' = [q \in Tx |-> req'[q]]
      /\ req'[p] = r /\ \A q \in Tx \ {p} : req'[q] = req[q]
  BY RequestMoves
<1>2. ASSUME NEW q \in Tx PROVE RequestOKFor(req[q])
  BY DEF IInv, ReqOK
<1>3. \A q \in Tx : RequestOKFor(req'[q])
  BY <1>1, <1>2
<1>4. \A q \in Tx : RequestOKFor(req[q])'
  BY <1>3 DEF RequestOKFor, Quiet, Responds, Sends, Registers, Changes
<1>5. QED
  BY <1>1, <1>4 DEF ReqOK

\* Tables may change when nobody else holds a lock.
LEMMA CommitOK ==
    ASSUME IInv, NEW p \in Tx, NEW op, Commit(p, op)
    PROVE  RequestsOK' /\ ReqOK'
<1>1. started \in 0..MaxRequests
  BY DEF IInv, TypeOK, RequestsOK
<1>2. /\ RequestsOK'
      /\ req' = [q \in Tx |-> req'[q]]
      /\ req'[p] = Idle /\ \A q \in Tx \ {p} : req'[q] = req[q]
  BY <1>1, RequestMoves DEF Commit, CommitLock, Release, HeldIn, Idle
<1>3. \A q \in Tx : Quiet(req'[q])
  BY <1>2, UnlockedIsQuiet DEF Commit, CommitLock, Quiet
<1>4. \A q \in Tx : RequestOKFor(req[q])'
  BY <1>3 DEF RequestOKFor, Quiet
<1>5. QED
  BY <1>2, <1>4 DEF ReqOK

\* A handler of one statement writes while nobody holds a lock.
LEMMA OneStatementOK ==
    ASSUME IInv, OneStatement
    PROVE  RequestsOK' /\ ReqOK'
<1>1. started' \in 0..MaxRequests
  BY RequestConstants DEF IInv, TypeOK, RequestsOK, OneStatement, Start
<1>2. RequestsOK'
  BY <1>1 DEF IInv, TypeOK, RequestsOK, OneStatement
<1>3. \A q \in Tx : Quiet(req'[q])
  BY UnlockedIsQuiet DEF OneStatement, AutoCommit
<1>4. \A q \in Tx : RequestOKFor(req[q])'
  BY <1>3 DEF RequestOKFor, Quiet
<1>5. QED
  BY <1>2, <1>4 DEF ReqOK, IInv, OneStatement

\* The first statement of a transaction, in the two forms it has.
LEMMA BeginOK ==
    ASSUME IInv, NEW p \in Tx, NEW r, RequestOKFor(r),
           \/ BeginRead(p, r) /\ r.stage = "looked"
           \/ BeginWrite(p, r) /\ r.stage = "written",
           UNCHANGED <<invites, devices>>
    PROVE  RequestsOK' /\ ReqOK'
<1>1. started' \in 0..MaxRequests
  BY RequestConstants DEF IInv, TypeOK, RequestsOK, BeginRead, BeginWrite, Start
<1>2. PICK held : held = HeldIn(r.stage)
  OBVIOUS
<1>3. lock' = [lock EXCEPT ![p] = held] /\ req' = [req EXCEPT ![p] = r]
  BY <1>2 DEF BeginRead, BeginWrite, Share, Reserve, HeldIn
<1>4. QED
  BY <1>1, <1>2, <1>3, RequestMovesOK

\* The first write of a transaction that has read.
LEMMA UpgradeOK ==
    ASSUME IInv, NEW p \in Tx, req[p].stage = "looked",
           req' = [req EXCEPT ![p].stage = "written"],
           Reserve(p), UNCHANGED <<started, invites, devices>>
    PROVE  RequestsOK' /\ ReqOK'
<1>1. started' \in 0..MaxRequests
  BY DEF IInv, TypeOK, RequestsOK
<1> DEFINE r == [req[p] EXCEPT !.stage = "written"]
<1>2. req' = [req EXCEPT ![p] = r]
  BY DEF IInv, ReqOK
<1>3. Responds(req[p]) \/ Changes(req[p])
  BY DEF IInv, ReqOK, RequestOKFor, Quiet, Idle, Sends, Registers
<1>4. RequestOKFor(r) /\ r.stage = "written"
  BY <1>3 DEF RequestOKFor, Responds, Changes
<1> HIDE DEF r
<1>5. QED
  BY <1>1, <1>2, <1>4, RequestMovesOK DEF Reserve, HeldIn

\* A request that reads goes on without a lock.
LEMMA ReadOK ==
    ASSUME IInv, NEW p \in Tx, NEW r, Quiet(r), Quiet(req[p]),
           req' = [req EXCEPT ![p] = r],
           started' \in 0..MaxRequests,
           UNCHANGED <<lock, invites, devices>>
    PROVE  RequestsOK' /\ ReqOK'
<1>1. HeldIn(r.stage) = "none" /\ HeldIn(req[p].stage) = "none"
  BY DEF Quiet, HeldIn, Idle
<1>2. lock \in [Tx -> Locks] /\ lock[p] = "none"
  BY <1>1 DEF IInv, TypeOK, RequestsOK, HeldIn
<1>3. lock' = [lock EXCEPT ![p] = "none"]
  BY <1>2
<1>4. RequestOKFor(r)
  BY DEF RequestOKFor
<1>5. QED
  BY <1>1, <1>3, <1>4, RequestMovesOK

-----------------------------------------------------------------------------
(* Contacts and invitations.                                               *)

\* The part of the invariant that is about contacts.
ContactsPart == ContactsOK /\ invites \in Seq(Invitations) /\ ContactsHaveCause

\* Steps of wallets and devices leave the contacts alone.
LEMMA ContactsKept ==
    ASSUME IInv, UNCHANGED contactVars
    PROVE  ContactsPart'
<1>1. ContactsOK /\ invites \in Seq(Invitations) /\ ContactsHaveCause
  BY DEF IInv, TypeOK, TablesOK, ContactsOK
<1>2. contacts' = contacts /\ invites' = invites /\ added' = added
  BY DEF contactVars
<1>3. ContactsOK'
  BY <1>1, <1>2, ZenonT(30) DEF ContactsOK
<1>4. ContactsHaveCause'
  BY <1>1, <1>2, ZenonT(30) DEF ContactsHaveCause
<1>5. QED
  BY <1>1, <1>2, <1>3, <1>4 DEF ContactsPart

\* What the writes of contacts and invitations keep.
LEMMA AddContactKeeps ==
    ASSUME IInv, NEW u \in Users, NEW c \in Users, AddContact(u, c)
    PROVE  ContactsPart'
<1>1. ContactsOK'
  BY DEF AddContact, IInv, TypeOK, ContactsOK
<1>2. ContactsHaveCause'
  BY DEF AddContact, IInv, ContactsHaveCause
<1>3. QED
  BY <1>1, <1>2 DEF ContactsPart, AddContact, IInv, TablesOK

\* Removing one side takes away what needed a cause.
LEMMA RemoveContactKeeps ==
    ASSUME IInv, NEW u \in Users, NEW c \in Users, RemoveContact(u, c)
    PROVE  ContactsPart'
<1>1. ContactsOK'
  BY DEF RemoveContact, IInv, TypeOK, ContactsOK
<1>2. ContactsHaveCause'
  BY DEF RemoveContact, IInv, ContactsHaveCause
<1>3. QED
  BY <1>1, <1>2 DEF ContactsPart, RemoveContact, IInv, TablesOK

\* A new invitation is the only one of its pair.
LEMMA CreateInviteKeeps ==
    ASSUME IInv, NEW u \in Users, NEW c \in Users, CreateInvite(u, c)
    PROVE  /\ ContactsPart'
           /\ \A i \in DOMAIN invites : i \in DOMAIN invites' /\ invites'[i] = invites[i]
<1> DEFINE row == [from |-> u, to |-> c, status |-> "pending"]
           n == Len(invites) + 1
<1>1. row \in Invitations
  BY DEF Invitations, Statuses
<1>2. /\ invites \in Seq(Invitations)
      /\ invites' = Append(invites, row)
      /\ u # c
      /\ \A i \in DOMAIN invites : {invites[i].from, invites[i].to} # {u, c}
  BY DEF IInv, TablesOK, CreateInvite, Invited
<1>3. /\ invites' \in Seq(Invitations)
      /\ DOMAIN invites' = DOMAIN invites \cup {n}
      /\ \A i \in DOMAIN invites : i # n /\ invites'[i] = invites[i]
      /\ invites'[n] = row
  BY <1>1, <1>2
<1> HIDE DEF n
<1>4. ContactsOK
  BY DEF IInv, TypeOK
<1>5. ASSUME NEW i \in DOMAIN invites', NEW j \in DOMAIN invites'
      PROVE  /\ {invites'[i].from, invites'[i].to} \subseteq Users
             /\ invites'[i].from # invites'[i].to
             /\ invites'[i].status \in Statuses
             /\ {invites'[i].from, invites'[i].to} = {invites'[j].from, invites'[j].to} => i = j
  <2>1. CASE i \in DOMAIN invites /\ j \in DOMAIN invites
    <3>1. invites'[i] = invites[i] /\ invites'[j] = invites[j]
      BY <1>3, <2>1
    <3>2. QED
      BY <1>4, <2>1, <3>1, Zenon DEF ContactsOK
  <2>2. CASE i \in DOMAIN invites /\ j = n
    <3>1. invites'[i] = invites[i] /\ invites'[j].from = u /\ invites'[j].to = c
      BY <1>3, <2>2
    <3>2. /\ {invites[i].from, invites[i].to} \subseteq Users
          /\ invites[i].from # invites[i].to
          /\ invites[i].status \in Statuses
      BY <1>4, <2>2, Zenon DEF ContactsOK
    <3>3. {invites'[i].from, invites'[i].to} # {invites'[j].from, invites'[j].to}
      BY <1>2, <2>2, <3>1, Zenon
    <3>4. QED
      BY <3>1, <3>2, <3>3
  <2>3. CASE i = n
    <3>1. invites'[i].from = u /\ invites'[i].to = c /\ invites'[i].status = "pending"
      BY <1>3, <2>3
    <3>2. j \in DOMAIN invites => {invites'[j].from, invites'[j].to} # {u, c}
      BY <1>2, <1>3, Zenon
    <3>3. {invites'[i].from, invites'[i].to} = {u, c}
      BY <3>1
    <3>4. {invites'[i].from, invites'[i].to} = {invites'[j].from, invites'[j].to} => i = j
      BY <1>3, <2>3, <3>2, <3>3, Zenon
    <3>5. QED
      BY <1>2, <3>1, <3>4 DEF Statuses
  <2>4. QED
    BY <1>3, <2>1, <2>2, <2>3
<1>6. ContactsOK'
  <2>1. contacts' \subseteq Users \X Users
    BY <1>4 DEF ContactsOK, CreateInvite
  <2>2. QED
    BY <1>5, <2>1, Zenon DEF ContactsOK
<1>7. ContactsHaveCause'
  <2>1. contacts' = contacts /\ added' = added
    BY DEF CreateInvite
  <2>2. ContactsHaveCause
    BY DEF IInv
  <2>3. SUFFICES ASSUME NEW x \in contacts', x \notin added'
                 PROVE  \E k \in DOMAIN invites' :
                           /\ {invites'[k].from, invites'[k].to} = {x[1], x[2]}
                           /\ invites'[k].status = "accepted"
    BY DEF ContactsHaveCause
  <2>4. PICK k \in DOMAIN invites : /\ {invites[k].from, invites[k].to} = {x[1], x[2]}
                                    /\ invites[k].status = "accepted"
    BY <2>1, <2>2, <2>3 DEF ContactsHaveCause
  <2>5. k \in DOMAIN invites' /\ invites'[k] = invites[k]
    BY <1>3
  <2>6. QED
    BY <2>4, <2>5
<1>8. QED
  BY <1>3, <1>6, <1>7 DEF ContactsPart

\* The answer that is written was pending: no other answer is lost.
LEMMA CommitInviteKeeps ==
    ASSUME IInv, NEW p \in Tx, CommitInvite(p)
    PROVE  /\ ContactsPart'
           /\ DOMAIN invites' = DOMAIN invites
           /\ \A i \in DOMAIN invites : invites[i].status # "pending" =>
                 invites'[i].status = invites[i].status
<1> DEFINE i == req[p].invite
           pair == {<<invites[i].from, invites[i].to>>, <<invites[i].to, invites[i].from>>}
<1>1. Responds(req[p])
  <2>1. RequestOKFor(req[p]) /\ req[p].op = "respond"
    BY DEF IInv, ReqOK, CommitInvite, Commit
  <2>2. QED
    BY <2>1 DEF RequestOKFor, Quiet, Idle, Sends, Registers, Changes
<1>2. i \in DOMAIN invites /\ invites[i].status = "pending" /\ req[p].status \in Answers
  BY <1>1 DEF Responds
<1>3. invites \in Seq(Invitations) /\ invites[i] \in Invitations
  BY <1>2 DEF IInv, TablesOK
<1>4. /\ invites' = [invites EXCEPT ![i] = [invites[i] EXCEPT !.status = req[p].status]]
      /\ contacts' = IF req[p].status = "accepted" THEN contacts \cup pair ELSE contacts
      /\ added' = added
  BY DEF CommitInvite
<1> DEFINE row == [invites[i] EXCEPT !.status = req[p].status]
<1>5. /\ row \in Invitations /\ row.status = req[p].status
      /\ row.from = invites[i].from /\ row.to = invites[i].to
  BY <1>2, <1>3 DEF Invitations, Statuses, Answers
<1> HIDE DEF row
<1>6. /\ invites' \in Seq(Invitations)
      /\ DOMAIN invites' = DOMAIN invites
      /\ invites'[i] = row
      /\ \A j \in DOMAIN invites : j # i => invites'[j] = invites[j]
  BY <1>2, <1>3, <1>4, <1>5 DEF row
<1> HIDE DEF i
<1>7. \A j \in DOMAIN invites : /\ invites'[j].from = invites[j].from
                                /\ invites'[j].to = invites[j].to
                                /\ invites[j].status # "pending" =>
                                      invites'[j].status = invites[j].status
  BY <1>2, <1>5, <1>6
<1>8. ContactsOK
  BY DEF IInv, TypeOK
<1>9. ContactsOK'
  <2>1. contacts' \subseteq Users \X Users
    BY <1>2, <1>4, <1>8 DEF ContactsOK
  <2>2. \A j \in DOMAIN invites : invites'[j].status \in Statuses
    BY <1>2, <1>5, <1>6, <1>8 DEF ContactsOK, Answers, Statuses
  <2>3. ASSUME NEW j \in DOMAIN invites, NEW k \in DOMAIN invites
        PROVE  /\ {invites'[j].from, invites'[j].to} \subseteq Users
               /\ invites'[j].from # invites'[j].to
               /\ {invites'[j].from, invites'[j].to} = {invites'[k].from, invites'[k].to} => j = k
    <3>1. /\ {invites[j].from, invites[j].to} \subseteq Users
          /\ invites[j].from # invites[j].to
          /\ {invites[j].from, invites[j].to} = {invites[k].from, invites[k].to} => j = k
      BY <1>8, Zenon DEF ContactsOK
    <3>2. QED
      BY <1>7, <3>1
  <2>4. QED
    BY <1>6, <2>1, <2>2, <2>3, Zenon DEF ContactsOK
<1>10. ContactsHaveCause'
  <2> SUFFICES ASSUME NEW x \in contacts', x \notin added'
               PROVE  \E k \in DOMAIN invites' :
                         /\ {invites'[k].from, invites'[k].to} = {x[1], x[2]}
                         /\ invites'[k].status = "accepted"
    BY DEF ContactsHaveCause
  <2>1. CASE x \in contacts
    <3>1. PICK k \in DOMAIN invites : /\ {invites[k].from, invites[k].to} = {x[1], x[2]}
                                      /\ invites[k].status = "accepted"
      BY <1>4, <2>1 DEF IInv, ContactsHaveCause
    <3>2. QED
      BY <1>6, <1>7, <3>1
  <2>2. CASE x \notin contacts
    <3>1. req[p].status = "accepted" /\ x \in pair
      BY <1>4, <2>2
    <3>2. {invites[i].from, invites[i].to} = {x[1], x[2]}
      BY <3>1
    <3>3. {invites'[i].from, invites'[i].to} = {x[1], x[2]} /\ invites'[i].status = "accepted"
      BY <1>2, <1>5, <1>6, <3>1, <3>2
    <3>4. QED
      BY <1>2, <1>6, <3>3
  <2>3. QED
    BY <2>1, <2>2
<1>11. QED
  BY <1>6, <1>7, <1>9, <1>10 DEF ContactsPart

-----------------------------------------------------------------------------
(* Wallets.                                                                *)

\* Accounts are opened for users, and none is closed.
LEMMA WalletKeeps ==
    ASSUME IInv, NEW p \in Tx, WalletStep(p)
    PROVE  WalletOK'
<1> USE DEF WalletOK
<1>1. WalletOK
  BY DEF IInv, TypeOK
<1>2. ASSUME NEW u \in Users, GetWallet(u)
      PROVE  WalletOK'
  BY <1>1, <1>2 DEF GetWallet, Opened
<1>3. ASSUME NEW from \in Users, NEW to \in Users, SendMoney(p, from, to)
      PROVE  WalletOK'
  BY <1>1, <1>3 DEF SendMoney, walletVars
<1>4. ASSUME CommitTransfer(p)
      PROVE  WalletOK'
  <2>1. RequestOKFor(req[p]) /\ req[p].op = "send"
    BY <1>4 DEF IInv, ReqOK, CommitTransfer, Commit
  <2>2. Sends(req[p])
    BY <2>1 DEF RequestOKFor, Quiet, Idle, Responds, Registers, Changes
  <2>3. req[p].from \in Users /\ req[p].to \in Users
    BY <2>2 DEF Sends
  <2>4. DOMAIN balance' = DOMAIN balance \cup {req[p].from, req[p].to} /\ deposits' = deposits
    BY <1>4 DEF CommitTransfer, Credited, AccountsOf, Opened
  <2>5. QED
    BY <1>1, <2>3, <2>4
<1>5. QED
  BY <1>2, <1>3, <1>4 DEF WalletStep

-----------------------------------------------------------------------------
(* Devices.                                                                *)

DevicesPart == DevicesOK /\ devices \in Seq(Devices) /\ RevokedHasNoPrekeys

\* Devices stay, with their user, and once revoked stay so.
DevicesStay ==
    \A d \in DOMAIN devices : /\ d \in DOMAIN devices'
                              /\ devices'[d].user = devices[d].user
                              /\ devices[d].revoked => devices'[d].revoked

\* Steps of contacts and wallets leave the devices alone.
LEMMA DevicesKept ==
    ASSUME IInv, UNCHANGED deviceVars
    PROVE  DevicesPart' /\ DevicesStay
<1>1. devices' = devices
  BY DEF deviceVars
<1>2. DevicesPart'
  BY <1>1 DEF IInv, TypeOK, TablesOK, DevicesPart, DevicesOK, RevokedHasNoPrekeys
<1>3. QED
  BY <1>1, <1>2 DEF DevicesStay

\* Every row as it has to be.
DeviceRowOK(row) == row \in Devices /\ (row.revoked <=> row.active = {})

\* The invariant says of every row that it is as it has to be,
LEMMA DeviceRows ==
    ASSUME IInv
    PROVE  devices \in Seq(Devices) /\ \A d \in DOMAIN devices : DeviceRowOK(devices[d])
BY DEF IInv, TablesOK, RevokedHasNoPrekeys, DeviceRowOK

\* and rows that are so make the devices' part of the invariant.
LEMMA RowsMakePart ==
    ASSUME devices' \in Seq(Devices), \A d \in DOMAIN devices' : DeviceRowOK(devices'[d])
    PROVE  DevicesPart'
BY DEF DevicesPart, DevicesOK, RevokedHasNoPrekeys, DeviceRowOK, Devices

\* The row of a device in use is replaced.
LEMMA RowReplaced ==
    ASSUME IInv, NEW d \in DOMAIN devices, NEW row, DeviceRowOK(row),
           row.user = devices[d].user, ~devices[d].revoked,
           devices' = [devices EXCEPT ![d] = row]
    PROVE  DevicesPart' /\ DevicesStay
<1>1. devices \in Seq(Devices) /\ \A e \in DOMAIN devices : DeviceRowOK(devices[e])
  BY DeviceRows
<1>2. row \in Devices
  BY DEF DeviceRowOK
<1>3. devices' \in Seq(Devices)
  BY <1>1, <1>2
<1>4. DOMAIN devices' = DOMAIN devices
      /\ \A e \in DOMAIN devices : devices'[e] = IF e = d THEN row ELSE devices[e]
  BY <1>1
<1>5. \A e \in DOMAIN devices' : DeviceRowOK(devices'[e])
  BY <1>1, <1>4
<1>6. DevicesStay
  BY <1>4 DEF DevicesStay
<1>7. QED
  BY <1>3, <1>5, <1>6, RowsMakePart

\* A device begins in use and with prekeys.
LEMMA CommitRegistrationKeeps ==
    ASSUME IInv, NEW p \in Tx, CommitRegistration(p)
    PROVE  DevicesPart' /\ DevicesStay
<1>1. RequestOKFor(req[p]) /\ req[p].op = "register"
  BY DEF IInv, ReqOK, CommitRegistration, Commit
<1>2. Registers(req[p])
  BY <1>1 DEF RequestOKFor, Quiet, Idle, Responds, Sends, Changes
<1> DEFINE row == [user |-> req[p].user, revoked |-> FALSE, signed |-> 0, active |-> req[p].keys]
<1>3. DeviceRowOK(row)
  BY <1>2 DEF Registers, DeviceRowOK, Devices
<1>4. row \in Devices
  BY <1>3 DEF DeviceRowOK
<1>5. devices' = Append(devices, row)
  BY DEF CommitRegistration
<1> HIDE DEF row
<1>6. devices \in Seq(Devices) /\ \A d \in DOMAIN devices : DeviceRowOK(devices[d])
  BY DeviceRows
<1>7. /\ devices' \in Seq(Devices)
      /\ DOMAIN devices' = DOMAIN devices \cup {Len(devices) + 1}
      /\ devices'[Len(devices) + 1] = row
      /\ \A d \in DOMAIN devices : devices'[d] = devices[d]
  BY <1>4, <1>5, <1>6
<1>8. \A d \in DOMAIN devices' : DeviceRowOK(devices'[d])
  BY <1>3, <1>6, <1>7
<1>9. DevicesStay
  BY <1>7 DEF DevicesStay
<1>10. QED
  BY <1>7, <1>8, <1>9, RowsMakePart

\* Rotation, publication and revocation find the device still in use.
LEMMA DeviceStillInUse ==
    ASSUME IInv, NEW p \in Tx, req[p].op \in {"rotate", "publish", "unregister"}
    PROVE  /\ req[p].device \in DOMAIN devices
           /\ req[p].keys \subseteq Prekeys
           /\ ~devices[req[p].device].revoked
           /\ devices[req[p].device].active # {}
           /\ devices[req[p].device] \in Devices
<1>1. RequestOKFor(req[p])
  BY DEF IInv, ReqOK
<1>2. Changes(req[p])
  BY <1>1 DEF RequestOKFor, Quiet, Idle, Responds, Sends, Registers
<1>3. req[p].device \in DOMAIN devices /\ req[p].keys \subseteq Prekeys
      /\ ~devices[req[p].device].revoked
  BY <1>2 DEF Changes
<1>4. DeviceRowOK(devices[req[p].device])
  BY <1>3, DeviceRows
<1>5. QED
  BY <1>3, <1>4 DEF DeviceRowOK

\* A row, field by field.
DeviceRow(user, revoked, signed, active) ==
    [user |-> user, revoked |-> revoked, signed |-> signed, active |-> active]

\* What an UPDATE of one column leaves.
LEMMA RowChanges ==
    ASSUME NEW row \in Devices, NEW active, NEW signed, NEW revoked
    PROVE  /\ [row EXCEPT !.active = active]
                = DeviceRow(row.user, row.revoked, row.signed, active)
           /\ [row EXCEPT !.signed = signed]
                = DeviceRow(row.user, row.revoked, signed, row.active)
           /\ [row EXCEPT !.revoked = revoked]
                = DeviceRow(row.user, revoked, row.signed, row.active)
<1>1. row = DeviceRow(row.user, row.revoked, row.signed, row.active)
  BY DEF Devices, DeviceRow
<1>2. [row EXCEPT !.active = active] = DeviceRow(row.user, row.revoked, row.signed, active)
  BY <1>1 DEF DeviceRow
<1>3. [row EXCEPT !.signed = signed] = DeviceRow(row.user, row.revoked, signed, row.active)
  BY <1>1 DEF DeviceRow
<1>4. [row EXCEPT !.revoked = revoked] = DeviceRow(row.user, revoked, row.signed, row.active)
  BY <1>1 DEF DeviceRow
<1>5. QED
  BY <1>2, <1>3, <1>4

\* Rotation adds prekeys to a device in use.
LEMMA CommitRotationKeeps ==
    ASSUME IInv, NEW p \in Tx, CommitRotation(p)
    PROVE  DevicesPart' /\ DevicesStay
<1> DEFINE d == req[p].device
           old == devices[d]
           row == DeviceRow(old.user, old.revoked, old.signed + 1, old.active \cup req[p].keys)
<1>1. d \in DOMAIN devices /\ req[p].keys \subseteq Prekeys
      /\ ~old.revoked /\ old.active # {} /\ old \in Devices
  BY DeviceStillInUse DEF CommitRotation, Commit
<1>2. DeviceRowOK(row)
  BY <1>1 DEF DeviceRowOK, DeviceRow, Devices
<1> DEFINE between == DeviceRow(old.user, old.revoked, old.signed, old.active \cup req[p].keys)
<1>3. devices' = [devices EXCEPT ![d] = row]
  <2>1. devices \in Seq(Devices)
    BY DEF IInv, TablesOK
  <2>2. devices' = [Upserted(d, req[p].keys) EXCEPT ![d].signed = @ + 1]
    BY DEF CommitRotation
  <2>3. [old EXCEPT !.active = old.active \cup req[p].keys] = between
    BY <1>1, RowChanges
  <2>4. Upserted(d, req[p].keys) = [devices EXCEPT ![d] = between]
    BY <1>1, <2>1, <2>3 DEF Upserted
  <2>5. /\ between \in Devices /\ between.signed = old.signed
        /\ between = DeviceRow(old.user, old.revoked, old.signed, old.active \cup req[p].keys)
        /\ between.user = old.user /\ between.revoked = old.revoked
        /\ between.active = old.active \cup req[p].keys
    BY <1>1 DEF Devices, DeviceRow
  <2>6. [between EXCEPT !.signed = between.signed + 1] = row
    <3> HIDE DEF between, old
    <3>1. [between EXCEPT !.signed = between.signed + 1]
             = DeviceRow(between.user, between.revoked, between.signed + 1, between.active)
      BY <2>5, RowChanges
    <3>2. QED
      BY <2>5, <3>1
  <2> HIDE DEF between, row
  <2>7. devices' = [[devices EXCEPT ![d] = between] EXCEPT ![d] = row]
    BY <1>1, <2>1, <2>2, <2>4, <2>6
  <2>8. QED
    BY <1>1, <2>1, <2>7
<1>4. row.user = old.user
  BY DEF DeviceRow
<1> HIDE DEF row
<1>5. QED
  BY <1>1, <1>2, <1>3, <1>4, RowReplaced

\* So does publication.
LEMMA CommitPrekeysKeeps ==
    ASSUME IInv, NEW p \in Tx, CommitPrekeys(p)
    PROVE  DevicesPart' /\ DevicesStay
<1> DEFINE d == req[p].device
           old == devices[d]
           row == DeviceRow(old.user, old.revoked, old.signed, old.active \cup req[p].keys)
<1>1. d \in DOMAIN devices /\ req[p].keys \subseteq Prekeys
      /\ ~old.revoked /\ old.active # {} /\ old \in Devices
  BY DeviceStillInUse DEF CommitPrekeys, Commit
<1>2. DeviceRowOK(row)
  BY <1>1 DEF DeviceRowOK, DeviceRow, Devices
<1>3. devices' = [devices EXCEPT ![d] = row]
  <2>1. devices \in Seq(Devices)
    BY DEF IInv, TablesOK
  <2>2. [old EXCEPT !.active = old.active \cup req[p].keys] = row
    BY <1>1, RowChanges
  <2>3. QED
    BY <1>1, <2>1, <2>2 DEF CommitPrekeys, Upserted
<1>4. row.user = old.user
  BY DEF DeviceRow
<1> HIDE DEF row
<1>5. QED
  BY <1>1, <1>2, <1>3, <1>4, RowReplaced

\* Revocation takes a device and all its prekeys.
LEMMA CommitRemovalKeeps ==
    ASSUME IInv, NEW p \in Tx, CommitRemoval(p)
    PROVE  DevicesPart' /\ DevicesStay
<1> DEFINE d == req[p].device
           old == devices[d]
           row == DeviceRow(old.user, TRUE, old.signed, {})
<1>1. d \in DOMAIN devices /\ old \in Devices /\ ~old.revoked
  BY DeviceStillInUse DEF CommitRemoval, Commit
<1>2. DeviceRowOK(row)
  BY <1>1 DEF DeviceRowOK, DeviceRow, Devices
<1>3. devices' = [devices EXCEPT ![d] = row]
  <2>1. devices \in Seq(Devices)
    BY DEF IInv, TablesOK
  <2>2. PICK half : half = [old EXCEPT !.revoked = TRUE]
    OBVIOUS
  <2>3. half = DeviceRow(old.user, TRUE, old.signed, old.active)
    BY <1>1, <2>2, RowChanges
  <2>4. [half EXCEPT !.active = {}] = row
    <3> HIDE DEF old
    <3>1. /\ half.user = old.user /\ half.revoked = TRUE /\ half.signed = old.signed
          /\ half \in Devices
      BY <1>1, <2>3 DEF DeviceRow, Devices
    <3>2. [half EXCEPT !.active = {}] = DeviceRow(half.user, half.revoked, half.signed, {})
      BY <3>1, RowChanges
    <3>3. QED
      BY <3>1, <3>2
  <2>5. [old EXCEPT !.revoked = TRUE, !.active = {}] = [half EXCEPT !.active = {}]
    BY <1>1, <2>2 DEF Devices
  <2>6. QED
    BY <1>1, <2>1, <2>4, <2>5 DEF CommitRemoval
<1>4. row.user = old.user
  BY DEF DeviceRow
<1> HIDE DEF row
<1>5. QED
  BY <1>1, <1>2, <1>3, <1>4, RowReplaced

-----------------------------------------------------------------------------
(* The steps.                                                              *)

\* Whatever requests do, each goes on knowing what RequestOKFor says.
LEMMA ContactsStepRequests ==
    ASSUME IInv, NEW p \in Tx, ContactsStep(p), UNCHANGED deviceVars
    PROVE  RequestsOK' /\ ReqOK'
<1>1. ASSUME NEW u \in Users, NEW c \in Users,
             AddContact(u, c) \/ RemoveContact(u, c) \/ CreateInvite(u, c)
      PROVE  RequestsOK' /\ ReqOK'
  BY <1>1, OneStatementOK DEF AddContact, RemoveContact, CreateInvite
<1>2. ASSUME NEW u \in Users, SelectInvite(p, u)
      PROVE  RequestsOK' /\ ReqOK'
  <2>1. PICK i \in DOMAIN invites, status \in Answers :
           /\ invites[i].status = "pending"
           /\ BeginRead(p, [op |-> "respond", stage |-> "looked", invite |-> i, status |-> status])
           /\ UNCHANGED contactVars
    BY <1>2 DEF SelectInvite, Answers
  <2> DEFINE r == [op |-> "respond", stage |-> "looked", invite |-> i, status |-> status]
  <2>2. RequestOKFor(r) /\ r.stage = "looked"
    BY <2>1 DEF RequestOKFor, Responds
  <2> HIDE DEF r
  <2>3. UNCHANGED <<invites, devices>>
    BY <2>1 DEF contactVars, deviceVars
  <2>4. BeginRead(p, r)
    BY <2>1 DEF r
  <2>5. QED
    BY <2>2, <2>3, <2>4, BeginOK
<1>3. ASSUME UpdateInvite(p)
      PROVE  RequestsOK' /\ ReqOK'
  BY <1>3, UpgradeOK DEF UpdateInvite, contactVars, deviceVars
<1>4. ASSUME CommitInvite(p)
      PROVE  RequestsOK' /\ ReqOK'
  BY <1>4, CommitOK DEF CommitInvite
<1>5. QED
  BY <1>1, <1>2, <1>3, <1>4 DEF ContactsStep

\* The same for transfers,
LEMMA WalletStepRequests ==
    ASSUME IInv, NEW p \in Tx, WalletStep(p), UNCHANGED <<contactVars, deviceVars>>
    PROVE  RequestsOK' /\ ReqOK'
<1>1. ASSUME NEW u \in Users, GetWallet(u)
      PROVE  RequestsOK' /\ ReqOK'
  BY <1>1, OneStatementOK DEF GetWallet
<1>2. ASSUME NEW from \in Users, NEW to \in Users, SendMoney(p, from, to)
      PROVE  RequestsOK' /\ ReqOK'
  <2>1. PICK n \in Amounts :
           BeginWrite(p, [op |-> "send", stage |-> "written", from |-> from, to |-> to,
                          amount |-> n])
    BY <1>2 DEF SendMoney
  <2> DEFINE r == [op |-> "send", stage |-> "written", from |-> from, to |-> to, amount |-> n]
  <2>2. RequestOKFor(r) /\ r.stage = "written"
    BY DEF RequestOKFor, Sends
  <2> HIDE DEF r
  <2>3. UNCHANGED <<invites, devices>>
    BY DEF contactVars, deviceVars
  <2>4. BeginWrite(p, r)
    BY <2>1 DEF r
  <2>5. QED
    BY <2>2, <2>3, <2>4, BeginOK
<1>3. ASSUME CommitTransfer(p)
      PROVE  RequestsOK' /\ ReqOK'
  BY <1>3, CommitOK DEF CommitTransfer
<1>4. QED
  BY <1>1, <1>2, <1>3 DEF WalletStep

\* The four requests that begin with a statement about one device.
LEMMA DeviceChangeBegins ==
    ASSUME IInv, NEW p \in Tx, NEW d \in DOMAIN devices, NEW u \in Users,
           NEW op \in {"rotate", "publish", "unregister"}, NEW keys \in SUBSET Prekeys,
           NEW stage, Owned(d, u),
           NEW r, r = [op |-> op, stage |-> stage, device |-> d, keys |-> keys],
           \/ BeginRead(p, r) /\ stage = "looked"
           \/ BeginWrite(p, r) /\ stage = "written",
           UNCHANGED <<invites, devices>>
    PROVE  RequestsOK' /\ ReqOK'
<1>1. stage \in {"looked", "written"} /\ r.stage = stage
  OBVIOUS
<1>2. ~devices[d].revoked
  BY DEF Owned
<1>3. Changes(r)
  BY <1>1, <1>2 DEF Changes
<1>4. QED
  BY <1>1, <1>3, BeginOK DEF RequestOKFor

\* and for requests about devices.
LEMMA DevicesStepRequests ==
    ASSUME IInv, NEW p \in Tx, DevicesStep(p), UNCHANGED contactVars
    PROVE  RequestsOK' /\ ReqOK'
<1>1. UNCHANGED invites
  BY DEF contactVars
<1>2. ASSUME NEW u \in Users, RegisterDevice(p, u)
      PROVE  RequestsOK' /\ ReqOK'
  <2>1. PICK keys \in SUBSET Prekeys :
           /\ keys # {}
           /\ BeginWrite(p, [op |-> "register", stage |-> "written", user |-> u, keys |-> keys])
    BY <1>2 DEF RegisterDevice, ValidPrekeys
  <2> DEFINE r == [op |-> "register", stage |-> "written", user |-> u, keys |-> keys]
  <2>2. RequestOKFor(r) /\ r.stage = "written"
    BY <2>1 DEF RequestOKFor, Registers
  <2> HIDE DEF r
  <2>3. UNCHANGED devices
    BY <1>2 DEF RegisterDevice, deviceVars
  <2>4. BeginWrite(p, r)
    BY <2>1 DEF r
  <2>5. QED
    BY <1>1, <2>2, <2>3, <2>4, BeginOK
<1>3. ASSUME NEW u \in Users, RotateDevice(p, u) \/ RevokeDevice(p, u)
      PROVE  RequestsOK' /\ ReqOK'
  <2>1. PICK d \in DOMAIN devices, op \in {"rotate", "unregister"}, keys \in SUBSET Prekeys :
           Owned(d, u) /\ BeginWrite(p, Changing(op, d, keys))
    BY <1>3 DEF RotateDevice, RevokeDevice
  <2>2. PICK r : r = [op |-> op, stage |-> "written", device |-> d, keys |-> keys]
    OBVIOUS
  <2>3. UNCHANGED devices
    BY <1>3 DEF RotateDevice, RevokeDevice, deviceVars
  <2>4. BeginWrite(p, r)
    BY <2>1, <2>2 DEF Changing
  <2>5. QED
    BY <1>1, <2>1, <2>2, <2>3, <2>4, DeviceChangeBegins
<1>4. ASSUME NEW u \in Users, PublishPrekeys(p, u)
      PROVE  RequestsOK' /\ ReqOK'
  <2>1. PICK d \in DOMAIN devices, keys \in SUBSET Prekeys :
           Owned(d, u) /\ BeginRead(p, [Changing("publish", d, keys) EXCEPT !.stage = "looked"])
    BY <1>4 DEF PublishPrekeys
  <2>2. UNCHANGED devices
    BY <1>4 DEF PublishPrekeys, deviceVars
  <2>3. PICK r : r = [op |-> "publish", stage |-> "looked", device |-> d, keys |-> keys]
    OBVIOUS
  <2>4. BeginRead(p, r)
    BY <2>1, <2>3 DEF Changing
  <2>5. QED
    BY <1>1, <2>1, <2>2, <2>3, <2>4, DeviceChangeBegins
<1>5. ASSUME UpsertPrekeys(p)
      PROVE  RequestsOK' /\ ReqOK'
  BY <1>1, <1>5, UpgradeOK DEF UpsertPrekeys, deviceVars
<1>6. ASSUME CommitRegistration(p) \/ CommitRotation(p) \/ CommitPrekeys(p) \/ CommitRemoval(p)
      PROVE  RequestsOK' /\ ReqOK'
  BY <1>6, CommitOK DEF CommitRegistration, CommitRotation, CommitPrekeys, CommitRemoval
<1>7. started \in 0..MaxRequests /\ RequestOKFor(req[p])
  BY DEF IInv, TypeOK, RequestsOK, ReqOK
<1>8. ASSUME NEW u \in Users, GetDirectory(p, u)
      PROVE  RequestsOK' /\ ReqOK'
  <2>1. PICK r : /\ r = [op |-> "directory", stage |-> "listing", owner |-> u,
                         before |-> devices, todo |-> Listed(u), found |-> << >>]
                 /\ req' = [req EXCEPT ![p] = r]
    BY <1>8 DEF GetDirectory
  <2>2. Quiet(r) /\ Quiet(req[p])
    BY <1>8, <2>1 DEF GetDirectory, Quiet
  <2>3. started' \in 0..MaxRequests
    BY <1>7, <1>8, RequestConstants DEF GetDirectory, Start
  <2>4. QED
    BY <1>1, <1>8, <2>1, <2>2, <2>3, ReadOK DEF GetDirectory, deviceVars
<1>9. ASSUME ListPrekeys(p)
      PROVE  RequestsOK' /\ ReqOK'
  <2>1. PICK d \in req[p].todo :
           req' = [req EXCEPT ![p].todo = @ \ {d},
                              ![p].found = Append(@, [device |-> d, keys |-> devices[d].active])]
    BY <1>9 DEF ListPrekeys
  <2>2. Quiet(req[p]) /\ req[p] # Idle
    BY <1>7, <1>9 DEF ListPrekeys, RequestOKFor, Responds, Sends, Registers, Changes, Idle
  <2> DEFINE found == Append(req[p].found, [device |-> d, keys |-> devices[d].active])
  <2>3. PICK half : half = [req[p] EXCEPT !.todo = req[p].todo \ {d}]
    OBVIOUS
  <2>4. PICK r : r = [half EXCEPT !.found = found]
    OBVIOUS
  <2>5. half = [op |-> "directory", stage |-> req[p].stage, owner |-> req[p].owner,
                before |-> req[p].before, todo |-> half.todo, found |-> req[p].found]
    BY <2>2, <2>3 DEF Quiet
  <2>6. r = [op |-> "directory", stage |-> req[p].stage, owner |-> req[p].owner,
             before |-> req[p].before, todo |-> r.todo, found |-> r.found]
    <3> HIDE DEF found
    <3>1. QED
      BY <2>4, <2>5
  <2>7. Quiet(r)
    BY <2>2, <2>6 DEF Quiet
  <2>8. req' = [req EXCEPT ![p] = r]
    BY <2>1, <2>2, <2>3, <2>4, <2>5 DEF IInv, ReqOK, Quiet
  <2>9. started' \in 0..MaxRequests
    BY <1>7, <1>9 DEF ListPrekeys
  <2>10. QED
    BY <1>1, <1>9, <2>2, <2>7, <2>8, <2>9, ReadOK DEF ListPrekeys, deviceVars
<1>10. ASSUME AnswerDirectory(p)
      PROVE  RequestsOK' /\ ReqOK'
  <2>1. PICK r : r = [req[p] EXCEPT !.stage = "answered"]
    OBVIOUS
  <2>2. Quiet(req[p]) /\ req[p] # Idle
    BY <1>7, <1>10 DEF AnswerDirectory, RequestOKFor, Responds, Sends, Registers, Changes, Idle
  <2>3. r = [op |-> "directory", stage |-> "answered", owner |-> req[p].owner,
             before |-> req[p].before, todo |-> req[p].todo, found |-> req[p].found]
    BY <2>1, <2>2 DEF Quiet
  <2>4. Quiet(r)
    BY <2>3 DEF Quiet
  <2>5. req' = [req EXCEPT ![p] = r]
    BY <1>10, <2>1 DEF AnswerDirectory
  <2>6. started' \in 0..MaxRequests
    BY <1>7, <1>10 DEF AnswerDirectory
  <2>7. QED
    BY <1>1, <1>10, <2>2, <2>4, <2>5, <2>6, ReadOK DEF AnswerDirectory, deviceVars
<1>11. ASSUME Leave(p)
       PROVE  RequestsOK' /\ ReqOK'
  <2>1. Quiet(req[p])
    BY <1>7, <1>11 DEF Leave, RequestOKFor, Responds, Sends, Registers, Changes
  <2>2. started' \in 0..MaxRequests /\ Quiet(Idle)
    BY <1>7, <1>11 DEF Leave, Quiet
  <2>3. QED
    BY <1>1, <1>11, <2>1, <2>2, ReadOK DEF Leave, deviceVars
<1>12. QED
  BY <1>2, <1>3, <1>4, <1>5, <1>6, <1>8, <1>9, <1>10, <1>11 DEF DevicesStep

\* A failed request knows nothing any more.
LEMMA FailRequests ==
    ASSUME IInv, NEW p \in Tx, Fail(p), UNCHANGED <<contactVars, deviceVars>>
    PROVE  RequestsOK' /\ ReqOK'
<1>1. req' = [req EXCEPT ![p] = Idle] /\ lock' = [lock EXCEPT ![p] = "none"]
  BY DEF Fail, Release
<1>2. HeldIn(Idle.stage) = "none" /\ RequestOKFor(Idle)
  BY DEF HeldIn, Idle, RequestOKFor, Quiet
<1>3. started' \in 0..MaxRequests
  BY DEF IInv, TypeOK, RequestsOK, Fail
<1>4. UNCHANGED <<invites, devices>>
  BY DEF contactVars, deviceVars
<1>5. QED
  BY <1>1, <1>2, <1>3, <1>4, RequestMovesOK

\* The tables, step by step.
LEMMA ContactsStepKeeps ==
    ASSUME IInv, NEW p \in Tx, ContactsStep(p)
    PROVE  /\ ContactsPart'
           /\ \A i \in DOMAIN invites : invites[i].status # "pending" =>
                 invites'[i].status = invites[i].status
<1>1. ASSUME NEW u \in Users, NEW c \in Users, AddContact(u, c) \/ RemoveContact(u, c)
      PROVE  ContactsPart' /\ invites' = invites
  BY <1>1, AddContactKeeps, RemoveContactKeeps DEF AddContact, RemoveContact
<1>2. ASSUME NEW u \in Users, SelectInvite(p, u)
      PROVE  ContactsPart' /\ invites' = invites
  BY <1>2, ContactsKept DEF SelectInvite, contactVars
<1>3. ASSUME UpdateInvite(p)
      PROVE  ContactsPart' /\ invites' = invites
  BY <1>3, ContactsKept DEF UpdateInvite, contactVars
<1>4. QED
  BY <1>1, <1>2, <1>3, CreateInviteKeeps, CommitInviteKeeps DEF ContactsStep

\* Devices keep what the invariant says of them.
LEMMA DevicesStepKeeps ==
    ASSUME IInv, NEW p \in Tx, DevicesStep(p)
    PROVE  DevicesPart' /\ DevicesStay
<1>1. ASSUME UNCHANGED deviceVars
      PROVE  DevicesPart' /\ DevicesStay
  BY <1>1, DevicesKept
<1>2. ASSUME NEW u \in Users,
             \/ RegisterDevice(p, u) \/ RotateDevice(p, u) \/ RevokeDevice(p, u)
             \/ PublishPrekeys(p, u) \/ GetDirectory(p, u)
      PROVE  UNCHANGED deviceVars
  BY <1>2 DEF RegisterDevice, RotateDevice, RevokeDevice, PublishPrekeys, GetDirectory
<1>3. ASSUME UpsertPrekeys(p) \/ ListPrekeys(p) \/ AnswerDirectory(p) \/ Leave(p)
      PROVE  UNCHANGED deviceVars
  BY <1>3 DEF UpsertPrekeys, ListPrekeys, AnswerDirectory, Leave
<1>4. QED
  BY <1>1, <1>2, <1>3, CommitRegistrationKeeps, CommitRotationKeeps, CommitPrekeysKeeps,
     CommitRemovalKeeps DEF DevicesStep

-----------------------------------------------------------------------------
(* The theorems.                                                           *)

\* The initial states.
LEMMA Initially == Init => IInv
<1> SUFFICES ASSUME Init PROVE IInv
  OBVIOUS
<1> USE DEF Init
<1>1. RequestsOK
  BY RequestConstants DEF RequestsInit, RequestsOK, LocksFree, Locks, Idle
<1>2. ReqOK
  BY DEF RequestsInit, ReqOK, RequestOKFor, Quiet
<1>3. ContactsOK /\ ContactsHaveCause /\ invites \in Seq(Invitations)
  BY DEF ContactsInit, ContactsOK, ContactsHaveCause
<1>4. WalletOK
  BY DEF WalletInit, WalletOK
<1>5. PICK u \in Users : devices = <<[user |-> u, revoked |-> FALSE, signed |-> 0,
                                      active |-> Prekeys]>>
  BY DEF DevicesInit
<1>6. /\ devices \in Seq(Devices) /\ DOMAIN devices = {1}
      /\ devices[1] = [user |-> u, revoked |-> FALSE, signed |-> 0, active |-> Prekeys]
  BY <1>5 DEF Devices
<1>7. DevicesOK /\ RevokedHasNoPrekeys
  BY <1>6, PrekeyConstants DEF DevicesOK, RevokedHasNoPrekeys
<1>8. QED
  BY <1>1, <1>2, <1>3, <1>4, <1>6, <1>7 DEF IInv, TypeOK, TablesOK

\* Every part of the invariant, step by step; devices stay, and no answer is changed.
LEMMA StepKeeps ==
    ASSUME IInv, Next
    PROVE  /\ IInv'
           /\ DevicesStay
           /\ \A i \in DOMAIN invites : invites[i].status # "pending" =>
                 invites'[i].status = invites[i].status
<1> DEFINE Parts == /\ RequestsOK' /\ ReqOK' /\ ContactsPart' /\ WalletOK' /\ DevicesPart'
                    /\ DevicesStay
                    /\ \A i \in DOMAIN invites : invites[i].status # "pending" =>
                          invites'[i].status = invites[i].status
<1>1. PICK p \in Tx :
         \/ ContactsStep(p) /\ UNCHANGED <<walletVars, deviceVars>>
         \/ WalletStep(p) /\ UNCHANGED <<contactVars, deviceVars>>
         \/ DevicesStep(p) /\ UNCHANGED <<contactVars, walletVars>>
         \/ Fail(p) /\ UNCHANGED <<contactVars, walletVars, deviceVars>>
  BY DEF Next
<1>2. UNCHANGED walletVars => WalletOK'
  BY DEF IInv, TypeOK, walletVars, WalletOK
<1>3. UNCHANGED contactVars => invites' = invites
  BY DEF contactVars
<1>4. CASE ContactsStep(p) /\ UNCHANGED <<walletVars, deviceVars>>
  <2>1. Parts
    BY <1>2, <1>4, ContactsStepRequests, ContactsStepKeeps, DevicesKept
  <2>2. QED
    BY <2>1 DEF IInv, TypeOK, TablesOK, ContactsPart, DevicesPart
<1>5. CASE WalletStep(p) /\ UNCHANGED <<contactVars, deviceVars>>
  <2>1. Parts
    BY <1>3, <1>5, WalletStepRequests, WalletKeeps, ContactsKept, DevicesKept
  <2>2. QED
    BY <2>1 DEF IInv, TypeOK, TablesOK, ContactsPart, DevicesPart
<1>6. CASE DevicesStep(p) /\ UNCHANGED <<contactVars, walletVars>>
  <2>1. Parts
    BY <1>2, <1>3, <1>6, DevicesStepRequests, DevicesStepKeeps, ContactsKept
  <2>2. QED
    BY <2>1 DEF IInv, TypeOK, TablesOK, ContactsPart, DevicesPart
<1>7. CASE Fail(p) /\ UNCHANGED <<contactVars, walletVars, deviceVars>>
  <2>1. Parts
    BY <1>2, <1>3, <1>7, FailRequests, ContactsKept, DevicesKept
  <2>2. QED
    BY <2>1 DEF IInv, TypeOK, TablesOK, ContactsPart, DevicesPart
<1>8. QED
  BY <1>1, <1>4, <1>5, <1>6, <1>7

\* A step that changes nothing.
LEMMA StutterKeeps ==
    ASSUME IInv, UNCHANGED vars
    PROVE  IInv'
<1>1. /\ req' = req /\ started' = started /\ lock' = lock
      /\ contacts' = contacts /\ invites' = invites /\ added' = added
      /\ balance' = balance /\ transfers' = transfers /\ deposits' = deposits
      /\ devices' = devices
  BY DEF vars, requests, contactVars, walletVars, deviceVars
<1>2. RequestsOK' /\ ReqOK'
  BY <1>1 DEF IInv, TypeOK, RequestsOK, ReqOK, RequestOKFor, Quiet, Responds, Sends, Registers,
              Changes
<1>3. ContactsPart' /\ DevicesPart'
  BY <1>1, ContactsKept, DevicesKept DEF contactVars, deviceVars
<1>4. WalletOK'
  BY <1>1 DEF IInv, TypeOK, WalletOK
<1>5. QED
  BY <1>2, <1>3, <1>4 DEF IInv, TypeOK, TablesOK, ContactsPart, DevicesPart

\* The inductive invariant holds: requests know what they read.
THEOREM Invariance == Spec => []IInv
<1>1. IInv /\ [Next]_vars => IInv'
  BY StepKeeps, StutterKeeps
<1>2. QED
  BY Initially, <1>1, PTL DEF Spec

\* Types, the tables' constraints, and locks that last as long as their
\* transactions, for contacts, wallets and devices on one database.
THEOREM TypeCorrect == Spec => []TypeOK
<1>1. IInv => TypeOK
  BY DEF IInv
<1>2. QED
  BY Invariance, <1>1, PTL

\* Contacts come from AddContact or from an invitation that was accepted,
\* whichever answers UpdateInviteStatus commits at once.
THEOREM ContactsAreCaused == Spec => []ContactsHaveCause
<1>1. IInv => ContactsHaveCause
  BY DEF IInv
<1>2. QED
  BY Invariance, <1>1, PTL

\* RevokeDeviceIdentity takes a device's prekeys with it, and no publication or
\* rotation that checked the device before brings one back.
THEOREM RevokedDevicesAreEmpty == Spec => []RevokedHasNoPrekeys
<1>1. IInv => RevokedHasNoPrekeys
  BY DEF IInv
<1>2. QED
  BY Invariance, <1>1, PTL

\* UpdateInviteStatus never answers an invitation twice: the second answer finds
\* it no longer pending.
THEOREM AnswersAreFinal == Spec => InvitationIsFinal
<1> DEFINE Kept == \A i \in DOMAIN invites : invites[i].status # "pending" =>
                      invites'[i].status = invites[i].status
<1>1. IInv /\ [Next]_vars => [Kept]_vars
  BY StepKeeps
<1>2. QED
  BY Invariance, <1>1, PTL DEF Spec, InvitationIsFinal
-----------------------------------------------------------------------------
(* What a step does to transfers and directory requests.                   *)

\* A directory request has the fields of one.
LEMMA DirectoryFields ==
    ASSUME IInv, NEW p \in Tx, req[p].op = "directory"
    PROVE  req[p] = [op |-> "directory", stage |-> req[p].stage, owner |-> req[p].owner,
                     before |-> req[p].before, todo |-> req[p].todo, found |-> req[p].found]
<1>1. RequestOKFor(req[p])
  BY DEF IInv, ReqOK
<1>2. Quiet(req[p]) /\ req[p] # Idle
  BY <1>1 DEF RequestOKFor, Responds, Sends, Registers, Changes, Idle
<1>3. QED
  BY <1>2 DEF Quiet

\* The steps of a directory request up to its answer.
DirectoryStep(p) ==
    \/ \E u \in Users : GetDirectory(p, u)
    \/ ListPrekeys(p)
    \/ AnswerDirectory(p)

\* The other steps leave transfers and directory requests alone, or end them.
LEMMA RequestsLeftAlone ==
    ASSUME IInv, NEW p \in Tx,
           \/ ContactsStep(p) \/ (DevicesStep(p) /\ ~DirectoryStep(p)) \/ Fail(p)
           \/ CommitTransfer(p) \/ \E u \in Users : GetWallet(u)
    PROVE  \A q \in Tx : req'[q] = req[q] \/ req'[q].op \notin {"send", "directory"}
<1> DEFINE Other(r) == req' = [req EXCEPT ![p] = r] /\ r.op \notin {"send", "directory"}
           Goal == \A q \in Tx : req'[q] = req[q] \/ req'[q].op \notin {"send", "directory"}
<1>1. req = [q \in Tx |-> req[q]]
  BY DEF IInv, ReqOK
<1>2. ASSUME NEW r, Other(r) PROVE Goal
  BY <1>1, <1>2
<1>3. ASSUME req' = req PROVE Goal
  BY <1>3
<1>4. ASSUME NEW op, Commit(p, op) PROVE Goal
  <2>1. Other(Idle)
    BY <1>4 DEF Commit, Idle
  <2>2. QED
    BY <1>2, <2>1
<1>5. ASSUME NEW r, BeginRead(p, r) \/ BeginWrite(p, r), r.op \notin {"send", "directory"}
      PROVE  Goal
  <2>1. Other(r)
    BY <1>5 DEF BeginRead, BeginWrite
  <2>2. QED
    BY <1>2, <2>1
<1>6. ASSUME req[p].op \in {"publish", "respond"}, req' = [req EXCEPT ![p].stage = "written"]
      PROVE  Goal
  <2>1. RequestOKFor(req[p])
    BY DEF IInv, ReqOK
  <2>2. Responds(req[p]) \/ Changes(req[p])
    BY <1>6, <2>1 DEF RequestOKFor, Quiet, Idle, Sends, Registers
  <2>3. PICK r : r = [req[p] EXCEPT !.stage = "written"]
    OBVIOUS
  <2>4. Other(r)
    BY <1>1, <1>6, <2>2, <2>3 DEF Responds, Changes
  <2>5. QED
    BY <1>2, <2>4
<1>7. CASE ContactsStep(p)
  <2>1. CASE \E u, c \in Users : AddContact(u, c) \/ RemoveContact(u, c) \/ CreateInvite(u, c)
    BY <1>3, <2>1 DEF AddContact, RemoveContact, CreateInvite, OneStatement
  <2>2. CASE \E u \in Users : SelectInvite(p, u)
    <3>1. PICK i \in DOMAIN invites, status \in {"accepted", "rejected"} :
             BeginRead(p, [op |-> "respond", stage |-> "looked", invite |-> i, status |-> status])
      BY <2>2 DEF SelectInvite
    <3>2. QED
      BY <1>5, <3>1
  <2>3. CASE UpdateInvite(p)
    BY <1>6, <2>3 DEF UpdateInvite
  <2>4. CASE CommitInvite(p)
    BY <1>4, <2>4 DEF CommitInvite
  <2>5. QED
    BY <1>7, <2>1, <2>2, <2>3, <2>4 DEF ContactsStep
<1>8. CASE Fail(p)
  <2>1. Other(Idle)
    BY <1>8 DEF Fail, Idle
  <2>2. QED
    BY <1>2, <2>1
<1>9. CASE DevicesStep(p) /\ ~DirectoryStep(p)
  <2>1. ASSUME NEW u \in Users, RegisterDevice(p, u) PROVE Goal
    BY <1>5, <2>1 DEF RegisterDevice
  <2>2. ASSUME NEW u \in Users, RotateDevice(p, u) \/ RevokeDevice(p, u) PROVE Goal
    <3>1. PICK op \in {"rotate", "unregister"} :
             \E d \in DOMAIN devices, keys \in SUBSET Prekeys : BeginWrite(p, Changing(op, d, keys))
      BY <2>2 DEF RotateDevice, RevokeDevice
    <3>2. \A d, keys : Changing(op, d, keys).op \notin {"send", "directory"}
      BY DEF Changing
    <3>3. QED
      BY <1>5, <3>1, <3>2
  <2>3. ASSUME NEW u \in Users, PublishPrekeys(p, u) PROVE Goal
    <3>1. PICK d, keys : BeginRead(p, [Changing("publish", d, keys) EXCEPT !.stage = "looked"])
      BY <2>3 DEF PublishPrekeys
    <3>2. [Changing("publish", d, keys) EXCEPT !.stage = "looked"].op \notin {"send", "directory"}
      BY DEF Changing
    <3>3. QED
      BY <1>5, <3>1, <3>2
  <2>4. ASSUME UpsertPrekeys(p) PROVE Goal
    BY <1>6, <2>4 DEF UpsertPrekeys
  <2>5. ASSUME \/ CommitRegistration(p) \/ CommitRotation(p) \/ CommitPrekeys(p)
               \/ CommitRemoval(p)
        PROVE  Goal
    BY <1>4, <2>5 DEF CommitRegistration, CommitRotation, CommitPrekeys, CommitRemoval
  <2>6. ASSUME Leave(p) PROVE Goal
    <3>1. Other(Idle)
      BY <2>6 DEF Leave, Idle
    <3>2. QED
      BY <1>2, <3>1
  <2>7. QED
    BY <1>9, <2>1, <2>2, <2>3, <2>4, <2>5, <2>6 DEF DevicesStep, DirectoryStep
<1>10. CASE CommitTransfer(p)
  BY <1>4, <1>10 DEF CommitTransfer
<1>11. CASE \E u \in Users : GetWallet(u)
  BY <1>3, <1>11 DEF GetWallet, OneStatement
<1>12. QED
  BY <1>7, <1>8, <1>9, <1>10, <1>11

\* What is read of one more device, in one piece.
LEMMA ListPrekeysMoves ==
    ASSUME IInv, NEW p \in Tx, ListPrekeys(p)
    PROVE  \E d, r :
              /\ d \in req[p].todo
              /\ req' = [req EXCEPT ![p] = r]
              /\ r = [op |-> "directory", stage |-> "listing", owner |-> req[p].owner,
                      before |-> req[p].before, todo |-> req[p].todo \ {d},
                      found |-> Append(req[p].found, [device |-> d, keys |-> devices[d].active])]
<1>1. PICK old : old = req[p]
  OBVIOUS
<1>2. PICK d \in old.todo :
         req' = [req EXCEPT ![p].todo = @ \ {d},
                            ![p].found = Append(@, [device |-> d, keys |-> devices[d].active])]
  BY <1>1 DEF ListPrekeys
<1>3. PICK found : found = Append(old.found, [device |-> d, keys |-> devices[d].active])
  OBVIOUS
<1>4. old = [op |-> "directory", stage |-> "listing", owner |-> old.owner,
             before |-> old.before, todo |-> old.todo, found |-> old.found]
  BY <1>1, DirectoryFields DEF ListPrekeys
<1>5. PICK half : half = [old EXCEPT !.todo = old.todo \ {d}]
  OBVIOUS
<1>6. half = [op |-> "directory", stage |-> "listing", owner |-> old.owner,
              before |-> old.before, todo |-> old.todo \ {d}, found |-> old.found]
  BY <1>4, <1>5
<1>7. PICK r : r = [half EXCEPT !.found = found]
  OBVIOUS
<1>8. r = [op |-> "directory", stage |-> "listing", owner |-> old.owner,
           before |-> old.before, todo |-> old.todo \ {d}, found |-> found]
  BY <1>6, <1>7
<1>9. req' = [req EXCEPT ![p] = r]
  BY <1>1, <1>2, <1>3, <1>4, <1>5, <1>7 DEF IInv, ReqOK
<1>10. QED
  BY <1>1, <1>2, <1>3, <1>8, <1>9

\* A directory request goes on, and has its fields.
LEMMA DirectoryRequests ==
    ASSUME IInv, NEW p \in Tx, DirectoryStep(p)
    PROVE  \A q \in Tx : req'[q] = req[q] \/ req'[q].op = "directory"
<1>1. PICK r : req' = [req EXCEPT ![p] = r] /\ r.op = "directory"
  <2>1. CASE \E u \in Users : GetDirectory(p, u)
    <3>1. PICK u, r : /\ r = [op |-> "directory", stage |-> "listing", owner |-> u,
                              before |-> devices, todo |-> Listed(u), found |-> << >>]
                      /\ req' = [req EXCEPT ![p] = r]
      BY <2>1 DEF GetDirectory
    <3>2. r.op = "directory"
      BY <3>1
    <3>3. QED
      BY <3>1, <3>2
  <2>2. CASE ListPrekeys(p)
    <3>1. PICK d, r :
             /\ req' = [req EXCEPT ![p] = r]
             /\ r = [op |-> "directory", stage |-> "listing", owner |-> req[p].owner,
                     before |-> req[p].before, todo |-> req[p].todo \ {d},
                     found |-> Append(req[p].found, [device |-> d, keys |-> devices[d].active])]
      BY <2>2, ListPrekeysMoves
    <3>2. r.op = "directory"
      BY <3>1
    <3>3. QED
      BY <3>1, <3>2
  <2>3. CASE AnswerDirectory(p)
    <3>1. PICK r : r = [req[p] EXCEPT !.stage = "answered"]
      OBVIOUS
    <3>2. r.op = "directory"
      BY <2>3, <3>1, DirectoryFields DEF AnswerDirectory
    <3>3. QED
      BY <2>3, <3>1, <3>2 DEF AnswerDirectory
  <2>4. QED
    BY <2>1, <2>2, <2>3 DEF DirectoryStep
<1>2. QED
  BY <1>1 DEF IInv, ReqOK

-----------------------------------------------------------------------------
(* Sums over the log, as MapThenSumSet computes them.                      *)

\* Induction over the numbers, for a set of them.
LEMMA AllNumbers ==
    ASSUME NEW G \in SUBSET Nat, 0 \in G, \A k \in G : k + 1 \in G
    PROVE  G = Nat
<1> DEFINE Less == {ss \in Nat \X Nat : ss[1] < ss[2]}
<1>1. IsWellFoundedOn(Less, Nat)
  BY NatLessThanWellFounded DEF OpToRel
<1> HIDE DEF Less
<1>2. SUFFICES ASSUME Nat \ G # {} PROVE FALSE
  OBVIOUS
<1>3. PICK n \in Nat \ G : \A k \in Nat \ G : ~ (<<k, n>> \in Less)
  <2>1. Nat \ G \subseteq Nat
    OBVIOUS
  <2>2. QED
    BY <1>1, <1>2, <2>1, WFMin
<1>4. n # 0 /\ n - 1 \in Nat /\ n - 1 < n
  BY <1>3
<1>5. <<n - 1, n>> \in Less
  BY <1>4, Zenon DEF Less
<1>6. n - 1 \in G
  BY <1>3, <1>4, <1>5
<1>7. (n - 1) + 1 = n
  BY <1>3
<1>8. QED
  BY <1>3, <1>6, <1>7

Pick(s) == CHOOSE x \in s : TRUE

\* The amounts of the transfers in s, summed the way MapThenSumSet goes on.
SumStep(g, log, s) ==
    IF s = {} THEN 0 ELSE log[Pick(s)].amount + g[s \ {Pick(s)}]

Sums(g, log, S) == g = [s \in SUBSET S |-> SumStep(g, log, s)]

Total(log, S) == MapThenSumSet(LAMBDA i : log[i].amount, S)

\* What CHOOSE picks, and what is left.
LEMMA PickIs ==
    ASSUME NEW s, s # {}, IsFiniteSet(s)
    PROVE  /\ Pick(s) \in s
           /\ IsFiniteSet(s \ {Pick(s)})
           /\ Cardinality(s \ {Pick(s)}) = Cardinality(s) - 1
           /\ Cardinality(s) \in Nat \ {0}
<1>1. Pick(s) \in s
  BY DEF Pick
<1>2. Cardinality(s) \in Nat /\ Cardinality(s) # 0
  BY FS_CardinalityType, FS_EmptySet
<1>3. QED
  BY <1>1, <1>2, FS_RemoveElement

\* The recursion has a solution.
LEMMA SumsExist ==
    ASSUME NEW log, NEW S, IsFiniteSet(S)
    PROVE  \E g : Sums(g, log, S)
<1> DEFINE Upto(k) == {s \in SUBSET S : Cardinality(s) <= k}
           G == {k \in Nat : \E g : g = [s \in Upto(k) |-> SumStep(g, log, s)]}
<1>1. \A s \in SUBSET S : IsFiniteSet(s) /\ Cardinality(s) \in Nat
  BY FS_Subset, FS_CardinalityType
<1>2. 0 \in G
  <2>1. \A s \in Upto(0) : s = {}
    BY <1>1, FS_EmptySet
  <2>2. [s \in Upto(0) |-> 0] = [s \in Upto(0) |-> SumStep([t \in Upto(0) |-> 0], log, s)]
    BY <2>1 DEF SumStep
  <2>3. QED
    BY <2>2
<1>3. ASSUME NEW k \in G PROVE k + 1 \in G
  <2>1. PICK g : g = [s \in Upto(k) |-> SumStep(g, log, s)]
    OBVIOUS
  <2>2. PICK h : h = [s \in Upto(k + 1) |-> SumStep(g, log, s)]
    OBVIOUS
  <2>3. ASSUME NEW s \in Upto(k + 1)
        PROVE  SumStep(g, log, s) = SumStep(h, log, s)
    <3>1. CASE s = {}
      BY <3>1 DEF SumStep
    <3>2. CASE s # {}
      <4>1. PICK t : t = s \ {Pick(s)}
        OBVIOUS
      <4>2. t \in SUBSET S /\ Cardinality(t) = Cardinality(s) - 1 /\ Cardinality(s) \in Nat
        BY <1>1, <3>2, <4>1, PickIs
      <4>3. t \in Upto(k) /\ t \in Upto(k + 1)
        BY <4>2
      <4>4. g[t] = h[t]
        BY <2>1, <2>2, <4>3
      <4>5. QED
        BY <3>2, <4>1, <4>4 DEF SumStep
    <3>3. QED
      BY <3>1, <3>2
  <2>4. h = [s \in Upto(k + 1) |-> SumStep(h, log, s)]
    BY <2>2, <2>3
  <2>5. k + 1 \in Nat
    OBVIOUS
  <2>6. \E gg : gg = [s \in Upto(k + 1) |-> SumStep(gg, log, s)]
    BY <2>4, Zenon
  <2>7. QED
    BY <2>5, <2>6
<1>4. G = Nat
  <2> HIDE DEF G
  <2>1. G \in SUBSET Nat
    BY DEF G
  <2>2. QED
    BY <1>2, <1>3, <2>1, AllNumbers
<1>5. PICK k \in Nat : k = Cardinality(S)
  BY <1>1
<1>6. Upto(k) = SUBSET S
  BY <1>1, <1>5, FS_Subset
<1>7. PICK g : g = [s \in Upto(k) |-> SumStep(g, log, s)]
  BY <1>4
<1>8. QED
  BY <1>6, <1>7 DEF Sums

\* g counts s in any order; g and h agree below S.
AnyOrder(g, log, S) == \A s \in SUBSET S : \A x \in s : g[s] = log[x].amount + g[s \ {x}]
Agree(g, h, S) == \A s \in SUBSET S : g[s] = h[s]

\* They do not depend on the set the recursion started from, nor on the rest of the log.
LEMMA SumsAgree ==
    ASSUME NEW log, NEW more, NEW S, NEW T, IsFiniteSet(S),
           NEW g, Sums(g, log, S), NEW h, Sums(h, more, T),
           \A i \in S \cap T : log[i].amount = more[i].amount
    PROVE  Agree(g, h, S \cap T)
<1> DEFINE G == {k \in Nat : \A s \in SUBSET (S \cap T) : Cardinality(s) = k => g[s] = h[s]}
<1>1. \A s \in SUBSET (S \cap T) : /\ IsFiniteSet(s) /\ Cardinality(s) \in Nat
                                   /\ s \in SUBSET S /\ s \in SUBSET T
  BY FS_Subset, FS_CardinalityType
<1>2. \A s \in SUBSET (S \cap T) : g[s] = SumStep(g, log, s) /\ h[s] = SumStep(h, more, s)
  BY <1>1 DEF Sums
<1>3. 0 \in G
  <2>1. ASSUME NEW s \in SUBSET (S \cap T), Cardinality(s) = 0 PROVE g[s] = h[s]
    <3>1. s = {}
      BY <1>1, <2>1, FS_EmptySet
    <3>2. QED
      BY <1>2, <3>1 DEF SumStep
  <2>2. QED
    BY <2>1
<1>4. ASSUME NEW k \in G PROVE k + 1 \in G
  <2>1. ASSUME NEW s \in SUBSET (S \cap T), Cardinality(s) = k + 1 PROVE g[s] = h[s]
    <3>1. s # {}
      <4>1. k \in Nat /\ k + 1 # 0
        OBVIOUS
      <4>2. QED
        BY <2>1, <4>1, FS_EmptySet
    <3>2. PICK x : x = Pick(s)
      OBVIOUS
    <3>3. x \in s /\ s \ {x} \in SUBSET (S \cap T) /\ Cardinality(s \ {x}) = k
      BY <1>1, <2>1, <3>1, <3>2, PickIs
    <3>4. g[s \ {x}] = h[s \ {x}]
      BY <3>3
    <3>5. log[x].amount = more[x].amount
      BY <3>3
    <3>6. QED
      BY <1>2, <3>1, <3>2, <3>4, <3>5 DEF SumStep
  <2>2. QED
    BY <2>1
<1>5. G = Nat
  <2> HIDE DEF G
  <2>1. G \in SUBSET Nat
    BY DEF G
  <2>2. QED
    BY <1>3, <1>4, <2>1, AllNumbers
<1>6. QED
  BY <1>1, <1>5 DEF Agree

\* Whole numbers add up to one.
LEMMA SumsAreNumbers ==
    ASSUME NEW log, NEW S, IsFiniteSet(S), NEW g, Sums(g, log, S),
           \A i \in S : log[i].amount \in Nat
    PROVE  \A s \in SUBSET S : g[s] \in Nat
<1> DEFINE G == {k \in Nat : \A s \in SUBSET S : Cardinality(s) = k => g[s] \in Nat}
<1>1. \A s \in SUBSET S : IsFiniteSet(s) /\ Cardinality(s) \in Nat /\ g[s] = SumStep(g, log, s)
  BY FS_Subset, FS_CardinalityType DEF Sums
<1>2. 0 \in G
  <2>1. ASSUME NEW s \in SUBSET S, Cardinality(s) = 0 PROVE g[s] \in Nat
    <3>1. s = {}
      BY <1>1, <2>1, FS_EmptySet
    <3>2. SumStep(g, log, s) = 0
      BY <3>1 DEF SumStep
    <3>3. QED
      BY <1>1, <3>2
  <2>2. QED
    BY <2>1
<1>3. ASSUME NEW k \in G PROVE k + 1 \in G
  <2>1. ASSUME NEW s \in SUBSET S, Cardinality(s) = k + 1 PROVE g[s] \in Nat
    <3>1. s # {}
      <4>1. k \in Nat /\ k + 1 # 0
        OBVIOUS
      <4>2. QED
        BY <2>1, <4>1, FS_EmptySet
    <3>2. PICK x : x = Pick(s)
      OBVIOUS
    <3>3. x \in s /\ s \ {x} \in SUBSET S /\ Cardinality(s \ {x}) = k
      BY <1>1, <2>1, <3>1, <3>2, PickIs
    <3>4. g[s \ {x}] \in Nat /\ log[x].amount \in Nat
      BY <3>3
    <3>5. g[s] = log[x].amount + g[s \ {x}]
      BY <1>1, <3>1, <3>2 DEF SumStep
    <3>6. QED
      BY <3>4, <3>5
  <2>2. QED
    BY <2>1
<1>4. G = Nat
  <2> HIDE DEF G
  <2>1. G \in SUBSET Nat
    BY DEF G
  <2>2. QED
    BY <1>2, <1>3, <2>1, AllNumbers
<1>5. QED
  BY <1>1, <1>4

\* Any element may come first.
LEMMA SumsInAnyOrder ==
    ASSUME NEW log, NEW S, IsFiniteSet(S), NEW g, Sums(g, log, S),
           \A i \in S : log[i].amount \in Nat
    PROVE  AnyOrder(g, log, S)
<1> DEFINE Orderly(s) == \A x \in s : g[s] = log[x].amount + g[s \ {x}]
           G == {k \in Nat : \A s \in SUBSET S : Cardinality(s) = k => Orderly(s)}
<1>1. \A s \in SUBSET S : /\ IsFiniteSet(s) /\ Cardinality(s) \in Nat
                          /\ g[s] = SumStep(g, log, s) /\ g[s] \in Nat
  BY SumsAreNumbers, FS_Subset, FS_CardinalityType DEF Sums
<1>2. 0 \in G
  <2>1. \A s \in SUBSET S : Cardinality(s) = 0 => s = {}
    BY <1>1, FS_EmptySet
  <2>2. QED
    BY <2>1
<1>3. ASSUME NEW k \in G PROVE k + 1 \in G
  <2>1. ASSUME NEW s \in SUBSET S, Cardinality(s) = k + 1, NEW x \in s
        PROVE  g[s] = log[x].amount + g[s \ {x}]
    <3>1. PICK y : y = Pick(s)
      OBVIOUS
    <3>2. y \in s /\ Cardinality(s \ {y}) = k /\ Cardinality(s \ {x}) = k
      <4>1. s # {} /\ IsFiniteSet(s) /\ k \in Nat
        BY <1>1, <2>1
      <4>2. y \in s
        BY <3>1, <4>1, PickIs
      <4>3. (k + 1) - 1 = k
        BY <4>1
      <4>4. Cardinality(s \ {y}) = Cardinality(s) - 1
        BY <4>1, <4>2, FS_RemoveElement
      <4>5. Cardinality(s \ {x}) = Cardinality(s) - 1
        BY <2>1, <4>1, FS_RemoveElement
      <4>6. QED
        BY <2>1, <4>2, <4>3, <4>4, <4>5
    <3>3. g[s] = log[y].amount + g[s \ {y}]
      BY <1>1, <2>1, <3>1 DEF SumStep
    <3>4. CASE x = y
      BY <3>3, <3>4
    <3>5. CASE x # y
      <4>1. PICK rest \in SUBSET S : rest = (s \ {x}) \ {y} /\ rest = (s \ {y}) \ {x}
        OBVIOUS
      <4>2. Orderly(s \ {y}) /\ Orderly(s \ {x})
        BY <3>2
      <4>3. g[s \ {y}] = log[x].amount + g[rest] /\ g[s \ {x}] = log[y].amount + g[rest]
        BY <2>1, <3>2, <3>5, <4>1, <4>2
      <4>4. log[x].amount \in Nat /\ log[y].amount \in Nat /\ g[rest] \in Nat
        BY <1>1, <3>2
      <4>5. QED
        BY <3>3, <4>3, <4>4
    <3>6. QED
      BY <3>4, <3>5
  <2>2. QED
    BY <2>1
<1>4. G = Nat
  <2> HIDE DEF G
  <2>1. G \in SUBSET Nat
    BY DEF G
  <2>2. QED
    BY <1>2, <1>3, <2>1, AllNumbers
<1>5. QED
  BY <1>1, <1>4 DEF AnyOrder

\* What Total computes.
LEMMA TotalIs ==
    ASSUME NEW log, NEW S, IsFiniteSet(S)
    PROVE  \E g : Sums(g, log, S) /\ Total(log, S) = g[S]
<1>1. Total(log, S) = (CHOOSE g : Sums(g, log, S))[S]
  BY DEF Total, MapThenSumSet, MapThenFoldSet, Sums, SumStep, Pick
<1>2. QED
  BY <1>1, SumsExist

\* No transfers, no money.
LEMMA TotalOfNothing ==
    ASSUME NEW log
    PROVE  Total(log, {}) = 0
<1>1. PICK g : Sums(g, log, {}) /\ Total(log, {}) = g[{}]
  BY TotalIs, FS_EmptySet
<1>2. QED
  BY <1>1 DEF Sums, SumStep

\* Only the amounts in the set count.
LEMMA TotalSame ==
    ASSUME NEW log, NEW more, NEW S, IsFiniteSet(S),
           \A i \in S : log[i].amount = more[i].amount
    PROVE  Total(log, S) = Total(more, S)
<1>1. PICK g : Sums(g, log, S) /\ Total(log, S) = g[S]
  BY TotalIs
<1>2. PICK h : Sums(h, more, S) /\ Total(more, S) = h[S]
  BY TotalIs
<1>3. Agree(g, h, S \cap S)
  BY <1>1, <1>2, SumsAgree
<1>4. QED
  BY <1>1, <1>2, <1>3 DEF Agree

\* One more transfer adds its amount.
LEMMA TotalGrows ==
    ASSUME NEW log, NEW S, NEW T, IsFiniteSet(T), NEW x \in T, S = T \ {x},
           \A i \in T : log[i].amount \in Nat
    PROVE  /\ Total(log, T) = Total(log, S) + log[x].amount
           /\ Total(log, S) \in Nat
<1>1. IsFiniteSet(S) /\ S \in SUBSET T /\ S \cap T = S
  BY FS_RemoveElement
<1>2. PICK g : Sums(g, log, S) /\ Total(log, S) = g[S]
  BY <1>1, TotalIs
<1>3. PICK h : Sums(h, log, T) /\ Total(log, T) = h[T]
  BY TotalIs
<1>4. h[T] = log[x].amount + h[S]
  <2>1. AnyOrder(h, log, T)
    BY <1>3, SumsInAnyOrder
  <2>2. QED
    BY <2>1 DEF AnyOrder
<1>5. g[S] = h[S]
  <2>1. \A i \in S \cap T : log[i].amount = log[i].amount
    OBVIOUS
  <2>2. Agree(g, h, S \cap T)
    BY <1>1, <1>2, <1>3, <2>1, SumsAgree
  <2>3. QED
    BY <1>1, <2>2 DEF Agree
<1>6. g[S] \in Nat
  BY <1>1, <1>2, SumsAreNumbers
<1>7. log[x].amount \in Nat
  OBVIOUS
<1>8. QED
  BY <1>2, <1>3, <1>4, <1>5, <1>6, <1>7
-----------------------------------------------------------------------------
(* The books.                                                              *)

Transfers == [from : Users, to : Users, amount : Amounts]

\* What a user has, and started with, with or without an account.
Has(u) == IF u \in DOMAIN balance THEN balance[u] ELSE 0
Started(u) == IF u \in DOMAIN deposits THEN deposits[u] ELSE 0

\* The transfers to and from a user.
Incoming(log, u) == {i \in DOMAIN log : log[i].to = u}
Outgoing(log, u) == {i \in DOMAIN log : log[i].from = u}

\* The account a transfer debits covers it, until it commits.
Covered(r) ==
    /\ r.from # r.to
    /\ Has(r.from) >= r.amount

BooksInv ==
    /\ deposits \in [DOMAIN deposits -> Nat]
    /\ balance \in [DOMAIN balance -> Nat]
    /\ transfers \in Seq(Transfers)
    /\ \A p \in Tx : req[p].op = "send" => Covered(req[p])
    /\ \A u \in Users : Has(u) = Started(u) + Total(transfers, Incoming(transfers, u))
                                            - Total(transfers, Outgoing(transfers, u))

\* more is log with one more transfer.
OneMore(log, more, n) ==
    /\ IsFiniteSet(DOMAIN log) /\ n \notin DOMAIN log /\ DOMAIN more = DOMAIN log \cup {n}
    /\ \A i \in DOMAIN log : more[i] = log[i]
    /\ \A i \in DOMAIN more : more[i].amount \in Nat

\* Appending to the log is that.
LEMMA AppendIsOneMore ==
    ASSUME NEW log \in Seq(Transfers), NEW row \in Transfers
    PROVE  /\ OneMore(log, Append(log, row), Len(log) + 1)
           /\ Append(log, row)[Len(log) + 1] = row
<1>1. PICK more : more = Append(log, row)
  OBVIOUS
<1>2. PICK n : n = Len(log) + 1
  OBVIOUS
<1>3. /\ DOMAIN more = DOMAIN log \cup {n} /\ n \notin DOMAIN log
      /\ more[n] = row
      /\ \A i \in DOMAIN log : more[i] = log[i]
  BY <1>1, <1>2
<1>4. \A i \in DOMAIN more : more[i].amount \in Nat
  <2>1. \A i \in DOMAIN log : log[i] \in Transfers
    OBVIOUS
  <2>2. \A i \in DOMAIN more : more[i] \in Transfers
    BY <1>3, <2>1
  <2>3. \A x \in Transfers : x.amount \in Nat
    BY WalletConstants DEF Transfers
  <2>4. QED
    BY <2>2, <2>3
<1>5. DOMAIN log = 1..Len(log) /\ Len(log) \in Nat
  OBVIOUS
<1>6. IsFiniteSet(DOMAIN log)
  BY <1>5, FS_Interval
<1>7. QED
  BY <1>1, <1>2, <1>3, <1>4, <1>6 DEF OneMore

\* The transfers that were there add up to the same, and the new one to its amount.
LEMMA TotalOfMore ==
    ASSUME NEW log, NEW more, NEW n, OneMore(log, more, n), NEW D \in SUBSET DOMAIN log
    PROVE  /\ Total(log, D) \in Nat
           /\ Total(more, D) = Total(log, D)
           /\ Total(more, D \cup {n}) = Total(log, D) + more[n].amount
<1>1. /\ IsFiniteSet(DOMAIN log) /\ DOMAIN more = DOMAIN log \cup {n} /\ n \notin DOMAIN log
      /\ \A i \in DOMAIN log : more[i] = log[i]
      /\ \A i \in DOMAIN more : more[i].amount \in Nat
  BY DEF OneMore
<1>2. IsFiniteSet(D)
  BY <1>1, FS_Subset
<1>3. PICK T : T = D \cup {n}
  OBVIOUS
<1>4. IsFiniteSet(T) /\ n \in T /\ D = T \ {n}
  BY <1>1, <1>2, <1>3, FS_AddElement
<1>5. \A i \in T : more[i].amount \in Nat
  BY <1>1, <1>3
<1>6. \A i \in D : more[i].amount = log[i].amount
  BY <1>1
<1>7. Total(more, D) = Total(log, D)
  BY <1>2, <1>6, TotalSame
<1>8. Total(more, T) = Total(more, D) + more[n].amount /\ Total(more, D) \in Nat
  BY <1>4, <1>5, TotalGrows
<1>9. QED
  BY <1>3, <1>7, <1>8

\* What the log with one more transfer says of a user.
LEMMA DueMoves ==
    ASSUME NEW log, NEW more, NEW n, OneMore(log, more, n), NEW u
    PROVE  /\ Total(more, Incoming(more, u)) =
                 Total(log, Incoming(log, u)) + (IF more[n].to = u THEN more[n].amount ELSE 0)
           /\ Total(more, Outgoing(more, u)) =
                 Total(log, Outgoing(log, u)) + (IF more[n].from = u THEN more[n].amount ELSE 0)
           /\ Total(log, Incoming(log, u)) \in Nat /\ Total(log, Outgoing(log, u)) \in Nat
<1>1. /\ DOMAIN more = DOMAIN log \cup {n} /\ n \notin DOMAIN log
      /\ \A i \in DOMAIN log : more[i] = log[i]
  BY DEF OneMore
<1>2. PICK in, out : in = Incoming(log, u) /\ out = Outgoing(log, u)
  OBVIOUS
<1>3. in \in SUBSET DOMAIN log /\ out \in SUBSET DOMAIN log
  BY <1>2 DEF Incoming, Outgoing
<1> DEFINE Counts(D) == /\ Total(log, D) \in Nat
                        /\ Total(more, D) = Total(log, D)
                        /\ Total(more, D \cup {n}) = Total(log, D) + more[n].amount
<1>4. \A D \in SUBSET DOMAIN log : Counts(D)
  BY TotalOfMore
<1> HIDE DEF Counts
<1>5. Counts(in) /\ Counts(out)
  BY <1>3, <1>4
<1> USE DEF Counts
<1>6. Incoming(more, u) = IF more[n].to = u THEN in \cup {n} ELSE in
  BY <1>1, <1>2 DEF Incoming
<1>7. Outgoing(more, u) = IF more[n].from = u THEN out \cup {n} ELSE out
  BY <1>1, <1>2 DEF Outgoing
<1>8. Total(more, Incoming(more, u)) =
          Total(log, in) + (IF more[n].to = u THEN more[n].amount ELSE 0)
  <2>1. CASE more[n].to = u
    BY <1>5, <1>6, <2>1
  <2>2. CASE more[n].to # u
    BY <1>5, <1>6, <2>2
  <2>3. QED
    BY <2>1, <2>2
<1>9. Total(more, Outgoing(more, u)) =
          Total(log, out) + (IF more[n].from = u THEN more[n].amount ELSE 0)
  <2>1. CASE more[n].from = u
    BY <1>5, <1>7, <2>1
  <2>2. CASE more[n].from # u
    BY <1>5, <1>7, <2>2
  <2>3. QED
    BY <2>1, <2>2
<1>10. QED
  BY <1>2, <1>5, <1>8, <1>9

\* Due, in these terms.
LEMMA DueIs ==
    \A u \in Users : Due(u) = Started(u) + Total(transfers, Incoming(transfers, u))
                                         - Total(transfers, Outgoing(transfers, u))
BY DEF Due, Started, Total, Incoming, Outgoing

\* The invariant is what BooksBalance says, and more.
LEMMA BooksInvBalances ==
    ASSUME IInv, BooksInv
    PROVE  BooksBalance
<1>1. DOMAIN balance \subseteq Users
  BY DEF IInv, TypeOK, WalletOK
<1>2. \A u \in Users : Has(u) = Due(u)
  BY DueIs DEF BooksInv
<1>3. QED
  BY <1>1, <1>2 DEF BooksInv, BooksBalance, Has

\* It holds of the balances that were migrated.
LEMMA BooksInitially == ASSUME Init PROVE BooksInv
<1>1. PICK owners \in SUBSET Users : deposits \in [owners -> Deposits]
  BY DEF Init, WalletInit
<1>2. deposits \in [DOMAIN deposits -> Nat] /\ balance = deposits /\ transfers = <<>>
  BY <1>1, WalletConstants DEF Init, WalletInit
<1>3. \A p \in Tx : req[p].op # "send"
  BY DEF Init, RequestsInit, Idle
<1>4. ASSUME NEW u \in Users
      PROVE Has(u) = Started(u) + Total(transfers, Incoming(transfers, u))
                                - Total(transfers, Outgoing(transfers, u))
  <2>1. Incoming(transfers, u) = {} /\ Outgoing(transfers, u) = {}
    BY <1>2 DEF Incoming, Outgoing
  <2>2. Total(transfers, {}) = 0
    BY TotalOfNothing
  <2>3. Has(u) = Started(u) /\ Started(u) \in Nat
    BY <1>2 DEF Has, Started
  <2>4. QED
    BY <2>1, <2>2, <2>3
<1>5. QED
  BY <1>2, <1>3, <1>4 DEF BooksInv

\* The request that commits a transfer, and the others.
LEMMA CommitTransferBooks ==
    ASSUME IInv, IInv', BooksInv, NEW p \in Tx, CommitTransfer(p)
    PROVE  BooksInv'
<1> DEFINE r == req[p]
           row == [from |-> r.from, to |-> r.to, amount |-> r.amount]
<1>1. Sends(r) /\ Covered(r)
  <2>1. RequestOKFor(r) /\ r.op = "send"
    BY DEF IInv, ReqOK, CommitTransfer, Commit
  <2>2. QED
    BY <2>1 DEF RequestOKFor, Quiet, Idle, Responds, Registers, Changes, BooksInv
<1>2. /\ r.from \in Users /\ r.to \in Users /\ r.amount \in Amounts /\ r.amount \in Nat
      /\ r.from # r.to /\ Has(r.from) >= r.amount /\ row \in Transfers
  BY <1>1, WalletConstants DEF Sends, Covered, Transfers
<1>3. /\ transfers' = Append(transfers, row) /\ deposits' = deposits
      /\ balance' = Credited(Credited(AccountsOf(r.from, r.to), r.from, 0 - r.amount), r.to, r.amount)
  BY DEF CommitTransfer
<1> HIDE DEF r
<1>4. /\ DOMAIN balance' = DOMAIN balance \cup {r.from, r.to}
      /\ \A u \in DOMAIN balance' :
            balance'[u] = (IF u = r.from THEN Has(u) + (0 - r.amount) ELSE Has(u))
                             + (IF u = r.to THEN r.amount ELSE 0)
      /\ balance' = [u \in DOMAIN balance' |-> balance'[u]]
  <2>1. \A u \in DOMAIN balance : balance[u] \in Nat
    BY DEF BooksInv
  <2>2. PICK a : a = AccountsOf(r.from, r.to)
    OBVIOUS
  <2>3. a = [u \in DOMAIN balance \cup {r.from, r.to} |-> Has(u)]
    BY <2>2 DEF AccountsOf, Opened, Has
  <2>4. PICK b : b = Credited(a, r.from, 0 - r.amount)
    OBVIOUS
  <2>5. b = [u \in DOMAIN balance \cup {r.from, r.to} |->
                IF u = r.from THEN Has(u) + (0 - r.amount) ELSE Has(u)]
    BY <2>3, <2>4 DEF Credited
  <2>6. balance' = [u \in DOMAIN balance \cup {r.from, r.to} |->
                       IF u = r.to THEN b[u] + r.amount ELSE b[u]]
    BY <1>3, <2>2, <2>4, <2>5 DEF Credited
  <2>7. \A u : Has(u) \in Nat
    BY <2>1 DEF Has
  <2>8. QED
    BY <1>2, <2>5, <2>6, <2>7
<1>5. \A u : Has(u) \in Nat
  BY DEF BooksInv, Has
<1>6. balance' \in [DOMAIN balance' -> Nat]
  BY <1>2, <1>4, <1>5
<1>7. \A u : Has(u)' = Has(u) - (IF u = r.from THEN r.amount ELSE 0)
                              + (IF u = r.to THEN r.amount ELSE 0)
  BY <1>2, <1>4, <1>5 DEF Has
<1>8. transfers \in Seq(Transfers) /\ transfers' \in Seq(Transfers)
  BY <1>2, <1>3 DEF BooksInv
<1>9. \A q \in Tx : req'[q].op # "send"
  <2>1. req' = [req EXCEPT ![p] = Idle] /\ \A q \in Tx \ {p} : lock[q] = "none"
    BY DEF CommitTransfer, Commit, CommitLock
  <2>2. \A q \in Tx \ {p} : Quiet(req[q])
    BY <2>1, UnlockedIsQuiet
  <2>3. \A q \in Tx : req'[q] = IF q = p THEN Idle ELSE req[q]
    BY <2>1 DEF IInv, ReqOK
  <2>4. \A q \in Tx : Quiet(req'[q])
    BY <2>2, <2>3 DEF Quiet
  <2>5. ASSUME NEW r1, Quiet(r1) PROVE r1.op # "send"
    BY <2>5 DEF Quiet, Idle
  <2>6. QED
    BY <2>4, <2>5
<1>10. ASSUME NEW u \in Users
       PROVE Has(u)' = Started(u)' + Total(transfers', Incoming(transfers', u))
                                   - Total(transfers', Outgoing(transfers', u))
  <2>1. /\ Total(transfers', Incoming(transfers', u)) =
             Total(transfers, Incoming(transfers, u)) + (IF row.to = u THEN row.amount ELSE 0)
        /\ Total(transfers', Outgoing(transfers', u)) =
             Total(transfers, Outgoing(transfers, u)) + (IF row.from = u THEN row.amount ELSE 0)
        /\ Total(transfers, Incoming(transfers, u)) \in Nat
        /\ Total(transfers, Outgoing(transfers, u)) \in Nat
    <3>1. PICK log, more, n : log = transfers /\ more = transfers' /\ n = Len(log) + 1
      OBVIOUS
    <3>2. OneMore(log, more, n) /\ more[n] = row
      BY <1>2, <1>3, <1>8, <3>1, AppendIsOneMore
    <3> HIDE DEF row
    <3>3. QED
      BY <3>1, <3>2, DueMoves
  <2>2. Started(u)' = Started(u) /\ Started(u) \in Nat
    BY <1>3 DEF Started, BooksInv
  <2>3. Has(u) = Started(u) + Total(transfers, Incoming(transfers, u))
                            - Total(transfers, Outgoing(transfers, u))
    BY DEF BooksInv
  <2>4. row.to = r.to /\ row.from = r.from /\ row.amount = r.amount
    OBVIOUS
  <2> HIDE DEF row
  <2>5. QED
    BY <1>2, <1>5, <1>7, <2>1, <2>2, <2>3, <2>4
<1>11. QED
  BY <1>3, <1>6, <1>8, <1>9, <1>10 DEF BooksInv

\* A step that changes no book, and adds no transfer that is not covered.
LEMMA BooksUntouched ==
    ASSUME BooksInv, UNCHANGED walletVars,
           \A q \in Tx : req'[q].op = "send" => (req'[q] = req[q] \/ Covered(req'[q]))
    PROVE  BooksInv'
<1>1. balance' = balance /\ transfers' = transfers /\ deposits' = deposits
  BY DEF walletVars
<1>2. \A q \in Tx : req'[q].op = "send" => Covered(req'[q])
  BY DEF BooksInv
<1>3. (\A q \in Tx : req[q].op = "send" => Covered(req[q]))'
  BY <1>1, <1>2 DEF Covered, Has
<1>4. QED
  BY <1>1, <1>3 DEF BooksInv, Has, Started

\* Opening an account changes what nobody has.
LEMMA GetWalletBooks ==
    ASSUME IInv, BooksInv, NEW u \in Users, GetWallet(u)
    PROVE  BooksInv'
<1>1. /\ balance' = [v \in DOMAIN balance \cup {u} |-> IF v \in DOMAIN balance THEN balance[v] ELSE 0]
      /\ transfers' = transfers /\ deposits' = deposits /\ req' = req
  BY DEF GetWallet, OneStatement, Opened
<1>2. \A v : Has(v)' = Has(v)
  BY <1>1 DEF Has
<1>3. balance' \in [DOMAIN balance' -> Nat]
  BY <1>1 DEF BooksInv
<1>4. (\A q \in Tx : req[q].op = "send" => Covered(req[q]))'
  BY <1>1, <1>2 DEF Covered, BooksInv
<1>5. (\A v \in Users : Has(v) = Started(v) + Total(transfers, Incoming(transfers, v))
                                            - Total(transfers, Outgoing(transfers, v)))'
  BY <1>1, <1>2 DEF BooksInv, Started
<1>6. QED
  BY <1>1, <1>3, <1>4, <1>5 DEF BooksInv

\* Which requests a step leaves with a transfer.
LEMMA SendMoneyBooks ==
    ASSUME IInv, BooksInv, NEW p \in Tx, NEW from \in Users, NEW to \in Users, SendMoney(p, from, to)
    PROVE  BooksInv'
<1>1. PICK n, r :
         /\ from # to /\ AccountsOf(from, to)[from] >= n
         /\ r = [op |-> "send", stage |-> "written", from |-> from, to |-> to, amount |-> n]
         /\ req' = [req EXCEPT ![p] = r]
  BY DEF SendMoney, BeginWrite
<1>2. AccountsOf(from, to)[from] = Has(from)
  BY DEF AccountsOf, Opened, Has
<1>3. Covered(r)
  BY <1>1, <1>2 DEF Covered
<1>4. UNCHANGED walletVars
  BY DEF SendMoney
<1>5. Covered(r)'
  BY <1>3, <1>4 DEF Covered, Has, walletVars
<1>6. \A q \in Tx : req'[q] = IF q = p THEN r ELSE req[q]
  BY <1>1 DEF IInv, ReqOK
<1>7. \A q \in Tx : req'[q].op = "send" => (req'[q] = req[q] \/ Covered(req'[q]))
  BY <1>3, <1>6
<1>8. QED
  BY <1>4, <1>7, BooksUntouched

\* The invariant of the books, step by step.
LEMMA BooksStep ==
    ASSUME IInv, IInv', BooksInv, [Next]_vars
    PROVE  BooksInv'
<1>1. CASE UNCHANGED vars
  <2>1. UNCHANGED walletVars /\ req' = req
    BY <1>1 DEF vars, requests
  <2>2. QED
    BY <2>1, BooksUntouched
<1>2. CASE Next
  <2>1. PICK p \in Tx :
           \/ ContactsStep(p) /\ UNCHANGED <<walletVars, deviceVars>>
           \/ WalletStep(p) /\ UNCHANGED <<contactVars, deviceVars>>
           \/ DevicesStep(p) /\ UNCHANGED <<contactVars, walletVars>>
           \/ Fail(p) /\ UNCHANGED <<contactVars, walletVars, deviceVars>>
    BY <1>2 DEF Next
  <2>2. CASE /\ ContactsStep(p) \/ (DevicesStep(p) /\ ~DirectoryStep(p)) \/ Fail(p)
             /\ UNCHANGED walletVars
    <3>1. \A q \in Tx : req'[q] = req[q] \/ req'[q].op # "send"
      BY <2>2, RequestsLeftAlone
    <3>2. QED
      BY <2>2, <3>1, BooksUntouched
  <2>3. CASE DirectoryStep(p) /\ UNCHANGED walletVars
    <3>1. \A q \in Tx : req'[q] = req[q] \/ req'[q].op = "directory"
      BY <2>3, DirectoryRequests
    <3>2. QED
      BY <2>3, <3>1, BooksUntouched
  <2>4. CASE WalletStep(p)
    BY <2>4, GetWalletBooks, SendMoneyBooks, CommitTransferBooks DEF WalletStep
  <2>5. QED
    BY <2>1, <2>2, <2>3, <2>4
<1>3. QED
  BY <1>1, <1>2

\* Money is neither made nor lost nor overdrawn: SendMoney's debit, credit and
\* row become visible together, and nobody spends between its check of the
\* balance and its commit.
THEOREM BooksAreBalanced == Spec => []BooksBalance
<1>1. Init => BooksInv
  BY BooksInitially
<1>2. IInv /\ IInv' /\ BooksInv /\ [Next]_vars => BooksInv'
  BY BooksStep
<1>3. IInv /\ BooksInv => BooksBalance
  BY BooksInvBalances
<1>4. QED
  BY Invariance, <1>1, <1>2, <1>3, PTL DEF Spec
-----------------------------------------------------------------------------
(* The directory.                                                          *)

\* The devices a directory request has read, and those it has to read: the
\* owner's that were in use when it came in.
Given(r) == {r.found[k].device : k \in DOMAIN r.found}
InUseBefore(r) == {d \in DOMAIN r.before : r.before[d].user = r.owner /\ ~r.before[d].revoked}

\* What a directory request has and what it still has to read, and how that
\* relates to the devices as they are now.
DirectoryOKFor(r) ==
    /\ r.found \in Seq([device : DOMAIN r.before, keys : SUBSET Prekeys])
    /\ r.todo \cup Given(r) = InUseBefore(r)
    /\ r.stage = "answered" => r.todo = {}
    /\ DOMAIN r.before \subseteq DOMAIN devices
    /\ \A d \in DOMAIN r.before : /\ devices[d].user = r.before[d].user
                                  /\ r.before[d].revoked => devices[d].revoked
    /\ \A k \in DOMAIN r.found : r.found[k].keys = {} => devices[r.found[k].device].revoked

DirectoryInv == \A p \in Tx : req[p].op = "directory" => DirectoryOKFor(req[p])

\* The invariant, once everything is read, is what DirectoryIsCurrent says.
LEMMA DirectoryInvAnswers ==
    ASSUME DirectoryInv
    PROVE  DirectoryIsCurrent
<1> SUFFICES ASSUME NEW p \in Tx, req[p].op = "directory", req[p].stage = "answered",
                    NEW r, r = req[p], NEW given, given = {r.found[k].device : k \in DOMAIN r.found}
             PROVE  /\ \A d \in DOMAIN r.before :
                          devices[d].user = r.owner /\ ~devices[d].revoked => d \in given
                    /\ \A k \in DOMAIN r.found :
                          r.found[k].keys = {} => devices[r.found[k].device].revoked
  BY DEF DirectoryIsCurrent
<1>1. DirectoryOKFor(r) /\ r.todo = {}
  BY DEF DirectoryInv, DirectoryOKFor
<1>2. given = InUseBefore(r)
  BY <1>1 DEF DirectoryOKFor, Given
<1>3. QED
  BY <1>1, <1>2 DEF DirectoryOKFor, InUseBefore

\* What was read stays true while devices change.
LEMMA DirectoryStays ==
    ASSUME DevicesStay, NEW r, DirectoryOKFor(r)
    PROVE  DirectoryOKFor(r)'
<1>1. \A d \in DOMAIN r.before : /\ d \in DOMAIN devices'
                                 /\ devices'[d].user = r.before[d].user
                                 /\ r.before[d].revoked => devices'[d].revoked
  BY DEF DirectoryOKFor, DevicesStay
<1>2. \A k \in DOMAIN r.found : r.found[k].device \in DOMAIN r.before
  <2>1. PICK Entry : Entry = [device : DOMAIN r.before, keys : SUBSET Prekeys]
    OBVIOUS
  <2>2. r.found \in Seq(Entry)
    BY <2>1 DEF DirectoryOKFor
  <2>3. \A k \in DOMAIN r.found : r.found[k] \in Entry
    BY <2>2
  <2>4. QED
    BY <2>1, <2>3
<1>3. \A k \in DOMAIN r.found : r.found[k].keys = {} => devices'[r.found[k].device].revoked
  BY <1>2 DEF DirectoryOKFor, DevicesStay
<1>4. QED
  BY <1>1, <1>3 DEF DirectoryOKFor, Given, InUseBefore

\* At first everything is still to be read.
LEMMA GetDirectoryAnswers ==
    ASSUME IInv, NEW p \in Tx, NEW u \in Users, GetDirectory(p, u)
    PROVE  \E r : req' = [req EXCEPT ![p] = r] /\ DirectoryOKFor(r)
<1>1. PICK r : /\ r = [op |-> "directory", stage |-> "listing", owner |-> u,
                       before |-> devices, todo |-> Listed(u), found |-> << >>]
               /\ req' = [req EXCEPT ![p] = r]
  BY DEF GetDirectory
<1>2. /\ r.before = devices /\ r.owner = u /\ r.todo = Listed(u) /\ r.found = << >>
      /\ r.stage = "listing"
  BY <1>1
<1>3. InUseBefore(r) = Listed(u) /\ Given(r) = {}
  BY <1>2 DEF InUseBefore, Listed, Given
<1>4. r.found \in Seq([device : DOMAIN r.before, keys : SUBSET Prekeys]) /\ DOMAIN r.found = {}
  BY <1>2
<1>5. DirectoryOKFor(r)
  BY <1>2, <1>3, <1>4 DEF DirectoryOKFor
<1>6. QED
  BY <1>1, <1>5

\* A device that has no prekey any more is revoked.
LEMMA ListPrekeysAnswers ==
    ASSUME IInv, NEW p \in Tx, ListPrekeys(p), DirectoryOKFor(req[p])
    PROVE  \E r : req' = [req EXCEPT ![p] = r] /\ DirectoryOKFor(r)
<1>1. PICK old : old = req[p]
  OBVIOUS
<1>2. PICK d, r :
         /\ d \in old.todo
         /\ req' = [req EXCEPT ![p] = r]
         /\ r = [op |-> "directory", stage |-> "listing", owner |-> old.owner,
                 before |-> old.before, todo |-> old.todo \ {d},
                 found |-> Append(old.found, [device |-> d, keys |-> devices[d].active])]
  BY <1>1, ListPrekeysMoves
<1>3. PICK entry : entry = [device |-> d, keys |-> devices[d].active]
  OBVIOUS
<1>4. PICK found : found = Append(old.found, entry)
  OBVIOUS
<1>5. /\ r.stage = "listing" /\ r.owner = old.owner /\ r.before = old.before
      /\ r.todo = old.todo \ {d} /\ r.found = found
  BY <1>2, <1>3, <1>4
<1>6. DirectoryOKFor(old)
  BY <1>1
<1>7. d \in DOMAIN old.before /\ d \in DOMAIN devices
  BY <1>2, <1>6 DEF DirectoryOKFor, InUseBefore
<1>8. devices[d].active \subseteq Prekeys /\ (devices[d].active = {} => devices[d].revoked)
  BY <1>7 DEF IInv, TypeOK, DevicesOK, RevokedHasNoPrekeys
<1>9. entry \in [device : DOMAIN old.before, keys : SUBSET Prekeys]
  BY <1>3, <1>7, <1>8
<1>10. old.found \in Seq([device : DOMAIN old.before, keys : SUBSET Prekeys])
  BY <1>6 DEF DirectoryOKFor
<1>11. PICK n : n = Len(old.found) + 1
  OBVIOUS
<1>12. /\ found \in Seq([device : DOMAIN old.before, keys : SUBSET Prekeys])
       /\ DOMAIN found = DOMAIN old.found \cup {n}
       /\ found[n] = entry
       /\ \A k \in DOMAIN old.found : found[k] = old.found[k]
  BY <1>4, <1>9, <1>10, <1>11
<1>13. Given(r) = Given(old) \cup {d}
  <2>1. entry.device = d
    BY <1>3
  <2>2. QED
    BY <1>5, <1>12, <2>1 DEF Given
<1>14. InUseBefore(r) = InUseBefore(old)
  BY <1>5 DEF InUseBefore
<1>15. r.todo \cup Given(r) = InUseBefore(r)
  <2>1. old.todo \cup Given(old) = InUseBefore(old)
    BY <1>6 DEF DirectoryOKFor
  <2>2. d \in old.todo
    BY <1>2
  <2>3. QED
    BY <2>1, <2>2, <1>5, <1>13, <1>14
<1>16. \A k \in DOMAIN found : found[k].keys = {} => devices[found[k].device].revoked
  <2>1. entry.keys = {} => devices[entry.device].revoked
    BY <1>3, <1>8
  <2>2. \A k \in DOMAIN old.found : old.found[k].keys = {} => devices[old.found[k].device].revoked
    BY <1>6 DEF DirectoryOKFor
  <2>3. QED
    BY <1>12, <2>1, <2>2
<1>17. DirectoryOKFor(r)
  BY <1>5, <1>6, <1>12, <1>14, <1>15, <1>16 DEF DirectoryOKFor
<1>18. QED
  BY <1>2, <1>17

\* The answer comes when nothing is left to read.
LEMMA AnswerDirectoryAnswers ==
    ASSUME IInv, NEW p \in Tx, AnswerDirectory(p), DirectoryOKFor(req[p])
    PROVE  \E r : req' = [req EXCEPT ![p] = r] /\ DirectoryOKFor(r)
<1>1. PICK old : old = req[p]
  OBVIOUS
<1>2. PICK r : r = [old EXCEPT !.stage = "answered"]
  OBVIOUS
<1>3. req' = [req EXCEPT ![p] = r]
  BY <1>1, <1>2 DEF AnswerDirectory
<1>4. old = [op |-> "directory", stage |-> old.stage, owner |-> old.owner,
             before |-> old.before, todo |-> old.todo, found |-> old.found]
  BY <1>1, DirectoryFields DEF AnswerDirectory
<1>5. /\ r.owner = old.owner /\ r.before = old.before
      /\ r.todo = old.todo /\ r.found = old.found
  BY <1>2, <1>4
<1>6. old.todo = {} /\ DirectoryOKFor(old)
  BY <1>1 DEF AnswerDirectory
<1>7. DirectoryOKFor(r)
  BY <1>5, <1>6 DEF DirectoryOKFor, Given, InUseBefore
<1>8. QED
  BY <1>3, <1>7

\* The invariant of the directory, step by step.
LEMMA DirectoryStepKeeps ==
    ASSUME IInv, DevicesStay, DirectoryInv, [Next]_vars
    PROVE  DirectoryInv'
<1>1. ASSUME NEW q \in Tx, req'[q] = req[q] \/ req'[q].op # "directory"
      PROVE  req'[q].op = "directory" => DirectoryOKFor(req'[q])
  BY <1>1 DEF DirectoryInv
<1>2. SUFFICES \A q \in Tx : req'[q].op = "directory" => DirectoryOKFor(req'[q])
  <2>1. SUFFICES ASSUME NEW q \in Tx, req'[q].op = "directory"
                 PROVE  DirectoryOKFor(req[q])'
    BY DEF DirectoryInv
  <2>2. PICK r : r = req'[q] /\ DirectoryOKFor(r)
    BY <1>2, <2>1
  <2>3. DirectoryOKFor(r)'
    BY <2>2, DirectoryStays
  <2>4. QED
    BY <2>2, <2>3 DEF DirectoryOKFor, Given, InUseBefore
<1>3. ASSUME NEW p \in Tx, \E r : req' = [req EXCEPT ![p] = r] /\ DirectoryOKFor(r)
      PROVE  \A q \in Tx : req'[q].op = "directory" => DirectoryOKFor(req'[q])
  BY <1>1, <1>3 DEF IInv, ReqOK
<1>4. CASE UNCHANGED vars
  BY <1>1, <1>4 DEF vars, requests
<1>5. CASE Next
  <2>1. PICK p \in Tx : ContactsStep(p) \/ WalletStep(p) \/ DevicesStep(p) \/ Fail(p)
    BY <1>5 DEF Next
  <2>2. CASE DirectoryStep(p)
    <3>1. req[p].op = "directory" => DirectoryOKFor(req[p])
      BY DEF DirectoryInv
    <3>2. QED
      BY <1>3, <2>2, <3>1, GetDirectoryAnswers, ListPrekeysAnswers, AnswerDirectoryAnswers
         DEF DirectoryStep, ListPrekeys, AnswerDirectory
  <2>3. CASE \E from, to \in Users : SendMoney(p, from, to)
    <3>1. PICK from, to, n, r :
             /\ r = [op |-> "send", stage |-> "written", from |-> from, to |-> to, amount |-> n]
             /\ BeginWrite(p, r)
      BY <2>3 DEF SendMoney
    <3>2. req' = [req EXCEPT ![p] = r] /\ r.op = "send"
      BY <3>1 DEF BeginWrite
    <3>3. \A q \in Tx : req'[q] = req[q] \/ req'[q].op = "send"
      BY <3>2 DEF IInv, ReqOK
    <3>4. QED
      BY <1>1, <3>3
  <2>4. CASE ~DirectoryStep(p) /\ ~\E from, to \in Users : SendMoney(p, from, to)
    <3>1. \A q \in Tx : req'[q] = req[q] \/ req'[q].op \notin {"send", "directory"}
      BY <2>1, <2>4, RequestsLeftAlone DEF WalletStep
    <3>2. QED
      BY <1>1, <3>1
  <2>5. QED
    BY <2>2, <2>3, <2>4
<1>6. QED
  BY <1>4, <1>5

\* GetDeviceDirectory, which reads devices and prekeys in separate statements,
\* answers with every device in use throughout, and hands out a device without
\* prekeys only when it was revoked meanwhile.
THEOREM DirectoriesAreCurrent == Spec => []DirectoryIsCurrent
<1>1. Init => DirectoryInv
  BY DEF Init, RequestsInit, Idle, DirectoryInv
<1>2. IInv /\ DirectoryInv /\ [Next]_vars => DirectoryInv'
  <2>1. IInv /\ [Next]_vars => DevicesStay
    <3>1. UNCHANGED vars => UNCHANGED deviceVars
      BY DEF vars
    <3>2. QED
      BY <3>1, StepKeeps, DevicesKept
  <2>2. QED
    BY <2>1, DirectoryStepKeeps
<1>3. DirectoryInv => DirectoryIsCurrent
  BY DirectoryInvAnswers
<1>4. QED
  BY Invariance, <1>1, <1>2, <1>3, PTL DEF Spec
=============================================================================
