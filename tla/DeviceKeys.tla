----------------------------- MODULE DeviceKeys -----------------------------
(***************************************************************************)
(* Device identities and their prekeys (sqliteidentity/device_keys.go      *)
(* behind core/identity/device_service.go and device_keys_handlers.go).    *)
(* The device with id d is devices[d]; of its prekey rows the model keeps  *)
(* the ids of those that are active, of its signed prekey how often it was *)
(* rotated.  device_sessions is left out: it only tells the owner which    *)
(* device is the current one.                                              *)
(***************************************************************************)
EXTENDS Requests, Sequences

CONSTANTS Prekeys     \* prekey ids of a device

ASSUME PrekeyConstants == Prekeys # {}

VARIABLE devices      \* device_identities and device_prekeys

deviceVars == <<devices>>

\* validateDevicePrekeys.
ValidPrekeys(keys, required) == keys \subseteq Prekeys /\ (required => keys # {})

\* One device with all its prekeys is there already.
DevicesInit == \E u \in Users : devices = <<[user |-> u, revoked |-> FALSE, signed |-> 0,
                                             active |-> Prekeys]>>

\* The WHERE clause of rotation, publication and revocation.
Owned(d, u) == d \in DOMAIN devices /\ devices[d].user = u /\ ~devices[d].revoked

Changing(op, d, keys) == [op |-> op, stage |-> "written", device |-> d, keys |-> keys]

\* CreateDeviceIdentity: the INSERT of the device.
RegisterDevice(p, u) == \E keys \in SUBSET Prekeys :
    /\ ValidPrekeys(keys, TRUE)
    /\ BeginWrite(p, [op |-> "register", stage |-> "written", user |-> u, keys |-> keys])
    /\ UNCHANGED deviceVars

\* RotateDeviceIdentity: the UPDATE; without a row ErrDeviceIdentityNotFound.
RotateDevice(p, u) == \E d \in DOMAIN devices, keys \in SUBSET Prekeys :
    /\ ValidPrekeys(keys, FALSE)
    /\ Owned(d, u)
    /\ BeginWrite(p, Changing("rotate", d, keys))
    /\ UNCHANGED deviceVars

\* RevokeDeviceIdentity: the UPDATE of the device.
RevokeDevice(p, u) == \E d \in DOMAIN devices :
    /\ Owned(d, u)
    /\ BeginWrite(p, Changing("unregister", d, {}))
    /\ UNCHANGED deviceVars

\* Mutant: deviceBelongsToUser runs on the pool, not on the transaction.
PublishPrekeysOutside(p, u) == \E d \in DOMAIN devices, keys \in SUBSET Prekeys :
    /\ ValidPrekeys(keys, TRUE)
    /\ Owned(d, u)
    /\ req[p] = Idle
    /\ Start
    /\ req' = [req EXCEPT ![p] = [Changing("publish", d, keys) EXCEPT !.stage = "looked"]]
    /\ UNCHANGED <<lock, deviceVars>>

\* PublishPrekeys: deviceBelongsToUserTx, and the transaction goes on.
PublishPrekeys(p, u) == \E d \in DOMAIN devices, keys \in SUBSET Prekeys :
    /\ ValidPrekeys(keys, TRUE)
    /\ Owned(d, u)
    /\ BeginRead(p, [Changing("publish", d, keys) EXCEPT !.stage = "looked"])
    /\ UNCHANGED deviceVars

\* The first upsert of PublishPrekeys.
UpsertPrekeys(p) ==
    /\ req[p].stage = "looked" /\ req[p].op = "publish"
    /\ Reserve(p)
    /\ req' = [req EXCEPT ![p].stage = "written"]
    /\ UNCHANGED <<started, deviceVars>>

\* upsertPrekeysTx makes the rows active, also those that were revoked.
Upserted(d, keys) == [devices EXCEPT ![d].active = @ \cup keys]

CommitRegistration(p) ==
    /\ Commit(p, "register")
    /\ devices' = Append(devices, [user |-> req[p].user, revoked |-> FALSE, signed |-> 0,
                                   active |-> req[p].keys])

CommitRotation(p) ==
    LET d == req[p].device
    IN  /\ Commit(p, "rotate")
        /\ devices' = [Upserted(d, req[p].keys) EXCEPT ![d].signed = @ + 1]

CommitPrekeys(p) ==
    /\ Commit(p, "publish")
    /\ devices' = Upserted(req[p].device, req[p].keys)

\* Both UPDATEs of RevokeDeviceIdentity.
CommitRemoval(p) ==
    /\ Commit(p, "unregister")
    /\ devices' = [devices EXCEPT ![req[p].device] = [@ EXCEPT !.revoked = TRUE, !.active = {}]]

\* The SELECT of the directory.
Listed(u) == {d \in DOMAIN devices : devices[d].user = u /\ ~devices[d].revoked}

\* GetDeviceDirectory up to its list; what the devices were like when the
\* request came in is remembered for the properties.
GetDirectory(p, u) ==
    /\ req[p] = Idle
    /\ Start
    /\ req' = [req EXCEPT ![p] = [op |-> "directory", stage |-> "listing", owner |-> u,
                                  before |-> devices, todo |-> Listed(u), found |-> << >>]]
    /\ UNCHANGED <<lock, deviceVars>>

\* Mutant: a device whose prekeys cannot be read is left out.
ListPrekeysSkips(p) ==
    /\ req[p].op = "directory" /\ req[p].stage = "listing"
    /\ \E d \in req[p].todo :
          \/ req' = [req EXCEPT ![p].todo = @ \ {d}]
          \/ req' = [req EXCEPT ![p].todo = @ \ {d},
                                ![p].found = Append(@, [device |-> d, keys |-> devices[d].active])]
    /\ UNCHANGED <<lock, started, deviceVars>>

\* listActivePrekeys for one more device, a statement of its own.
ListPrekeys(p) ==
    /\ req[p].op = "directory" /\ req[p].stage = "listing"
    /\ \E d \in req[p].todo :
          req' = [req EXCEPT ![p].todo = @ \ {d},
                             ![p].found = Append(@, [device |-> d, keys |-> devices[d].active])]
    /\ UNCHANGED <<lock, started, deviceVars>>

\* The answer.
AnswerDirectory(p) ==
    /\ req[p].op = "directory" /\ req[p].stage = "listing" /\ req[p].todo = {}
    /\ req' = [req EXCEPT ![p].stage = "answered"]
    /\ UNCHANGED <<lock, started, deviceVars>>

Leave(p) ==
    /\ req[p].stage = "answered"
    /\ req' = [req EXCEPT ![p] = Idle]
    /\ UNCHANGED <<lock, started, deviceVars>>

DevicesStep(p) ==
    \/ \E u \in Users : \/ RegisterDevice(p, u) \/ RotateDevice(p, u) \/ RevokeDevice(p, u)
                        \/ PublishPrekeys(p, u) \/ GetDirectory(p, u)
    \/ UpsertPrekeys(p) \/ CommitRegistration(p) \/ CommitRotation(p) \/ CommitPrekeys(p)
    \/ CommitRemoval(p) \/ ListPrekeys(p) \/ AnswerDirectory(p) \/ Leave(p)

DevicesOK == \A d \in DOMAIN devices : devices[d].user \in Users /\ devices[d].active \subseteq Prekeys

\* A revoked device has no active prekey, whatever its owner's other requests
\* publish or rotate at the same time, and a device in use has one.
RevokedHasNoPrekeys == \A d \in DOMAIN devices : devices[d].revoked <=> devices[d].active = {}

\* What the directory answers, though it reads each device in a statement of its
\* own: every device of the user that was in use from the request to the answer,
\* and a device without prekeys only when it was revoked meanwhile.
DirectoryIsCurrent ==
    \A p \in Tx : req[p].op = "directory" /\ req[p].stage = "answered" =>
        LET r == req[p]
            given == {r.found[k].device : k \in DOMAIN r.found}
        IN  /\ \A d \in DOMAIN r.before :
                  devices[d].user = r.owner /\ ~devices[d].revoked => d \in given
            /\ \A k \in DOMAIN r.found :
                  r.found[k].keys = {} => devices[r.found[k].device].revoked
=============================================================================
