\* The handshake of one tab interleaved with a logout of its session.
SPECIFICATION Spec
CONSTANTS
    alice = alice
    bob = bob
    conn1 = conn1
    conn2 = conn2
    session1 = session1
    session2 = session2
    Server = Server
    Users = {alice, bob}
    Clients = {conn1, conn2}
    Sessions = {session1}
    ClientUser <- TwoTabs
    ClientSession <- OneSession
    MayEnd = {session1}
    Occasions = {"online", "offline"}
    SendCap = 1
    MaxSends <- OneSender
INVARIANTS
    RevokedIsDisconnected
CHECK_DEADLOCK FALSE
