\* Two tabs of bob in one session, one of them writing to bob; full at one frame.
SPECIFICATION Spec
CONSTANTS
    alice = alice
    bob = bob
    conn1 = conn1
    conn2 = conn2
    session1 = session1
    session2 = session2
    Server = Server
    Users = {alice, bob}
    Clients = {conn1, conn2}
    Sessions = {session1}
    ClientUser <- TwoTabs
    ClientSession <- OneSession
    MayEnd = {session1}
    Occasions = {"online", "offline"}
    SendCap = 1
    MaxSends <- OneSender
INVARIANTS
    TypeOK
    NoSendOnClosedChannel
    NoOrphan
    DisconnectIsComplete
    PresenceBalanced
CHECK_DEADLOCK FALSE
