\* alice writes to bob while both come and go and the server stops.
SPECIFICATION FairSpec
CONSTANTS
    alice = alice
    bob = bob
    conn1 = conn1
    conn2 = conn2
    session1 = session1
    session2 = session2
    Server = Server
    Users = {alice, bob}
    Clients = {conn1, conn2}
    Sessions = {session1, session2}
    ClientUser <- TwoUsers
    ClientSession <- TwoSessions
    MayEnd = {Server}
    Occasions = {"offline"}
    SendCap = 1
    MaxSends <- OneSender
PROPERTIES
    SendReturns
    DeadConnectionLeaves
    ShutdownDrains
    AcceptedIsWritten
CHECK_DEADLOCK FALSE
