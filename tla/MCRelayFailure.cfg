\* One tab of alice, one message.
CONSTANTS
    alice = alice
    bob = bob
    tab1 = tab1
    tab2 = tab2
    req1 = req1
    Users = {alice, bob}
    Conns = {tab1}
    ConnUser <- OneTab
    Handlers = {req1}
    ClientIds = {1}
    MaxMessages = 2
    MaxTime = 1
    Requests = {"read"}
    PageLimit = 1
SPECIFICATION Spec
INVARIANT RelayedIsNotReportedFailed
