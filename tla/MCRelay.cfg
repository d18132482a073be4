\* Two tabs of alice race on a client id while a receipt request is in flight.
CONSTANTS
    alice = alice
    bob = bob
    tab1 = tab1
    tab2 = tab2
    req1 = req1
    Users = {alice, bob}
    Conns = {tab1, tab2}
    ConnUser <- TwoTabs
    Handlers = {req1}
    ClientIds = {1, 2}
    MaxMessages = 2
    MaxTime = 1
    Requests = {"read"}
    PageLimit = 1
SPECIFICATION Spec
SYMMETRY Interchangeable
INVARIANTS
    TypeOK
    AckedIsDelivered
    FailureIsTruthful
    OfflineStaysVisible
    CorrelationUnambiguous
