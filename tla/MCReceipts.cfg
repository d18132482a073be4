\* One tab of alice, one receipt request at a time, pages of one message.
CONSTANTS
    alice = alice
    bob = bob
    tab1 = tab1
    tab2 = tab2
    req1 = req1
    Users = {alice, bob}
    Conns = {tab1}
    ConnUser <- OneTab
    Handlers = {req1}
    ClientIds = {}
    MaxMessages = 2
    MaxTime = 2
    Requests = {"read", "delivered", "thread"}
    PageLimit = 1
SPECIFICATION Spec
INVARIANTS
    ReceiptRowsValid
    NoticeIsTruthful
    ThreadReadIsComplete
PROPERTIES
    FirstReceiptWins
    OnlyRecipientReads
    ImplementsLifecycle
