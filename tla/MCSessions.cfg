CONSTANTS
    c1 = c1
    c2 = c2
    t1 = t1
    t2 = t2
    Tx = {c1, c2}
    Tabs = {t1, t2}
    NoTab = NoTab
    NoCall = NoCall
    MaxSessions = 2
    MaxTokens = 4
    MaxTime = 1
    MaxRequests = 4
SPECIFICATION Spec
SYMMETRY Symmetry
INVARIANTS TypeOK OneSuccessor ReplayEndsSession ReplayNeedsCause TabKeepsItsSession
PROPERTY ImplementsLifecycle
