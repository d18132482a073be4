\* Pages of one message, so that a run over a few messages takes several.
SPECIFICATION Spec
CONSTANTS
    me = me
    peer = peer
    run1 = run1
    run2 = run2
    Users = {me, peer}
    Me = me
    Runs = {run1, run2}
    Limit = 1
    MaxMessages = 3
SYMMETRY Interchangeable
INVARIANTS
    TypeOK
    CursorCovers
    CompletedRunIsComplete
