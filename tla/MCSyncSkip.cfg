\* A message that comes in between the two reads of one page.
SPECIFICATION Spec
CONSTANTS
    me = me
    peer = peer
    run1 = run1
    run2 = run2
    Users = {me, peer}
    Me = me
    Runs = {run1, run2}
    Limit = 1
    MaxMessages = 3
INVARIANTS
    CursorSkipsNothing
