CONSTANTS
    p1 = p1
    p2 = p2
    alice = alice
    bob = bob
    carol = carol
    Tx = {p1, p2}
    Users = {alice, bob, carol}
    MaxRequests = 3
    Amounts = {1, 2}
    Deposits = {0, 2}
    Prekeys = {1, 2}
SPECIFICATION Spec
SYMMETRY Symmetry
CHECK_DEADLOCK FALSE
INVARIANTS TypeOK BooksBalance ContactsHaveCause RevokedHasNoPrekeys DirectoryIsCurrent
PROPERTY InvitationIsFinal
