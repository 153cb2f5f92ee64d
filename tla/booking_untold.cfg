\* Two users without bookings book rooms at the same time.
CONSTANTS
    u1 = u1
    u2 = u2
    b1 = b1
    b2 = b2
    q1 = q1
    q2 = q2
    q3 = q3
    None = None
    Txn = {q1, q2}
    Request = {q1, q2}
    Ask <- MCAskRooms
    User <- MCUser
    Prior = {}
    Doc <- MCDoc
    PriorKind <- MCNoPrior
    PriorOwner <- MCNoPrior
    Payable = FALSE
    MaxRetries = 0
SPECIFICATION MCTwoUsersSpec
PROPERTY BookedWhenTold
