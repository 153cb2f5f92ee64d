\* Three requests on invitations, two attempts each.
CONSTANTS
    h1 = h1
    h2 = h2
    g1 = g1
    g2 = g2
    r1 = r1
    r2 = r2
    i1 = i1
    i2 = i2
    i3 = i3
    i4 = i4
    q1 = q1
    q2 = q2
    q3 = q3
    None = None
    Txn = {q1, q2, q3}
    Request = {q1, q2, q3}
    Ask <- MCAsk
    Inv <- MCInv
    Standing = {i1, i2}
    User <- MCUser
    Room = {r1, r2}
    Doc <- MCDoc
    HostOf <- MCHostOf
    GuestOf <- MCGuestOf
    RoomOf <- MCRoomOf
    Booker <- MCBooker
    Capacity <- MCCapacityThree
    Leaving = {h1}
    MaxRetries = 1
SPECIFICATION MCOrderedSpec
INVARIANTS
    TypeOK
    AcceptanceIsWhole
PROPERTIES
    EveryRequestAnswered
