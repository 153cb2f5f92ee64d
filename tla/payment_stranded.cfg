\* Two shares of a two-place room paid at the same time.
CONSTANTS
    u1 = u1
    p1 = p1
    p2 = p2
    gone = gone
    r1 = r1
    r2 = r2
    r3 = r3
    h1 = h1
    c1 = c1
    c2 = c2
    q1 = q1
    q2 = q2
    None = None
    Txn = {q1, q2}
    Request = {q1, q2}
    User = {u1}
    Gone = {gone}
    Hotel = {h1}
    Collection = {c1, c2}
    Pass <- MCPass
    Room <- MCRoom
    Doc <- MCDoc
    Body <- MCBodyShares
    HotelOf <- MCHotelOf
    CollectionOf <- MCCollectionOf
    Capacity <- MCCapacity
    Count <- MCCount
    MaxRetries = 1
SPECIFICATION Spec
INVARIANT FullyPaidRoomIsCompleted
