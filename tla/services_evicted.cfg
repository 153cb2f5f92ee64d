\* Two interchangeable calls on the same two users, workshops, transport and hotel.
CONSTANTS
    u1 = u1
    u2 = u2
    b1 = b1
    b2 = b2
    w1 = w1
    w2 = w2
    x1 = x1
    r1 = r1
    r2 = r2
    h1 = h1
    c1 = c1
    c2 = c2
    c3 = c3
    None = None
    Gone = Gone
    Call = {c1, c2}
    User = {u1, u2}
    Book = {b1, b2}
    Workshop = {w1, w2}
    Transport = {x1}
    Groups = 2
    Capacity = {1, 2}
    Participants <- MCParticipants
    Room = {r1, r2}
    Hotel = {h1}
    Counts = {1}
    Lists <- MCLists
    Beds = 2
    Start <- MCDocuments
SPECIFICATION Spec
SYMMETRY MCSymmetry
\* Every call is over in the end.
CHECK_DEADLOCK FALSE
PROPERTY
    RoomLeftEmpty
