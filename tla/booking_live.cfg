\* Three requests for one user without a booking: no symmetry.
CONSTANTS
    u1 = u1
    u2 = u2
    b1 = b1
    b2 = b2
    q1 = q1
    q2 = q2
    q3 = q3
    None = None
    Txn = {q1, q2, q3}
    Request = {q1, q2, q3}
    Ask <- MCAskOne
    User = {u1}
    Prior = {}
    Doc <- MCDoc
    PriorKind <- MCNoPrior
    PriorOwner <- MCNoPrior
    Payable = FALSE
    MaxRetries = 1
SPECIFICATION FairSpec
PROPERTY EveryRequestAnswered
