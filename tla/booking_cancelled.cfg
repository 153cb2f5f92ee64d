\* One request to cancel, and a treasurer.
CONSTANTS
    u1 = u1
    u2 = u2
    b1 = b1
    b2 = b2
    q1 = q1
    q2 = q2
    q3 = q3
    None = None
    Txn = {q1, q2}
    Request = {q1, q2}
    Ask <- MCAskCancel
    User <- MCUser
    Prior <- MCPrior
    Doc <- MCDoc
    PriorKind <- MCPriorKind
    PriorOwner <- MCPriorOwner
    Payable = TRUE
    MaxRetries = 0
SPECIFICATION Spec
PROPERTY PaidBookingKept
