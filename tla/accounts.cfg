\* Three interchangeable requests on three addresses, one retry each.
CONSTANTS
    adm = adm
    usr = usr
    ncr = ncr
    p1 = p1
    p2 = p2
    q1 = q1
    q2 = q2
    q3 = q3
    None = None
    Team = Team
    Txn = {q1, q2, q3}
    Request = {q1, q2, q3}
    Email = {adm, usr, ncr}
    Doc = {adm, usr, ncr}
    Member = {adm, usr}
    Password = {p1, p2}
    OldPassword = p1
    Posted <- MCPosted
    Role <- MCRole
    Ask <- MCAsk
    MaxClock = 3
    MaxRetries = 1
    RecipientLists <- MCRecipientLists
    MaximumRecipientsPerMail = 2
SPECIFICATION Spec
SYMMETRY MCSymmetry
INVARIANTS
    MailingTypeOK
    SessionRenewable
    ActivatedOnce
    AnnouncedOnce
