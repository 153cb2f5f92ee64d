\* One call, with an access token that may not be the stored one.
CONSTANTS
    adm = adm
    usr = usr
    ncr = ncr
    p1 = p1
    p2 = p2
    q1 = q1
    q2 = q2
    q3 = q3
    None = None
    Team = Team
    Txn = {q1}
    Request = {q1}
    Email = {adm, usr, ncr}
    Doc = {adm, usr, ncr}
    Member = {adm, usr}
    Password = {p1, p2}
    OldPassword = p1
    Posted <- MCPosted
    Role <- MCRole
    Ask <- MCAskCall
    MaxClock = 3
    MaxRetries = 0
    RecipientLists <- MCRecipientLists
    MaximumRecipientsPerMail = 2
SPECIFICATION Spec
PROPERTY RefreshTokenReset
