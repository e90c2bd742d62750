SPECIFICATION Spec
CONSTANTS
    Clients = {b1, b2}
    Emails = {"admin", "user", "other"}
    Identities = {"sub1"}
    AdminEmail = "admin"
    Invitations = {"code"}
    MaxUsers = 3
    MaxOrganizations = 2
    RegistrationLimit = 2
    MaxTransactions = 2
    EmailOf <- SameAddress
    Codes = {d1, d2}
    Tenants = {n1}
    People = {h1, h2}
    Terminals = {t1}
    MaxTokens = 2
SYMMETRY IdentitySymmetry
INVARIANTS
    InvitationAdmitsOne
    SessionFromOwnLogin
    TokenWasApproved
CHECK_DEADLOCK FALSE
