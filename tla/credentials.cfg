SPECIFICATION FairSpec
CONSTANTS
    Credentials = {c1}
    Permissions = {p1}
    Minters = {m1}
    MaxContexts = 2
    MaxSecrets = 2
    CredentialLimit = 1
    HistoryLimit = 1
    RegistryIds = {i1, i2}
    RegistryAccounts = {a1, a2}
    RegistryHandlers = {h1, h2}
    AccountMax = 1
    CloudMax = 1
INVARIANTS
    LiveAccessIsCurrent
    UsableSecretIsListed
PROPERTY
    RevocationTakesEffect
CHECK_DEADLOCK FALSE
