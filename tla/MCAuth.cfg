SPECIFICATION Spec
CONSTANTS
    w1 = w1
    w2 = w2
    e1 = e1
    p1 = p1
    p2 = p2
    Workers <- MCWorkers
    Emails <- MCEmails
    Passwords <- MCPasswords
    RefreshTTL = 1
    ResetTTL = 1
    MaxAccounts = 2
    MaxTokens = 2
    MaxTime = 3
SYMMETRY Symmetry
INVARIANTS
    TypeOK
    TokenIntegrity
    OneAccountPerEmail
    PasswordIsLastSet
    SpentTokensDead
    LogoutEndsSession
PROPERTIES
    AdmittedByLiveToken
    DeletedStaysDeleted
    ImplementsAccounts
