SPECIFICATION Spec
CONSTANTS
    w1 = w1
    w2 = w2
    e1 = e1
    p1 = p1
    p2 = p2
    Workers <- MCWorkers
    Emails <- MCEmails
    Passwords <- MCPasswords
    RefreshTTL = 2
    ResetTTL = 1
    MaxAccounts = 1
    MaxTokens = 3
    MaxTime = 2
SYMMETRY Symmetry
INVARIANT
    ResetPasswordSticks
