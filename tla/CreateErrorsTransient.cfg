CONSTANTS
    p1 = p1
    b1 = b1
    p2 = p2
    s1 = s1
    Accounts <- MCPool
    BYOC <- MCNone
    STS <- MCNone
    IsFedramp = FALSE
    MaxVersion = 6
    MaxAwsAccounts = 2
    AccountLimit = 1
SPECIFICATION Spec
PROPERTY TransientCreateErrorsNotTerminal
