CONSTANTS
    p1 = p1
    b1 = b1
    p2 = p2
    s1 = s1
    Accounts <- MCPools
    BYOC <- MCNone
    STS <- MCNone
    IsFedramp = FALSE
    MaxVersion = 6
    MaxAwsAccounts = 1
    AccountLimit = 1
SPECIFICATION Spec
PROPERTY CreateWithinLimit
SYMMETRY Symmetry
