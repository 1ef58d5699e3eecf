CONSTANTS
    MaxCreated = 3
SPECIFICATION LiveSpec
PROPERTY IamChainCompletes
CHECK_DEADLOCK FALSE
