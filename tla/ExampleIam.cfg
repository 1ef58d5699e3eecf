CONSTANTS
    MaxCreated = 3
SPECIFICATION Spec
INVARIANT IamChainRunsOnce
PROPERTY IamChainRefinement
\* A deleted object is not reconciled again: the system stops there.
CHECK_DEADLOCK FALSE
