\* Three tasks on two tokens.
SPECIFICATION FairSpec
CONSTANTS
    MaxTasks = 3
    Parallelism = 2
CHECK_DEADLOCK FALSE
INVARIANTS TokensConserved JoinedAll
PROPERTIES LimiterReturns
