\* A task between handles.remove and its counter when wait() returns.
SPECIFICATION Spec
CONSTANTS
    MaxTasks = 1
    Parallelism = 1
INVARIANT WaitCountsAll
CHECK_DEADLOCK FALSE
