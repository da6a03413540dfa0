SPECIFICATION FairSpec
CONSTANTS
    MaxChanges = 2
    MaxRestarts = 0
    Failures = FALSE
PROPERTY TimeoutReported
CHECK_DEADLOCK FALSE
