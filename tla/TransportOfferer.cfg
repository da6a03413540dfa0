SPECIFICATION AnsweredSpec
CONSTANTS
    MaxChanges = 2
    MaxRestarts = 1
    Failures = TRUE
INVARIANTS NoLostNegotiation StatesAgree DeferredRestartRuns
PROPERTIES Settles
CHECK_DEADLOCK FALSE
