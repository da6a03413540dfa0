\* The six environments of MCSubscriptionScenarios: three tracks, at most two subscribed at a time.
SPECIFICATION ScenarioSpec
CONSTANTS
    t1 = t1
    t2 = t2
    t3 = t3
    Tracks = {t1, t2, t3}
    MaxGen = 2
    MaxClose = 1
    MaxSubs = 2
    QueueCap = 1
    KindOf <- KindOfThree
    Limit <- VideoOne
    MaxOps = 3
    MaxPending = 2
    MaxPerm = 1
    Scopes <- ScenarioInputs
INVARIANTS RevokeComplete NothingLiveAfterClose CountMatchesRecords LiveIsOwned ClosesItsOwnRecord WithinLimit 
CHECK_DEADLOCK FALSE
