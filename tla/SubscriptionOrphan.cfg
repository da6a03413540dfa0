\* A subscribed track closes before the manager installs its callback.
SPECIFICATION Spec
CONSTANTS
    t1 = t1
    t2 = t2
    t3 = t3
    Tracks = {t1}
    MaxGen = 1
    MaxClose = 1
    MaxSubs = 1
    QueueCap = 1
    KindOf <- KindOfThree
    Limit <- NoLimit
    MaxOps = 1
    MaxPending = 1
    MaxPerm = 0
    Scopes = {{"subscribe", "publish", "close"}}
INVARIANTS NoOrphan
CHECK_DEADLOCK FALSE
