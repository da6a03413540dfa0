\* The environment stops at some point: what is wanted and servable is served.
SPECIFICATION FairSpec
CONSTANTS
    t1 = t1
    t2 = t2
    t3 = t3
    Tracks = {t1}
    MaxGen = 1
    MaxClose = 1
    MaxSubs = 2
    QueueCap = 1
    KindOf <- KindOfThree
    Limit <- NoLimit
    MaxOps = 2
    MaxPending = 1
    MaxPerm = 0
    Scopes = {{"subscribe", "publish", "bind", "clear"}}
PROPERTIES EventuallySubscribed EventuallyUnsubscribed
CHECK_DEADLOCK FALSE
