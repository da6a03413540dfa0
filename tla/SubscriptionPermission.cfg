\* The publisher revokes a permission while a subscribe is in flight.
SPECIFICATION Spec
CONSTANTS
    t1 = t1
    t2 = t2
    t3 = t3
    Tracks = {t1}
    MaxGen = 1
    MaxClose = 1
    MaxSubs = 1
    QueueCap = 1
    KindOf <- KindOfThree
    Limit <- NoLimit
    MaxOps = 1
    MaxPending = 1
    MaxPerm = 1
    Scopes = {{"subscribe", "publish", "permission"}}
INVARIANTS PermissionRevokeComplete
CHECK_DEADLOCK FALSE
