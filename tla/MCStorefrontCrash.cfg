SPECIFICATION StorefrontSpec
CONSTANTS
    l1 = l1
    l2 = l2
    o1 = o1
    w1 = w1
    b1 = b1
    b2 = b2
    Listing = {l1}
    Order = {o1}
    Items <- MCItems
    PageSize = 1
    Slack = 0
    Clickable = {l1}
    MaxTime = 1
    MaxFaults = 1
    Worker = {}
    Strategy = {"csv_export"}
    Recency = 5
    MaxSyncTime = 2
    MaxSyncFaults = 0
    Builder = {b1}
    MaxDay = 1
INVARIANT
    SoldRecordsLeavePages
CHECK_DEADLOCK FALSE
