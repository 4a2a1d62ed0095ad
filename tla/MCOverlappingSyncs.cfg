SPECIFICATION Spec
CONSTANTS
    l1 = l1
    l2 = l2
    w1 = w1
    w2 = w2
    Listing = {l1}
    Worker <- TwoWorkers
    Strategy = {"public_api", "csv_export"}
    Recency = 3
    MaxSyncTime = 3
    MaxSyncFaults = 1
INVARIANT
    IdleShowsNoError
