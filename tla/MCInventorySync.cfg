SPECIFICATION FairSpec
CONSTANTS
    l1 = l1
    l2 = l2
    w1 = w1
    w2 = w2
    Listing <- MCListing
    Worker <- OneWorker
    Strategy = {"public_api", "csv_export"}
    Recency = 3
    MaxSyncTime = 4
    MaxSyncFaults = 1
INVARIANTS
    IdleIsClean
    CountIsExact
    DeletionsAreVersioned
PROPERTIES
    ShownUntilPublished
    SnapshotIsPublished
    SyncSettles
