SPECIFICATION FairSpec
CONSTANTS
    l1 = l1
    l2 = l2
    o1 = o1
    o2 = o2
    Listing <- MCListing
    Order <- MCOrder
    Items <- MCItems
    PageSize = 2
    Slack = 1
    Clickable = {l1}
    MaxTime = 3
    MaxFaults = 1
INVARIANTS
    DeletionsAreVersioned
    CursorIsHighWater
PROPERTIES
    ImplementsLedger
    SoldLeavesShelf
    ActivityCatchesUp
