SPECIFICATION Spec
CONSTANTS
    s1 = s1
    s2 = s2
    Stores <- TwoStores
    Mine = s1
    Clicked = {s2}
    FirstRows <- MCFirstRows
    Searches <- MCSearches
    SearchThreshold = 2
    StaleAfter = 2
    MaxRequests = 2
    MaxEvents = 2
INVARIANTS
    TypeOK
    FilteredStoresAreShown
    TriageAgrees
    StuckStoresAreOffered
PROPERTIES
    ShownActivityIsCurrent
    SubmittingEnds
CHECK_DEADLOCK FALSE
