SPECIFICATION Spec
CONSTANTS
    n1 = n1
    Names = {n1}
    Required = {"email"}
    MaxTokens = 3
    MaxRequests = 2
    TrackWidth = 3
    Sizes <- MCSizes
    Proximities = 2
INVARIANTS
    PagesInv
    NothingOutlivesItsPage
    ConfirmedOnce
PROPERTY
    TokensAreRenewed
CHECK_DEADLOCK FALSE
