SPECIFICATION Spec
CONSTANTS
    s1 = s1
    s2 = s2
    r1 = r1
    r2 = r2
    r3 = r3
    Stores = {s1, s2}
    Records = {r1, r2, r3}
    StoreOf <- MCStoreOf
    Handoff = {s1}
    SellerKnown = {s1}
    NoStore = NoStore
    NoRecord = NoRecord
    Unreadable = Unreadable
    MaxInFlight = 2
INVARIANTS
    PileInv
    FocusIsPlaced
    AnswersAreReal
PROPERTY
    ImplementsPiles
