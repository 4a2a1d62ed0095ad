SPECIFICATION Spec
CONSTANTS
    w = w
    a = a
    d = d
    NoCrate = NoCrate
    Slugs = {w, a, d}
    Catalogs <- MCCatalogs
    Links <- MCLinks
    Gestures <- MCGestures
    Widths = {767, 768, 1024}
    TilesPerPage = 1
    CompactMax = 2
    MaxHistory = 2
INVARIANT BrowsingInv
INVARIANT BackLeavesCrates
INVARIANT PanelShowsCrate
INVARIANT ShownRecordExists
