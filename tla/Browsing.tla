------------------------------ MODULE Browsing ------------------------------
(***************************************************************************)
(* A shopper on a store's page: the crate in the address and in the        *)
(* history (useCrateRouting), the three ways to browse (useBrowseRouting), *)
(* the layouts of the shell, the crate with its cards (useCrateNavigation, *)
(* useCardFlip, the first-swipe lesson) and the wall with its pages and    *)
(* its peek sheet.  The day's catalog comes with every load of the page.   *)
(* An event, the renders and the effects it causes are one step.           *)
(***************************************************************************)
EXTENDS Riffle

CONSTANTS
    Slugs,        \* crates
    NoCrate,      \* no crate: the floor of the store
    Catalogs,     \* the pages the server may send
    Links,        \* addresses that bring the shopper here
    Gestures,     \* drags
    Widths,       \* widths of the window, in pixels
    TilesPerPage, \* tiles on a page of the compact wall
    CompactMax,   \* records on the compact wall
    MaxHistory    \* bound: entries of the history

Slots == 1 .. MaxHistory

\* busy: synced or enriched at this moment; size: the records of a crate.
Catalog ==
    [busy : BOOLEAN, wall : Slugs \cup { NoCrate }, featured : Seq(Slugs),
     genres : Seq(Slugs), size : [Slugs -> Nat]]

\* url: the crate of the address; highlight: the address names a record of the
\* wall; hash: the address has a fragment; crate: the crate in the entry's
\* state.  How the entry was made: pushed by a selected crate, skipped by the
\* skip link.
Entry ==
    [url : Slugs \cup { NoCrate }, highlight : BOOLEAN, hash : BOOLEAN,
     crate : Slugs \cup { NoCrate }, pushed : BOOLEAN, skipped : BOOLEAN]

ASSUME BrowsingAssumption ==
    /\ NoCrate \notin Slugs
    /\ Catalogs \subseteq Catalog /\ Links \subseteq Entry
    /\ \A e \in Links : e.crate = NoCrate /\ ~e.pushed /\ ~e.skipped
    /\ Gestures \subseteq [x : Int, y : Int, vx : Int, vy : Int]
    /\ Widths \subseteq Nat
    /\ TilesPerPage \in Nat \ {0} /\ CompactMax \in Nat \ {0}
    /\ MaxHistory \in Nat \ {0}

VARIABLES
    history,     \* the entries of the tab's history
    here,        \* the current entry
    top,         \* the last entry
    tier,        \* the kind of the window, by its width
    catalog,     \* the crates of the loaded page
    storage,     \* what the browser keeps for the pages
    page         \* the state of the page's components

vars == <<history, here, top, tier, catalog, storage, page>>

NoRecord == -1
NoEntry  ==
    [url |-> NoCrate, highlight |-> FALSE, hash |-> FALSE, crate |-> NoCrate,
     pushed |-> FALSE, skipped |-> FALSE]

Elems(s) == { s[i] : i \in DOMAIN s }

Tiers == { "compact", "comfy", "wide" }

TierFromWidth(width) ==
    IF width <= 767 THEN "compact" ELSE IF width <= 1023 THEN "comfy" ELSE "wide"

-----------------------------------------------------------------------------
(* What the browser keeps: in sessionStorage that the first-swipe lesson   *)
(* is learned, in localStorage that a card has been flipped.  A browser    *)
(* that refuses its storage keeps nothing, and no page fails over it.      *)

Storage == [usable : BOOLEAN, learned : BOOLEAN, flipped : BOOLEAN]

SafeGetStorage == { s \in { storage } : s.usable }

IsLessonLearned == \E s \in SafeGetStorage : s.learned

\* The lesson is learned by a move in a compact window.
MarkLessonLearned(moved) ==
    storage' = IF moved /\ tier = "compact" /\ SafeGetStorage # {}
               THEN [storage EXCEPT !.learned = TRUE] ELSE storage

LoadFlipDiscovered == storage.usable /\ storage.flipped

MarkFlipDiscovered ==
    storage' = IF storage.usable THEN [storage EXCEPT !.flipped = TRUE] ELSE storage

-----------------------------------------------------------------------------
(* The crates of a catalog.                                                *)

WallCrates(c) == IF c.wall = NoCrate THEN <<>> ELSE <<c.wall>>

ResolveAllCrates(c) == WallCrates(c) \o c.featured \o c.genres

\* No two crates of a page have the same slug: those of genres and styles are
\* the names Discogs has for them.
ASSUME DistinctCrates ==
    \A c \in Catalogs : \A i, j \in DOMAIN ResolveAllCrates(c) :
        ResolveAllCrates(c)[i] = ResolveAllCrates(c)[j] => i = j

ResolveActiveMode(c, mode) == IF mode = "featured" THEN c.featured ELSE c.genres

ModeForSlug(c, slug) ==
    IF slug = NoCrate THEN "wall"
    ELSE IF slug \in Elems(c.featured) THEN "featured"
    ELSE IF slug \in Elems(c.genres) THEN "genres"
    ELSE "wall"

\* An unknown crate falls back to the first one.
DeriveCrateData(c, crates, slug) ==
    IF crates = <<>> THEN 0
    ELSE c.size[IF slug \in Elems(crates) THEN slug ELSE crates[1]]

-----------------------------------------------------------------------------
(* What is on screen, for a page p in a window of width t with catalog c.  *)

HasStore(c) == ~c.busy /\ ResolveAllCrates(c) # <<>>

IsDirect(p) == p.direct /\ p.slug # NoCrate

ActiveCrateInPanel(c, p) == p.slug \in Elems(ResolveActiveMode(c, p.mode))

\* The part of the page that is mounted anew when its name changes: the wide
\* and the compact layout, and every mode, have a panel of their own.
Layout(t) == IF t = "wide" THEN "wide" ELSE "compact"

BrowsePanel(c, p) ==
    IF p.mode = "wall" THEN "wall"
    ELSE IF ActiveCrateInPanel(c, p) THEN "crate"
    ELSE "empty"

PanelKey(p) == p.mode

Stage(c, t, p) ==
    IF ~HasStore(c) THEN <<"closed">>
    ELSE IF IsDirect(p) THEN <<"direct">>
    ELSE <<BrowsePanel(c, p), PanelKey(p), Layout(t)>>

Panel == Stage(catalog, tier, page)[1]

\* The records of the crate in the stage.
Total(c, p) ==
    DeriveCrateData(c, IF IsDirect(p) THEN ResolveAllCrates(c)
                       ELSE ResolveActiveMode(c, p.mode), p.slug)

InCrate == Panel \in { "crate", "direct" }

\* Without a record a crate says so; with records the active one's card lies in
\* the middle of its window.
CrateContent == InCrate /\ Total(catalog, page) > 0

CrateWindow == BuildCrateWindow(Total(catalog, page), page.index, 2)

ActiveCards == IF CrateContent THEN CrateWindow \cap { page.index } ELSE {}

\* The wall shows all its records on a page, the compact wall some of them on
\* pages of their own.
WallTotal(c) == IF c.wall = NoCrate THEN 0 ELSE c.size[c.wall]

VisibleRecords(c, t) ==
    IF t = "compact" /\ WallTotal(c) > CompactMax THEN CompactMax ELSE WallTotal(c)

WallPages(c, t) ==
    PageCount(VisibleRecords(c, t), IF t = "compact" THEN TilesPerPage ELSE WallTotal(c))

WallGrid ==
    IF tier = "compact"
    THEN ChunkRecords(VisibleRecords(catalog, tier), TilesPerPage, page.wallPage)
    ELSE ChunkRecords(WallTotal(catalog), WallTotal(catalog), page.wallPage)

\* The tabs: of all crates in the view a shared address opens, of the mode's
\* crates in the sidebar of the wide layout and in the navigation of the
\* compact one, where they are collapsed on the wall but not removed.
HeaderLayout == IF Panel = "direct" THEN "full" ELSE "minimal"

HeaderTabs == IF HeaderLayout = "full" THEN ResolveAllCrates(catalog) ELSE <<>>

SidebarTabs == IF page.mode = "wall" THEN <<>> ELSE ResolveActiveMode(catalog, page.mode)

CompactNavTabs == ResolveActiveMode(catalog, page.mode)

Tabs ==
    IF Panel = "closed" THEN <<>>
    ELSE IF Panel = "direct" THEN HeaderTabs
    ELSE IF tier = "wide" THEN SidebarTabs
    ELSE CompactNavTabs

Vertical == tier = "wide" /\ Panel # "direct"

HasSelection == page.slug \in Elems(Tabs)

TabIndexValue(selected, hasSelection, i) ==
    IF selected \/ (~hasSelection /\ i = 1) THEN 0 ELSE -1

\* The tabs the Tab key stops at.
TabStops ==
    { i \in DOMAIN Tabs : TabIndexValue(Tabs[i] = page.slug, HasSelection, i) = 0 }

\* The mode buttons are not part of the view a shared address opens, which has
\* a button back to the store instead.
ModeButtons == IF Panel \in { "closed", "direct" } THEN {} ELSE { "wall", "featured", "genres" }

BackButton == HeaderLayout = "full"

\* The peek sheet is modal.
Unblocked == page.peek = NoRecord

LessonEligible == tier = "compact" /\ ~IsLessonLearned /\ CrateContent

GestureHint == page.hint /\ LessonEligible

InspectionHint == CrateContent /\ tier = "compact" /\ ~page.hint /\ ~page.discovered

-----------------------------------------------------------------------------
(* Renders and effects.                                                    *)

FreshStage(p) ==
    [p EXCEPT !.index = 0, !.edge = "none", !.hint = ~IsLessonLearned, !.flipped = FALSE,
              !.discovered = LoadFlipDiscovered, !.wallPage = 0, !.peek = NoRecord,
              !.pending = FALSE]

\* The cards of a crate without a record are not there: those of the next crate
\* load what was discovered.
CardStack(c, p) ==
    IF Total(c, p) > 0 THEN p ELSE [p EXCEPT !.discovered = LoadFlipDiscovered]

\* The effect without the index.
ResetKeepingIndex(p) ==
    [p EXCEPT !.edge = "none", !.hint = ~IsLessonLearned, !.flipped = FALSE]

\* The crate's effect when another crate is shown in the same place.
UseResetEffect(p) ==
    [p EXCEPT !.index = 0, !.edge = "none", !.hint = ~IsLessonLearned, !.flipped = FALSE]

UseClampPageIndex(c, t, p) ==
    [p EXCEPT !.wallPage = ClampPageIndex(WallPages(c, t), @)]

Rendered(c, t, p) ==
    IF Stage(c, t, p) # Stage(catalog, tier, page) THEN FreshStage(p)
    ELSE IF p.slug # page.slug THEN CardStack(c, UseResetEffect(p))
    ELSE UseClampPageIndex(c, t, p)

\* The mode follows the crate.
SyncMode(c, p) ==
    IF p.slug = page.slug THEN p ELSE [p EXCEPT !.mode = ModeForSlug(c, p.slug)]

InitialActiveSlug(e) == IF e.url # NoCrate THEN e.url ELSE e.crate

InitialDirectEntry(e) == e.url # NoCrate

MountedPage(c, e) ==
    FreshStage([slug |-> InitialActiveSlug(e), direct |-> InitialDirectEntry(e),
                mode |-> ModeForSlug(c, InitialActiveSlug(e)), index |-> 0,
                edge |-> "none", hint |-> FALSE, flipped |-> FALSE,
                discovered |-> FALSE, wallPage |-> 0, peek |-> NoRecord, pending |-> FALSE])

\* A wall that finds the record of the address takes the record out of it,
\* with the fragment and the rest of the entry's state, and opens the sheet after
\* a moment.
Highlights(c, t, p, e) ==
    Stage(c, t, p)[1] = "wall" /\ e.highlight /\ WallTotal(c) > 0

HighlightTaken(c, t, p, e) ==
    IF Highlights(c, t, p, e)
    THEN [e EXCEPT !.highlight = FALSE, !.hash = FALSE, !.crate = NoCrate] ELSE e

HighlightPending(c, t, p, e) ==
    IF Highlights(c, t, p, e) THEN [p EXCEPT !.pending = TRUE] ELSE p

\* A page is loaded with the catalog the server sends.
Load(c, e) ==
    /\ catalog' = c
    /\ page' = HighlightPending(c, tier, MountedPage(c, e), e)

Loaded(c, e) == HighlightTaken(c, tier, MountedPage(c, e), e)

-----------------------------------------------------------------------------
(* The history.                                                            *)

Replaced(e) == [history EXCEPT ![here] = e]

Pushed(e) ==
    [i \in Slots |-> IF i <= here THEN history[i] ELSE IF i = here + 1 THEN e ELSE NoEntry]

WithCrate(slug) == [history[here] EXCEPT !.crate = slug]

CrateEntry(slug) == [WithCrate(slug) EXCEPT !.pushed = TRUE, !.skipped = FALSE]

\* NavigateCrate without a look at the floor: every crate is pushed.
NavigateCrateAlways(slug, wasFloor) ==
    /\ here < MaxHistory
    /\ history' = Pushed(CrateEntry(slug))
    /\ here' = here + 1 /\ top' = here + 1

\* From the floor a crate is a new entry; from a crate it replaces the entry.
NavigateCrate(slug, wasFloor) ==
    IF wasFloor
    THEN /\ here < MaxHistory
         /\ history' = Pushed(CrateEntry(slug))
         /\ here' = here + 1 /\ top' = here + 1
    ELSE history' = Replaced(WithCrate(slug)) /\ UNCHANGED <<here, top>>

SelectCrate(slug) == NavigateCrate(slug, page.slug = NoCrate)

\* WithoutCrate that hands on the state as it is.
WithState(e) == e

WithoutCrate(e) == [e EXCEPT !.crate = NoCrate]

\* The address without its query.
StoreFloorUrl(e) == [e EXCEPT !.url = NoCrate, !.highlight = FALSE]

BackToStore ==
    /\ history' = Replaced(StoreFloorUrl(WithoutCrate(history[here])))
    /\ UNCHANGED <<here, top>>

AtFloor(p) == [p EXCEPT !.slug = NoCrate, !.direct = FALSE]

-----------------------------------------------------------------------------
(* Loads.                                                                  *)

Init ==
    /\ here = 1 /\ top = 1
    /\ \E width \in Widths : tier = TierFromWidth(width)
    /\ \E usable \in BOOLEAN :
          storage = [usable |-> usable, learned |-> FALSE, flipped |-> FALSE]
    /\ catalog \in Catalogs
    /\ \E e \in Links :
          /\ page = HighlightPending(catalog, tier, MountedPage(catalog, e), e)
          /\ history = [i \in Slots |-> IF i = 1
                           THEN HighlightTaken(catalog, tier, MountedPage(catalog, e), e)
                           ELSE NoEntry]

\* A link or the address bar.
Visit(c, e) ==
    /\ here < MaxHistory
    /\ Load(c, e)
    /\ history' = Pushed(Loaded(c, e))
    /\ here' = here + 1 /\ top' = here + 1
    /\ UNCHANGED <<tier, storage>>

Reload(c) ==
    /\ Load(c, history[here])
    /\ history' = Replaced(Loaded(c, history[here]))
    /\ UNCHANGED <<here, top, tier, storage>>

\* Back and forward between entries: Inertia has its page in the state of each
\* by then and mounts the page anew, over what HandlePopState changed.
PopState(c, i) ==
    /\ i \in { here - 1, here + 1 } /\ i \in 1 .. top
    /\ here' = i
    /\ Load(c, history[i])
    /\ history' = [history EXCEPT ![i] = Loaded(c, history[i])]
    /\ UNCHANGED <<top, tier, storage>>

\* The hook reads the crate from the entry's state and the address apart.
HandlePopState(e) == [page EXCEPT !.slug = e.crate, !.direct = e.url # NoCrate]

\* The browser gives an address with a fragment an entry of its own, without a
\* state, unless the current address has that fragment.
SkippedEntry ==
    [history[here] EXCEPT !.hash = TRUE, !.crate = NoCrate, !.skipped = TRUE]

NavigateToFragment(e) ==
    IF history[here].hash
    THEN history' = Replaced(e) /\ UNCHANGED <<here, top>>
    ELSE /\ here < MaxHistory
         /\ history' = Pushed([e EXCEPT !.pushed = FALSE])
         /\ here' = here + 1 /\ top' = here + 1

\* The shell's skip link: a popstate without a state, at which the hook leaves
\* the crate while the address keeps it, and Inertia mounts nothing.
SkipToContent ==
    /\ Unblocked
    /\ LET p == Rendered(catalog, tier, SyncMode(catalog, HandlePopState(SkippedEntry)))
       IN  /\ page' = HighlightPending(catalog, tier, p, SkippedEntry)
           /\ NavigateToFragment(HighlightTaken(catalog, tier, p, SkippedEntry))
    /\ UNCHANGED <<tier, catalog, storage>>

\* Inertia writes the state of the current entry anew, without the crate.
RewriteEntry ==
    /\ history[here].crate # NoCrate
    /\ history' = Replaced([history[here] EXCEPT !.crate = NoCrate])
    /\ UNCHANGED <<here, top, tier, catalog, storage, page>>

Resize(width) ==
    /\ tier' = TierFromWidth(width)
    /\ page' = Rendered(catalog, TierFromWidth(width), page)
    /\ UNCHANGED <<history, here, top, catalog, storage>>

-----------------------------------------------------------------------------
(* The shell.                                                              *)

Routed(slug) ==
    Rendered(catalog, tier, SyncMode(catalog, [page EXCEPT !.slug = slug]))

\* The header's button of the view a shared address opens.
PressBack ==
    /\ BackButton
    /\ BackToStore
    /\ page' = Rendered(catalog, tier, SyncMode(catalog, AtFloor(page)))
    /\ UNCHANGED <<tier, catalog, storage>>

HandleWallSelected ==
    /\ "wall" \in ModeButtons /\ Unblocked
    /\ \/ /\ page.slug # NoCrate
          /\ BackToStore
          /\ page' = Rendered(catalog, tier, [AtFloor(page) EXCEPT !.mode = "wall"])
       \/ /\ page.slug = NoCrate
          /\ page' = Rendered(catalog, tier, [page EXCEPT !.mode = "wall"])
          /\ UNCHANGED <<history, here, top>>
    /\ UNCHANGED <<tier, catalog, storage>>

\* KeepsCrate that is content with any crate.
KeepsAnyCrate(m) == page.slug # NoCrate \/ ResolveActiveMode(catalog, m) = <<>>

\* A mode shows the active crate when it has it, and its first crate otherwise.
KeepsCrate(m) ==
    page.slug \in Elems(ResolveActiveMode(catalog, m)) \/ ResolveActiveMode(catalog, m) = <<>>

ShowMode(m) ==
    /\ KeepsCrate(m)
    /\ page' = Rendered(catalog, tier, [page EXCEPT !.mode = m])
    /\ UNCHANGED <<history, here, top>>

EnterMode(m) ==
    /\ ~KeepsCrate(m)
    /\ LET first == ResolveActiveMode(catalog, m)[1]
       IN  /\ SelectCrate(first)
           /\ page' = Rendered(catalog, tier,
                        SyncMode(catalog, [page EXCEPT !.mode = m, !.slug = first]))

HandleBrowseModeSelected(m) ==
    /\ m \in ModeButtons /\ Unblocked
    /\ ShowMode(m) \/ EnterMode(m)
    /\ UNCHANGED <<tier, catalog, storage>>

SelectTab(i) ==
    /\ Unblocked
    /\ SelectCrate(Tabs[i])
    /\ page' = Routed(Tabs[i])
    /\ UNCHANGED <<tier, catalog, storage>>

-----------------------------------------------------------------------------
(* The crate.                                                              *)

\* A move, or the notice that there is no record in that direction.
HandleRiffleNavigation(p, dir) ==
    LET move == ResolveRiffleMove(p.index, Total(catalog, p), dir)
    IN  IF move.moved
        THEN [p EXCEPT !.index = move.next, !.edge = "none", !.hint = FALSE,
                       !.flipped = FALSE]
        ELSE [p EXCEPT !.edge = dir]

Moves(p, dir) == ResolveRiffleMove(p.index, Total(catalog, p), dir).moved

Navigate(dir) ==
    /\ page' = HandleRiffleNavigation(page, dir)
    /\ MarkLessonLearned(Moves(page, dir))
    /\ UNCHANGED <<history, here, top, tier, catalog>>

\* The arrow keys work wherever the focus is, unless a dialog is open.
PressArrow(dir) == InCrate /\ Unblocked /\ Navigate(dir)

NavigationButton(dir) ==
    IF dir = "front" THEN page.index > 0 ELSE page.index < Total(catalog, page) - 1

PressNavigationButton(dir) ==
    CrateContent /\ NavigationButton(dir) /\ Navigate(dir)

UseDragNavigation(g) == \E dir \in ResolveRiffleDrag(g) : Navigate(dir)

DragCard(g) == ActiveCards # {} /\ UseDragNavigation(g)

\* The arrow keys on the tab with the focus go round the tabs; on the tabs of the
\* sidebar the same key press also reaches the crate's handler and moves in the
\* crate that has just been opened.
PressArrowOnTab(i, forward) ==
    /\ Unblocked
    /\ LET next == Tabs[ResolveNextIndex(Len(Tabs), i, forward)]
           p    == Routed(next)
           dir  == IF forward THEN "deeper" ELSE "front"
       IN  /\ SelectCrate(next)
           /\ IF Vertical
              THEN page' = HandleRiffleNavigation(p, dir) /\ MarkLessonLearned(Moves(p, dir))
              ELSE page' = p /\ UNCHANGED storage
    /\ UNCHANGED <<tier, catalog>>

\* A card is flipped in a compact window only.
FlipCard ==
    /\ ActiveCards # {} /\ tier = "compact"
    /\ page' = [page EXCEPT !.flipped = ~@, !.discovered = TRUE]
    /\ MarkFlipDiscovered
    /\ UNCHANGED <<history, here, top, tier, catalog>>

-----------------------------------------------------------------------------
(* The wall.                                                               *)

GoToPage(k) ==
    /\ Panel = "wall" /\ Unblocked /\ k # page.wallPage
    /\ page' = [page EXCEPT !.wallPage = k]
    /\ UNCHANGED <<history, here, top, tier, catalog, storage>>

ShowPagination == WallPages(catalog, tier) > 1

PressPageDot(k) == ShowPagination /\ GoToPage(k)

SwipeWall(g) ==
    /\ ShowPagination
    /\ \E k \in ComputeSwipeDirection(SwipePower(g), page.wallPage, WallPages(catalog, tier)) :
          GoToPage(k)

Peek(r) ==
    /\ page' = [page EXCEPT !.peek = r]
    /\ UNCHANGED <<history, here, top, tier, catalog, storage>>

HandleTileTap(r) == Panel = "wall" /\ Unblocked /\ Peek(r)

ClosePeekSheet == page.peek # NoRecord /\ Peek(NoRecord)

\* The timer opens the sheet for the record of the address, whatever the
\* shopper peeks at by now.
OpenHighlighted ==
    /\ page.pending
    /\ \E r \in 0 .. WallTotal(catalog) - 1 :
          page' = [page EXCEPT !.peek = r, !.pending = FALSE]
    /\ UNCHANGED <<history, here, top, tier, catalog, storage>>

-----------------------------------------------------------------------------
Next ==
    \/ \E c \in Catalogs : \/ \E e \in Links : Visit(c, e)
                           \/ Reload(c)
                           \/ \E i \in Slots : PopState(c, i)
    \/ SkipToContent \/ RewriteEntry
    \/ \E width \in Widths : Resize(width)
    \/ PressBack \/ HandleWallSelected
    \/ \E m \in { "featured", "genres" } : HandleBrowseModeSelected(m)
    \/ \E i \in DOMAIN Tabs : SelectTab(i)
    \/ \E i \in TabStops, forward \in BOOLEAN : PressArrowOnTab(i, forward)
    \/ \E dir \in Directions : PressArrow(dir) \/ PressNavigationButton(dir)
    \/ \E g \in Gestures : DragCard(g) \/ SwipeWall(g)
    \/ FlipCard
    \/ \E k \in 0 .. WallPages(catalog, tier) - 1 : PressPageDot(k)
    \/ \E r \in WallGrid : HandleTileTap(r)
    \/ ClosePeekSheet \/ OpenHighlighted

Spec == Init /\ [][Next]_vars

-----------------------------------------------------------------------------
(* Properties.                                                             *)

Page ==
    [slug : Slugs \cup { NoCrate }, direct : BOOLEAN,
     mode : { "wall", "featured", "genres" }, index : Nat,
     edge : { "none", "front", "deeper" }, hint : BOOLEAN, flipped : BOOLEAN,
     discovered : BOOLEAN, wallPage : Nat, peek : Nat \cup { NoRecord }, pending : BOOLEAN]

TypeOK ==
    /\ history \in [Slots -> Entry]
    /\ here \in Slots /\ top \in Slots /\ here <= top
    /\ tier \in Tiers /\ catalog \in Catalogs /\ storage \in Storage
    /\ page \in Page

\* The skip link leaves the crate of the address for the floor, but not the
\* address.
Skipped(e) == e.skipped /\ e.url # NoCrate

\* The floor is the floor: a shopper who sees no crate sees none after a
\* reload, or on coming back, either, whatever address opened the page and
\* whatever Inertia has written into the entry meanwhile.  Only the floor that
\* the skip link shows under the address of a crate does not last.
FloorSurvivesReload ==
    page.slug = NoCrate =>
        \/ InitialActiveSlug(history[here]) = NoCrate
        \/ Skipped(history[here]) /\ history[here].crate = NoCrate

\* One Back leaves the crates: below the entry of a crate opened from the
\* floor lies the floor, however many crates were looked at, modes changed,
\* pages reloaded and entries gone back and forth to.  Only a crate opened
\* after the skip link under the address of a crate has that crate below it.
BackLeavesCrates ==
    \A i \in Slots : i < top /\ history[i + 1].pushed =>
        InitialActiveSlug(history[i]) = NoCrate \/ Skipped(history[i])

\* A page on a crate has no crate opened from a floor ahead of it: otherwise
\* the next crate would overwrite that crate's floor.  The skip link's floor
\* under the address of a crate is overwritten in that way.
CratesAreAhead ==
    page.slug # NoCrate /\ here < top =>
        ~history[here + 1].pushed \/ Skipped(history[here])

\* The panel of a mode that has crates shows one of them, and never the
\* placeholder of an empty mode: mode and crate, kept by two hooks, agree.
PanelShowsCrate ==
    Panel # "empty" \/ ResolveActiveMode(catalog, page.mode) = <<>>

\* A direct view is a view of the address: the address is not left without the
\* direct view, which the skip link brings back with the next crate otherwise.
DirectIsAddressed == page.direct => history[here].url # NoCrate

\* A shopper in a compact crate who has never flipped a card is shown how to
\* move or how to flip: the component's state of the first lesson agrees with
\* the session's, through modes, layouts and windows where it is not taught;
\* in a browser that keeps nothing each page teaches anew.
HintsAgree ==
    /\ page.hint => ~IsLessonLearned
    /\ LoadFlipDiscovered /\ CrateContent => page.discovered
    /\ CrateContent /\ tier = "compact" /\ ~page.discovered => GestureHint \/ InspectionHint

\* The keyboard reaches the tabs, at one of them: the open crate's, or the first.
TabsAreReachable == Tabs # <<>> => Cardinality(TabStops) = 1

BrowsingInv ==
    /\ TypeOK
    /\ FloorSurvivesReload /\ CratesAreAhead /\ DirectIsAddressed
    /\ HintsAgree /\ TabsAreReachable

\* The record on screen exists: the card, its counter and its details are of
\* one and the same record of the crate in the stage, alone in the middle of
\* its window, a notice that the crate ends stands at that end, and the page of
\* the wall holds records, whatever crate, window or catalog came in between.
ShownRecordExists ==
    /\ CrateContent =>
          /\ page.index < Total(catalog, page) /\ ActiveCards = { page.index }
          /\ page.edge = "front" => page.index = 0
          /\ page.edge = "deeper" => page.index = Total(catalog, page) - 1
    /\ Panel = "wall" /\ WallTotal(catalog) > 0 => WallGrid # {}
    /\ page.peek # NoRecord => Panel = "wall" /\ page.peek < WallTotal(catalog)
=============================================================================
