-------------------------- MODULE Browsing_proofs --------------------------
(***************************************************************************)
(* For every set of crates and catalogs, every window and every history:   *)
(* one Back leaves the crates, mode and crate agree, and the record on     *)
(* screen exists.                                                          *)
(***************************************************************************)
EXTENDS Browsing, SequenceTheorems, FiniteSetTheorems, TLAPS

-----------------------------------------------------------------------------
(* Catalogs.                                                                *)

\* The crates of a page and of its modes, and how many records they have.
LEMMA CatalogTyped ==
    ASSUME NEW c \in Catalogs
    PROVE  /\ c.wall \in Slugs \cup { NoCrate } /\ c.busy \in BOOLEAN
           /\ c.featured \in Seq(Slugs) /\ c.genres \in Seq(Slugs)
           /\ \A s \in Slugs : c.size[s] \in Nat
           /\ WallCrates(c) \in Seq(Slugs)
           /\ ResolveAllCrates(c) \in Seq(Slugs)
           /\ \A m : ResolveActiveMode(c, m) \in Seq(Slugs)
<1>1. /\ c.wall \in Slugs \cup { NoCrate } /\ c.busy \in BOOLEAN
      /\ c.featured \in Seq(Slugs) /\ c.genres \in Seq(Slugs)
      /\ \A s \in Slugs : c.size[s] \in Nat
    BY BrowsingAssumption DEF Catalog
<1>2. WallCrates(c) \in Seq(Slugs)
    BY <1>1 DEF WallCrates
<1>3. ResolveAllCrates(c) \in Seq(Slugs)
    BY <1>1, <1>2, ConcatProperties DEF ResolveAllCrates
<1>4. QED
    BY <1>1, <1>2, <1>3 DEF ResolveActiveMode

\* The items of a list of crates are crates.
LEMMA CrateList ==
    ASSUME NEW s \in Seq(Slugs)
    PROVE  /\ Len(s) \in Nat /\ DOMAIN s = 1 .. Len(s)
           /\ \A i \in DOMAIN s : s[i] \in Slugs
           /\ Elems(s) \subseteq Slugs
           /\ s # <<>> => 1 \in DOMAIN s /\ s[1] \in Elems(s)
<1>1. /\ Len(s) \in Nat /\ DOMAIN s = 1 .. Len(s) /\ \A i \in DOMAIN s : s[i] \in Slugs
    BY LenProperties, ElementOfSeq
<1>2. s # <<>> => 1 \in DOMAIN s
    BY <1>1, EmptySeq
<1>3. QED
    BY <1>1, <1>2 DEF Elems

Distinct(s) == \A i, j \in DOMAIN s : s[i] = s[j] => i = j

\* The parts of a list without repetition have none either.
LEMMA DistinctParts ==
    ASSUME NEW a \in Seq(Slugs), NEW b \in Seq(Slugs), Distinct(a \o b)
    PROVE  Distinct(a) /\ Distinct(b)
<1>1. /\ Len(a) \in Nat /\ Len(b) \in Nat
      /\ DOMAIN a = 1 .. Len(a) /\ DOMAIN b = 1 .. Len(b)
    BY LenProperties
<1>2. /\ a \o b \in Seq(Slugs) /\ Len(a \o b) = Len(a) + Len(b)
      /\ \A i \in 1 .. Len(a) + Len(b) :
           (a \o b)[i] = IF i <= Len(a) THEN a[i] ELSE b[i - Len(a)]
    BY ConcatProperties
<1> DEFINE c == a \o b
<1>3. DOMAIN c = 1 .. Len(a) + Len(b)
    BY <1>2, LenProperties
<1>4. \A i \in DOMAIN a : i \in DOMAIN c /\ c[i] = a[i]
    BY <1>1, <1>2, <1>3
<1>5. \A i \in DOMAIN b : Len(a) + i \in DOMAIN c /\ c[Len(a) + i] = b[i]
    BY <1>1, <1>2, <1>3
<1>6. Distinct(c)
    OBVIOUS
<1> HIDE DEF c
<1>7. Distinct(a)
    BY <1>4, <1>6 DEF Distinct
<1>8. Distinct(b)
    BY <1>1, <1>5, <1>6 DEF Distinct
<1>9. QED
    BY <1>7, <1>8

\* A crate of the one mode is none of the other.
LEMMA DistinctModes ==
    ASSUME NEW c \in Catalogs
    PROVE  Distinct(ResolveAllCrates(c)) /\ \A m : Distinct(ResolveActiveMode(c, m))
<1> DEFINE wf == WallCrates(c) \o c.featured
<1>1. Distinct(ResolveAllCrates(c))
    BY DistinctCrates DEF Distinct
<1>2. ResolveAllCrates(c) = wf \o c.genres
    BY DEF ResolveAllCrates
<1>3. WallCrates(c) \in Seq(Slugs) /\ c.featured \in Seq(Slugs) /\ c.genres \in Seq(Slugs)
    BY CatalogTyped
<1>4. wf \in Seq(Slugs)
    BY <1>3, ConcatProperties
<1> HIDE DEF wf
<1>5. Distinct(wf) /\ Distinct(c.genres)
    BY <1>1, <1>2, <1>3, <1>4, DistinctParts
<1>6. Distinct(c.featured)
    BY <1>3, <1>5, DistinctParts DEF wf
<1>7. QED
    BY <1>1, <1>5, <1>6 DEF ResolveActiveMode

\* The mode of a crate is a mode, and has the crate.
LEMMA ModeTyped ==
    ASSUME NEW c, NEW slug
    PROVE  /\ ModeForSlug(c, slug) \in { "wall", "featured", "genres" }
           /\ ModeForSlug(c, slug) # "wall" =>
                slug \in Elems(ResolveActiveMode(c, ModeForSlug(c, slug)))
BY DEF ModeForSlug, ResolveActiveMode

\* The number of records in the crate on screen.
LEMMA TotalTyped ==
    ASSUME NEW c \in Catalogs, NEW p
    PROVE  Total(c, p) \in Nat /\ WallTotal(c) \in Nat
<1> DEFINE s == IF IsDirect(p) THEN ResolveAllCrates(c) ELSE ResolveActiveMode(c, p.mode)
<1>1. s \in Seq(Slugs)
    BY CatalogTyped
<1>2. Total(c, p) = DeriveCrateData(c, s, p.slug)
    BY DEF Total
<1> HIDE DEF s
<1>3. Total(c, p) \in Nat
    BY <1>1, <1>2, CrateList, CatalogTyped DEF DeriveCrateData
<1>4. WallTotal(c) \in Nat
    BY CatalogTyped DEF WallTotal
<1>5. QED
    BY <1>3, <1>4
-----------------------------------------------------------------------------
(* Places: of a tab, a card and a page of the wall.                         *)

\* The arrow keys stay among the tabs.
LEMMA NextTab ==
    ASSUME NEW count \in Nat, NEW i \in 1 .. count, NEW forward \in BOOLEAN
    PROVE  ResolveNextIndex(count, i, forward) \in 1 .. count
<1>1. count > 0 /\ i \in Nat /\ i + count - 2 \in Int
    OBVIOUS
<1>2. i % count \in 0 .. count - 1
    BY <1>1
<1>3. (i + count - 2) % count \in 0 .. count - 1
    BY <1>1
<1>4. QED
    BY <1>1, <1>2, <1>3 DEF ResolveNextIndex

\* A quotient is the number of times the divisor fits.
LEMMA Quotient ==
    ASSUME NEW n \in Nat, NEW chunk \in Nat \ {0}
    PROVE  /\ n \div chunk \in Nat
           /\ chunk * (n \div chunk) <= n /\ n < chunk * (n \div chunk) + chunk
<1>1. n \div chunk \in Nat
    OBVIOUS
<1>2. n = chunk * (n \div chunk) + (n % chunk) /\ n % chunk \in 0 .. chunk - 1
    OBVIOUS
<1>3. chunk * (n \div chunk) \in Nat
    BY <1>1
<1>4. QED
    BY <1>1, <1>2, <1>3

\* Records have pages, and no page of them is empty.
LEMMA PagesHoldRecords ==
    ASSUME NEW total \in Nat \ {0}, NEW chunk \in Nat \ {0}
    PROVE  /\ PageCount(total, chunk) \in Nat \ {0}
           /\ \A k \in 0 .. PageCount(total, chunk) - 1 : ChunkRecords(total, chunk, k) # {}
<1> DEFINE n == total + chunk - 1
           q == n \div chunk
<1>1. n \in Nat /\ PageCount(total, chunk) = q
    BY DEF PageCount
<1> HIDE DEF n
<1>2. q \in Nat /\ chunk * q <= n /\ n < chunk * q + chunk
    BY <1>1, Quotient
<1> HIDE DEF q
<1>3. n = total + chunk - 1
    BY DEF n
<1>4. q # 0
    BY <1>2, <1>3
<1>5. ASSUME NEW k \in 0 .. q - 1
      PROVE  ChunkRecords(total, chunk, k) # {}
  <2>1. k \in Nat /\ chunk * k \in Nat
      BY <1>2, <1>5
  <2>2. chunk * (k + 1) <= chunk * q
      BY <1>2, <1>5, <2>1
  <2>3. chunk * (k + 1) = chunk * k + chunk
      BY <2>1
  <2>4. chunk * k \in 0 .. total - 1
      BY <1>2, <1>3, <2>1, <2>2, <2>3
  <2>5. (chunk * k) \div chunk = k
      BY <2>1
  <2>6. QED
      BY <2>4, <2>5 DEF ChunkRecords
<1>6. QED
    BY <1>1, <1>2, <1>4, <1>5
-----------------------------------------------------------------------------
(* The inductive invariant.                                                 *)

\* The crate of a page is one of its mode's, unless the mode has none.
ModeFits(c, p) ==
    p.mode # "wall" /\ ResolveActiveMode(c, p.mode) # <<>> =>
        p.slug \in Elems(ResolveActiveMode(c, p.mode))

\* A page teaches what the browser does not say is learned.
HintFits(s, p) ==
    /\ p.hint => ~(s.usable /\ s.learned)
    /\ s.usable /\ s.flipped => p.discovered

OnWall(c, t, p) == Stage(c, t, p)[1] = "wall"

HasContent(c, t, p) == Stage(c, t, p)[1] \in { "crate", "direct" } /\ Total(c, p) > 0

\* The places of a page lie within what is in its stage, and a sheet is open, or
\* about to be, on the wall only.
CrateFits(c, t, p) ==
    HasContent(c, t, p) =>
        /\ p.index < Total(c, p)
        /\ p.edge = "front" => p.index = 0
        /\ p.edge = "deeper" => p.index = Total(c, p) - 1

WallFits(c, t, p) ==
    /\ OnWall(c, t, p) /\ WallTotal(c) > 0 => p.wallPage < WallPages(c, t)
    /\ p.peek # NoRecord => OnWall(c, t, p) /\ p.peek < WallTotal(c)
    /\ p.pending => OnWall(c, t, p)

HistoryInv ==
    FloorSurvivesReload /\ BackLeavesCrates /\ CratesAreAhead /\ DirectIsAddressed

PageInv ==
    /\ ModeFits(catalog, page) /\ HintFits(storage, page)
    /\ CrateFits(catalog, tier, page) /\ WallFits(catalog, tier, page)

BrowsingIInv == TypeOK /\ HistoryInv /\ PageInv
-----------------------------------------------------------------------------
(* What is on screen follows from the crate, the mode and the view.         *)

\* Two pages are on the same crate, in the same mode and view.
SamePlace(p, q) == p.slug = q.slug /\ p.direct = q.direct /\ p.mode = q.mode

\* Pages at the same place show the same.
LEMMA SamePlaceIsShown ==
    ASSUME NEW c, NEW t, NEW p, NEW q, SamePlace(p, q)
    PROVE  /\ Stage(c, t, p) = Stage(c, t, q) /\ Total(c, p) = Total(c, q)
           /\ ModeFits(c, p) => ModeFits(c, q)
BY DEF SamePlace, Stage, Total, IsDirect, BrowsePanel, ActiveCrateInPanel, PanelKey, ModeFits

\* What is on screen in a store that has crates, and in which mode and layout.
LEMMA StageShown ==
    ASSUME NEW c, NEW t, NEW p
    PROVE  /\ Stage(c, t, p)[1] =
                IF ~HasStore(c) THEN "closed"
                ELSE IF IsDirect(p) THEN "direct" ELSE BrowsePanel(c, p)
           /\ HasStore(c) /\ ~IsDirect(p) =>
                Stage(c, t, p)[2] = p.mode /\ Stage(c, t, p)[3] = Layout(t)
           /\ BrowsePanel(c, p) \in { "wall", "crate", "empty" }
<1>1. CASE ~HasStore(c)
    BY <1>1 DEF Stage, BrowsePanel
<1>2. CASE HasStore(c) /\ IsDirect(p)
    BY <1>2 DEF Stage, BrowsePanel
<1>3. CASE HasStore(c) /\ ~IsDirect(p)
  <2>1. Stage(c, t, p) = <<BrowsePanel(c, p), p.mode, Layout(t)>>
      BY <1>3 DEF Stage, PanelKey
  <2>2. QED
      BY <1>3, <2>1 DEF BrowsePanel
<1>4. QED
    BY <1>1, <1>2, <1>3

\* A stage tells the view and, out of the view a shared address opens, the mode.
LEMMA StageTells ==
    ASSUME NEW c, NEW t, NEW u, NEW p, NEW q, Stage(c, t, p) = Stage(c, u, q),
           Stage(c, t, p)[1] # "closed"
    PROVE  /\ IsDirect(p) <=> IsDirect(q)
           /\ ~IsDirect(p) => p.mode = q.mode /\ Layout(t) = Layout(u)
<1>1. /\ Stage(c, t, p)[1] = Stage(c, u, q)[1]
      /\ Stage(c, t, p)[2] = Stage(c, u, q)[2]
      /\ Stage(c, t, p)[3] = Stage(c, u, q)[3]
    OBVIOUS
<1>2. HasStore(c)
    BY StageShown
<1>3. IsDirect(p) <=> IsDirect(q)
    BY <1>1, <1>2, StageShown
<1>4. QED
    BY <1>1, <1>2, <1>3, StageShown

\* The walls of a window have pages as soon as they have records.
LEMMA WallHasPages ==
    ASSUME NEW c \in Catalogs, NEW t \in Tiers
    PROVE  /\ WallTotal(c) \in Nat /\ WallPages(c, t) \in Nat
           /\ WallTotal(c) > 0 => WallPages(c, t) > 0
           /\ WallTotal(c) = 0 => WallPages(c, t) = 0
           /\ VisibleRecords(c, t) \in Nat /\ VisibleRecords(c, t) <= WallTotal(c)
<1>1. WallTotal(c) \in Nat
    BY TotalTyped
<1>2. /\ VisibleRecords(c, t) \in Nat /\ VisibleRecords(c, t) <= WallTotal(c)
      /\ WallTotal(c) > 0 => VisibleRecords(c, t) > 0
    BY <1>1, BrowsingAssumption DEF VisibleRecords
<1> DEFINE chunk == IF t = "compact" THEN TilesPerPage ELSE WallTotal(c)
<1>3. CASE WallTotal(c) = 0
    BY <1>1, <1>2, <1>3 DEF WallPages, PageCount
<1>4. CASE WallTotal(c) > 0
  <2>1. chunk \in Nat \ {0} /\ VisibleRecords(c, t) \in Nat \ {0}
      BY <1>1, <1>2, <1>4, BrowsingAssumption
  <2>2. WallPages(c, t) = PageCount(VisibleRecords(c, t), chunk)
      BY DEF WallPages
  <2> HIDE DEF chunk
  <2>3. WallPages(c, t) \in Nat \ {0}
      BY <2>1, <2>2, PagesHoldRecords
  <2>4. QED
      BY <1>1, <1>2, <1>4, <2>3
<1>5. QED
    BY <1>1, <1>3, <1>4

\* A page that is mounted anew starts over.
LEMMA FreshFits ==
    ASSUME storage \in Storage, NEW p \in Page, NEW c \in Catalogs, NEW t \in Tiers
    PROVE  /\ FreshStage(p) \in Page /\ SamePlace(FreshStage(p), p)
           /\ HintFits(storage, FreshStage(p))
           /\ CrateFits(c, t, FreshStage(p)) /\ WallFits(c, t, FreshStage(p))
<1> DEFINE q == FreshStage(p)
<1>1. /\ q \in Page /\ q.slug = p.slug /\ q.direct = p.direct /\ q.mode = p.mode
      /\ q.index = 0 /\ q.edge = "none" /\ q.wallPage = 0 /\ q.peek = NoRecord
      /\ ~q.pending
    BY DEF FreshStage, Page, IsLessonLearned, LoadFlipDiscovered, Storage
<1>2. q.hint = (~IsLessonLearned) /\ q.discovered = LoadFlipDiscovered
    BY DEF FreshStage, Page
<1>3. IsLessonLearned <=> storage.usable /\ storage.learned
    BY DEF IsLessonLearned, SafeGetStorage
<1> HIDE DEF q
<1>4. HintFits(storage, q)
    BY <1>2, <1>3 DEF HintFits, LoadFlipDiscovered
<1>5. CrateFits(c, t, q)
    BY <1>1, TotalTyped DEF CrateFits, HasContent
<1>6. WallFits(c, t, q)
    BY <1>1, WallHasPages DEF WallFits
<1>7. QED
    BY <1>1, <1>4, <1>5, <1>6 DEF q, SamePlace
-----------------------------------------------------------------------------
(* Renders.                                                                 *)

\* Two pages have the same state but for their place.
SameState(p, q) ==
    /\ p.index = q.index /\ p.edge = q.edge /\ p.hint = q.hint
    /\ p.discovered = q.discovered /\ p.wallPage = q.wallPage
    /\ p.peek = q.peek /\ p.pending = q.pending

\* The effect of a crate shown in the place of another.
LEMMA ResetFits ==
    ASSUME TypeOK, NEW p \in Page, HintFits(storage, page), SameState(p, page)
    PROVE  LET q == CardStack(catalog, UseResetEffect(p))
           IN  /\ q \in Page /\ SamePlace(q, p) /\ HintFits(storage, q)
               /\ q.index = 0 /\ q.edge = "none"
               /\ q.wallPage = p.wallPage /\ q.peek = p.peek /\ q.pending = p.pending
<1> DEFINE r == UseResetEffect(p)
           q == CardStack(catalog, r)
<1>1. /\ r \in Page /\ SamePlace(r, p) /\ r.hint = (~IsLessonLearned)
      /\ r.discovered = p.discovered /\ r.index = 0 /\ r.edge = "none"
      /\ r.wallPage = p.wallPage /\ r.peek = p.peek /\ r.pending = p.pending
    BY DEF UseResetEffect, Page, SamePlace, IsLessonLearned
<1> HIDE DEF r
<1>2. LoadFlipDiscovered \in BOOLEAN
    BY DEF LoadFlipDiscovered, TypeOK, Storage
<1>3. /\ q \in Page /\ SamePlace(q, p) /\ q.hint = r.hint
      /\ q.discovered = r.discovered \/ q.discovered = LoadFlipDiscovered
      /\ q.index = 0 /\ q.edge = "none"
      /\ q.wallPage = p.wallPage /\ q.peek = p.peek /\ q.pending = p.pending
    BY <1>1, <1>2 DEF CardStack, Page, SamePlace
<1> HIDE DEF q
<1>4. IsLessonLearned <=> storage.usable /\ storage.learned
    BY DEF IsLessonLearned, SafeGetStorage
<1>5. HintFits(storage, q)
    BY <1>1, <1>3, <1>4 DEF HintFits, SameState, LoadFlipDiscovered
<1>6. QED
    BY <1>3, <1>5 DEF q, r

\* A sheet and its timer stay on the wall they belong to.
LEMMA WallKept ==
    ASSUME NEW c, NEW t, NEW u, NEW p, NEW q, WallFits(c, t, p),
           Stage(c, u, q) = Stage(c, t, p), q.peek = p.peek, q.pending = p.pending,
           OnWall(c, u, q) /\ WallTotal(c) > 0 => q.wallPage < WallPages(c, u)
    PROVE  WallFits(c, u, q)
BY DEF WallFits, OnWall

\* Two pages in the same stage and on the same crate have the same records.
LEMMA SameTotal ==
    ASSUME NEW c, NEW t, NEW u, NEW p, NEW q, Stage(c, u, q) = Stage(c, t, p),
           q.slug = p.slug, HasContent(c, u, q)
    PROVE  Total(c, q) = Total(c, p) /\ HasContent(c, t, p)
<1>1. Stage(c, u, q)[1] # "closed"
    BY DEF HasContent
<1>2. (IsDirect(q) <=> IsDirect(p)) /\ (~IsDirect(q) => q.mode = p.mode)
    BY <1>1, StageTells
<1>3. Total(c, q) = Total(c, p)
    BY <1>2 DEF Total
<1>4. QED
    BY <1>3 DEF HasContent

\* The panel's page of the wall, when the window has another width.
LEMMA ClampFits ==
    ASSUME TypeOK, NEW p \in Page, NEW t \in Tiers
    PROVE  LET q == UseClampPageIndex(catalog, t, p)
           IN  /\ q \in Page /\ SamePlace(q, p)
               /\ q.index = p.index /\ q.edge = p.edge /\ q.hint = p.hint
               /\ q.discovered = p.discovered /\ q.peek = p.peek /\ q.pending = p.pending
               /\ WallTotal(catalog) > 0 => q.wallPage < WallPages(catalog, t)
<1> DEFINE n == WallPages(catalog, t)
           k == ClampPageIndex(n, p.wallPage)
           q == UseClampPageIndex(catalog, t, p)
<1>1. n \in Nat /\ (WallTotal(catalog) > 0 => n > 0)
    BY WallHasPages DEF TypeOK
<1> HIDE DEF n
<1>2. p.wallPage \in Nat
    BY DEF Page
<1>3. k \in Nat /\ (n > 0 => k < n)
    BY <1>1, <1>2 DEF ClampPageIndex
<1> HIDE DEF k
<1>4. q = [p EXCEPT !.wallPage = k]
    BY DEF UseClampPageIndex, k, n
<1>5. /\ q \in Page /\ SamePlace(q, p)
      /\ q.index = p.index /\ q.edge = p.edge /\ q.hint = p.hint
      /\ q.discovered = p.discovered /\ q.peek = p.peek /\ q.pending = p.pending
      /\ q.wallPage = k
    BY <1>3, <1>4 DEF Page, SamePlace
<1> HIDE DEF q
<1>6. WallTotal(catalog) > 0 => q.wallPage < WallPages(catalog, t)
    BY <1>1, <1>3, <1>5 DEF n
<1>7. QED
    BY <1>5, <1>6 DEF q

\* What is rendered of a page that has gone to another place fits its stage.
LEMMA RenderedFits ==
    ASSUME TypeOK, HintFits(storage, page), CrateFits(catalog, tier, page),
           WallFits(catalog, tier, page), NEW p \in Page, NEW t \in Tiers,
           SameState(p, page), p.slug # page.slug => t = tier
    PROVE  LET q == Rendered(catalog, t, p)
           IN  /\ q \in Page /\ SamePlace(q, p) /\ HintFits(storage, q)
               /\ CrateFits(catalog, t, q) /\ WallFits(catalog, t, q)
<1> DEFINE q == Rendered(catalog, t, p)
<1>0. storage \in Storage /\ catalog \in Catalogs /\ page \in Page /\ tier \in Tiers
    BY DEF TypeOK
<1>1. CASE Stage(catalog, t, p) # Stage(catalog, tier, page)
  <2>1. q = FreshStage(p)
      BY <1>1 DEF Rendered
  <2>2. QED
      BY <1>0, <2>1, FreshFits
<1>2. CASE Stage(catalog, t, p) = Stage(catalog, tier, page) /\ p.slug # page.slug
  <2>1. q = CardStack(catalog, UseResetEffect(p)) /\ t = tier
      BY <1>2 DEF Rendered
  <2>2. /\ q \in Page /\ SamePlace(q, p) /\ HintFits(storage, q)
        /\ q.index = 0 /\ q.edge = "none"
        /\ q.wallPage = p.wallPage /\ q.peek = p.peek /\ q.pending = p.pending
      BY <2>1, ResetFits
  <2> HIDE DEF q
  <2>3. CrateFits(catalog, t, q)
      BY <1>0, <2>2, TotalTyped DEF CrateFits, HasContent
  <2>4. Stage(catalog, t, q) = Stage(catalog, tier, page)
      BY <1>2, <2>2, SamePlaceIsShown
  <2>5. WallFits(catalog, t, q)
    <3>1. OnWall(catalog, t, q) /\ WallTotal(catalog) > 0 =>
            q.wallPage < WallPages(catalog, t)
        BY <2>1, <2>2, <2>4 DEF WallFits, OnWall, SameState
    <3>2. q.peek = page.peek /\ q.pending = page.pending
        BY <2>2 DEF SameState
    <3>3. QED
        BY <2>4, <3>1, <3>2, WallKept
  <2>6. QED
      BY <2>2, <2>3, <2>5 DEF q
<1>3. CASE Stage(catalog, t, p) = Stage(catalog, tier, page) /\ p.slug = page.slug
  <2>1. q = UseClampPageIndex(catalog, t, p)
      BY <1>3 DEF Rendered
  <2>2. /\ q \in Page /\ SamePlace(q, p)
        /\ q.index = p.index /\ q.edge = p.edge /\ q.hint = p.hint
        /\ q.discovered = p.discovered /\ q.peek = p.peek /\ q.pending = p.pending
        /\ WallTotal(catalog) > 0 => q.wallPage < WallPages(catalog, t)
      BY <2>1, ClampFits
  <2> HIDE DEF q
  <2>3. Stage(catalog, t, q) = Stage(catalog, tier, page) /\ q.slug = page.slug
      BY <1>3, <2>2, SamePlaceIsShown DEF SamePlace
  <2>4. ASSUME HasContent(catalog, t, q)
        PROVE  Total(catalog, q) = Total(catalog, page) /\ HasContent(catalog, tier, page)
      BY <2>3, <2>4, SameTotal
  <2>5. CrateFits(catalog, t, q)
      BY <2>2, <2>4 DEF CrateFits, SameState
  <2>6. WallFits(catalog, t, q)
    <3>1. q.peek = page.peek /\ q.pending = page.pending
        BY <2>2 DEF SameState
    <3>2. QED
        BY <2>2, <2>3, <3>1, WallKept
  <2>7. HintFits(storage, q)
      BY <2>2 DEF HintFits, SameState
  <2>8. QED
      BY <2>2, <2>5, <2>6, <2>7 DEF q
<1>4. QED
    BY <1>1, <1>2, <1>3
-----------------------------------------------------------------------------
(* Moves in a crate.                                                        *)

\* A record further, or the end of the crate.
LEMMA RiffleMove ==
    ASSUME NEW i \in Nat, NEW n \in Nat, NEW dir \in Directions
    PROVE  LET move == ResolveRiffleMove(i, n, dir)
           IN  /\ move.moved \in BOOLEAN
               /\ move.moved => move.next \in Nat /\ move.next < n
               /\ ~move.moved /\ i < n =>
                    /\ dir = "front" => i = 0
                    /\ dir = "deeper" => i = n - 1
<1> DEFINE next == i + RiffleDelta(dir)
           moved == n > 0 /\ next >= 0 /\ next < n
           move == ResolveRiffleMove(i, n, dir)
<1>1. next \in Int /\ (dir = "front" => next = i - 1) /\ (dir = "deeper" => next = i + 1)
    BY DEF RiffleDelta, Directions
<1>2. move = [moved |-> moved, next |-> IF moved THEN next ELSE i]
    BY DEF ResolveRiffleMove
<1>3. move.moved = moved /\ move.next = IF moved THEN next ELSE i
    BY <1>2
<1> HIDE DEF move, next
<1>4. moved => next \in Nat /\ next < n
    BY <1>1
<1>5. ~moved /\ i < n =>
         (dir = "front" => i = 0) /\ (dir = "deeper" => i = n - 1)
    BY <1>1
<1> HIDE DEF moved
<1>6. moved \in BOOLEAN
    BY DEF moved
<1>7. QED
    BY <1>3, <1>4, <1>5, <1>6 DEF move

\* A move leads to another record of the crate or says where it ends.
LEMMA RiffleFits ==
    ASSUME NEW t \in Tiers, NEW p \in Page, NEW dir \in Directions, TypeOK,
           HintFits(storage, p), CrateFits(catalog, t, p), WallFits(catalog, t, p),
           MarkLessonLearned(Moves(p, dir))
    PROVE  LET q == HandleRiffleNavigation(p, dir)
           IN  /\ q \in Page /\ SamePlace(q, p) /\ storage' \in Storage
               /\ HintFits(storage', q)
               /\ CrateFits(catalog, t, q) /\ WallFits(catalog, t, q)
<1> DEFINE n == Total(catalog, p)
           move == ResolveRiffleMove(p.index, n, dir)
           q == HandleRiffleNavigation(p, dir)
<1>0. storage \in Storage /\ n \in Nat /\ p.index \in Nat
    BY TotalTyped DEF TypeOK, Page
<1>1. /\ move.moved \in BOOLEAN
      /\ move.moved => move.next \in Nat /\ move.next < n
      /\ ~move.moved /\ n > 0 /\ p.index < n =>
            /\ dir = "front" => p.index = 0
            /\ dir = "deeper" => p.index = n - 1
    BY <1>0, RiffleMove
<1>2. Moves(p, dir) = move.moved
    BY DEF Moves
<1>3. q = IF move.moved
          THEN [p EXCEPT !.index = move.next, !.edge = "none", !.hint = FALSE,
                         !.flipped = FALSE]
          ELSE [p EXCEPT !.edge = dir]
    BY DEF HandleRiffleNavigation
<1> HIDE DEF move
<1> DEFINE Kept(r) ==
        /\ r \in Page /\ SamePlace(r, p)
        /\ r.discovered = p.discovered /\ r.wallPage = p.wallPage
        /\ r.peek = p.peek /\ r.pending = p.pending
<1>4. ASSUME move.moved
      PROVE  Kept(q) /\ q.index = move.next /\ q.edge = "none" /\ ~q.hint
  <2> DEFINE next == move.next
  <2>1. q = [p EXCEPT !.index = next, !.edge = "none", !.hint = FALSE, !.flipped = FALSE]
      BY <1>3, <1>4
  <2>2. next \in Nat
      BY <1>1, <1>4
  <2> HIDE DEF next, q
  <2>3. Kept(q) /\ q.index = next /\ q.edge = "none" /\ ~q.hint
      BY <2>1, <2>2 DEF Page, SamePlace
  <2>4. QED
      BY <2>3 DEF next
<1>5. ASSUME ~move.moved
      PROVE  Kept(q) /\ q.index = p.index /\ q.edge = dir /\ q.hint = p.hint
  <2>1. q = [p EXCEPT !.edge = dir]
      BY <1>3, <1>5
  <2> HIDE DEF q
  <2>2. QED
      BY <2>1 DEF Page, SamePlace, Directions
<1> HIDE DEF q
<1>6. Kept(q)
    BY <1>1, <1>4, <1>5
<1>7. Stage(catalog, t, q) = Stage(catalog, t, p) /\ Total(catalog, q) = n
    BY <1>6, SamePlaceIsShown
<1> HIDE DEF n
<1>8. CrateFits(catalog, t, q)
  <2>1. CASE move.moved
      BY <1>1, <1>4, <1>7, <2>1 DEF CrateFits
  <2>2. CASE ~move.moved
      BY <1>0, <1>1, <1>5, <1>7, <2>2 DEF CrateFits, HasContent, n
  <2>3. QED
      BY <1>1, <2>1, <2>2
<1>9. WallFits(catalog, t, q)
    BY <1>6, <1>7 DEF WallFits, OnWall
<1>10. /\ storage' \in Storage /\ storage'.usable = storage.usable
       /\ storage'.flipped = storage.flipped
       /\ ~move.moved => storage' = storage
    BY <1>0, <1>2 DEF MarkLessonLearned, Storage
<1>11. HintFits(storage', q)
  <2>1. CASE move.moved
      BY <1>4, <1>10, <2>1, Zenon DEF HintFits
  <2>2. CASE ~move.moved
      BY <1>5, <1>10, <2>2, Zenon DEF HintFits
  <2>3. QED
      BY <2>1, <2>2
<1>12. /\ q \in Page /\ SamePlace(q, p) /\ storage' \in Storage
       /\ HintFits(storage', q)
       /\ CrateFits(catalog, t, q) /\ WallFits(catalog, t, q)
    BY <1>6, <1>8, <1>9, <1>10, <1>11
<1>13. QED
    BY <1>12, Zenon DEF q

-----------------------------------------------------------------------------
(* Loads.                                                                   *)

\* The wall that takes the record out of the address has a sheet to open.
LEMMA PendingFits ==
    ASSUME tier \in Tiers, storage \in Storage, NEW c \in Catalogs, NEW e, NEW m \in Page,
           ModeFits(c, m), HintFits(storage, m), CrateFits(c, tier, m), WallFits(c, tier, m)
    PROVE  LET q == HighlightPending(c, tier, m, e)
           IN  /\ q \in Page /\ q.slug = m.slug /\ q.direct = m.direct
               /\ ModeFits(c, q) /\ HintFits(storage, q)
               /\ CrateFits(c, tier, q) /\ WallFits(c, tier, q)
<1> DEFINE q == HighlightPending(c, tier, m, e)
<1>1. CASE ~Highlights(c, tier, m, e)
  <2>1. q = m
      BY <1>1 DEF HighlightPending
  <2>2. QED
      BY <2>1
<1>2. CASE Highlights(c, tier, m, e)
  <2>1. q = [m EXCEPT !.pending = TRUE]
      BY <1>2 DEF HighlightPending
  <2>2. /\ q \in Page /\ SamePlace(q, m) /\ q.index = m.index /\ q.edge = m.edge
        /\ q.hint = m.hint /\ q.discovered = m.discovered /\ q.wallPage = m.wallPage
        /\ q.peek = m.peek
      BY <2>1 DEF Page, SamePlace
  <2> HIDE DEF q
  <2>3. Stage(c, tier, q) = Stage(c, tier, m) /\ Total(c, q) = Total(c, m) /\ ModeFits(c, q)
      BY <2>2, SamePlaceIsShown DEF SamePlace
  <2>4. HintFits(storage, q) /\ CrateFits(c, tier, q)
      BY <2>2, <2>3 DEF HintFits, CrateFits, HasContent
  <2>5. WallFits(c, tier, q)
      BY <1>2, <2>2, <2>3 DEF WallFits, OnWall, Highlights
  <2>6. QED
      BY <2>2, <2>3, <2>4, <2>5 DEF SamePlace, q
<1>3. QED
    BY <1>1, <1>2

\* A page that is loaded fits its address.
LEMMA LoadFits ==
    ASSUME storage \in Storage, tier \in Tiers, NEW c \in Catalogs, NEW e \in Entry
    PROVE  LET q == HighlightPending(c, tier, MountedPage(c, e), e)
           IN  /\ q \in Page
               /\ q.slug = InitialActiveSlug(e) /\ q.direct = (e.url # NoCrate)
               /\ ModeFits(c, q) /\ HintFits(storage, q)
               /\ CrateFits(c, tier, q) /\ WallFits(c, tier, q)
<1> DEFINE slug == InitialActiveSlug(e)
           mode == ModeForSlug(c, slug)
           o == [slug |-> slug, direct |-> InitialDirectEntry(e), mode |-> mode,
                 index |-> 0, edge |-> "none", hint |-> FALSE, flipped |-> FALSE,
                 discovered |-> FALSE, wallPage |-> 0, peek |-> NoRecord,
                 pending |-> FALSE]
           m == MountedPage(c, e)
           q == HighlightPending(c, tier, m, e)
<1>1. /\ slug \in Slugs \cup { NoCrate } /\ mode \in { "wall", "featured", "genres" }
      /\ InitialDirectEntry(e) \in BOOLEAN
    BY ModeTyped DEF InitialActiveSlug, InitialDirectEntry, Entry
<1>2. mode # "wall" => slug \in Elems(ResolveActiveMode(c, mode))
    BY ModeTyped
<1>3. m = FreshStage(o)
    BY DEF MountedPage
<1>4. /\ o.slug = slug /\ o.direct = InitialDirectEntry(e) /\ o.mode = mode
    OBVIOUS
<1> HIDE DEF mode
<1>5. o \in Page
    BY <1>1 DEF Page
<1> HIDE DEF o, m
<1>6. /\ m \in Page /\ SamePlace(m, o) /\ HintFits(storage, m)
      /\ CrateFits(c, tier, m) /\ WallFits(c, tier, m)
    BY <1>3, <1>5, FreshFits
<1>7. ModeFits(c, m)
    BY <1>2, <1>4, <1>6 DEF ModeFits, SamePlace
<1>8. m.slug = slug /\ m.direct = (e.url # NoCrate)
    BY <1>4, <1>6 DEF SamePlace, InitialDirectEntry
<1>9. QED
    BY <1>6, <1>7, <1>8, PendingFits DEF m

\* The wall takes no address, no push and no skip out of an entry, and puts no
\* crate into it.
LEMMA TakenEntry ==
    ASSUME NEW c, NEW p, NEW e \in Entry
    PROVE  LET l == HighlightTaken(c, tier, p, e)
           IN  /\ l \in Entry /\ l.url = e.url /\ l.pushed = e.pushed
               /\ l.skipped = e.skipped /\ l.crate \in { e.crate, NoCrate }
BY DEF HighlightTaken, Entry

\* What a load leaves of the entry keeps the floor the floor, and the skip link's
\* floor that.
LEMMA LoadedEntry ==
    ASSUME NEW c, NEW e \in Entry
    PROVE  LET l == Loaded(c, e)
           IN  /\ l \in Entry /\ l.url = e.url /\ l.pushed = e.pushed
               /\ InitialActiveSlug(e) = NoCrate => InitialActiveSlug(l) = NoCrate
               /\ Skipped(e) => Skipped(l)
<1> DEFINE l == HighlightTaken(c, tier, MountedPage(c, e), e)
<1>1. /\ l \in Entry /\ l.url = e.url /\ l.pushed = e.pushed
      /\ l.skipped = e.skipped /\ l.crate \in { e.crate, NoCrate }
    BY TakenEntry
<1>2. Loaded(c, e) = l
    BY DEF Loaded
<1> HIDE DEF l
<1>3. QED
    BY <1>1, <1>2 DEF InitialActiveSlug, Skipped
-----------------------------------------------------------------------------
(* Histories.                                                               *)

HistoryType ==
    /\ history \in [Slots -> Entry]
    /\ here \in Slots /\ top \in Slots /\ here <= top

\* The entries are numbered.
LEMMA SlotNumbers == MaxHistory \in Nat /\ Slots = 1 .. MaxHistory /\ NoEntry \in Entry
BY BrowsingAssumption DEF Slots, NoEntry, Entry

\* An entry below another has a next one.
LEMMA NextSlot == \A i, k \in Slots : i < k => i + 1 \in Slots
BY SlotNumbers

\* An entry that is pushed is the last one.
LEMMA PushedEntry ==
    ASSUME TypeOK, NEW e \in Entry, here < MaxHistory,
           history' = Pushed(e), here' = here + 1, top' = here + 1
    PROVE  /\ HistoryType' /\ history'[here'] = e
           /\ \A i \in Slots : i <= here => history'[i] = history[i]
<1>1. here \in Nat /\ here \in Slots /\ here + 1 \in Slots
    BY SlotNumbers DEF TypeOK
<1>2. \A i \in Slots : history[i] \in Entry
    BY DEF TypeOK
<1>3. history' \in [Slots -> Entry]
    BY <1>1, <1>2, SlotNumbers DEF Pushed
<1>4. history'[here + 1] = e
    BY <1>1 DEF Pushed
<1>5. \A i \in Slots : i <= here => history'[i] = history[i]
    BY <1>1 DEF Pushed
<1>6. QED
    BY <1>1, <1>3, <1>4, <1>5 DEF HistoryType

\* An entry that is rewritten leaves the others as they are.
LEMMA ReplacedEntry ==
    ASSUME TypeOK, NEW k \in Slots, NEW e \in Entry, history' = [history EXCEPT ![k] = e]
    PROVE  /\ history' \in [Slots -> Entry] /\ history'[k] = e
           /\ \A i \in Slots \ { k } : history'[i] = history[i]
BY DEF TypeOK

\* An entry that no selected crate has pushed leaves what lies under the crates.
LEMMA PushKeepsCrates ==
    ASSUME BrowsingIInv, NEW e \in Entry, ~e.pushed, here < MaxHistory,
           history' = Pushed(e), here' = here + 1, top' = here + 1
    PROVE  /\ HistoryType' /\ history'[here'] = e
           /\ BackLeavesCrates' /\ CratesAreAhead'
<1>1. /\ TypeOK /\ BackLeavesCrates
      /\ here \in Slots /\ top \in Slots /\ here <= top /\ Slots = 1 .. MaxHistory
      /\ MaxHistory \in Nat
    BY SlotNumbers DEF BrowsingIInv, TypeOK, HistoryInv
<1>2. /\ HistoryType' /\ history'[here'] = e
      /\ \A i \in Slots : i <= here => history'[i] = history[i]
    BY <1>1, PushedEntry
<1>3. CratesAreAhead'
    BY <1>1 DEF CratesAreAhead
<1>4. ~history'[here + 1].pushed
    BY <1>2
<1>5. ASSUME NEW i \in Slots, i < here + 1, history'[i + 1].pushed
      PROVE  InitialActiveSlug(history'[i]) = NoCrate \/ Skipped(history'[i])
  <2>1. i \in Nat /\ i # here /\ i <= here /\ i + 1 <= here /\ i + 1 \in Slots
      BY <1>1, <1>4, <1>5
  <2>2. history'[i] = history[i] /\ history'[i + 1] = history[i + 1]
      BY <1>2, <2>1
  <2>3. i < top
      BY <1>1, <2>1
  <2>4. QED
      BY <1>1, <1>5, <2>2, <2>3 DEF BackLeavesCrates
<1>6. QED
    BY <1>2, <1>3, <1>5 DEF BackLeavesCrates

\* A load keeps the history's promises whether it pushes, rewrites or goes back
\* or forward to the entry it loads.
LEMMA LoadKeepsHistory ==
    ASSUME BrowsingIInv, NEW c \in Catalogs, NEW e \in Entry, Load(c, e),
           \/ /\ here < MaxHistory /\ ~e.pushed
              /\ history' = Pushed(Loaded(c, e))
              /\ here' = here + 1 /\ top' = here + 1
           \/ /\ here' \in Slots /\ here' <= top /\ top' = top
              /\ e = history[here']
              /\ history' = [history EXCEPT ![here'] = Loaded(c, e)],
           page'.slug = InitialActiveSlug(e), page'.direct = (e.url # NoCrate)
    PROVE  HistoryType' /\ HistoryInv'
<1> DEFINE l == Loaded(c, e)
<1>1. /\ l \in Entry /\ l.url = e.url /\ l.pushed = e.pushed
      /\ InitialActiveSlug(e) = NoCrate => InitialActiveSlug(l) = NoCrate
      /\ Skipped(e) => Skipped(l)
    BY LoadedEntry
<1>2. /\ TypeOK /\ here \in Slots /\ top \in Slots /\ here <= top /\ Slots = 1 .. MaxHistory
      /\ MaxHistory \in Nat
    BY SlotNumbers DEF BrowsingIInv, TypeOK
<1>3. BackLeavesCrates
    BY DEF BrowsingIInv, HistoryInv
<1> HIDE DEF l
<1>4. ASSUME HistoryType', history'[here'] = l
      PROVE  FloorSurvivesReload' /\ DirectIsAddressed'
    BY <1>1, <1>4 DEF FloorSurvivesReload, DirectIsAddressed
<1>5. CASE /\ here < MaxHistory /\ ~e.pushed /\ history' = Pushed(Loaded(c, e))
           /\ here' = here + 1 /\ top' = here + 1
  <2>1. ~l.pushed /\ history' = Pushed(l)
      BY <1>1, <1>5 DEF l
  <2>2. /\ HistoryType' /\ history'[here'] = l
        /\ BackLeavesCrates' /\ CratesAreAhead'
      BY <1>1, <1>5, <2>1, PushKeepsCrates
  <2>3. QED
      BY <1>4, <2>2 DEF HistoryInv
<1>6. CASE /\ here' \in Slots /\ here' <= top /\ top' = top /\ e = history[here']
           /\ history' = [history EXCEPT ![here'] = Loaded(c, e)]
  <2>1. /\ HistoryType' /\ history'[here'] = l
        /\ \A i \in Slots \ { here' } : history'[i] = history[i]
      BY <1>1, <1>2, <1>6, ReplacedEntry DEF l, HistoryType
  <2>2. \A i \in Slots : history'[i].pushed = history[i].pushed
      BY <1>1, <1>6, <2>1
  <2>3. BackLeavesCrates'
    <3>1. ASSUME NEW i \in Slots, i < top, history'[i + 1].pushed
          PROVE  InitialActiveSlug(history'[i]) = NoCrate \/ Skipped(history'[i])
      <4>1. i + 1 \in Slots
          BY <1>2, <3>1
      <4>2. InitialActiveSlug(history[i]) = NoCrate \/ Skipped(history[i])
          BY <1>3, <2>2, <3>1, <4>1 DEF BackLeavesCrates
      <4>3. QED
          BY <1>1, <1>6, <2>1, <4>2
    <3>2. QED
        BY <1>6, <3>1 DEF BackLeavesCrates
  <2>4. CratesAreAhead'
    <3>1. ASSUME page'.slug # NoCrate, here' < top, history'[here' + 1].pushed
          PROVE  Skipped(history'[here'])
      <4>0. PICK h \in Slots : h = here'
          BY <1>2, <1>6
      <4>1. h < top /\ h \in Slots /\ h + 1 \in Slots
          BY <1>2, <3>1, <4>0, NextSlot
      <4>2. InitialActiveSlug(history[here']) = NoCrate \/ Skipped(history[here'])
          BY <1>3, <2>2, <3>1, <4>0, <4>1 DEF BackLeavesCrates
      <4>3. QED
          BY <1>1, <1>6, <2>1, <3>1, <4>2
    <3>2. QED
        BY <1>6, <3>1 DEF CratesAreAhead
  <2>5. QED
      BY <1>4, <2>1, <2>3, <2>4 DEF HistoryInv
<1>7. QED
    BY <1>5, <1>6

\* From the floor a crate is a new entry above the floor; from a crate it takes
\* the entry of that crate.
LEMMA SelectKeepsHistory ==
    ASSUME BrowsingIInv, NEW s \in Slugs, SelectCrate(s), page'.slug = s,
           page'.direct = page.direct
    PROVE  HistoryType' /\ HistoryInv'
<1> DEFINE e == WithCrate(s)
           f == CrateEntry(s)
<1>1. /\ TypeOK /\ here \in Slots /\ top \in Slots /\ here <= top /\ Slots = 1 .. MaxHistory
      /\ MaxHistory \in Nat /\ s # NoCrate /\ history[here] \in Entry
    BY SlotNumbers, BrowsingAssumption DEF BrowsingIInv, TypeOK
<1>2. /\ e \in Entry /\ e.url = history[here].url /\ e.pushed = history[here].pushed
      /\ e.skipped = history[here].skipped
      /\ f \in Entry /\ f.url = history[here].url
    BY <1>1 DEF CrateEntry, WithCrate, Entry
<1>3. /\ FloorSurvivesReload /\ BackLeavesCrates /\ CratesAreAhead /\ DirectIsAddressed
    BY DEF BrowsingIInv, HistoryInv
<1> HIDE DEF e, f
<1>4. FloorSurvivesReload'
    BY <1>1 DEF FloorSurvivesReload
<1>5. CASE page.slug = NoCrate
  <2>1. here < MaxHistory /\ history' = Pushed(f) /\ here' = here + 1 /\ top' = here + 1
      BY <1>5 DEF SelectCrate, NavigateCrate, e, f
  <2>2. /\ HistoryType' /\ history'[here'] = f
        /\ \A i \in Slots : i <= here => history'[i] = history[i]
      BY <1>1, <1>2, <2>1, PushedEntry
  <2>3. CratesAreAhead'
      BY <1>1, <2>1 DEF CratesAreAhead
  <2>4. DirectIsAddressed'
      BY <1>2, <1>3, <2>2 DEF DirectIsAddressed
  <2>5. BackLeavesCrates'
    <3>1. ASSUME NEW i \in Slots, i < here + 1, history'[i + 1].pushed
          PROVE  InitialActiveSlug(history'[i]) = NoCrate \/ Skipped(history'[i])
      <4>1. CASE i = here
          BY <1>1, <1>3, <1>5, <2>2, <4>1 DEF FloorSurvivesReload
      <4>2. CASE i < here
        <5>1. i \in Nat /\ i + 1 \in Slots /\ i + 1 <= here /\ i < top
            BY <1>1, <4>2
        <5>2. history'[i] = history[i] /\ history'[i + 1] = history[i + 1]
            BY <1>1, <2>2, <4>2, <5>1
        <5>3. QED
            BY <1>3, <3>1, <5>1, <5>2 DEF BackLeavesCrates
      <4>3. QED
          BY <1>1, <3>1, <4>1, <4>2
    <3>2. QED
        BY <2>1, <3>1 DEF BackLeavesCrates
  <2>6. QED
      BY <1>4, <2>2, <2>3, <2>4, <2>5 DEF HistoryInv
<1>6. CASE page.slug # NoCrate
  <2>1. history' = [history EXCEPT ![here] = e] /\ here' = here /\ top' = top
      BY <1>6 DEF SelectCrate, NavigateCrate, Replaced, e
  <2>2. /\ HistoryType' /\ history'[here] = e
        /\ \A i \in Slots \ { here } : history'[i] = history[i]
      BY <1>1, <1>2, <2>1, ReplacedEntry DEF HistoryType
  <2>3. \A i \in Slots : history'[i].pushed = history[i].pushed
      BY <1>2, <2>2
  <2>4. CratesAreAhead'
    <3>1. ASSUME here < top, history'[here + 1].pushed
          PROVE  Skipped(history'[here])
      <4>1. here + 1 \in Slots
          BY <1>1, <3>1, NextSlot
      <4>2. Skipped(history[here])
          BY <1>3, <1>6, <2>3, <3>1, <4>1 DEF CratesAreAhead
      <4>3. QED
          BY <1>2, <2>2, <4>2 DEF Skipped
    <3>2. QED
        BY <2>1, <3>1 DEF CratesAreAhead
  <2>5. DirectIsAddressed'
      BY <1>2, <1>3, <2>1, <2>2 DEF DirectIsAddressed
  <2>6. BackLeavesCrates'
    <3>1. ASSUME NEW i \in Slots, i < top, history'[i + 1].pushed
          PROVE  InitialActiveSlug(history'[i]) = NoCrate \/ Skipped(history'[i])
      <4>1. i + 1 \in Slots
          BY <1>1, <3>1
      <4>2. history[i + 1].pushed
          BY <2>3, <3>1, <4>1
      <4>3. CASE i = here
        <5>1. Skipped(history[here])
            BY <1>3, <1>6, <3>1, <4>2, <4>3 DEF CratesAreAhead
        <5>2. QED
            BY <1>2, <2>2, <4>3, <5>1 DEF Skipped
      <4>4. CASE i # here
          BY <1>3, <2>2, <3>1, <4>2, <4>4 DEF BackLeavesCrates
      <4>5. QED
          BY <4>3, <4>4
    <3>2. QED
        BY <2>1, <3>1 DEF BackLeavesCrates
  <2>7. QED
      BY <1>4, <2>2, <2>4, <2>5, <2>6 DEF HistoryInv
<1>7. QED
    BY <1>5, <1>6

\* An entry that loses its crate, to the skip link or with its address when the
\* page comes to the floor, leaves what lies below the others as it was.
LEMMA RewriteKeepsHistory ==
    ASSUME BrowsingIInv, NEW e \in Entry, history' = Replaced(e),
           here' = here, top' = top, e.pushed = history[here].pushed, e.crate = NoCrate,
           \/ /\ e.url = history[here].url /\ e.skipped = history[here].skipped
              /\ page'.slug = page.slug /\ page'.direct = page.direct
           \/ e.url = NoCrate /\ page'.slug = NoCrate /\ page'.direct = FALSE
           \/ /\ e.url = history[here].url /\ e.skipped
              /\ page'.slug = NoCrate /\ (page'.direct => e.url # NoCrate)
    PROVE  HistoryType' /\ HistoryInv'
<1>1. /\ TypeOK /\ here \in Slots /\ top \in Slots /\ here <= top /\ Slots = 1 .. MaxHistory
      /\ MaxHistory \in Nat
    BY SlotNumbers DEF BrowsingIInv, TypeOK
<1>2. /\ FloorSurvivesReload /\ BackLeavesCrates /\ CratesAreAhead /\ DirectIsAddressed
    BY DEF BrowsingIInv, HistoryInv
<1>3. /\ HistoryType' /\ history'[here] = e
      /\ \A i \in Slots \ { here } : history'[i] = history[i]
    BY <1>1, ReplacedEntry DEF HistoryType, Replaced
<1>4. /\ InitialActiveSlug(history[here]) = NoCrate => InitialActiveSlug(e) = NoCrate
      /\ Skipped(history[here]) => InitialActiveSlug(e) = NoCrate \/ Skipped(e)
    BY DEF InitialActiveSlug, Skipped
<1>5. \A i \in Slots : history'[i].pushed = history[i].pushed
    BY <1>3
<1>6. FloorSurvivesReload'
  <2>1. page'.slug = NoCrate => InitialActiveSlug(e) = NoCrate \/ Skipped(e)
      BY <1>2, <1>4 DEF FloorSurvivesReload, InitialActiveSlug, Skipped
  <2>2. QED
      BY <1>3, <2>1 DEF FloorSurvivesReload
<1>7. DirectIsAddressed'
    BY <1>2, <1>3 DEF DirectIsAddressed
<1>8. CratesAreAhead'
  <2>1. ASSUME page'.slug # NoCrate, here < top, history'[here + 1].pushed
        PROVE  Skipped(history'[here])
    <3>1. here + 1 \in Slots
        BY <1>1, <2>1, NextSlot
    <3>2. Skipped(history[here])
        BY <1>2, <1>5, <2>1, <3>1 DEF CratesAreAhead
    <3>3. QED
        BY <1>3, <2>1, <3>2 DEF Skipped
  <2>2. QED
      BY <2>1 DEF CratesAreAhead
<1>9. BackLeavesCrates'
  <2>1. ASSUME NEW i \in Slots, i < top, history'[i + 1].pushed
        PROVE  InitialActiveSlug(history'[i]) = NoCrate \/ Skipped(history'[i])
    <3>1. i + 1 \in Slots
        BY <1>1, <2>1
    <3>2. InitialActiveSlug(history[i]) = NoCrate \/ Skipped(history[i])
        BY <1>2, <1>5, <2>1, <3>1 DEF BackLeavesCrates
    <3>3. QED
        BY <1>3, <1>4, <3>2
  <2>2. QED
      BY <2>1 DEF BackLeavesCrates
<1>10. QED
    BY <1>3, <1>6, <1>7, <1>8, <1>9 DEF HistoryInv
-----------------------------------------------------------------------------
(* Steps.                                                                   *)

\* The parts of the invariant, put together again after a step.
LEMMA KeptParts ==
    ASSUME HistoryType', HistoryInv', tier' \in Tiers, catalog' \in Catalogs,
           storage' \in Storage, page' \in Page, PageInv'
    PROVE  BrowsingIInv'
BY DEF HistoryType, BrowsingIInv, TypeOK

\* The invariant by its parts.
LEMMA IInvParts ==
    ASSUME BrowsingIInv
    PROVE  /\ TypeOK /\ HistoryType /\ HistoryInv /\ PageInv
           /\ tier \in Tiers /\ catalog \in Catalogs /\ storage \in Storage /\ page \in Page
           /\ here \in Slots /\ history[here] \in Entry
           /\ HintFits(storage, page) /\ ModeFits(catalog, page)
           /\ CrateFits(catalog, tier, page) /\ WallFits(catalog, tier, page)
BY DEF BrowsingIInv, TypeOK, HistoryType, PageInv

\* Nothing but the page: the history keeps its promises to the same crate and view.
LEMMA SameCrateKeeps ==
    ASSUME BrowsingIInv, UNCHANGED <<history, here, top>>,
           page'.slug = page.slug, page'.direct = page.direct
    PROVE  HistoryType' /\ HistoryInv'
BY IInvParts DEF HistoryType, HistoryInv, FloorSurvivesReload, BackLeavesCrates,
                 CratesAreAhead, DirectIsAddressed

\* The mode follows the crate.
LEMMA SyncFits ==
    ASSUME TypeOK, NEW p \in Page, SameState(p, page),
           p.slug = page.slug => ModeFits(catalog, p)
    PROVE  LET q == SyncMode(catalog, p)
           IN  /\ q \in Page /\ SameState(q, page) /\ ModeFits(catalog, q)
               /\ q.slug = p.slug /\ q.direct = p.direct
<1> DEFINE mode == ModeForSlug(catalog, p.slug)
           q == SyncMode(catalog, p)
<1>1. CASE p.slug = page.slug
    BY <1>1 DEF SyncMode
<1>2. CASE p.slug # page.slug
  <2>1. /\ mode \in { "wall", "featured", "genres" }
        /\ mode # "wall" => p.slug \in Elems(ResolveActiveMode(catalog, mode))
      BY ModeTyped
  <2>2. q = [p EXCEPT !.mode = mode]
      BY <1>2 DEF SyncMode
  <2> HIDE DEF mode, q
  <2>3. /\ q \in Page /\ q.slug = p.slug /\ q.direct = p.direct /\ q.mode = mode
        /\ SameState(q, page)
      BY <2>1, <2>2 DEF Page, SameState
  <2>4. ModeFits(catalog, q)
      BY <2>1, <2>3 DEF ModeFits
  <2>5. QED
      BY <2>3, <2>4 DEF q
<1>3. QED
    BY <1>1, <1>2

\* A page that goes to another place, rendered.
LEMMA MovedKeeps ==
    ASSUME BrowsingIInv, NEW p \in Page, SameState(p, page), ModeFits(catalog, p),
           page' = Rendered(catalog, tier, p), UNCHANGED <<tier, catalog, storage>>
    PROVE  /\ page' \in Page /\ PageInv'
           /\ page'.slug = p.slug /\ page'.direct = p.direct
           /\ tier' \in Tiers /\ catalog' \in Catalogs /\ storage' \in Storage
<1> DEFINE q == Rendered(catalog, tier, p)
<1>1. /\ q \in Page /\ SamePlace(q, p) /\ HintFits(storage, q)
      /\ CrateFits(catalog, tier, q) /\ WallFits(catalog, tier, q)
    BY IInvParts, RenderedFits
<1> HIDE DEF q
<1>2. ModeFits(catalog, q)
    BY <1>1, SamePlaceIsShown DEF SamePlace
<1>3. page' = q
    BY DEF q
<1>4. PageInv'
    BY <1>1, <1>2, <1>3 DEF PageInv
<1>5. QED
    BY <1>1, <1>3, <1>4, IInvParts DEF SamePlace

\* A load.
LEMMA LoadKeeps ==
    ASSUME BrowsingIInv, NEW c \in Catalogs, NEW e \in Entry, Load(c, e),
           UNCHANGED <<tier, storage>>,
           \/ /\ here < MaxHistory /\ ~e.pushed
              /\ history' = Pushed(Loaded(c, e))
              /\ here' = here + 1 /\ top' = here + 1
           \/ /\ here' \in Slots /\ here' <= top /\ top' = top
              /\ e = history[here']
              /\ history' = [history EXCEPT ![here'] = Loaded(c, e)]
    PROVE  BrowsingIInv'
<1> DEFINE q == HighlightPending(c, tier, MountedPage(c, e), e)
<1>1. /\ q \in Page
      /\ q.slug = InitialActiveSlug(e) /\ q.direct = (e.url # NoCrate)
      /\ ModeFits(c, q) /\ HintFits(storage, q)
      /\ CrateFits(c, tier, q) /\ WallFits(c, tier, q)
    BY IInvParts, LoadFits
<1>2. catalog' = c /\ page' = q
    BY DEF Load
<1> HIDE DEF q
<1>3. PageInv'
    BY <1>1, <1>2 DEF PageInv
<1>4. page'.slug = InitialActiveSlug(e) /\ page'.direct = (e.url # NoCrate)
    BY <1>1, <1>2
<1>5. HistoryType' /\ HistoryInv'
    BY <1>4, LoadKeepsHistory
<1>6. QED
    BY <1>1, <1>2, <1>3, <1>5, IInvParts, KeptParts

\* A visit opens the entry of a link.
LEMMA VisitKeeps ==
    ASSUME BrowsingIInv, NEW c \in Catalogs, NEW e \in Links, Visit(c, e)
    PROVE  BrowsingIInv'
<1>1. e \in Entry /\ ~e.pushed
    BY BrowsingAssumption
<1>2. QED
    BY <1>1, LoadKeeps DEF Visit

\* A reload reads the crate from its entry and the catalog of the day.
LEMMA ReloadKeeps ==
    ASSUME BrowsingIInv, NEW c \in Catalogs, Reload(c)
    PROVE  BrowsingIInv'
<1>1. here' = here /\ top' = top /\ history' = [history EXCEPT ![here] = Loaded(c, history[here])]
    BY DEF Reload, Replaced
<1>2. here \in Slots /\ here <= top /\ history[here] \in Entry
    BY IInvParts DEF HistoryType
<1>3. QED
    BY <1>1, <1>2, LoadKeeps DEF Reload

\* Back and forward read the crate from the entry they come to.
LEMMA PopStateKeeps ==
    ASSUME BrowsingIInv, NEW c \in Catalogs, NEW i \in Slots, PopState(c, i)
    PROVE  BrowsingIInv'
<1>1. here' = i /\ top' = top /\ history' = [history EXCEPT ![i] = Loaded(c, history[i])]
    BY DEF PopState
<1>2. history[i] \in Entry /\ top \in Nat
    BY IInvParts, SlotNumbers DEF HistoryType
<1>3. i <= top
    BY <1>2 DEF PopState
<1>4. QED
    BY <1>1, <1>2, <1>3, LoadKeeps DEF PopState

\* The fragment's entry: the crate is left, the address is not.
LEMMA NavigateToFragmentKeeps ==
    ASSUME BrowsingIInv, NEW e \in Entry, NavigateToFragment(e),
           e.pushed = history[here].pushed, e.url = history[here].url,
           e.crate = NoCrate, e.skipped,
           page'.slug = NoCrate, page'.direct => e.url # NoCrate
    PROVE  HistoryType' /\ HistoryInv'
<1>1. CASE history[here].hash
  <2>1. history' = Replaced(e) /\ here' = here /\ top' = top
      BY <1>1 DEF NavigateToFragment
  <2>2. QED
      BY <2>1, RewriteKeepsHistory
<1>2. CASE ~history[here].hash
  <2> DEFINE f == [e EXCEPT !.pushed = FALSE]
  <2>1. here < MaxHistory /\ history' = Pushed(f) /\ here' = here + 1 /\ top' = here + 1
      BY <1>2 DEF NavigateToFragment
  <2>2. f \in Entry /\ ~f.pushed /\ f.url = e.url /\ f.crate = NoCrate /\ f.skipped
      BY DEF Entry
  <2> HIDE DEF f
  <2>3. /\ HistoryType' /\ history'[here'] = f
        /\ BackLeavesCrates' /\ CratesAreAhead'
      BY <2>1, <2>2, PushKeepsCrates
  <2>4. InitialActiveSlug(f) = NoCrate \/ (Skipped(f) /\ f.crate = NoCrate)
      BY <2>2 DEF InitialActiveSlug, Skipped
  <2>5. FloorSurvivesReload' /\ DirectIsAddressed'
      BY <2>2, <2>3, <2>4 DEF FloorSurvivesReload, DirectIsAddressed
  <2>6. QED
      BY <2>3, <2>5 DEF HistoryInv
<1>3. QED
    BY <1>1, <1>2

\* The skip link leads to the floor, under the address of the page.
LEMMA SkipToContentKeeps ==
    ASSUME BrowsingIInv, SkipToContent
    PROVE  BrowsingIInv'
<1> DEFINE e == SkippedEntry
           o == HandlePopState(e)
           s == SyncMode(catalog, o)
           p == Rendered(catalog, tier, s)
           l == HighlightTaken(catalog, tier, p, e)
           q == HighlightPending(catalog, tier, p, e)
<1>1. page' = q /\ NavigateToFragment(l) /\ UNCHANGED <<tier, catalog, storage>>
    BY DEF SkipToContent
<1>2. /\ e \in Entry /\ e.pushed = history[here].pushed /\ e.url = history[here].url
      /\ e.crate = NoCrate /\ e.skipped
    BY IInvParts DEF SkippedEntry, Entry
<1> HIDE DEF e
<1>3. /\ o \in Page /\ SameState(o, page) /\ o.mode = page.mode
      /\ o.slug = NoCrate /\ o.direct = (e.url # NoCrate)
    BY <1>2, IInvParts DEF HandlePopState, Page, SameState
<1> HIDE DEF o
<1>4. o.slug = page.slug => ModeFits(catalog, o)
    BY <1>3, IInvParts DEF ModeFits
<1>5. /\ s \in Page /\ SameState(s, page) /\ ModeFits(catalog, s)
      /\ s.slug = NoCrate /\ s.direct = (e.url # NoCrate)
    BY <1>3, <1>4, IInvParts, SyncFits
<1> HIDE DEF s
<1>6. /\ p \in Page /\ SamePlace(p, s) /\ HintFits(storage, p)
      /\ CrateFits(catalog, tier, p) /\ WallFits(catalog, tier, p)
    BY <1>5, IInvParts, RenderedFits
<1>7. /\ ModeFits(catalog, p) /\ p.slug = NoCrate /\ p.direct = (e.url # NoCrate)
  <2> HIDE DEF p
  <2>1. QED
      BY <1>5, <1>6, SamePlaceIsShown DEF SamePlace
<1> HIDE DEF p
<1>8. /\ q \in Page /\ q.slug = NoCrate /\ q.direct = (e.url # NoCrate)
      /\ ModeFits(catalog, q) /\ HintFits(storage, q)
      /\ CrateFits(catalog, tier, q) /\ WallFits(catalog, tier, q)
    BY <1>6, <1>7, IInvParts, PendingFits
<1>9. /\ l \in Entry /\ l.url = e.url /\ l.pushed = e.pushed
      /\ l.skipped = e.skipped /\ l.crate = NoCrate
    BY <1>2, TakenEntry
<1> HIDE DEF l, q
<1>10. page'.slug = NoCrate /\ (page'.direct => l.url # NoCrate)
    BY <1>1, <1>8, <1>9
<1>11. HistoryType' /\ HistoryInv'
    BY <1>1, <1>2, <1>9, <1>10, NavigateToFragmentKeeps
<1>12. PageInv'
    BY <1>1, <1>8 DEF PageInv
<1>13. QED
    BY <1>1, <1>8, <1>11, <1>12, IInvParts, KeptParts

\* Inertia replaces an entry's state; the address is left.
LEMMA RewriteEntryKeeps ==
    ASSUME BrowsingIInv, RewriteEntry
    PROVE  BrowsingIInv'
<1> DEFINE e == [history[here] EXCEPT !.crate = NoCrate]
<1>1. /\ e \in Entry /\ e.pushed = history[here].pushed /\ e.crate = NoCrate
      /\ e.url = history[here].url /\ e.skipped = history[here].skipped
    BY IInvParts DEF Entry
<1>2. /\ history' = Replaced(e) /\ here' = here /\ top' = top
      /\ UNCHANGED <<tier, catalog, storage, page>>
    BY DEF RewriteEntry
<1> HIDE DEF e
<1>3. HistoryType' /\ HistoryInv'
    BY <1>1, <1>2, RewriteKeepsHistory
<1>4. PageInv'
    BY <1>2, IInvParts DEF PageInv
<1>5. QED
    BY <1>2, <1>3, <1>4, IInvParts, KeptParts

\* Another width may be another tier, on which a page of the wall is clamped.
LEMMA ResizeKeeps ==
    ASSUME BrowsingIInv, NEW width \in Widths, Resize(width)
    PROVE  BrowsingIInv'
<1> DEFINE t == TierFromWidth(width)
           q == Rendered(catalog, t, page)
<1>1. t \in Tiers
    BY DEF TierFromWidth, Tiers
<1>2. /\ tier' = t /\ page' = q /\ UNCHANGED <<history, here, top, catalog, storage>>
    BY DEF Resize
<1> HIDE DEF t
<1>3. SameState(page, page)
    BY DEF SameState
<1>4. /\ q \in Page /\ SamePlace(q, page) /\ HintFits(storage, q)
      /\ CrateFits(catalog, t, q) /\ WallFits(catalog, t, q)
    BY <1>1, <1>3, IInvParts, RenderedFits
<1> HIDE DEF q
<1>5. ModeFits(catalog, q)
    BY <1>4, IInvParts, SamePlaceIsShown DEF SamePlace
<1>6. PageInv'
    BY <1>2, <1>4, <1>5 DEF PageInv
<1>7. HistoryType' /\ HistoryInv'
    BY <1>2, <1>4, SameCrateKeeps DEF SamePlace
<1>8. QED
    BY <1>1, <1>2, <1>4, <1>6, <1>7, IInvParts, KeptParts
\* The page on the floor.
LEMMA FloorPage ==
    ASSUME NEW p \in Page
    PROVE  /\ AtFloor(p) \in Page /\ SameState(AtFloor(p), p) /\ AtFloor(p).mode = p.mode
           /\ AtFloor(p).slug = NoCrate /\ AtFloor(p).direct = FALSE
BY DEF AtFloor, Page, SameState

\* The way back clears the address and takes the crate out of the entry.
LEMMA BackKeepsHistory ==
    ASSUME BrowsingIInv, BackToStore, page'.slug = NoCrate, page'.direct = FALSE
    PROVE  HistoryType' /\ HistoryInv'
<1> DEFINE e == StoreFloorUrl(WithoutCrate(history[here]))
<1>1. /\ e \in Entry /\ e.pushed = history[here].pushed /\ e.crate = NoCrate
      /\ e.url = NoCrate
    BY IInvParts DEF Entry, StoreFloorUrl, WithoutCrate
<1>2. history' = Replaced(e) /\ here' = here /\ top' = top
    BY DEF BackToStore
<1> HIDE DEF e
<1>3. QED
    BY <1>1, <1>2, RewriteKeepsHistory

\* The header's button leads from a shared address to the floor.
LEMMA PressBackKeeps ==
    ASSUME BrowsingIInv, PressBack
    PROVE  BrowsingIInv'
<1> DEFINE f == AtFloor(page)
           p == SyncMode(catalog, f)
<1>1. /\ f \in Page /\ SameState(f, page) /\ f.mode = page.mode
      /\ f.slug = NoCrate /\ f.direct = FALSE
    BY IInvParts, FloorPage
<1>2. BackToStore /\ page' = Rendered(catalog, tier, p) /\ UNCHANGED <<tier, catalog, storage>>
    BY DEF PressBack
<1> HIDE DEF f
<1>3. f.slug = page.slug => ModeFits(catalog, f)
    BY <1>1, IInvParts DEF ModeFits
<1>4. /\ p \in Page /\ SameState(p, page) /\ ModeFits(catalog, p)
      /\ p.slug = NoCrate /\ p.direct = FALSE
    BY <1>1, <1>3, IInvParts, SyncFits
<1> HIDE DEF p
<1>5. /\ page' \in Page /\ PageInv' /\ page'.slug = NoCrate /\ page'.direct = FALSE
      /\ tier' \in Tiers /\ catalog' \in Catalogs /\ storage' \in Storage
    BY <1>2, <1>4, MovedKeeps
<1>6. HistoryType' /\ HistoryInv'
    BY <1>2, <1>5, BackKeepsHistory
<1>7. QED
    BY <1>5, <1>6, KeptParts

\* The wall is shown on the floor.
LEMMA HandleWallSelectedKeeps ==
    ASSUME BrowsingIInv, HandleWallSelected
    PROVE  BrowsingIInv'
<1>1. CASE /\ page.slug # NoCrate /\ BackToStore
           /\ page' = Rendered(catalog, tier, [AtFloor(page) EXCEPT !.mode = "wall"])
  <2> DEFINE f == AtFloor(page)
             p == [f EXCEPT !.mode = "wall"]
  <2>1. /\ f \in Page /\ SameState(f, page) /\ f.slug = NoCrate /\ f.direct = FALSE
      BY IInvParts, FloorPage
  <2>2. page' = Rendered(catalog, tier, p) /\ UNCHANGED <<tier, catalog, storage>>
      BY <1>1 DEF HandleWallSelected
  <2> HIDE DEF f
  <2>3. /\ p \in Page /\ SameState(p, page) /\ p.mode = "wall"
        /\ p.slug = NoCrate /\ p.direct = FALSE
      BY <2>1 DEF Page, SameState
  <2> HIDE DEF p
  <2>4. ModeFits(catalog, p)
      BY <2>3 DEF ModeFits
  <2>5. /\ page' \in Page /\ PageInv' /\ page'.slug = NoCrate /\ page'.direct = FALSE
        /\ tier' \in Tiers /\ catalog' \in Catalogs /\ storage' \in Storage
      BY <2>2, <2>3, <2>4, MovedKeeps
  <2>6. HistoryType' /\ HistoryInv'
      BY <1>1, <2>5, BackKeepsHistory
  <2>7. QED
      BY <2>5, <2>6, KeptParts
<1>2. CASE /\ page.slug = NoCrate
           /\ page' = Rendered(catalog, tier, [page EXCEPT !.mode = "wall"])
           /\ UNCHANGED <<history, here, top>>
  <2> DEFINE p == [page EXCEPT !.mode = "wall"]
  <2>1. /\ p \in Page /\ SameState(p, page) /\ p.mode = "wall"
        /\ p.slug = page.slug /\ p.direct = page.direct
      BY IInvParts DEF Page, SameState
  <2>2. page' = Rendered(catalog, tier, p) /\ UNCHANGED <<tier, catalog, storage>>
      BY <1>2 DEF HandleWallSelected
  <2> HIDE DEF p
  <2>3. ModeFits(catalog, p)
      BY <2>1 DEF ModeFits
  <2>4. /\ page' \in Page /\ PageInv' /\ page'.slug = page.slug /\ page'.direct = page.direct
        /\ tier' \in Tiers /\ catalog' \in Catalogs /\ storage' \in Storage
      BY <2>1, <2>2, <2>3, MovedKeeps
  <2>5. QED
      BY <1>2, <2>4, SameCrateKeeps, KeptParts
<1>3. QED
    BY <1>1, <1>2 DEF HandleWallSelected

\* A mode that is shown in place has the crate.
LEMMA ShowModeKeeps ==
    ASSUME BrowsingIInv, NEW m \in { "featured", "genres" }, ShowMode(m),
           UNCHANGED <<tier, catalog, storage>>
    PROVE  BrowsingIInv'
<1> DEFINE p == [page EXCEPT !.mode = m]
<1>1. /\ p \in Page /\ SameState(p, page) /\ p.mode = m
      /\ p.slug = page.slug /\ p.direct = page.direct
    BY IInvParts DEF Page, SameState
<1>2. KeepsCrate(m) /\ page' = Rendered(catalog, tier, p) /\ UNCHANGED <<history, here, top>>
    BY DEF ShowMode
<1> HIDE DEF p
<1>3. ModeFits(catalog, p)
    BY <1>1, <1>2 DEF ModeFits, KeepsCrate
<1>4. /\ page' \in Page /\ PageInv' /\ page'.slug = page.slug /\ page'.direct = page.direct
      /\ tier' \in Tiers /\ catalog' \in Catalogs /\ storage' \in Storage
    BY <1>1, <1>2, <1>3, MovedKeeps
<1>5. QED
    BY <1>2, <1>4, SameCrateKeeps, KeptParts

\* A mode that lacks the crate is entered at its first one.
LEMMA EnterModeKeeps ==
    ASSUME BrowsingIInv, NEW m \in { "featured", "genres" }, EnterMode(m),
           UNCHANGED <<tier, catalog, storage>>
    PROVE  BrowsingIInv'
<1> DEFINE s == ResolveActiveMode(catalog, m)
           o == [page EXCEPT !.mode = m, !.slug = s[1]]
           p == SyncMode(catalog, o)
<1>1. ~KeepsCrate(m) /\ SelectCrate(s[1]) /\ page' = Rendered(catalog, tier, p)
    BY DEF EnterMode
<1>2. s \in Seq(Slugs) /\ s # <<>>
    BY <1>1, IInvParts, CatalogTyped DEF KeepsCrate
<1>3. ResolveActiveMode(catalog, m) = s
    OBVIOUS
<1> HIDE DEF s
<1>4. s[1] \in Slugs /\ s[1] \in Elems(s)
    BY <1>2, CrateList
<1>5. /\ o \in Page /\ SameState(o, page) /\ o.mode = m
      /\ o.slug = s[1] /\ o.direct = page.direct
    BY <1>4, IInvParts DEF Page, SameState
<1> HIDE DEF o
<1>6. ModeFits(catalog, o)
    BY <1>3, <1>4, <1>5 DEF ModeFits
<1>7. /\ p \in Page /\ SameState(p, page) /\ ModeFits(catalog, p)
      /\ p.slug = s[1] /\ p.direct = page.direct
    BY <1>5, <1>6, IInvParts, SyncFits
<1> HIDE DEF p
<1>8. /\ page' \in Page /\ PageInv' /\ page'.slug = s[1] /\ page'.direct = page.direct
      /\ tier' \in Tiers /\ catalog' \in Catalogs /\ storage' \in Storage
    BY <1>1, <1>7, MovedKeeps
<1>9. HistoryType' /\ HistoryInv'
    BY <1>1, <1>4, <1>8, SelectKeepsHistory
<1>10. QED
    BY <1>8, <1>9, KeptParts

\* The button of a mode, whatever is on screen.
LEMMA HandleBrowseModeSelectedKeeps ==
    ASSUME BrowsingIInv, NEW m \in { "featured", "genres" }, HandleBrowseModeSelected(m)
    PROVE  BrowsingIInv'
BY ShowModeKeeps, EnterModeKeeps DEF HandleBrowseModeSelected

\* The tabs on screen are crates of the catalog, none of them twice.
LEMMA TabsTyped ==
    ASSUME catalog \in Catalogs
    PROVE  Tabs \in Seq(Slugs) /\ Distinct(Tabs)
<1>1. <<>> \in Seq(Slugs) /\ Distinct(<<>>)
    BY DEF Distinct
<1>2. /\ ResolveAllCrates(catalog) \in Seq(Slugs) /\ Distinct(ResolveAllCrates(catalog))
      /\ ResolveActiveMode(catalog, page.mode) \in Seq(Slugs)
      /\ Distinct(ResolveActiveMode(catalog, page.mode))
    BY CatalogTyped, DistinctModes
<1>3. \/ Tabs = <<>> \/ Tabs = ResolveAllCrates(catalog)
      \/ Tabs = ResolveActiveMode(catalog, page.mode)
    BY DEF Tabs, HeaderTabs, SidebarTabs, CompactNavTabs
<1>4. QED
    BY <1>1, <1>2, <1>3

\* The page that has gone to another crate.
LEMMA RoutedFits ==
    ASSUME BrowsingIInv, NEW s \in Slugs
    PROVE  LET p == SyncMode(catalog, [page EXCEPT !.slug = s])
           IN  /\ p \in Page /\ SameState(p, page) /\ ModeFits(catalog, p)
               /\ p.slug = s /\ p.direct = page.direct
               /\ Routed(s) = Rendered(catalog, tier, p)
<1> DEFINE o == [page EXCEPT !.slug = s]
<1>1. /\ o \in Page /\ SameState(o, page) /\ o.mode = page.mode
      /\ o.slug = s /\ o.direct = page.direct
    BY IInvParts DEF Page, SameState
<1>2. Routed(s) = Rendered(catalog, tier, SyncMode(catalog, o))
    BY DEF Routed
<1> HIDE DEF o
<1>3. o.slug = page.slug => ModeFits(catalog, o)
    BY <1>1, IInvParts DEF ModeFits
<1> DEFINE p == SyncMode(catalog, o)
<1>4. /\ p \in Page /\ SameState(p, page) /\ ModeFits(catalog, p)
      /\ p.slug = s /\ p.direct = page.direct
    BY <1>1, <1>3, IInvParts, SyncFits
<1>5. QED
    BY <1>2, <1>4 DEF o

\* A tab opens its crate.
LEMMA SelectTabKeeps ==
    ASSUME BrowsingIInv, NEW i \in DOMAIN Tabs, SelectTab(i)
    PROVE  BrowsingIInv'
<1> DEFINE s == Tabs[i]
           p == SyncMode(catalog, [page EXCEPT !.slug = s])
<1>1. s \in Slugs
    BY IInvParts, TabsTyped, CrateList
<1>2. SelectCrate(s) /\ page' = Routed(s) /\ UNCHANGED <<tier, catalog, storage>>
    BY DEF SelectTab
<1> HIDE DEF s
<1>3. /\ p \in Page /\ SameState(p, page) /\ ModeFits(catalog, p)
      /\ p.slug = s /\ p.direct = page.direct /\ Routed(s) = Rendered(catalog, tier, p)
    BY <1>1, RoutedFits
<1> HIDE DEF p
<1>4. /\ page' \in Page /\ PageInv' /\ page'.slug = s /\ page'.direct = page.direct
      /\ tier' \in Tiers /\ catalog' \in Catalogs /\ storage' \in Storage
    BY <1>2, <1>3, MovedKeeps
<1>5. QED
    BY <1>1, <1>2, <1>4, SelectKeepsHistory, KeptParts
\* What is rendered of the page that has gone to another crate.
LEMMA RoutedRendered ==
    ASSUME BrowsingIInv, NEW s \in Slugs
    PROVE  /\ Routed(s) \in Page /\ Routed(s).slug = s /\ Routed(s).direct = page.direct
           /\ ModeFits(catalog, Routed(s)) /\ HintFits(storage, Routed(s))
           /\ CrateFits(catalog, tier, Routed(s)) /\ WallFits(catalog, tier, Routed(s))
<1> DEFINE p == SyncMode(catalog, [page EXCEPT !.slug = s])
           q == Rendered(catalog, tier, p)
<1>1. /\ p \in Page /\ SameState(p, page) /\ ModeFits(catalog, p)
      /\ p.slug = s /\ p.direct = page.direct /\ Routed(s) = q
    BY RoutedFits
<1> HIDE DEF p
<1>2. /\ q \in Page /\ SamePlace(q, p) /\ HintFits(storage, q)
      /\ CrateFits(catalog, tier, q) /\ WallFits(catalog, tier, q)
    BY <1>1, IInvParts, RenderedFits
<1> HIDE DEF q
<1>3. ModeFits(catalog, q)
    BY <1>1, <1>2, SamePlaceIsShown DEF SamePlace
<1>4. QED
    BY <1>1, <1>2, <1>3 DEF SamePlace

\* A move in a crate the page is on, or has just gone to.
LEMMA RiffledKeeps ==
    ASSUME BrowsingIInv, NEW p \in Page, NEW dir \in Directions,
           ModeFits(catalog, p), HintFits(storage, p),
           CrateFits(catalog, tier, p), WallFits(catalog, tier, p),
           page' = HandleRiffleNavigation(p, dir), MarkLessonLearned(Moves(p, dir)),
           UNCHANGED <<tier, catalog>>
    PROVE  /\ page' \in Page /\ PageInv'
           /\ page'.slug = p.slug /\ page'.direct = p.direct
           /\ tier' \in Tiers /\ catalog' \in Catalogs /\ storage' \in Storage
<1> DEFINE q == HandleRiffleNavigation(p, dir)
<1>1. /\ q \in Page /\ SamePlace(q, p) /\ storage' \in Storage
      /\ HintFits(storage', q)
      /\ CrateFits(catalog, tier, q) /\ WallFits(catalog, tier, q)
    BY IInvParts, RiffleFits
<1>2. page' = q
    OBVIOUS
<1> HIDE DEF q
<1>3. ModeFits(catalog, q)
    BY <1>1, SamePlaceIsShown DEF SamePlace
<1>4. PageInv'
    BY <1>1, <1>2, <1>3 DEF PageInv
<1>5. QED
    BY <1>1, <1>2, <1>4, IInvParts DEF SamePlace

\* A move in a crate stays within it.
LEMMA NavigateKeeps ==
    ASSUME BrowsingIInv, NEW dir \in Directions, Navigate(dir)
    PROVE  BrowsingIInv'
<1>1. /\ page' \in Page /\ PageInv'
      /\ page'.slug = page.slug /\ page'.direct = page.direct
      /\ tier' \in Tiers /\ catalog' \in Catalogs /\ storage' \in Storage
    BY IInvParts, RiffledKeeps DEF Navigate
<1>2. HistoryType' /\ HistoryInv'
    BY <1>1, SameCrateKeeps DEF Navigate
<1>3. QED
    BY <1>1, <1>2, KeptParts

\* An arrow key is a move.
LEMMA PressArrowKeeps ==
    ASSUME BrowsingIInv, NEW dir \in Directions,
           PressArrow(dir) \/ PressNavigationButton(dir)
    PROVE  BrowsingIInv'
BY NavigateKeeps DEF PressArrow, PressNavigationButton

\* A drag beyond its threshold is a move.
LEMMA DragCardKeeps ==
    ASSUME BrowsingIInv, NEW g \in Gestures, DragCard(g)
    PROVE  BrowsingIInv'
<1>1. PICK dir \in ResolveRiffleDrag(g) : Navigate(dir)
    BY DEF DragCard, UseDragNavigation
<1>2. dir \in Directions
    BY DEF ResolveRiffleDrag, DirectionFromVertical, Directions
<1>3. QED
    BY <1>1, <1>2, NavigateKeeps

\* An arrow key on the tabs opens a crate, and may move in it.
LEMMA PressArrowOnTabKeeps ==
    ASSUME BrowsingIInv, NEW i \in TabStops, NEW forward \in BOOLEAN,
           PressArrowOnTab(i, forward)
    PROVE  BrowsingIInv'
<1> DEFINE k == ResolveNextIndex(Len(Tabs), i, forward)
           s == Tabs[k]
           p == Routed(s)
           dir == IF forward THEN "deeper" ELSE "front"
<1>1. i \in DOMAIN Tabs /\ Tabs \in Seq(Slugs)
    BY IInvParts, TabsTyped DEF TabStops
<1>2. k \in 1 .. Len(Tabs)
    BY <1>1, CrateList, NextTab
<1> HIDE DEF k
<1>3. s \in Slugs /\ dir \in Directions
    BY <1>1, <1>2, CrateList DEF Directions
<1>4. /\ SelectCrate(s) /\ UNCHANGED <<tier, catalog>>
      /\ IF Vertical
         THEN page' = HandleRiffleNavigation(p, dir) /\ MarkLessonLearned(Moves(p, dir))
         ELSE page' = p /\ UNCHANGED storage
    BY DEF PressArrowOnTab, k
<1> HIDE DEF s, dir
<1>5. /\ p \in Page /\ p.slug = s /\ p.direct = page.direct
      /\ ModeFits(catalog, p) /\ HintFits(storage, p)
      /\ CrateFits(catalog, tier, p) /\ WallFits(catalog, tier, p)
    BY <1>3, RoutedRendered
<1> HIDE DEF p
<1>6. /\ page' \in Page /\ PageInv' /\ page'.slug = s /\ page'.direct = page.direct
      /\ tier' \in Tiers /\ catalog' \in Catalogs /\ storage' \in Storage
  <2>1. CASE Vertical
      BY <1>3, <1>4, <1>5, <2>1, RiffledKeeps
  <2>2. CASE ~Vertical
    <3>1. page' = p /\ UNCHANGED <<tier, catalog, storage>>
        BY <1>4, <2>2
    <3>2. PageInv'
        BY <1>5, <3>1 DEF PageInv
    <3>3. QED
        BY <1>5, <3>1, <3>2, IInvParts
  <2>3. QED
      BY <2>1, <2>2
<1>7. QED
    BY <1>3, <1>4, <1>6, SelectKeepsHistory, KeptParts

\* A page that keeps its place and its record.
LEMMA SamePlaceKeeps ==
    ASSUME BrowsingIInv, page' \in Page, SamePlace(page', page),
           page'.index = page.index, page'.edge = page.edge,
           storage' \in Storage, HintFits(storage', page'),
           WallFits(catalog, tier, page'),
           UNCHANGED <<history, here, top, tier, catalog>>
    PROVE  BrowsingIInv'
<1>1. /\ Stage(catalog, tier, page') = Stage(catalog, tier, page)
      /\ Total(catalog, page') = Total(catalog, page) /\ ModeFits(catalog, page')
    BY IInvParts, SamePlaceIsShown DEF SamePlace
<1>2. CrateFits(catalog, tier, page')
    BY <1>1, IInvParts DEF CrateFits, HasContent
<1>3. PageInv'
    BY <1>1, <1>2 DEF PageInv
<1>4. HistoryType' /\ HistoryInv'
    BY SameCrateKeeps DEF SamePlace
<1>5. QED
    BY <1>3, <1>4, IInvParts, KeptParts

\* A card that is flipped is remembered as far as the browser does.
LEMMA FlipCardKeeps ==
    ASSUME BrowsingIInv, FlipCard
    PROVE  BrowsingIInv'
<1>1. /\ page' = [page EXCEPT !.flipped = ~@, !.discovered = TRUE] /\ MarkFlipDiscovered
      /\ UNCHANGED <<history, here, top, tier, catalog>>
    BY DEF FlipCard
<1>2. page \in Page /\ storage \in Storage
    BY IInvParts
<1>3. /\ page' \in Page /\ SamePlace(page', page) /\ page'.discovered
      /\ page'.index = page.index /\ page'.edge = page.edge /\ page'.hint = page.hint
      /\ page'.wallPage = page.wallPage /\ page'.peek = page.peek
      /\ page'.pending = page.pending
    BY <1>1, <1>2 DEF Page, SamePlace
<1>4. /\ storage' \in Storage /\ storage'.usable = storage.usable
      /\ storage'.learned = storage.learned
    BY <1>1, <1>2 DEF MarkFlipDiscovered, Storage
<1>5. HintFits(storage', page')
    BY <1>3, <1>4, IInvParts DEF HintFits
<1>6. Stage(catalog, tier, page') = Stage(catalog, tier, page)
    BY <1>3, SamePlaceIsShown
<1>7. WallFits(catalog, tier, page')
    BY <1>3, <1>6, IInvParts DEF WallFits, OnWall
<1>8. QED
    BY <1>1, <1>3, <1>4, <1>5, <1>7, SamePlaceKeeps

\* A page of the wall that is gone to is one of its pages.
LEMMA GoToPageKeeps ==
    ASSUME BrowsingIInv, NEW k \in Nat, GoToPage(k), k < WallPages(catalog, tier)
    PROVE  BrowsingIInv'
<1>1. /\ page' = [page EXCEPT !.wallPage = k]
      /\ UNCHANGED <<history, here, top, tier, catalog, storage>>
    BY DEF GoToPage
<1>2. page \in Page /\ storage \in Storage
    BY IInvParts
<1>3. /\ page' \in Page /\ SamePlace(page', page) /\ page'.discovered = page.discovered
      /\ page'.index = page.index /\ page'.edge = page.edge /\ page'.hint = page.hint
      /\ page'.wallPage = k /\ page'.peek = page.peek
      /\ page'.pending = page.pending
    BY <1>1, <1>2 DEF Page, SamePlace
<1>4. HintFits(storage', page')
    BY <1>1, <1>3, IInvParts DEF HintFits
<1>5. Stage(catalog, tier, page') = Stage(catalog, tier, page)
    BY <1>3, SamePlaceIsShown
<1>6. WallFits(catalog, tier, page')
    BY <1>3, <1>5, IInvParts DEF WallFits, OnWall
<1>7. QED
    BY <1>1, <1>2, <1>3, <1>4, <1>6, SamePlaceKeeps

\* Each dot is a page of the wall.
LEMMA PressPageDotKeeps ==
    ASSUME BrowsingIInv, NEW k \in 0 .. WallPages(catalog, tier) - 1, PressPageDot(k)
    PROVE  BrowsingIInv'
<1>1. WallPages(catalog, tier) \in Nat
    BY IInvParts, WallHasPages
<1>2. k \in Nat /\ k < WallPages(catalog, tier)
    BY <1>1
<1>3. QED
    BY <1>2, GoToPageKeeps DEF PressPageDot

\* A swipe goes to the page beside, where there is one.
LEMMA SwipeWallKeeps ==
    ASSUME BrowsingIInv, NEW g \in Gestures, SwipeWall(g)
    PROVE  BrowsingIInv'
<1> DEFINE n == WallPages(catalog, tier)
           w == page.wallPage
<1>1. /\ n \in Nat /\ w \in Nat /\ n > 1
      /\ WallTotal(catalog) \in Nat /\ (WallTotal(catalog) = 0 => n = 0)
    BY IInvParts, WallHasPages DEF SwipeWall, ShowPagination, Page
<1>2. PICK k \in ComputeSwipeDirection(SwipePower(g), w, n) : GoToPage(k)
    BY DEF SwipeWall
<1>3. OnWall(catalog, tier, page)
    BY <1>2 DEF GoToPage, Panel, OnWall
<1>4. w < n
    BY <1>1, <1>3, IInvParts DEF WallFits
<1> HIDE DEF n, w
<1>5. (k = w - 1 /\ w > 0) \/ (k = w + 1 /\ w < n - 1)
    BY <1>2 DEF ComputeSwipeDirection
<1>6. k \in Nat /\ k < n
    BY <1>1, <1>4, <1>5
<1>7. QED
    BY <1>2, <1>6, GoToPageKeeps DEF n

\* A sheet is opened on the wall, for one of its records, or closed.
LEMMA PeekKeeps ==
    ASSUME BrowsingIInv, NEW r \in Nat \cup { NoRecord }, NEW pending \in BOOLEAN,
           page' = [page EXCEPT !.peek = r, !.pending = pending],
           pending => page.pending,
           r # NoRecord => OnWall(catalog, tier, page) /\ r < WallTotal(catalog),
           UNCHANGED <<history, here, top, tier, catalog, storage>>
    PROVE  BrowsingIInv'
<1>1. page \in Page /\ storage \in Storage
    BY IInvParts
<1>2. /\ page' \in Page /\ SamePlace(page', page) /\ page'.discovered = page.discovered
      /\ page'.index = page.index /\ page'.edge = page.edge /\ page'.hint = page.hint
      /\ page'.wallPage = page.wallPage /\ page'.peek = r
      /\ page'.pending = pending
    BY <1>1 DEF Page, SamePlace
<1>3. HintFits(storage', page')
    BY <1>2, IInvParts DEF HintFits
<1>4. Stage(catalog, tier, page') = Stage(catalog, tier, page)
    BY <1>2, SamePlaceIsShown
<1>5. WallFits(catalog, tier, page')
    BY <1>2, <1>4, IInvParts DEF WallFits, OnWall
<1>6. QED
    BY <1>1, <1>2, <1>3, <1>5, SamePlaceKeeps

\* The sheet goes from record to record of the wall.
LEMMA PeekStepKeeps ==
    ASSUME BrowsingIInv, NEW r \in Nat \cup { NoRecord }, Peek(r),
           r # NoRecord => OnWall(catalog, tier, page) /\ r < WallTotal(catalog)
    PROVE  BrowsingIInv'
<1>1. page \in Page
    BY IInvParts
<1>2. [page EXCEPT !.peek = r] = [page EXCEPT !.peek = r, !.pending = page.pending]
    BY <1>1 DEF Page
<1>3. page.pending \in BOOLEAN
    BY <1>1 DEF Page
<1>4. QED
    BY <1>2, <1>3, PeekKeeps DEF Peek

\* A tap on a cover opens the sheet of a record that is there.
LEMMA HandleTileTapKeeps ==
    ASSUME BrowsingIInv, NEW r \in WallGrid, HandleTileTap(r)
    PROVE  BrowsingIInv'
<1>1. /\ WallTotal(catalog) \in Nat /\ VisibleRecords(catalog, tier) \in Nat
      /\ VisibleRecords(catalog, tier) <= WallTotal(catalog)
    BY IInvParts, WallHasPages
<1>2. r \in Nat /\ r < WallTotal(catalog)
  <2>1. CASE tier = "compact"
    <3>1. r \in 0 .. VisibleRecords(catalog, tier) - 1
        BY <2>1 DEF WallGrid, ChunkRecords
    <3>2. QED
        BY <1>1, <3>1
  <2>2. CASE tier # "compact"
    <3>1. r \in 0 .. WallTotal(catalog) - 1
        BY <2>2 DEF WallGrid, ChunkRecords
    <3>2. QED
        BY <1>1, <3>1
  <2>3. QED
      BY <2>1, <2>2
<1>3. OnWall(catalog, tier, page) /\ Peek(r)
    BY DEF HandleTileTap, Panel, OnWall
<1>4. QED
    BY <1>2, <1>3, PeekStepKeeps

\* Closing the sheet leaves the wall as it is.
LEMMA ClosePeekSheetKeeps ==
    ASSUME BrowsingIInv, ClosePeekSheet
    PROVE  BrowsingIInv'
BY PeekStepKeeps DEF ClosePeekSheet

\* The record of an address is one of the wall.
LEMMA OpenHighlightedKeeps ==
    ASSUME BrowsingIInv, OpenHighlighted
    PROVE  BrowsingIInv'
<1>1. PICK r \in 0 .. WallTotal(catalog) - 1 :
          page' = [page EXCEPT !.peek = r, !.pending = FALSE]
    BY DEF OpenHighlighted
<1>2. /\ page.pending /\ UNCHANGED <<history, here, top, tier, catalog, storage>>
    BY DEF OpenHighlighted
<1>3. OnWall(catalog, tier, page)
    BY <1>2, IInvParts DEF WallFits
<1>4. r \in Nat /\ r < WallTotal(catalog)
    BY IInvParts, TotalTyped
<1>5. QED
    BY <1>1, <1>2, <1>3, <1>4, PeekKeeps
-----------------------------------------------------------------------------
(* The invariant.                                                           *)

\* A first load has one entry, its own.
LEMMA InitEstablishes == Init => BrowsingIInv
<1> SUFFICES ASSUME Init PROVE BrowsingIInv
    OBVIOUS
<1>1. /\ here = 1 /\ top = 1 /\ tier \in Tiers /\ catalog \in Catalogs
      /\ storage \in Storage /\ 1 \in Slots
    BY SlotNumbers, BrowsingAssumption DEF Init, TierFromWidth, Tiers, Storage, Slots
<1>2. PICK e \in Links :
          /\ page = HighlightPending(catalog, tier, MountedPage(catalog, e), e)
          /\ history = [i \in Slots |-> IF i = 1
                           THEN HighlightTaken(catalog, tier, MountedPage(catalog, e), e)
                           ELSE NoEntry]
    BY DEF Init
<1>3. e \in Entry
    BY BrowsingAssumption
<1> DEFINE l == Loaded(catalog, e)
<1>4. history = [i \in Slots |-> IF i = 1 THEN l ELSE NoEntry]
    BY <1>2 DEF Loaded
<1>5. /\ l \in Entry /\ l.url = e.url
      /\ InitialActiveSlug(e) = NoCrate => InitialActiveSlug(l) = NoCrate
    BY <1>3, LoadedEntry
<1> HIDE DEF l
<1>6. history \in [Slots -> Entry] /\ history[here] = l
    BY <1>1, <1>4, <1>5, SlotNumbers
<1>7. /\ page \in Page
      /\ page.slug = InitialActiveSlug(e) /\ page.direct = (e.url # NoCrate)
      /\ ModeFits(catalog, page) /\ HintFits(storage, page)
      /\ CrateFits(catalog, tier, page) /\ WallFits(catalog, tier, page)
    BY <1>1, <1>2, <1>3, LoadFits
<1>8. TypeOK
    BY <1>1, <1>6, <1>7 DEF TypeOK
<1>9. FloorSurvivesReload /\ DirectIsAddressed
    BY <1>5, <1>6, <1>7 DEF FloorSurvivesReload, DirectIsAddressed
<1>10. BackLeavesCrates /\ CratesAreAhead
    BY <1>1, SlotNumbers DEF BackLeavesCrates, CratesAreAhead
<1>11. QED
    BY <1>7, <1>8, <1>9, <1>10 DEF BrowsingIInv, HistoryInv, PageInv

\* Every step of the page keeps the invariant.
LEMMA NextKeeps == BrowsingIInv /\ [Next]_vars => BrowsingIInv'
<1> SUFFICES ASSUME BrowsingIInv, [Next]_vars PROVE BrowsingIInv'
    OBVIOUS
<1>1. ASSUME NEW c \in Catalogs, NEW e \in Links, Visit(c, e) PROVE BrowsingIInv'
    BY <1>1, VisitKeeps
<1>2. ASSUME NEW c \in Catalogs, Reload(c) PROVE BrowsingIInv'
    BY <1>2, ReloadKeeps
<1>3. ASSUME NEW c \in Catalogs, NEW i \in Slots, PopState(c, i) PROVE BrowsingIInv'
    BY <1>3, PopStateKeeps
<1>4. CASE SkipToContent \/ RewriteEntry
    BY <1>4, SkipToContentKeeps, RewriteEntryKeeps
<1>5. ASSUME NEW width \in Widths, Resize(width) PROVE BrowsingIInv'
    BY <1>5, ResizeKeeps
<1>6. CASE PressBack \/ HandleWallSelected
    BY <1>6, PressBackKeeps, HandleWallSelectedKeeps
<1>7. ASSUME NEW m \in { "featured", "genres" }, HandleBrowseModeSelected(m)
      PROVE  BrowsingIInv'
    BY <1>7, HandleBrowseModeSelectedKeeps
<1>8. ASSUME NEW i \in DOMAIN Tabs, SelectTab(i) PROVE BrowsingIInv'
    BY <1>8, SelectTabKeeps
<1>9. ASSUME NEW i \in TabStops, NEW forward \in BOOLEAN, PressArrowOnTab(i, forward)
      PROVE  BrowsingIInv'
    BY <1>9, PressArrowOnTabKeeps
<1>10. ASSUME NEW dir \in Directions, PressArrow(dir) \/ PressNavigationButton(dir)
       PROVE  BrowsingIInv'
    BY <1>10, PressArrowKeeps
<1>11. ASSUME NEW g \in Gestures, DragCard(g) \/ SwipeWall(g) PROVE BrowsingIInv'
    BY <1>11, DragCardKeeps, SwipeWallKeeps
<1>12. CASE FlipCard
    BY <1>12, FlipCardKeeps
<1>13. ASSUME NEW k \in 0 .. WallPages(catalog, tier) - 1, PressPageDot(k)
       PROVE  BrowsingIInv'
    BY <1>13, PressPageDotKeeps
<1>14. ASSUME NEW r \in WallGrid, HandleTileTap(r) PROVE BrowsingIInv'
    BY <1>14, HandleTileTapKeeps
<1>15. CASE ClosePeekSheet \/ OpenHighlighted
    BY <1>15, ClosePeekSheetKeeps, OpenHighlightedKeeps
<1>16. CASE UNCHANGED vars
  <2>1. UNCHANGED <<history, here, top, tier, catalog, storage, page>>
      BY <1>16 DEF vars
  <2>2. PageInv'
      BY <2>1, IInvParts DEF PageInv
  <2>3. HistoryType' /\ HistoryInv'
      BY <2>1, SameCrateKeeps
  <2>4. QED
      BY <2>1, <2>2, <2>3, IInvParts, KeptParts
<1>17. QED
    BY <1>1, <1>2, <1>3, <1>4, <1>5, <1>6, <1>7, <1>8, <1>9, <1>10, <1>11, <1>12,
       <1>13, <1>14, <1>15, <1>16 DEF Next

\* The inductive invariant holds of every reachable state.
THEOREM BrowsingIsInvariant == Spec => []BrowsingIInv
BY InitEstablishes, NextKeeps, PTL DEF Spec

-----------------------------------------------------------------------------
(* The properties.                                                          *)

\* What a page teaches agrees with what is learned, whatever is on screen.
LEMMA HintsFollow == ASSUME BrowsingIInv PROVE HintsAgree
<1>1. /\ page.hint => ~(storage.usable /\ storage.learned)
      /\ storage.usable /\ storage.flipped => page.discovered
    BY IInvParts DEF HintFits
<1>2. IsLessonLearned <=> storage.usable /\ storage.learned
    BY DEF IsLessonLearned, SafeGetStorage
<1>3. QED
    BY <1>1, <1>2, Zenon DEF HintsAgree, LoadFlipDiscovered, GestureHint, LessonEligible,
                             InspectionHint

\* Tabs without repetition have one stop: the open crate's or the first.
LEMMA TabsFollow == ASSUME BrowsingIInv PROVE TabsAreReachable
<1> SUFFICES ASSUME Tabs # <<>> PROVE Cardinality(TabStops) = 1
    BY DEF TabsAreReachable
<1>1. Tabs \in Seq(Slugs) /\ Distinct(Tabs)
    BY IInvParts, TabsTyped
<1>2. 1 \in DOMAIN Tabs
    BY <1>1, CrateList
<1>3. TabStops = { i \in DOMAIN Tabs : Tabs[i] = page.slug \/ (~HasSelection /\ i = 1) }
    BY DEF TabStops, TabIndexValue
<1>4. \E i : TabStops = { i }
  <2>1. CASE HasSelection
    <3>1. PICK i \in DOMAIN Tabs : Tabs[i] = page.slug
        BY <2>1 DEF HasSelection, Elems
    <3>2. \A j \in DOMAIN Tabs : Tabs[j] = page.slug => j = i
        BY <1>1, <3>1 DEF Distinct
    <3>3. TabStops = { i }
        BY <1>3, <2>1, <3>1, <3>2
    <3>4. QED
        BY <3>3
  <2>2. CASE ~HasSelection
    <3>1. \A j \in DOMAIN Tabs : Tabs[j] # page.slug
        BY <2>2 DEF HasSelection, Elems
    <3>2. TabStops = { 1 }
        BY <1>2, <1>3, <2>2, <3>1
    <3>3. QED
        BY <3>2
  <2>3. QED
      BY <2>1, <2>2
<1>5. QED
    BY <1>4, FS_Singleton

\* The card of the active record is in the window around it.
LEMMA ActiveInWindow ==
    ASSUME NEW total \in Nat, NEW i \in Nat, i < total
    PROVE  i \in BuildCrateWindow(total, i, 2)
<1>1. ClampIndex(i, total - 1) = i
    BY DEF ClampIndex
<1>2. ClampIndex(i - 2, total - 1) \in Int /\ ClampIndex(i - 2, total - 1) <= i
    BY DEF ClampIndex
<1>3. ClampIndex(i + 2, total - 1) \in Int /\ i <= ClampIndex(i + 2, total - 1)
    BY DEF ClampIndex
<1>4. BuildCrateWindow(total, i, 2) =
        ClampIndex(i - 2, total - 1) .. ClampIndex(i + 2, total - 1)
    BY <1>1 DEF BuildCrateWindow
<1>5. QED
    BY <1>2, <1>3, <1>4

\* The card, the notice of an end, the page of the wall and the sheet are of
\* records there are.
LEMMA RecordsFollow == ASSUME BrowsingIInv PROVE ShownRecordExists
<1>1. Total(catalog, page) \in Nat /\ page.index \in Nat /\ page.wallPage \in Nat
    BY IInvParts, TotalTyped DEF Page
<1>2. CrateContent <=> HasContent(catalog, tier, page)
    BY DEF CrateContent, InCrate, Panel, HasContent
<1>3. ASSUME CrateContent
      PROVE  /\ page.index < Total(catalog, page) /\ ActiveCards = { page.index }
             /\ page.edge = "front" => page.index = 0
             /\ page.edge = "deeper" => page.index = Total(catalog, page) - 1
  <2>1. /\ page.index < Total(catalog, page)
        /\ page.edge = "front" => page.index = 0
        /\ page.edge = "deeper" => page.index = Total(catalog, page) - 1
      BY <1>2, <1>3, IInvParts DEF CrateFits
  <2>2. page.index \in CrateWindow
      BY <1>1, <2>1, ActiveInWindow DEF CrateWindow
  <2>3. ActiveCards = { page.index }
      BY <1>3, <2>2 DEF ActiveCards
  <2>4. QED
      BY <2>1, <2>3
<1>4. Panel = "wall" <=> OnWall(catalog, tier, page)
    BY DEF Panel, OnWall
<1>5. ASSUME Panel = "wall", WallTotal(catalog) > 0
      PROVE  WallGrid # {}
  <2> DEFINE n == VisibleRecords(catalog, tier)
             chunk == IF tier = "compact" THEN TilesPerPage ELSE WallTotal(catalog)
             k == page.wallPage
  <2>1. /\ WallTotal(catalog) \in Nat /\ n \in Nat
        /\ k < WallPages(catalog, tier)
      BY <1>4, <1>5, IInvParts, WallHasPages DEF WallFits
  <2>2. n > 0 /\ (tier # "compact" => n = WallTotal(catalog))
      BY <1>5, BrowsingAssumption DEF VisibleRecords
  <2>3. WallPages(catalog, tier) = PageCount(n, chunk)
      BY DEF WallPages
  <2>4. WallGrid = ChunkRecords(n, chunk, k)
      BY <2>2 DEF WallGrid
  <2>5. n \in Nat \ {0} /\ chunk \in Nat \ {0}
      BY <1>5, <2>1, <2>2, BrowsingAssumption
  <2> HIDE DEF n, chunk, k
  <2>6. PageCount(n, chunk) \in Nat
      BY <2>5, PagesHoldRecords
  <2>7. k \in 0 .. PageCount(n, chunk) - 1
      BY <1>1, <2>1, <2>3, <2>6 DEF k
  <2>8. QED
      BY <2>4, <2>5, <2>7, PagesHoldRecords
<1>6. page.peek # NoRecord => Panel = "wall" /\ page.peek < WallTotal(catalog)
    BY <1>4, IInvParts DEF WallFits
<1>7. QED
    BY <1>3, <1>5, <1>6 DEF ShownRecordExists

\* A mode that has crates shows one: its panel is empty only without crates.
LEMMA PanelFollows == ASSUME BrowsingIInv PROVE PanelShowsCrate
<1>1. Panel = "empty" => BrowsePanel(catalog, page) = "empty"
    BY StageShown DEF Panel
<1>2. QED
    BY <1>1, IInvParts DEF PanelShowsCrate, BrowsePanel, ActiveCrateInPanel, ModeFits

\* A page, its address and its history agree: types, a floor that survives a
\* reload and crates that are ahead of no floor but their own, both but for the
\* skip link under the address of a crate, views of an address that have one, hints that agree with what is learned, tabs the keyboard reaches.
THEOREM BrowsingIsSound == Spec => []BrowsingInv
<1>1. BrowsingIInv => BrowsingInv
    BY HintsFollow, TabsFollow DEF BrowsingIInv, HistoryInv, BrowsingInv
<1>2. QED
    BY <1>1, BrowsingIsInvariant, PTL

\* One Back leaves the crates, whatever the shopper did among them, unless the
\* skip link was used under the address of a crate.
THEOREM BackLeadsToTheFloor == Spec => []BackLeavesCrates
<1>1. BrowsingIInv => BackLeavesCrates
    BY DEF BrowsingIInv, HistoryInv
<1>2. QED
    BY <1>1, BrowsingIsInvariant, PTL

\* The mode and the crate, kept by two hooks, agree on what the panel shows.
THEOREM PanelsShowCrates == Spec => []PanelShowsCrate
<1>1. BrowsingIInv => PanelShowsCrate
    BY PanelFollows
<1>2. QED
    BY <1>1, BrowsingIsInvariant, PTL

\* The record on screen exists, whatever crate, window or catalog came in between.
THEOREM ShownRecordsExist == Spec => []ShownRecordExists
<1>1. BrowsingIInv => ShownRecordExists
    BY RecordsFollow
<1>2. QED
    BY <1>1, BrowsingIsInvariant, PTL
=============================================================================
