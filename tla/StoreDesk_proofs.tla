-------------------------- MODULE StoreDesk_proofs --------------------------
(***************************************************************************)
(* For all stores, searches, thresholds and numbers of requests: the four  *)
(* readings of a store's health agree, what a filter lets through is on    *)
(* the screen, and a store that is stuck is offered the job it lacks.      *)
(***************************************************************************)
EXTENDS StoreDesk, FiniteSetTheorems, WellFoundedInduction, TLAPS

-----------------------------------------------------------------------------
(* The invariant, part by part.                                            *)

\* A card of the healthy shows no bar at work.
CardFits(card) == card.health = "healthy" => JobProgressBars(card) = {}

\* What a page knows of the stores was once read from their rows.
IsPage(p) == ByStore(p, Card) /\ \A s \in DOMAIN p : CardFits(p[s])

\* Every tick is an event.
ClockInv == spent \in 0 .. MaxEvents /\ now \in StaleAfter .. StaleAfter + spent

RowsInv == ByStore(rows, Row)

IsJobs(js) ==
    IsFiniteSet(js) /\ \A j \in js : j \in Job /\ (j.at = "queued" <=> j.since = Never)

JobsInv == IsJobs(jobs)

RequestWith(page) ==
    [kind : { "reload", "sync", "enrich", "destroy" }, store : Stores, nr : Nat,
     live : BOOLEAN, at : { "sent", "served", "failed" }, page : {page}]

IsSent(q) ==
    /\ q \in RequestWith(q.page)
    /\ ~q.live => q.at = "sent"
    /\ IsPage(q.page)

IsRequests(qs) ==
    /\ IsFiniteSet(qs) /\ Cardinality(qs) <= MaxRequests
    /\ \A q \in qs : IsSent(q)

RequestsInv == IsRequests(requests)

\* The stores and the controls of the admin's page, without what is drawn.
IsList(d) ==
    /\ d = [shown |-> d.shown, filter |-> d.filter, query |-> d.query,
            expanded |-> d.expanded, menus |-> d.menus]
    /\ IsPage(d.shown) /\ d.filter \subseteq FilterKeys /\ d.query \in Searches

FilterShows(d) == d.filter # {} => FilteredStores(d) = ExpandedContent(d)

IsDesk(d) ==
    /\ IsList(d)
    /\ d.expanded \in [Mounted(d) -> BOOLEAN] /\ d.menus \subseteq ExpandedContent(d)
    /\ FilterShows(d)

DeskInv == IsDesk(desk)

SellerInv ==
    /\ seller \in Seller
    /\ seller.submitting <=> seller.request \in { "sent", "answered", "failed" }

DeskIInv == ClockInv /\ RowsInv /\ JobsInv /\ RequestsInv /\ DeskInv /\ SellerInv

-----------------------------------------------------------------------------
(* Sets and numbers.                                                       *)

\* The numbers among the constants.
LEMMA DeskNumbers ==
    StaleAfter \in Nat \ {0} /\ MaxRequests \in Nat \ {0} /\ MaxEvents \in Nat
BY DeskAssumption

\* An image of a finite set is finite and not larger.
LEMMA ImageBound ==
    ASSUME NEW S, IsFiniteSet(S), NEW f, f = [x \in S |-> f[x]]
    PROVE  /\ IsFiniteSet({ f[x] : x \in S })
           /\ Cardinality({ f[x] : x \in S }) <= Cardinality(S)
<1> DEFINE T == { f[x] : x \in S }
<1>1. f \in Surjection(S, T)
    BY DEF Surjection
<1> HIDE DEF T
<1>2. QED
    BY <1>1, FS_Surjection DEF T

\* A finite set with one of its elements replaced is not larger.
LEMMA ReplaceBound ==
    ASSUME NEW S, IsFiniteSet(S), NEW x \in S, NEW y
    PROVE  /\ IsFiniteSet((S \ {x}) \cup {y})
           /\ Cardinality((S \ {x}) \cup {y}) <= Cardinality(S)
           /\ IsFiniteSet(S \ {x}) /\ Cardinality(S \ {x}) <= Cardinality(S)
<1>1. Cardinality(S) \in Nat
    BY FS_CardinalityType
<1>2. IsFiniteSet(S \ {x}) /\ Cardinality(S \ {x}) = Cardinality(S) - 1
    BY FS_RemoveElement
<1>3. Cardinality(S \ {x}) \in Nat
    BY <1>2, FS_CardinalityType
<1>4. /\ IsFiniteSet((S \ {x}) \cup {y})
      /\ Cardinality((S \ {x}) \cup {y}) =
            IF y \in S \ {x} THEN Cardinality(S \ {x}) ELSE Cardinality(S \ {x}) + 1
    BY <1>2, FS_AddElement
<1>5. QED
    BY <1>1, <1>2, <1>3, <1>4

\* A set of naturals has a least one.
LEMMA LeastNat ==
    ASSUME NEW T \in SUBSET Nat, T # {}
    PROVE  \E x \in T : \A y \in T : x <= y
<1> DEFINE less == OpToRel(<, Nat)
<1>1. \A x, y \in Nat : <<y, x>> \in less <=> y < x
    BY DEF OpToRel
<1>2. IsWellFoundedOn(less, Nat)
    BY NatLessThanWellFounded
<1> HIDE DEF less
<1>3. PICK x \in T : \A y \in T : ~(<<y, x>> \in less)
    BY <1>2, WFMin, Zenon
<1>4. ASSUME NEW y \in T PROVE x <= y
    <2>1. x \in Nat /\ y \in Nat /\ ~(y < x)
        BY <1>1, <1>3
    <2>2. QED
        BY <2>1
<1>5. QED
    BY <1>4

\* Of a finite set of taken numbers there is one that is free.
LEMMA UnusedIsFree ==
    ASSUME NEW T, IsFiniteSet(T)
    PROVE  Unused(T) \in Nat /\ Unused(T) \notin T
<1> DEFINE N == Cardinality(T) + 1
           Free == { n \in 1 .. N : n \notin T }
<1>1. Cardinality(T) \in Nat
    BY FS_CardinalityType
<1>2. Free # {}
    <2>1. SUFFICES ASSUME 1 .. N \subseteq T PROVE FALSE
        OBVIOUS
    <2>2. Cardinality(1 .. N) = N
        BY <1>1, FS_Interval
    <2>3. Cardinality(1 .. N) <= Cardinality(T)
        BY <2>1, FS_Subset
    <2>4. QED
        BY <1>1, <2>2, <2>3
<1>3. Free \in SUBSET Nat
    BY <1>1
<1>4. PICK n \in Free : \A m \in Free : n <= m
    BY <1>2, <1>3, LeastNat
<1>5. n \in 1 .. N /\ n \notin T /\ \A m \in 1 .. n - 1 : m \in T
    <2>1. n \in 1 .. N /\ n \notin T
        BY <1>4
    <2>2. ASSUME NEW m \in 1 .. n - 1, m \notin T PROVE FALSE
        <3>1. m \in Free /\ m < n
            BY <1>1, <2>1, <2>2
        <3>2. QED
            BY <1>1, <1>4, <2>1, <3>1
    <2>3. QED
        BY <2>1, <2>2
<1>6. Unused(T) \in 1 .. N /\ Unused(T) \notin T
    BY <1>5 DEF Unused
<1>7. QED
    BY <1>1, <1>6

-----------------------------------------------------------------------------
(* Cards.                                                                  *)

\* What the server tells of a row is a card that fits.
LEMMA PropsFit ==
    ASSUME NEW r \in Row
    PROVE  Props(r) \in Card /\ CardFits(Props(r))
<1>1. r.status \in [Kinds -> { "idle", "working", "failed" }]
    BY DEF Row
<1>2. Health(r) \in HealthKeys
    BY DEF Health, HealthKeys
<1>3. Health(r) = "healthy" => ~Processing(r)
    BY DEF Health
<1>4. Props(r).status = r.status /\ Props(r).health = Health(r)
    BY DEF Props
<1>5. CardFits(Props(r))
    BY <1>3, <1>4 DEF CardFits, JobProgressBars, Processing
<1>6. QED
    BY <1>1, <1>2, <1>5 DEF Props, Card

\* Rows that are read make a page.
LEMMA PageIsRead ==
    ASSUME RowsInv, NEW S \in SUBSET DOMAIN rows
    PROVE  IsPage([s \in S |-> Props(rows[s])])
<1>1. ASSUME NEW s \in S
      PROVE  s \in Stores /\ Props(rows[s]) \in Card /\ CardFits(Props(rows[s]))
    <2>1. s \in Stores /\ rows[s] \in Row
        BY DEF RowsInv, ByStore
    <2>2. QED
        BY <2>1, PropsFit
<1>2. QED
    BY <1>1 DEF IsPage, ByStore

\* So does reading all of them.
LEMMA ActivePage == RowsInv => IsPage(ActiveStores)
BY PageIsRead DEF ActiveStores
-----------------------------------------------------------------------------
(* The list: what is drawn shows what the filter lets through.             *)

\* Sections depend on the stores, the search and the filter.
LEMMA SameList ==
    ASSUME NEW d, NEW e, d.shown = e.shown, d.query = e.query, d.filter = e.filter
    PROVE  /\ FilteredStores(d) = FilteredStores(e)
           /\ GroupBySection(d) = GroupBySection(e) /\ Mounted(d) = Mounted(e)
           /\ d.expanded = e.expanded => ExpandedContent(d) = ExpandedContent(e)
<1>1. FilteredStores(d) = FilteredStores(e)
    BY DEF FilteredStores
<1>2. GroupBySection(d) = GroupBySection(e)
    BY <1>1 DEF GroupBySection
<1>3. Mounted(d) = Mounted(e)
    BY <1>2 DEF Mounted
<1>4. QED
    BY <1>1, <1>2, <1>3 DEF ExpandedContent

\* Every card has a section.
LEMMA SectionIsOne == ASSUME NEW card PROVE SectionOf(card) \in Sections
BY DEF SectionOf, Sections

\* A store on the list is a store of the page.
LEMMA FilteredIsShown ==
    ASSUME NEW d, NEW s \in FilteredStores(d)
    PROVE  s \in DOMAIN d.shown
BY DEF FilteredStores, ApplyHealthFilter, UseSearchFilter

\* A store of a page has a card that fits.
LEMMA ShownCard ==
    ASSUME NEW p, IsPage(p), NEW s \in DOMAIN p
    PROVE  s \in Stores /\ p[s] \in Card /\ p[s].health \in HealthKeys /\ CardFits(p[s])
BY DEF IsPage, ByStore, Card

\* A filter names the section of every store it lets through.
LEMMA FilterNamesSection ==
    ASSUME NEW d, IsList(d), d.filter # {}, NEW s \in FilteredStores(d)
    PROVE  SectionOf(d.shown[s]) \in d.filter
<1> DEFINE h == d.shown[s].health
<1>1. h \in HealthKeys /\ d.filter \subseteq FilterKeys
    BY FilteredIsShown, ShownCard DEF IsList
<1>2. h \in d.filter \/ ("attention" \in d.filter /\ h \in AttentionHealthKeys)
    BY DEF FilteredStores, ApplyHealthFilter
<1>3. SectionOf(d.shown[s]) =
        IF h \in AttentionHealthKeys THEN "attention"
        ELSE IF h = "processing" THEN "processing" ELSE "healthy"
    BY DEF SectionOf, AttentionHealthKeys
<1> HIDE DEF h
<1>4. QED
    BY <1>1, <1>2, <1>3 DEF HealthKeys, FilterKeys, AttentionHealthKeys

\* Once the sections follow the filter, it shows what it lets through.
LEMMA FollowedFilterShows ==
    ASSUME NEW d, IsList(d), d.filter # {},
           d.expanded = [k \in Mounted(d) |-> k \in d.filter]
    PROVE  FilteredStores(d) = ExpandedContent(d)
<1>1. ASSUME NEW s \in FilteredStores(d) PROVE s \in ExpandedContent(d)
    <2> DEFINE k == SectionOf(d.shown[s])
    <2>1. k \in Sections /\ k \in d.filter
        BY SectionIsOne, FilterNamesSection
    <2>2. s \in GroupBySection(d)[k]
        BY <2>1 DEF GroupBySection
    <2> HIDE DEF k
    <2>3. k \in Mounted(d)
        BY <2>1, <2>2 DEF Mounted
    <2>4. k \in DOMAIN d.expanded /\ d.expanded[k]
        BY <2>1, <2>3
    <2>5. QED
        BY <2>2, <2>4 DEF ExpandedContent
<1>2. ASSUME NEW s \in ExpandedContent(d) PROVE s \in FilteredStores(d)
    <2>1. PICK k \in DOMAIN d.expanded : s \in GroupBySection(d)[k]
        BY <1>2 DEF ExpandedContent
    <2>2. k \in Sections
        BY <2>1 DEF Mounted
    <2>3. QED
        BY <2>1, <2>2 DEF GroupBySection
<1>3. QED
    BY <1>1, <1>2

\* The page drawn anew is a desk, whatever it showed before.
LEMMA RenderedIsDesk ==
    ASSUME NEW d, IsList(d), NEW old,
           \A k \in DOMAIN old.expanded : old.expanded[k] \in BOOLEAN
    PROVE  IsDesk(Rendered(d, old))
<1> DEFINE sections == HealthSections(d, old.expanded)
           drawn == [d EXCEPT !.expanded = sections]
           left == { s \in drawn.menus : /\ s \in ExpandedContent(drawn)
                                         /\ SectionOf(d.shown[s]) = SectionOf(old.shown[s]) }
           new == Rendered(d, old)
<1>1. sections \in [Mounted(d) -> BOOLEAN]
    <2>1. ASSUME NEW k \in Mounted(d) PROVE sections[k] \in BOOLEAN
        <3>1. CASE d.filter # {}
            BY <3>1 DEF HealthSections
        <3>2. CASE d.filter = {} /\ k \in DOMAIN old.expanded
            BY <3>2 DEF HealthSections
        <3>3. CASE d.filter = {} /\ k \notin DOMAIN old.expanded
            BY <3>3 DEF HealthSections, DefaultExpanded
        <3>4. QED
            BY <3>1, <3>2, <3>3
    <2>2. sections = [k \in Mounted(d) |-> sections[k]]
        BY DEF HealthSections
    <2> HIDE DEF sections
    <2>3. QED
        BY <2>1, <2>2
<1>2. d.filter # {} => sections = [k \in Mounted(d) |-> k \in d.filter]
    BY DEF HealthSections
<1>3. new = [drawn EXCEPT !.menus = left]
    BY DEF Rendered
<1> HIDE DEF sections, left
<1>4. drawn = [shown |-> d.shown, filter |-> d.filter, query |-> d.query,
               expanded |-> sections, menus |-> d.menus]
    BY DEF IsList
<1>5. new = [shown |-> d.shown, filter |-> d.filter, query |-> d.query,
             expanded |-> sections, menus |-> left]
    BY <1>3, <1>4
<1>6. left \subseteq ExpandedContent(drawn)
    BY DEF left
<1> HIDE DEF new, drawn
<1>7. /\ new.shown = d.shown /\ new.filter = d.filter /\ new.query = d.query
      /\ new.expanded = sections /\ new.menus = left
    BY <1>5
<1>8. IsList(new)
    BY <1>5, <1>7 DEF IsList
<1>9. ExpandedContent(new) = ExpandedContent(drawn)
    BY <1>4, <1>5, SameList
<1>10. Mounted(new) = Mounted(d)
    BY <1>7, SameList
<1>11. FilterShows(new)
    BY <1>2, <1>7, <1>8, <1>10, FollowedFilterShows DEF FilterShows
<1>12. IsDesk(new)
    BY <1>1, <1>6, <1>7, <1>8, <1>9, <1>10, <1>11 DEF IsDesk
<1>13. QED
    BY <1>12 DEF new

\* Fewer menus leave the rest as it is.
LEMMA FewerMenus ==
    ASSUME NEW d, IsDesk(d), NEW m \in SUBSET d.menus
    PROVE  IsDesk([d EXCEPT !.menus = m])
<1> DEFINE e == [d EXCEPT !.menus = m]
<1>1. e = [shown |-> d.shown, filter |-> d.filter, query |-> d.query,
           expanded |-> d.expanded, menus |-> m]
    BY DEF IsDesk, IsList
<1> HIDE DEF e
<1>2. /\ e.shown = d.shown /\ e.filter = d.filter /\ e.query = d.query
      /\ e.expanded = d.expanded /\ e.menus = m
    BY <1>1
<1>3. IsList(e)
    BY <1>1, <1>2 DEF IsList, IsDesk
<1>4. /\ FilteredStores(e) = FilteredStores(d) /\ Mounted(e) = Mounted(d)
      /\ ExpandedContent(e) = ExpandedContent(d)
    BY <1>2, SameList
<1>5. IsDesk(e)
    BY <1>2, <1>3, <1>4 DEF IsDesk, FilterShows
<1>6. QED
    BY <1>5 DEF e
-----------------------------------------------------------------------------
(* Jobs and requests.                                                      *)

\* Jobs of stores are added with numbers of their own.
LEMMA QueuedIsJobs ==
    ASSUME NEW js, IsJobs(js), NEW kind \in Kinds, NEW ss \in SUBSET Stores
    PROVE  IsJobs(Queued(js, kind, ss))
<1> DEFINE waiting(s) == { i \in js : i.kind = kind /\ i.store = s }
           taken(s) == { j.nr : j \in waiting(s) }
           new(s) == [kind |-> kind, store |-> s, at |-> "queued", since |-> Never,
                      nr |-> Unused(taken(s))]
           added == { new(s) : s \in ss }
<1>1. Queued(js, kind, ss) = js \cup added
    BY DEF Queued
<1>2. ASSUME NEW s \in ss PROVE Unused(taken(s)) \in Nat
    <2> DEFINE f == [j \in waiting(s) |-> j.nr]
    <2>1. IsFiniteSet(waiting(s))
        BY FS_Subset DEF IsJobs
    <2>2. taken(s) = { f[j] : j \in waiting(s) }
        OBVIOUS
    <2>3. IsFiniteSet({ f[j] : j \in waiting(s) })
        <3> HIDE DEF waiting
        <3>1. f = [j \in waiting(s) |-> f[j]]
            OBVIOUS
        <3> HIDE DEF f
        <3>2. QED
            BY <2>1, <3>1, ImageBound
    <2>4. IsFiniteSet(taken(s))
        BY <2>2, <2>3
    <2> HIDE DEF taken
    <2>5. QED
        BY <2>4, UnusedIsFree
<1> HIDE DEF taken
<1>3. ASSUME NEW s \in ss
      PROVE  new(s) \in Job /\ (new(s).at = "queued" <=> new(s).since = Never)
    BY <1>2, DeskAssumption DEF Job, Times, Never
<1>4. IsFiniteSet(added)
    <2> DEFINE f == [s \in ss |-> new(s)]
    <2>1. IsFiniteSet(ss)
        BY FS_Subset, DeskAssumption
    <2>2. added = { f[s] : s \in ss }
        OBVIOUS
    <2>3. f = [s \in ss |-> f[s]]
        OBVIOUS
    <2> HIDE DEF f
    <2>4. QED
        BY <2>1, <2>2, <2>3, ImageBound
<1>5. ASSUME NEW j \in added PROVE j \in Job /\ (j.at = "queued" <=> j.since = Never)
    <2>1. PICK s \in ss : j = new(s)
        OBVIOUS
    <2> HIDE DEF new
    <2>2. QED
        BY <1>3, <2>1
<1> HIDE DEF added
<1>6. QED
    BY <1>1, <1>4, <1>5, FS_Union DEF IsJobs

\* A job taken out, and perhaps put back as another.
LEMMA JobsChange ==
    ASSUME NEW js, IsJobs(js), NEW j \in js
    PROVE  /\ IsJobs(js \ {j})
           /\ \A i : i \in Job /\ (i.at = "queued" <=> i.since = Never)
                => IsJobs((js \ {j}) \cup {i})
BY ReplaceBound DEF IsJobs

\* The page that follows what a request has done.
LEMMA AnsweredIsRequests ==
    ASSUME RequestsInv, NEW q \in requests, NEW page, IsPage(page)
    PROVE  IsRequests(Answered(q, page))
<1> DEFINE a == [q EXCEPT !.at = "served", !.page = page]
<1>1. IsSent(q)
    BY DEF RequestsInv, IsRequests
<1>2. q.live => IsSent(a)
    <2>1. q \in RequestWith(q.page)
        BY <1>1 DEF IsSent
    <2>2. a \in RequestWith(page) /\ a.page = page
        BY <2>1 DEF RequestWith
    <2>3. q.live => a.live
        BY <2>1 DEF RequestWith
    <2> HIDE DEF a
    <2>4. QED
        BY <2>2, <2>3 DEF IsSent
<1>3. /\ Cardinality(requests) \in Nat
      /\ IsFiniteSet((requests \ {q}) \cup {a}) /\ IsFiniteSet(requests \ {q})
      /\ Cardinality((requests \ {q}) \cup {a}) <= Cardinality(requests)
      /\ Cardinality(requests \ {q}) <= Cardinality(requests)
    BY ReplaceBound, FS_CardinalityType DEF RequestsInv, IsRequests
<1>4. Cardinality((requests \ {q}) \cup {a}) \in Nat /\ Cardinality(requests \ {q}) \in Nat
    BY <1>3, FS_CardinalityType
<1>5. Answered(q, page) = IF q.live THEN (requests \ {q}) \cup {a} ELSE requests \ {q}
    BY DEF Answered
<1> HIDE DEF a
<1>6. CASE q.live
    BY <1>2, <1>3, <1>4, <1>5, <1>6, DeskAssumption DEF IsRequests, RequestsInv
<1>7. CASE ~q.live
    BY <1>3, <1>4, <1>5, <1>7, DeskAssumption DEF IsRequests, RequestsInv
<1>8. QED
    BY <1>6, <1>7

\* A request less.
LEMMA OneLess ==
    ASSUME RequestsInv, NEW q \in requests
    PROVE  IsRequests(requests \ {q})
<1>1. /\ IsFiniteSet(requests \ {q}) /\ Cardinality(requests \ {q}) <= Cardinality(requests)
      /\ Cardinality(requests) \in Nat /\ Cardinality(requests \ {q}) \in Nat
    BY ReplaceBound, FS_CardinalityType, FS_RemoveElement DEF RequestsInv, IsRequests
<1>2. QED
    BY <1>1, DeskAssumption DEF RequestsInv, IsRequests

\* A request more, where there is room for it.
LEMMA OneMore ==
    ASSUME NEW qs, IsRequests(qs), Cardinality(qs) < MaxRequests,
           NEW q, IsSent(q)
    PROVE  IsRequests(qs \cup {q})
<1>1. Cardinality(qs) \in Nat
    BY FS_CardinalityType DEF IsRequests
<1>2. /\ IsFiniteSet(qs \cup {q})
      /\ Cardinality(qs \cup {q}) = IF q \in qs THEN Cardinality(qs) ELSE Cardinality(qs) + 1
    BY FS_AddElement DEF IsRequests
<1>3. QED
    BY <1>1, <1>2, DeskAssumption DEF IsRequests

\* A request that is not answered yet carries the empty page.
LEMMA NoPageIsPage == IsPage(NoPage)
BY DEF NoPage, IsPage, ByStore

\* A new request has a number that no other one has.
LEMMA SendIsSent ==
    ASSUME RequestsInv, NEW kind \in { "reload", "sync", "enrich", "destroy" },
           NEW s \in Stores
    PROVE  IsSent(Send(kind, s))
<1> DEFINE f == [q \in requests |-> q.nr]
           n == Unused({ q.nr : q \in requests })
<1>1. { q.nr : q \in requests } = { f[q] : q \in requests }
    OBVIOUS
<1>2. f = [q \in requests |-> f[q]]
    OBVIOUS
<1> HIDE DEF f
<1>3. IsFiniteSet({ q.nr : q \in requests })
    <2>1. IsFiniteSet(requests)
        BY DEF RequestsInv, IsRequests
    <2>2. IsFiniteSet({ f[q] : q \in requests })
        BY <1>2, <2>1, ImageBound
    <2>3. QED
        BY <1>1, <2>2
<1>4. n \in Nat
    BY <1>3, UnusedIsFree
<1>5. Send(kind, s) = [kind |-> kind, store |-> s, live |-> TRUE, at |-> "sent",
                       page |-> NoPage, nr |-> n]
    BY DEF Send
<1> HIDE DEF n
<1>6. Send(kind, s) \in RequestWith(NoPage)
    BY <1>4, <1>5 DEF RequestWith
<1>7. Send(kind, s).live /\ Send(kind, s).page = NoPage
    BY <1>5
<1>8. QED
    BY <1>6, <1>7, NoPageIsPage DEF IsSent

\* Nobody waits for the request any more.
Left(q) == [q EXCEPT !.live = FALSE]

\* Only requests without an answer are left behind.
LEMMA LeftIsSent ==
    ASSUME NEW q, IsSent(q), q.at = "sent"
    PROVE  IsSent(Left(q))
<1>1. q \in RequestWith(q.page)
    BY DEF IsSent
<1>2. Left(q) \in RequestWith(q.page)
    BY <1>1 DEF Left, RequestWith
<1>3. Left(q).at = "sent" /\ Left(q).page = q.page
    BY <1>1 DEF Left, RequestWith
<1>4. QED
    BY <1>2, <1>3 DEF IsSent

\* Some of the requests, some of them left behind.
LEMMA LeftBehind ==
    ASSUME RequestsInv, NEW P \in SUBSET requests, NEW f,
           f = [q \in P |-> f[q]],
           \A q \in P : f[q] = q \/ (q.at = "sent" /\ f[q] = Left(q))
    PROVE  IsRequests({ f[q] : q \in P })
<1>1. /\ IsFiniteSet(P) /\ Cardinality(P) <= Cardinality(requests)
      /\ Cardinality(P) \in Nat /\ Cardinality(requests) \in Nat
    BY FS_Subset, FS_CardinalityType DEF RequestsInv, IsRequests
<1>2. /\ IsFiniteSet({ f[q] : q \in P })
      /\ Cardinality({ f[q] : q \in P }) <= Cardinality(P)
    BY <1>1, ImageBound
<1>3. Cardinality({ f[q] : q \in P }) \in Nat
    BY <1>2, FS_CardinalityType
<1>4. ASSUME NEW q \in P PROVE IsSent(f[q])
    BY LeftIsSent DEF RequestsInv, IsRequests
<1>5. Cardinality({ f[q] : q \in P }) <= MaxRequests
    BY <1>1, <1>2, <1>3, DeskAssumption DEF RequestsInv, IsRequests
<1>6. QED
    BY <1>2, <1>4, <1>5 DEF IsRequests

\* A POST or DELETE leaves the one before it behind.
LEMMA InterruptedIsRequests == RequestsInv => IsRequests(Interrupted(requests))
<1> SUFFICES ASSUME RequestsInv PROVE IsRequests(Interrupted(requests))
    OBVIOUS
<1> DEFINE P == { p \in requests : p.kind = "reload" \/ p.at = "sent" }
           f == [q \in P |-> IF q.kind = "reload" THEN q ELSE Left(q)]
<1>1. Interrupted(requests) = { f[q] : q \in P }
    BY DEF Interrupted, Left
<1>2. f = [q \in P |-> f[q]]
    OBVIOUS
<1>3. \A q \in P : f[q] = q \/ (q.at = "sent" /\ f[q] = Left(q))
    OBVIOUS
<1>4. P \in SUBSET requests
    OBVIOUS
<1> HIDE DEF f, P
<1>5. QED
    BY <1>1, <1>2, <1>3, <1>4, LeftBehind
-----------------------------------------------------------------------------
(* Init.                                                                   *)

\* A page that has just been loaded.
LEMMA FreshIsDesk == ASSUME NEW page, IsPage(page) PROVE IsDesk(FreshDesk(page))
<1> DEFINE blank == [shown |-> page, filter |-> {}, query |-> Stores,
                     expanded |-> [k \in {} |-> FALSE], menus |-> {}]
<1>1. IsList(blank)
    BY DeskAssumption DEF IsList
<1>2. \A k \in DOMAIN blank.expanded : blank.expanded[k] \in BOOLEAN
    OBVIOUS
<1>3. FreshDesk(page) = Rendered(blank, blank)
    BY DEF FreshDesk
<1> HIDE DEF blank
<1>4. QED
    BY <1>1, <1>2, <1>3, RenderedIsDesk

\* The first page is read from the first rows.
LEMMA DeskInit == Init => DeskIInv
<1> SUFFICES ASSUME Init PROVE DeskIInv
    OBVIOUS
<1>1. ClockInv
    <2>1. now = StaleAfter /\ spent = 0
        BY DEF Init
    <2>2. QED
        BY <2>1, DeskNumbers DEF ClockInv
<1>2. RowsInv
    BY DeskAssumption DEF Init, RowsInv
<1>3. JobsInv
    <2>1. IsJobs({})
        BY FS_EmptySet DEF IsJobs
    <2>2. { s \in DOMAIN rows : MissingReadiness(rows[s]) } \in SUBSET Stores
        BY <1>2 DEF RowsInv, ByStore
    <2>3. QED
        BY <2>1, <2>2, QueuedIsJobs DEF Init, JobsInv, Kinds
<1>4. RequestsInv
    <2>1. requests = {}
        BY DEF Init
    <2>2. QED
        BY <2>1, FS_EmptySet, DeskNumbers DEF RequestsInv, IsRequests
<1>5. DeskInv
    BY <1>2, ActivePage, FreshIsDesk DEF Init, DeskInv
<1>6. SellerInv
    BY DEF Init, SellerInv, Seller
<1>7. QED
    BY <1>1, <1>2, <1>3, <1>4, <1>5, <1>6 DEF DeskIInv

-----------------------------------------------------------------------------
(* Steps.                                                                  *)

\* Each part stands while what it speaks of does.
LEMMA PartsStand ==
    ASSUME DeskIInv
    PROVE  /\ UNCHANGED <<now, spent>> => ClockInv'
           /\ Event /\ UNCHANGED now => ClockInv'
           /\ UNCHANGED rows => RowsInv'
           /\ UNCHANGED jobs => JobsInv'
           /\ UNCHANGED requests => RequestsInv'
           /\ UNCHANGED desk => DeskInv'
           /\ UNCHANGED seller => SellerInv'
<1>1. Event /\ UNCHANGED now => ClockInv'
    BY DeskAssumption DEF DeskIInv, ClockInv, Event
<1>2. QED
    BY <1>1 DEF DeskIInv, ClockInv, RowsInv, JobsInv, RequestsInv, DeskInv, SellerInv

\* The row of one store is written.
LEMMA RowWritten ==
    ASSUME RowsInv, NEW s \in DOMAIN rows, NEW r \in Row,
           rows' = [rows EXCEPT ![s] = r]
    PROVE  RowsInv'
BY DEF RowsInv, ByStore

\* A job, field by field.
LEMMA JobTyped ==
    ASSUME JobsInv, NEW j \in jobs
    PROVE  /\ j = [kind |-> j.kind, store |-> j.store, nr |-> j.nr, at |-> j.at,
                   since |-> j.since]
           /\ j.kind \in Kinds /\ j.store \in Stores /\ j.nr \in Nat /\ j.since \in Times
BY DEF JobsInv, IsJobs, Job

\* A row with another status of one kind is a row.
LEMMA StatusWritten ==
    ASSUME NEW r \in Row, NEW k \in Kinds, NEW v \in { "idle", "working", "failed" }
    PROVE  [r EXCEPT !.status = [@ EXCEPT ![k] = v]] \in Row
BY DEF Row

\* The same of a row of the database.
LEMMA StatusOfRow ==
    ASSUME RowsInv, NEW s \in DOMAIN rows, NEW k \in Kinds,
           NEW v \in { "idle", "working", "failed" },
           rows' = [rows EXCEPT ![s].status[k] = v]
    PROVE  RowsInv'
<1> DEFINE r == [rows[s] EXCEPT !.status = [@ EXCEPT ![k] = v]]
<1>1. r \in Row
    BY StatusWritten DEF RowsInv, ByStore
<1>2. rows' = [rows EXCEPT ![s] = r]
    OBVIOUS
<1> HIDE DEF r
<1>3. QED
    BY <1>1, <1>2, RowWritten

\* The clock shows a time, and never the mark of a job that waits.
LEMMA NowIsTime == ClockInv => now \in Times /\ now # Never
BY DeskAssumption DEF ClockInv, Times, Never

\* Jobs, sweeps and the clock leave the pages as they are.
LEMMA WorkKeeps == ASSUME DeskIInv, Work PROVE DeskIInv'
<1> USE DEF DeskIInv
<1>1. ASSUME NEW j \in jobs, StartJob(j) PROVE DeskIInv'
    <2>1. UNCHANGED <<now, desk, requests, seller, spent>> /\ j.at = "queued"
        BY <1>1 DEF StartJob
    <2>2. CASE j.store \in DOMAIN rows
        <3> DEFINE i == [j EXCEPT !.at = "running", !.since = now]
        <3>1. /\ jobs' = (jobs \ {j}) \cup {i}
              /\ rows' = [rows EXCEPT ![j.store].status[j.kind] = "working"]
            BY <1>1, <2>2 DEF StartJob
        <3>2. i \in Job /\ (i.at = "queued" <=> i.since = Never)
            <4>1. j \in Job /\ now \in Times /\ now # Never
                BY <1>1, NowIsTime DEF JobsInv, IsJobs
            <4>2. i \in Job /\ i.at = "running" /\ i.since = now
                BY <4>1 DEF Job
            <4>3. QED
                BY <4>1, <4>2
        <3> HIDE DEF i
        <3>3. JobsInv'
            BY <1>1, <3>1, <3>2, JobsChange DEF JobsInv
        <3>4. RowsInv'
            BY <1>1, <2>2, <3>1, JobTyped, StatusOfRow
        <3>5. QED
            BY <2>1, <3>3, <3>4, PartsStand
    <2>3. CASE j.store \notin DOMAIN rows
        <3>1. jobs' = jobs \ {j} /\ UNCHANGED rows
            BY <1>1, <2>3 DEF StartJob
        <3>2. JobsInv'
            BY <1>1, <3>1, JobsChange DEF JobsInv
        <3>3. QED
            BY <2>1, <3>1, <3>2, PartsStand
    <2>4. QED
        BY <2>2, <2>3
<1>2. ASSUME NEW j \in jobs, FinishJob(j) PROVE DeskIInv'
    <2>1. UNCHANGED <<now, desk, requests, seller, spent>> /\ jobs' = jobs \ {j}
        BY <1>2 DEF FinishJob, Running
    <2>2. JobsInv'
        BY <1>2, <2>1, JobsChange DEF JobsInv
    <2>3. RowsInv'
        <3>1. CASE j.store \notin DOMAIN rows
            BY <1>2, <3>1, PartsStand DEF FinishJob
        <3>2. CASE j.store \in DOMAIN rows
            <4> DEFINE r == rows[j.store]
            <4>1. PICK partial \in BOOLEAN :
                    rows' = [rows EXCEPT ![j.store] =
                        [status   |-> [r.status EXCEPT ![j.kind] = "idle"],
                         last     |-> [r.last EXCEPT ![j.kind] =
                                           IF j.kind = "sync" THEN j.since ELSE now],
                         partial  |-> partial]]
                BY <1>2, <3>2 DEF FinishJob
            <4>2. r \in Row /\ j.kind \in Kinds /\ j.since \in Times /\ now \in Times
                BY <1>2, <3>2, JobTyped, NowIsTime DEF RowsInv, ByStore
            <4> DEFINE at == IF j.kind = "sync" THEN j.since ELSE now
                       new == [status  |-> [r.status EXCEPT ![j.kind] = "idle"],
                               last    |-> [r.last EXCEPT ![j.kind] = at],
                               partial |-> partial]
            <4>3. at \in Times
                BY <4>2
            <4>4. rows' = [rows EXCEPT ![j.store] = new]
                BY <4>1
            <4> HIDE DEF r, at
            <4>5. new \in Row
                BY <4>2, <4>3 DEF Row
            <4> HIDE DEF new
            <4>6. QED
                BY <3>2, <4>4, <4>5, RowWritten
        <3>3. QED
            BY <3>1, <3>2
    <2>4. QED
        BY <2>1, <2>2, <2>3, PartsStand
<1>3. ASSUME NEW j \in jobs, FailJob(j) PROVE DeskIInv'
    <2>1. UNCHANGED <<now, desk, requests, seller, spent>> /\ jobs' = jobs \ {j}
        BY <1>3 DEF FailJob, Running
    <2>2. JobsInv'
        BY <1>3, <2>1, JobsChange DEF JobsInv
    <2>3. RowsInv'
        <3>1. CASE j.store \in DOMAIN rows
            BY <1>3, <3>1, JobTyped, StatusOfRow DEF FailJob
        <3>2. CASE j.store \notin DOMAIN rows
            BY <1>3, <3>2, PartsStand DEF FailJob
        <3>3. QED
            BY <3>1, <3>2
    <2>4. QED
        BY <2>1, <2>2, <2>3, PartsStand
<1>4. ASSUME NEW j \in jobs, WorkerDies(j) PROVE DeskIInv'
    <2>1. /\ Event /\ UNCHANGED <<now, rows, desk, requests, seller>>
          /\ jobs' = jobs \ {j}
        BY <1>4 DEF WorkerDies, Running
    <2>2. JobsInv'
        BY <1>4, <2>1, JobsChange DEF JobsInv
    <2>3. QED
        BY <2>1, <2>2, PartsStand
<1>5. CASE SyncAllStores
    <2>1. /\ Event /\ UNCHANGED <<now, rows, desk, requests, seller>>
          /\ jobs' = Queued(jobs, "sync", DOMAIN rows)
        BY <1>5 DEF SyncAllStores, PerformLater
    <2>2. JobsInv'
        BY <2>1, QueuedIsJobs DEF JobsInv, RowsInv, ByStore, Kinds
    <2>3. QED
        BY <2>1, <2>2, PartsStand
<1>6. CASE EnrichmentSweep
    <2>1. /\ Event /\ UNCHANGED <<now, rows, desk, requests, seller>>
          /\ jobs' = Queued(jobs, "enrich", StoresToEnrich)
        BY <1>6 DEF EnrichmentSweep, PerformLater
    <2>2. StoresToEnrich \in SUBSET Stores
        BY DEF StoresToEnrich, RowsInv, ByStore
    <2>3. JobsInv'
        BY <2>1, <2>2, QueuedIsJobs DEF JobsInv, Kinds
    <2>4. QED
        BY <2>1, <2>3, PartsStand
<1>7. CASE Tick
    <2>1. ClockInv'
        BY <1>7, DeskAssumption DEF Tick, Event, ClockInv
    <2>2. QED
        BY <1>7, <2>1, PartsStand DEF Tick
<1>8. QED
    BY <1>1, <1>2, <1>3, <1>4, <1>5, <1>6, <1>7 DEF Work
\* The admin's clicks: the list is drawn anew.
LEMMA ClickingKeeps ==
    ASSUME DeskIInv, NEW d, IsList(d), Clicking(d)
    PROVE  DeskIInv'
<1>1. \A k \in DOMAIN desk.expanded : desk.expanded[k] \in BOOLEAN
    BY DEF DeskIInv, DeskInv, IsDesk
<1>2. DeskInv'
    BY <1>1, RenderedIsDesk DEF Clicking, DeskInv
<1>3. QED
    BY <1>2, PartsStand DEF Clicking, DeskIInv

\* The admin's page has a list of stores.
LEMMA DeskIsList == DeskIInv => IsList(desk) /\ DOMAIN desk.shown \subseteq Stores
BY DEF DeskIInv, DeskInv, IsDesk, IsList, IsPage, ByStore

\* Another filter, search or set of open menus, or sections turned over.
LEMMA ListWith ==
    ASSUME NEW d, IsList(d)
    PROVE  /\ \A f \in SUBSET FilterKeys : IsList([d EXCEPT !.filter = f])
           /\ \A q \in Searches : IsList([d EXCEPT !.query = q])
           /\ \A m : IsList([d EXCEPT !.menus = m])
           /\ \A e : IsList([d EXCEPT !.expanded = e])
           /\ \A p : IsPage(p) => IsList([d EXCEPT !.shown = p])
BY DEF IsList

\* What the server does with a request.
LEMMA ServeKeeps == ASSUME DeskIInv, NEW q \in requests, Serve(q) PROVE DeskIInv'
<1> USE DEF DeskIInv
<1>1. IsPage(ActiveStores) /\ IsSent(q)
    BY ActivePage DEF RequestsInv, IsRequests
<1>2. CASE ServeReload(q)
    <2>1. RequestsInv'
        BY <1>1, <1>2, AnsweredIsRequests DEF ServeReload, RequestsInv
    <2>2. QED
        BY <1>2, <2>1, PartsStand DEF ServeReload
<1>3. CASE RetryJob(q)
    <2>1. RequestsInv'
        BY <1>1, <1>3, AnsweredIsRequests DEF RetryJob, RequestsInv
    <2>2. { q.store } \in SUBSET Stores /\ q.kind \in Kinds
        BY <1>1, <1>3 DEF IsSent, RequestWith, RetryJob
    <2>3. JobsInv'
        BY <1>3, <2>2, QueuedIsJobs DEF RetryJob, PerformLater, JobsInv
    <2>4. QED
        BY <1>3, <2>1, <2>3, PartsStand DEF RetryJob
<1>4. CASE Destroy(q)
    <2>1. q.at = "sent" /\ UNCHANGED <<now, jobs, desk, seller, spent>>
        BY <1>4 DEF Destroy
    <2>2. CASE q.store \in Clicked \cap DOMAIN rows
        <3> DEFINE refused == [q EXCEPT !.at = "failed"]
        <3>1. /\ UNCHANGED rows
              /\ requests' = IF q.live THEN (requests \ {q}) \cup { refused }
                             ELSE requests \ {q}
            BY <1>4, <2>2 DEF Destroy
        <3>2. q.live => IsSent(refused)
            <4>1. q \in RequestWith(q.page)
                BY <1>1 DEF IsSent
            <4>2. /\ refused \in RequestWith(q.page) /\ refused.page = q.page
                  /\ q.live => refused.live
                BY <4>1 DEF RequestWith
            <4> HIDE DEF refused
            <4>3. QED
                BY <1>1, <4>2 DEF IsSent
        <3> HIDE DEF refused
        <3>3. IsRequests(requests \ {q})
            BY OneLess
        <3>4. Cardinality(requests \ {q}) < MaxRequests
            <4>1. IsFiniteSet(requests) /\ Cardinality(requests) <= MaxRequests
                BY DEF RequestsInv, IsRequests
            <4>2. /\ Cardinality(requests) \in Nat
                  /\ Cardinality(requests \ {q}) = Cardinality(requests) - 1
                BY <4>1, FS_CardinalityType, FS_RemoveElement
            <4>3. QED
                BY <4>1, <4>2, DeskNumbers
        <3>5. RequestsInv'
            BY <3>1, <3>2, <3>3, <3>4, OneMore DEF RequestsInv
        <3>6. QED
            BY <2>1, <3>1, <3>5, PartsStand
    <2>3. CASE q.store \notin Clicked \cap DOMAIN rows
        <3> DEFINE S == DOMAIN rows \ { q.store }
        <3>1. /\ rows' = [s \in S |-> rows[s]]
              /\ requests' = Answered(q, [s \in DOMAIN rows' |-> Props(rows[s])])
            BY <1>4, <2>3 DEF Destroy
        <3>2. DOMAIN rows' = S
            BY <3>1
        <3>3. IsPage([s \in S |-> Props(rows[s])])
            BY PageIsRead
        <3>4. RequestsInv'
            BY <3>1, <3>2, <3>3, AnsweredIsRequests DEF RequestsInv
        <3>5. RowsInv'
            BY <3>1 DEF RowsInv, ByStore
        <3>6. QED
            BY <2>1, <3>4, <3>5, PartsStand
    <2>4. QED
        BY <2>2, <2>3
<1>5. QED
    BY <1>2, <1>3, <1>4 DEF Serve

\* Loads, and answers that arrive or are lost.
LEMMA RequestKeeps ==
    ASSUME DeskIInv, Visit \/ ReloadTick \/ \E q \in requests : Arrive(q) \/ LoseRequest(q)
    PROVE  DeskIInv'
<1> USE DEF DeskIInv
<1>1. CASE Visit
    <2> DEFINE P == { p \in requests : p.kind # "reload" /\ p.at = "sent" }
               f == [q \in P |-> Left(q)]
    <2>1. requests' = { f[q] : q \in P }
        BY <1>1 DEF Visit, Left
    <2>2. /\ f = [q \in P |-> f[q]] /\ P \in SUBSET requests
          /\ \A q \in P : q.at = "sent" /\ f[q] = Left(q)
        OBVIOUS
    <2> HIDE DEF f, P
    <2>3. RequestsInv'
        BY <2>1, <2>2, LeftBehind DEF RequestsInv
    <2>4. DeskInv'
        BY <1>1, ActivePage, FreshIsDesk DEF Visit, DeskInv
    <2>5. QED
        BY <1>1, <2>3, <2>4, PartsStand DEF Visit
<1>2. CASE ReloadTick
    <2>1. RequestsInv'
        BY <1>2, SendIsSent, OneMore, DeskAssumption DEF ReloadTick, RequestsInv
    <2>2. QED
        BY <1>2, <2>1, PartsStand DEF ReloadTick
<1>3. ASSUME NEW q \in requests, Arrive(q) PROVE DeskIInv'
    <2>1. RequestsInv'
        BY <1>3, OneLess DEF Arrive, RequestsInv
    <2>2. DeskInv'
        <3>1. CASE q.at = "served"
            <4>1. desk' = Rendered([desk EXCEPT !.shown = q.page], desk)
                BY <1>3, <3>1 DEF Arrive
            <4>2. IsPage(q.page)
                BY <1>3 DEF RequestsInv, IsRequests, IsSent
            <4>3. IsList([desk EXCEPT !.shown = q.page])
                BY <4>2, DeskIsList, ListWith
            <4>4. \A k \in DOMAIN desk.expanded : desk.expanded[k] \in BOOLEAN
                BY DEF DeskInv, IsDesk
            <4>5. QED
                BY <4>1, <4>3, <4>4, RenderedIsDesk DEF DeskInv
        <3>2. CASE q.at # "served"
            BY <1>3, <3>2, PartsStand DEF Arrive
        <3>3. QED
            BY <3>1, <3>2
    <2>3. QED
        BY <1>3, <2>1, <2>2, PartsStand DEF Arrive
<1>4. ASSUME NEW q \in requests, LoseRequest(q) PROVE DeskIInv'
    <2>1. RequestsInv'
        BY <1>4, OneLess DEF LoseRequest, RequestsInv
    <2>2. QED
        BY <1>4, <2>1, PartsStand DEF LoseRequest
<1>5. QED
    BY <1>1, <1>2, <1>3, <1>4

\* Whatever the admin clicks, the list is drawn anew from what the page knows.
LEMMA AdminKeeps == ASSUME DeskIInv, Admin PROVE DeskIInv'
<1>1. IsList(desk) /\ DOMAIN desk.shown \subseteq Stores
    BY DeskIsList
<1>2. CASE All
    BY <1>1, <1>2, ListWith, ClickingKeeps DEF All
<1>3. ASSUME NEW k \in FilterKeys, ToggleHealthFilter(k) PROVE DeskIInv'
    <2> DEFINE f == IF k \in desk.filter THEN desk.filter \ {k} ELSE desk.filter \cup {k}
    <2>1. f \in SUBSET FilterKeys /\ Clicking([desk EXCEPT !.filter = f])
        BY <1>1, <1>3 DEF ToggleHealthFilter, IsList
    <2> HIDE DEF f
    <2>2. QED
        BY <1>1, <2>1, ListWith, ClickingKeeps
<1>4. ASSUME NEW query \in Searches, SearchInput(query) PROVE DeskIInv'
    BY <1>1, <1>4, ListWith, ClickingKeeps DEF SearchInput
<1>5. ASSUME NEW k \in Sections, ToggleSection(k) PROVE DeskIInv'
    <2> DEFINE e == [desk.expanded EXCEPT ![k] = ~@]
               flipped == [desk EXCEPT !.expanded = e]
    <2>1. desk' = Rendered(flipped, flipped)
        BY <1>5 DEF ToggleSection
    <2>2. IsList(flipped)
        BY <1>1, ListWith
    <2>3. \A m \in DOMAIN e : e[m] \in BOOLEAN
        BY DEF DeskIInv, DeskInv, IsDesk
    <2>4. flipped.expanded = e
        BY <1>1 DEF IsList
    <2> HIDE DEF flipped, e
    <2>5. DeskInv'
        BY <2>1, <2>2, <2>3, <2>4, RenderedIsDesk DEF DeskInv
    <2>6. QED
        BY <1>5, <2>5, PartsStand DEF ToggleSection, DeskIInv
<1>6. ASSUME NEW s \in Stores, OpenMenu(s) \/ CloseMenu(s) PROVE DeskIInv'
    BY <1>1, <1>6, ListWith, ClickingKeeps DEF OpenMenu, CloseMenu
<1>7. ASSUME NEW s \in desk.menus, NEW item \in MenuItems(desk.shown[s]),
             ChooseMenuItem(s, item)
      PROVE  DeskIInv'
    <2>1. s \in Stores
        <3>1. s \in ExpandedContent(desk)
            BY DEF DeskIInv, DeskInv, IsDesk
        <3>2. PICK k \in DOMAIN desk.expanded : s \in GroupBySection(desk)[k]
            BY <3>1 DEF ExpandedContent
        <3>3. k \in Sections
            BY <3>2 DEF DeskIInv, DeskInv, IsDesk, Mounted
        <3>4. s \in FilteredStores(desk)
            BY <3>2, <3>3 DEF GroupBySection
        <3>5. QED
            BY <1>1, <3>4, FilteredIsShown
    <2>2. item \in { "reload", "sync", "enrich", "destroy" }
        BY <1>7 DEF MenuItems
    <2>3. IsSent(Send(item, s))
        BY <2>1, <2>2, SendIsSent DEF DeskIInv
    <2>4. RequestsInv'
        BY <1>7, <2>3, InterruptedIsRequests, OneMore
        DEF ChooseMenuItem, RequestsInv, DeskIInv
    <2>5. DeskInv'
        BY <1>7, FewerMenus DEF ChooseMenuItem, DeskInv, DeskIInv
    <2>6. QED
        BY <1>7, <2>4, <2>5, PartsStand DEF ChooseMenuItem, DeskIInv
<1>8. ASSUME NEW inside, ClickOutside(inside) PROVE DeskIInv'
    <2>1. DeskInv'
        BY <1>8, FewerMenus DEF ClickOutside, DeskInv, DeskIInv
    <2>2. QED
        BY <1>8, <2>1, PartsStand DEF ClickOutside, DeskIInv
<1>9. QED
    BY <1>2, <1>3, <1>4, <1>5, <1>6, <1>7, <1>8, ServeKeeps, RequestKeeps DEF Admin

\* The seller's button is busy while its request is awaited.
LEMMA SellerKeeps == ASSUME DeskIInv, SellerSteps PROVE DeskIInv'
<1> USE DEF DeskIInv
<1>1. /\ seller \in [submitting : BOOLEAN,
                     request : { "", "sent", "left", "answered", "failed" }]
      /\ seller.submitting <=> seller.request \in { "sent", "answered", "failed" }
    BY DEF SellerInv, Seller
<1>2. CASE SellerVisits
    <2>1. SellerInv'
        BY <1>1, <1>2 DEF SellerVisits, SellerInv, Seller
    <2>2. QED
        BY <1>2, <2>1, PartsStand DEF SellerVisits
<1>3. CASE HandleResync
    <2>1. SellerInv'
        BY <1>1, <1>3 DEF HandleResync, SellerInv, Seller
    <2>2. QED
        BY <1>3, <2>1, PartsStand DEF HandleResync
<1>4. CASE Resync
    <2>1. SellerInv'
        BY <1>1, <1>4 DEF Resync, SellerInv, Seller
    <2>2. JobsInv'
        <3>1. IsJobs(Queued(jobs, "sync", { Mine }))
            BY QueuedIsJobs, DeskAssumption DEF JobsInv, Kinds
        <3>2. QED
            BY <1>4, <3>1 DEF Resync, PerformLater, JobsInv
    <2>3. QED
        BY <1>4, <2>1, <2>2, PartsStand DEF Resync
<1>5. CASE OnFinish
    <2>1. SellerInv'
        BY <1>1, <1>5 DEF OnFinish, SellerInv, Seller
    <2>2. QED
        BY <1>5, <2>1, PartsStand DEF OnFinish
<1>6. CASE LoseResync
    <2>1. SellerInv'
        BY <1>1, <1>6 DEF LoseResync, SellerInv, Seller
    <2>2. QED
        BY <1>6, <2>1, PartsStand DEF LoseResync
<1>7. QED
    BY <1>2, <1>3, <1>4, <1>5, <1>6 DEF SellerSteps

\* Every step of the dashboards keeps the invariant.
LEMMA DeskNext == DeskIInv /\ [Next]_vars => DeskIInv'
<1>1. CASE DeskIInv /\ UNCHANGED vars
    BY <1>1, PartsStand DEF DeskIInv, vars
<1>2. QED
    BY <1>1, WorkKeeps, AdminKeeps, SellerKeeps DEF Next

\* What the dashboards know of the stores fits, whatever their admin and seller
\* click and whichever requests overtake each other or are lost.
THEOREM DeskIsInvariant == Spec => []DeskIInv
BY DeskInit, DeskNext, PTL DEF Spec
-----------------------------------------------------------------------------
(* What the runs check.                                                    *)

\* A request of the invariant is one of the type invariant.
LEMMA RequestIsTyped == ASSUME NEW q, IsSent(q) PROVE IsRequest(q)
<1>1. q \in RequestWith(q.page)
    BY DEF IsSent
<1>2. [q EXCEPT !.page = 0] \in RequestWith(0)
    BY <1>1 DEF RequestWith
<1>3. QED
    BY <1>2 DEF IsSent, IsRequest, IsPage, RequestWith

\* Every part of the dashboards keeps its type.
THEOREM TypeCorrect == Spec => []TypeOK
<1>1. DeskIInv => TypeOK
    <2> SUFFICES ASSUME DeskIInv PROVE TypeOK
        OBVIOUS
    <2>1. now \in StaleAfter .. StaleAfter + MaxEvents
        BY DeskNumbers DEF DeskIInv, ClockInv
    <2>2. \A q \in requests : IsRequest(q) /\ (~q.live => q.at = "sent")
        <3>1. ASSUME NEW q \in requests PROVE IsSent(q)
            BY DEF DeskIInv, RequestsInv, IsRequests
        <3>2. QED
            BY <3>1, RequestIsTyped DEF IsSent
    <2>3. \A j \in jobs : j \in Job /\ (j.at = "queued" <=> j.since = Never)
        BY DEF DeskIInv, JobsInv, IsJobs
    <2>4. /\ ByStore(desk.shown, Card) /\ desk.filter \subseteq FilterKeys
          /\ desk.query \in Searches /\ desk.expanded \in [Mounted(desk) -> BOOLEAN]
          /\ desk.menus \subseteq ExpandedContent(desk)
        BY DEF DeskIInv, DeskInv, IsDesk, IsList, IsPage
    <2>5. ByStore(rows, Row) /\ Cardinality(requests) <= MaxRequests
        BY DEF DeskIInv, RowsInv, RequestsInv, IsRequests
    <2>6. /\ seller \in Seller
          /\ seller.submitting <=> seller.request \in { "sent", "answered", "failed" }
        BY DEF DeskIInv, SellerInv
    <2>7. QED
        BY <2>1, <2>2, <2>3, <2>4, <2>5, <2>6 DEF TypeOK
<1>2. QED
    BY <1>1, DeskIsInvariant, PTL

\* What a filter lets through is on the screen, whichever reload has moved a
\* store into a section and whichever section the admin had closed.
THEOREM FilteredStoresStayShown == Spec => []FilteredStoresAreShown
<1>1. DeskIInv => FilteredStoresAreShown
    BY DEF DeskIInv, DeskInv, IsDesk, FilterShows, FilteredStoresAreShown
<1>2. QED
    BY <1>1, DeskIsInvariant, PTL

\* The number on a filter's button, what the filter leaves, the section of its
\* name and the bars of its cards are readings of one and the same health.
THEOREM ReadingsAgree == Spec => []TriageAgrees
<1>1. DeskIInv => TriageAgrees
    <2> SUFFICES ASSUME DeskIInv PROVE TriageAgrees
        OBVIOUS
    <2> DEFINE list(filter) == [desk EXCEPT !.filter = filter, !.query = Stores]
               section(k) == GroupBySection(list({}))[k]
               in(k) == { s \in DOMAIN desk.shown : SectionOf(desk.shown[s]) = k }
    <2>1. IsPage(desk.shown) /\ IsList(desk)
        BY DEF DeskIInv, DeskInv, IsDesk, IsList
    <2>2. ASSUME NEW f
          PROVE  /\ list(f).shown = desk.shown /\ list(f).filter = f
                 /\ list(f).query = Stores
        BY <2>1 DEF IsList
    <2> HIDE DEF list
    <2>3. DOMAIN desk.shown \cap Stores = DOMAIN desk.shown
        BY <2>1 DEF IsPage, ByStore
    <2>4. ASSUME NEW f
          PROVE  FilteredStores(list(f)) = ApplyHealthFilter(desk.shown, DOMAIN desk.shown, f)
        BY <2>2, <2>3 DEF FilteredStores, UseSearchFilter
    <2>5. FilteredStores(list({})) = DOMAIN desk.shown
        BY <2>4 DEF ApplyHealthFilter
    <2>6. ASSUME NEW k \in Sections PROVE section(k) = in(k)
        BY <2>2, <2>5 DEF GroupBySection
    <2> HIDE DEF section
    <2>7. ASSUME NEW s \in DOMAIN desk.shown
          PROVE  LET h == desk.shown[s].health IN
                 /\ h \in HealthKeys
                 /\ SectionOf(desk.shown[s]) =
                      IF h \in AttentionHealthKeys THEN "attention"
                      ELSE IF h = "processing" THEN "processing" ELSE "healthy"
        BY <2>1, ShownCard DEF SectionOf, AttentionHealthKeys
    <2>8. ASSUME NEW k \in FilterKeys
          PROVE  /\ FilteredStores(list({k})) = section(k)
                 /\ Cardinality(section(k)) = ComputeCounts(desk.shown)[k]
        <3>1. k \in Sections /\ section(k) = in(k)
            BY <2>6 DEF FilterKeys, Sections
        <3>2. { s \in DOMAIN desk.shown :
                  LET h == desk.shown[s].health IN
                  h \in {k} \/ ("attention" \in {k} /\ h \in AttentionHealthKeys) } = in(k)
            BY <2>7 DEF FilterKeys, HealthKeys, AttentionHealthKeys
        <3>3. { s \in DOMAIN desk.shown :
                  LET h == desk.shown[s].health IN
                  IF k = "attention" THEN h \in AttentionHealthKeys ELSE h = k } = in(k)
            BY <2>7 DEF FilterKeys, HealthKeys, AttentionHealthKeys
        <3> HIDE DEF in
        <3>4. FilteredStores(list({k})) = in(k)
            BY <2>4, <3>2 DEF ApplyHealthFilter
        <3>5. ComputeCounts(desk.shown)[k] = Cardinality(in(k))
            BY <3>3 DEF ComputeCounts
        <3>6. QED
            BY <3>1, <3>4, <3>5
    <2>9. UNION { section(k) : k \in Sections } = DOMAIN desk.shown
        <3>1. ASSUME NEW s \in DOMAIN desk.shown
              PROVE  s \in UNION { section(k) : k \in Sections }
            BY <2>6, SectionIsOne
        <3>2. ASSUME NEW k \in Sections PROVE section(k) \subseteq DOMAIN desk.shown
            BY <2>6
        <3>3. QED
            BY <3>1, <3>2
    <2>10. ASSUME NEW s \in section("healthy")
           PROVE  JobProgressBars(desk.shown[s]) = {}
        <3>1. s \in DOMAIN desk.shown /\ SectionOf(desk.shown[s]) = "healthy"
            BY <2>6 DEF Sections
        <3>2. desk.shown[s].health = "healthy"
            BY <2>7, <3>1 DEF HealthKeys, AttentionHealthKeys
        <3>3. CardFits(desk.shown[s])
            BY <2>1, <3>1, ShownCard
        <3>4. QED
            BY <3>2, <3>3 DEF CardFits
    <2>11. QED
        BY <2>8, <2>9, <2>10 DEF TriageAgrees, section, list
<1>2. QED
    BY <1>1, DeskIsInvariant, PTL

\* A store whose worker died at it, or whose job failed, is offered that job: its
\* health is one of those the menu's two lists of keys name.
THEOREM StuckStoresStayOffered == Spec => []StuckStoresAreOffered
<1>1. DeskIInv => StuckStoresAreOffered
    <2> SUFFICES ASSUME DeskIInv, NEW s \in DOMAIN rows, NEW k \in Kinds,
                        rows[s].status[k] # "idle"
                 PROVE  k \in MenuItems(Props(rows[s]))
        BY DEF StuckStoresAreOffered
    <2> DEFINE r == rows[s]
    <2>1. r.status[k] \in { "working", "failed" }
        BY DEF DeskIInv, RowsInv, ByStore, Row
    <2>2. Health(r) \in { "failed", "processing" }
        BY <2>1 DEF Health, Failing, Processing
    <2>3. Props(r).health = Health(r)
        BY DEF Props
    <2> HIDE DEF r
    <2>4. { "sync", "enrich" } \subseteq MenuItems(Props(r))
        BY <2>2, <2>3 DEF MenuItems, CanResync, ResyncableHealthKeys
    <2>5. QED
        BY <2>4 DEF r, Kinds
<1>2. QED
    BY <1>1, DeskIsInvariant, PTL
=============================================================================
