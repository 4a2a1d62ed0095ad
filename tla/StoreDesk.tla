----------------------------- MODULE StoreDesk ------------------------------
(***************************************************************************)
(* The two dashboards and the jobs they watch.  The admin's dashboard      *)
(* lists every store with its health, filters and searches the list,       *)
(* groups it into sections, starts jobs from a card's menu, and reloads    *)
(* its stores every three seconds while it shows a job at work.  The       *)
(* seller's dashboard shows one store and asks for a sync.  Of syncs and   *)
(* enrichments there is what the dashboards see: the columns of the store. *)
(***************************************************************************)
EXTENDS Integers, FiniteSets

CONSTANTS
    Stores,                \* stores that may exist
    Mine,                  \* the store of the seller at the other dashboard
    FirstRows,             \* what the database may hold at first
    Clicked,               \* stores with listings that click events refer to
    Searches,              \* what a search can find
    SearchThreshold,       \* stores from which on there is a search field
    StaleAfter,            \* age, in ticks, from which a store is stale
    MaxRequests,           \* bound: requests of the admin's page in flight
    MaxEvents              \* bound: clicks, jobs asked for, ticks and faults

Never == -1
Kinds == { "sync", "enrich" }
Times == Never .. StaleAfter + MaxEvents

\* status: "working" is syncing or enriching; last: last_synced_at and
\* last_enriched_at.
Row == [status : [Kinds -> { "idle", "working", "failed" }], last : [Kinds -> Times],
        partial : BOOLEAN]

\* By store, as far as the stores exist.
ByStore(f, S) == DOMAIN f \subseteq Stores /\ f \in [DOMAIN f -> S]

ASSUME DeskAssumption ==
    /\ IsFiniteSet(Stores) /\ Mine \in Stores /\ Clicked \subseteq Stores
    /\ \A first \in FirstRows : ByStore(first, Row)
    /\ Stores \in Searches /\ Searches \subseteq SUBSET Stores
    /\ SearchThreshold \in Nat /\ StaleAfter \in Nat \ {0} /\ MaxRequests \in Nat \ {0}
    /\ MaxEvents \in Nat

VARIABLES
    now,       \* the time
    rows,      \* the stores in the database
    jobs,      \* jobs that wait or run
    desk,      \* the admin's page
    requests,  \* its requests in flight
    seller,    \* the seller's page
    spent      \* how many of MaxEvents have happened

vars == <<now, rows, jobs, desk, requests, seller, spent>>

Event == spent < MaxEvents /\ spent' = spent + 1

-----------------------------------------------------------------------------
(* What the server tells of a store.                                       *)

Failing(r)          == \E k \in Kinds : r.status[k] = "failed"
Processing(r)       == \E k \in Kinds : r.status[k] = "working"
MissingReadiness(r) == \E k \in Kinds : r.last[k] = Never
Stale(r) == \E k \in Kinds : r.last[k] # Never /\ now - r.last[k] >= StaleAfter

\* The first that applies.
Health(r) ==
    IF Failing(r) THEN "failed"
    ELSE IF Processing(r) \/ MissingReadiness(r) THEN "processing"
    ELSE IF Stale(r) THEN "stale"
    ELSE IF r.partial THEN "partial"
    ELSE "healthy"

HealthKeys == { "failed", "processing", "stale", "partial", "healthy" }

\* What a page knows of a store; its health is that of the moment it was read.
Card == [status : [Kinds -> { "idle", "working", "failed" }], health : HealthKeys]

Props(r) == [status |-> r.status, health |-> Health(r)]

ActiveStores == [s \in DOMAIN rows |-> Props(rows[s])]

-----------------------------------------------------------------------------
(* The admin's list: filters, search, sections.                            *)

AttentionHealthKeys  == { "failed", "stale", "partial" }
ResyncableHealthKeysMutant == { "failed", "stale" }

ResyncableHealthKeys == { "failed", "stale", "processing" }

Sections   == { "attention", "processing", "healthy" }
FilterKeys == { "healthy", "processing", "attention" }

\* The number on the button of a filter; of all stores, searched for or not.
ComputeCounts(shown) ==
    [k \in FilterKeys |->
        Cardinality({ s \in DOMAIN shown :
            LET h == shown[s].health IN
            IF k = "attention" THEN h \in AttentionHealthKeys ELSE h = k })]

UseSearchFilter(shown, query) == DOMAIN shown \cap query

ApplyHealthFilter(shown, found, filter) ==
    IF filter = {} THEN found
    ELSE { s \in found :
             LET h == shown[s].health IN
             h \in filter \/ ("attention" \in filter /\ h \in AttentionHealthKeys) }

SectionOfMutant(card) ==
    CASE card.health \in { "failed", "stale" } -> "attention"
      [] card.health = "processing" -> "processing"
      [] OTHER -> "healthy"

\* What is neither in trouble nor at work is healthy.
SectionOf(card) ==
    CASE card.health \in AttentionHealthKeys -> "attention"
      [] card.health = "processing" -> "processing"
      [] OTHER -> "healthy"

FilteredStores(d) ==
    ApplyHealthFilter(d.shown, UseSearchFilter(d.shown, d.query), d.filter)

GroupBySection(d) ==
    [k \in Sections |-> { s \in FilteredStores(d) : SectionOf(d.shown[s]) = k }]

\* A section without stores is not mounted.
Mounted(d) == { k \in Sections : GroupBySection(d)[k] # {} }

DefaultExpanded(k) == k # "healthy"

HealthSectionsMutant(d, old) ==
    [k \in Mounted(d) |->
        IF k \in DOMAIN old THEN old[k]
        ELSE IF d.filter # {} THEN k \in d.filter ELSE DefaultExpanded(k)]

\* A section that is mounted starts as its props say; an effect makes one that
\* is there already follow the filter, while there is any.
HealthSections(d, old) ==
    [k \in Mounted(d) |->
        IF d.filter # {} THEN k \in d.filter
        ELSE IF k \in DOMAIN old THEN old[k] ELSE DefaultExpanded(k)]

\* The cards of the sections that are expanded.
ExpandedContent(d) ==
    UNION { GroupBySection(d)[k] : k \in { m \in DOMAIN d.expanded : d.expanded[m] } }

ShowSearch(d) == Cardinality(DOMAIN d.shown) >= SearchThreshold

RenderedMutant(d, old) == [d EXCEPT !.expanded = HealthSections(d, old.expanded)]

\* The page drawn anew: a card that leaves its section, or the page, forgets
\* that its menu was open.
Rendered(d, old) ==
    LET drawn == [d EXCEPT !.expanded = HealthSections(d, old.expanded)] IN
    [drawn EXCEPT !.menus =
        { s \in @ : /\ s \in ExpandedContent(drawn)
                    /\ SectionOf(d.shown[s]) = SectionOf(old.shown[s]) }]

-----------------------------------------------------------------------------
(* A card: its bars and its menu.                                          *)

\* The bars that are animated or that show a percentage as progress.
JobProgressBars(card) == { k \in Kinds : card.status[k] = "working" }

CanResync(card) == card.health \in ResyncableHealthKeys

\* What the menu of a card offers beside the storefront.
MenuItems(card) ==
    { "destroy" }
      \cup (IF CanResync(card) THEN { "sync" } ELSE {})
      \cup (IF card.health \in { "failed", "stale", "processing", "partial" }
            THEN { "enrich" } ELSE {})

-----------------------------------------------------------------------------
(* Jobs.                                                                   *)

Job == [kind : Kinds, store : Stores, nr : Nat, at : { "queued", "running" },
        since : Times]

\* The lowest number that is free among those taken.
Unused(taken) == CHOOSE n \in 1 .. Cardinality(taken) + 1 :
                    n \notin taken /\ \A m \in 1 .. n - 1 : m \in taken

Queued(js, kind, ss) ==
    js \cup { [kind |-> kind, store |-> s, at |-> "queued", since |-> Never,
               nr |-> Unused({ j.nr : j \in { i \in js : i.kind = kind /\ i.store = s } })]
              : s \in ss }

PerformLater(kind, ss) == Queued(jobs, kind, ss)

\* Any job may start: the semaphore of the jobs is let go after three minutes.
\* A job without its store fails at once.
StartJob(j) ==
    /\ j.at = "queued"
    /\ IF j.store \in DOMAIN rows
       THEN /\ jobs' = (jobs \ {j}) \cup { [j EXCEPT !.at = "running", !.since = now] }
            /\ rows' = [rows EXCEPT ![j.store].status[j.kind] = "working"]
       ELSE jobs' = jobs \ {j} /\ UNCHANGED rows
    /\ UNCHANGED <<now, desk, requests, seller, spent>>

\* What a job that runs writes is lost when its store is deleted; its percentages
\* are not modelled.
Running(j) == j.at = "running" /\ UNCHANGED <<now, desk, requests, seller>>

\* A sync is as of its start and may find the catalog complete or not; an
\* enrichment is as of its end.
FinishJob(j) ==
    /\ Running(j) /\ jobs' = jobs \ {j} /\ UNCHANGED spent
    /\ \E partial \in BOOLEAN :
        IF j.store \notin DOMAIN rows THEN UNCHANGED rows
        ELSE LET r == rows[j.store] IN
             /\ j.kind = "enrich" => partial = r.partial
             /\ rows' = [rows EXCEPT ![j.store] =
                    [status   |-> [r.status EXCEPT ![j.kind] = "idle"],
                     last     |-> [r.last EXCEPT ![j.kind] =
                                       IF j.kind = "sync" THEN j.since ELSE now],
                     partial  |-> partial]]

FailJob(j) ==
    /\ Running(j) /\ jobs' = jobs \ {j} /\ UNCHANGED spent
    /\ rows' = IF j.store \in DOMAIN rows
               THEN [rows EXCEPT ![j.store].status[j.kind] = "failed"] ELSE rows

\* No rescue runs: the store looks as if the job were at work.
WorkerDies(j) ==
    /\ Running(j) /\ Event /\ jobs' = jobs \ {j}
    /\ UNCHANGED rows

\* SyncAllStoresJob; its intervals of five minutes are not modelled.
SyncAllStores ==
    /\ Event
    /\ jobs' = PerformLater("sync", DOMAIN rows)
    /\ UNCHANGED <<now, rows, desk, requests, seller>>

StoresToEnrich ==
    { s \in DOMAIN rows :
        LET r == rows[s] IN
        /\ r.status["enrich"] = "idle"
        /\ r.last["enrich"] = Never \/ r.last["enrich"] < r.last["sync"] }

EnrichmentSweep ==
    /\ Event
    /\ jobs' = PerformLater("enrich", StoresToEnrich)
    /\ UNCHANGED <<now, rows, desk, requests, seller>>

Tick ==
    /\ Event
    /\ now' = now + 1
    /\ UNCHANGED <<rows, jobs, desk, requests, seller>>

-----------------------------------------------------------------------------
(* The admin's page and its requests.  Reloads of the stores run beside    *)
(* each other; a POST or DELETE interrupts the one before, which the       *)
(* server may handle nevertheless.                                         *)

\* kind: "reload", or what a menu asks for; live: not interrupted.
IsRequest(q) ==
    /\ [q EXCEPT !.page = 0] \in
         [kind : { "reload", "sync", "enrich", "destroy" }, store : Stores,
          nr : Nat, live : BOOLEAN, at : { "sent", "served", "failed" }, page : {0}]
    /\ ByStore(q.page, Card)

NoPage == [s \in {} |-> 0]

Send(kind, s) ==
    [kind |-> kind, store |-> s, live |-> TRUE, at |-> "sent", page |-> NoPage,
     nr |-> Unused({ q.nr : q \in requests })]

\* Those that are interrupted; answers that are under way are not looked at.
Interrupted(qs) ==
    { IF q.kind = "reload" THEN q ELSE [q EXCEPT !.live = FALSE] : q \in
        { p \in qs : p.kind = "reload" \/ p.at = "sent" } }

\* The page as the server gives it, with nothing clicked yet.
FreshDesk(page) ==
    LET blank == [shown |-> page, filter |-> {}, query |-> Stores,
                  expanded |-> [k \in {} |-> FALSE], menus |-> {}]
    IN Rendered(blank, blank)

\* GET of the page; what is in flight goes with the page that is left.
Visit ==
    /\ Event
    /\ desk' = FreshDesk(ActiveStores)
    /\ requests' = { [q EXCEPT !.live = FALSE] : q \in
                       { p \in requests : p.kind # "reload" /\ p.at = "sent" } }
    /\ UNCHANGED <<now, rows, jobs, seller>>

UseResyncMutant(shown) == \E s \in DOMAIN shown : shown[s].status["sync"] = "working"

\* The page polls while it shows a job at work.
UseResync(shown) ==
    \E s \in DOMAIN shown : \E k \in Kinds : shown[s].status[k] = "working"

ReloadTick ==
    /\ UseResync(desk.shown)
    /\ Cardinality(requests) < MaxRequests
    /\ requests' = requests \cup { Send("reload", Mine) }
    /\ UNCHANGED <<now, rows, jobs, desk, seller, spent>>

\* The page that follows what a request has done.
Answered(q, page) ==
    IF q.live THEN (requests \ {q}) \cup { [q EXCEPT !.at = "served", !.page = page] }
    ELSE requests \ {q}

ServeReload(q) ==
    /\ q.at = "sent" /\ q.kind = "reload"
    /\ requests' = Answered(q, ActiveStores)
    /\ UNCHANGED <<now, rows, jobs, desk, seller, spent>>

\* retry_sync and retry_enrichment; a store that is gone is said not to be found.
RetryJob(q) ==
    /\ q.at = "sent" /\ q.kind \in Kinds
    /\ jobs' = IF q.store \in DOMAIN rows THEN PerformLater(q.kind, { q.store }) ELSE jobs
    /\ requests' = Answered(q, ActiveStores)
    /\ UNCHANGED <<now, rows, desk, seller, spent>>

\* The foreign keys of the click events refuse the deletion of what they refer to.
Destroy(q) ==
    /\ q.at = "sent" /\ q.kind = "destroy"
    /\ IF q.store \in Clicked \cap DOMAIN rows
       THEN /\ requests' = IF q.live THEN (requests \ {q}) \cup { [q EXCEPT !.at = "failed"] }
                           ELSE requests \ {q}
            /\ UNCHANGED rows
       ELSE /\ rows' = [s \in DOMAIN rows \ { q.store } |-> rows[s]]
            /\ requests' = Answered(q, [s \in DOMAIN rows' |-> Props(rows[s])])
    /\ UNCHANGED <<now, jobs, desk, seller, spent>>

Serve(q) == ServeReload(q) \/ RetryJob(q) \/ Destroy(q)

\* An answer takes the place of the stores, whatever was asked for since.
Arrive(q) ==
    /\ q.at \in { "served", "failed" }
    /\ requests' = requests \ {q}
    /\ desk' = IF q.at = "served" THEN Rendered([desk EXCEPT !.shown = q.page], desk) ELSE desk
    /\ UNCHANGED <<now, rows, jobs, seller, spent>>

LoseRequest(q) ==
    /\ Event
    /\ requests' = requests \ {q}
    /\ UNCHANGED <<now, rows, jobs, desk, seller>>

-----------------------------------------------------------------------------
(* What the admin does on the page.                                        *)

Clicking(d) ==
    /\ Event /\ desk' = Rendered(d, desk)
    /\ UNCHANGED <<now, rows, jobs, requests, seller>>

\* A press of the mouse closes the menus it is outside of, before the click that
\* may follow; the keyboard leaves them open.
ClickOutside(inside) ==
    /\ desk.menus \ inside # {}
    /\ desk' = [desk EXCEPT !.menus = @ \cap inside]
    /\ UNCHANGED <<now, rows, jobs, requests, seller, spent>>

\* The button of a filter, and the one that clears them.
ToggleHealthFilter(k) ==
    Clicking([desk EXCEPT !.filter = IF k \in @ THEN @ \ {k} ELSE @ \cup {k}])

All == desk.filter # {} /\ Clicking([desk EXCEPT !.filter = {}])

SearchInput(query) ==
    ShowSearch(desk) /\ query # desk.query /\ Clicking([desk EXCEPT !.query = query])

\* While there is a filter the effect undoes it.
ToggleSection(k) ==
    /\ k \in DOMAIN desk.expanded /\ Event
    /\ LET flipped == [desk EXCEPT !.expanded[k] = ~@] IN desk' = Rendered(flipped, flipped)
    /\ UNCHANGED <<now, rows, jobs, requests, seller>>

OpenMenu(s) ==
    s \in ExpandedContent(desk) \ desk.menus /\ Clicking([desk EXCEPT !.menus = @ \cup {s}])

\* The button of the menu once more, or the storefront in a tab of its own.
CloseMenu(s) == s \in desk.menus /\ Clicking([desk EXCEPT !.menus = @ \ {s}])

\* Whoever does not confirm changes nothing.
ChooseMenuItem(s, item) ==
    /\ s \in desk.menus /\ item \in MenuItems(desk.shown[s]) /\ Event
    /\ Cardinality(Interrupted(requests)) < MaxRequests
    /\ requests' = Interrupted(requests) \cup { Send(item, s) }
    /\ desk' = [desk EXCEPT !.menus = @ \ {s}]
    /\ UNCHANGED <<now, rows, jobs, seller>>

-----------------------------------------------------------------------------
(* The seller's page, which does not poll; what it shows is not modelled.  *)

\* request: "" for none, "left" for one that nobody waits for any more.
Seller == [submitting : BOOLEAN, request : { "", "sent", "left", "answered", "failed" }]

SyncStatus == rows[Mine].status["sync"]

\* A new page, or the link of its welcome to the storefront and back.
SellerVisits ==
    /\ seller.request # "" /\ seller.request # "left"
    /\ seller' = [submitting |-> FALSE,
                  request |-> IF seller.request = "sent" THEN "left" ELSE ""]
    /\ UNCHANGED <<now, rows, jobs, desk, requests, spent>>

\* The button is disabled while its request is in flight; a request left behind
\* is waited for, as a bound.
HandleResync ==
    /\ Mine \in DOMAIN rows /\ ~seller.submitting /\ seller.request = "" /\ Event
    /\ seller' = [submitting |-> TRUE, request |-> "sent"]
    /\ UNCHANGED <<now, rows, jobs, desk, requests>>

\* A sync is refused while one is running, not while one waits; without a store
\* the request fails.
Resync ==
    /\ seller.request \in { "sent", "left" }
    /\ jobs' = IF Mine \in DOMAIN rows /\ SyncStatus # "working"
               THEN PerformLater("sync", { Mine }) ELSE jobs
    /\ seller' = [seller EXCEPT !.request =
                    IF @ = "left" THEN ""
                    ELSE IF Mine \in DOMAIN rows THEN "answered" ELSE "failed"]
    /\ UNCHANGED <<now, rows, desk, requests, spent>>

OnFinishMutant ==
    /\ seller.request = "answered"
    /\ seller' = [submitting |-> FALSE, request |-> ""]
    /\ UNCHANGED <<now, rows, jobs, desk, requests, spent>>

\* Whatever the outcome, the button works again.
OnFinish ==
    /\ seller.request \in { "answered", "failed" }
    /\ seller' = [submitting |-> FALSE, request |-> ""]
    /\ UNCHANGED <<now, rows, jobs, desk, requests, spent>>

\* The network fails, before the server has handled the request or after.
LoseResync ==
    /\ seller.request \in { "sent", "answered" } /\ Event
    /\ seller' = [seller EXCEPT !.request = "failed"]
    /\ UNCHANGED <<now, rows, jobs, desk, requests>>

-----------------------------------------------------------------------------

Init ==
    /\ now = StaleAfter
    /\ rows \in FirstRows
    \* A store is created with its first sync.
    /\ jobs = Queued({}, "sync", { s \in DOMAIN rows : MissingReadiness(rows[s]) })
    /\ requests = {}
    /\ desk = FreshDesk(ActiveStores)
    /\ seller = [submitting |-> FALSE, request |-> ""]
    /\ spent = 0

Work ==
    \/ \E j \in jobs : StartJob(j) \/ FinishJob(j) \/ FailJob(j) \/ WorkerDies(j)
    \/ SyncAllStores \/ EnrichmentSweep \/ Tick

Admin ==
    \/ Visit \/ ReloadTick
    \/ \E q \in requests : Serve(q) \/ Arrive(q) \/ LoseRequest(q)
    \/ All \/ \E k \in FilterKeys : ToggleHealthFilter(k)
    \/ \E query \in Searches : SearchInput(query)
    \/ \E k \in Sections : ToggleSection(k)
    \/ \E s \in Stores : OpenMenu(s) \/ CloseMenu(s)
    \/ \E s \in desk.menus : \E item \in MenuItems(desk.shown[s]) : ChooseMenuItem(s, item)
    \/ \E inside \in { {} } \cup { {s} : s \in Stores } : ClickOutside(inside)

SellerSteps ==
    SellerVisits \/ HandleResync \/ Resync \/ OnFinish \/ LoseResync

Next == Work \/ Admin \/ SellerSteps

\* The interval runs on, requests are handled and answered; of jobs nothing is
\* asked: one may take any time.
Fairness ==
    /\ WF_vars(ReloadTick)
    /\ WF_vars(\E q \in requests : Serve(q))
    /\ WF_vars(\E q \in requests : Arrive(q))
    /\ WF_vars(Resync) /\ WF_vars(OnFinish)

Spec == Init /\ [][Next]_vars /\ Fairness

-----------------------------------------------------------------------------
(* Properties.                                                             *)

TypeOK ==
    /\ now \in StaleAfter .. StaleAfter + MaxEvents
    /\ ByStore(rows, Row)
    /\ \A j \in jobs : j \in Job /\ (j.at = "queued" <=> j.since = Never)
    /\ \A q \in requests : IsRequest(q) /\ (~q.live => q.at = "sent")
    /\ Cardinality(requests) <= MaxRequests
    /\ ByStore(desk.shown, Card) /\ desk.filter \subseteq FilterKeys /\ desk.query \in Searches
    /\ desk.expanded \in [Mounted(desk) -> BOOLEAN]
    /\ desk.menus \subseteq ExpandedContent(desk)
    /\ seller \in Seller
    /\ seller.submitting <=> seller.request \in { "sent", "answered", "failed" }

\* What a filter lets through is on the screen: the section of a store is expanded
\* while the filter names it, even if a reload has just moved the store into that
\* section, or an admin has closed the section before.
FilteredStoresAreShown ==
    desk.filter # {} => FilteredStores(desk) = ExpandedContent(desk)

\* Four readings of a store's health agree: the number on the button of a filter,
\* what that filter leaves of the list, the section of that name, and the bars of
\* the cards, none of which is at work in the section of the healthy.
TriageAgrees ==
    LET list(filter) == [desk EXCEPT !.filter = filter, !.query = Stores]
        section(k) == GroupBySection(list({}))[k]
    IN /\ \A k \in FilterKeys :
            /\ FilteredStores(list({k})) = section(k)
            /\ Cardinality(section(k)) = ComputeCounts(desk.shown)[k]
       /\ UNION { section(k) : k \in Sections } = DOMAIN desk.shown
       /\ \A s \in section("healthy") : JobProgressBars(desk.shown[s]) = {}

\* No job works on the kind of store s, waiting or running.
NoJob(s, k) == \A j \in jobs : j.store # s \/ j.kind # k

\* A store that a dead worker has left syncing or enriching, or whose job has
\* failed, which no sweep takes up, is offered that job on the next page read.
StuckStoresAreOffered ==
    \A s \in DOMAIN rows : \A k \in Kinds :
        rows[s].status[k] # "idle" /\ NoJob(s, k) => k \in MenuItems(Props(rows[s]))

ShownAtWork(s, k) ==
    s \in DOMAIN desk.shown /\ desk.shown[s].status[k] = "working"

AtWork(s, k) == s \in DOMAIN rows /\ rows[s].status[k] = "working"

\* A job that has ended, failed or lost its store is not shown at work for ever:
\* the page polls until the last job it shows is gone, though reloads may be lost
\* or answered out of order.
ShownActivityIsCurrent ==
    \A s \in Stores : \A k \in Kinds :
        ShownAtWork(s, k) /\ ~AtWork(s, k) ~> ~(ShownAtWork(s, k) /\ ~AtWork(s, k))

\* The seller's button does not stay busy: refused, failed or lost, a request ends
\* and lets the button go.
SubmittingEnds == seller.submitting ~> ~seller.submitting

=============================================================================
