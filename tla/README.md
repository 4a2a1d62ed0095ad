# Milkcrate in TLA+

Milkcrate turns the Discogs inventory of a record store into a daily curated
storefront. A Rails application keeps a copy of the inventory in Postgres;
background jobs (Solid Queue) refresh it from Discogs, remove what has been
sold, enrich and curate it; web requests serve cached pages; a React frontend
keeps the shopper's pile, walks through the crates, looks sellers up, takes
applications and watches the jobs from two dashboards. This
directory models the parts where those actors share state and can go wrong
between two steps, checks them with TLC on small instances, and proves the
central results with TLAPS for all instances.

## The system

| component | state | operations | talks to | what makes it hard | what makes it correct |
|---|---|---|---|---|---|
| Sales polling (`SalesPollStoreJob`, `StoreSales::*`) | `listings`, `discogs_order_events`, `inventory_version`, `total_listings`, `sales_poll_cursor_at`, `last_sales_polled_at`, `last_sales_poll_error` | poll: fetch, dedupe, delete, version, record, cursor, success | Discogs orders; curation job; click events through the foreign key | no transaction around an order; any request or statement may fail, the worker may die; orders come back with newer activity | a sold listing leaves and stays away; an order is recorded only when it is dealt with; cursor and version are monotone and mean what they say |
| Inventory sync (`FullStoreSyncJob`, `StoreSync::*`, `SyncStrategies::*`, `CsvExportSync::*`) | `listings`, `sync_status`, `last_sync_error`, `sync_progress_pct`, `last_synced_at`, `catalog_coverage`, `total_listings`, `inventory_version` | fetch a snapshot, upsert, delete what is stale, publish | Discogs inventory or export; click events; dashboard | a long job on a stale copy of the store row; the inventory moves under the fetch; syncs overlap | a successful sync publishes its snapshot, a failed one hides nothing; the status tells the truth |
| Page cache and curation (`StorefrontCuration::CacheManager`, `DailyCurationService`, `StoresController#show`) | cached pages by store, day, version | look up, build, write, prewarm | reads what the jobs write | read version, read rows, write page: three moments | no page of the current version shows a record that is gone |
| Page curation (`StorefrontCuration`, `CrateStrategies::*`, axes) | none | pick crates from the available listings | - | exclusion between crates, small inventories | crates share no listing, sizes and order |
| Explore pages (`CrossStoreWallCuration`) | cache by day and number of stores | curate across stores | reads listings | key without versions | - |
| Scheduling (`recurring.yml`, `SalesPollDispatcherJob`, `SyncAllStoresJob`, concurrency limits) | job tables, semaphores | enqueue, claim, release, expire | every job | duplicates, expiry under a running job, starvation | every due store is served |
| Enrichment (`EnrichmentJob`, `EnrichmentService`, `EnrichmentSweepJob`) | `enrichment_status`, `last_enriched_at`, `releases` | enrich, sweep | Discogs, MusicBrainz | watermark against a running sync, failures not swept | every listing is enriched in the end |
| Discogs clients | rate-limit window per client | request | Discogs | pacing is per instance | no more than 60 requests a minute |
| Onboarding and OAuth (`DiscogsSellerLookup`, `AuthController`, `AuthCallbackService`, `StoreOnboarding`) | `stores`, `store_owners`, `waitlists`, cached lookups, session keys | look up, apply, claim, connect, callback, onboard, delete | Discogs; sync job; the lookup pages | one flow is three requests, its state is in the cookie; two flows share a callback; others write between check and insert | a store has the owner that authorised it, and nobody else's browser |
| Seller lookup (`useDiscogsLookup`, `useAdminDiscogsLookup`, the claim and onboarding forms) | lookup state, controller, timer | type, submit, abort, time out, answer, retry | the lookup endpoints; the forms that post for the seller found | answers of abandoned requests come late; two hooks that keep and drop their controller differently | an answer is about the name on screen, and every lookup ends |
| Wantlist export | - | add each record of a pile | Discogs | rate limit in the middle | added, skipped and failed add up |
| Application form (`pages/apply`, `useTurnstile`, `WaitlistRegistration`) | form and its errors, script tag, widget, token, flash, `waitlists` | open, type, submit, answer, confirm, leave | Turnstile; the server | a token is good once and expires; answers come to pages that are gone; the confirmation travels in a flash | a registration is confirmed once, a refusal is explained, the form gets a new token |
| Animated pages (`FeaturedRecordsRail`, `usePreload`; `useTactileHover` and `usePointerProximity`, which no page uses at this commit) | animation frames, idle callbacks, pointer state | mount, frame, pointer, cancel | the browser's frame and idle queues | a callback that is asked for runs later, perhaps after its page | nothing acts for a page that is gone; an element nobody points at rests |
| Dashboards (`pages/admin/dashboard`, `pages/dashboard`, `Admin::StoreHealth`, `useResync`) | stores' columns; list, filters, sections, menus; the seller's button | list, filter, search, open, resync, enrich, delete, reload | sync and enrichment jobs | the page is a copy that reloads late or not at all, and its components keep state across reloads | the four readings of a store's health agree; a stuck store can be started again; nothing looks busy for ever |
| Smoke test (`scripts/playwright_smoke.mjs`) | plan, collector, browser, exit status | visit, guard, click, request, report | every page | retries, early returns and exceptions may lose a failure | a run passes only if nothing it counts as a failure happened, and it ends |
| Admin accounts, mail | `admins`, `admin_totps` | sign in, notify | - | failed-attempt counters | - |
| Pile (`usePile`, `PileSheet`, `ShopperProvider`, `useDialogFocusTrap`) | pile in `localStorage` and on screen, sheet, request, focus | add, remove, clear, open, close, send, connect | the Wantlist endpoint | two copies of a pile; a request outlives the sheet; controls vanish under the focus | a store's pile holds what was put there; the sheet tells the truth and keeps the focus |
| Crate browsing (`useCrateRouting`, `useBrowseRouting`, `useCrateNavigation`, the wall) | address, history, mode, crate, index, page of the wall | select, back, reload, skip to the content, riffle, swipe, flip, peek | the catalog of the load; Inertia's history | five copies of where the shopper is, kept in step by effects | what is on screen exists; Back leaves the crates |
| Rest of the frontend | theme, motion | - | - | - | presentation |

The hazards of this code, each at its line, are listed under `hazards` in
`PROJECT.json` with the properties that cover them, or the reason none does.

## The modules

`StoreTables` holds the rows that jobs and pages share (variables `shelf`,
`clicked`, `store`, `curationDue`, the clock `now`) and one operator per database
statement: `InsertRows` (`upsert_all`), `DeleteRows` (`delete_all`, which the
foreign key of `click_events` refuses while a row is referenced: `Deletable`),
`NullifyClicks`, `Bumped` (`increment_inventory_version!`), `Click` (a row of
`click_events`). `unbumped` is the one history variable: the rows deleted since
`inventory_version` last moved.

`SalesPolling` is the poller of one store. `PollStart .. EnqueueCuration` are the
statements of `SalesPollStoreJob#perform` in their order, the program counter is
`poll.pc`. `FetchFails` is any request that raises, `DeleteRefused` the foreign
key, `PollCrash` the death of the worker, which runs no rescue. The environment
places orders, touches them (`last_activity`), stocks new records, clicks, and
lets time pass. `OrderLedger` is what a poller promises, in five lines of state
machine; `ImplementsLedger` maps `placed` to the orders that exist at Discogs
and `settled` to those with a recorded event.

`InventorySync` is `FullStoreSyncJob` from `Store.find` to its final status. A job
carries `mem`, the copy of the columns its ActiveRecord object holds, and `Saved`
writes only the assigned columns that differ from that copy, as `update!` does.
`FetchPages` returns any subset of what was for sale while the pages were read, the
whole of it only if nothing changed; `TriggerExport` takes a new export or, after a
409, an old one (an export holds the inventory as of its request). `Worker` is a set:
the semaphore of the job expires after three minutes, and `stores:sync` runs the job
without it.

`StorefrontCache` is the page cache with any number of builders (web threads and
curation jobs), each between its reads and its write. Its environment is
`InventoryWrite`, the least it needs of the jobs: rows may vanish at any time if
they are remembered until the version moves, and the version moves up.

`Storefront` composes the three over one set of tables: it extends `InventorySync` with
the poller (`Sales`) and the page cache (`Pages`), which are `INSTANCE`s; pages show
`Available`, and the jobs together are shown to implement the environment of the
cache (`ImplementsPageCache`). Its specification is `StorefrontSpec`; `Spec` is the
sync's.

`Pile` is one tab on the pages of several stores. `page` is the state of the mounted
page's components, `stored` the `localStorage`; a click with the renders and effects
it causes is one step, as React flushes them before the next event. What the sheet
renders is an operator of the page (`SheetControls` and the operators under it, one
per component), in the order of the document, since the focus trap works on that
order; an action needs its control on screen. A wantlist request lives in a slot of
`requests` and outlives the sheet; a page that is gone does not hear the answer
(`live`). `Serve` is what `CreatePileWantlistService` leaves at Discogs: any part of
the listings. `PileLedger` is what the piles promise.

`Browsing` is the page of one store, with `Riffle` for its arithmetic: thresholds of a
drag, moves in a crate, the window of cards, pages of the wall, arrow keys on tabs. The
history has an entry with the crate of the address (`url`), whether that has a fragment
(`hash`), and the crate in its state (`crate`). Going through the history (`PopState`)
mounts the page anew from the address, as Inertia does at a popstate with a state. The
shell's skip link (`SkipToContent`) is a popstate without one: only `handlePopState`
hears it, so the page leaves the crate while the address keeps it (`skipped` remembers
such an entry). `Stage` is the key under which React mounts
what is shown, so that a change of it resets the state below (`FreshStage`), and a
change of the crate in place runs the effects (`UseResetEffect`, `UseClampPageIndex`).
Every load brings a catalog. Windows are widths in pixels around the two breakpoints
(`TierFromWidth`), and the two storages of the hints may be refused by the browser
(`storage.usable`).

`Onboarding` holds the records of sellers and one operator per handler that writes
them; `SellerTab` is one browser tab that goes through them: the two lookup hooks with
requests in flight, abort signals and timers (`calls`, `aborted`, `hook`), the pages
with their forms, and the session cookie with the keys of the two OAuth flows.
Everybody else acts through the same handlers (`Others`). A callback reads whether the
store exists in one step and writes in the next (`"linking"`, `"creating"`), as do the
admin's checks and the insert (`"onboarding"`). `LookupLedger` is what a lookup
promises.

`StoreDesk` holds the rows of `stores` as the dashboards see them (`rows`), the jobs
that change them (`jobs`), and two pages: the admin's (`desk`: the stores it knows, the
filters, the search, the sections that are open, the menus, whether it polls) with
its requests in flight, and the seller's (`seller`). `Health` is the server's
reading of a store; what the page makes of it - counts, filters, sections, bars, menus
- is one operator per component. `ReloadTick` is the interval of `useResync`, `Serve`
and `Arrive` the server and the answer, in any order; a visit that begins interrupts the
one before it.

`ApplyForm` is the application: `form` is the page on screen, which carries the number
of its mount, so that a widget, a listener or an answer can be told from one of a mount
before it; `script`, `listening` and `widget` are `useTurnstile`; `requests` are POSTs
and the redirects that follow them; `waitlist` and `flash` the server's side
(`WaitlistRegistration`, `TurnstileVerifier`). `Frames` holds what three other pages
leave with the browser: the frame of the drifting rail, the idle callbacks that preload
covers (with `Riffle`'s window), the frame of an element that follows the pointer
(two hooks with their tests, for which a page is assumed: none uses them yet).
`Pages` composes both into one document whose visitor goes from page to page: `Quit`
runs the cleanups of the page that is left.

`SmokeTest` runs a plan of tests - `ThePlan` is the script's, test by test - whose
steps are the script's helpers. Each may fail in each way it can (`Fault`): the server
answers an error, the page raises, a wait runs out. `errors` is what the collector
kept. Two histories remember what it should have known: `failed` that something the
script counts as a failure happened under test, `cut` what ended a test before its last
step (a page with Rails' error, or an invitation in the place of a store, which is
recorded as "info" and so not kept).

`*_proofs` hold the theorems; `MC*` give constants their values. Operators that
`PROJECT.json` lists under `mutants` are deliberate bugs next to the operator they
replace; no action uses them, and each breaks the property it is listed with.

### Abstractions

*Backend.* A listing, an order, a page are values without content: prices, titles,
scores, formats and the LP filter play no part, a page is the set of the listings it
was built from. An error text is a Boolean, a progress percentage is set or unset. `0`
in a time column is NULL. The reads of one SQL statement are atomic, and so are the
two statements of `update_store_state`, which run in a transaction, and the count that
follows `update_columns` in `finalize_sync`. The counters `surface_count` and
`last_surfaced_at`, which the curation job also writes, are left out: nothing modelled
reads them. An order always has a readable `last_activity`. `race_condition_ttl` is
left out: it answers from an entry of the same key, which here is an entry that has
not been evicted yet.

*Frontend.* Animations, announcements, prices and copy are left out, and with the
exit animation the short time in which a closed sheet is still in the document. A
gesture is one of a few drags on either side of the thresholds. One tab: two tabs of
a store overwrite each other's pile (see the end). A page never changes its store
in place, as every visit mounts the layout anew. The timer that opens the highlighted
record finds its wall still mounted or is lost with it.

*Dashboards.* Of a job there is what the columns show: it starts, ends, fails, or its
worker dies. Time is the age of the last sync and enrichment, in ticks. Progress
percentages, elapsed times and the order of the cards are left out.

*Application.* A token is a number, and Turnstile's answer is whether it is unspent;
two fields stand for the form, the username, which must be new, and another that is
only required. *Frames.* A proximity is one of `Proximities` distances, a pixel of the
rail one frame of its speed. *Smoke test.* What a page shows is nondeterministic; a
selector is a step of its kind. `browser.close()` is assumed to succeed.

*Onboarding.* A seller is identified with his Discogs account; a plausible name is one
that passes the format checks of client and server, which agree on those used here. The
server's answer and its arrival are one step, taken at any time. Leaving a page
during a POST gives the POST up. CSRF, mail, Turnstile's own protocol and the sign-in
of admins are left out. Of the admin's statuses `none` stands for `creatable`,
`failed` for `error`, `not_found` for `lookup_error` and `invalid`.

## The runs

| run | instance | question |
|---|---|---|
| `sales_polling` | 2 listings, 2 orders sharing one, clock to 3, one fault, clicks on the shared listing | does the poller implement the ledger, keep cursor and version straight, catch up after every failure? |
| `clicked_sale` | the same without faults or time | is a sold listing removed even if someone clicked it? **No** |
| `inventory_sync` | 2 listings, 1 worker, both strategies, clock to 4, one fault | does a sync publish its snapshot, hide nothing until then, and leave an honest status? |
| `overlapping_syncs` | 1 listing, 2 workers | the same status with two syncs? **No** |
| `storefront` | 1 listing, 1 order, poller, CSV sync, 1 builder, one midnight | are pages fresh with every job at work? |
| `crash_before_bump` | 1 listing, 1 order, poller with one fault, 1 builder | are sold records off every page once all is quiet? **No** |
| `pile` | 2 stores, one with a handoff, 3 records, 2 requests | are piles kept, is the focus never lost, are results real? |
| `browsing` | 2 catalogs, 3 crates, 3 widths, a history of 2 entries, the skip link, 4 gestures, storage or none | do address, history, mode, crate and index agree, and does Back leave the crates? |
| `seller_tab` | 2 sellers, one with a valid name and a stock, 2 lookups in flight | are answers about the name, owners verified, lookups ended? |
| `store_desk` | 2 stores, 2 requests, any two of clicks, jobs, ticks and faults | does the admin see and reach what needs attention, and does nothing stay busy? |
| `pages` | 1 name, 3 tokens, 2 requests, 2 crates, 5 places | does anything act for a page that is gone; is an applicant told the truth, and can he go on? |
| `smoke_test` | the whole plan of the script | is everything the script counts as a failure told by the exit status, and does every run end? |

What the properties say:

* `ImplementsLedger`: rows leave only because they were sold; an order is recorded
  only when none of its listings is left on the shelf; a record stays.
* `CursorIsHighWater`: the cursor is the newest activity *of one poll*, yet everything
  older has been processed. It supposes the page holds all recent orders (`PageSize`).
* `SoldLeavesShelf`, `ActivityCatchesUp`: after any failure a later poll does what was
  left undone - unless a clicked row blocks it (`Blocked`).
* `DeletionsAreVersioned`: without faults, a deletion without its version is one in
  progress. What a crash between the two does is the question of `SoldRecordsLeavePages`.
* `SnapshotIsPublished`: what a successful sync makes available is exactly what it
  fetched, as the watermark is its start. `ShownUntilPublished`: before that it hides
  no row, whatever it wrote. `IdleIsClean`, `CountIsExact`, `SyncSettles`: the status
  columns tell the truth, and a crash is repaired by the next sync.
* `CachedPagesAreFresh`, `ServedPagesAreFresh`: a page under the current version shows
  no record whose deletion is complete.
* `PileInv`: storage and screen agree, a pile holds records of its store once, a gone
  page has no live request. `ImplementsPiles`: a pile changes by one record or is
  emptied, and survives everything else.
* `FocusIsPlaced`: whatever a removal, a confirmation or an answer takes away, the
  focus is on something that is there, in the sheet while it is open.
  `AnswersAreReal`: a success is one of this store, a progress is a live request.
* `BackLeavesCrates`: one Back leaves a crate that was opened from the floor, whatever
  was selected, reloaded or gone back to in between - except above an entry where the
  skip link has left the crate of the address (`Skipped`).
* `PanelShowsCrate`, `ShownRecordExists`: mode and crate agree; index, page of the wall
  and peek sheet point at records that exist. `BrowsingInv` adds what they rest on
  (`FloorSurvivesReload`: a shopper who sees no crate sees none after a reload, with the
  same exception; `CratesAreAhead`, `DirectIsAddressed`), that a compact crate always
  shows one of its two hints until the card has been flipped, storage or none, and that
  the Tab key reaches the tabs at exactly one of them, also when the open crate is not
  among them.
* `LookupInv`, `AnswerIsForTheName`, `LookupSettles`, `ImplementsLookups`: at most one
  request is live, it is about the name in the field or the address, a running lookup
  has something to end it, and it ends.
* `OwnersAreVerified`: only the seller's account owns a store or sees its dashboard,
  though an abandoned claim leaves its keys in the session and takes the next
  callback.

* `FilteredStoresAreShown`: what a filter lets through is on screen, although sections
  keep whether they are open and a reload moves stores between them. `TriageAgrees`: a
  filter's count, its list, the section and the bars agree about a store's health.
  `StuckStoresAreOffered`: a store whose job died or failed is offered that job.
* `ShownActivityIsCurrent`, `SubmittingEnds`: a job that has ended is not shown at
  work for ever, though reloads are lost or answered out of order; the seller's button
  is let go.
* `PagesInv`: the parts of the form agree (the widget is the page's, a busy button has
  a request, a confirmation on screen is of a registration, a refusal names its
  reasons); the rail stays in its loop, only covers near the card are loaded, an
  element nobody points at rests. `NothingOutlivesItsPage`: a page that is left leaves
  no listener, no widget, no frame and no load that is not aborted.
* `ConfirmedOnce`, `TokensAreRenewed`: a confirmation is shown once per registration
  at most, whatever is lost or reloaded; a token that a refusal has spent is replaced.
* `FailuresFailTheRun`, `SmokeEnds`: the exit status is `0` only if the run came to its
  last test, nothing the script counts as a failure happened under test, retries
  included, and no test ended early but at an invitation in the place of a store - so a
  run may pass that has tested no store at all; every run ends. A 4xx and a page without
  the app are no failures to the script (see the end). `SmokeInv`: a page is listened to
  while it is tested, and no browser survives the process.

Three runs show the code doing something else than its comments or specs say
(`findings`): the foreign key that blocks the poller for good, the error that
survives a successful sync, the version that never moves after a crash.

### Bounds

`MaxTime`, `MaxSyncTime`, `MaxDay` end the clocks, `MaxFaults` and `MaxSyncFaults` the
failures. Two listings and two overlapping orders suffice for an order of which only
part is left to delete; three ticks with a slack of one tell activity inside the slack
from activity beyond it; one fault may fall between any two statements, and the retry
after it runs to its end. In `inventory_sync` four ticks are two syncs, so that the
second meets what a failed or crashed first one left. `SyncCrash` is disabled at the
last tick, where the clock lets no sync follow. `storefront` has one listing, one
midnight and one cached page at a time (`OnePage`): freshness is a statement about one
record and one entry at a time, entries are looked up, written and evicted each by its
own key, and the theorems below have no bound. That builders race each other is
covered by those theorems, for any `Builder`. Its one sync follows the CSV path, whose
snapshot may be older than the sale; the paged path is checked in `inventory_sync`.

In `pile` two requests are what it takes for the answer of a forgotten one to meet
another; two records of one store for a removal that leaves the sheet with content and
one that does not; the second store for a visit that must not touch the first.
`MaxInFlight` disables the handoff while both slots are taken, and a real shopper
would have to close and reopen the sheet twice within a request. The handoff and the
address of a wantlist both need the store's Discogs account, so one store has both and
the other neither, and a success never has *Keep browsing* in place of the shop. In
`browsing` two entries (`MaxHistory`) are a floor and a crate; the address of a crate
has a fragment, so that the skip link replaces its entry and leaves room for a crate
above it, while under the other addresses it adds an entry. What the entries say of
each other relates neighbours, and the theorems below have no bound on the history. The
two catalogs are two days: two featured crates and no genres, then one of the two has
become the only genre and the other is empty; a load brings either of them, with the
address of the floor, of a crate or of a highlighted record. A store that is still
curating (`busy`) mounts nothing of all this and is left out of the run. A wall of two
records with one on a page has a last page to be beyond, and the four gestures are a
pull and a flick that change the card, and a swipe to either side. The widths are both
sides of the first breakpoint and the far side of the second. In `seller_tab` the hook
remembers one lookup while another runs (`MaxCalls`), and the second seller has no
valid name and no stock.

In `store_desk` two events (`MaxEvents`: visits, clicks that change the list or ask
for something, nightly jobs, ticks and faults) are what it takes for a job to be asked
for and to die, or for a filter to be set and a section to be closed; jobs and reloads
themselves are not counted. `StaleAfter` and `SearchThreshold` are 2, so that a
healthy store may get stale and the field may go. One store is new, the other was
synced and is healthy or partial and has clicks, which refuse its deletion. In `pages`
three tokens (`MaxTokens`) are one spent, one held by a widget and one that replaces
it, two requests (`MaxRequests`) a POST and one sent after the page was mounted again;
mounts alternate between two numbers. The crates have more covers than the preload
radius, and fewer. Other pages are visited only without a POST on its way, and aborted
loads have come before a page other than a crate is opened: the parts share no
variable, and each is left with all its callbacks pending. `smoke_test` has no bound.

### Fairness

`SalesPolling` asks `WF(PollStep)`: the dispatcher enqueues the store every minute
(`recurring.yml`) and a worker that runs a poll goes on, unless it dies. This holds
for a store the dispatcher selects: with more than twenty stores due its `LIMIT`
has no order (see the hazards). `InventorySync` asks `WF(SyncStep(w))`: the nightly
`SyncAllStoresJob` and the workers. Nothing is asked of sellers, shoppers, clocks,
faults, evictions or requests. `storefront`, `pile` and `browsing` check safety only.

`StoreDesk` asks weak fairness of the interval that reloads a page that polls, of the
server for a request it has, of the answer on its way, and of `onFinish`, which Inertia
calls however a visit ends; requests may still be lost (a bounded fault). `Pages` asks
it of two things that Turnstile does by itself: a token expires, and the widget, which
stays on the page, solves itself again. `SmokeTest` asks it of the script: every wait
in it has a time limit.

`SellerTab` asks weak fairness of the two timers and of `Settle`: a browser fires a
timer that is armed, and a fetch that is aborted or answered settles. Nothing is asked
of the person. `LookupSettles` needs the timer alone: the network may never answer.

## The proofs

Each invariant below is stated together with what it needs to be inductive. A proof has
a lemma or a step for every action, and a theorem about the specification at its end.

* `SalesPolling_proofs!TypeCorrect`, `DeletionsVersioned`: from the assumptions of the
  constants and a finite `Listing` (so that a shelf can be counted).
  `DeletionsAreVersioned` is inductive given the types.
* `SalesPolling_proofs!PollingImplementsLedger`: the refinement, for every set of
  orders and listings, page size, slack and number of faults. The steps of the
  ledger need to know what the poller knows: `LedgerInv` says that the order at
  work was placed, that from the pluck to the deletion the rows found are all the
  rows its listings have - which rests on sold listings never being stocked again -
  and that from the deletion to the record it has none. `DeleteListings` is then a
  `Remove`, `Record` a `Settle`, and every other step of the poller a stutter.
* `SalesPolling_proofs!CursorIsSound`: an order active before the cursor is processed,
  as long as all orders fit one page (`Cardinality(Order) <= PageSize`). Without that
  the property is false: an order pushed off the first page is never read, which is a
  hazard of the list that has no property. `CursorInv` adds that a poll in its loop has
  every order it has not recorded on its page, or has passed it with no time later
  than that order's.

* `Storefront_proofs!TypeCorrect`, `DeletionsVersioned`: with any number of workers,
  hence of overlapping syncs. The work is in `Saved` and `Assigned`: whatever columns
  differ, a row stays a row and a copy a copy.
* `Storefront_proofs!IdleStoresAreClean`, `IdleStoresAreCounted`,
  `SnapshotsArePublished`, `RowsStayAvailable`: with one worker (`Worker = { w }`).
  `Saved` writes what differs from the job's copy, so everything rests on the copy
  being the row, which a second sync breaks at once: the run `overlapping_syncs` is
  the counterexample. `RowInv` is that and what the row says while the sync runs;
  `StampInv` orders the stamps: until the upsert every row was seen before the sync
  started, afterwards the rows seen since are the snapshot.

* `Storefront_proofs!CacheStaysFresh`, `AnswersAreFresh`: for any number of
  builders and days, under any `InventoryWrite`. Freshness of the cache is not
  inductive, since a builder carries an old version and a page to a later write;
  `CacheInv` adds that no builder or entry is ahead of the store row, and that what
  a builder carries is fresh.
* `Storefront_proofs!JobsImplementPageCache`: the composed system implements
  `StorefrontCache`. Every statement of the poller and of the syncs is an
  `InventoryWrite`; `WriterInv` says what that needs, that the snapshots a worker holds
  or may still fetch are listings and that the store row has a version. With
  `CacheStaysFresh` and `AnswersAreFresh` this gives `CachedPagesStayFresh` and
  `AnswersStayFresh` for the composition, with any number of workers and builders; they
  rest on `StorefrontAssumption`, the assumptions of the three parts.
* `Storefront_proofs!AllDeletionsVersioned`: the same of the versions, although either job
  clears what the other has deleted.

* `SellerTab_proofs!LookupIsSound`, `AnswersFollowNames`, `OwnersAreSellers`,
  `LookupsAreKept`: for any sellers and any number of lookups in flight. The invariant
  is one conjunction, since each part needs the others: `LookupInv` (a live request is
  the hook's and the hook is loading) and `AnswerIsForTheName` (a live request is about
  the name on screen) go round the pages with `PagesAreNamed` and `HookIsMounted`;
  `OwnersAreVerified` needs of the pages only that an account that waits to be linked
  is the page's seller. Every action has a lemma for what it does to the records, to
  the lookup and to the session. `LookupsAreKept` maps a running hook to `waiting`;
  that an answer is never followed by another one without a question in between is
  where the aborts of `Reset`, `PerformLookup` and the timers are needed.

* `SmokeTest_proofs!FailuresAreReported`: for every plan. `KeptInv` says where a
  failure is until the end: in a record, in the exception that is being thrown, or
  fatal; and that a page that shows Rails' error has left a record, whatever its
  status was, on which the guards that return early rely. The return at an invitation
  leaves nothing, and the theorem says so.
* `SmokeTest_proofs!PagesAreHeard`: for every plan. `HeardInv` ties the page to its
  browser, and between the first and the last step of a test the listener to what the
  test asked for.

* `Pages_proofs!PagesTellTheTruth`, `CallbacksEndWithThePage`, `ConfirmationsAreEarned`:
  for all names, fields, tokens and numbers of POSTs under way. `PagesIInv` has one part
  per page. Rail, covers and pointer each belong to one place, and are at rest
  elsewhere. Of the form, `WidgetIsMounted` numbers the mounts and says that whatever is
  left of an earlier one can no longer be heard; `OneWaits` that the form waits for one
  POST at most, its own; `EarnedInv` that what confirms, the redirect on its way
  and the flash included, is paid for by a registration of this browser, which is what
  a reload or a lost answer must not multiply.

* `Pile_proofs!PilesAreKept`, `FocusIsNeverLost`, `ResultsAreReal`: for all stores,
  records and numbers of requests. `PileIInv` is the conjunction of the three: that a
  result is real rests on the requests being the mounted page's, and that the focus has
  its place on a closed sheet asking nothing. What a removal leaves of a pile is a fact
  about a filtered sequence, by induction over its length; a theorem that takes the
  induction hypothesis as an operator cannot be used, so it is taken as the least
  counterexample, which exists since the order of the naturals is well founded.
* `Pile_proofs!PilesFollowTheLedger`: the refinement of `PileLedger`. A click that
  removes a record is a `Take` of the place it has, for which the pile without
  it has to be shown to be the sequence without that place.

* `Browsing_proofs!BrowsingIsSound`, `BackLeadsToTheFloor`, `PanelsShowCrates`,
  `ShownRecordsExist`: for all crates, catalogs, windows and histories. `BrowsingIInv`
  is the types, `HistoryInv` (what the entries say of each other and of the page, each
  part with its exception for an entry at which the skip link left a crate: `PushKeepsCrates` and
  `SkipToContentKeeps` show that nothing else breaks it) and
  `PageInv`: the mode has the crate (`ModeFits`), the hints agree with the storages
  (`HintFits`), the places lie within what is in the stage (`CrateFits`, `WallFits`). A
  step ends in `Rendered`, which either keeps the stage, then the effects clamp the
  places, or changes it, then they are reset; so an action has to show only that the
  history and the mode are right. `DistinctCrates` is what the server guarantees
  (`storefront_curation.rb`): the slug of a crate is the parameterised genre
  or one of the fixed featured slugs, so no two crates of a catalog share one.

* `StoreDesk_proofs!TypeCorrect`, `FilteredStoresStayShown`, `ReadingsAgree`,
  `StuckStoresStayOffered`: for all stores - finitely many, as the rows of a table are -
  searches, thresholds and numbers of requests. Every page the admin sees is `Rendered`,
  of which `RenderedIsDesk` shows what the type and the filter ask, whatever was drawn
  before. That the readings agree is not a matter of the page alone: the section
  of the healthy may show no bar at work, and the card was read long ago, perhaps
  overtaken by other answers. `CardFits` says it of every card, and the invariant
  carries it through the answers in flight (`IsSent`). `StuckStoresAreOffered` turns out
  to hold whether or not a job is left. That `Unused` finds a number is the
  pigeonhole principle, and the least such number needs the naturals well founded.

The type invariants of polling and sync are proved and no longer checked as properties
of their runs.

Every invariant and every action property that the passing runs check is stated by one
of these theorems, and so are the four refinements. Only model-checked: liveness
(`TokensAreRenewed`, `SmokeEnds`, `SoldLeavesShelf`, `ActivityCatchesUp`, `SyncSettles`,
`ShownActivityIsCurrent`, `SubmittingEnds`, `LookupSettles`), which rests on fairness and
`ENABLED` and is out of the provers' reach. The expected violations are what TLC finds.
The theorems with one worker, and `CursorIsSound`, have a hypothesis beside the
assumptions of the constants; the runs `inventory_sync` and `sales_polling` are
instances of it.

`Stock` in `SalesPolling` forbids restocking a sold listing. A sync can do just that
when its snapshot is older than the sale; `Storefront` has that behaviour, so the
ledger is a theorem about polling, not about polling beside a sync.

## Not modelled, and the plan

Modelled so far: polling, the sync, the page cache and their composition; the pile,
browsing, the seller lookup and onboarding, the dashboards, the application form, the
callbacks of pages and the smoke test. Open, in this order:

1. `InventoryFetch`: the page loop, two passes, the page limit and `max_pages`;
   when `complete` may be believed; refines `FetchPages`. `ExportRequest`: trigger,
   conflict, polling, time-out; refines `TriggerExport`/`DownloadExport`.
2. `JobQueue` and `Dispatch`: semaphores with expiry, the dispatcher's due stores and
   budget, the nightly fan-out; starvation and duplicates.
3. `Enrichment`: status, sweep and watermark beside `InventorySync`.
4. `Curation`: crates over small inventories against a reference definition;
   disjointness as a theorem. `Wantlist`: its counts under rate limits; the admin
   lockout; request pacing.
5. Proofs: of each new module with it. Of the sync beside the poller, which of
   `RowInv` and `StampInv` survives sales between its statements, and with them what
   `Storefront` may promise of counts and snapshots.

What the models show of the code beside the findings:

* A sheet closed and opened again while a handoff is in flight offers the handoff anew
  (`pile_sheet.tsx:79`). Two tabs of a store overwrite each other's pile, since
  nothing listens to the storage (`use_pile.ts:51`). The focus trap prevents every Tab
  and acts only at the two ends, so that Tab from a control in between stays there
  (`use_dialog_focus_trap.ts:58`).
* The dashboard's search field goes when a deletion takes the stores below the
  threshold, while its text still filters (`dashboard_panels.tsx:34`). A job that is
  queued is not shown, so a page that saw none working does not start to poll
  (`use_resync.ts:6`). Deleting a store with clicked listings is refused by the
  foreign key (`stores_controller.rb:21`); `Onboarding!DestroyStore` assumes no
  clicks.
* A Turnstile script that has failed to load is never tried again
  (`use_turnstile.ts:116`). Enabled without a site key, the form refuses every POST
  and gives no reason (`turnstile_guard.tsx:16`), which `RefusalIsExplained` excludes.
* The rail wraps at half of its scroll width, off by half a gap
  (`featured_records_rail.tsx:36`). A mouse over an element that a touch enters is
  ignored until it enters again (`use_pointer_proximity.ts:112`).
* The skip link leaves an open crate for the floor (`milkcrate_shell_skip_link.tsx:4`,
  `use_crate_routing.ts:76`). Under an address with a crate, a reload of that floor shows
  the crate again, a crate selected there opens as a direct view, and the browser's Back
  leads from it to the crate of the address instead of the floor.
* The smoke test fails for an error of the server that its retry has survived
  (`playwright_smoke.mjs:82`), passes when every store it opens shows an invitation
  (`playwright_smoke.mjs:233`), and nobody listens to the pages of its last two
  requests. Its header has it monitor "4xx on expected routes" and "Missing or broken
  Inertia page data" (`playwright_smoke.mjs:9`): `visit` and the requests record a status
  of 500 and above only (`:82`, `:432`), and `visitAndWait` forgets that `#app` has not
  come (`:108`), so of either no more is left than what the browser or the page may write
  to the console. The header is at odds with the code, and the model follows the code.

Out of reach or out of scope: Discogs and MusicBrainz payload parsing, scores and
sorting inside a crate, rendering, themes, mail, sitemaps, experiments, rake reports,
lint and build scripts; the elapsed times, percentages and card order of the dashboards.
`classifyDragAttempt` (`first_swipe_lesson.ts:107`) and the crates that
`useCrateRouting` returns are used by no page. How Inertia answers a fragment popstate
beyond leaving the page alone - it writes the address of the load anew into the entry -
is left out, as is what it does with an entry whose state the wall has emptied
(`replaceState({})`), which here is mounted anew like any other. The explore page keeps
no state but its rail and a cache whose key has no version, so it promises nothing
beyond the day.
