-------------------------- MODULE SellerTab_proofs --------------------------
(***************************************************************************)
(* For every set of names and every number of lookups in flight: the       *)
(* lookup of a tab has a request and an end, its answer is about the name  *)
(* on the page, it keeps the promise of LookupLedger, and only a seller's  *)
(* own account owns his store.                                             *)
(***************************************************************************)
EXTENDS SellerTab, TLAPS

HookTypes == hook \in HookState /\ calls \subseteq Call /\ aborted \subseteq Ids

PageIsRight == page \in PageState /\ PagesAreNamed

LookupIsRight ==
    /\ LookupRuns /\ LoadingEnds /\ OneLiveCall /\ OneController
    /\ TimerIsLive /\ HookIsMounted /\ AnswerIsForTheName

TabIsRight == PageIsRight /\ HookTypes /\ LookupIsRight

IInv == RecordsTypeOK /\ session \in Session /\ TabIsRight

USE OnboardingAssumption, MaxCallsAssumption

-----------------------------------------------------------------------------
(* Pages. *)

\* A page that is shown by Show starts with an idle hook.
LEMMA ShowIsRight ==
    ASSUME NEW p \in PageState, p.at \in NamedPlaces => p.name \in Names, Show(p)
    PROVE  TabIsRight'
<1>1. PageIsRight'
    BY DEF Show, PageIsRight, PagesAreNamed
<1>2. HookTypes'
    BY DEF Show, HookTypes, HookState, IdleHook
<1>3. LookupIsRight'
    BY DEF Show, IdleHook, StoreStatus, LookupIsRight, LookupRuns, LoadingEnds, OneLiveCall,
           OneController, TimerIsLive, HookIsMounted, AnswerIsForTheName, Subject
<1>4. QED
    BY <1>1, <1>2, <1>3 DEF TabIsRight

LEMMA PageAtType ==
    ASSUME NEW at \in Places, NEW n \in Names \cup { Nobody }
    PROVE  PageAt(at, n) \in PageState /\ PageAt(at, n).at = at /\ PageAt(at, n).name = n
BY DEF PageAt, PageState

\* So does every page of a plain address.
LEMMA PlainPageIsRight ==
    ASSUME NEW at \in Places, NEW n \in Names \cup { Nobody },
           at \in NamedPlaces => n \in Names, Show(PageAt(at, n))
    PROVE  TabIsRight'
BY ShowIsRight, PageAtType

\* The invitation starts with the lookup of its name.
LEMMA InvitationIsRight ==
    ASSUME NEW n \in Names, page' = PageAt("invitation", n), MountedLookup(n)
    PROVE  TabIsRight'
<1>1. PageAt("invitation", n) \in PageState
    BY PageAtType DEF Places
<1>2. PageIsRight'
    BY <1>1 DEF PageIsRight, PagesAreNamed, PageAt
<1>3. HookTypes'
    BY DEF MountedLookup, HookTypes, HookState, Call, Ids
<1>4. page'.at = "invitation" /\ page'.name = n
    BY DEF PageAt
<1>5. /\ hook'.status = "loading" /\ hook'.about = Nobody
      /\ hook'.call = 1 /\ hook'.timer
      /\ calls' = { [id |-> 1, name |-> n] } /\ aborted' = {}
    BY DEF MountedLookup
<1>6. LookupRuns' /\ LoadingEnds' /\ OneLiveCall' /\ OneController' /\ TimerIsLive'
    BY <1>5 DEF LookupRuns, LoadingEnds, OneLiveCall, OneController, TimerIsLive
<1>7. HookIsMounted' /\ AnswerIsForTheName'
    BY <1>4, <1>5 DEF HookIsMounted, AnswerIsForTheName, Subject, StoreStatus
<1>8. QED
    BY <1>2, <1>3, <1>6, <1>7 DEF LookupIsRight, TabIsRight

LEMMA SlugIsRight ==
    ASSUME NEW n \in Names, ShowSlug(n)
    PROVE  TabIsRight'
<1>1. CASE \E at \in { "storefront", "waitlisted", "invitation" } : Show(PageAt(at, n))
    BY <1>1, PlainPageIsRight DEF Places
<1>2. CASE page' = PageAt("invitation", n) /\ MountedLookup(n)
    BY <1>2, InvitationIsRight
<1>3. QED
    BY <1>1, <1>2 DEF ShowSlug

LEMMA ClaimPageIsRight ==
    ASSUME NEW n \in Names, ShowClaim(n)
    PROVE  TabIsRight'
<1>1. CASE Show(PageAt("claim", n))
    BY <1>1, PlainPageIsRight DEF Places
<1>2. CASE ShowSlug(n)
    BY <1>2, SlugIsRight
<1>3. QED
    BY <1>1, <1>2 DEF ShowClaim

LEMMA DashboardIsRight ==
    ASSUME session \in Session, ShowDashboard(session)
    PROVE  TabIsRight'
<1>1. CASE Show(PageAt("home", Nobody))
    BY <1>1, PlainPageIsRight DEF Places, NamedPlaces
<1>2. CASE session.owner # Nobody
           /\ \E at \in { "dashboard", "error" } : Show(PageAt(at, session.owner))
    <2>1. session.owner \in Names
        BY <1>2 DEF Session
    <2>2. QED
        BY <1>2, <2>1, PlainPageIsRight DEF Places
<1>3. QED
    BY <1>1, <1>2 DEF ShowDashboard

\* The page of Discogs, and the pages that wait for a POST or a callback.
LEMMA FlowPageIsRight ==
    ASSUME NEW n \in Names, NEW flow \in { "", "claim", "shop" },
           Show([PageAt("discogs", n) EXCEPT !.flow = flow])
    PROVE  TabIsRight'
<1> DEFINE p == [PageAt("discogs", n) EXCEPT !.flow = flow]
<1>1. p \in PageState /\ p.name \in Names
    BY DEF PageAt, PageState, Places
<1>2. QED
    BY <1>1, ShowIsRight

LEMMA CallbackPageIsRight ==
    ASSUME NEW n \in Names, NEW at \in { "linking", "creating" }, NEW account \in Names,
           Show([PageAt(at, n) EXCEPT !.account = account])
    PROVE  TabIsRight'
<1> DEFINE p == [PageAt(at, n) EXCEPT !.account = account]
<1>1. p \in PageState /\ p.name \in Names
    BY DEF PageAt, PageState, Places
<1>2. QED
    BY <1>1, ShowIsRight

-----------------------------------------------------------------------------
(* Records. *)

LEMMA LookUpKeepsTypes ==
    ASSUME RecordsTypeOK, NEW n \in Names, NEW answer \in StoreStatus \cup { "not_found" },
           LookUp(n, answer)
    PROVE  RecordsTypeOK'
<1>1. LocalStoreStatus(n) \in StoreStatus
    BY DEF LocalStoreStatus, StoreStatus
<1>2. CASE UNCHANGED lookups
    BY <1>2 DEF RecordsTypeOK, LookUp
<1>3. CASE answer = LocalStoreStatus(n) /\ lookups' = [lookups EXCEPT ![n] = answer]
    BY <1>1, <1>3 DEF RecordsTypeOK, LookUp
<1>4. QED
    BY <1>2, <1>3 DEF LookUp

LEMMA LinkKeepsTypes ==
    ASSUME RecordsTypeOK, NEW n \in Names, NEW account \in Names, LinkOwner(n, account)
    PROVE  RecordsTypeOK'
<1> DEFINE s == IF stores[n] = "none" THEN stores[n] ELSE "owned"
<1>1. s \in { "none", "unowned", "owned" }
    BY DEF RecordsTypeOK
<1>2. stores' = [stores EXCEPT ![n] = s]
    BY DEF LinkOwner
<1>3. stores' \in [Names -> { "none", "unowned", "owned" }]
    <2> HIDE DEF s
    <2>1. QED
        BY <1>1, <1>2 DEF RecordsTypeOK
<1>4. owners' \in [Names -> Names \cup { Nobody }]
    BY DEF RecordsTypeOK, LinkOwner
<1>5. QED
    BY <1>3, <1>4 DEF RecordsTypeOK, LinkOwner

LEMMA CreateKeepsTypes ==
    ASSUME RecordsTypeOK, NEW n \in Names, NEW account \in Names, CreateOwned(n, account)
    PROVE  RecordsTypeOK'
BY DEF RecordsTypeOK, CreateOwned

LEMMA OthersKeepTypes ==
    ASSUME RecordsTypeOK, Others
    PROVE  RecordsTypeOK'
<1>2. CASE OthersLookUp
    BY <1>2, LookUpKeepsTypes DEF OthersLookUp
<1>3. CASE OthersRegister
    BY <1>3 DEF RecordsTypeOK, OthersRegister, Register
<1>4. CASE OthersOnboard
    BY <1>4 DEF RecordsTypeOK, OthersOnboard, CreatePreview
<1>5. CASE OthersDestroy
    BY <1>5 DEF RecordsTypeOK, OthersDestroy, DestroyStore
<1>7. CASE OthersClaim
    <2>1. PICK n \in Stocked : CreateOwned(n, n) \/ LinkOwner(n, n)
        BY <1>7 DEF OthersClaim
    <2>2. n \in Names
        OBVIOUS
    <2>3. QED
        BY <2>1, <2>2, CreateKeepsTypes, LinkKeepsTypes
<1>8. CASE LookupsExpire
    BY <1>8 DEF RecordsTypeOK, LookupsExpire, ExpireLookup
<1>9. QED
    BY <1>2, <1>3, <1>4, <1>5, <1>7, <1>8 DEF Others

LEMMA UnchangedKeepsTypes ==
    ASSUME RecordsTypeOK, UNCHANGED records
    PROVE  RecordsTypeOK'
BY DEF RecordsTypeOK, records

-----------------------------------------------------------------------------
(* The hooks. *)

LEMMA PageStays ==
    ASSUME PageIsRight, page' = page
    PROVE  PageIsRight'
BY DEF PageIsRight, PagesAreNamed

\* No fetch of a hook that is not loading can answer, so a new one is alone.
LEMMA PerformIsRight ==
    ASSUME TabIsRight, page' = page, page.at \in { "home", "admin" },
           hook.status # "loading", page.field \in Names, PerformLookup(page.field)
    PROVE  TabIsRight'
<1>1. PICK i \in Ids \ (InFlight \cup { hook.call }) :
          /\ calls' = calls \cup { [id |-> i, name |-> page.field] }
          /\ hook' = [status |-> "loading", about |-> Nobody, call |-> i, timer |-> TRUE]
          /\ aborted' = WithCurrent \ { i }
    BY DEF PerformLookup
<1>2. \A c \in calls : c.id \in aborted /\ c.id # i
    BY <1>1 DEF TabIsRight, LookupIsRight, OneLiveCall, InFlight
<1>3. hook.call \in Ids \cup { 0 } /\ aborted \subseteq Ids /\ calls \subseteq Call
    BY DEF TabIsRight, HookTypes, HookState
<1>4. HookTypes'
    BY <1>1, <1>3 DEF HookTypes, HookState, Call, WithCurrent
<1>5. /\ hook'.status = "loading" /\ hook'.about = Nobody
      /\ hook'.call = i /\ hook'.timer
    BY <1>1
<1>6. i \notin aborted' /\ i # 0
    BY <1>1 DEF Ids
<1>7. \A c \in calls : c.id \in aborted'
    BY <1>1, <1>2 DEF WithCurrent
<1> DEFINE new == [id |-> i, name |-> page.field]
<1>8. LookupRuns' /\ LoadingEnds' /\ OneLiveCall' /\ TimerIsLive'
    <2>1. new.id = i /\ new \in calls' /\ \A c \in calls' : c \in calls \/ c = new
        BY <1>1
    <2>2. LookupRuns'
        BY <1>5, <1>6, <2>1 DEF LookupRuns
    <2>3. LoadingEnds' /\ TimerIsLive'
        BY <1>5, <1>6 DEF LoadingEnds, TimerIsLive
    <2>4. OneLiveCall'
        BY <1>5, <1>7, <2>1 DEF OneLiveCall
    <2>5. QED
        BY <2>2, <2>3, <2>4
<1>9. OneController'
    BY <1>1, <1>2 DEF OneController, TabIsRight, LookupIsRight
<1>10. HookIsMounted' /\ AnswerIsForTheName'
    BY <1>1, <1>5, <1>7 DEF HookIsMounted, AnswerIsForTheName, Subject, StoreStatus
<1>11. PageIsRight'
    BY PageStays DEF TabIsRight
<1>12. QED
    BY <1>4, <1>8, <1>9, <1>10, <1>11 DEF TabIsRight, LookupIsRight

\* A hook that is idle, its controller aborted, is right on its pages.
LEMMA IdleIsRight ==
    ASSUME TabIsRight, PageIsRight', page'.at = page.at, page.at \in { "home", "admin" },
           hook' \in HookState, hook'.status = "idle", hook'.about = Nobody, ~hook'.timer,
           calls' = calls, aborted' = WithCurrent
    PROVE  TabIsRight'
<1>1. HookTypes'
    BY DEF HookTypes, HookState, WithCurrent, TabIsRight
<1>2. \A c \in calls : c.id \in aborted'
    <2> SUFFICES ASSUME NEW c \in calls, c.id \notin aborted PROVE c.id \in aborted'
        BY DEF WithCurrent
    <2>1. c.id = hook.call /\ c.id \in Ids
        BY DEF TabIsRight, LookupIsRight, OneLiveCall, HookTypes, Call
    <2>2. QED
        BY <2>1 DEF WithCurrent, Ids
<1>3. LookupRuns' /\ LoadingEnds' /\ OneLiveCall' /\ TimerIsLive'
    BY <1>2 DEF LookupRuns, LoadingEnds, OneLiveCall, TimerIsLive
<1>4. OneController'
    BY DEF OneController, TabIsRight, LookupIsRight
<1>5. HookIsMounted'
    BY DEF HookIsMounted
<1>6. AnswerIsForTheName'
    BY <1>2 DEF AnswerIsForTheName, StoreStatus
<1>7. QED
    BY <1>1, <1>3, <1>4, <1>5, <1>6 DEF TabIsRight, LookupIsRight

LEMMA ResetIsRight ==
    ASSUME TabIsRight, PageIsRight', page'.at = page.at, page.at \in { "home", "admin" },
           Reset \/ ResetLookupState
    PROVE  TabIsRight'
<1>1. hook \in HookState
    BY DEF TabIsRight, HookTypes
<1>2. /\ hook' \in HookState /\ hook'.status = "idle" /\ hook'.about = Nobody /\ ~hook'.timer
      /\ calls' = calls /\ aborted' = WithCurrent
    <2>1. CASE Reset
        BY <1>1, <2>1 DEF Reset, HookState
    <2>2. CASE ResetLookupState
        BY <2>2 DEF ResetLookupState, Teardown, HookState
    <2>3. QED
        BY <2>1, <2>2
<1>3. QED
    BY <1>2, IdleIsRight

\* Ten seconds, on either page.
LEMMA TimeoutIsRight ==
    ASSUME TabIsRight, HandleLookupTimeout
    PROVE  TabIsRight'
<1>1. hook \in HookState
    BY DEF TabIsRight, HookTypes
<1>2. /\ hook' \in HookState /\ hook'.status = "failed" /\ ~hook'.timer
      /\ hook'.about = hook.about /\ hook'.call = hook.call
      /\ calls' = calls /\ aborted' = WithCurrent /\ page' = page /\ ~OnAdmin
    BY <1>1 DEF HandleLookupTimeout, HookState
<1>3. hook.status \in { "loading", "failed" } /\ hook.call # 0
    BY DEF HandleLookupTimeout, TabIsRight, LookupIsRight, TimerIsLive
<1>4. hook.about = Nobody
    BY <1>3 DEF TabIsRight, LookupIsRight, AnswerIsForTheName, StoreStatus
<1>5. \A c \in calls : c.id \in aborted'
    BY <1>2, <1>3 DEF TabIsRight, LookupIsRight, OneLiveCall, WithCurrent
<1>6. HookTypes'
    BY <1>2 DEF HookTypes, HookState, WithCurrent, TabIsRight
<1>7. LookupRuns' /\ LoadingEnds' /\ OneLiveCall' /\ TimerIsLive'
    BY <1>2, <1>5 DEF LookupRuns, LoadingEnds, OneLiveCall, TimerIsLive
<1>8. OneController'
    BY <1>2 DEF OneController, TabIsRight, LookupIsRight
<1>9. hook # IdleHook
    BY <1>3 DEF IdleHook
<1>10. HookIsMounted'
    BY <1>2, <1>9 DEF HookIsMounted, TabIsRight, LookupIsRight
<1>11. AnswerIsForTheName'
    BY <1>2, <1>4, <1>5 DEF AnswerIsForTheName, StoreStatus
<1>12. PageIsRight'
    BY <1>2, PageStays DEF TabIsRight
<1>13. QED
    BY <1>6, <1>7, <1>8, <1>10, <1>11, <1>12 DEF TabIsRight, LookupIsRight

LEMMA AdminTimeoutIsRight ==
    ASSUME TabIsRight, StartTimeout
    PROVE  TabIsRight'
<1>1. hook \in HookState
    BY DEF TabIsRight, HookTypes
<1>2. /\ hook' \in HookState /\ hook'.status = hook.status /\ ~hook'.timer
      /\ hook'.about = hook.about /\ hook'.call = hook.call
      /\ calls' = calls /\ aborted' = WithCurrent /\ page' = page /\ OnAdmin
    BY <1>1 DEF StartTimeout, HookState
<1>3. hook.status \in { "loading", "failed" } /\ hook.call # 0
    BY DEF StartTimeout, TabIsRight, LookupIsRight, TimerIsLive
<1>4. hook.about = Nobody
    BY <1>3 DEF TabIsRight, LookupIsRight, AnswerIsForTheName, StoreStatus
<1>5. \A c \in calls : c.id \in aborted'
    BY <1>2, <1>3 DEF TabIsRight, LookupIsRight, OneLiveCall, WithCurrent
<1>6. HookTypes'
    BY <1>2 DEF HookTypes, HookState, WithCurrent, TabIsRight
<1>7. OnAdmin' /\ hook'.call \in aborted'
    BY <1>2, <1>3 DEF OnAdmin, WithCurrent
<1>8. LookupRuns' /\ LoadingEnds' /\ OneLiveCall' /\ TimerIsLive'
    BY <1>2, <1>5, <1>7
       DEF LookupRuns, LoadingEnds, OneLiveCall, TimerIsLive, TabIsRight, LookupIsRight
<1>9. OneController'
    BY <1>2 DEF OneController, TabIsRight, LookupIsRight
<1>10. HookIsMounted'
    BY <1>7 DEF HookIsMounted, OnAdmin
<1>11. AnswerIsForTheName'
    BY <1>2, <1>3, <1>4, <1>5 DEF AnswerIsForTheName, StoreStatus
<1>12. PageIsRight'
    BY <1>2, PageStays DEF TabIsRight
<1>13. QED
    BY <1>6, <1>8, <1>9, <1>10, <1>11, <1>12 DEF TabIsRight, LookupIsRight

\* A settled fetch that was not the hook's, or no longer, leaves the rest right.
LEMMA IgnoredIsRight ==
    ASSUME TabIsRight, NEW c \in calls, calls' = calls \ { c }, aborted' = aborted \ { c.id },
           page' = page, hook' = hook,
           c.id \in aborted, OnAdmin => hook.call # c.id
    PROVE  TabIsRight'
<1>1. \A d \in calls' : d \in calls /\ d.id # c.id
    BY DEF TabIsRight, LookupIsRight, OneController
<1>2. \A d \in calls' : d.id \notin aborted' => d.id \notin aborted
    BY <1>1
<1>3. LookupRuns'
    BY DEF TabIsRight, LookupIsRight, LookupRuns, OnAdmin
<1>4. LoadingEnds'
    BY DEF TabIsRight, LookupIsRight, LoadingEnds, OnAdmin
<1>5. OneLiveCall' /\ OneController'
    BY <1>1, <1>2 DEF TabIsRight, LookupIsRight, OneLiveCall, OneController
<1>6. TimerIsLive' /\ HookIsMounted'
    BY DEF TabIsRight, LookupIsRight, TimerIsLive, HookIsMounted
<1>7. AnswerIsForTheName'
    BY <1>1, <1>2 DEF TabIsRight, LookupIsRight, AnswerIsForTheName, Subject
<1>8. PageIsRight' /\ HookTypes'
    BY PageStays DEF TabIsRight, HookTypes
<1>9. QED
    BY <1>3, <1>4, <1>5, <1>6, <1>7, <1>8 DEF TabIsRight, LookupIsRight

\* The hook's own fetch ends its lookup.
LEMMA EndedIsRight ==
    ASSUME TabIsRight, NEW c \in calls, calls' = calls \ { c }, aborted' = aborted \ { c.id },
           page' = page, hook.call = c.id, hook' \in HookState,
           hook'.status \in StoreStatus \cup { "not_found", "failed" },
           hook'.status \in StoreStatus <=> hook'.about # Nobody,
           hook'.about # Nobody => hook'.about = Subject,
           hook'.timer => hook'.status = "failed" /\ hook'.call = c.id
    PROVE  TabIsRight'
<1>1. \A d \in calls' : d \in calls /\ d.id # c.id
    BY DEF TabIsRight, LookupIsRight, OneController
<1>2. \A d \in calls' : d.id \in aborted'
    BY <1>1 DEF TabIsRight, LookupIsRight, OneLiveCall
<1>3. hook'.status \notin { "idle", "loading" }
    BY DEF StoreStatus
<1>4. c.id # 0
    BY DEF TabIsRight, HookTypes, Call, Ids
<1>5. LookupRuns' /\ LoadingEnds' /\ OneLiveCall' /\ TimerIsLive'
    BY <1>2, <1>3, <1>4 DEF LookupRuns, LoadingEnds, OneLiveCall, TimerIsLive
<1>6. OneController'
    BY <1>1 DEF TabIsRight, LookupIsRight, OneController
<1>7. hook # IdleHook
    BY <1>4 DEF IdleHook
<1>8. HookIsMounted'
    BY <1>7 DEF TabIsRight, LookupIsRight, HookIsMounted
<1>9. AnswerIsForTheName'
    BY <1>2 DEF AnswerIsForTheName, Subject
<1>10. PageIsRight' /\ HookTypes'
    BY PageStays DEF TabIsRight, HookTypes
<1>11. QED
    BY <1>5, <1>6, <1>8, <1>9, <1>10 DEF TabIsRight, LookupIsRight

\* What a fetch does to the records and to the hook, and that it settles rightly.
LEMMA SettleIsRight ==
    ASSUME RecordsTypeOK, TabIsRight, Settle
    PROVE  RecordsTypeOK' /\ TabIsRight'
<1>1. PICK c \in calls :
        /\ calls' = calls \ { c } /\ aborted' = aborted \ { c.id }
        /\ \/ ~OnAdmin /\ c.id \notin aborted /\ HandleLookupSuccess(c)
           \/ ~OnAdmin /\ HandleLookupError(c)
           \/ OnAdmin /\ c.id \notin aborted /\ FinishLookup(c)
           \/ OnAdmin /\ HandleAdminError(c)
        /\ page' = page
    BY DEF Settle
<1>2. c.name \in Names /\ hook \in HookState
    BY DEF TabIsRight, HookTypes, Call
<1>3. c.id \notin aborted => hook.call = c.id /\ Current(c) /\ hook.about = Nobody
    BY DEF TabIsRight, LookupIsRight, OneLiveCall, Current, AnswerIsForTheName, StoreStatus
<1>4. c.id \notin aborted => c.name = Subject
    BY DEF TabIsRight, LookupIsRight, AnswerIsForTheName
<1>5. CASE ~OnAdmin /\ c.id \notin aborted /\ HandleLookupSuccess(c)
    <2>1. PICK answer \in StoreStatus \cup { "not_found" } :
            /\ LookUp(c.name, answer)
            /\ hook' = [hook EXCEPT !.status = answer, !.about = About(c.name, answer),
                                    !.timer = FALSE]
        BY <1>3, <1>5 DEF HandleLookupSuccess
    <2>2. /\ About(c.name, answer) \in Names \cup { Nobody }
          /\ answer \in StoreStatus <=> About(c.name, answer) # Nobody
          /\ About(c.name, answer) # Nobody => About(c.name, answer) = c.name
        BY <1>2 DEF About
    <2>3. /\ hook' \in HookState /\ hook'.status = answer
          /\ hook'.about = About(c.name, answer) /\ ~hook'.timer
        BY <1>2, <2>1, <2>2 DEF HookState
    <2>4. QED
        BY <1>1, <1>2, <1>3, <1>4, <1>5, <2>1, <2>2, <2>3, EndedIsRight, LookUpKeepsTypes
<1>6. CASE ~OnAdmin /\ HandleLookupError(c)
    <2>1. RecordsTypeOK'
        BY <1>6, UnchangedKeepsTypes DEF HandleLookupError
    <2>2. CASE c.id \in aborted
        BY <1>1, <1>6, <2>1, <2>2, IgnoredIsRight DEF HandleLookupError, Current
    <2>3. CASE c.id \notin aborted
        <3>1. hook' = [hook EXCEPT !.status = "failed"]
            BY <1>3, <1>6, <2>3 DEF HandleLookupError
        <3>2. /\ hook' \in HookState /\ hook'.status = "failed" /\ hook'.about = hook.about
              /\ hook'.call = hook.call
            BY <1>2, <3>1 DEF HookState
        <3>3. "failed" \notin StoreStatus
            BY DEF StoreStatus
        <3>4. QED
            BY <1>1, <1>3, <2>1, <2>3, <3>2, <3>3, EndedIsRight
    <2>4. QED
        BY <2>2, <2>3
<1>7. CASE OnAdmin /\ c.id \notin aborted /\ FinishLookup(c)
    <2>1. PICK found \in StoreStatus \cup { "not_found" } :
            /\ LookUp(c.name, found)
            /\ Teardown(SignupAvailability(c.name, found),
                        About(c.name, SignupAvailability(c.name, found)))
        BY <1>3, <1>7 DEF FinishLookup
    <2> DEFINE answer == SignupAvailability(c.name, found)
    <2>2. answer \in StoreStatus \cup { "not_found" }
        BY DEF SignupAvailability, LocalStoreStatus, StoreStatus
    <2>3. /\ About(c.name, answer) \in Names \cup { Nobody }
          /\ answer \in StoreStatus <=> About(c.name, answer) # Nobody
          /\ About(c.name, answer) # Nobody => About(c.name, answer) = c.name
        BY <1>2 DEF About
    <2>4. Teardown(answer, About(c.name, answer))
        BY <2>1
    <2> HIDE DEF answer
    <2>5. /\ hook' \in HookState /\ hook'.status = answer
          /\ hook'.about = About(c.name, answer) /\ ~hook'.timer
        BY <2>2, <2>3, <2>4 DEF HookState, Teardown
    <2>6. RecordsTypeOK'
        BY <1>2, <2>1, LookUpKeepsTypes
    <2>7. QED
        BY <1>1, <1>3, <1>4, <1>7, <2>2, <2>3, <2>5, <2>6, EndedIsRight
<1>8. CASE OnAdmin /\ HandleAdminError(c)
    <2>1. RecordsTypeOK'
        BY <1>8, UnchangedKeepsTypes DEF HandleAdminError
    <2>2. CASE hook.call # c.id
        <3>1. c.id \in aborted /\ hook' = hook
            BY <1>3, <1>8, <2>2 DEF HandleAdminError
        <3>2. QED
            BY <1>1, <2>1, <2>2, <3>1, IgnoredIsRight
    <2>3. CASE hook.call = c.id
        <3>1. Teardown("failed", Nobody)
            BY <1>8, <2>3 DEF HandleAdminError
        <3>2. /\ hook' \in HookState /\ hook'.status = "failed" /\ hook'.about = Nobody
              /\ ~hook'.timer
            BY <3>1 DEF HookState, Teardown
        <3>3. "failed" \notin StoreStatus
            BY DEF StoreStatus
        <3>4. QED
            BY <1>1, <2>1, <2>3, <3>2, <3>3, EndedIsRight
    <2>4. QED
        BY <2>2, <2>3
<1>9. QED
    BY <1>1, <1>5, <1>6, <1>7, <1>8

LEMMA FieldIsRight ==
    ASSUME TabIsRight, NEW n \in Names \cup { Nobody }, page.at \in { "home", "admin" },
           page' = [page EXCEPT !.field = n],
           IF hook.status = "idle" THEN UNCHANGED <<hook, calls, aborted>>
           ELSE Reset \/ ResetLookupState
    PROVE  TabIsRight'
<1>1. page \in PageState
    BY DEF TabIsRight, PageIsRight
<1>2. page' \in PageState /\ page'.at = page.at /\ page'.name = page.name
    BY <1>1 DEF PageState
<1>3. PageIsRight'
    BY <1>2 DEF TabIsRight, PageIsRight, PagesAreNamed
<1>4. CASE hook.status # "idle"
    BY <1>2, <1>3, <1>4, ResetIsRight
<1>5. CASE hook.status = "idle"
    <2>1. UNCHANGED <<hook, calls, aborted>>
        BY <1>5
    <2>2. OnAdmin' <=> OnAdmin
        BY <1>2 DEF OnAdmin
    <2>3. \A c \in calls : c.id \in aborted
        BY <1>5 DEF TabIsRight, LookupIsRight, OneLiveCall
    <2>4. LookupRuns' /\ LoadingEnds' /\ OneLiveCall' /\ OneController' /\ TimerIsLive'
        BY <2>1, <2>2, <2>3, <1>5 DEF TabIsRight, LookupIsRight, LookupRuns, LoadingEnds,
           OneLiveCall, OneController, TimerIsLive
    <2>5. HookIsMounted'
        BY <1>2 DEF HookIsMounted
    <2>6. AnswerIsForTheName'
        BY <2>1, <2>3, <1>5 DEF TabIsRight, LookupIsRight, AnswerIsForTheName, StoreStatus
    <2>7. QED
        BY <1>3, <2>1, <2>4, <2>5, <2>6 DEF TabIsRight, LookupIsRight, HookTypes
<1>6. QED
    BY <1>4, <1>5

-----------------------------------------------------------------------------
(* Sessions. *)

LEMMA SessionFields ==
    ASSUME session \in Session, NEW n \in Names \cup { Nobody },
           \/ session' = [session EXCEPT !.claim = n]
           \/ session' = [session EXCEPT !.shop = n]
           \/ session' = [session EXCEPT !.shop = Nobody, !.claim = Nobody]
           \/ session' = [session EXCEPT !.shop = Nobody, !.shopper = n]
           \/ session' = [NoSession EXCEPT !.owner = n] \/ session' = session
    PROVE  session' \in Session
BY DEF Session, NoSession

LEMMA CallbackIsRight ==
    ASSUME session \in Session, NEW flow \in { "", "claim", "shop" },
           NEW account \in Names \cup { Nobody }, flow # "" => account \in Names,
           Callback(flow, account)
    PROVE  session' \in Session /\ TabIsRight'
<1>1. session.claim \in Names \cup { Nobody } /\ session.shop \in Names \cup { Nobody }
    BY DEF Session
<1>2. CASE session.claim # Nobody
    <2>1. session.claim \in Names /\ OwnerCallback(flow, account)
        BY <1>1, <1>2 DEF Callback
    <2>2. session' \in Session
        BY <2>1, SessionFields DEF OwnerCallback
    <2>3. CASE flow = "claim" /\ \E at \in { "linking", "creating" } :
                   Show([PageAt(at, session.claim) EXCEPT !.account = account])
        BY <2>1, <2>2, <2>3, CallbackPageIsRight
    <2>4. CASE ShowSlug(session.claim)
        BY <2>1, <2>2, <2>4, SlugIsRight
    <2>5. QED
        BY <2>1, <2>3, <2>4 DEF OwnerCallback
<1>3. CASE session.claim = Nobody /\ session.shop # Nobody
    <2>1. session.shop \in Names /\ ShopperCallback(flow, account)
        BY <1>1, <1>3 DEF Callback
    <2>2. session' \in Session /\ ShowSlug(session.shop)
        BY <2>1, SessionFields DEF ShopperCallback
    <2>3. QED
        BY <2>1, <2>2, SlugIsRight
<1>4. CASE session.claim = Nobody /\ session.shop = Nobody
    <2>1. Show(PageAt("home", Nobody)) /\ session' = session
        BY <1>4 DEF Callback
    <2>2. QED
        BY <2>1, PlainPageIsRight DEF Places, NamedPlaces
<1>5. QED
    BY <1>2, <1>3, <1>4

-----------------------------------------------------------------------------
(* The lookup of a tab, for every state. *)

LEMMA InitIsRight == Init => IInv
<1> SUFFICES ASSUME Init PROVE IInv
    OBVIOUS
<1>1. RecordsTypeOK /\ session \in Session
    BY DEF Init, RecordsInit, RecordsTypeOK, StoreStatus, NoSession, Session
<1>2. page \in PageState /\ page.at = "home"
    BY PageAtType DEF Init, Places
<1>3. hook = IdleHook /\ calls = {} /\ aborted = {}
    BY DEF Init
<1>4. HookTypes
    BY <1>3 DEF HookTypes, HookState, IdleHook
<1>5. LookupIsRight
    BY <1>3 DEF IdleHook, StoreStatus, LookupIsRight, LookupRuns, LoadingEnds, OneLiveCall,
       OneController, TimerIsLive, HookIsMounted, AnswerIsForTheName
<1>6. QED
    BY <1>1, <1>2, <1>4, <1>5 DEF IInv, TabIsRight, PageIsRight, PagesAreNamed, NamedPlaces

\* An action that changes nothing but the page or the session keeps the rest.
LEMMA VisitIsRight == IInv /\ Visit => IInv'
<1> SUFFICES ASSUME IInv, Visit PROVE IInv'
    OBVIOUS
<1>1. RecordsTypeOK' /\ session' = session /\ session \in Session
    BY UnchangedKeepsTypes DEF IInv, Visit
<1>2. CASE \E at \in { "home", "admin", "apply" } : Show(PageAt(at, Nobody))
    BY <1>1, <1>2, PlainPageIsRight DEF IInv, Places, NamedPlaces
<1>3. CASE ShowDashboard(session)
    BY <1>1, <1>3, DashboardIsRight DEF IInv
<1>4. CASE \E n \in Names : ShowSlug(n) \/ ShowClaim(n)
    BY <1>1, <1>4, SlugIsRight, ClaimPageIsRight DEF IInv
<1>5. QED
    BY <1>2, <1>3, <1>4 DEF Visit

LEMMA ApplicationIsRight == IInv /\ SubmitApplication => IInv'
<1> SUFFICES ASSUME IInv, SubmitApplication PROVE IInv'
    OBVIOUS
<1>1. PICK n \in Names : \/ Register(n) /\ Show(PageAt("applied", Nobody))
                         \/ UNCHANGED records /\ Show(page)
    BY DEF SubmitApplication
<1>2. session' \in Session
    BY DEF IInv, SubmitApplication
<1>3. CASE Register(n) /\ Show(PageAt("applied", Nobody))
    <2>1. RecordsTypeOK'
        BY <1>3 DEF IInv, RecordsTypeOK, Register
    <2>2. QED
        BY <1>2, <1>3, <2>1, PlainPageIsRight DEF IInv, Places, NamedPlaces
<1>4. CASE UNCHANGED records /\ Show(page)
    BY <1>2, <1>4, ShowIsRight, UnchangedKeepsTypes DEF IInv, TabIsRight, PageIsRight, PagesAreNamed
<1>5. QED
    BY <1>1, <1>3, <1>4

LEMMA ClaimsAreNames == IInv => PreviewClaim \cup InvitationClaim \cup OwnerClaim \subseteq Names
<1> SUFFICES ASSUME IInv PROVE PreviewClaim \cup InvitationClaim \cup OwnerClaim \subseteq Names
    OBVIOUS
<1>1. hook.status = "none" => hook.about \in Names
    BY DEF IInv, TabIsRight, HookTypes, HookState, LookupIsRight, AnswerIsForTheName, StoreStatus
<1>2. page.at \in { "invitation", "claim" } => page.name \in Names
    BY DEF IInv, TabIsRight, PageIsRight, PagesAreNamed, NamedPlaces
<1>3. QED
    BY <1>1, <1>2 DEF PreviewClaim, InvitationClaim, OwnerClaim

LEMMA ClaimIsRight == IInv /\ Claim => IInv'
<1> SUFFICES ASSUME IInv, Claim PROVE IInv'
    OBVIOUS
<1>1. PreviewClaim \cup InvitationClaim \cup OwnerClaim \subseteq Names
    BY ClaimsAreNames
<1>2. PICK n \in Names :
        \/ /\ session' = [session EXCEPT !.claim = n]
           /\ Show([PageAt("discogs", n) EXCEPT !.flow = "claim"])
        \/ ShowSlug(n) /\ UNCHANGED session
    BY <1>1 DEF Claim
<1>3. session' \in Session
    BY <1>2, SessionFields DEF IInv
<1>4. TabIsRight'
    BY <1>2, SlugIsRight, FlowPageIsRight
<1>5. RecordsTypeOK'
    BY UnchangedKeepsTypes DEF IInv, Claim
<1>6. QED
    BY <1>3, <1>4, <1>5 DEF IInv

LEMMA ConnectionIsRight == IInv /\ (Connect \/ Disconnect) => IInv'
<1> SUFFICES ASSUME IInv, Connect \/ Disconnect PROVE IInv'
    OBVIOUS
<1>1. page.name \in Names
    BY DEF Connect, Disconnect, IInv, TabIsRight, PageIsRight, PagesAreNamed, NamedPlaces
<1>2. session' \in Session
    BY <1>1, SessionFields DEF IInv, Connect, Disconnect
<1>3. \/ Show([PageAt("discogs", page.name) EXCEPT !.flow = "shop"])
      \/ ShowSlug(page.name)
    BY DEF Connect, Disconnect
<1>4. TabIsRight'
    BY <1>1, <1>3, SlugIsRight, FlowPageIsRight
<1>5. RecordsTypeOK'
    BY UnchangedKeepsTypes DEF IInv, Connect, Disconnect
<1>6. QED
    BY <1>2, <1>4, <1>5 DEF IInv

LEMMA ApprovalIsRight == IInv /\ (Approve \/ RevisitCallback) => IInv'
<1> SUFFICES ASSUME IInv, Approve \/ RevisitCallback PROVE IInv'
    OBVIOUS
<1>1. RecordsTypeOK'
    BY UnchangedKeepsTypes DEF IInv, Approve, RevisitCallback
<1>2. CASE Approve
    <2>1. PICK account \in Names : Callback(page.flow, account)
        BY <1>2 DEF Approve
    <2>2. page.flow \in { "", "claim", "shop" }
        BY DEF IInv, TabIsRight, PageIsRight, PageState
    <2>3. QED
        BY <1>1, <2>1, <2>2, CallbackIsRight DEF IInv
<1>3. CASE RevisitCallback
    BY <1>1, <1>3, CallbackIsRight DEF IInv, RevisitCallback
<1>4. QED
    BY <1>2, <1>3

LEMMA LinkIsRight == IInv /\ OwnersAreVerified /\ LinkStore => IInv'
<1> SUFFICES ASSUME IInv, OwnersAreVerified, LinkStore PROVE IInv'
    OBVIOUS
<1>1. page.name \in Names /\ page.account = page.name
    BY DEF LinkStore, OwnersAreVerified, IInv, TabIsRight, PageIsRight, PagesAreNamed, NamedPlaces
<1>2. RecordsTypeOK'
    BY <1>1, LinkKeepsTypes DEF IInv, LinkStore
<1>3. session' \in Session
    BY <1>1, SessionFields DEF IInv, LinkStore
<1>4. TabIsRight'
    BY <1>1, PlainPageIsRight DEF LinkStore, Places
<1>5. QED
    BY <1>2, <1>3, <1>4 DEF IInv

LEMMA CreationIsRight == IInv /\ OwnersAreVerified /\ CreateStore => IInv'
<1> SUFFICES ASSUME IInv, OwnersAreVerified, CreateStore PROVE IInv'
    OBVIOUS
<1>1. page.name \in Names /\ page.account = page.name
    BY DEF CreateStore, OwnersAreVerified, IInv, TabIsRight, PageIsRight, PagesAreNamed, NamedPlaces
<1>2. CASE CreateOwned(page.name, page.account) /\ SignIn(page.name)
    <2>1. RecordsTypeOK'
        BY <1>1, <1>2, CreateKeepsTypes DEF IInv
    <2>2. session' \in Session
        BY <1>1, <1>2, SessionFields DEF IInv, SignIn
    <2>3. TabIsRight'
        BY <1>1, <1>2, PlainPageIsRight DEF SignIn, Places
    <2>4. QED
        BY <2>1, <2>2, <2>3 DEF IInv
<1>3. CASE session' = [session EXCEPT !.claim = Nobody] /\ ShowSlug(page.name) /\ UNCHANGED records
    BY <1>1, <1>3, SessionFields, SlugIsRight, UnchangedKeepsTypes DEF IInv
<1>4. QED
    BY <1>2, <1>3 DEF CreateStore

LEMMA OnboardingIsRight ==
    IInv /\ (OnboardDirect \/ OnboardApplicant \/ CompleteOnboarding \/ DeleteStore) => IInv'
<1>1. ASSUME IInv, OnboardDirect PROVE IInv'
    <2>1. PICK n \in OnboardForm : Show(PageAt("onboarding", n))
        BY <1>1 DEF OnboardDirect
    <2>2. n \in Names
        BY <1>1 DEF OnboardForm, IInv, TabIsRight, HookTypes, HookState, LookupIsRight,
           AnswerIsForTheName, StoreStatus
    <2>3. QED
        BY <1>1, <2>1, <2>2, PlainPageIsRight, UnchangedKeepsTypes DEF IInv, OnboardDirect, Places
<1>2. ASSUME IInv, OnboardApplicant PROVE IInv'
    <2>1. PICK n \in waitlist : Show(PageAt("onboarding", n))
        BY <1>2 DEF OnboardApplicant
    <2>2. n \in Names
        BY <1>2 DEF IInv, RecordsTypeOK
    <2>3. QED
        BY <1>2, <2>1, <2>2, PlainPageIsRight, UnchangedKeepsTypes DEF IInv, OnboardApplicant, Places
<1>3. ASSUME IInv, CompleteOnboarding PROVE IInv'
    <2>1. RecordsTypeOK'
        BY <1>3, UnchangedKeepsTypes DEF IInv, RecordsTypeOK, CompleteOnboarding, CreatePreview
    <2>2. \E at \in { "admin", "error" } : Show(PageAt(at, Nobody))
        BY <1>3 DEF CompleteOnboarding
    <2>3. QED
        BY <1>3, <2>1, <2>2, PlainPageIsRight DEF IInv, CompleteOnboarding, Places, NamedPlaces
<1>4. ASSUME IInv, DeleteStore PROVE IInv'
    <2>1. RecordsTypeOK'
        BY <1>4 DEF IInv, RecordsTypeOK, DeleteStore, DestroyStore
    <2>2. QED
        BY <1>4, <2>1, PlainPageIsRight DEF IInv, DeleteStore, Places, NamedPlaces
<1>5. QED
    BY <1>1, <1>2, <1>3, <1>4

LEMMA HooksAreRight ==
    ASSUME IInv,
           \/ Settle \/ HandleLookupTimeout \/ StartTimeout
           \/ \E n \in Names \cup { Nobody } : HandleUsernameChange(n) \/ HandleAdminChange(n)
           \/ HandleSubmit \/ HandleAdminSubmit \/ TryAgain
    PROVE  IInv'
<1>1. session' = session
    BY DEF Settle, HandleLookupTimeout, StartTimeout, HandleUsernameChange, HandleAdminChange,
       HandleSubmit, HandleAdminSubmit, TryAgain
<1>2. CASE Settle
    BY <1>1, <1>2, SettleIsRight DEF IInv
<1>3. CASE HandleLookupTimeout
    BY <1>1, <1>3, TimeoutIsRight, UnchangedKeepsTypes DEF IInv, HandleLookupTimeout
<1>4. CASE StartTimeout
    BY <1>1, <1>4, AdminTimeoutIsRight, UnchangedKeepsTypes DEF IInv, StartTimeout
<1>5. ASSUME NEW n \in Names \cup { Nobody }, HandleUsernameChange(n)
      PROVE  IInv'
    BY <1>1, <1>5, FieldIsRight, UnchangedKeepsTypes DEF IInv, HandleUsernameChange, FieldTakesInput
<1>6. ASSUME NEW n \in Names \cup { Nobody }, HandleAdminChange(n)
      PROVE  IInv'
    BY <1>1, <1>6, FieldIsRight, UnchangedKeepsTypes DEF IInv, HandleAdminChange, OnAdmin
<1>7. CASE HandleSubmit
    BY <1>1, <1>7, PerformIsRight, UnchangedKeepsTypes
       DEF IInv, HandleSubmit, FieldTakesInput, ValidUsername
<1>8. CASE HandleAdminSubmit
    <2>1. page.field \in Names
        BY <1>8 DEF HandleAdminSubmit, IInv, TabIsRight, PageIsRight, PageState
    <2>2. QED
        BY <1>1, <1>8, <2>1, PerformIsRight, UnchangedKeepsTypes DEF IInv, HandleAdminSubmit, OnAdmin
<1>9. CASE TryAgain
    BY <1>1, <1>9, ResetIsRight, PageStays, UnchangedKeepsTypes DEF IInv, TryAgain, TabIsRight
<1>10. QED
    BY <1>2, <1>3, <1>4, <1>5, <1>6, <1>7, <1>8, <1>9

LEMMA OthersAreRight == IInv /\ OthersAct => IInv'
<1> SUFFICES ASSUME IInv, OthersAct PROVE IInv'
    OBVIOUS
<1>1. RecordsTypeOK' /\ UNCHANGED <<page, hook, calls, aborted, session>>
    BY OthersKeepTypes DEF IInv, OthersAct, tab
<1>2. QED
    BY <1>1 DEF IInv, TabIsRight, PageIsRight, PagesAreNamed, HookTypes, LookupIsRight, LookupRuns,
       LoadingEnds, OneLiveCall, OneController, TimerIsLive, HookIsMounted, AnswerIsForTheName,
       Subject, OnAdmin

-----------------------------------------------------------------------------
(* Owners. *)

RecordsAreOwned ==
    /\ \A n \in Names : owners[n] \in { n, Nobody }
    /\ \A n \in Names : stores[n] = "owned" => owners[n] = n

\* Who owns a store goes on owning it: tokens are never taken back.
OwnersStay == \A n \in Names : owners[n] = n => owners'[n] = n

LEMMA LinkOwns ==
    ASSUME RecordsTypeOK, RecordsAreOwned, NEW n \in Names, LinkOwner(n, n)
    PROVE  RecordsAreOwned' /\ OwnersStay /\ owners'[n] = n
<1>1. \A m \in Names : owners'[m] = IF m = n THEN n ELSE owners[m]
    BY DEF LinkOwner, RecordsTypeOK
<1>2. \A m \in Names \ { n } : stores'[m] = stores[m]
    BY DEF LinkOwner, RecordsTypeOK
<1>3. QED
    BY <1>1, <1>2 DEF RecordsAreOwned, OwnersStay

LEMMA CreateOwns ==
    ASSUME RecordsTypeOK, RecordsAreOwned, NEW n \in Names, CreateOwned(n, n)
    PROVE  RecordsAreOwned' /\ OwnersStay /\ owners'[n] = n
<1>1. \A m \in Names : owners'[m] = IF m = n THEN n ELSE owners[m]
    BY DEF CreateOwned, RecordsTypeOK
<1>2. \A m \in Names \ { n } : stores'[m] = stores[m]
    BY DEF CreateOwned, RecordsTypeOK
<1>3. QED
    BY <1>1, <1>2 DEF RecordsAreOwned, OwnersStay

LEMMA PreviewOwns ==
    ASSUME RecordsTypeOK, RecordsAreOwned, NEW n \in Names, CreatePreview(n) \/ DestroyStore(n)
    PROVE  RecordsAreOwned' /\ OwnersStay
<1>1. \A m \in Names : stores'[m] # "owned" \/ stores'[m] = stores[m]
    BY DEF CreatePreview, DestroyStore, RecordsTypeOK
<1>2. owners' = owners
    BY DEF CreatePreview, DestroyStore
<1>3. QED
    BY <1>1, <1>2 DEF RecordsAreOwned, OwnersStay

LEMMA SameOwns ==
    ASSUME RecordsAreOwned, UNCHANGED <<stores, owners>>
    PROVE  RecordsAreOwned' /\ OwnersStay
BY DEF RecordsAreOwned, OwnersStay

LEMMA OthersOwn ==
    ASSUME RecordsTypeOK, RecordsAreOwned, Others
    PROVE  RecordsAreOwned' /\ OwnersStay
<1>1. CASE OthersLookUp \/ OthersRegister \/ LookupsExpire
    BY <1>1, SameOwns DEF OthersLookUp, LookUp, OthersRegister, Register, LookupsExpire, ExpireLookup
<1>2. CASE OthersOnboard \/ OthersDestroy
    BY <1>2, PreviewOwns DEF OthersOnboard, OthersDestroy
<1>3. CASE OthersClaim
    <2>1. PICK n \in Stocked : CreateOwned(n, n) \/ LinkOwner(n, n)
        BY <1>3 DEF OthersClaim
    <2>2. n \in Names
        OBVIOUS
    <2>3. QED
        BY <2>1, <2>2, CreateOwns, LinkOwns
<1>4. QED
    BY <1>1, <1>2, <1>3 DEF Others

\* The pages on which somebody is, or is about to be, an owner.
OwnersPlaces == { "linking", "creating", "dashboard" }

LEMMA ShownPlace ==
    ASSUME NEW at, NEW n, Show(PageAt(at, n))
    PROVE  page'.at = at /\ page'.name = n
BY DEF Show, PageAt

LEMMA ShownElsewhere ==
    ASSUME NEW at \in Places \ OwnersPlaces, NEW n, Show(PageAt(at, n))
    PROVE  page'.at \notin OwnersPlaces
BY ShownPlace

LEMMA FlowIsElsewhere ==
    ASSUME NEW n, NEW flow, Show([PageAt("discogs", n) EXCEPT !.flow = flow])
    PROVE  page'.at \notin OwnersPlaces
<1>1. page'.at = "discogs"
    BY DEF Show, PageAt
<1>2. QED
    BY <1>1 DEF OwnersPlaces

LEMMA SlugIsElsewhere ==
    ASSUME NEW n \in Names, ShowSlug(n) \/ ShowClaim(n)
    PROVE  page'.at \notin OwnersPlaces
<1>1. CASE \E at \in { "storefront", "waitlisted", "invitation", "claim" } : Show(PageAt(at, n))
    BY <1>1, ShownElsewhere DEF Places, OwnersPlaces
<1>2. CASE page' = PageAt("invitation", n)
    <2>1. page'.at = "invitation"
        BY <1>2 DEF PageAt
    <2>2. QED
        BY <2>1 DEF OwnersPlaces
<1>3. QED
    BY <1>1, <1>2 DEF ShowSlug, ShowClaim

\* A step that keeps the records owned and the owner of the session, and goes to
\* no page of an owner, or stays there.
LEMMA ElsewhereOwns ==
    ASSUME OwnersAreVerified, session \in Session, RecordsAreOwned', OwnersStay,
           session'.owner \in { session.owner, Nobody },
           page'.at \notin OwnersPlaces \/ (page' = page /\ session' = session)
    PROVE  OwnersAreVerified'
<1>1. session.owner \in Names \cup { Nobody }
    BY DEF Session
<1>2. session'.owner # Nobody => owners'[session'.owner] = session'.owner
    BY <1>1 DEF OwnersAreVerified, OwnersStay
<1>3. /\ page'.at \in { "linking", "creating" } => page'.account = page'.name
      /\ page'.at = "dashboard" => session'.owner = page'.name
    BY DEF OwnersAreVerified, OwnersPlaces
<1>4. QED
    BY <1>2, <1>3 DEF OwnersAreVerified, RecordsAreOwned

LEMMA SessionOwner ==
    ASSUME session \in Session, NEW n,
           \/ session' = [session EXCEPT !.claim = n]
           \/ session' = [session EXCEPT !.shop = n]
           \/ session' = [session EXCEPT !.shop = Nobody, !.claim = Nobody]
           \/ session' = [session EXCEPT !.shop = Nobody, !.shopper = n] \/ session' = session
    PROVE  session'.owner = session.owner
BY DEF Session

LEMMA CallbackOwns ==
    ASSUME IInv, OwnersAreVerified, UNCHANGED records,
           NEW flow \in { "", "claim", "shop" }, NEW account, Callback(flow, account)
    PROVE  OwnersAreVerified'
<1>1. /\ session \in Session /\ session.claim \in Names \cup { Nobody }
      /\ session.shop \in Names \cup { Nobody }
    BY DEF IInv, Session
<1>2. RecordsAreOwned' /\ OwnersStay
    BY SameOwns DEF OwnersAreVerified, RecordsAreOwned, records
<1>3. CASE session.claim # Nobody
    <2>1. session.claim \in Names /\ OwnerCallback(flow, account)
        BY <1>1, <1>3 DEF Callback
    <2>2. session'.owner = session.owner
        BY <1>1, <2>1, SessionOwner DEF OwnerCallback
    <2>3. CASE ShowSlug(session.claim)
        BY <1>1, <1>2, <2>1, <2>2, <2>3, SlugIsElsewhere, ElsewhereOwns
    <2>4. CASE /\ account = session.claim
               /\ \E at \in { "linking", "creating" } :
                    Show([PageAt(at, session.claim) EXCEPT !.account = account])
        <3>1. page'.at # "dashboard" /\ page'.account = page'.name
            BY <2>4 DEF Show, PageAt
        <3>2. session'.owner # Nobody => owners'[session'.owner] = session'.owner
            BY <1>1, <1>2, <2>2 DEF OwnersAreVerified, Session, OwnersStay
        <3>3. QED
            BY <1>2, <3>1, <3>2 DEF OwnersAreVerified, RecordsAreOwned
    <2>5. QED
        BY <2>1, <2>3, <2>4 DEF OwnerCallback, VerifyIdentity
<1>4. CASE session.claim = Nobody /\ session.shop # Nobody
    <2>1. session.shop \in Names /\ ShopperCallback(flow, account)
        BY <1>1, <1>4 DEF Callback
    <2>2. session'.owner = session.owner /\ ShowSlug(session.shop)
        BY <1>1, <2>1, SessionOwner DEF ShopperCallback
    <2>3. QED
        BY <1>1, <1>2, <2>1, <2>2, SlugIsElsewhere, ElsewhereOwns
<1>5. CASE session.claim = Nobody /\ session.shop = Nobody
    <2>1. Show(PageAt("home", Nobody)) /\ session' = session
        BY <1>5 DEF Callback
    <2>2. page'.at \notin OwnersPlaces
        BY <2>1, ShownElsewhere DEF Places, OwnersPlaces
    <2>3. QED
        BY <1>1, <1>2, <2>1, <2>2, ElsewhereOwns
<1>6. QED
    BY <1>3, <1>4, <1>5

\* The two steps that make an owner, for a page whose account is verified.
LEMMA SignInOwns ==
    ASSUME NEW n \in Names, RecordsAreOwned', owners'[n] = n,
           session' = [NoSession EXCEPT !.owner = n],
           \E at \in { "dashboard", "error" } : Show(PageAt(at, n))
    PROVE  OwnersAreVerified'
<1>1. session'.owner = n
    BY DEF NoSession
<1>2. page'.at \in { "dashboard", "error" } /\ page'.name = n
    BY ShownPlace
<1>3. QED
    BY <1>1, <1>2 DEF OwnersAreVerified, RecordsAreOwned

LEMMA OwnersNext == IInv /\ OwnersAreVerified /\ [Next]_vars => OwnersAreVerified'
<1> SUFFICES ASSUME IInv, OwnersAreVerified, [Next]_vars PROVE OwnersAreVerified'
    OBVIOUS
<1>1. RecordsTypeOK /\ RecordsAreOwned /\ session \in Session
    BY DEF IInv, OwnersAreVerified, RecordsAreOwned
<1>2. CASE \/ Settle \/ HandleLookupTimeout \/ StartTimeout
           \/ HandleSubmit \/ HandleAdminSubmit \/ TryAgain
    <2>1. UNCHANGED <<page, session, stores, owners>>
        BY <1>2 DEF Settle, HandleLookupSuccess, HandleLookupError, FinishLookup, HandleAdminError,
           LookUp, HandleLookupTimeout, StartTimeout, HandleSubmit, HandleAdminSubmit, TryAgain, records
    <2>2. QED
        BY <1>1, <2>1, SameOwns, ElsewhereOwns
<1>3. ASSUME NEW n \in Names \cup { Nobody }, HandleUsernameChange(n) \/ HandleAdminChange(n)
      PROVE  OwnersAreVerified'
    <2>1. UNCHANGED <<session, stores, owners>>
        BY <1>3 DEF HandleUsernameChange, HandleAdminChange, records
    <2>2. page \in PageState /\ page.at \in { "home", "admin" } /\ page' = [page EXCEPT !.field = n]
        BY <1>3 DEF HandleUsernameChange, HandleAdminChange, FieldTakesInput, OnAdmin, IInv,
           TabIsRight, PageIsRight
    <2>3. page'.at \notin OwnersPlaces
        BY <2>2 DEF PageState, OwnersPlaces
    <2>4. QED
        BY <1>1, <2>1, <2>3, SameOwns, ElsewhereOwns
<1>4. CASE Visit
    <2>1. UNCHANGED <<session, stores, owners>>
        BY <1>4 DEF Visit, records
    <2>2. CASE ShowDashboard(session)
        <3>1. page'.at \notin OwnersPlaces \/ (page'.at = "dashboard" /\ page'.name = session.owner)
            BY <2>2, ShownPlace DEF ShowDashboard, OwnersPlaces
        <3>2. QED
            BY <2>1, <3>1 DEF OwnersAreVerified, OwnersPlaces
    <2>3. CASE page'.at \notin OwnersPlaces
        BY <1>1, <2>1, <2>3, SameOwns, ElsewhereOwns
    <2>4. QED
        BY <1>4, <2>2, <2>3, SlugIsElsewhere, ShownElsewhere DEF Visit, Places, OwnersPlaces
<1>5. CASE SubmitApplication
    <2>1. UNCHANGED <<session, stores, owners>>
        BY <1>5 DEF SubmitApplication, Register, records
    <2>2. page'.at \in { "apply", "applied" }
        BY <1>5, ShownPlace DEF SubmitApplication, Show
    <2>3. QED
        BY <1>1, <2>1, <2>2, SameOwns, ElsewhereOwns DEF OwnersPlaces
<1>6. CASE Claim
    <2>1. PICK n \in PreviewClaim \cup InvitationClaim \cup OwnerClaim :
            \/ /\ session' = [session EXCEPT !.claim = n]
               /\ Show([PageAt("discogs", n) EXCEPT !.flow = "claim"])
            \/ ShowSlug(n) /\ UNCHANGED session
        BY <1>6 DEF Claim
    <2>2. session'.owner = session.owner
        BY <1>1, <2>1, SessionOwner
    <2>3. PreviewClaim \cup InvitationClaim \cup OwnerClaim \subseteq Names
        BY ClaimsAreNames
    <2>4. page'.at \notin OwnersPlaces
        BY <1>1, <2>1, <2>3, SlugIsElsewhere, FlowIsElsewhere
    <2>5. QED
        BY <1>1, <1>6, <2>2, <2>4, SameOwns, ElsewhereOwns DEF Claim, records
<1>7. CASE Connect \/ Disconnect
    <2>1. session'.owner = session.owner
        BY <1>1, <1>7, SessionOwner DEF Connect, Disconnect
    <2>2. page'.at \notin OwnersPlaces
        <3>1. page.name \in Names
            BY <1>7 DEF Connect, Disconnect, IInv, TabIsRight, PageIsRight, PagesAreNamed, NamedPlaces
        <3>2. QED
            BY <1>7, <3>1, SlugIsElsewhere, FlowIsElsewhere DEF Connect, Disconnect
    <2>3. QED
        BY <1>1, <1>7, <2>1, <2>2, SameOwns, ElsewhereOwns DEF Connect, Disconnect, records
<1>8. CASE Approve \/ RevisitCallback
    <2>1. page.flow \in { "", "claim", "shop" }
        BY DEF IInv, TabIsRight, PageIsRight, PageState
    <2>2. QED
        BY <1>8, <2>1, CallbackOwns DEF Approve, RevisitCallback
<1>9. CASE LinkStore \/ CreateStore
    <2>1. page.name \in Names /\ page.account = page.name
        BY <1>9 DEF LinkStore, CreateStore, OwnersAreVerified, IInv, TabIsRight, PageIsRight,
           PagesAreNamed, NamedPlaces
    <2>2. CASE LinkStore
        BY <1>1, <2>1, <2>2, LinkOwns, SignInOwns DEF LinkStore
    <2>3. CASE CreateOwned(page.name, page.account) /\ SignIn(page.name)
        BY <1>1, <2>1, <2>3, CreateOwns, SignInOwns DEF SignIn
    <2>4. CASE session' = [session EXCEPT !.claim = Nobody] /\ ShowSlug(page.name) /\ UNCHANGED records
        BY <1>1, <2>1, <2>4, SessionOwner, SlugIsElsewhere, SameOwns, ElsewhereOwns DEF records
    <2>5. QED
        BY <1>9, <2>2, <2>3, <2>4 DEF CreateStore
<1>10. CASE OnboardDirect \/ OnboardApplicant \/ CompleteOnboarding \/ DeleteStore
    <2>1. session' = session /\ page'.at \notin OwnersPlaces
        BY <1>10, ShownElsewhere DEF OnboardDirect, OnboardApplicant, CompleteOnboarding, DeleteStore,
           Places, OwnersPlaces
    <2>2. RecordsAreOwned' /\ OwnersStay
        <3>1. CASE UNCHANGED records
            BY <1>1, <3>1, SameOwns DEF records
        <3>2. CASE CreatePreview(page.name) /\ CompleteOnboarding
            <4>1. page.name \in Names
                BY <3>2 DEF CompleteOnboarding, IInv, TabIsRight, PageIsRight, PagesAreNamed, NamedPlaces
            <4>2. QED
                BY <1>1, <3>2, <4>1, PreviewOwns
        <3>3. CASE \E n \in Names : DestroyStore(n)
            BY <1>1, <3>3, PreviewOwns
        <3>4. QED
            BY <1>10, <3>1, <3>2, <3>3 DEF OnboardDirect, OnboardApplicant, CompleteOnboarding, DeleteStore
    <2>3. QED
        BY <1>1, <2>1, <2>2, ElsewhereOwns
<1>11. CASE OthersAct
    BY <1>1, <1>11, OthersOwn, ElsewhereOwns DEF OthersAct, tab
<1>12. CASE UNCHANGED vars
    BY <1>1, <1>12, SameOwns, ElsewhereOwns DEF vars, records, tab
<1>13. QED
    BY <1>2, <1>3, <1>4, <1>5, <1>6, <1>7, <1>8, <1>9, <1>10, <1>11, <1>12 DEF Next

-----------------------------------------------------------------------------
(* The promise of a lookup. *)

\* What the refinement needs besides: the admin's hook has no controller but for
\* a lookup that runs, and the fetch of a lookup is for the name on the page, the
\* aborted one too that is about to fail.
AdminForgets == OnAdmin /\ hook.call # 0 => hook.status = "loading"
OwnCall ==
    \A c \in calls : hook.call = c.id /\ hook.status = "loading" => c.name = Subject

AsksRightly == AdminForgets /\ OwnCall

KeepsPromise == AsksRightly' /\ [Ledger!Next]_<<Asked, Shown>>

\* A page comes with an idle hook or with the lookup of an invitation.
Arrives ==
    \/ \E p : Show(p)
    \/ \E n \in Names : page' = PageAt("invitation", n) /\ MountedLookup(n)

LEMMA ArrivalKeepsPromise == Arrives => KeepsPromise
<1>1. ASSUME NEW p, Show(p) PROVE KeepsPromise
    <2>1. hook'.status = "idle" /\ hook'.call = 0 /\ calls' = {}
        BY <1>1 DEF Show, IdleHook
    <2>2. Asked' = Nobody /\ Shown' = Ledger!Waiting
        BY <2>1 DEF Asked, Shown, Ledger!Waiting
    <2>3. QED
        BY <2>1, <2>2 DEF KeepsPromise, AsksRightly, AdminForgets, OwnCall, Ledger!Next, Ledger!Forget
<1>2. ASSUME NEW n \in Names, page' = PageAt("invitation", n), MountedLookup(n)
      PROVE  KeepsPromise
    <2>1. /\ hook'.status = "loading" /\ calls' = { [id |-> 1, name |-> n] }
          /\ page'.at = "invitation" /\ page'.name = n
        BY <1>2 DEF MountedLookup, PageAt
    <2>2. Asked' = n /\ Shown' = Ledger!Waiting
        BY <2>1 DEF Asked, Subject, Shown, Ledger!Waiting
    <2>3. AsksRightly'
        BY <2>1 DEF AsksRightly, AdminForgets, OwnCall, OnAdmin, Subject
    <2>4. QED
        BY <2>2, <2>3 DEF KeepsPromise, Ledger!Next, Ledger!Ask
<1>3. QED
    BY <1>1, <1>2 DEF Arrives

LEMMA SlugArrives == ASSUME NEW n \in Names, ShowSlug(n) \/ ShowClaim(n) PROVE Arrives
BY DEF ShowSlug, ShowClaim, Arrives

LEMMA CallbackArrives ==
    ASSUME session \in Session, NEW flow, NEW account, Callback(flow, account)
    PROVE  Arrives
<1>1. session.claim \in Names \cup { Nobody } /\ session.shop \in Names \cup { Nobody }
    BY DEF Session
<1>2. CASE session.claim # Nobody
    BY <1>1, <1>2, SlugArrives DEF Callback, OwnerCallback, Arrives
<1>3. CASE session.claim = Nobody /\ session.shop # Nobody
    BY <1>1, <1>3, SlugArrives DEF Callback, ShopperCallback
<1>4. CASE session.claim = Nobody /\ session.shop = Nobody
    BY <1>4 DEF Callback, Arrives
<1>5. QED
    BY <1>2, <1>3, <1>4

LEMMA PageActionsArrive ==
    ASSUME IInv,
           \/ Visit \/ SubmitApplication \/ Claim \/ Connect \/ Disconnect
           \/ Approve \/ RevisitCallback \/ LinkStore \/ CreateStore
           \/ OnboardDirect \/ OnboardApplicant \/ CompleteOnboarding \/ DeleteStore
    PROVE  Arrives
<1>1. CASE Visit
    BY <1>1, SlugArrives DEF Visit, ShowDashboard, Arrives
<1>2. CASE Claim
    BY <1>2, ClaimsAreNames, SlugArrives DEF Claim, Arrives
<1>3. CASE Connect \/ Disconnect \/ CreateStore
    <2>1. page.name \in Names
        BY <1>3 DEF Connect, Disconnect, CreateStore, IInv, TabIsRight, PageIsRight, PagesAreNamed,
           NamedPlaces
    <2>2. QED
        BY <1>3, <2>1, SlugArrives DEF Connect, Disconnect, CreateStore, SignIn, Arrives
<1>4. CASE Approve \/ RevisitCallback
    BY <1>4, CallbackArrives DEF Approve, RevisitCallback, IInv
<1>5. CASE SubmitApplication \/ LinkStore
    BY <1>5 DEF SubmitApplication, LinkStore, Arrives
<1>6. CASE OnboardDirect \/ OnboardApplicant \/ CompleteOnboarding \/ DeleteStore
    BY <1>6 DEF OnboardDirect, OnboardApplicant, CompleteOnboarding, DeleteStore, Arrives
<1>7. QED
    BY <1>1, <1>2, <1>3, <1>4, <1>5, <1>6

\* An answer that the hook takes is the first, and one for the name on the page.
LEMMA AnswerKeepsPromise ==
    ASSUME hook.status = "loading", Subject \in Names, page' = page,
           hook'.status \in StoreStatus \cup { "not_found", "failed" },
           hook'.status \in StoreStatus => hook'.about = Subject,
           hook'.status \notin StoreStatus => hook'.about = Nobody
    PROVE  [Ledger!Next]_<<Asked, Shown>>
<1>1. Asked = Subject /\ Shown = Ledger!Waiting
    BY DEF Asked, Shown, Ledger!Waiting
<1>2. Subject' = Subject
    BY DEF Subject
<1>3. hook'.status \notin { "idle", "loading" }
    BY DEF StoreStatus
<1>4. Asked' = Subject /\ Shown' = [status |-> hook'.status, about |-> hook'.about]
    BY <1>2, <1>3 DEF Asked, Shown
<1>5. Shown' \in Ledger!Answers(Subject)
    BY <1>4 DEF Ledger!Answers, StoreStatus
<1>6. Subject # Nobody
    OBVIOUS
<1>7. QED
    BY <1>1, <1>4, <1>5, <1>6 DEF Ledger!Next, Ledger!Answer

LEMMA SettleKeepsPromise == IInv /\ AsksRightly /\ Settle => KeepsPromise
<1> SUFFICES ASSUME IInv, AsksRightly, Settle PROVE KeepsPromise
    OBVIOUS
<1>1. PICK c \in calls :
        /\ calls' = calls \ { c } /\ aborted' = aborted \ { c.id }
        /\ \/ ~OnAdmin /\ c.id \notin aborted /\ HandleLookupSuccess(c)
           \/ ~OnAdmin /\ HandleLookupError(c)
           \/ OnAdmin /\ c.id \notin aborted /\ FinishLookup(c)
           \/ OnAdmin /\ HandleAdminError(c)
        /\ page' = page
    BY DEF Settle
<1>2. c.name \in Names /\ c.id # 0 /\ hook \in HookState
    BY DEF IInv, TabIsRight, HookTypes, Call, Ids
<1>3. (OnAdmin' <=> OnAdmin) /\ Subject' = Subject
    BY <1>1 DEF OnAdmin, Subject
<1>4. c.id \notin aborted => hook.call = c.id /\ Current(c) /\ hook.status = "loading"
    BY DEF IInv, TabIsRight, LookupIsRight, OneLiveCall, Current
<1>5. OnAdmin /\ hook.call = c.id => hook.status = "loading"
    BY <1>2 DEF AsksRightly, AdminForgets
<1>6. hook.status = "loading" => hook.about = Nobody
    BY DEF IInv, TabIsRight, LookupIsRight, AnswerIsForTheName, StoreStatus
<1>7. CASE hook' = hook
    <2>1. AsksRightly'
        BY <1>1, <1>3, <1>7 DEF AsksRightly, AdminForgets, OwnCall
    <2>2. Asked' = Asked /\ Shown' = Shown
        BY <1>3, <1>7 DEF Asked, Shown
    <2>3. QED
        BY <2>1, <2>2 DEF KeepsPromise
<1>8. ASSUME hook.call = c.id, hook.status = "loading",
             hook'.status \in StoreStatus \cup { "not_found", "failed" },
             hook'.status \in StoreStatus => hook'.about = Subject,
             hook'.status \notin StoreStatus => hook'.about = Nobody,
             OnAdmin => hook'.call = 0
      PROVE  KeepsPromise
    <2>1. Subject \in Names
        BY <1>2, <1>8 DEF AsksRightly, OwnCall
    <2>2. hook'.status # "loading"
        BY <1>8 DEF StoreStatus
    <2>3. AsksRightly'
        BY <1>3, <1>8, <2>2 DEF AsksRightly, AdminForgets, OwnCall
    <2>4. QED
        BY <1>1, <1>8, <2>1, <2>3, AnswerKeepsPromise DEF KeepsPromise
<1>9. hook.call = c.id /\ hook.status = "loading" => c.name = Subject
    BY DEF AsksRightly, OwnCall
<1>10. "failed" \notin StoreStatus /\ "not_found" \notin StoreStatus
    BY DEF StoreStatus
<1>11. CASE ~OnAdmin /\ c.id \notin aborted /\ HandleLookupSuccess(c)
    <2>1. PICK answer \in StoreStatus \cup { "not_found" } :
            hook' = [hook EXCEPT !.status = answer, !.about = About(c.name, answer),
                                 !.timer = FALSE]
        BY <1>4, <1>11 DEF HandleLookupSuccess
    <2>2. hook'.status = answer /\ hook'.about = About(c.name, answer)
        BY <1>2, <2>1 DEF HookState
    <2>3. QED
        BY <1>4, <1>8, <1>9, <1>10, <1>11, <2>2 DEF About
<1>12. CASE ~OnAdmin /\ HandleLookupError(c) /\ hook' # hook
    <2>1. c.id \notin aborted /\ hook' = [hook EXCEPT !.status = "failed"]
        BY <1>12 DEF HandleLookupError, Current
    <2>2. hook'.status = "failed" /\ hook'.about = hook.about
        BY <1>2, <2>1 DEF HookState
    <2>3. QED
        BY <1>4, <1>6, <1>8, <1>10, <1>12, <2>1, <2>2
<1>13. CASE OnAdmin /\ c.id \notin aborted /\ FinishLookup(c)
    <2>1. PICK found \in StoreStatus \cup { "not_found" } :
            Teardown(SignupAvailability(c.name, found),
                     About(c.name, SignupAvailability(c.name, found)))
        BY <1>4, <1>13 DEF FinishLookup
    <2> DEFINE answer == SignupAvailability(c.name, found)
    <2>2. answer \in StoreStatus \cup { "not_found" }
        BY DEF SignupAvailability, LocalStoreStatus, StoreStatus
    <2>3. hook'.status = answer /\ hook'.about = About(c.name, answer) /\ hook'.call = 0
        BY <2>1 DEF Teardown
    <2> HIDE DEF answer
    <2>4. QED
        BY <1>4, <1>8, <1>9, <1>10, <1>13, <2>2, <2>3 DEF About
<1>14. CASE OnAdmin /\ HandleAdminError(c) /\ hook' # hook
    <2>1. hook.call = c.id /\ Teardown("failed", Nobody)
        BY <1>14 DEF HandleAdminError
    <2>2. hook'.status = "failed" /\ hook'.about = Nobody /\ hook'.call = 0
        BY <2>1 DEF Teardown
    <2>3. QED
        BY <1>5, <1>8, <1>10, <1>14, <2>1, <2>2
<1>15. QED
    BY <1>1, <1>7, <1>11, <1>12, <1>13, <1>14

LEMMA TimeoutKeepsPromise == IInv /\ AsksRightly /\ HandleLookupTimeout => KeepsPromise
<1> SUFFICES ASSUME IInv, AsksRightly, HandleLookupTimeout PROVE KeepsPromise
    OBVIOUS
<1>1. hook \in HookState
    BY DEF IInv, TabIsRight, HookTypes
<1>2. /\ hook'.status = "failed" /\ hook'.about = hook.about /\ hook'.call = hook.call
      /\ calls' = calls /\ page' = page /\ ~OnAdmin
    BY <1>1 DEF HandleLookupTimeout, HookState
<1>3. hook.status \in { "loading", "failed" } /\ hook.about = Nobody
    BY DEF HandleLookupTimeout, IInv, TabIsRight, LookupIsRight, TimerIsLive, AnswerIsForTheName,
       StoreStatus
<1>4. AsksRightly'
    BY <1>2 DEF AsksRightly, AdminForgets, OwnCall, OnAdmin
<1>5. CASE hook.status = "loading"
    <2>1. PICK c \in calls : c.id = hook.call
        BY <1>5 DEF IInv, TabIsRight, LookupIsRight, LookupRuns
    <2>2. Subject \in Names
        BY <1>5, <2>1 DEF AsksRightly, OwnCall, IInv, TabIsRight, HookTypes, Call
    <2>3. QED
        BY <1>2, <1>3, <1>4, <1>5, <2>2, AnswerKeepsPromise DEF KeepsPromise, StoreStatus
<1>6. CASE hook.status = "failed"
    BY <1>2, <1>3, <1>4, <1>6 DEF KeepsPromise, Asked, Shown, Subject
<1>7. QED
    BY <1>3, <1>5, <1>6

LEMMA AdminTimeoutKeepsPromise == IInv /\ AsksRightly /\ StartTimeout => KeepsPromise
<1> SUFFICES ASSUME IInv, AsksRightly, StartTimeout PROVE KeepsPromise
    OBVIOUS
<1>1. hook \in HookState
    BY DEF IInv, TabIsRight, HookTypes
<1>2. /\ hook'.status = hook.status /\ hook'.about = hook.about /\ hook'.call = hook.call
      /\ calls' = calls /\ page' = page
    BY <1>1 DEF StartTimeout, HookState
<1>3. AsksRightly'
    BY <1>2 DEF AsksRightly, AdminForgets, OwnCall, OnAdmin, Subject
<1>4. Asked' = Asked /\ Shown' = Shown
    BY <1>2 DEF Asked, Shown, Subject
<1>5. QED
    BY <1>3, <1>4 DEF KeepsPromise

LEMMA PerformKeepsPromise ==
    ASSUME IInv, page' = page, page.at \in { "home", "admin" }, page.field \in Names,
           PerformLookup(page.field), hook.status # "loading"
    PROVE  KeepsPromise
<1>1. PICK i \in Ids \ (InFlight \cup { hook.call }) :
          /\ calls' = calls \cup { [id |-> i, name |-> page.field] }
          /\ hook' = [status |-> "loading", about |-> Nobody, call |-> i, timer |-> TRUE]
    BY DEF PerformLookup
<1>2. hook'.status = "loading" /\ hook'.call = i /\ Subject' = page.field
    BY <1>1 DEF Subject
<1>3. \A c \in calls : c.id # i
    BY <1>1 DEF InFlight
<1>4. AsksRightly'
    BY <1>1, <1>2, <1>3 DEF AsksRightly, AdminForgets, OwnCall
<1>5. Asked' = page.field /\ Shown' = Ledger!Waiting
    BY <1>2 DEF Asked, Shown, Ledger!Waiting
<1>6. QED
    BY <1>4, <1>5 DEF KeepsPromise, Ledger!Next, Ledger!Ask

LEMMA ResetKeepsPromise ==
    ASSUME IInv, page'.at = page.at, page.at \in { "home", "admin" },
           OnAdmin => ResetLookupState, Reset \/ ResetLookupState
    PROVE  KeepsPromise
<1>1. hook \in HookState
    BY DEF IInv, TabIsRight, HookTypes
<1>2. hook'.status = "idle" /\ (OnAdmin => hook'.call = 0)
    <2>1. CASE ResetLookupState
        BY <2>1 DEF ResetLookupState, Teardown
    <2>2. CASE Reset
        <3>1. hook'.status = "idle"
            BY <1>1, <2>2 DEF Reset, HookState
        <3>2. QED
            BY <2>1, <3>1
    <2>3. QED
        BY <2>1, <2>2
<1>3. AsksRightly'
    BY <1>2 DEF AsksRightly, AdminForgets, OwnCall, OnAdmin
<1>4. Asked' = Nobody /\ Shown' = Ledger!Waiting
    BY <1>2 DEF Asked, Shown, Ledger!Waiting
<1>5. QED
    BY <1>3, <1>4 DEF KeepsPromise, Ledger!Next, Ledger!Forget

LEMMA FieldKeepsPromise ==
    ASSUME IInv, AsksRightly, NEW n \in Names \cup { Nobody },
           HandleUsernameChange(n) \/ HandleAdminChange(n)
    PROVE  KeepsPromise
<1>1. page \in PageState /\ page.at \in { "home", "admin" } /\ page' = [page EXCEPT !.field = n]
    BY DEF HandleUsernameChange, HandleAdminChange, FieldTakesInput, OnAdmin, IInv, TabIsRight,
       PageIsRight
<1>2. page'.at = page.at
    BY <1>1 DEF PageState
<1>3. CASE hook.status # "idle"
    <2>1. (Reset \/ ResetLookupState) /\ (OnAdmin => ResetLookupState)
        BY <1>3 DEF HandleUsernameChange, HandleAdminChange, FieldTakesInput, OnAdmin
    <2>2. QED
        BY <1>1, <1>2, <2>1, ResetKeepsPromise
<1>4. CASE hook.status = "idle"
    <2>1. UNCHANGED <<hook, calls, aborted>>
        BY <1>4 DEF HandleUsernameChange, HandleAdminChange
    <2>2. AsksRightly'
        BY <1>2, <1>4, <2>1 DEF AsksRightly, AdminForgets, OwnCall, OnAdmin
    <2>3. Asked' = Asked /\ Shown' = Shown
        BY <1>4, <2>1 DEF Asked, Shown
    <2>4. QED
        BY <2>2, <2>3 DEF KeepsPromise
<1>5. QED
    BY <1>3, <1>4

LEMMA NextKeepsPromise == IInv /\ AsksRightly /\ [Next]_vars => KeepsPromise
<1> SUFFICES ASSUME IInv, AsksRightly, [Next]_vars PROVE KeepsPromise
    OBVIOUS
<1>1. CASE UNCHANGED tab
    <2>1. UNCHANGED <<page, hook, calls, aborted>>
        BY <1>1 DEF tab
    <2>2. QED
        BY <2>1 DEF KeepsPromise, AsksRightly, AdminForgets, OwnCall, OnAdmin, Asked, Shown, Subject
<1>2. CASE HandleSubmit
    BY <1>2, PerformKeepsPromise DEF HandleSubmit, FieldTakesInput, ValidUsername
<1>3. CASE HandleAdminSubmit
    <2>1. page.field \in Names
        BY <1>3 DEF HandleAdminSubmit, IInv, TabIsRight, PageIsRight, PageState
    <2>2. QED
        BY <1>3, <2>1, PerformKeepsPromise DEF HandleAdminSubmit, OnAdmin
<1>4. CASE TryAgain
    BY <1>4, ResetKeepsPromise DEF TryAgain, OnAdmin
<1>5. CASE Arrives
    BY <1>5, ArrivalKeepsPromise
<1>6. QED
    BY <1>1, <1>2, <1>3, <1>4, <1>5, PageActionsArrive, SettleKeepsPromise, TimeoutKeepsPromise,
       AdminTimeoutKeepsPromise, FieldKeepsPromise DEF Next, OthersAct, vars, tab

-----------------------------------------------------------------------------
(* Theorems. *)

LEMMA IInvNext == IInv /\ OwnersAreVerified /\ [Next]_vars => IInv'
<1> SUFFICES ASSUME IInv, OwnersAreVerified, [Next]_vars PROVE IInv'
    OBVIOUS
<1>1. CASE UNCHANGED vars
    <2>1. RecordsTypeOK' /\ UNCHANGED <<page, hook, calls, aborted, session>>
        BY <1>1, UnchangedKeepsTypes DEF IInv, vars, tab
    <2>2. QED
        BY <2>1 DEF IInv, TabIsRight, PageIsRight, PagesAreNamed, HookTypes, LookupIsRight, LookupRuns,
           LoadingEnds, OneLiveCall, OneController, TimerIsLive, HookIsMounted, AnswerIsForTheName,
           Subject, OnAdmin
<1>2. QED
    BY <1>1, HooksAreRight, VisitIsRight, ApplicationIsRight, ClaimIsRight, ConnectionIsRight,
       ApprovalIsRight, LinkIsRight, CreationIsRight, OnboardingIsRight, OthersAreRight DEF Next

LEMMA OwnersInit == Init => OwnersAreVerified
<1> SUFFICES ASSUME Init PROVE OwnersAreVerified
    OBVIOUS
<1>1. /\ \A n \in Names : owners[n] = Nobody /\ stores[n] = "none"
      /\ session.owner = Nobody /\ page.at = "home"
    BY DEF Init, RecordsInit, NoSession, PageAt
<1>2. QED
    BY <1>1 DEF OwnersAreVerified

LEMMA Inductive == Spec => [](IInv /\ OwnersAreVerified)
<1>1. QED
    BY InitIsRight, OwnersInit, IInvNext, OwnersNext, PTL DEF Spec

\* The state of a lookup, on every page and in every order of requests, answers,
\* timers, edits and visits (useDiscogsLookup, useAdminDiscogsLookup).
THEOREM LookupIsSound == Spec => []LookupInv
<1>1. IInv => LookupInv
    BY DEF IInv, TabIsRight, PageIsRight, HookTypes, LookupIsRight, LookupInv, TypeOK
<1>2. QED
    BY <1>1, Inductive, PTL

\* An answer, and the button beside it, are for the name on the page.
THEOREM AnswersFollowNames == Spec => []AnswerIsForTheName
<1>1. IInv => AnswerIsForTheName
    BY DEF IInv, TabIsRight, LookupIsRight
<1>2. QED
    BY <1>1, Inductive, PTL

\* Only a seller's own account owns the store, whatever happens to the flows of
\* the session (AuthController, AuthCallbackService).
THEOREM OwnersAreSellers == Spec => []OwnersAreVerified
BY Inductive, PTL

\* The hooks implement the abstract lookup: one answer to a question, about the
\* name that was asked.
THEOREM LookupsAreKept == Spec => ImplementsLookups
<1>1. Init => AsksRightly /\ Ledger!Init
    BY DEF Init, IdleHook, AsksRightly, AdminForgets, OwnCall, Ledger!Init, Ledger!Waiting, Asked, Shown
<1>2. IInv /\ AsksRightly /\ [Next]_vars => AsksRightly' /\ [Ledger!Next]_<<Asked, Shown>>
    BY NextKeepsPromise DEF KeepsPromise
<1>3. QED
    BY <1>1, <1>2, Inductive, PTL DEF Spec, ImplementsLookups, Ledger!Spec
=============================================================================
