----------------------------- MODULE SellerTab ------------------------------
(***************************************************************************)
(* One browser tab of a seller, or of an admin who onboards sellers: the   *)
(* lookup hooks (useDiscogsLookup on the home page and the invitation,     *)
(* useAdminDiscogsLookup on the admin's dashboard) with their requests,    *)
(* abort signals and timers, the pages they lead to, and the two OAuth     *)
(* flows of the browser's session, beside everybody else who writes the    *)
(* same records.                                                           *)
(***************************************************************************)
EXTENDS Onboarding

CONSTANT MaxCalls  \* bound: lookups in flight or remembered by the hook

Ids == 1 .. MaxCalls

ASSUME MaxCallsAssumption == MaxCalls \in Nat \ {0}

VARIABLES
    page,     \* what the tab shows
    hook,     \* the lookup of the page
    calls,    \* fetches in flight, aborted ones too until they are rejected
    aborted,  \* controllers whose signal is aborted
    session   \* the session cookie

tab  == <<page, hook, calls, aborted, session>>
vars == <<records, tab>>

\* "linking", "creating" and "onboarding" wait for a POST or a callback.
Places ==
    { "home", "invitation", "waitlisted", "storefront", "claim", "apply", "applied",
      "discogs", "linking", "creating", "dashboard", "admin", "onboarding", "error" }

\* name: the store of the address or of the request; field: the text typed;
\* flow: the flow Discogs is asked for; account: who approved it.
PageState ==
    [at : Places, name : Names \cup { Nobody }, field : Names \cup { Nobody },
     flow : { "", "claim", "shop" }, account : Names \cup { Nobody }]

\* call: abortRef, 0 for null; timer: the timeout of that call is armed.  Of the
\* admin's hook, "none" stands for creatable and "failed" for error.
HookState ==
    [status : StoreStatus \cup { "idle", "loading", "not_found", "failed" },
     about : Names \cup { Nobody }, call : Ids \cup { 0 }, timer : BOOLEAN]

Call == [id : Ids, name : Names]

\* claim, shop: the store of the request token that waits for its callback.
Session == [claim : Names \cup { Nobody }, shop : Names \cup { Nobody },
            owner : Names \cup { Nobody }, shopper : Names \cup { Nobody }]

TypeOK ==
    /\ RecordsTypeOK
    /\ page \in PageState /\ hook \in HookState
    /\ calls \subseteq Call /\ aborted \subseteq Ids
    /\ session \in Session

IdleHook == [status |-> "idle", about |-> Nobody, call |-> 0, timer |-> FALSE]
PageAt(at, n) ==
    [at |-> at, name |-> n, field |-> Nobody, flow |-> "", account |-> Nobody]
NoSession == [claim |-> Nobody, shop |-> Nobody, owner |-> Nobody, shopper |-> Nobody]

Init ==
    /\ RecordsInit
    /\ page = PageAt("home", Nobody) /\ hook = IdleHook
    /\ calls = {} /\ aborted = {}
    /\ session = NoSession

InFlight == { c.id : c \in calls }

OnAdmin == page.at = "admin"

-----------------------------------------------------------------------------
\* The hooks.  useDiscogsLookup keeps its controller after a lookup,
\* useAdminDiscogsLookup forgets it.  A controller whose fetch has settled is not
\* looked at again, whether its signal is aborted as well or not.

WithCurrent == aborted \cup ({ hook.call } \ { 0 })

\* A new controller and a new timer after the previous ones are cancelled.
PerformLookup(n) ==
    \E i \in Ids \ (InFlight \cup { hook.call }) :
        /\ calls' = calls \cup { [id |-> i, name |-> n] }
        /\ hook' = [status |-> "loading", about |-> Nobody, call |-> i, timer |-> TRUE]
        /\ aborted' = WithCurrent \ { i }

\* The lookup of a hook that has just been mounted.
MountedLookup(n) ==
    /\ calls' = { [id |-> 1, name |-> n] }
    /\ hook' = [status |-> "loading", about |-> Nobody, call |-> 1, timer |-> TRUE]
    /\ aborted' = {}

\* Mutant: a reset that leaves the request and its timer alone.
ResetOnly ==
    /\ hook' = [hook EXCEPT !.status = "idle", !.about = Nobody]
    /\ UNCHANGED <<calls, aborted>>

Reset ==
    /\ aborted' = WithCurrent
    /\ hook' = [hook EXCEPT !.status = "idle", !.about = Nobody, !.timer = FALSE]
    /\ UNCHANGED calls

Teardown(status, about) ==
    hook' = [status |-> status, about |-> about, call |-> 0, timer |-> FALSE]

ResetLookupState ==
    /\ aborted' = WithCurrent
    /\ Teardown("idle", Nobody)
    /\ UNCHANGED calls

Current(c) == hook.call = c.id /\ c.id \notin aborted

About(n, answer) == IF answer \in StoreStatus THEN n ELSE Nobody

\* Mutant: an answer that does not stop the timer.
HandleSuccessOnly(c) ==
    \E answer \in StoreStatus \cup { "not_found" } :
        /\ LookUp(c.name, answer)
        /\ hook' = IF Current(c)
                     THEN [hook EXCEPT !.status = answer, !.about = About(c.name, answer)]
                     ELSE hook

\* The answer as the server finds it now, which is as good as earlier: the
\* records may change as soon as it is shown.
HandleLookupSuccess(c) ==
    \E answer \in StoreStatus \cup { "not_found" } :
        /\ LookUp(c.name, answer)
        /\ hook' = IF Current(c)
                     THEN [hook EXCEPT !.status = answer, !.about = About(c.name, answer),
                                       !.timer = FALSE]
                     ELSE hook

\* The timer of a failed call stays armed.
HandleLookupError(c) ==
    /\ hook' = IF Current(c) THEN [hook EXCEPT !.status = "failed"] ELSE hook
    /\ UNCHANGED records

FinishLookup(c) ==
    \E found \in StoreStatus \cup { "not_found" } :
        LET answer == SignupAvailability(c.name, found) IN
        /\ LookUp(c.name, found)
        /\ IF Current(c) THEN Teardown(answer, About(c.name, answer)) ELSE UNCHANGED hook

\* The rejection of an aborted fetch is an error to the admin's hook if the
\* controller is still its own: then the timer has aborted it.
HandleAdminError(c) ==
    /\ IF hook.call = c.id THEN Teardown("failed", Nobody) ELSE UNCHANGED hook
    /\ UNCHANGED records

\* A fetch settles: rejected when its signal is aborted, or else by the network,
\* or with the server's answer.
Settle ==
    \E c \in calls :
        /\ calls' = calls \ { c } /\ aborted' = aborted \ { c.id }
        /\ \/ ~OnAdmin /\ c.id \notin aborted /\ HandleLookupSuccess(c)
           \/ ~OnAdmin /\ HandleLookupError(c)
           \/ OnAdmin /\ c.id \notin aborted /\ FinishLookup(c)
           \/ OnAdmin /\ HandleAdminError(c)
        /\ UNCHANGED <<page, session>>

\* Ten seconds.
HandleLookupTimeout ==
    /\ ~OnAdmin /\ hook.timer
    /\ aborted' = WithCurrent
    /\ hook' = [hook EXCEPT !.timer = FALSE, !.status = "failed"]
    /\ UNCHANGED <<records, page, calls, session>>

\* Mutant: the admin's timer tears the lookup down instead of aborting it.
TimeoutTearsDown ==
    /\ OnAdmin /\ hook.timer
    /\ aborted' = WithCurrent
    /\ hook' = [hook EXCEPT !.timer = FALSE, !.call = 0]
    /\ UNCHANGED <<records, page, calls, session>>

\* The admin's timer aborts, and leaves the rest to the rejection.
StartTimeout ==
    /\ OnAdmin /\ hook.timer
    /\ aborted' = WithCurrent
    /\ hook' = [hook EXCEPT !.timer = FALSE]
    /\ UNCHANGED <<records, page, calls, session>>

-----------------------------------------------------------------------------
\* Pages.  A page that is left unmounts its hook, which cancels its lookup: its
\* handlers ignore the rejection that follows, so nothing of it is kept.

Show(p) == page' = p /\ hook' = IdleHook /\ calls' = {} /\ aborted' = {}

\* A slug that cannot be a username is not looked up.
ValidateSlug(n) == n \in Plausible

\* GET /:slug; the invitation looks the name up when it is mounted.
ShowSlug(n) ==
    \/ HasStore(n) /\ Show(PageAt("storefront", n))
    \/ ~HasStore(n) /\ n \in waitlist /\ Show(PageAt("waitlisted", n))
    \/ ~HasStore(n) /\ n \notin waitlist /\ ~ValidateSlug(n) /\ Show(PageAt("invitation", n))
    \/ /\ ~HasStore(n) /\ n \notin waitlist /\ ValidateSlug(n)
       /\ page' = PageAt("invitation", n)
       /\ MountedLookup(n)

\* GET /:slug/authorize
ShowClaim(n) ==
    IF HasStore(n) /\ ~OauthAuthorized(n) THEN Show(PageAt("claim", n)) ELSE ShowSlug(n)

ShowDashboard(s) ==
    IF s.owner = Nobody \/ owners[s.owner] = Nobody THEN Show(PageAt("home", Nobody))
    ELSE Show(PageAt(IF CurrentStore(s.owner) THEN "dashboard" ELSE "error", s.owner))

Visit ==
    /\ \/ Show(PageAt("home", Nobody))
       \/ Show(PageAt("admin", Nobody))
       \/ ShowDashboard(session)
       \/ \E n \in Names :
            \/ ShowSlug(n)
            \/ ShowClaim(n)
       \/ Show(PageAt("apply", Nobody))
    /\ UNCHANGED <<records, session>>

\* The home page's field takes no input while it is busy, the admin's does.
FieldTakesInput == page.at = "home" /\ hook.status # "loading"

HandleUsernameChange(n) ==
    /\ FieldTakesInput /\ n # page.field
    /\ page' = [page EXCEPT !.field = n]
    /\ IF hook.status = "idle" THEN UNCHANGED <<hook, calls, aborted>> ELSE Reset
    /\ UNCHANGED <<records, session>>

\* Mutant: only an answer is reset, not a lookup that runs.
ChangeWhileLoading(n) ==
    /\ OnAdmin /\ n # page.field
    /\ page' = [page EXCEPT !.field = n]
    /\ IF hook.status \in { "idle", "loading" } THEN UNCHANGED <<hook, calls, aborted>>
       ELSE ResetLookupState
    /\ UNCHANGED <<records, session>>

HandleAdminChange(n) ==
    /\ OnAdmin /\ n # page.field
    /\ page' = [page EXCEPT !.field = n]
    /\ IF hook.status = "idle" THEN UNCHANGED <<hook, calls, aborted>> ELSE ResetLookupState
    /\ UNCHANGED <<records, session>>

\* A busy button submits nothing.
ValidUsername(n) == n \in Plausible

HandleSubmit ==
    /\ FieldTakesInput /\ ValidUsername(page.field)
    /\ PerformLookup(page.field)
    /\ UNCHANGED <<records, page, session>>

\* The admin may look up any name that is not blank.
HandleAdminSubmit ==
    /\ OnAdmin /\ hook.status # "loading" /\ page.field # Nobody
    /\ PerformLookup(page.field)
    /\ UNCHANGED <<records, page, session>>

TryAgain ==
    /\ page.at = "home" /\ hook.status = "failed"
    /\ Reset
    /\ UNCHANGED <<records, page, session>>

\* Turnstile or the validations may refuse; the uniqueness of the name does.
SubmitApplication ==
    /\ page.at = "apply"
    /\ \E n \in Names :
        \/ Register(n) /\ Show(PageAt("applied", Nobody))
        \/ UNCHANGED records /\ Show(page)
    /\ UNCHANGED session

-----------------------------------------------------------------------------
\* Claims, and the shopper's connection.

DisplayStatus ==
    IF ~ValidateSlug(page.name) THEN "not_found"
    ELSE IF hook.status \in { "idle", "loading" } THEN "loading"
    ELSE IF hook.status \in StoreStatus THEN "found" ELSE "not_found"

\* The stores the claim buttons of a page post for.
PreviewClaim == IF page.at = "home" /\ hook.status = "none" THEN { hook.about } ELSE {}
InvitationClaim ==
    IF page.at = "invitation" /\ DisplayStatus = "found" THEN { page.name } ELSE {}
OwnerClaim == IF page.at = "claim" THEN { page.name } ELSE {}

\* POST /:slug/authorize: too small a stock, or a failing Discogs, turns back.
Claim ==
    /\ \E n \in PreviewClaim \cup InvitationClaim \cup OwnerClaim :
        \/ /\ n \in Stocked
           /\ session' = [session EXCEPT !.claim = n]
           /\ Show([PageAt("discogs", n) EXCEPT !.flow = "claim"])
        \/ ShowSlug(n) /\ UNCHANGED session
    /\ UNCHANGED records

\* The shopper's flow leaves the keys of a claim in the session.
Connect ==
    /\ page.at = "storefront"
    /\ \/ /\ session' = [session EXCEPT !.shop = page.name]
          /\ Show([PageAt("discogs", page.name) EXCEPT !.flow = "shop"])
       \/ ShowSlug(page.name) /\ UNCHANGED session
    /\ UNCHANGED records

Disconnect ==
    /\ page.at = "storefront"
    /\ session' = [session EXCEPT !.shop = Nobody, !.shopper = Nobody]
    /\ ShowSlug(page.name)
    /\ UNCHANGED records

\* Mutant: whoever approves.
AnyIdentity(n, account) == account \in Names

\* An owner's callback goes on only if the account that approved this very flow
\* is the seller's; it then reads whether the store exists.
VerifyIdentity(n, account) == account = n

OwnerCallback(flow, account) ==
    LET n == session.claim IN
    \/ /\ flow = "claim" /\ VerifyIdentity(n, account)
       /\ session' = [session EXCEPT !.shop = Nobody]
       /\ Show([PageAt(IF HasStore(n) THEN "linking" ELSE "creating", n)
                    EXCEPT !.account = account])
    \/ /\ session' = [session EXCEPT !.shop = Nobody, !.claim = Nobody]
       /\ ShowSlug(n)

ShopperCallback(flow, account) ==
    \/ /\ flow = "shop"
       /\ session' = [session EXCEPT !.shop = Nobody, !.shopper = account]
       /\ ShowSlug(session.shop)
    \/ /\ session' = [session EXCEPT !.shop = Nobody]
       /\ ShowSlug(session.shop)

\* GET /auth/discogs/callback: a claim that waits goes before a connection.
Callback(flow, account) ==
    IF session.claim # Nobody THEN OwnerCallback(flow, account)
    ELSE IF session.shop # Nobody THEN ShopperCallback(flow, account)
    ELSE Show(PageAt("home", Nobody)) /\ UNCHANGED session

Approve ==
    /\ page.at = "discogs"
    /\ \E account \in Names : Callback(page.flow, account)
    /\ UNCHANGED records

\* The account refuses, or the address is opened again with a verifier that is spent.
RevisitCallback == Callback("", Nobody) /\ UNCHANGED records

SignIn(n) ==
    /\ session' = [NoSession EXCEPT !.owner = n]
    /\ Show(PageAt("dashboard", n))

\* The store that was there when the callback looked may be gone by now.
LinkStore ==
    /\ page.at = "linking"
    /\ LinkOwner(page.name, page.account)
    /\ session' = [NoSession EXCEPT !.owner = page.name]
    /\ Show(PageAt(IF HasStore(page.name) THEN "dashboard" ELSE "error", page.name))

\* No profile, or a store that has come meanwhile, rolls the owner's tokens back.
CreateStore ==
    /\ page.at = "creating"
    /\ \/ CreateOwned(page.name, page.account) /\ SignIn(page.name)
       \/ /\ session' = [session EXCEPT !.claim = Nobody]
          /\ ShowSlug(page.name)
          /\ UNCHANGED records

-----------------------------------------------------------------------------
\* The admin's dashboard.

OnboardForm == IF hook.status = "none" THEN { hook.about } ELSE {}

OnboardDirect ==
    /\ OnAdmin
    /\ \E n \in OnboardForm :
        OnboardingChecks(n, TRUE) /\ Show(PageAt("onboarding", n))
    /\ UNCHANGED <<records, session>>

OnboardApplicant ==
    /\ OnAdmin
    /\ \E n \in waitlist :
        OnboardingChecks(n, FALSE) /\ Show(PageAt("onboarding", n))
    /\ UNCHANGED <<records, session>>

\* A store that has come since the checks, or no profile: an alert or an error page.
CompleteOnboarding ==
    /\ page.at = "onboarding"
    /\ \/ CreatePreview(page.name) /\ Show(PageAt("admin", Nobody))
       \/ \E at \in { "admin", "error" } : Show(PageAt(at, Nobody)) /\ UNCHANGED records
    /\ UNCHANGED session

DeleteStore ==
    /\ OnAdmin
    /\ \E n \in Names : DestroyStore(n)
    /\ Show(PageAt("admin", Nobody))
    /\ UNCHANGED session

-----------------------------------------------------------------------------
OthersAct == Others /\ UNCHANGED tab

Next ==
    \/ Settle \/ HandleLookupTimeout \/ StartTimeout
    \/ Visit
    \/ \E n \in Names \cup { Nobody } : HandleUsernameChange(n) \/ HandleAdminChange(n)
    \/ HandleSubmit \/ HandleAdminSubmit \/ TryAgain
    \/ SubmitApplication
    \/ Claim \/ Connect \/ Disconnect \/ Approve \/ RevisitCallback
    \/ LinkStore \/ CreateStore
    \/ OnboardDirect \/ OnboardApplicant \/ CompleteOnboarding \/ DeleteStore
    \/ OthersAct

\* Timers fire, and a fetch that is aborted or answered settles.
Fairness == WF_vars(HandleLookupTimeout) /\ WF_vars(StartTimeout) /\ WF_vars(Settle)

Spec == Init /\ [][Next]_vars /\ Fairness
-----------------------------------------------------------------------------
\* The state of the lookup.  A lookup that is shown as running has a request in
\* flight and either a timer to end it or, on the admin's page, the abort that
\* is about to reject it; every other request in flight is aborted, and every
\* other timer is off, the one of a failed call excepted; an answer about a
\* seller is shown by the two pages that show it (useDiscogsLookup,
\* useAdminDiscogsLookup).
LookupRuns ==
    hook.status = "loading" =>
        \E c \in calls : c.id = hook.call /\ (OnAdmin \/ c.id \notin aborted)
LoadingEnds ==
    hook.status = "loading" => hook.timer \/ (OnAdmin /\ hook.call \in aborted)
OneLiveCall ==
    \A c \in calls : c.id \notin aborted => c.id = hook.call /\ hook.status = "loading"
OneController == \A c, d \in calls : c.id = d.id => c = d
TimerIsLive ==
    hook.timer => /\ hook.status \in { "loading", "failed" } /\ hook.call # 0
                  /\ hook.call \notin aborted
NamedPlaces == { "invitation", "waitlisted", "storefront", "claim", "discogs", "linking",
                 "creating", "dashboard", "onboarding" }
PagesAreNamed == page.at \in NamedPlaces => page.name \in Names
HookIsMounted == hook # IdleHook => page.at \in { "home", "invitation", "admin" }

LookupInv ==
    /\ TypeOK
    /\ LookupRuns /\ LoadingEnds /\ OneLiveCall /\ OneController
    /\ TimerIsLive /\ HookIsMounted /\ PagesAreNamed

\* The seller an answer is shown about, and the store its button posts for, is
\* the one whose name stands in the field or in the address, however requests,
\* edits and pages follow each other.
Subject == IF page.at = "invitation" THEN page.name ELSE page.field

AnswerIsForTheName ==
    /\ hook.status \in StoreStatus <=> hook.about # Nobody
    /\ hook.about # Nobody => hook.about = Subject
    /\ \A c \in calls : c.id \notin aborted => c.name = Subject

\* Only the Discogs account of its seller becomes the owner of a store, and only
\* to its owner's browser the dashboard answers, whichever flows of the session
\* are open, mixed up or abandoned (AuthController, AuthCallbackService).
OwnersAreVerified ==
    /\ \A n \in Names : owners[n] \in { n, Nobody }
    /\ \A n \in Names : stores[n] = "owned" => owners[n] = n
    /\ session.owner # Nobody => owners[session.owner] = session.owner
    /\ page.at \in { "linking", "creating" } => page.account = page.name
    /\ page.at = "dashboard" => session.owner = page.name

\* A lookup ends: by an answer, a failure, the timeout or a change of the name
\* (useDiscogsLookup, useAdminDiscogsLookup: LOOKUP_TIMEOUT_MS).
LookupSettles == hook.status = "loading" ~> hook.status # "loading"

\* The hooks keep the promise of a lookup: see LookupLedger.
Asked == IF hook.status = "idle" THEN Nobody ELSE Subject

Shown ==
    IF hook.status \in { "idle", "loading" }
      THEN [status |-> "waiting", about |-> Nobody]
      ELSE [status |-> hook.status, about |-> hook.about]

Ledger == INSTANCE LookupLedger WITH asked <- Asked, answer <- Shown

ImplementsLookups == Ledger!Spec
=============================================================================
