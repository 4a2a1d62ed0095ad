----------------------------- MODULE ApplyForm ------------------------------
(***************************************************************************)
(* The application form: the Apply page with its Turnstile widget, the     *)
(* script the widget needs, the fields and their errors, the POST and its  *)
(* redirect, the flash that confirms it, and WaitlistRegistration behind   *)
(* them.  A page that is left takes its listener, its widget and its ear   *)
(* for the answer along; the server may still register what was sent.      *)
(***************************************************************************)
EXTENDS Integers, FiniteSets, FiniteSetsExt

CONSTANTS
    Names,        \* Discogs usernames an applicant types
    Required,     \* the other required fields that are told apart
    MaxTokens,    \* bound: Turnstile tokens that are good and held
    MaxRequests   \* bound: requests the server may still answer

ASSUME RequiredAssumption == Required \subseteq { "name", "email" }
ASSUME BoundsAssumption   == MaxTokens \in Nat /\ MaxRequests \in Nat

Tokens   == 1 .. MaxTokens  \* 0 is a blank one, -1 one that is spent or expired
Slots    == 1 .. MaxRequests
Mounts   == 1 .. 2
FormKeys == Required \cup { "discogs_username", "turnstile" }

VARIABLES
    config,     \* TurnstileConfig: enabled, and whether keys are configured
    waitlist,   \* usernames registered
    own,        \* those this browser has registered
    flash,      \* flash[:submitted] of the session cookie
    confirmed,  \* the pages that took a confirmation out of it
    script,     \* the script tag of the document
    listening,  \* mounts whose render waits for its load event
    widget,     \* the widget of a mount
    form,       \* the page on screen, mount 0 if it is another one
    entry,      \* the props of the page in the history, once it is left
    requests    \* POSTs and the redirects that follow them

applyVars == <<config, waitlist, own, flash, confirmed, script, listening,
               widget, form, entry, requests>>
server  == <<waitlist, own>>
browser == <<script, listening, widget>>

Props == [submitted : BOOLEAN, errors : SUBSET FormKeys, initial : Names \cup { "" }]

Form ==
    [mount : Mounts \cup { 0 }, props : Props, username : Names \cup { "" },
     blank : SUBSET Required, token : -1 .. MaxTokens, processing : BOOLEAN]

\* mount: the page that waits for the answer, 0 when none does.
Request ==
    [stage : { "", "sent", "refused", "redirected", "following" }, mount : Mounts \cup { 0 },
     username : Names \cup { "" }, blank : SUBSET Required, token : -1 .. MaxTokens,
     errors : SUBSET FormKeys]

NoProps   == [submitted |-> FALSE, errors |-> {}, initial |-> ""]
NoRequest == [stage |-> "", mount |-> 0, username |-> "", blank |-> {}, token |-> 0,
              errors |-> {}]
NoForm    == [mount |-> 0, props |-> NoProps, username |-> "", blank |-> {}, token |-> 0,
              processing |-> FALSE]

ApplyTypeOK ==
    /\ own \subseteq waitlist /\ waitlist \subseteq Names
    /\ flash \in BOOLEAN
    /\ script \in { "none", "loading", "loaded", "failed" }
    /\ listening \subseteq Mounts
    /\ widget \in [Mounts -> { "none", "open", "solved" }]
    /\ form \in Form /\ entry \subseteq Props /\ requests \in [Slots -> Request]

ApplyInit ==
    /\ config \in { c \in [enabled : BOOLEAN, keyed : BOOLEAN] : c.keyed => c.enabled }
    /\ waitlist = {} /\ own = {}
    /\ flash = FALSE /\ confirmed = 0
    /\ script = "none" /\ listening = {} /\ widget = [m \in Mounts |-> "none"]
    /\ form = NoForm /\ entry = {}
    /\ requests = [s \in Slots |-> NoRequest]

\* Apply: a page confirms or has the form.
ConfirmationView == form.mount # 0 /\ form.props.submitted
OnForm == form.mount # 0 /\ ~form.props.submitted

\* useTurnstile: isReady, which also mounts the element of the widget.
IsReady == config.enabled /\ config.keyed

-----------------------------------------------------------------------------
(* Turnstile.                                                              *)

DoRenderTurnstile(m) == IF widget[m] = "none" THEN "open" ELSE widget[m]

\* SetupTurnstile that waits for a load event even after it has been.
SetupMutant(m, hasElement) ==
    IF ~(IsReady /\ hasElement)
    THEN UNCHANGED browser
    ELSE /\ script' = IF script = "none" THEN "loading" ELSE script
         /\ listening' = listening \cup { m } /\ UNCHANGED widget

\* The effect of a mount.  The element is there unless the page confirms.
SetupTurnstile(m, hasElement) ==
    IF ~(IsReady /\ hasElement)
    THEN UNCHANGED browser
    ELSE /\ script' = IF script = "none" THEN "loading" ELSE script
         /\ IF script = "loaded"
            THEN widget' = [widget EXCEPT ![m] = DoRenderTurnstile(m)] /\ UNCHANGED listening
            ELSE listening' = listening \cup { m } /\ UNCHANGED widget

\* Every mount that listens renders, once.
ScriptLoads ==
    /\ script = "loading" /\ script' = "loaded"
    /\ widget' = [m \in Mounts |->
                    IF m \in listening THEN DoRenderTurnstile(m) ELSE widget[m]]
    /\ listening' = {}
    /\ UNCHANGED <<config, server, flash, confirmed, form, entry, requests>>

\* A listener of a script that has failed waits for ever.
ScriptFails ==
    /\ script = "loading" /\ script' = "failed"
    /\ UNCHANGED <<config, server, flash, confirmed, listening, widget, form, entry,
                   requests>>

OnToken(m, token) == IF m = form.mount THEN [form EXCEPT !.token = token] ELSE form

Held == { form.token } \cup { requests[s].token : s \in Slots }

\* The callback with a new token.
Solve(m) ==
    /\ widget[m] = "open"
    /\ widget' = [widget EXCEPT ![m] = "solved"]
    /\ \E t \in Tokens \ Held :
         /\ \A u \in Tokens \ Held : t <= u
         /\ form' = OnToken(m, t)
    /\ UNCHANGED <<config, server, flash, confirmed, script, listening, entry, requests>>

\* Turnstile accepts a token once, and none that has expired.
Used(x, t) == IF t > 0 /\ x.token = t THEN [x EXCEPT !.token = -1] ELSE x

UsedByAll(rs, t) == [s \in Slots |-> Used(rs[s], t)]

\* expired-callback and error-callback.
Lapse(m) ==
    /\ widget[m] = "solved"
    /\ widget' = [widget EXCEPT ![m] = "open"]
    /\ form' = OnToken(m, 0)
    /\ requests' = UsedByAll(requests, form.token)
    /\ UNCHANGED <<config, server, flash, confirmed, script, listening, entry>>

\* RemoveTurnstileWidget that leaves the listener.
RemoveMutant ==
    /\ widget' = [m \in Mounts |-> IF m = form.mount THEN "none" ELSE widget[m]]
    /\ UNCHANGED listening

RemoveTurnstileWidget ==
    /\ listening' = listening \ { form.mount }
    /\ widget' = [m \in Mounts |-> IF m = form.mount THEN "none" ELSE widget[m]]

-----------------------------------------------------------------------------
(* Visits.                                                                 *)

\* What is left of a request nobody waits for: the server may still get it.
Abandoned(r) ==
    IF r.stage = "sent" THEN [r EXCEPT !.mount = 0, !.errors = {}] ELSE NoRequest

Forsaken ==
    [s \in Slots |-> IF requests[s].mount # 0 THEN Abandoned(requests[s]) ELSE requests[s]]

\* A mount is told apart from whatever an earlier one has left behind.
NextMount == Min({ m \in Mounts : m \notin listening /\ widget[m] = "none" })

FreshForm(mount, props) ==
    [mount |-> mount, props |-> props, username |-> props.initial,
     blank |-> Required, token |-> 0, processing |-> FALSE]

\* PagesController#apply: reading the flash sweeps it.
ApplyProps(initial) == [submitted |-> flash, errors |-> {}, initial |-> initial]

\* SweepFlash that leaves the flash in the session.
KeepFlash ==
    /\ UNCHANGED flash
    /\ confirmed' = confirmed + (IF flash THEN 1 ELSE 0)

SweepFlash ==
    /\ flash' = FALSE
    /\ confirmed' = confirmed + (IF flash THEN 1 ELSE 0)

\* A page mounts in a document that has none of it.
Mount(props) ==
    /\ form' = FreshForm(NextMount, props)
    /\ SetupTurnstile(NextMount, ~props.submitted)

OpenApply(initial) ==
    /\ form.mount = 0
    /\ Mount(ApplyProps(initial)) /\ SweepFlash /\ entry' = {}
    /\ UNCHANGED <<config, server, requests>>

\* Back: Inertia mounts the page with the props of its history entry.
ReturnToApply ==
    /\ form.mount = 0
    /\ \E props \in entry : Mount(props)
    /\ entry' = {}
    /\ UNCHANGED <<config, server, flash, confirmed, requests>>

\* A visit interrupts the request that is running and unmounts the page.
LeaveApply ==
    /\ form.mount # 0
    /\ entry' = { form.props } /\ form' = NoForm
    /\ RemoveTurnstileWidget
    /\ requests' = Forsaken
    /\ UNCHANGED <<config, server, flash, confirmed, script>>

\* A new document: no script, and whatever listened has gone with the old one.
ReloadApply ==
    /\ form.mount # 0
    /\ form' = FreshForm(1, ApplyProps(form.props.initial)) /\ SweepFlash
    /\ IF IsReady /\ ~flash
       THEN script' = "loading" /\ listening' = { 1 }
       ELSE script' = "none" /\ listening' = {}
    /\ widget' = [m \in Mounts |-> "none"]
    /\ requests' = Forsaken
    /\ UNCHANGED <<config, server, entry>>

-----------------------------------------------------------------------------
(* The form.                                                               *)

\* The fields take input while a POST runs; it carries a copy.
SetUsername(n) ==
    /\ OnForm /\ form.username # n
    /\ form' = [form EXCEPT !.username = n]
    /\ UNCHANGED <<config, server, flash, confirmed, browser, entry, requests>>

SetField(f) ==
    /\ OnForm
    /\ form' = [form EXCEPT !.blank = (@ \ { f }) \cup ({ f } \ @)]
    /\ UNCHANGED <<config, server, flash, confirmed, browser, entry, requests>>

FreeSlots == { s \in Slots : requests[s] = NoRequest }

\* A busy button is disabled, and Enter does not submit without it.
SubmitButton == OnForm /\ ~form.processing

HandleSubmit ==
    /\ SubmitButton
    /\ form' = [form EXCEPT !.processing = TRUE]
    /\ \E s \in FreeSlots :
         /\ \A t \in FreeSlots : s <= t
         /\ requests' = [requests EXCEPT ![s] =
              [stage |-> "sent", mount |-> form.mount, username |-> form.username,
               blank |-> form.blank, token |-> form.token, errors |-> {}]]
    /\ UNCHANGED <<config, server, flash, confirmed, browser, entry>>

FieldError(name) == name \in form.props.errors

\* FormFields: the fields that show their error beside them.
MarkedFields == { f \in Required \cup { "discogs_username" } : FieldError(f) }

\* The list on top leaves out the error of the widget, and is there for it all
\* the same.
ListedErrors == form.props.errors \ { "turnstile" }

ApplyErrors == OnForm /\ form.props.errors # {}

\* An error of the widget is shown where the widget is.
TurnstileGuard == IF IsReady /\ FieldError("turnstile") THEN { "turnstile" } ELSE {}

-----------------------------------------------------------------------------
(* The server.                                                             *)

Verifiable(token) == config.keyed /\ token > 0

InvalidFields(r) ==
    r.blank \cup (IF r.username = "" \/ r.username \in waitlist
                  THEN { "discogs_username" } ELSE {})

\* Nobody hears the answer of a request that was abandoned.
Answer(s, stage, errors) ==
    [requests EXCEPT ![s] =
        IF @.mount = 0 THEN NoRequest
        ELSE [NoRequest EXCEPT !.stage = stage, !.mount = requests[s].mount,
                               !.errors = errors]]

\* Turnstile has seen the token of a request that is answered.
Spend(s, answered) ==
    /\ form' = Used(form, requests[s].token)
    /\ requests' = UsedByAll(answered, requests[s].token)

KeepToken(s, answered) == requests' = answered /\ UNCHANGED form

\* WaitlistRegistration: the verifier refuses, or cannot be reached - and then
\* the token may have been spent or not.
TurnstileFailure(s) ==
    /\ config.enabled
    /\ LET answered == Answer(s, "refused", { "turnstile" })
       IN  Spend(s, answered) \/ KeepToken(s, answered)
    /\ UNCHANGED server

TurnstileVerified(s, answered) ==
    IF config.enabled
    THEN Verifiable(requests[s].token) /\ Spend(s, answered)
    ELSE KeepToken(s, answered)

InvalidResult(s) ==
    /\ InvalidFields(requests[s]) # {}
    /\ TurnstileVerified(s, Answer(s, "refused", InvalidFields(requests[s])))
    /\ UNCHANGED server

Persist(s) ==
    /\ InvalidFields(requests[s]) = {}
    /\ TurnstileVerified(s, Answer(s, "redirected", {}))
    /\ waitlist' = waitlist \cup { requests[s].username }
    /\ own' = own \cup { requests[s].username }

Create(s) ==
    /\ requests[s].stage = "sent"
    /\ TurnstileFailure(s) \/ InvalidResult(s) \/ Persist(s)
    /\ UNCHANGED <<config, flash, confirmed, browser, entry>>

OthersRegister(n) ==
    /\ n \notin waitlist /\ waitlist' = waitlist \cup { n }
    /\ UNCHANGED <<config, own, flash, confirmed, browser, form, entry, requests>>

-----------------------------------------------------------------------------
(* The answers.                                                            *)

Waits(s) == requests[s].mount # 0 /\ requests[s].mount = form.mount

\* The page is rendered in place: its state survives, its props do not.  The
\* answer to the POST carries no initial username.
RenderErrors(s) ==
    /\ Waits(s) /\ requests[s].stage = "refused"
    /\ form' = [form EXCEPT !.processing = FALSE,
                            !.props = [submitted |-> FALSE, errors |-> requests[s].errors,
                                       initial |-> ""]]
    /\ requests' = [requests EXCEPT ![s] = NoRequest]
    /\ UNCHANGED <<config, server, flash, confirmed, browser, entry>>

\* The redirect brings the cookie with the flash.
FollowRedirect(s) ==
    /\ Waits(s) /\ requests[s].stage = "redirected"
    /\ flash' = TRUE
    /\ requests' = [requests EXCEPT ![s].stage = "following"]
    /\ UNCHANGED <<config, server, confirmed, browser, form, entry>>

\* The effect of the widget depends on the configuration alone and stays.
RenderConfirmation(s) ==
    /\ Waits(s) /\ requests[s].stage = "following"
    /\ form' = [form EXCEPT !.processing = FALSE, !.props = ApplyProps("")]
    /\ SweepFlash
    /\ requests' = [requests EXCEPT ![s] = NoRequest]
    /\ UNCHANGED <<config, server, browser, entry>>

\* The network gives up; the request may arrive all the same.
AnswerIsLost(s) ==
    /\ Waits(s)
    /\ form' = [form EXCEPT !.processing = FALSE]
    /\ requests' = [requests EXCEPT ![s] = Abandoned(@)]
    /\ UNCHANGED <<config, server, flash, confirmed, browser, entry>>

RequestIsLost(s) ==
    /\ requests[s].stage = "sent" /\ requests[s].mount = 0
    /\ requests' = [requests EXCEPT ![s] = NoRequest]
    /\ UNCHANGED <<config, server, flash, confirmed, browser, form, entry>>

Exchange(s) ==
    \/ Create(s)
    \/ RenderErrors(s)
    \/ FollowRedirect(s)
    \/ RenderConfirmation(s)
    \/ AnswerIsLost(s)
    \/ RequestIsLost(s)

ApplyStep ==
    \/ ScriptLoads
    \/ ScriptFails
    \/ \E m \in Mounts : Solve(m) \/ Lapse(m)
    \/ ReloadApply
    \/ \E n \in Names \cup { "" } : SetUsername(n)
    \/ \E f \in Required : SetField(f)
    \/ HandleSubmit
    \/ \E s \in Slots : Exchange(s)
    \/ \E n \in Names : OthersRegister(n)

-----------------------------------------------------------------------------
\* A widget or a listener is the mounted page's, and it has one of the two; a
\* token in the form is the one its widget shows as solved; the form is busy
\* exactly while its request is under way.
WidgetIsMounted ==
    /\ \A m \in Mounts : m \in listening \/ widget[m] # "none" => m = form.mount
    /\ \A m \in listening : widget[m] = "none"
    /\ form.token # 0 <=> form.mount # 0 /\ widget[form.mount] = "solved"

BusyIsTrue == form.processing <=> \E s \in Slots : Waits(s)

\* A page that confirms follows a registration of this browser.
ConfirmationIsReal ==
    flash \/ ConfirmationView \/ (\E props \in entry : props.submitted) => own # {}

\* A refusal tells all it is for, and marks the fields it lists - where
\* Turnstile is keyed.
RefusalIsExplained ==
    ApplyErrors /\ (config.enabled => config.keyed) =>
        /\ ListedErrors \cup TurnstileGuard = form.props.errors
        /\ ListedErrors = MarkedFields

ApplyInv ==
    /\ ApplyTypeOK
    /\ WidgetIsMounted
    /\ BusyIsTrue
    /\ ConfirmationIsReal
    /\ RefusalIsExplained

\* A registration is confirmed once at most, however the answers are lost and
\* the pages reloaded: the flash is swept by the page that shows it.
ConfirmedOnce == confirmed <= Cardinality(own)

\* A form whose token has been spent, by a refusal for another field, gets a new
\* one without the applicant's doing, when the old one expires.
TokensAreRenewed ==
    (OnForm /\ script = "loaded" /\ IsReady /\ ~Verifiable(form.token))
        ~> (~OnForm \/ script # "loaded" \/ Verifiable(form.token))
=============================================================================
