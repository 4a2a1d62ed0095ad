------------------------------ MODULE SmokeTest ------------------------------
(***************************************************************************)
(* scripts/playwright_smoke.mjs: one test after the other opens a page,    *)
(* listens to it, visits, clicks and leaves it.  What goes wrong on the    *)
(* way - the server fails, the page raises, a wait runs out - comes at any *)
(* time; the run must fail for it, close its browser and end.              *)
(***************************************************************************)
EXTENDS Integers, Sequences

CONSTANT Plan  \* the tests of a run; ThePlan is the script's

\* visit: visitAndWait, or visit alone; guard: return if Rails shows an error;
\* skip: return if the page is an invitation; expect: record what is missing;
\* link: the same, and follow what is there; act: use what is there; try: the
\* same, whatever comes of it; request: one request of its own; rails: record
\* an error of Rails.
StepKinds ==
    { "visit", "guard", "skip", "expect", "link", "act", "try", "request", "rails" }

ASSUME SmokeAssumption ==
    Plan \in Seq([monitored : BOOLEAN, steps : Seq(StepKinds)]) /\ Plan # <<>>

VARIABLES
    run,       \* main: up to the end of the process
    browser,   \* chromium
    test,      \* the test that runs, and the step of it
    step,
    attempt,   \* of a visit
    page,      \* the page of the test
    errors,    \* the collector: what types of errors it holds
    exit,      \* the status of the process
    failed,    \* history: a page under test has failed
    cut        \* history: what has ended a test before its last step

vars == <<run, browser, test, step, attempt, page, errors, exit, failed, cut>>
main == <<run, browser, test, exit>>

Retries   == 1
Events    == { "JS Exception", "Console Error", "XHR/Fetch 5xx" }
Notes     == { "Nav Found", "Redirect Check", "Health Check Content", "Store Not Found" }
NoPage    == [open |-> FALSE, monitored |-> FALSE, shows |-> "blank"]

\* blank: no element of the app, for which visitAndWait waits in vain; rails: an
\* exception page of Rails; sorry: the page for a 5xx in production.
Shows     == { "blank", "app", "invitation", "rails", "sorry" }

TypeOK ==
    /\ run \in { "starting", "running", "throwing", "fatal", "over" }
    /\ browser \in { "none", "open", "closed" }
    /\ test \in 0 .. Len(Plan) + 1 /\ step \in Nat /\ attempt \in 0 .. Retries
    /\ page \in [open : BOOLEAN, monitored : BOOLEAN, shows : Shows]
    /\ errors \subseteq { "real", "note" }
    /\ exit \in { "none", "passed", "failed" }
    /\ failed \in BOOLEAN
    /\ cut \subseteq { "error page", "invitation" }

-----------------------------------------------------------------------------
(* The tests.                                                              *)

Monitored(steps)   == [monitored |-> TRUE, steps |-> steps]
Unmonitored(steps) == [monitored |-> FALSE, steps |-> steps]

HomePage       == Monitored(<<"visit", "guard", "link", "act", "act", "act">>)
ApplyPage      == Monitored(<<"visit", "guard", "act", "act">>)
StorePage      == Monitored(<<"visit", "guard", "skip", "act">>)
StoreCrate     == Monitored(<<"visit", "guard", "skip", "act", "act", "act", "act", "act">>)
DashboardPage  == Monitored(<<"visit", "visit", "guard", "act">>)
AdminLoginPage == Monitored(<<"visit", "guard">>)
DevAdminLogin  == Monitored(<<"visit", "guard", "try">>)
AdminLookup    == Monitored(<<"visit", "guard", "expect">>)
InvitationPage == Monitored(<<"visit", "guard", "expect">>)
ActionRoute    == Monitored(<<"request">>)
HealthCheck    == Monitored(<<"visit">>)
AdminRoute     == Monitored(<<"visit", "rails">>)

Times(n, t) == [i \in 1 .. n |-> t]

PublicPages == <<HomePage, ApplyPage>> \o Times(3, StorePage) \o Times(2, StoreCrate)

AuthPages ==
    <<InvitationPage, HealthCheck, AdminLoginPage, DevAdminLogin>>
        \o Times(2, AdminRoute) \o <<AdminLookup, DashboardPage>>

ActionRoutes == Times(5, ActionRoute)

\* The last two requests are made on pages nobody listens to.
AdminRoutes == Times(2, AdminRoute) \o Times(2, Unmonitored(<<"request">>))

Viewports == Times(3, Monitored(<<"visit">>))

ThePlan == PublicPages \o AuthPages \o ActionRoutes \o AdminRoutes \o Viewports

-----------------------------------------------------------------------------
(* The collector.                                                          *)

\* What comes with details "info" is not kept.
Recorded(type, info) ==
    IF info THEN errors ELSE errors \cup { IF type \in Notes THEN "note" ELSE "real" }

RealErrors == errors \ { "note" }

HasErrors == RealErrors # {}

\* What the listeners of a page record.
Heard(type) == IF page.monitored THEN Recorded(type, FALSE) ELSE errors

\* The run has to know of the failure of a page, or a request, under test.
Fault(counts) == failed' = (failed \/ counts)

NoFault == UNCHANGED failed

-----------------------------------------------------------------------------
(* main.                                                                   *)

Init ==
    /\ run = "starting" /\ browser = "none" /\ test = 0 /\ step = 0 /\ attempt = 0
    /\ page = NoPage /\ errors = {} /\ exit = "none"
    /\ failed = FALSE /\ cut = {}

Launch ==
    /\ run = "starting"
    /\ \/ run' = "running" /\ browser' = "open" /\ test' = 1 /\ NoFault
       \/ run' = "fatal" /\ Fault(TRUE) /\ UNCHANGED <<browser, test>>
    /\ UNCHANGED <<step, attempt, page, errors, exit, cut>>

\* Throw without the finally of main.
ThrowPastFinally ==
    /\ run' = "fatal" /\ Fault(TRUE)
    /\ UNCHANGED <<browser, test, step, attempt, page, errors, exit, cut>>

\* An exception that no test catches.
Throw ==
    /\ run' = "throwing" /\ Fault(TRUE)
    /\ UNCHANGED <<browser, test, step, attempt, page, errors, exit, cut>>

Running == run = "running" /\ test <= Len(Plan)

OpenPage ==
    /\ Running /\ step = 0
    /\ \/ /\ page' = [open |-> TRUE, monitored |-> Plan[test].monitored, shows |-> "blank"]
          /\ step' = 1
          /\ NoFault /\ UNCHANGED <<main, attempt, errors, cut>>
       \/ Throw

\* The function that setupPageMonitoring returns.
TearDown ==
    /\ page' = [page EXCEPT !.monitored = FALSE]
    /\ step' = Len(Plan[test].steps) + 2 /\ attempt' = 0

EndTest ==
    /\ Running /\ step = Len(Plan[test].steps) + 1
    /\ TearDown
    /\ NoFault /\ UNCHANGED <<main, errors, cut>>

ClosePage ==
    /\ Running /\ step = Len(Plan[test].steps) + 2
    /\ \/ /\ page' = NoPage /\ test' = test + 1 /\ step' = 0
          /\ NoFault /\ UNCHANGED <<run, browser, attempt, errors, exit, cut>>
       \/ Throw

\* finally, whether the tests are through or one of them has thrown.
CloseBrowser ==
    /\ \/ run = "throwing" /\ run' = "fatal"
       \/ run = "running" /\ test > Len(Plan) /\ run' = "over"
    /\ browser' = "closed" /\ page' = NoPage
    /\ NoFault /\ UNCHANGED <<test, step, attempt, errors, exit, cut>>

Exit ==
    /\ exit = "none" /\ run \in { "fatal", "over" }
    /\ exit' = IF run = "fatal" \/ HasErrors THEN "failed" ELSE "passed"
    /\ NoFault /\ UNCHANGED <<run, browser, test, step, attempt, page, errors, cut>>

-----------------------------------------------------------------------------
(* The steps of a test.                                                    *)

At(kind) == Running /\ step \in DOMAIN Plan[test].steps /\ Plan[test].steps[step] = kind

NextStep == step' = step + 1 /\ attempt' = 0

\* Retry that does not count.
RetryForEver == UNCHANGED <<attempt, step>>

Retry == attempt < Retries /\ attempt' = attempt + 1 /\ UNCHANGED step

\* isRailsErrorPage knows a page more than visit does.
IsRailsErrorPage == page.shows \in { "rails", "sorry" }

\* An answer below 500.  visit looks for an exception page of Rails in it and at
\* nothing else: neither a 4xx nor a page that visitAndWait finds without the app
\* is a failure to the script, although its header names them.
VisitAnswered ==
    \E shows \in Shows \ { "sorry" } :
        /\ page' = [page EXCEPT !.shows = shows]
        /\ NextStep /\ Fault(shows = "rails")
        /\ errors' = IF shows = "rails" THEN Recorded("Rails Error Page", FALSE) ELSE errors

\* The page of the last attempt is looked at, too: "Rails Error Page" is one more
\* real error.
VisitRefused ==
    /\ Fault(TRUE)
    /\ \E shows \in Shows : page' = [page EXCEPT !.shows = shows]
    /\ Retry \/ (attempt = Retries /\ NextStep)
    /\ errors' = Recorded("HTTP 5xx", FALSE)

\* VisitFailed that records the last attempt only.
VisitForgiven ==
    /\ Fault(TRUE)
    /\ \/ Retry /\ UNCHANGED errors
       \/ attempt = Retries /\ NextStep /\ errors' = Recorded("Navigation Error", FALSE)
    /\ \E shows \in Shows : page' = [page EXCEPT !.shows = shows]

\* The navigation throws, which may leave any page on screen; visit catches it.
VisitFailed ==
    /\ Fault(TRUE)
    /\ Retry \/ (attempt = Retries /\ NextStep)
    /\ errors' = Recorded("Navigation Error", FALSE)
    /\ \E shows \in Shows : page' = [page EXCEPT !.shows = shows]

Visit ==
    /\ At("visit")
    /\ VisitAnswered \/ VisitRefused \/ VisitFailed
    /\ UNCHANGED <<main, cut>>

Guard ==
    /\ At("guard")
    /\ IF IsRailsErrorPage
       THEN TearDown /\ cut' = cut \cup { "error page" }
       ELSE NextStep /\ UNCHANGED <<page, cut>>
    /\ NoFault /\ UNCHANGED <<main, errors>>

\* The test ends at the invitation; what it records of that is not kept.
SkipInvitation ==
    /\ At("skip")
    /\ IF page.shows = "invitation"
       THEN /\ TearDown /\ cut' = cut \cup { "invitation" }
            /\ errors' = Recorded("Store Not Found", TRUE)
       ELSE NextStep /\ UNCHANGED <<page, cut, errors>>
    /\ NoFault /\ UNCHANGED main

\* The text or the link is there, or its absence is recorded.
Expect ==
    /\ At("expect") \/ At("link")
    /\ errors' \in { errors, Recorded("Missing", FALSE) }
    /\ NextStep /\ NoFault /\ UNCHANGED <<main, page, cut>>

\* Clicks on what is there, and the waits that follow.
Act ==
    /\ At("act") \/ At("try")
    /\ NextStep /\ NoFault /\ UNCHANGED <<main, page, errors, cut>>

\* A click, a wait or a step back that runs out of time.
ActThrows == (\E kind \in { "act", "link", "guard", "rails" } : At(kind)) /\ Throw

\* A 4xx is an answer like any other.
RequestAnswered == UNCHANGED errors /\ NoFault

RequestRefused == Fault(TRUE) /\ errors' = Recorded("HTTP Error", FALSE)

RequestFailed == Fault(TRUE) /\ errors' = Recorded("Request Error", FALSE)

Request ==
    /\ At("request")
    /\ RequestAnswered \/ RequestRefused \/ RequestFailed
    /\ NextStep /\ UNCHANGED <<main, page, cut>>

CheckRails ==
    /\ At("rails")
    /\ errors' = IF IsRailsErrorPage THEN Recorded("Rails Error", FALSE) ELSE errors
    /\ NextStep /\ NoFault /\ UNCHANGED <<main, page, cut>>

\* The page raises, logs an error or is answered a 5xx, at any time.
PageEvent(event) ==
    /\ page.open /\ Fault(page.monitored)
    /\ errors' = Heard(event)
    /\ UNCHANGED <<main, step, attempt, page, cut>>

Script ==
    \/ Launch \/ OpenPage \/ EndTest \/ ClosePage \/ CloseBrowser \/ Exit
    \/ Visit \/ Guard \/ SkipInvitation \/ Expect \/ Act \/ ActThrows \/ Request \/ CheckRails

Next == Script \/ \E event \in Events : PageEvent(event)

\* Every wait of the script has a time limit.
Spec == Init /\ [][Next]_vars /\ WF_vars(Script)

-----------------------------------------------------------------------------
\* A page is listened to while a test runs on it, from the first visit to the
\* end of the test, and no browser is left behind by a process that has ended,
\* whatever ended it.
SmokeInv ==
    /\ TypeOK
    /\ page.monitored => page.open
    /\ page.open => browser = "open"
    /\ \A kind \in StepKinds : At(kind) => page.open /\ page.monitored = Plan[test].monitored
    /\ exit # "none" => browser # "open"

\* A run passes only if it came to its last test, nothing that the script counts
\* as a failure happened under test, and nothing ended a test before its last step
\* but an invitation in the place of a store: whatever is retried, ends a test
\* early or ends the run leaves a record otherwise, and no record is lost.  It
\* says nothing of a 4xx or of a page without the app (VisitAnswered).
FailuresFailTheRun ==
    exit = "passed" => ~failed /\ cut \subseteq { "invitation" } /\ test = Len(Plan) + 1

\* The run ends, whatever fails.
SmokeEnds == <>(exit # "none")
=============================================================================
