--------------------------- MODULE SmokeTest_proofs ---------------------------
(***************************************************************************)
(* The smoke test keeps what it has seen, whatever tests it is given.      *)
(***************************************************************************)
EXTENDS SmokeTest, TLAPS

Broken == { "rails", "sorry" }

\* What a page has failed with is in the collector, or ends the run as fatal; an
\* error page is on screen only after its answer has been recorded.
Known == "real" \in errors \/ run \in { "throwing", "fatal" }
NothingIsForgotten ==
    /\ failed => Known
    /\ "error page" \in cut \/ page.shows \in Broken => "real" \in errors

\* The process ends after its last test, or after an exception, and with no page.
EndsInOrder ==
    /\ page.open => run \in { "running", "throwing" }
    /\ run = "running" => test # 0
    /\ run = "over" => test = Len(Plan) + 1
    /\ exit # "none" => run \in { "fatal", "over" }
    /\ exit = "passed" => run = "over" /\ "real" \notin errors

KeptInv == TypeOK /\ NothingIsForgotten /\ EndsInOrder

HistoryType ==
    /\ failed \in BOOLEAN
    /\ cut \subseteq { "error page", "invitation" }

USE DEF Broken

\* A plan has tests.
LEMMA PlanIsFinite == Len(Plan) \in Nat \ {0}
BY SmokeAssumption

\* main starts with nothing to report.
LEMMA StartsKnown == Init => KeptInv
<1> SUFFICES ASSUME Init PROVE KeptInv
    OBVIOUS
<1>1. /\ failed \in BOOLEAN /\ cut = {}
      /\ page \in [open : BOOLEAN, monitored : BOOLEAN, shows : Shows]
    BY DEF Init, NoPage, Shows
<1>2. TypeOK
    BY <1>1, PlanIsFinite DEF Init, TypeOK, Retries
<1>3. NothingIsForgotten
    BY DEF Init, NothingIsForgotten, NoPage
<1>4. EndsInOrder
    BY DEF Init, EndsInOrder, NoPage
<1>5. QED
    BY <1>2, <1>3, <1>4 DEF KeptInv

\* A run counts its tests from the first.
LEMMA PlannedTest ==
    ASSUME TypeOK, EndsInOrder, run = "running", test <= Len(Plan)
    PROVE  test \in 1 .. Len(Plan)
<1>1. test \in 0 .. Len(Plan) + 1
    BY DEF TypeOK
<1>2. test # 0
    BY DEF EndsInOrder
<1>3. QED
    BY <1>1, <1>2, PlanIsFinite

\* The test that runs is one of the plan.
LEMMA TestIsPlanned ==
    ASSUME TypeOK, EndsInOrder, Running
    PROVE  /\ test + 1 \in 1 .. Len(Plan) + 1
           /\ Plan[test].monitored \in BOOLEAN
           /\ Len(Plan[test].steps) \in Nat
<1> DEFINE Test == [monitored : BOOLEAN, steps : Seq(StepKinds)]
<1>1. test \in 1 .. Len(Plan)
    BY PlannedTest DEF Running
<1>2. Plan \in Seq(Test)
    BY SmokeAssumption
<1>3. Plan[test] \in Test
    <2> HIDE DEF Test
    <2>1. QED
        BY <1>1, <1>2
<1>4. Plan[test].steps \in Seq(StepKinds) /\ Plan[test].monitored \in BOOLEAN
    BY <1>3
<1>5. Len(Plan[test].steps) \in Nat
    BY <1>4
<1>6. QED
    BY <1>1, <1>4, <1>5, PlanIsFinite

\* What the collector is given stays, unless it is info.
LEMMA RecordsStay ==
    ASSUME errors \subseteq { "real", "note" }
    PROVE  /\ \A type : /\ Recorded(type, FALSE) \subseteq { "real", "note" }
                        /\ errors \subseteq Recorded(type, FALSE)
                        /\ type \notin Notes => "real" \in Recorded(type, FALSE)
           /\ \A type : Recorded(type, TRUE) = errors
BY DEF Recorded

\* A fault is remembered, and nothing else changes the history.
LEMMA FaultIsTyped ==
    ASSUME TypeOK
    PROVE  /\ Fault(TRUE) \/ Fault(page.monitored) \/ NoFault => failed' \in BOOLEAN
           /\ \A shows : Fault(shows = "rails") => failed' \in BOOLEAN
BY DEF Fault, NoFault, TypeOK

PageType == [open : BOOLEAN, monitored : BOOLEAN, shows : Shows]

\* What the actions make of a page is one.
LEMMA PageIsTyped ==
    ASSUME TypeOK
    PROVE  /\ page \in PageType
           /\ \A s \in Shows : [page EXCEPT !.shows = s] \in PageType
           /\ [page EXCEPT !.monitored = FALSE] \in PageType
           /\ NoPage \in PageType
           /\ Running /\ EndsInOrder
                => [open |-> TRUE, monitored |-> Plan[test].monitored, shows |-> "blank"]
                    \in PageType
<1>1. NoPage \in PageType
    BY DEF NoPage, PageType, Shows
<1>2. ASSUME Running, EndsInOrder
      PROVE  [open |-> TRUE, monitored |-> Plan[test].monitored, shows |-> "blank"] \in PageType
    <2>1. Plan[test].monitored \in BOOLEAN
        BY <1>2, TestIsPlanned
    <2>2. QED
        BY <2>1 DEF PageType, Shows
<1>3. QED
    BY <1>1, <1>2 DEF TypeOK, PageType

Scalars ==
    /\ run \in { "starting", "running", "throwing", "fatal", "over" }
    /\ browser \in { "none", "open", "closed" }
    /\ test \in 0 .. Len(Plan) + 1 /\ step \in Nat /\ attempt \in 0 .. Retries
    /\ errors \subseteq { "real", "note" }
    /\ exit \in { "none", "passed", "failed" }

\* TypeOK in the parts its proof takes one by one.
LEMMA TypeParts ==
    TypeOK <=> Scalars /\ page \in PageType /\ HistoryType
BY DEF TypeOK, Scalars, PageType, HistoryType

\* The collector only grows.
LEMMA ErrorsStep ==
    KeptInv /\ [Next]_vars =>
        errors' \subseteq { "real", "note" } /\ errors \subseteq errors'
<1> DEFINE Types == { "real", "note" }
<1> SUFFICES ASSUME KeptInv, [Next]_vars
             PROVE  errors' \subseteq Types /\ errors \subseteq errors'
    OBVIOUS
<1>a. errors \subseteq Types
    BY DEF KeptInv, TypeOK
<1>b. \A type : Recorded(type, FALSE) \subseteq Types /\ errors \subseteq Recorded(type, FALSE)
    BY <1>a, RecordsStay
<1>c. \A type : Recorded(type, TRUE) = errors
    BY <1>a, RecordsStay
<1> HIDE DEF Types
<1>1. CASE \/ Launch \/ CloseBrowser \/ Exit \/ UNCHANGED vars \/ OpenPage \/ ClosePage
           \/ ActThrows \/ EndTest \/ Guard \/ Act
    BY <1>1, <1>a
    DEF Launch, CloseBrowser, Exit, vars, OpenPage, ClosePage, ActThrows, EndTest, Guard, Act,
        Throw
<1>2. CASE Visit
    BY <1>2, <1>a, <1>b DEF Visit, VisitAnswered, VisitRefused, VisitFailed
<1>3. CASE SkipInvitation
    BY <1>3, <1>a, <1>c DEF SkipInvitation
<1>4. CASE Expect \/ CheckRails
    BY <1>4, <1>a, <1>b DEF Expect, CheckRails
<1>5. CASE Request
    BY <1>5, <1>a, <1>b DEF Request, RequestAnswered, RequestRefused, RequestFailed
<1>6. CASE \E event \in Events : PageEvent(event)
    BY <1>6, <1>a, <1>b DEF PageEvent, Heard
<1>7. QED
    BY <1>1, <1>2, <1>3, <1>4, <1>5, <1>6 DEF Next, Script

\* The types of what is neither page nor history.
LEMMA ScalarsStep == KeptInv /\ [Next]_vars => Scalars'
<1> SUFFICES ASSUME KeptInv, [Next]_vars PROVE Scalars'
    OBVIOUS
<1>a. TypeOK /\ EndsInOrder /\ Scalars
    BY TypeParts DEF KeptInv
<1>b. errors' \subseteq { "real", "note" }
    BY ErrorsStep
<1>d. Running => test + 1 \in 0 .. Len(Plan) + 1 /\ Len(Plan[test].steps) \in Nat
    BY <1>a, TestIsPlanned
<1>1. CASE Launch
    BY <1>1, <1>a, <1>b, PlanIsFinite DEF Launch, Fault, NoFault, Scalars
<1>2. CASE CloseBrowser \/ Exit \/ UNCHANGED vars
    BY <1>2, <1>a, <1>b DEF CloseBrowser, Exit, Scalars, vars
<1>3. CASE OpenPage \/ ClosePage \/ ActThrows
    BY <1>3, <1>a, <1>b, <1>d
    DEF OpenPage, ClosePage, ActThrows, Throw, At, Running, Fault, NoFault, Scalars, main
<1>4. CASE EndTest \/ Guard \/ SkipInvitation
    <2>1. Running /\ (TearDown \/ NextStep) /\ UNCHANGED main
        BY <1>4 DEF EndTest, Guard, SkipInvitation, At
    <2>2. QED
        BY <2>1, <1>a, <1>b, <1>d DEF TearDown, NextStep, Scalars, main, Retries
<1>5. CASE Visit \/ Expect \/ Act \/ CheckRails \/ Request
    <2>1. (Retry \/ NextStep) /\ UNCHANGED main
        BY <1>5
        DEF Visit, VisitAnswered, VisitRefused, VisitFailed, Expect, Act, CheckRails, Request
    <2>2. QED
        BY <2>1, <1>a, <1>b DEF Retry, NextStep, Scalars, main, Retries
<1>6. CASE \E event \in Events : PageEvent(event)
    BY <1>6, <1>a, <1>b DEF PageEvent, Scalars, main
<1>7. QED
    BY <1>1, <1>2, <1>3, <1>4, <1>5, <1>6 DEF Next, Script

\* The type of the page.
LEMMA PageStep == KeptInv /\ [Next]_vars => page' \in PageType
<1> SUFFICES ASSUME KeptInv, [Next]_vars PROVE page' \in PageType
    OBVIOUS
<1>a. TypeOK /\ EndsInOrder
    BY DEF KeptInv
<1>1. /\ page \in PageType
      /\ \A s \in Shows : [page EXCEPT !.shows = s] \in PageType
      /\ [page EXCEPT !.monitored = FALSE] \in PageType
      /\ NoPage \in PageType
    BY <1>a, PageIsTyped
<1>2. CASE OpenPage
    BY <1>2, <1>1, <1>a, PageIsTyped DEF OpenPage, Throw
<1>3. CASE Visit
    <2>1. /\ { "app", "invitation", "blank", "rails", "sorry" } \subseteq Shows
        BY DEF Shows
    <2>2. QED
        BY <1>3, <1>1, <2>1 DEF Visit, VisitAnswered, VisitRefused, VisitFailed
<1>4. CASE Launch \/ CloseBrowser \/ Exit \/ ClosePage \/ EndTest \/ UNCHANGED vars
    BY <1>4, <1>1 DEF Launch, CloseBrowser, Exit, ClosePage, Throw, EndTest, TearDown, vars
<1>5. CASE Guard \/ SkipInvitation
    BY <1>5, <1>1 DEF Guard, SkipInvitation, TearDown
<1>6. CASE \/ Expect \/ Act \/ ActThrows \/ Request \/ CheckRails
           \/ \E event \in Events : PageEvent(event)
    BY <1>6, <1>1 DEF Expect, Act, ActThrows, Throw, Request, CheckRails, PageEvent
<1>7. QED
    BY <1>2, <1>3, <1>4, <1>5, <1>6 DEF Next, Script

\* What an answered visit does to the page and the history.
LEMMA AnsweredVisit ==
    ASSUME VisitAnswered
    PROVE  \E shows \in Shows \ { "sorry" } :
              /\ page' = [page EXCEPT !.shows = shows]
              /\ Fault(shows = "rails")
              /\ shows = "rails" => errors' = Recorded("Rails Error Page", FALSE)
              /\ shows # "rails" => errors' = errors
BY DEF VisitAnswered

\* The types of the history.
LEMMA HistoryStep == KeptInv /\ [Next]_vars => HistoryType'
<1> SUFFICES ASSUME KeptInv, [Next]_vars PROVE HistoryType'
    OBVIOUS
<1>1. failed \in BOOLEAN /\ cut \subseteq { "error page", "invitation" }
    BY DEF KeptInv, TypeOK
<1>2. /\ Fault(TRUE) \/ Fault(page.monitored) \/ NoFault => failed' \in BOOLEAN
      /\ \A shows : Fault(shows = "rails") => failed' \in BOOLEAN
    BY FaultIsTyped DEF KeptInv
<1>3. failed' \in BOOLEAN
  <2>1. CASE Launch \/ OpenPage \/ EndTest \/ ClosePage \/ CloseBrowser \/ Exit
      BY <2>1, <1>1, <1>2
      DEF Launch, OpenPage, EndTest, ClosePage, CloseBrowser, Exit, Throw
  <2>2. CASE Visit \/ Guard \/ SkipInvitation
      BY <2>2, <1>1, <1>2, AnsweredVisit
      DEF Visit, VisitRefused, VisitFailed, Guard, SkipInvitation
  <2>3. CASE \/ Expect \/ Act \/ ActThrows \/ Request \/ CheckRails
             \/ \E event \in Events : PageEvent(event)
      BY <2>3, <1>1, <1>2
      DEF Expect, Act, ActThrows, Throw, Request, RequestAnswered, RequestRefused,
          RequestFailed, CheckRails, PageEvent
  <2>4. CASE UNCHANGED vars
      BY <2>4, <1>1 DEF vars
  <2>5. QED
      BY <2>1, <2>2, <2>3, <2>4 DEF Next, Script
<1>4. cut' \subseteq { "error page", "invitation" }
  <2>1. CASE Guard \/ SkipInvitation
      BY <2>1, <1>1 DEF Guard, SkipInvitation
  <2>2. CASE \/ Launch \/ OpenPage \/ EndTest \/ ClosePage \/ CloseBrowser \/ Exit
             \/ Visit \/ Expect \/ Act \/ ActThrows \/ Request \/ CheckRails
             \/ UNCHANGED vars \/ \E event \in Events : PageEvent(event)
      BY <2>2, <1>1
      DEF Launch, OpenPage, EndTest, ClosePage, CloseBrowser, Exit, Throw, Visit, Expect, Act,
          ActThrows, Request, CheckRails, PageEvent, vars
  <2>3. QED
      BY <2>1, <2>2 DEF Next, Script
<1>5. QED
    BY <1>3, <1>4 DEF HistoryType

\* The types of the script and its page.
LEMMA TypeStep == KeptInv /\ [Next]_vars => TypeOK'
<1> SUFFICES ASSUME KeptInv, [Next]_vars PROVE TypeOK'
    OBVIOUS
<1>1. Scalars' /\ page' \in PageType /\ HistoryType'
    BY ScalarsStep, PageStep, HistoryStep
<1>2. QED
    BY <1>1 DEF TypeOK, Scalars, PageType, HistoryType

-----------------------------------------------------------------------------
(* No record is lost.                                                      *)

\* What fails is recorded at once, or thrown.
LEMMA FaultsAreRecorded == KeptInv /\ [Next]_vars => (failed' => Known')
<1> SUFFICES ASSUME KeptInv, [Next]_vars, failed' PROVE Known'
    OBVIOUS
<1>a. errors \subseteq errors' /\ errors \subseteq { "real", "note" }
    BY ErrorsStep DEF KeptInv, TypeOK
<1>b. \A type : type \notin Notes => "real" \in Recorded(type, FALSE)
    BY <1>a, RecordsStay
<1>c. failed => Known
    BY DEF KeptInv, NothingIsForgotten
<1>1. CASE Launch
    <2>1. run' = "fatal" \/ failed
        BY <1>1 DEF Launch, NoFault
    <2>2. run = "starting"
        BY <1>1 DEF Launch
    <2>3. QED
        BY <2>1, <2>2, <1>a, <1>c DEF Known
<1>2. CASE OpenPage \/ ClosePage \/ ActThrows
    <2>1. Throw \/ (failed' = failed /\ run' = run)
        BY <1>2 DEF OpenPage, ClosePage, ActThrows, NoFault, main
    <2>2. CASE Throw
        BY <2>2 DEF Throw, Known
    <2>3. CASE failed' = failed /\ run' = run
        BY <2>3, <1>a, <1>c DEF Known
    <2>4. QED
        BY <2>1, <2>2, <2>3
<1>3. CASE EndTest \/ Guard \/ SkipInvitation \/ Expect \/ Act \/ CheckRails
    <2>1. failed /\ run' = run
        BY <1>3 DEF EndTest, Guard, SkipInvitation, Expect, Act, CheckRails, NoFault, main
    <2>2. QED
        BY <2>1, <1>a, <1>c DEF Known
<1>4. CASE CloseBrowser \/ Exit \/ UNCHANGED vars
    <2>1. failed /\ (run' = run \/ run' = "fatal" \/ run = "running")
        BY <1>4 DEF CloseBrowser, Exit, NoFault, vars
    <2>2. QED
        BY <2>1, <1>a, <1>c DEF Known
<1>5. CASE Visit \/ Request
    <2>1. run' = run
        BY <1>5 DEF Visit, Request, main
    <2>2. failed \/ "real" \in errors'
      <3>1. CASE VisitAnswered
          BY <3>1, <1>b, AnsweredVisit DEF Fault, Notes
      <3>2. CASE VisitRefused \/ VisitFailed \/ Request
          BY <3>2, <1>b
          DEF VisitRefused, VisitFailed, Request, RequestAnswered, RequestRefused,
              RequestFailed, NoFault, Notes
      <3>3. QED
          BY <1>5, <3>1, <3>2 DEF Visit
    <2>3. QED
        BY <2>1, <2>2, <1>a, <1>c DEF Known
<1>6. CASE \E event \in Events : PageEvent(event)
    <2>1. PICK event \in Events : PageEvent(event)
        BY <1>6
    <2>2. run' = run /\ (failed \/ page.monitored)
        BY <2>1 DEF PageEvent, Fault, main
    <2>3. page.monitored => "real" \in errors'
        BY <2>1, <1>b DEF PageEvent, Heard, Events, Notes
    <2>4. QED
        BY <2>2, <2>3, <1>a, <1>c DEF Known
<1>7. QED
    BY <1>1, <1>2, <1>3, <1>4, <1>5, <1>6 DEF Next, Script

\* An error page on screen is one of an answer that was recorded.
LEMMA BrokenIsRecorded ==
    KeptInv /\ [Next]_vars =>
        ("error page" \in cut' \/ page'.shows \in Broken => "real" \in errors')
<1> SUFFICES ASSUME KeptInv, [Next]_vars, "error page" \in cut' \/ page'.shows \in Broken
             PROVE  "real" \in errors'
    OBVIOUS
<1>a. errors \subseteq errors' /\ errors \subseteq { "real", "note" }
    BY ErrorsStep DEF KeptInv, TypeOK
<1>b. \A type : type \notin Notes => "real" \in Recorded(type, FALSE)
    BY <1>a, RecordsStay
<1>c. "error page" \in cut \/ page.shows \in Broken => "real" \in errors
    BY DEF KeptInv, NothingIsForgotten
<1>e. UNCHANGED <<page, cut>> => "real" \in errors'
    BY <1>a, <1>c
<1>d. page \in PageType
    BY DEF KeptInv, TypeOK, PageType
<1>1. CASE \/ Launch \/ Exit \/ Expect \/ Act \/ ActThrows \/ CheckRails \/ Request
           \/ UNCHANGED vars
           \/ \E event \in Events : PageEvent(event)
    <2>1. UNCHANGED <<page, cut>>
        BY <1>1
        DEF Launch, Exit, Expect, Act, ActThrows, Throw, CheckRails, Request, PageEvent, vars
    <2>2. QED
        BY <2>1, <1>a, <1>c
<1>2. CASE OpenPage \/ ClosePage \/ CloseBrowser
    <2> DEFINE fresh == [open |-> TRUE, monitored |-> Plan[test].monitored, shows |-> "blank"]
    <2>0. fresh.shows = "blank" /\ NoPage.shows = "blank"
        BY DEF NoPage
    <2>1. cut' = cut
        BY <1>2 DEF OpenPage, ClosePage, CloseBrowser, Throw
    <2>2. UNCHANGED page \/ page' = NoPage \/ page' = fresh
        BY <1>2 DEF OpenPage, ClosePage, CloseBrowser, Throw
    <2> HIDE DEF fresh
    <2>3. CASE UNCHANGED page
        BY <2>1, <2>3, <1>e
    <2>4. CASE page' # page
      <3>1. page'.shows = "blank"
          BY <2>0, <2>2, <2>4, Zenon
      <3>2. QED
          BY <2>1, <3>1, <1>a, <1>c
    <2>5. QED
        BY <2>3, <2>4
<1>3. CASE EndTest \/ SkipInvitation
    <2>1. page' = page \/ page' = [page EXCEPT !.monitored = FALSE]
        BY <1>3 DEF EndTest, SkipInvitation, TearDown
    <2>2. page'.shows = page.shows
        BY <2>1, <1>d DEF PageType
    <2>3. cut' = cut \/ cut' = cut \cup { "invitation" }
        BY <1>3 DEF EndTest, SkipInvitation
    <2>4. "error page" \in cut' => "error page" \in cut
      <3>1. "error page" \notin { "invitation" }
          OBVIOUS
      <3>2. QED
          BY <2>3, <3>1, Zenon
    <2>5. QED
        BY <2>2, <2>4, <1>a, <1>c
<1>4. CASE Guard
    <2>1. /\ page'.shows = page.shows
          /\ "error page" \in cut' => "error page" \in cut \/ page.shows \in Broken
        BY <1>4, <1>d DEF Guard, IsRailsErrorPage, TearDown, PageType
    <2>2. QED
        BY <2>1, <1>a, <1>c
<1>5. CASE Visit
    <2>1. cut' = cut
        BY <1>5 DEF Visit
    <2>2. CASE VisitAnswered
        <3>1. PICK shows \in Shows \ { "sorry" } :
                 /\ page' = [page EXCEPT !.shows = shows]
                 /\ shows = "rails" => errors' = Recorded("Rails Error Page", FALSE)
            BY <2>2, AnsweredVisit
        <3>2. page'.shows = shows
            BY <3>1, <1>d DEF PageType
        <3>3. CASE shows = "rails"
            BY <3>1, <3>3, <1>b DEF Notes
        <3>4. CASE shows # "rails"
            BY <3>1, <3>2, <3>4, <2>1, <1>a, <1>c
        <3>5. QED
            BY <3>3, <3>4
    <2>3. CASE VisitRefused \/ VisitFailed
        BY <2>3, <1>b DEF VisitRefused, VisitFailed, Notes
    <2>4. QED
        BY <1>5, <2>2, <2>3 DEF Visit
<1>6. QED
    BY <1>1, <1>2, <1>3, <1>4, <1>5 DEF Next, Script

\* The process ends in order.
LEMMA OrderStep == KeptInv /\ [Next]_vars => EndsInOrder'
<1> SUFFICES ASSUME KeptInv, [Next]_vars PROVE EndsInOrder'
    OBVIOUS
<1> USE DEF EndsInOrder
<1>a. EndsInOrder /\ TypeOK /\ page \in PageType
    BY DEF KeptInv, TypeOK, PageType
<1>b. test \in 0 .. Len(Plan) + 1 /\ exit \in { "none", "passed", "failed" }
    BY <1>a DEF TypeOK
<1>c. ~NoPage.open
    BY DEF NoPage
<1>1. CASE Launch
    <2>1. /\ run = "starting" /\ UNCHANGED <<page, exit>>
          /\ run' = "fatal" \/ (run' = "running" /\ test' = 1)
        BY <1>1 DEF Launch
    <2>2. QED
        BY <2>1, <1>a
<1>2. CASE Exit
    BY <1>2, <1>a DEF Exit, HasErrors, RealErrors
<1>3. CASE CloseBrowser
    <2>1. run = "running" => (test > Len(Plan) /\ run' = "over")
        BY <1>3 DEF CloseBrowser
    <2>2. run = "throwing" => run' = "fatal"
        BY <1>3 DEF CloseBrowser
    <2>3. run \in { "running", "throwing" } /\ page' = NoPage /\ UNCHANGED <<test, exit, errors>>
        BY <1>3 DEF CloseBrowser
    <2>4. QED
        BY <2>1, <2>2, <2>3, <1>a, <1>b, <1>c, PlanIsFinite
<1>4. CASE OpenPage \/ ClosePage \/ ActThrows
    <2>1. run = "running" /\ run' \in { "running", "throwing" } /\ exit' = exit /\ errors' = errors
        BY <1>4 DEF OpenPage, ClosePage, ActThrows, Throw, At, Running, main
    <2>2. test' = test \/ test' = test + 1
        BY <1>4 DEF OpenPage, ClosePage, ActThrows, Throw, main
    <2>3. QED
        BY <2>1, <2>2, <1>a, <1>b
<1>5. CASE \/ EndTest \/ Guard \/ SkipInvitation \/ Visit \/ Expect \/ Act \/ Request
           \/ CheckRails
    <2>1. run = "running" /\ UNCHANGED main
        BY <1>5
        DEF EndTest, Guard, SkipInvitation, Visit, Expect, Act, Request, CheckRails, At, Running
    <2>2. QED
        BY <2>1, <1>a DEF main
<1>6. CASE \E event \in Events : PageEvent(event)
    <2>1. page.open /\ UNCHANGED <<run, browser, test, exit, page>>
        BY <1>6 DEF PageEvent, main
    <2>2. QED
        BY <2>1, <1>a
<1>7. CASE UNCHANGED vars
    BY <1>7, <1>a DEF vars
<1>8. QED
    BY <1>1, <1>2, <1>3, <1>4, <1>5, <1>6, <1>7 DEF Next, Script

\* In every run of the script.
LEMMA IsKept == Spec => []KeptInv
<1>1. KeptInv /\ [Next]_vars => KeptInv'
    BY TypeStep, FaultsAreRecorded, BrokenIsRecorded, OrderStep DEF KeptInv, NothingIsForgotten
<1>2. QED
    BY <1>1, StartsKnown, PTL DEF Spec

\* scripts/playwright_smoke.mjs passes only when it came to its last test, nothing
\* it counts as a failure happened under test, and no test ended early but at an
\* invitation in the place of a store: a retry, an early return or an exception
\* loses no record.
THEOREM FailuresAreReported == Spec => []FailuresFailTheRun
<1>1. KeptInv => FailuresFailTheRun
  <2> SUFFICES ASSUME KeptInv, exit = "passed"
               PROVE  ~failed /\ cut \subseteq { "invitation" } /\ test = Len(Plan) + 1
      BY DEF FailuresFailTheRun
  <2>1. run = "over" /\ "real" \notin errors /\ test = Len(Plan) + 1
      BY DEF KeptInv, EndsInOrder
  <2>2. ~failed /\ "error page" \notin cut
      BY <2>1 DEF KeptInv, NothingIsForgotten, Known
  <2>3. cut \subseteq { "error page", "invitation" }
      BY DEF KeptInv, TypeOK
  <2>4. QED
      BY <2>1, <2>2, <2>3
<1>2. QED
    BY <1>1, IsKept, PTL

-----------------------------------------------------------------------------
(* A page is listened to while its test runs.                              *)

\* Between the first and the last step of the test that runs.
InTest == Running /\ step \in 1 .. Len(Plan[test].steps)

\* The page belongs to the browser, and the browser to main.
HeardInv ==
    /\ page.monitored => page.open
    /\ page.open => browser = "open"
    /\ InTest => page.open /\ page.monitored = Plan[test].monitored
    /\ run = "starting" => browser = "none" /\ step = 0
    /\ run \in { "running", "throwing" } => browser = "open"
    /\ run \in { "fatal", "over" } => browser # "open"

\* A step of a test is between its first and its last.
LEMMA StepsAreInTest ==
    ASSUME TypeOK, EndsInOrder, NEW kind \in StepKinds, At(kind)
    PROVE  InTest
<1> DEFINE Test == [monitored : BOOLEAN, steps : Seq(StepKinds)]
<1>1. test \in 1 .. Len(Plan) /\ Plan \in Seq(Test)
    BY PlannedTest, SmokeAssumption DEF At, Running
<1>2. Plan[test] \in Test
    <2> HIDE DEF Test
    <2>1. QED
        BY <1>1
<1>3. Plan[test].steps \in Seq(StepKinds)
    BY <1>2
<1>4. step \in DOMAIN Plan[test].steps /\ Running
    BY DEF At
<1>5. QED
    BY <1>3, <1>4 DEF InTest

LEMMA HeardInit == Init => HeardInv
BY DEF Init, NoPage, HeardInv, InTest, Running

\* A step that leaves the page and main alone, and starts no test.
LEMMA HeardFrame ==
    ASSUME HeardInv, UNCHANGED <<main, page>>, InTest' => InTest,
           run = "starting" => step' = step
    PROVE  HeardInv'
BY DEF HeardInv, main

\* A step of a test that shows another page to the same listeners.
LEMMA HeardStep ==
    ASSUME HeardInv, InTest, UNCHANGED main,
           page'.open = page.open, page'.monitored = page.monitored
    PROVE  HeardInv'
<1>1. page.open /\ page.monitored = Plan[test].monitored
    BY DEF HeardInv
<1>2. run = "running" /\ run' = run /\ browser' = browser /\ test' = test
    BY DEF main, InTest, Running
<1>3. QED
    BY <1>1, <1>2 DEF HeardInv

\* The teardown takes the listeners off, and is after the last step.
LEMMA HeardTearDown ==
    ASSUME KeptInv, HeardInv, Running, TearDown, UNCHANGED main
    PROVE  HeardInv'
<1>1. page'.open = page.open /\ ~page'.monitored
    BY DEF TearDown, KeptInv, TypeOK
<1>2. ~InTest'
    <2>1. Len(Plan[test].steps) \in Nat
        BY TestIsPlanned DEF KeptInv
    <2>2. step' = Len(Plan[test].steps) + 2 /\ test' = test
        BY DEF TearDown, main
    <2>3. QED
        BY <2>1, <2>2 DEF InTest
<1>3. run' = run /\ browser' = browser /\ run = "running"
    BY DEF main, Running
<1>4. QED
    BY <1>1, <1>2, <1>3 DEF HeardInv

LEMMA HeardNext == KeptInv /\ HeardInv /\ [Next]_vars => HeardInv'
<1> SUFFICES ASSUME KeptInv, HeardInv, [Next]_vars PROVE HeardInv'
    OBVIOUS
<1>a. TypeOK /\ EndsInOrder /\ page \in PageType
    BY DEF KeptInv, TypeOK, PageType
<1>b. ~NoPage.open /\ ~NoPage.monitored
    BY DEF NoPage
<1>c. \A kind \in StepKinds : At(kind) => InTest
    BY <1>a, StepsAreInTest
<1> USE DEF StepKinds
<1>1. CASE Launch
    <2>1. ~page.open /\ step = 0 /\ step' = 0 /\ page' = page
        BY <1>1, <1>a DEF Launch, EndsInOrder, HeardInv
    <2>2. ~InTest'
        BY <2>1 DEF InTest
    <2>3. ~page'.monitored /\ ~page'.open
        BY <2>1 DEF HeardInv
    <2>4. \/ run' = "running" /\ browser' = "open"
          \/ run' = "fatal" /\ browser' = "none"
        BY <1>1 DEF Launch, HeardInv
    <2>5. QED
        BY <2>2, <2>3, <2>4 DEF HeardInv
<1>2. CASE Throw /\ run = "running"
    <2>1. run' = "throwing" /\ UNCHANGED <<browser, page>> /\ browser = "open"
        BY <1>2 DEF Throw, HeardInv
    <2>2. ~InTest'
        BY <2>1 DEF InTest, Running
    <2>3. QED
        BY <2>1, <2>2 DEF HeardInv
<1>3. CASE OpenPage
    <2>1. CASE Throw
        BY <1>2, <1>3, <2>1 DEF OpenPage, Running
    <2>2. CASE page' = [open |-> TRUE, monitored |-> Plan[test].monitored, shows |-> "blank"]
               /\ UNCHANGED main
        <3>1. page'.open /\ page'.monitored = Plan[test].monitored
            BY <2>2
        <3>2. run = "running" /\ run' = run /\ browser' = browser /\ test' = test
            BY <1>3, <2>2 DEF OpenPage, Running, main
        <3>3. QED
            BY <3>1, <3>2 DEF HeardInv
    <2>3. QED
        BY <1>3, <2>1, <2>2 DEF OpenPage
<1>4. CASE EndTest
    BY <1>4, HeardTearDown DEF EndTest
<1>5. CASE ClosePage
    <2>1. CASE Throw
        BY <1>2, <1>5, <2>1 DEF ClosePage, Running
    <2>2. CASE page' = NoPage /\ step' = 0 /\ UNCHANGED <<run, browser>>
        <3>1. ~InTest' /\ run = "running"
            BY <1>5, <2>2 DEF InTest, ClosePage, Running
        <3>2. QED
            BY <1>b, <2>2, <3>1 DEF HeardInv
    <2>3. QED
        BY <1>5, <2>1, <2>2 DEF ClosePage
<1>6. CASE CloseBrowser
    <2>1. browser' = "closed" /\ page' = NoPage /\ run' \in { "fatal", "over" }
        BY <1>6 DEF CloseBrowser
    <2>2. ~InTest'
        BY <2>1 DEF InTest, Running
    <2>3. QED
        BY <1>b, <2>1, <2>2 DEF HeardInv
<1>7. CASE Exit \/ UNCHANGED vars
    <2>1. UNCHANGED <<run, browser, test, step, page>>
        BY <1>7 DEF Exit, vars
    <2>2. QED
        BY <2>1 DEF HeardInv, InTest, Running
<1>8. CASE Visit
    <2>1. InTest /\ UNCHANGED main
        BY <1>8, <1>c DEF Visit
    <2>2. PICK shows : page' = [page EXCEPT !.shows = shows]
        BY <1>8 DEF Visit, VisitAnswered, VisitRefused, VisitFailed
    <2>3. page'.open = page.open /\ page'.monitored = page.monitored
        BY <1>a, <2>2 DEF PageType
    <2>4. QED
        BY <2>1, <2>3, HeardStep
<1>9. CASE Guard \/ SkipInvitation
    <2>1. InTest /\ Running /\ UNCHANGED main /\ (TearDown \/ UNCHANGED page)
        BY <1>9, <1>c DEF Guard, SkipInvitation, At
    <2>2. QED
        BY <2>1, HeardTearDown, HeardStep
<1>10. CASE ActThrows
    BY <1>2, <1>10 DEF ActThrows, At, Running
<1>11. CASE Expect \/ Act \/ Request \/ CheckRails
    <2>1. InTest /\ UNCHANGED <<main, page>>
        BY <1>11, <1>c DEF Expect, Act, Request, CheckRails
    <2>2. QED
        BY <2>1, HeardStep
<1>12. CASE \E event \in Events : PageEvent(event)
    <2>1. UNCHANGED <<main, step, page>>
        BY <1>12 DEF PageEvent
    <2>2. InTest' => InTest
        BY <2>1 DEF InTest, Running, main
    <2>3. QED
        BY <2>1, <2>2, HeardFrame
<1>13. QED
    BY <1>1, <1>3, <1>4, <1>5, <1>6, <1>7, <1>8, <1>9, <1>10, <1>11, <1>12 DEF Next, Script

\* A page is listened to from the first visit of its test to the last step, no
\* listener outlives its page, and a process that has ended, whatever ended it,
\* has left no browser behind.
THEOREM PagesAreHeard == Spec => []SmokeInv
<1>1. KeptInv /\ HeardInv => SmokeInv
    <2> SUFFICES ASSUME KeptInv, HeardInv PROVE SmokeInv
        OBVIOUS
    <2>1. TypeOK /\ EndsInOrder
        BY DEF KeptInv
    <2>2. \A kind \in StepKinds : At(kind) => page.open /\ page.monitored = Plan[test].monitored
        BY <2>1, StepsAreInTest DEF HeardInv
    <2>3. exit # "none" => browser # "open"
        BY <2>1 DEF EndsInOrder, HeardInv
    <2>4. QED
        BY <2>1, <2>2, <2>3 DEF SmokeInv, HeardInv
<1>2. QED
    BY <1>1, IsKept, HeardInit, HeardNext, PTL DEF Spec

=============================================================================
