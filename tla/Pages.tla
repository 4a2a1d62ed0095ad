------------------------------- MODULE Pages --------------------------------
(***************************************************************************)
(* One document of a visitor who goes from page to page: the application   *)
(* form, the explore page with its rail, a crate of a store, an element    *)
(* that follows the pointer.  Every page leaves callbacks with the browser *)
(* and answers on the way; none of them may reach the page that follows.   *)
(***************************************************************************)
EXTENDS ApplyForm, Frames

VARIABLE place  \* "elsewhere": a page without callbacks of its own

vars == <<applyVars, frameVars, place>>

Places == { "elsewhere", "apply", "explore", "crate", "tactile" }

Init == ApplyInit /\ FramesInit /\ place = "elsewhere"

\* Bound: aborted callbacks have come before a page other than a crate opens.
Goto(p) == place = "elsewhere" /\ place' = p /\ (p # "crate" => idle = {})

GotoApply ==
    /\ Goto("apply")
    /\ (\E n \in Names \cup { "" } : OpenApply(n)) \/ ReturnToApply
    /\ UNCHANGED frameVars

\* Bound: the other pages are visited while no POST is on its way; they take the
\* place of the form in the history.
GotoOther(p) ==
    /\ Goto(p)
    /\ \A s \in Slots : requests[s] = NoRequest
    /\ entry' = {}
    /\ UNCHANGED <<config, server, confirmed, browser, form, requests>>

GotoExplore ==
    /\ GotoOther("explore")
    /\ \E track \in BOOLEAN : MountRail(track)
    /\ UNCHANGED <<flash, view, idle, tactile>>

\* A store's page reads the flash for its notices, and the application's goes
\* with it.
GotoCrate ==
    /\ GotoOther("crate")
    /\ \E c \in Crates : ShowCrate(c)
    /\ flash' = FALSE
    /\ UNCHANGED <<rail, tactile>>

SelectCrate ==
    /\ place = "crate"
    /\ \E c \in Crates : ShowCrate(c)
    /\ UNCHANGED <<applyVars, rail, tactile, place>>

GotoTactile ==
    /\ GotoOther("tactile")
    /\ \E preference \in BOOLEAN : MountTactile(preference)
    /\ UNCHANGED <<flash, rail, view, idle>>

\* The cleanups of the page that is left.
LeaveExplore == place = "explore" /\ CancelRail /\ UNCHANGED <<view, idle, tactile>>

LeaveCrate == place = "crate" /\ CloseCrate /\ UNCHANGED <<rail, tactile>>

LeaveTactile == place = "tactile" /\ UnmountTactile /\ UNCHANGED <<rail, view, idle>>

Quit ==
    /\ place' = "elsewhere"
    /\ \/ place = "apply" /\ LeaveApply /\ UNCHANGED frameVars
       \/ /\ LeaveExplore \/ LeaveCrate \/ LeaveTactile
          /\ UNCHANGED applyVars

Next ==
    \/ GotoApply
    \/ GotoExplore
    \/ GotoCrate
    \/ SelectCrate
    \/ GotoTactile
    \/ Quit
    \/ ApplyStep /\ UNCHANGED <<frameVars, place>>
    \/ FramesStep /\ UNCHANGED <<applyVars, place>>

\* Turnstile's tokens expire, and its widget solves itself again.
RenewToken ==
    (\E m \in Mounts : Lapse(m)) /\ UNCHANGED <<frameVars, place>>

SolveWidget ==
    (\E m \in Mounts : Solve(m)) /\ UNCHANGED <<frameVars, place>>

Spec == Init /\ [][Next]_vars /\ WF_vars(RenewToken) /\ WF_vars(SolveWidget)

-----------------------------------------------------------------------------
\* What the visitor is told and shown agrees with what happened: the parts of
\* the form (ApplyInv) and of the animated pages (FramesInv).
PagesInv == ApplyInv /\ FramesInv

\* No callback outlives its page: the listener, the widget and the request of
\* the form, the frame of the rail and of the pointer, the load of a cover.
NothingOutlivesItsPage ==
    /\ place # "apply" =>
         /\ form.mount = 0 /\ listening = {}
         /\ \A m \in Mounts : widget[m] = "none"
         /\ \A s \in Slots : requests[s].mount = 0
    /\ place # "explore" => ~rail.frame
    /\ place # "crate" => (\A d \in idle : d.aborted)
    /\ place # "tactile" => tactile.frame = NoFrame
=============================================================================
