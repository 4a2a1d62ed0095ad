---------------------------- MODULE Pages_proofs -----------------------------
(***************************************************************************)
(* For every crate, rail and distance of the pointer, for every name, field *)
(* and number of POSTs under way: no callback outlives its page, what the  *)
(* visitor is told agrees with what happened, and a registration is        *)
(* confirmed once at most.                                                 *)
(***************************************************************************)
EXTENDS Pages, FiniteSetTheorems, TLAPS

-----------------------------------------------------------------------------
(* The animated pages: each part of the browser belongs to one page.       *)

RailType ==
    rail \in [track : BOOLEAN, pos : -TrackWidth .. 0, width : { 0, TrackWidth },
              paused : BOOLEAN, frame : BOOLEAN]

RailInv ==
    /\ RailType /\ RailIsInLoop
    /\ place # "explore" => rail = NoRail

CoversInv ==
    /\ view \in [crate : Crates \cup { 0 }, index : Nat]
    /\ \A d \in idle : d \in [crate : Crates, record : Nat, aborted : BOOLEAN]
    /\ PreloadsAreNear
    /\ place # "crate" => view = NoView /\ \A d \in idle : d.aborted

TactileType ==
    tactile \in [mounted : BOOLEAN, reduced : BOOLEAN, over : SUBSET Pointers,
                 isTouch : BOOLEAN, proximity : 0 .. Proximities,
                 frame : { NoFrame } \cup 0 .. Proximities, isPressed : BOOLEAN]

\* An element is as if untouched when no pointer is over it, and always when
\* motion is reduced.
Untouched == tactile.frame = NoFrame /\ tactile.proximity = 0 /\ ~tactile.isPressed

TactileInv ==
    /\ TactileType
    /\ tactile.over = {} \/ tactile.reduced => Untouched
    /\ place # "tactile" => tactile = AtRest

LEMMA FramesBounds ==
    /\ TrackWidth \in Nat /\ TrackWidth > 0 /\ Proximities \in Nat /\ Proximities > 0
    /\ Crates \subseteq Nat /\ 0 \notin Crates
    /\ \A c \in Crates : Sizes[c] \in Nat
<1>1. Sizes \in Seq(Nat) /\ Len(Sizes) \in Nat
    BY FramesAssumption
<1>2. \A c \in Crates : Sizes[c] \in Nat
    BY <1>1 DEF Crates
<1>3. QED
    BY <1>1, <1>2, FramesAssumption DEF Crates

LEMMA NoRailType == NoRail \in [track : BOOLEAN, pos : -TrackWidth .. 0,
                                width : { 0, TrackWidth }, paused : BOOLEAN, frame : BOOLEAN]
BY FramesBounds DEF NoRail

LEMMA AtRestType ==
    AtRest \in [mounted : BOOLEAN, reduced : BOOLEAN, over : SUBSET Pointers,
                isTouch : BOOLEAN, proximity : 0 .. Proximities,
                frame : { NoFrame } \cup 0 .. Proximities, isPressed : BOOLEAN]
BY FramesBounds DEF AtRest

LEMMA FramesStart == Init => RailInv /\ CoversInv /\ TactileInv
<1> SUFFICES ASSUME Init PROVE RailInv /\ CoversInv /\ TactileInv
    OBVIOUS
<1>1. rail = NoRail /\ view = NoView /\ idle = {} /\ tactile = AtRest
    BY DEF Init, FramesInit
<1>2. RailInv
    BY <1>1, NoRailType, FramesBounds DEF RailInv, RailType, RailIsInLoop, NoRail
<1>3. CoversInv
    BY <1>1 DEF CoversInv, NoView, PreloadsAreNear
<1>4. TactileInv
    BY <1>1, AtRestType DEF TactileInv, TactileType, Untouched, AtRest
<1>5. QED
    BY <1>2, <1>3, <1>4

\* What the steps that are not about the rail leave alone.
LEMMA RailNext == RailInv /\ [Next]_vars => RailInv'
<1> SUFFICES ASSUME RailInv, [Next]_vars PROVE RailInv'
    OBVIOUS
<1>0. RailType /\ TrackWidth \in Nat /\ TrackWidth > 0
    BY FramesBounds DEF RailInv
<1>1. CASE GotoExplore
    <2>1. PICK track \in BOOLEAN : rail' = [NoRail EXCEPT !.track = track, !.frame = TRUE]
        BY <1>1 DEF GotoExplore, MountRail
    <2>2. RailType' /\ rail'.pos = 0
        BY <1>0, <2>1, NoRailType DEF RailType, NoRail
    <2>3. place' = "explore"
        BY <1>1 DEF GotoExplore, GotoOther, Goto
    <2>4. QED
        BY <1>0, <2>2, <2>3 DEF RailInv, RailIsInLoop
<1>2. CASE Quit
    <2>1. rail' = rail \/ rail' = NoRail
        BY <1>2 DEF Quit, LeaveExplore, LeaveCrate, LeaveTactile, CancelRail, frameVars
    <2>2. place # "explore" \/ rail' = NoRail
        BY <1>2 DEF Quit, LeaveExplore, LeaveCrate, LeaveTactile, CancelRail
    <2>3. rail' = NoRail
        BY <2>1, <2>2 DEF RailInv
    <2>4. QED
        BY <1>0, <2>3, NoRailType DEF RailInv, RailType, RailIsInLoop, NoRail
<1>3. CASE Animate /\ place' = place
    <2> DEFINE pos == Wrap(rail.pos - 1, TrackWidth)
    <2>1. rail.pos \in -TrackWidth .. 0 /\ -TrackWidth < rail.pos
        BY <1>0 DEF RailType, RailInv, RailIsInLoop
    <2>2. pos \in -TrackWidth .. 0 /\ -TrackWidth < pos
        BY <1>0, <2>1 DEF Wrap
    <2>3. rail' = [rail EXCEPT !.width = TrackWidth, !.pos = pos]
        BY <1>3 DEF Animate
    <2> HIDE DEF pos
    <2>4. RailType' /\ rail'.pos = pos /\ rail'.width = TrackWidth
        BY <1>0, <2>2, <2>3 DEF RailType
    <2>5. rail # NoRail
        BY <1>3 DEF Animate, NoRail
    <2>6. QED
        BY <1>0, <1>3, <2>2, <2>4, <2>5 DEF RailInv, RailIsInLoop
<1>4. ASSUME NEW enters \in BOOLEAN, HandleMouse(enters), place' = place PROVE RailInv'
    <2>1. rail' = [rail EXCEPT !.paused = enters] /\ rail # NoRail
        BY <1>4 DEF HandleMouse, NoRail
    <2>2. RailType' /\ rail'.pos = rail.pos /\ rail'.width = rail.width
        BY <1>0, <2>1 DEF RailType
    <2>3. QED
        BY <1>4, <2>1, <2>2 DEF RailInv, RailIsInLoop
<1>5. ASSUME rail' = rail, place' # "explore" => place # "explore" \/ rail = NoRail
      PROVE  RailInv'
    BY <1>5 DEF RailInv, RailType, RailIsInLoop
<1>6. CASE GotoApply \/ GotoCrate \/ SelectCrate \/ GotoTactile \/ UNCHANGED vars
    <2>1. rail' = rail /\ (place' = place \/ place = "elsewhere")
        BY <1>6
        DEF GotoApply, GotoCrate, SelectCrate, GotoTactile, GotoOther, Goto, frameVars, vars
    <2>2. QED
        BY <1>5, <2>1
<1>7. CASE ApplyStep /\ UNCHANGED <<frameVars, place>>
    BY <1>5, <1>7 DEF frameVars
<1>8. CASE FramesStep /\ UNCHANGED <<applyVars, place>>
    <2>1. CASE \/ \E dir \in Directions : NavigateTo(dir)
               \/ RunIdle \/ FollowPointer
        BY <1>5, <1>8, <2>1 DEF NavigateTo, RunIdle, FollowPointer
    <2>2. QED
        BY <1>3, <1>4, <1>8, <2>1 DEF FramesStep
<1>9. QED
    BY <1>1, <1>2, <1>6, <1>7, <1>8 DEF Next

\* The effect of a crate or of an index: the covers waiting for another one are
\* aborted, and those near the one shown wait.
LEMMA Preloads ==
    ASSUME CoversInv, NEW c \in Crates, NEW i \in Nat, UsePreload(c, i), place' = "crate"
    PROVE  CoversInv'
<1>1. view' = [crate |-> c, index |-> i] /\ view'.crate = c /\ view'.index = i
    BY DEF UsePreload
<1>2. ASSUME NEW d \in Abort
      PROVE  d \in [crate : Crates, record : Nat, aborted : BOOLEAN] /\ d.aborted
    <2>1. PICK e \in idle : d = [e EXCEPT !.aborted = TRUE]
        BY DEF Abort
    <2>2. e \in [crate : Crates, record : Nat, aborted : BOOLEAN]
        BY DEF CoversInv
    <2>3. QED
        BY <2>1, <2>2
<1>3. ASSUME NEW d \in Deferred(c, i)
      PROVE  /\ d \in [crate : Crates, record : Nat, aborted : BOOLEAN]
             /\ d.crate = c /\ AbsVal(d.record - i) \in 2 .. PreloadRadius
    <2>1. PICK r \in 0 .. Sizes[c] - 1 :
            /\ AbsVal(r - i) \in 2 .. PreloadRadius
            /\ d = [crate |-> c, record |-> r, aborted |-> FALSE]
        BY DEF Deferred
    <2>2. r \in Nat
        BY FramesBounds
    <2>3. QED
        BY <2>1, <2>2
<1>4. idle' = Abort \cup Deferred(c, i)
    BY DEF UsePreload
<1>5. PreloadsAreNear'
    BY <1>1, <1>2, <1>3, <1>4 DEF PreloadsAreNear
<1>6. QED
    BY <1>1, <1>2, <1>3, <1>4, <1>5 DEF CoversInv

LEMMA CoversNext == CoversInv /\ [Next]_vars => CoversInv'
<1> SUFFICES ASSUME CoversInv, [Next]_vars PROVE CoversInv'
    OBVIOUS
<1>0. /\ view \in [crate : Crates \cup { 0 }, index : Nat]
      /\ \A d \in idle : d \in [crate : Crates, record : Nat, aborted : BOOLEAN]
      /\ 0 \notin Crates
    BY FramesBounds DEF CoversInv
<1>1. CASE GotoCrate \/ SelectCrate
    <2>1. PICK c \in Crates : UsePreload(c, 0)
        BY <1>1 DEF GotoCrate, SelectCrate, ShowCrate
    <2>2. place' = "crate"
        BY <1>1 DEF GotoCrate, SelectCrate, GotoOther, Goto
    <2>3. QED
        BY <2>1, <2>2, Preloads
<1>2. ASSUME NEW dir \in Directions, NavigateTo(dir), place' = place PROVE CoversInv'
    <2> DEFINE next == view.index + RiffleDelta(dir)
    <2>1. view.crate \in Crates /\ view # NoView
        BY <1>0, <1>2 DEF NavigateTo, NoView
    <2>2. next >= 0 /\ UsePreload(view.crate, next)
        BY <1>2 DEF NavigateTo, ResolveRiffleMove
    <2>3. next \in Nat
        BY <1>0, <2>2 DEF RiffleDelta
    <2>4. place' = "crate"
        BY <1>2, <2>1 DEF CoversInv
    <2> HIDE DEF next
    <2>5. QED
        BY <2>1, <2>2, <2>3, <2>4, Preloads
<1>3. CASE RunIdle /\ place' = place
    BY <1>3 DEF RunIdle, CoversInv, PreloadsAreNear
<1>4. ASSUME view' = NoView,
             \A d \in idle' : d \in [crate : Crates, record : Nat, aborted : BOOLEAN] /\ d.aborted
      PROVE  CoversInv'
    BY <1>4 DEF CoversInv, PreloadsAreNear, NoView
<1>5. CASE Quit
    <2>1. CASE place = "crate"
        <3>1. view' = NoView /\ idle' = Abort
            BY <1>5, <2>1 DEF Quit, LeaveExplore, LeaveCrate, LeaveTactile, CloseCrate
        <3>2. ASSUME NEW d \in Abort
              PROVE  d \in [crate : Crates, record : Nat, aborted : BOOLEAN] /\ d.aborted
            <4>1. PICK e \in idle : d = [e EXCEPT !.aborted = TRUE]
                BY DEF Abort
            <4>2. QED
                BY <1>0, <4>1
        <3>3. QED
            BY <1>4, <3>1, <3>2
    <2>2. CASE place # "crate"
        <3>1. view' = view /\ idle' = idle
            BY <1>5, <2>2 DEF Quit, LeaveExplore, LeaveCrate, LeaveTactile, frameVars
        <3>2. QED
            BY <1>0, <1>4, <2>2, <3>1 DEF CoversInv
    <2>3. QED
        BY <2>1, <2>2
<1>6. ASSUME view' = view, idle' = idle, place' = place \/ place = "elsewhere"
      PROVE  CoversInv'
    BY <1>6 DEF CoversInv, PreloadsAreNear
<1>7. CASE GotoApply \/ GotoExplore \/ GotoTactile \/ UNCHANGED vars
    BY <1>6, <1>7
    DEF GotoApply, GotoExplore, GotoTactile, GotoOther, Goto, frameVars, vars
<1>8. CASE ApplyStep /\ UNCHANGED <<frameVars, place>>
    BY <1>6, <1>8 DEF frameVars
<1>9. CASE FramesStep /\ UNCHANGED <<applyVars, place>>
    <2>1. CASE Animate \/ (\E enters \in BOOLEAN : HandleMouse(enters)) \/ FollowPointer
        BY <1>6, <1>9, <2>1 DEF Animate, HandleMouse, FollowPointer
    <2>2. QED
        BY <1>2, <1>3, <1>9, <2>1 DEF FramesStep
<1>10. QED
    BY <1>1, <1>5, <1>7, <1>8, <1>9 DEF Next

\* How near a pointer is to the centre.
LEMMA ProximityType ==
    ASSUME NEW dist \in 0 .. Proximities - 1
    PROVE  ComputeProximityFromRect(dist) \in 0 .. Proximities
BY FramesBounds DEF ComputeProximityFromRect

\* An element under a pointer, on its page.
LEMMA Followed ==
    ASSUME TactileType', place = "tactile", place' = place,
           tactile'.over = {} \/ tactile'.reduced => Untouched'
    PROVE  TactileInv'
BY DEF TactileInv

LEMMA FollowKept ==
    ASSUME TactileInv, FollowPointer, place' = place
    PROVE  TactileInv'
<1>0. TactileType /\ Proximities \in Nat /\ Proximities > 0
    BY FramesBounds DEF TactileInv
<1>1. place = "tactile"
    <2>1. tactile.mounted \/ tactile.over # {} \/ tactile.frame # NoFrame
        BY DEF FollowPointer, PointerEnter, PointerMove, PointerLeave, PointerDown, PointerUp,
               ProximityFrame
    <2>2. ~AtRest.mounted /\ AtRest.over = {} /\ AtRest.frame = NoFrame
        BY DEF AtRest
    <2>3. tactile # AtRest
        BY <2>1, <2>2
    <2>4. QED
        BY <2>3 DEF TactileInv
<1>2. ASSUME NEW p \in Pointers, NEW dist \in 0 .. Proximities - 1, PointerEnter(p, dist)
      PROVE  TactileInv'
    <2>1. PICK touch \in BOOLEAN, near \in 0 .. Proximities :
            /\ tactile' = [tactile EXCEPT !.over = @ \cup { p }, !.isTouch = touch,
                                          !.proximity = near]
            /\ tactile.reduced => near = 0
        <3>1. ComputeProximityFromRect(dist) \in 0 .. Proximities
            BY ProximityType
        <3>2. PICK r : /\ r = ProcessPointerEnter(p, dist)
                       /\ tactile' = [tactile EXCEPT !.over = @ \cup { p },
                                                     !.isTouch = r.isTouch,
                                                     !.proximity = r.proximity]
            BY <1>2 DEF PointerEnter
        <3>3. /\ r.isTouch \in BOOLEAN /\ r.proximity \in 0 .. Proximities
              /\ tactile.reduced => r.proximity = 0
            BY <1>0, <3>1, <3>2 DEF ProcessPointerEnter
        <3>4. QED
            BY <3>2, <3>3
    <2>2. /\ TactileType' /\ p \in tactile'.over /\ tactile'.reduced = tactile.reduced
          /\ tactile'.frame = tactile.frame /\ tactile'.proximity = near
          /\ tactile'.isPressed = tactile.isPressed
        BY <1>0, <2>1 DEF TactileType
    <2>3. tactile'.reduced => Untouched'
        BY <2>1, <2>2 DEF TactileInv, Untouched
    <2>4. QED
        BY <1>1, <2>2, <2>3, Followed
<1>3. ASSUME NEW p \in Pointers, NEW dist \in 0 .. Proximities - 1, PointerMove(p, dist)
      PROVE  TactileInv'
    <2>1. PICK frame \in { NoFrame } \cup 0 .. Proximities :
            /\ tactile' = [tactile EXCEPT !.frame = frame]
            /\ tactile.reduced => frame = tactile.frame
        <3>1. ComputeProximityFromRect(dist) \in 0 .. Proximities
            BY ProximityType
        <3>2. ResolveMoveRaf(dist) \in { NoFrame } \cup 0 .. Proximities
            BY <1>0, <3>1 DEF ResolveMoveRaf, TactileType
        <3>3. tactile.reduced => ResolveMoveRaf(dist) = tactile.frame
            BY DEF ResolveMoveRaf
        <3>4. QED
            BY <1>3, <3>2, <3>3 DEF PointerMove
    <2>2. /\ TactileType' /\ tactile'.over = tactile.over /\ tactile'.frame = frame
          /\ tactile'.reduced = tactile.reduced /\ tactile'.proximity = tactile.proximity
          /\ tactile'.isPressed = tactile.isPressed
        BY <1>0, <2>1 DEF TactileType
    <2>3. p \in tactile'.over
        BY <1>3, <2>2 DEF PointerMove
    <2>4. tactile'.reduced => Untouched'
        BY <2>1, <2>2 DEF TactileInv, Untouched
    <2>5. QED
        BY <1>1, <2>2, <2>3, <2>4, Followed
<1>4. ASSUME NEW p \in Pointers, PointerLeave(p) PROVE TactileInv'
    <2>1. PICK over \in SUBSET Pointers :
            tactile' = [tactile EXCEPT !.proximity = 0, !.frame = NoFrame, !.isPressed = FALSE,
                                       !.over = over]
        <3>1. tactile' = [Leave(tactile) EXCEPT !.over = @ \ { p }]
            BY <1>4 DEF PointerLeave
        <3>2. Leave(tactile).over \in SUBSET Pointers
            BY <1>0 DEF Leave, TactileType
        <3>3. Leave(tactile).over \ { p } \in SUBSET Pointers
            BY <3>2
        <3>4. QED
            BY <3>1, <3>3 DEF Leave
    <2>2. TactileType'
        <3>1. 0 \in 0 .. Proximities /\ NoFrame \in { NoFrame } \cup 0 .. Proximities
            BY <1>0
        <3>2. QED
            BY <1>0, <2>1, <3>1, Zenon DEF TactileType
    <2>3. tactile'.frame = NoFrame /\ tactile'.proximity = 0 /\ ~tactile'.isPressed
        BY <1>0, <2>1 DEF TactileType
    <2>4. QED
        BY <1>1, <2>2, <2>3, Followed DEF Untouched
<1>5. ASSUME NEW p \in Pointers, PointerDown(p) PROVE TactileInv'
    <2>1. tactile' = [tactile EXCEPT !.isPressed = TRUE] /\ p \in tactile.over /\ ~tactile.reduced
        BY <1>5 DEF PointerDown
    <2>2. TactileType' /\ tactile'.over = tactile.over /\ tactile'.reduced = tactile.reduced
        BY <1>0, <2>1 DEF TactileType
    <2>3. QED
        BY <1>1, <2>1, <2>2, Followed
<1>6. ASSUME NEW p \in Pointers, PointerUp(p) PROVE TactileInv'
    <2>1. tactile' = [tactile EXCEPT !.isPressed = FALSE]
        BY <1>6 DEF PointerUp
    <2>2. /\ TactileType' /\ tactile'.over = tactile.over /\ tactile'.reduced = tactile.reduced
          /\ tactile'.frame = tactile.frame /\ tactile'.proximity = tactile.proximity
          /\ ~tactile'.isPressed
        BY <1>0, <2>1 DEF TactileType
    <2>3. QED
        BY <1>1, <2>2, Followed DEF TactileInv, Untouched
<1>7. CASE ProximityFrame
    <2>1. /\ tactile.frame # NoFrame
          /\ tactile' = [tactile EXCEPT !.proximity = tactile.frame, !.frame = NoFrame]
        BY <1>7 DEF ProximityFrame
    <2>2. tactile.frame \in 0 .. Proximities /\ tactile.over # {} /\ ~tactile.reduced
        BY <1>0, <2>1 DEF TactileType, TactileInv, Untouched
    <2>3. TactileType' /\ tactile'.over = tactile.over /\ tactile'.reduced = tactile.reduced
        BY <1>0, <2>1, <2>2 DEF TactileType
    <2>4. QED
        BY <1>1, <2>2, <2>3, Followed
<1>8. QED
    BY <1>2, <1>3, <1>4, <1>5, <1>6, <1>7 DEF FollowPointer

LEMMA TactileNext == TactileInv /\ [Next]_vars => TactileInv'
<1> SUFFICES ASSUME TactileInv, [Next]_vars PROVE TactileInv'
    OBVIOUS
<1>1. CASE GotoTactile
    <2>1. PICK preference \in BOOLEAN :
            tactile' = [AtRest EXCEPT !.mounted = TRUE, !.reduced = preference]
        BY <1>1 DEF GotoTactile, MountTactile
    <2>2. TactileType' /\ Untouched'
        BY <2>1, AtRestType DEF TactileType, Untouched, AtRest
    <2>3. place' = "tactile"
        BY <1>1 DEF GotoTactile, GotoOther, Goto
    <2>4. QED
        BY <2>2, <2>3 DEF TactileInv
<1>2. CASE Quit
    <2>1. tactile' = AtRest
        BY <1>2
        DEF Quit, LeaveExplore, LeaveCrate, LeaveTactile, UnmountTactile, frameVars, TactileInv
    <2>2. QED
        BY <2>1, AtRestType DEF TactileInv, TactileType, Untouched, AtRest
<1>3. ASSUME tactile' = tactile, place' = place \/ place = "elsewhere"
      PROVE  TactileInv'
    BY <1>3 DEF TactileInv, TactileType, Untouched
<1>4. CASE GotoApply \/ GotoExplore \/ GotoCrate \/ SelectCrate \/ UNCHANGED vars
    BY <1>3, <1>4
    DEF GotoApply, GotoExplore, GotoCrate, SelectCrate, GotoOther, Goto, frameVars, vars
<1>5. CASE ApplyStep /\ UNCHANGED <<frameVars, place>>
    BY <1>3, <1>5 DEF frameVars
<1>6. CASE FramesStep /\ UNCHANGED <<applyVars, place>>
    <2>1. CASE \/ Animate \/ \E enters \in BOOLEAN : HandleMouse(enters)
               \/ \E dir \in Directions : NavigateTo(dir)
               \/ RunIdle
        BY <1>3, <1>6, <2>1 DEF Animate, HandleMouse, NavigateTo, RunIdle
    <2>2. QED
        BY <1>6, <2>1, FollowKept DEF FramesStep
<1>7. QED
    BY <1>1, <1>2, <1>4, <1>5, <1>6 DEF Next

\* What the parts say of the animated pages.
LEMMA FramesHold == RailInv /\ CoversInv /\ TactileInv => FramesInv
<1> SUFFICES ASSUME RailInv, CoversInv, TactileInv PROVE FramesInv
    OBVIOUS
<1>1. FramesTypeOK
    BY DEF RailInv, CoversInv, TactileInv, RailType, TactileType, FramesTypeOK
<1>2. ASSUME tactile.over = {}
      PROVE  ComputeTransform(tactile) = ComputeTransform([AtRest EXCEPT !.reduced = tactile.reduced])
    <2> DEFINE rest == [AtRest EXCEPT !.reduced = tactile.reduced]
    <2>1. tactile.proximity = 0 /\ ~tactile.isPressed
        BY <1>2 DEF TactileInv, Untouched
    <2>2. rest.proximity = 0 /\ ~rest.isPressed /\ rest.reduced = tactile.reduced
        BY DEF AtRest
    <2>3. tactile.reduced \in BOOLEAN
        BY DEF TactileInv, TactileType
    <2> HIDE DEF rest
    <2>4. ComputeTransform(tactile) = ComputeTransform(rest)
        BY <2>1, <2>2, <2>3 DEF ComputeTransform
    <2>5. QED
        BY <2>4 DEF rest
<1>3. RestsAlone
    BY <1>2 DEF RestsAlone, TactileInv, Untouched
<1>4. QED
    BY <1>1, <1>3 DEF FramesInv, RailInv, CoversInv

-----------------------------------------------------------------------------
(* The form: one POST is under way for the page on screen at most, and what *)
(* an answer will say of it is true.                                        *)

FormTypes ==
    ApplyTypeOK /\ config \in [enabled : BOOLEAN, keyed : BOOLEAN] /\ confirmed \in Nat

\* The page on screen is the only one that waits, for one request, while it is
\* busy; an answer on its way has a page that waits for it.
OneWaits ==
    /\ \A s \in Slots : requests[s].mount # 0 => requests[s].mount = form.mount
    /\ \A s, t \in Slots : requests[s].mount # 0 /\ requests[t].mount # 0 => s = t
    /\ form.processing <=> \E s \in Slots : requests[s].mount # 0
    /\ \A s \in Slots : requests[s].stage \notin { "", "sent" } => requests[s].mount # 0

\* The widget is refused only where it is asked for.
ErrorsInv ==
    ~config.enabled =>
        /\ "turnstile" \notin form.props.errors
        /\ \A s \in Slots : "turnstile" \notin requests[s].errors
        /\ \A props \in entry : "turnstile" \notin props.errors

Redirected == \E s \in Slots : requests[s].stage = "redirected"

\* What confirms a registration, or is going to.
Confirms ==
    flash \/ form.props.submitted \/ Redirected \/ (\E props \in entry : props.submitted)

\* The confirmations given and the one the session holds.
Promised == confirmed + (IF flash THEN 1 ELSE 0)

\* A confirmation, one on its way included, is for a registration of its own.
EarnedInv ==
    /\ IsFiniteSet(own)
    /\ Confirms => own # {}
    /\ Promised + (IF Redirected THEN 1 ELSE 0) <= Cardinality(own)

PlaceInv == place # "apply" => form.mount = 0

FormInv == FormTypes /\ WidgetIsMounted /\ OneWaits /\ ErrorsInv /\ EarnedInv /\ PlaceInv

\* A step of another page: at most it takes the form's entry in the history and
\* its flash away.
Elsewhere ==
    /\ entry' \in { entry, {} } /\ flash' \in { flash, FALSE }
    /\ UNCHANGED <<config, server, confirmed, browser, form, requests>>

LEMMA FormSteps ==
    [Next]_vars =>
        \/ ApplyStep
        \/ \E n \in Names \cup { "" } : OpenApply(n)
        \/ ReturnToApply
        \/ LeaveApply
        \/ Elsewhere
<1> SUFFICES ASSUME [Next]_vars, ~ApplyStep, ~LeaveApply,
                    ~(\E n \in Names \cup { "" } : OpenApply(n)), ~ReturnToApply
             PROVE  Elsewhere
    OBVIOUS
<1>1. CASE GotoApply
    BY <1>1 DEF GotoApply
<1>2. CASE GotoExplore \/ GotoCrate \/ GotoTactile
    BY <1>2 DEF GotoExplore, GotoCrate, GotoTactile, GotoOther, Elsewhere
<1>3. ASSUME UNCHANGED applyVars PROVE Elsewhere
    BY <1>3 DEF Elsewhere, applyVars, server, browser
<1>4. CASE SelectCrate
    BY <1>3, <1>4 DEF SelectCrate
<1>5. CASE Quit
    BY <1>3, <1>5 DEF Quit
<1>6. CASE UNCHANGED vars
    BY <1>3, <1>6 DEF vars
<1>7. QED
    BY <1>1, <1>2, <1>3, <1>4, <1>5, <1>6 DEF Next

-----------------------------------------------------------------------------
(* The operators of the form.                                               *)

LEMMA FormBounds ==
    /\ MaxTokens \in Nat /\ Slots \subseteq Nat /\ Tokens \subseteq 1 .. MaxTokens
    /\ Mounts \subseteq Nat /\ 0 \notin Mounts /\ 1 \in Mounts
    /\ "turnstile" \notin Required /\ "discogs_username" \notin Required
BY BoundsAssumption, RequiredAssumption DEF Slots, Tokens, Mounts

LEMMA NoneTypes == NoProps \in Props /\ NoForm \in Form /\ NoRequest \in Request
<1>1. NoProps \in Props
    BY DEF NoProps, Props
<1>2. QED
    BY <1>1, FormBounds DEF NoForm, NoRequest, Form, Request

\* A token that is used is not a blank one.
LEMMA UsedForm ==
    ASSUME NEW x \in Form, NEW t
    PROVE  /\ Used(x, t) \in Form
           /\ Used(x, t).mount = x.mount /\ Used(x, t).props = x.props
           /\ Used(x, t).processing = x.processing
           /\ Used(x, t).token = 0 <=> x.token = 0
<1>1. CASE t > 0 /\ x.token = t
    <2>1. Used(x, t) = [x EXCEPT !.token = -1]
        BY <1>1 DEF Used
    <2>2. -1 \in -1 .. MaxTokens /\ x.token # 0
        BY <1>1, FormBounds
    <2>3. Used(x, t) \in Form /\ Used(x, t).token = -1
        BY <2>1, <2>2 DEF Form
    <2>4. Used(x, t).mount = x.mount /\ Used(x, t).props = x.props
        BY <2>1, <2>2 DEF Form
    <2>5. Used(x, t).processing = x.processing
        BY <2>1, <2>2 DEF Form
    <2>6. QED
        BY <2>2, <2>3, <2>4, <2>5
<1>2. CASE ~(t > 0 /\ x.token = t)
    BY <1>2 DEF Used
<1>3. QED
    BY <1>1, <1>2

LEMMA UsedRequest ==
    ASSUME NEW x \in Request, NEW t
    PROVE  /\ Used(x, t) \in Request
           /\ Used(x, t).stage = x.stage /\ Used(x, t).mount = x.mount
           /\ Used(x, t).errors = x.errors
<1>1. -1 \in -1 .. MaxTokens
    BY FormBounds
<1>2. QED
    BY <1>1 DEF Used, Request

LEMMA UsedRequests ==
    ASSUME NEW rs \in [Slots -> Request], NEW t
    PROVE  /\ UsedByAll(rs, t) \in [Slots -> Request]
           /\ \A s \in Slots :
                /\ UsedByAll(rs, t)[s].stage = rs[s].stage
                /\ UsedByAll(rs, t)[s].mount = rs[s].mount
                /\ UsedByAll(rs, t)[s].errors = rs[s].errors
BY UsedRequest DEF UsedByAll

\* What is left of a request.
LEMMA AbandonedRequest ==
    ASSUME NEW r \in Request
    PROVE  /\ Abandoned(r) \in Request
           /\ Abandoned(r).mount = 0 /\ Abandoned(r).errors = {}
           /\ Abandoned(r).stage \in { "", "sent" }
<1>1. NoRequest.mount = 0 /\ NoRequest.errors = {} /\ NoRequest.stage = ""
    BY DEF NoRequest
<1>2. QED
    BY <1>1, NoneTypes DEF Abandoned, Request

LEMMA ForsakenRequests ==
    ASSUME FormTypes, OneWaits
    PROVE  /\ Forsaken \in [Slots -> Request]
           /\ \A s \in Slots :
                /\ Forsaken[s].mount = 0 /\ Forsaken[s].stage \in { "", "sent" }
                /\ Forsaken[s].errors \in { {}, requests[s].errors }
<1>1. ASSUME NEW s \in Slots
      PROVE  /\ Forsaken[s] \in Request
             /\ Forsaken[s].mount = 0 /\ Forsaken[s].stage \in { "", "sent" }
             /\ Forsaken[s].errors \in { {}, requests[s].errors }
    <2>1. requests[s] \in Request
        BY DEF FormTypes, ApplyTypeOK
    <2>2. QED
        BY <2>1, AbandonedRequest DEF Forsaken, OneWaits
<1>2. QED
    BY <1>1 DEF Forsaken

\* The answer to a request reaches the page that waits, if one does.
IsAnswer(rs, s, stage, errors) ==
    /\ rs \in [Slots -> Request]
    /\ \A t \in Slots : rs[t].mount = requests[t].mount /\ (t # s => rs[t] = requests[t])
    /\ rs[s].stage = IF requests[s].mount = 0 THEN "" ELSE stage
    /\ rs[s].errors \in { {}, errors }

LEMMA AnsweredRequests ==
    ASSUME FormTypes, NEW s \in Slots, NEW stage \in { "refused", "redirected" },
           NEW errors \in SUBSET FormKeys
    PROVE  IsAnswer(Answer(s, stage, errors), s, stage, errors)
<1> DEFINE heard == [NoRequest EXCEPT !.stage = stage, !.mount = requests[s].mount,
                                      !.errors = errors]
<1>1. requests \in [Slots -> Request] /\ requests[s].mount \in Mounts \cup { 0 }
    BY DEF FormTypes, ApplyTypeOK, Request
<1>2. /\ heard \in Request /\ heard.stage = stage /\ heard.mount = requests[s].mount
      /\ heard.errors = errors
    BY <1>1, NoneTypes DEF NoRequest, Request
<1>3. NoRequest.mount = 0 /\ NoRequest.errors = {} /\ NoRequest.stage = ""
    BY DEF NoRequest
<1> HIDE DEF heard
<1>4. Answer(s, stage, errors) =
        [requests EXCEPT ![s] = IF requests[s].mount = 0 THEN NoRequest ELSE heard]
    BY DEF Answer, heard
<1>5. QED
    BY <1>1, <1>2, <1>3, <1>4, NoneTypes DEF IsAnswer

\* The page that mounts is in a document without one.
LEMMA FreshMount ==
    ASSUME WidgetIsMounted, form.mount = 0
    PROVE  /\ NextMount \in Mounts
           /\ \A m \in Mounts : m \notin listening /\ widget[m] = "none"
<1>1. \A m \in Mounts : m \notin listening /\ widget[m] = "none"
    BY FormBounds DEF WidgetIsMounted
<1>2. { m \in Mounts : m \notin listening /\ widget[m] = "none" } = Mounts
    BY <1>1
<1>3. NextMount = CHOOSE x \in Mounts : \A y \in Mounts : x <= y
    BY <1>2 DEF NextMount, Min
<1>4. \A y \in Mounts : 1 <= y
    BY DEF Mounts
<1>5. QED
    BY <1>1, <1>3, <1>4, FormBounds

LEMMA FreshFormType ==
    ASSUME NEW mount \in Mounts, NEW props \in Props
    PROVE  /\ FreshForm(mount, props) \in Form
           /\ FreshForm(mount, props).mount = mount /\ FreshForm(mount, props).props = props
           /\ FreshForm(mount, props).token = 0 /\ ~FreshForm(mount, props).processing
<1>1. props.initial \in Names \cup { "" }
    BY DEF Props
<1>2. 0 \in -1 .. MaxTokens
    BY FormBounds
<1>3. QED
    BY <1>1, <1>2 DEF FreshForm, Form

LEMMA ApplyPropsType ==
    ASSUME flash \in BOOLEAN, NEW initial \in Names \cup { "" }
    PROVE  /\ ApplyProps(initial) \in Props
           /\ ApplyProps(initial).submitted = flash /\ ApplyProps(initial).errors = {}
BY DEF ApplyProps, Props
\* What a step may do to the form that keeps its page.
SamePage ==
    /\ form' \in Form
    /\ form'.mount = form.mount /\ form'.props = form.props
    /\ form'.processing = form.processing /\ (form'.token = 0 <=> form.token = 0)

\* What a step may do to the requests that keeps who waits for what.
SameWait ==
    /\ requests' \in [Slots -> Request]
    /\ \A t \in Slots : requests'[t].mount = requests[t].mount

\* The server's answer, to a page that waits or to none.
Answered(s, stage, errors) ==
    /\ SamePage /\ SameWait
    /\ \A t \in Slots \ { s } :
         requests'[t].stage = requests[t].stage /\ requests'[t].errors = requests[t].errors
    /\ requests'[s].stage = IF requests[s].mount = 0 THEN "" ELSE stage
    /\ requests'[s].errors \in { {}, errors }

LEMMA SpendEffect ==
    ASSUME FormTypes, NEW s \in Slots, NEW stage \in { "refused", "redirected" },
           NEW errors \in SUBSET FormKeys,
           Spend(s, Answer(s, stage, errors)) \/ KeepToken(s, Answer(s, stage, errors))
    PROVE  Answered(s, stage, errors)
<1> DEFINE rs == Answer(s, stage, errors)
<1>1. IsAnswer(rs, s, stage, errors)
    BY AnsweredRequests
<1>2. form \in Form
    BY DEF FormTypes, ApplyTypeOK
<1> HIDE DEF rs
<1>3. CASE Spend(s, rs)
    <2>1. SamePage
        BY <1>2, <1>3, UsedForm DEF Spend, SamePage
    <2>2. /\ requests' \in [Slots -> Request]
          /\ \A t \in Slots : /\ requests'[t].stage = rs[t].stage
                              /\ requests'[t].mount = rs[t].mount
                              /\ requests'[t].errors = rs[t].errors
        BY <1>1, <1>3, UsedRequests DEF Spend, IsAnswer
    <2>3. QED
        BY <1>1, <2>1, <2>2 DEF Answered, SameWait, IsAnswer
<1>4. CASE KeepToken(s, rs)
    <2>1. SamePage
        BY <1>2, <1>4 DEF KeepToken, SamePage
    <2>2. QED
        BY <1>1, <1>4, <2>1 DEF KeepToken, Answered, SameWait, IsAnswer
<1>5. QED
    BY <1>3, <1>4 DEF rs

\* A registration adds a username; a refusal for the widget needs one.
LEMMA CreateEffect ==
    ASSUME FormTypes, NEW s \in Slots, Create(s)
    PROVE  \/ \E errors \in SUBSET FormKeys :
                /\ Answered(s, "refused", errors) /\ UNCHANGED server
                /\ "turnstile" \in errors => config.enabled
           \/ \E n \in Names \ waitlist :
                /\ Answered(s, "redirected", {})
                /\ waitlist' = waitlist \cup { n } /\ own' = own \cup { n }
<1> DEFINE r == requests[s]
<1>1. r.username \in Names \cup { "" } /\ r.blank \subseteq Required
    <2>1. r \in Request
        BY DEF FormTypes, ApplyTypeOK
    <2>2. QED
        BY <2>1 DEF Request
<1>2. CASE TurnstileFailure(s)
    <2> DEFINE errors == { "turnstile" }
    <2>1. errors \in SUBSET FormKeys
        BY DEF FormKeys
    <2>2. /\ config.enabled /\ UNCHANGED server
          /\ Spend(s, Answer(s, "refused", errors)) \/ KeepToken(s, Answer(s, "refused", errors))
        BY <1>2 DEF TurnstileFailure
    <2> HIDE DEF errors
    <2>3. Answered(s, "refused", errors)
        BY <2>1, <2>2, SpendEffect
    <2>4. QED
        BY <2>1, <2>2, <2>3
<1>3. CASE InvalidResult(s)
    <2> DEFINE errors == InvalidFields(r)
    <2>1. errors \in SUBSET FormKeys /\ "turnstile" \notin errors
        BY <1>1, FormBounds DEF InvalidFields, FormKeys
    <2>2. /\ UNCHANGED server
          /\ Spend(s, Answer(s, "refused", errors)) \/ KeepToken(s, Answer(s, "refused", errors))
        BY <1>3 DEF InvalidResult, TurnstileVerified
    <2> HIDE DEF errors
    <2>3. Answered(s, "refused", errors)
        BY <2>1, <2>2, SpendEffect
    <2>4. QED
        BY <2>1, <2>2, <2>3
<1>4. CASE Persist(s)
    <2>1. r.username \in Names \ waitlist
        BY <1>1, <1>4 DEF Persist, InvalidFields
    <2>2. Spend(s, Answer(s, "redirected", {})) \/ KeepToken(s, Answer(s, "redirected", {}))
        BY <1>4 DEF Persist, TurnstileVerified
    <2>3. Answered(s, "redirected", {})
        BY <2>2, SpendEffect
    <2>4. QED
        BY <1>4, <2>1, <2>3 DEF Persist
<1>5. QED
    BY <1>2, <1>3, <1>4 DEF Create
-----------------------------------------------------------------------------
(* The steps that leave the requests and the page that waits as they are.   *)

SameStory ==
    /\ config' = config /\ own' = own /\ confirmed' = confirmed
    /\ entry' \in { entry, {} } /\ flash' \in { flash, FALSE }
    /\ form'.mount = form.mount /\ form'.props = form.props
    /\ form'.processing = form.processing
    /\ SameWait
    /\ \A t \in Slots :
         requests'[t].stage = requests[t].stage /\ requests'[t].errors = requests[t].errors

\* A step that registers nothing and promises nothing.
LEMMA EarnedKept ==
    ASSUME FormInv, own' = own, Confirms' => Confirms, Redirected' => Redirected,
           Promised' \in Nat, Promised' <= Promised
    PROVE  EarnedInv'
<1>1. /\ IsFiniteSet(own) /\ Cardinality(own) \in Nat /\ Promised \in Nat
      /\ Promised + (IF Redirected THEN 1 ELSE 0) <= Cardinality(own)
    BY FS_CardinalityType DEF FormInv, FormTypes, EarnedInv, Promised
<1>2. Promised' + (IF Redirected' THEN 1 ELSE 0) <= Cardinality(own')
    <2>1. (IF Redirected' THEN 1 ELSE 0) <= (IF Redirected THEN 1 ELSE 0)
        OBVIOUS
    <2>2. QED
        BY <1>1, <2>1
<1>3. Confirms' => own' # {}
    BY DEF FormInv, EarnedInv
<1>4. QED
    BY <1>1, <1>2, <1>3 DEF EarnedInv

\* The page that takes the flash gives the confirmation it promised.
LEMMA FlashIsSwept ==
    ASSUME FormTypes, SweepFlash
    PROVE  ~flash' /\ confirmed' \in Nat /\ Promised' \in Nat /\ Promised' <= Promised
BY DEF FormTypes, ApplyTypeOK, SweepFlash, Promised

LEMMA FlashIsKept ==
    ASSUME FormTypes, confirmed' = confirmed, flash' \in { flash, FALSE }
    PROVE  /\ flash' => flash
           /\ confirmed' \in Nat /\ Promised' \in Nat /\ Promised' <= Promised
<1>1. flash' => flash
    <2>1. flash' = flash \/ flash' = FALSE
        OBVIOUS
    <2>2. QED
        BY <2>1, Zenon
<1>2. QED
    BY <1>1 DEF FormTypes, Promised

LEMMA StoryKept ==
    ASSUME FormInv, SameStory
    PROVE  OneWaits' /\ ErrorsInv' /\ EarnedInv'
<1>1. OneWaits'
    <2>1. \A t \in Slots : /\ requests'[t].mount = requests[t].mount
                          /\ requests'[t].stage = requests[t].stage
        BY DEF SameStory, SameWait
    <2>2. form'.mount = form.mount /\ (form'.processing <=> form.processing)
        BY DEF SameStory
    <2>3. form'.processing <=> \E s \in Slots : requests'[s].mount # 0
        BY <2>1, <2>2 DEF FormInv, OneWaits
    <2>4. QED
        BY <2>1, <2>2, <2>3 DEF FormInv, OneWaits
<1>2. ErrorsInv'
    BY DEF SameStory, FormInv, ErrorsInv
<1>3. EarnedInv'
    <2>1. Redirected' <=> Redirected
        BY DEF SameStory, Redirected
    <2>2. form'.props.submitted <=> form.props.submitted
        BY DEF SameStory
    <2>3. \A props \in entry' : props \in entry
        BY DEF SameStory
    <2>4. (flash' => flash) /\ Promised' \in Nat /\ Promised' <= Promised
        BY FlashIsKept DEF SameStory, FormInv
    <2>5. Confirms' => Confirms
        BY <2>1, <2>2, <2>3, <2>4 DEF Confirms
    <2>6. QED
        BY <2>1, <2>4, <2>5, EarnedKept DEF SameStory
<1>4. QED
    BY <1>1, <1>2, <1>3

FormCore == FormTypes /\ WidgetIsMounted /\ OneWaits /\ ErrorsInv /\ EarnedInv

\* The widgets of the page on screen, when neither they nor it change.
LEMMA WidgetsKept ==
    ASSUME WidgetIsMounted, UNCHANGED <<listening, widget>>, form'.mount = form.mount,
           form'.token = 0 <=> form.token = 0
    PROVE  WidgetIsMounted'
BY DEF WidgetIsMounted

\* The variables a step leaves alone or shrinks have their types.
RestTypes ==
    /\ own' \subseteq waitlist' /\ waitlist' \subseteq Names /\ flash' \in BOOLEAN
    /\ script' \in { "none", "loading", "loaded", "failed" }
    /\ listening' \subseteq Mounts /\ widget' \in [Mounts -> { "none", "open", "solved" }]
    /\ entry' \subseteq Props /\ config' = config /\ confirmed' \in Nat

LEMMA TypesKept ==
    ASSUME FormTypes, RestTypes, form' \in Form, requests' \in [Slots -> Request]
    PROVE  FormTypes'
BY DEF FormTypes, ApplyTypeOK, RestTypes

LEMMA SameForm == ASSUME FormTypes, form' = form PROVE SamePage
BY DEF FormTypes, ApplyTypeOK, SamePage

LEMMA SameRequests ==
    ASSUME FormTypes, requests' = requests
    PROVE  /\ SameWait
           /\ \A t \in Slots : requests'[t].stage = requests[t].stage
                               /\ requests'[t].errors = requests[t].errors
BY DEF FormTypes, ApplyTypeOK, SameWait

\* Typing, somebody else's registration, a script that fails, another page.
LEMMA StillKept ==
    ASSUME FormInv,
           \/ ScriptFails
           \/ \E n \in Names \cup { "" } : SetUsername(n)
           \/ \E f \in Required : SetField(f)
           \/ \E n \in Names : OthersRegister(n)
           \/ Elsewhere
    PROVE  FormCore'
<1>0. FormTypes
    BY DEF FormInv
<1>1. SamePage
    <2>1. CASE \E n \in Names \cup { "" } : SetUsername(n)
        <3>1. PICK n \in Names \cup { "" } : form' = [form EXCEPT !.username = n]
            BY <2>1 DEF SetUsername
        <3>2. QED
            BY <1>0, <3>1 DEF SamePage, FormTypes, ApplyTypeOK, Form
    <2>2. CASE \E f \in Required : SetField(f)
        <3>1. PICK blank \in SUBSET Required : form' = [form EXCEPT !.blank = blank]
            <4>1. form.blank \in SUBSET Required
                BY <1>0 DEF FormTypes, ApplyTypeOK, Form
            <4>2. PICK f \in Required : SetField(f)
                BY <2>2
            <4>3. (form.blank \ { f }) \cup ({ f } \ form.blank) \in SUBSET Required
                BY <4>1
            <4>4. QED
                BY <4>2, <4>3 DEF SetField
        <3>2. QED
            BY <1>0, <3>1 DEF SamePage, FormTypes, ApplyTypeOK, Form
    <2>3. QED
        BY <1>0, <2>1, <2>2, SameForm DEF ScriptFails, OthersRegister, Elsewhere
<1>2. /\ requests' = requests /\ UNCHANGED <<config, own, confirmed, listening, widget>>
      /\ entry' \in { entry, {} } /\ flash' \in { flash, FALSE }
    BY DEF ScriptFails, SetUsername, SetField, OthersRegister, Elsewhere, server, browser
<1>3. /\ waitlist \subseteq waitlist' /\ waitlist' \subseteq Names
      /\ script' \in { script, "failed" }
    BY <1>0
    DEF ScriptFails, SetUsername, SetField, OthersRegister, Elsewhere, server, browser,
        FormTypes, ApplyTypeOK
<1>4. RestTypes
    BY <1>0, <1>2, <1>3 DEF RestTypes, FormTypes, ApplyTypeOK
<1>5. FormTypes'
    <2>1. requests' \in [Slots -> Request]
        BY <1>0, <1>2 DEF FormTypes, ApplyTypeOK
    <2>2. QED
        BY <1>0, <1>1, <1>4, <2>1, TypesKept DEF SamePage
<1>6. WidgetIsMounted'
    BY <1>1, <1>2, WidgetsKept DEF SamePage, FormInv
<1>7. SameStory
    BY <1>0, <1>1, <1>2, SameRequests DEF SamePage, SameStory
<1>8. QED
    BY <1>5, <1>6, <1>7, StoryKept DEF FormCore

\* The script and the widget: only the mounted page's, which shows its token.
LEMMA WidgetsAnswer ==
    ASSUME FormInv, ScriptLoads \/ \E m \in Mounts : Solve(m) \/ Lapse(m)
    PROVE  FormCore'
<1>0. FormTypes /\ WidgetIsMounted
    BY DEF FormInv
<1>1. CASE ScriptLoads
    <2>1. /\ form' = form /\ requests' = requests /\ listening' = {} /\ script' = "loaded"
          /\ UNCHANGED <<config, waitlist, own, flash, confirmed, entry>>
          /\ widget' = [m \in Mounts |->
                          IF m \in listening THEN DoRenderTurnstile(m) ELSE widget[m]]
        BY <1>1 DEF ScriptLoads, server
    <2>2. widget' \in [Mounts -> { "none", "open", "solved" }]
        BY <1>0, <2>1 DEF DoRenderTurnstile, FormTypes, ApplyTypeOK
    <2>3. FormTypes'
        BY <1>0, <2>1, <2>2, TypesKept DEF RestTypes, FormTypes, ApplyTypeOK
    <2>4. WidgetIsMounted'
        <3>1. \A m \in Mounts : widget'[m] # "none" => m \in listening \/ widget[m] # "none"
            BY <2>1
        <3>2. \A m \in Mounts : widget'[m] = "solved" <=> widget[m] = "solved"
            BY <1>0, <2>1 DEF DoRenderTurnstile, WidgetIsMounted
        <3>3. form.mount \in Mounts \cup { 0 }
            BY <1>0 DEF FormTypes, ApplyTypeOK, Form
        <3>4. QED
            BY <1>0, <2>1, <3>1, <3>2, <3>3 DEF WidgetIsMounted
    <2>5. SameStory
        BY <1>0, <2>1, SameRequests, SameForm DEF SameStory, SamePage
    <2>6. QED
        BY <2>3, <2>4, <2>5, StoryKept DEF FormCore
<1>2. ASSUME NEW m \in Mounts, Solve(m) PROVE FormCore'
    <2>1. PICK t \in Tokens : form' = OnToken(m, t)
        BY <1>2 DEF Solve
    <2>2. /\ requests' = requests /\ widget' = [widget EXCEPT ![m] = "solved"]
          /\ UNCHANGED <<config, waitlist, own, flash, confirmed, script, listening, entry>>
          /\ widget[m] = "open"
        BY <1>2 DEF Solve, server
    <2>3. m = form.mount /\ t \in -1 .. MaxTokens /\ t # 0
        BY <1>0, <2>2, FormBounds DEF WidgetIsMounted
    <2>4. form' = [form EXCEPT !.token = t]
        BY <2>1, <2>3 DEF OnToken
    <2>5. /\ form' \in Form /\ form'.mount = form.mount /\ form'.props = form.props
          /\ form'.token = t
        BY <1>0, <2>3, <2>4 DEF FormTypes, ApplyTypeOK, Form
    <2>6. form'.processing = form.processing
        BY <1>0, <2>3, <2>4 DEF FormTypes, ApplyTypeOK, Form
    <2>7. FormTypes'
        BY <1>0, <2>2, <2>5, TypesKept DEF RestTypes, FormTypes, ApplyTypeOK
    <2>8. WidgetIsMounted'
        BY <1>0, <2>2, <2>3, <2>5, FormBounds DEF WidgetIsMounted, FormTypes, ApplyTypeOK
    <2>9. SameStory
        BY <1>0, <2>2, <2>5, <2>6, SameRequests DEF SameStory
    <2>10. QED
        BY <2>7, <2>8, <2>9, StoryKept DEF FormCore
<1>3. ASSUME NEW m \in Mounts, Lapse(m) PROVE FormCore'
    <2>1. /\ form' = OnToken(m, 0) /\ requests' = UsedByAll(requests, form.token)
          /\ widget' = [widget EXCEPT ![m] = "open"] /\ widget[m] = "solved"
          /\ UNCHANGED <<config, waitlist, own, flash, confirmed, script, listening, entry>>
        BY <1>3 DEF Lapse, server
    <2>2. m = form.mount /\ 0 \in -1 .. MaxTokens
        BY <1>0, <2>1, FormBounds DEF WidgetIsMounted
    <2>3. form' = [form EXCEPT !.token = 0]
        BY <2>1, <2>2 DEF OnToken
    <2>4. /\ form' \in Form /\ form'.mount = form.mount /\ form'.props = form.props
          /\ form'.token = 0
        BY <1>0, <2>2, <2>3 DEF FormTypes, ApplyTypeOK, Form
    <2>5. form'.processing = form.processing
        BY <1>0, <2>2, <2>3 DEF FormTypes, ApplyTypeOK, Form
    <2>6. /\ SameWait
          /\ \A t \in Slots : requests'[t].stage = requests[t].stage
                              /\ requests'[t].errors = requests[t].errors
        BY <1>0, <2>1, UsedRequests DEF SameWait, FormTypes, ApplyTypeOK
    <2>7. FormTypes'
        BY <1>0, <2>1, <2>4, <2>6, TypesKept DEF RestTypes, FormTypes, ApplyTypeOK, SameWait
    <2>8. WidgetIsMounted'
        BY <1>0, <2>1, <2>2, <2>4, FormBounds DEF WidgetIsMounted, FormTypes, ApplyTypeOK
    <2>9. SameStory
        BY <2>1, <2>4, <2>5, <2>6 DEF SameStory
    <2>10. QED
        BY <2>7, <2>8, <2>9, StoryKept DEF FormCore
<1>4. QED
    BY <1>1, <1>2, <1>3
-----------------------------------------------------------------------------
(* The steps that open the page, leave it or load it again.                 *)

\* A page that mounts in a document with none of it.
LEMMA MountKept ==
    ASSUME FormInv, form.mount = 0, NEW props \in Props, Mount(props), UNCHANGED requests
    PROVE  /\ form' \in Form /\ form'.props = props /\ requests' \in [Slots -> Request]
           /\ script' \in { "none", "loading", "loaded", "failed" }
           /\ listening' \subseteq Mounts
           /\ widget' \in [Mounts -> { "none", "open", "solved" }]
           /\ WidgetIsMounted' /\ OneWaits' /\ (Redirected' <=> Redirected)
<1> DEFINE mount == NextMount
<1>0. /\ mount \in Mounts /\ 0 \notin Mounts
      /\ \A m \in Mounts : m \notin listening /\ widget[m] = "none"
    BY FreshMount, FormBounds DEF FormInv
<1>1. /\ form' = FreshForm(mount, props)
      /\ SetupTurnstile(mount, ~props.submitted)
    BY DEF Mount
<1> HIDE DEF mount
<1>2. /\ form' \in Form /\ form'.mount = mount /\ form'.props = props
      /\ form'.token = 0 /\ ~form'.processing
    BY <1>0, <1>1, FreshFormType
<1>3. /\ script \in { "none", "loading", "loaded", "failed" } /\ listening = {}
      /\ widget \in [Mounts -> { "none", "open", "solved" }]
      /\ requests \in [Slots -> Request]
    BY <1>0 DEF FormInv, FormTypes, ApplyTypeOK
<1>4. \/ UNCHANGED browser
      \/ /\ script' \in { script, "loading" }
         /\ listening' = {} /\ widget' = [widget EXCEPT ![mount] = "open"]
      \/ /\ script' \in { script, "loading" }
         /\ listening' = { mount } /\ widget' = widget
    BY <1>0, <1>1, <1>3 DEF SetupTurnstile, DoRenderTurnstile
<1>5. /\ script' \in { "none", "loading", "loaded", "failed" }
      /\ listening' \subseteq { mount }
      /\ widget' \in [Mounts -> { "none", "open", "solved" }]
      /\ \A m \in Mounts : m \in listening' => widget'[m] = "none"
      /\ \A m \in Mounts : widget'[m] # "none" => m = mount
      /\ widget'[mount] # "solved"
    BY <1>0, <1>3, <1>4 DEF browser
<1>6. WidgetIsMounted'
    BY <1>0, <1>2, <1>5 DEF WidgetIsMounted
<1>7. OneWaits'
    BY <1>2 DEF FormInv, OneWaits
<1>8. QED
    BY <1>0, <1>2, <1>3, <1>5, <1>6, <1>7 DEF Redirected

LEMMA OpenKept ==
    ASSUME FormInv, NEW n \in Names \cup { "" }, OpenApply(n)
    PROVE  FormCore'
<1>0. FormTypes /\ flash \in BOOLEAN
    BY DEF FormInv, FormTypes, ApplyTypeOK
<1> DEFINE props == ApplyProps(n)
<1>1. props \in Props /\ props.submitted = flash /\ props.errors = {}
    BY <1>0, ApplyPropsType
<1>2. /\ form.mount = 0 /\ Mount(props) /\ SweepFlash /\ entry' = {}
      /\ UNCHANGED <<config, waitlist, own, requests>>
    BY DEF OpenApply, server
<1> HIDE DEF props
<1>3. /\ form' \in Form /\ form'.props = props /\ requests' \in [Slots -> Request]
      /\ script' \in { "none", "loading", "loaded", "failed" }
      /\ listening' \subseteq Mounts
      /\ widget' \in [Mounts -> { "none", "open", "solved" }]
      /\ WidgetIsMounted' /\ OneWaits' /\ (Redirected' <=> Redirected)
    BY <1>1, <1>2, MountKept
<1>4. ~flash' /\ confirmed' \in Nat /\ Promised' \in Nat /\ Promised' <= Promised
    BY <1>0, <1>2, FlashIsSwept
<1>5. FormTypes'
    <2>1. RestTypes
        BY <1>0, <1>2, <1>3, <1>4 DEF RestTypes, FormTypes, ApplyTypeOK, SweepFlash
    <2>2. QED
        BY <1>0, <1>3, <2>1, TypesKept
<1>6. ErrorsInv'
    BY <1>1, <1>2, <1>3 DEF FormInv, ErrorsInv
<1>7. EarnedInv'
    <2>1. Confirms' => Confirms
        BY <1>1, <1>2, <1>3, <1>4 DEF Confirms
    <2>2. QED
        BY <1>2, <1>3, <1>4, <2>1, EarnedKept
<1>8. QED
    BY <1>3, <1>5, <1>6, <1>7 DEF FormCore

LEMMA ReturnKept ==
    ASSUME FormInv, ReturnToApply
    PROVE  FormCore'
<1>0. FormTypes /\ entry \subseteq Props
    BY DEF FormInv, FormTypes, ApplyTypeOK
<1>1. PICK props \in entry : Mount(props)
    BY DEF ReturnToApply
<1>2. /\ form.mount = 0 /\ entry' = {}
      /\ UNCHANGED <<config, waitlist, own, flash, confirmed, requests>>
    BY DEF ReturnToApply, server
<1>3. /\ form' \in Form /\ form'.props = props /\ requests' \in [Slots -> Request]
      /\ script' \in { "none", "loading", "loaded", "failed" }
      /\ listening' \subseteq Mounts
      /\ widget' \in [Mounts -> { "none", "open", "solved" }]
      /\ WidgetIsMounted' /\ OneWaits' /\ (Redirected' <=> Redirected)
    BY <1>0, <1>1, <1>2, MountKept
<1>4. (flash' => flash) /\ confirmed' \in Nat /\ Promised' \in Nat /\ Promised' <= Promised
    BY <1>0, <1>2, FlashIsKept
<1>5. FormTypes'
    <2>1. RestTypes
        BY <1>0, <1>2, <1>3, <1>4 DEF RestTypes, FormTypes, ApplyTypeOK
    <2>2. QED
        BY <1>0, <1>3, <2>1, TypesKept
<1>6. ErrorsInv'
    BY <1>1, <1>2, <1>3 DEF FormInv, ErrorsInv
<1>7. EarnedInv'
    <2>1. Confirms' => Confirms
        BY <1>1, <1>2, <1>3, <1>4 DEF Confirms
    <2>2. QED
        BY <1>2, <1>3, <1>4, <2>1, EarnedKept
<1>8. QED
    BY <1>3, <1>5, <1>6, <1>7 DEF FormCore

\* Nobody waits for the requests of a page that has gone.
LEMMA ForsakenKept ==
    ASSUME FormInv, requests' = Forsaken, ~form'.processing
    PROVE  /\ requests' \in [Slots -> Request] /\ OneWaits' /\ ~Redirected'
           /\ \A s \in Slots : requests'[s].errors \subseteq requests[s].errors
<1>1. /\ requests' \in [Slots -> Request]
      /\ \A s \in Slots :
           /\ requests'[s].mount = 0 /\ requests'[s].stage \in { "", "sent" }
           /\ requests'[s].errors \in { {}, requests[s].errors }
    BY ForsakenRequests DEF FormInv
<1>2. OneWaits'
    BY <1>1 DEF OneWaits
<1>3. ~Redirected'
    BY <1>1 DEF Redirected
<1>4. QED
    BY <1>1, <1>2, <1>3

LEMMA LeaveKept ==
    ASSUME FormInv, LeaveApply
    PROVE  FormCore'
<1>0. FormTypes
    BY DEF FormInv
<1>1. /\ form' = NoForm /\ entry' = { form.props } /\ requests' = Forsaken
      /\ listening' = listening \ { form.mount }
      /\ widget' = [m \in Mounts |-> IF m = form.mount THEN "none" ELSE widget[m]]
      /\ UNCHANGED <<config, waitlist, own, flash, confirmed, script>>
    BY DEF LeaveApply, RemoveTurnstileWidget, server
<1>2. /\ form' \in Form /\ form'.mount = 0 /\ form'.token = 0 /\ ~form'.processing
      /\ ~form'.props.submitted /\ form'.props.errors = {}
    BY <1>1, NoneTypes DEF NoForm, NoProps
<1>3. /\ requests' \in [Slots -> Request] /\ OneWaits' /\ ~Redirected'
      /\ \A s \in Slots : requests'[s].errors \subseteq requests[s].errors
    BY <1>1, <1>2, ForsakenKept
<1>4. (flash' => flash) /\ confirmed' \in Nat /\ Promised' \in Nat /\ Promised' <= Promised
    BY <1>0, <1>1, FlashIsKept
<1>5. FormTypes'
    <2>1. form.props \in Props
        BY <1>0 DEF FormTypes, ApplyTypeOK, Form
    <2>2. widget' \in [Mounts -> { "none", "open", "solved" }]
        BY <1>0, <1>1 DEF FormTypes, ApplyTypeOK
    <2>3. RestTypes
        BY <1>0, <1>1, <1>4, <2>1, <2>2 DEF RestTypes, FormTypes, ApplyTypeOK
    <2>4. QED
        BY <1>0, <1>2, <1>3, <2>3, TypesKept
<1>6. WidgetIsMounted'
    <2>1. \A m \in Mounts : m \notin listening' /\ widget'[m] = "none"
        BY <1>1 DEF FormInv, WidgetIsMounted
    <2>2. \A m \in listening' : m \in Mounts
        BY <1>0, <1>1 DEF FormTypes, ApplyTypeOK
    <2>3. QED
        BY <1>2, <2>1, <2>2 DEF WidgetIsMounted
<1>7. ErrorsInv'
    BY <1>1, <1>2, <1>3 DEF FormInv, ErrorsInv
<1>8. EarnedInv'
    <2>1. Confirms' => Confirms
        BY <1>1, <1>2, <1>3, <1>4 DEF Confirms
    <2>2. QED
        BY <1>1, <1>3, <1>4, <2>1, EarnedKept
<1>9. QED
    BY <1>3, <1>5, <1>6, <1>7, <1>8 DEF FormCore

LEMMA ReloadKept ==
    ASSUME FormInv, ReloadApply
    PROVE  FormCore'
<1>0. FormTypes /\ flash \in BOOLEAN /\ 1 \in Mounts
    BY FormBounds DEF FormInv, FormTypes, ApplyTypeOK
<1> DEFINE props == ApplyProps(form.props.initial)
<1>1. props \in Props /\ props.submitted = flash /\ props.errors = {}
    <2>1. form.props.initial \in Names \cup { "" }
        BY <1>0 DEF FormTypes, ApplyTypeOK, Form, Props
    <2>2. QED
        BY <1>0, <2>1, ApplyPropsType
<1>2. /\ form' = FreshForm(1, props) /\ SweepFlash /\ requests' = Forsaken
      /\ script' \in { "none", "loading" } /\ listening' \in { {}, { 1 } }
      /\ widget' = [m \in Mounts |-> "none"]
      /\ UNCHANGED <<config, waitlist, own, entry>>
    BY DEF ReloadApply, server
<1> HIDE DEF props
<1>3. /\ form' \in Form /\ form'.mount = 1 /\ form'.token = 0 /\ ~form'.processing
      /\ form'.props = props
    BY <1>0, <1>1, <1>2, FreshFormType
<1>4. /\ requests' \in [Slots -> Request] /\ OneWaits' /\ ~Redirected'
      /\ \A s \in Slots : requests'[s].errors \subseteq requests[s].errors
    BY <1>2, <1>3, ForsakenKept
<1>5. ~flash' /\ confirmed' \in Nat /\ Promised' \in Nat /\ Promised' <= Promised
    BY <1>0, <1>2, FlashIsSwept
<1>6. FormTypes'
    <2>1. /\ widget' \in [Mounts -> { "none", "open", "solved" }] /\ listening' \subseteq Mounts
          /\ script' \in { "none", "loading", "loaded", "failed" }
        BY <1>0, <1>2
    <2>2. RestTypes
        BY <1>0, <1>2, <1>5, <2>1 DEF RestTypes, FormTypes, ApplyTypeOK, SweepFlash
    <2>3. QED
        BY <1>0, <1>3, <1>4, <2>2, TypesKept
<1>7. WidgetIsMounted'
    BY <1>0, <1>2, <1>3 DEF WidgetIsMounted
<1>8. ErrorsInv'
    BY <1>1, <1>2, <1>3, <1>4 DEF FormInv, ErrorsInv
<1>9. EarnedInv'
    <2>1. Confirms' => Confirms
        BY <1>1, <1>2, <1>3, <1>4, <1>5 DEF Confirms
    <2>2. QED
        BY <1>2, <1>4, <1>5, <2>1, EarnedKept
<1>10. QED
    BY <1>4, <1>6, <1>7, <1>8, <1>9 DEF FormCore
-----------------------------------------------------------------------------
(* The steps of a POST.                                                     *)

\* The page, its widget and what is on the server's side of them stay.
Posted ==
    /\ form' \in Form /\ form'.mount = form.mount /\ (form'.token = 0 <=> form.token = 0)
    /\ requests' \in [Slots -> Request] /\ confirmed' \in Nat
    /\ own' \subseteq waitlist' /\ waitlist' \subseteq Names /\ flash' \in BOOLEAN
    /\ UNCHANGED <<config, browser, entry>>

LEMMA PostedKept ==
    ASSUME FormInv, Posted
    PROVE  FormTypes' /\ WidgetIsMounted'
<1>1. RestTypes
    BY DEF Posted, RestTypes, FormInv, FormTypes, ApplyTypeOK, browser
<1>2. FormTypes'
    BY <1>1, TypesKept DEF Posted, FormInv
<1>3. WidgetIsMounted'
    BY WidgetsKept DEF Posted, browser, FormInv
<1>4. QED
    BY <1>2, <1>3

LEMMA SubmitKept ==
    ASSUME FormInv, HandleSubmit
    PROVE  FormCore'
<1>0. FormTypes /\ form \in Form /\ form.mount # 0 /\ form.processing = FALSE
    BY DEF FormInv, FormTypes, ApplyTypeOK, HandleSubmit, SubmitButton, OnForm, Form
<1> DEFINE sent == [stage |-> "sent", mount |-> form.mount, username |-> form.username,
                    blank |-> form.blank, token |-> form.token, errors |-> {}]
<1>1. /\ sent \in Request /\ sent.stage = "sent" /\ sent.mount = form.mount
      /\ sent.errors = {}
    BY <1>0 DEF Form, Request
<1>2. PICK s \in Slots : requests' = [requests EXCEPT ![s] = sent]
    BY DEF HandleSubmit, FreeSlots
<1>3. /\ form' = [form EXCEPT !.processing = TRUE]
      /\ UNCHANGED <<config, waitlist, own, flash, confirmed, browser, entry>>
    BY DEF HandleSubmit, server
<1> HIDE DEF sent
<1>4. /\ form' \in Form /\ form'.mount = form.mount /\ form'.token = form.token
      /\ form'.props = form.props
    BY <1>0, <1>3 DEF Form
<1>5. form'.processing
    BY <1>0, <1>3 DEF Form
<1>6. /\ requests' \in [Slots -> Request] /\ requests'[s] = sent
      /\ \A t \in Slots \ { s } : requests'[t] = requests[t]
    BY <1>0, <1>1, <1>2 DEF FormTypes, ApplyTypeOK
<1>7. FormTypes' /\ WidgetIsMounted'
    <2>1. Posted
        BY <1>0, <1>3, <1>4, <1>6 DEF Posted, FormTypes, ApplyTypeOK
    <2>2. QED
        BY <2>1, PostedKept
<1>8. OneWaits'
    <2>1. \A t \in Slots : requests[t].mount = 0
        BY <1>0 DEF FormInv, OneWaits
    <2>2. requests'[s].mount = form'.mount /\ requests'[s].mount # 0
        BY <1>0, <1>1, <1>4, <1>6
    <2>3. \A t \in Slots \ { s } : requests'[t].mount = 0
        BY <1>6, <2>1
    <2>4. \A t \in Slots : requests'[t].stage \notin { "", "sent" } => requests'[t].mount # 0
        BY <1>1, <1>6 DEF FormInv, OneWaits
    <2>5. QED
        BY <1>5, <2>2, <2>3, <2>4 DEF OneWaits
<1>9. ErrorsInv'
    BY <1>1, <1>3, <1>4, <1>6 DEF FormInv, ErrorsInv
<1>10. EarnedInv'
    <2>1. Redirected' => Redirected
        BY <1>1, <1>6 DEF Redirected
    <2>2. (flash' => flash) /\ Promised' \in Nat /\ Promised' <= Promised
        BY <1>0, <1>3, FlashIsKept
    <2>3. Confirms' => Confirms
        BY <1>3, <1>4, <2>1, <2>2 DEF Confirms
    <2>4. QED
        BY <1>3, <2>1, <2>2, <2>3, EarnedKept
<1>11. QED
    BY <1>7, <1>8, <1>9, <1>10 DEF FormCore

\* A registration is one more the browser has, and the first of the two that
\* are told of it: a refusal registers nothing and promises nothing.
LEMMA CreateKept ==
    ASSUME FormInv, NEW s \in Slots, Create(s)
    PROVE  FormCore'
<1>0. FormTypes /\ UNCHANGED <<config, flash, confirmed, browser, entry>>
    BY DEF FormInv, Create
<1>1. ASSUME NEW stage \in { "refused", "redirected" }, NEW errors \in SUBSET FormKeys,
             Answered(s, stage, errors)
      PROVE  OneWaits'
    <2>1. /\ form'.mount = form.mount /\ (form'.processing <=> form.processing)
          /\ \A t \in Slots : requests'[t].mount = requests[t].mount
        BY <1>1 DEF Answered, SamePage, SameWait
    <2>2. \A t \in Slots : requests'[t].stage \notin { "", "sent" } => requests'[t].mount # 0
        BY <1>1, <2>1 DEF Answered, FormInv, OneWaits
    <2>3. form'.processing <=> \E t \in Slots : requests'[t].mount # 0
        BY <2>1 DEF FormInv, OneWaits
    <2>4. /\ \A t \in Slots : requests[t].mount # 0 => requests[t].mount = form.mount
          /\ \A t, u \in Slots : requests[t].mount # 0 /\ requests[u].mount # 0 => t = u
        BY DEF FormInv, OneWaits
    <2>5. QED
        BY <2>1, <2>2, <2>3, <2>4 DEF OneWaits
<1>2. ASSUME NEW errors \in SUBSET FormKeys, Answered(s, "refused", errors),
             UNCHANGED server, "turnstile" \in errors => config.enabled
      PROVE  FormCore'
    <2>1. FormTypes' /\ WidgetIsMounted'
        <3>1. Posted
            BY <1>0, <1>2
            DEF Posted, Answered, SamePage, SameWait, server, FormTypes, ApplyTypeOK
        <3>2. QED
            BY <3>1, PostedKept
    <2>2. ErrorsInv'
        BY <1>0, <1>2 DEF FormInv, ErrorsInv, Answered, SamePage
    <2>3. EarnedInv'
        <3>1. Redirected' => Redirected
            BY <1>2 DEF Answered, Redirected
        <3>2. (flash' => flash) /\ Promised' \in Nat /\ Promised' <= Promised
            BY <1>0, FlashIsKept
        <3>3. Confirms' => Confirms
            BY <1>0, <1>2, <3>1, <3>2 DEF Confirms, Answered, SamePage
        <3>4. QED
            BY <1>2, <3>1, <3>2, <3>3, EarnedKept DEF server
    <2>4. OneWaits'
        BY <1>1, <1>2
    <2>5. QED
        BY <2>1, <2>2, <2>3, <2>4 DEF FormCore
<1>3. ASSUME NEW n \in Names \ waitlist, Answered(s, "redirected", {}),
             waitlist' = waitlist \cup { n }, own' = own \cup { n }
      PROVE  FormCore'
    <2>1. own \subseteq waitlist /\ waitlist \subseteq Names
        BY <1>0 DEF FormTypes, ApplyTypeOK
    <2>2. FormTypes' /\ WidgetIsMounted'
        <3>1. Posted
            BY <1>0, <1>3, <2>1 DEF Posted, Answered, SamePage, SameWait, FormTypes, ApplyTypeOK
        <3>2. QED
            BY <3>1, PostedKept
    <2>3. {} \in SUBSET FormKeys
        OBVIOUS
    <2>4. ErrorsInv'
        BY <1>0, <1>3 DEF FormInv, ErrorsInv, Answered, SamePage
    <2>5. EarnedInv'
        <3>1. /\ IsFiniteSet(own) /\ n \notin own /\ Cardinality(own) \in Nat
              /\ Promised + (IF Redirected THEN 1 ELSE 0) <= Cardinality(own)
            BY <2>1, FS_CardinalityType DEF FormInv, EarnedInv
        <3>2. IsFiniteSet(own') /\ Cardinality(own') = Cardinality(own) + 1
            BY <1>3, <3>1, FS_AddElement
        <3>3. Promised \in Nat /\ Promised' = Promised
            BY <1>0 DEF Promised, FormTypes
        <3>4. Promised' + (IF Redirected' THEN 1 ELSE 0) <= Cardinality(own')
            BY <3>1, <3>2, <3>3
        <3>5. own' # {}
            BY <1>3
        <3>6. QED
            BY <3>2, <3>4, <3>5 DEF EarnedInv
    <2>6. OneWaits'
        BY <1>1, <1>3, <2>3
    <2>7. QED
        BY <2>2, <2>4, <2>5, <2>6 DEF FormCore
<1>4. QED
    BY <1>0, <1>2, <1>3, CreateEffect
\* A request that is answered, or given up, waits no more.
Cleared(s) ==
    /\ requests' \in [Slots -> Request]
    /\ requests'[s].mount = 0 /\ requests'[s].stage \in { "", "sent" }
    /\ requests'[s].errors = {}
    /\ \A t \in Slots \ { s } : requests'[t] = requests[t]

LEMMA ClearedRequest ==
    ASSUME FormTypes, NEW s \in Slots,
           \/ requests' = [requests EXCEPT ![s] = NoRequest]
           \/ requests' = [requests EXCEPT ![s] = Abandoned(@)]
    PROVE  Cleared(s)
<1>1. requests \in [Slots -> Request] /\ requests[s] \in Request
    BY DEF FormTypes, ApplyTypeOK
<1>2. CASE requests' = [requests EXCEPT ![s] = NoRequest]
    <2>1. NoRequest.mount = 0 /\ NoRequest.stage = "" /\ NoRequest.errors = {}
        BY DEF NoRequest
    <2>2. QED
        BY <1>1, <1>2, <2>1, NoneTypes DEF Cleared
<1>3. CASE requests' = [requests EXCEPT ![s] = Abandoned(@)]
    <2> DEFINE left == Abandoned(requests[s])
    <2>1. left \in Request /\ left.mount = 0 /\ left.errors = {} /\ left.stage \in { "", "sent" }
        BY <1>1, AbandonedRequest
    <2>2. requests' = [requests EXCEPT ![s] = left]
        BY <1>3
    <2> HIDE DEF left
    <2>3. QED
        BY <1>1, <2>1, <2>2 DEF Cleared
<1>4. QED
    BY <1>2, <1>3

LEMMA ClearedKept ==
    ASSUME FormInv, NEW s \in Slots, Cleared(s)
    PROVE  /\ Redirected' => Redirected
           /\ ~config.enabled => \A t \in Slots : "turnstile" \notin requests'[t].errors
           /\ Waits(s) /\ form'.mount = form.mount /\ ~form'.processing => OneWaits'
<1>1. Redirected' => Redirected
    BY DEF Cleared, Redirected
<1>2. ~config.enabled => \A t \in Slots : "turnstile" \notin requests'[t].errors
    BY DEF Cleared, FormInv, ErrorsInv
<1>3. ASSUME Waits(s), form'.mount = form.mount, ~form'.processing PROVE OneWaits'
    <2>1. \A t \in Slots : requests'[t].mount = 0
        BY <1>3 DEF Waits, Cleared, FormInv, OneWaits
    <2>2. \A t \in Slots : requests'[t].stage \notin { "", "sent" } => requests'[t].mount # 0
        BY DEF Cleared, FormInv, OneWaits
    <2>3. QED
        BY <1>3, <2>1, <2>2 DEF OneWaits
<1>4. QED
    BY <1>1, <1>2, <1>3

\* The props of a page that is rendered in place.
LEMMA RenderedForm ==
    ASSUME FormTypes, NEW props \in Props,
           form' = [form EXCEPT !.processing = FALSE, !.props = props]
    PROVE  /\ form' \in Form /\ form'.mount = form.mount /\ form'.token = form.token
           /\ form'.props = props /\ ~form'.processing
<1>1. form \in Form
    BY DEF FormTypes, ApplyTypeOK
<1>2. /\ form' \in Form /\ form'.mount = form.mount /\ form'.token = form.token
      /\ form'.props = props
    BY <1>1 DEF Form
<1>3. ~form'.processing
    BY <1>1 DEF Form
<1>4. QED
    BY <1>2, <1>3

LEMMA RenderErrorsKept ==
    ASSUME FormInv, NEW s \in Slots, RenderErrors(s)
    PROVE  FormCore'
<1>0. FormTypes /\ UNCHANGED <<config, waitlist, own, flash, confirmed, browser, entry>>
    BY DEF FormInv, RenderErrors, server
<1> DEFINE props == [submitted |-> FALSE, errors |-> requests[s].errors, initial |-> ""]
<1>1. /\ props \in Props /\ ~props.submitted /\ props.errors = requests[s].errors
      /\ form' = [form EXCEPT !.processing = FALSE, !.props = props]
    BY <1>0 DEF FormTypes, ApplyTypeOK, Request, Props, RenderErrors
<1> HIDE DEF props
<1>2. /\ form' \in Form /\ form'.mount = form.mount /\ form'.token = form.token
      /\ form'.props = props /\ ~form'.processing
    BY <1>0, <1>1, RenderedForm
<1>3. Cleared(s) /\ Waits(s)
    BY <1>0, ClearedRequest DEF RenderErrors
<1>4. OneWaits' /\ (Redirected' => Redirected)
    BY <1>2, <1>3, ClearedKept
<1>5. FormTypes' /\ WidgetIsMounted'
    <2>1. Posted
        BY <1>0, <1>2, <1>3 DEF Posted, Cleared, FormTypes, ApplyTypeOK
    <2>2. QED
        BY <2>1, PostedKept
<1>6. ErrorsInv'
    BY <1>0, <1>1, <1>2, <1>3, ClearedKept DEF FormInv, ErrorsInv
<1>7. EarnedInv'
    <2>1. (flash' => flash) /\ Promised' \in Nat /\ Promised' <= Promised
        BY <1>0, FlashIsKept
    <2>2. Confirms' => Confirms
        BY <1>0, <1>1, <1>2, <1>4, <2>1 DEF Confirms
    <2>3. QED
        BY <1>0, <1>4, <2>1, <2>2, EarnedKept
<1>8. QED
    BY <1>4, <1>5, <1>6, <1>7 DEF FormCore

LEMMA RenderConfirmationKept ==
    ASSUME FormInv, NEW s \in Slots, RenderConfirmation(s)
    PROVE  FormCore'
<1>0. /\ FormTypes /\ flash \in BOOLEAN /\ SweepFlash
      /\ UNCHANGED <<config, waitlist, own, browser, entry>>
    BY DEF FormInv, FormTypes, ApplyTypeOK, RenderConfirmation, server
<1> DEFINE props == ApplyProps("")
<1>1. /\ props \in Props /\ props.submitted = flash /\ props.errors = {}
      /\ form' = [form EXCEPT !.processing = FALSE, !.props = props]
    BY <1>0, ApplyPropsType DEF RenderConfirmation
<1> HIDE DEF props
<1>2. /\ form' \in Form /\ form'.mount = form.mount /\ form'.token = form.token
      /\ form'.props = props /\ ~form'.processing
    BY <1>0, <1>1, RenderedForm
<1>3. Cleared(s) /\ Waits(s)
    BY <1>0, ClearedRequest DEF RenderConfirmation
<1>4. OneWaits' /\ (Redirected' => Redirected)
    BY <1>2, <1>3, ClearedKept
<1>5. ~flash' /\ confirmed' \in Nat /\ Promised' \in Nat /\ Promised' <= Promised
    BY <1>0, FlashIsSwept
<1>6. FormTypes' /\ WidgetIsMounted'
    <2>1. Posted
        BY <1>0, <1>2, <1>3, <1>5 DEF Posted, Cleared, FormTypes, ApplyTypeOK, SweepFlash
    <2>2. QED
        BY <2>1, PostedKept
<1>7. ErrorsInv'
    BY <1>0, <1>1, <1>2, <1>3, ClearedKept DEF FormInv, ErrorsInv
<1>8. EarnedInv'
    <2>1. Confirms' => Confirms
        BY <1>0, <1>1, <1>2, <1>4, <1>5 DEF Confirms
    <2>2. QED
        BY <1>0, <1>4, <1>5, <2>1, EarnedKept
<1>9. QED
    BY <1>4, <1>6, <1>7, <1>8 DEF FormCore

LEMMA LostKept ==
    ASSUME FormInv, NEW s \in Slots, AnswerIsLost(s) \/ RequestIsLost(s)
    PROVE  FormCore'
<1>0. FormTypes /\ UNCHANGED <<config, waitlist, own, flash, confirmed, browser, entry>>
    BY DEF FormInv, AnswerIsLost, RequestIsLost, server
<1>1. Cleared(s)
    BY <1>0, ClearedRequest DEF AnswerIsLost, RequestIsLost
<1>2. /\ form' \in Form /\ form'.mount = form.mount /\ form'.token = form.token
      /\ form'.props = form.props
    BY <1>0 DEF AnswerIsLost, RequestIsLost, FormTypes, ApplyTypeOK, Form
<1>3. OneWaits'
    <2>1. CASE AnswerIsLost(s)
        <3>1. ~form'.processing
            BY <1>0, <2>1 DEF AnswerIsLost, FormTypes, ApplyTypeOK, Form
        <3>2. QED
            BY <1>1, <1>2, <2>1, <3>1, ClearedKept DEF AnswerIsLost
    <2>2. CASE RequestIsLost(s)
        <3>1. form' = form /\ \A t \in Slots : requests'[t].mount = requests[t].mount
            BY <1>1, <2>2 DEF RequestIsLost, Cleared
        <3>2. \A t \in Slots : requests'[t].stage \notin { "", "sent" } => requests'[t].mount # 0
            BY <1>1 DEF Cleared, FormInv, OneWaits
        <3>3. QED
            BY <3>1, <3>2 DEF FormInv, OneWaits
    <2>3. QED
        BY <2>1, <2>2
<1>4. FormTypes' /\ WidgetIsMounted'
    <2>1. Posted
        BY <1>0, <1>1, <1>2 DEF Posted, Cleared, FormTypes, ApplyTypeOK
    <2>2. QED
        BY <2>1, PostedKept
<1>5. ErrorsInv'
    BY <1>0, <1>1, <1>2, ClearedKept DEF FormInv, ErrorsInv
<1>6. EarnedInv'
    <2>1. (flash' => flash) /\ Promised' \in Nat /\ Promised' <= Promised
        BY <1>0, FlashIsKept
    <2>2. Redirected' => Redirected
        BY <1>1, ClearedKept
    <2>3. Confirms' => Confirms
        BY <1>0, <1>2, <2>1, <2>2 DEF Confirms
    <2>4. QED
        BY <1>0, <2>1, <2>2, <2>3, EarnedKept
<1>7. QED
    BY <1>3, <1>4, <1>5, <1>6 DEF FormCore

\* The one answer that confirms becomes the flash.
LEMMA FollowedKept ==
    ASSUME FormInv, NEW s \in Slots, FollowRedirect(s)
    PROVE  FormCore'
<1>0. /\ FormTypes /\ requests \in [Slots -> Request] /\ requests[s].stage = "redirected"
      /\ UNCHANGED <<config, waitlist, own, confirmed, browser, form, entry>> /\ flash' = TRUE
    BY DEF FormInv, FormTypes, ApplyTypeOK, FollowRedirect, server
<1>1. /\ SameWait
      /\ requests'[s].stage = "following" /\ requests'[s].errors = requests[s].errors
      /\ \A t \in Slots \ { s } : requests'[t] = requests[t]
    <2>1. requests' = [requests EXCEPT ![s].stage = "following"]
        BY DEF FollowRedirect
    <2>2. QED
        BY <1>0, <2>1 DEF SameWait, Request
<1>2. FormTypes' /\ WidgetIsMounted'
    <2>1. Posted
        BY <1>0, <1>1 DEF Posted, SameWait, FormTypes, ApplyTypeOK
    <2>2. QED
        BY <2>1, PostedKept
<1>3. requests[s].mount # 0
    BY DEF FollowRedirect, Waits
<1>4. OneWaits'
    <2>1. \A t \in Slots : requests'[t].mount = requests[t].mount
        BY <1>1 DEF SameWait
    <2>2. \A t \in Slots : requests'[t].stage \notin { "", "sent" } => requests'[t].mount # 0
        BY <1>1, <1>3, <2>1 DEF FormInv, OneWaits
    <2>3. QED
        BY <1>0, <2>1, <2>2 DEF FormInv, OneWaits
<1>5. ErrorsInv'
    BY <1>0, <1>1 DEF FormInv, ErrorsInv
<1>6. EarnedInv'
    <2>1. Redirected /\ ~Redirected'
        BY <1>0, <1>1, <1>3 DEF Redirected, FormInv, OneWaits
    <2>2. /\ IsFiniteSet(own) /\ own # {} /\ Cardinality(own) \in Nat
          /\ Promised + 1 <= Cardinality(own)
        BY <2>1, FS_CardinalityType DEF FormInv, EarnedInv, Confirms
    <2>3. Promised \in Nat /\ Promised' <= Promised + 1 /\ Promised' \in Nat
        BY <1>0 DEF Promised, FormTypes
    <2>4. Promised' <= Cardinality(own')
        BY <1>0, <2>2, <2>3
    <2>5. QED
        BY <1>0, <2>1, <2>2, <2>3, <2>4 DEF EarnedInv
<1>7. QED
    BY <1>2, <1>4, <1>5, <1>6 DEF FormCore
-----------------------------------------------------------------------------
(* The form belongs to its page, and the invariant is inductive.            *)

LEMMA FormStart == Init => FormInv
<1> SUFFICES ASSUME Init PROVE FormInv
    OBVIOUS
<1>1. /\ config \in [enabled : BOOLEAN, keyed : BOOLEAN] /\ waitlist = {} /\ own = {}
      /\ flash = FALSE /\ confirmed = 0 /\ script = "none" /\ listening = {}
      /\ widget = [m \in Mounts |-> "none"] /\ form = NoForm /\ entry = {}
      /\ requests = [s \in Slots |-> NoRequest]
    BY DEF Init, ApplyInit
<1>2. /\ form.mount = 0 /\ form.token = 0 /\ ~form.processing
      /\ ~form.props.submitted /\ form.props.errors = {}
    BY <1>1 DEF NoForm, NoProps
<1>3. \A s \in Slots : /\ requests[s].mount = 0 /\ requests[s].stage = ""
                       /\ requests[s].errors = {}
    BY <1>1 DEF NoRequest
<1>4. FormTypes
    BY <1>1, NoneTypes DEF FormTypes, ApplyTypeOK
<1>5. WidgetIsMounted
    BY <1>1, <1>2 DEF WidgetIsMounted
<1>6. OneWaits /\ ErrorsInv
    BY <1>1, <1>2, <1>3 DEF OneWaits, ErrorsInv
<1>7. EarnedInv
    <2>1. ~Redirected /\ ~Confirms
        BY <1>1, <1>2, <1>3 DEF Redirected, Confirms
    <2>2. Promised = 0
        BY <1>1 DEF Promised
    <2>3. IsFiniteSet(own) /\ Cardinality(own) = 0
        BY <1>1, FS_EmptySet
    <2>4. QED
        BY <2>1, <2>2, <2>3 DEF EarnedInv
<1>8. PlaceInv
    BY <1>2 DEF PlaceInv
<1>9. QED
    BY <1>4, <1>5, <1>6, <1>7, <1>8 DEF FormInv

\* Without the page nothing happens to it.
LEMMA PlaceNext == FormInv /\ [Next]_vars => PlaceInv'
<1> SUFFICES ASSUME FormInv, [Next]_vars, place' # "apply" PROVE form'.mount = 0
    BY DEF PlaceInv
<1>0. FormTypes /\ (place # "apply" => form.mount = 0)
    BY DEF FormInv, PlaceInv
<1>1. ASSUME form' = form, place # "apply" PROVE form'.mount = 0
    BY <1>0, <1>1
<1>2. CASE GotoApply
    BY <1>2 DEF GotoApply, Goto
<1>3. CASE GotoExplore \/ GotoCrate \/ GotoTactile
    BY <1>1, <1>3 DEF GotoExplore, GotoCrate, GotoTactile, GotoOther, Goto
<1>4. CASE Quit
    <2>1. CASE LeaveApply
        BY <2>1 DEF LeaveApply, NoForm
    <2>2. CASE (LeaveExplore \/ LeaveCrate \/ LeaveTactile) /\ UNCHANGED applyVars
        BY <1>1, <2>2 DEF LeaveExplore, LeaveCrate, LeaveTactile, applyVars
    <2>3. QED
        BY <1>4, <2>1, <2>2 DEF Quit
<1>5. CASE ApplyStep /\ UNCHANGED <<frameVars, place>>
    <2>1. form.mount = 0 /\ place # "apply"
        BY <1>0, <1>5
    <2>2. ASSUME NEW s \in Slots, Exchange(s) PROVE form'.mount = 0
        <3>1. CASE Create(s)
            BY <1>0, <2>1, <3>1, CreateEffect DEF Answered, SamePage
        <3>2. CASE RequestIsLost(s)
            BY <1>1, <2>1, <3>2 DEF RequestIsLost
        <3>3. ~Waits(s)
            BY <2>1 DEF Waits
        <3>4. QED
            BY <2>2, <3>1, <3>2, <3>3
            DEF Exchange, RenderErrors, FollowRedirect, RenderConfirmation, AnswerIsLost
    <2>3. ASSUME NEW m \in Mounts, NEW t PROVE OnToken(m, t) = form
        BY <2>1, FormBounds DEF OnToken
    <2>4. CASE \E m \in Mounts : Solve(m) \/ Lapse(m)
        BY <1>1, <2>1, <2>3, <2>4 DEF Solve, Lapse
    <2>5. ~ReloadApply /\ ~HandleSubmit /\ ~(\E n \in Names \cup { "" } : SetUsername(n))
            /\ ~(\E f \in Required : SetField(f))
        BY <2>1 DEF ReloadApply, HandleSubmit, SubmitButton, SetUsername, SetField, OnForm
    <2>6. CASE ScriptLoads \/ ScriptFails \/ \E n \in Names : OthersRegister(n)
        BY <1>1, <2>1, <2>6 DEF ScriptLoads, ScriptFails, OthersRegister
    <2>7. QED
        BY <1>5, <2>2, <2>4, <2>5, <2>6 DEF ApplyStep
<1>6. CASE SelectCrate \/ UNCHANGED vars \/ (FramesStep /\ UNCHANGED <<applyVars, place>>)
    BY <1>1, <1>6 DEF SelectCrate, vars, applyVars
<1>7. QED
    BY <1>2, <1>3, <1>4, <1>5, <1>6 DEF Next

LEMMA FormNext == FormInv /\ [Next]_vars => FormInv'
<1> SUFFICES ASSUME FormInv, [Next]_vars PROVE FormInv'
    OBVIOUS
<1>1. ASSUME NEW s \in Slots, Exchange(s) PROVE FormCore'
    BY <1>1, CreateKept, RenderErrorsKept, RenderConfirmationKept, LostKept, FollowedKept
    DEF Exchange
<1>2. ASSUME ApplyStep PROVE FormCore'
    <2>1. CASE \/ ScriptFails
               \/ \E n \in Names \cup { "" } : SetUsername(n)
               \/ \E f \in Required : SetField(f)
               \/ \E n \in Names : OthersRegister(n)
        BY <2>1, StillKept
    <2>2. CASE ScriptLoads \/ \E m \in Mounts : Solve(m) \/ Lapse(m)
        BY <2>2, WidgetsAnswer
    <2>3. CASE ReloadApply
        BY <2>3, ReloadKept
    <2>4. CASE HandleSubmit
        BY <2>4, SubmitKept
    <2>5. CASE \E s \in Slots : Exchange(s)
        BY <1>1, <2>5
    <2>6. QED
        BY <1>2, <2>1, <2>2, <2>3, <2>4, <2>5 DEF ApplyStep
<1>3. FormCore'
    <2>1. CASE \E n \in Names \cup { "" } : OpenApply(n)
        BY <2>1, OpenKept
    <2>2. CASE ReturnToApply \/ LeaveApply
        BY <2>2, ReturnKept, LeaveKept
    <2>3. CASE Elsewhere
        BY <2>3, StillKept
    <2>4. QED
        BY <1>2, <2>1, <2>2, <2>3, FormSteps
<1>4. QED
    BY <1>3, PlaceNext DEF FormCore, FormInv

\* What the inductive invariant says of the form.
LEMMA FormHolds == FormInv => ApplyInv /\ ConfirmedOnce
<1> SUFFICES ASSUME FormInv PROVE ApplyInv /\ ConfirmedOnce
    OBVIOUS
<1>1. ApplyTypeOK /\ WidgetIsMounted
    BY DEF FormInv, FormTypes
<1>2. BusyIsTrue
    BY DEF FormInv, OneWaits, BusyIsTrue, Waits
<1>3. ConfirmationIsReal
    BY DEF FormInv, EarnedInv, Confirms, ConfirmationIsReal, ConfirmationView
<1>4. RefusalIsExplained
    <2> SUFFICES ASSUME config.enabled => config.keyed
                 PROVE  /\ ListedErrors \cup TurnstileGuard = form.props.errors
                        /\ ListedErrors = MarkedFields
        BY DEF RefusalIsExplained
    <2>1. form.props.errors \subseteq Required \cup { "discogs_username", "turnstile" }
        <3>1. form.props \in Props
            BY <1>1 DEF ApplyTypeOK, Form
        <3>2. QED
            BY <3>1 DEF Props, FormKeys
    <2>2. ListedErrors = MarkedFields
        BY <2>1, FormBounds DEF ListedErrors, MarkedFields, FieldError
    <2>3. "turnstile" \in form.props.errors => IsReady
        BY DEF FormInv, ErrorsInv, IsReady
    <2>4. ListedErrors \cup TurnstileGuard = form.props.errors
        BY <2>3 DEF ListedErrors, TurnstileGuard, FieldError
    <2>5. QED
        BY <2>2, <2>4
<1>5. ConfirmedOnce
    <2>1. Promised + (IF Redirected THEN 1 ELSE 0) <= Cardinality(own)
        BY DEF FormInv, EarnedInv
    <2>2. confirmed \in Nat /\ Cardinality(own) \in Nat
        BY FS_CardinalityType DEF FormInv, FormTypes, EarnedInv
    <2>3. QED
        BY <2>1, <2>2 DEF Promised, ConfirmedOnce
<1>6. QED
    BY <1>1, <1>2, <1>3, <1>4, <1>5 DEF ApplyInv

-----------------------------------------------------------------------------
PagesIInv == RailInv /\ CoversInv /\ TactileInv /\ FormInv

LEMMA PagesKept == Spec => []PagesIInv
<1>1. Init => PagesIInv
    BY FramesStart, FormStart DEF PagesIInv
<1>2. PagesIInv /\ [Next]_vars => PagesIInv'
    BY RailNext, CoversNext, TactileNext, FormNext DEF PagesIInv
<1>3. QED
    BY <1>1, <1>2, PTL DEF Spec

\* What the visitor is told and shown agrees with what happened: the widget is
\* the mounted page's, the form is busy while its POST is under way, a
\* confirmation follows a registration and a refusal is explained; the rail
\* stays in its loop, covers load around the record on screen and an element no
\* pointer is over rests.
THEOREM PagesTellTheTruth == Spec => []PagesInv
<1>1. PagesIInv => PagesInv
    BY FramesHold, FormHolds DEF PagesIInv, PagesInv
<1>2. QED
    BY <1>1, PagesKept, PTL

\* Listener, widget, request, frames and loads end with the page they are of.
THEOREM CallbacksEndWithThePage == Spec => []NothingOutlivesItsPage
<1>1. PagesIInv => NothingOutlivesItsPage
    <2> SUFFICES ASSUME PagesIInv PROVE NothingOutlivesItsPage
        OBVIOUS
    <2>1. ASSUME place # "apply"
          PROVE  /\ form.mount = 0 /\ listening = {}
                 /\ \A m \in Mounts : widget[m] = "none"
                 /\ \A s \in Slots : requests[s].mount = 0
        <3>1. form.mount = 0
            BY <2>1 DEF PagesIInv, FormInv, PlaceInv
        <3>2. \A m \in Mounts : m \notin listening /\ widget[m] = "none"
            BY <3>1, FormBounds DEF PagesIInv, FormInv, WidgetIsMounted
        <3>3. listening \subseteq Mounts
            BY DEF PagesIInv, FormInv, FormTypes, ApplyTypeOK
        <3>4. \A s \in Slots : requests[s].mount = 0
            BY <3>1 DEF PagesIInv, FormInv, OneWaits
        <3>5. QED
            BY <3>1, <3>2, <3>3, <3>4
    <2>2. place # "explore" => ~rail.frame
        BY DEF PagesIInv, RailInv, NoRail
    <2>3. place # "crate" => \A d \in idle : d.aborted
        BY DEF PagesIInv, CoversInv
    <2>4. place # "tactile" => tactile.frame = NoFrame
        BY DEF PagesIInv, TactileInv, AtRest
    <2>5. QED
        BY <2>1, <2>2, <2>3, <2>4 DEF NothingOutlivesItsPage
<1>2. QED
    BY <1>1, PagesKept, PTL

\* However many answers are lost and pages loaded again, a registration of this
\* browser is confirmed once at most.
THEOREM ConfirmationsAreEarned == Spec => []ConfirmedOnce
<1>1. PagesIInv => ConfirmedOnce
    BY FormHolds DEF PagesIInv
<1>2. QED
    BY <1>1, PagesKept, PTL
=============================================================================
