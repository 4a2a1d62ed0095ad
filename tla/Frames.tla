------------------------------- MODULE Frames -------------------------------
(***************************************************************************)
(* What pages leave with the browser to be called later: the animation     *)
(* frames of the rail of featured records and of an element that follows   *)
(* the pointer, and the idle callbacks that preload the covers of a crate. *)
(***************************************************************************)
EXTENDS Riffle

CONSTANTS
    TrackWidth,  \* half of the rail's width, in frames of its speed
    Sizes,       \* the number of records of each crate
    Proximities  \* bound: distances from the centre that are told apart

ASSUME FramesAssumption ==
    /\ TrackWidth \in Nat \ {0} /\ Proximities \in Nat \ {0}
    /\ Sizes \in Seq(Nat) /\ Len(Sizes) > 0

VARIABLES
    rail,     \* FeaturedRecordsRail
    view,     \* the crate on screen and the index in it
    idle,     \* covers whose load waits for an idle moment
    tactile   \* useTactileHover, with the preference for reduced motion it mounts with

frameVars == <<rail, view, idle, tactile>>

Crates   == 1 .. Len(Sizes)
Pointers == { "mouse", "touch" }
NoFrame  == -1

\* width: 0 until the first frame that moves; frame: one is requested.
NoRail    == [track |-> FALSE, pos |-> 0, width |-> 0, paused |-> FALSE, frame |-> FALSE]
NoView    == [crate |-> 0, index |-> 0]
AtRest    == [mounted |-> FALSE, reduced |-> FALSE, over |-> {}, isTouch |-> FALSE,
              proximity |-> 0, frame |-> NoFrame, isPressed |-> FALSE]

FramesTypeOK ==
    /\ rail \in [track : BOOLEAN, pos : -TrackWidth .. 0, width : { 0, TrackWidth },
                 paused : BOOLEAN, frame : BOOLEAN]
    /\ view \in [crate : Crates \cup { 0 }, index : Nat]
    /\ \A d \in idle : d \in [crate : Crates, record : Nat, aborted : BOOLEAN]
    /\ tactile \in [mounted : BOOLEAN, reduced : BOOLEAN, over : SUBSET Pointers,
                    isTouch : BOOLEAN, proximity : 0 .. Proximities,
                    frame : { NoFrame } \cup 0 .. Proximities, isPressed : BOOLEAN]

FramesInit ==
    rail = NoRail /\ view = NoView /\ idle = {} /\ tactile = AtRest

-----------------------------------------------------------------------------
(* The rail.                                                               *)

\* Without records there is no track, but the frames go on.
MountRail(track) ==
    /\ ~rail.frame
    /\ rail' = [NoRail EXCEPT !.track = track, !.frame = TRUE]

CancelRail == rail' = NoRail

\* One round of the loop is one width; the first one brings it back to 0.
Wrap(pos, width) == IF width > 0 /\ pos <= -width THEN pos + width ELSE pos

\* Each frame asks for the next.
Animate ==
    /\ rail.frame /\ rail.track /\ ~rail.paused
    /\ rail' = [rail EXCEPT !.width = TrackWidth, !.pos = Wrap(rail.pos - 1, TrackWidth)]
    /\ UNCHANGED <<view, idle, tactile>>

HandleMouse(enters) ==
    /\ rail.track /\ rail.paused # enters
    /\ rail' = [rail EXCEPT !.paused = enters]
    /\ UNCHANGED <<view, idle, tactile>>

-----------------------------------------------------------------------------
(* Preloading.                                                             *)

PreloadRadius == 3

\* The covers next to the one shown load at once; these wait for idle time.
Deferred(crate, index) ==
    { [crate |-> crate, record |-> r, aborted |-> FALSE] : r \in
        { q \in 0 .. Sizes[crate] - 1 : AbsVal(q - index) \in 2 .. PreloadRadius } }

\* The cleanup of the effect: the callbacks come all the same.
Abort == { [d EXCEPT !.aborted = TRUE] : d \in idle }

\* The effect runs for new records or a new index.
UsePreload(crate, index) ==
    /\ view' = [crate |-> crate, index |-> index]
    /\ idle' = Abort \cup Deferred(crate, index)

\* A crate opens, or takes the place of another.
ShowCrate(crate) == view.crate # crate /\ UsePreload(crate, 0)

NavigateTo(dir) ==
    /\ view.crate # 0
    /\ LET move == ResolveRiffleMove(view.index, Sizes[view.crate], dir)
       IN  move.moved /\ UsePreload(view.crate, move.next)
    /\ UNCHANGED <<rail, tactile>>

CloseCrate == view' = NoView /\ idle' = Abort

\* The callback, which loads the cover unless its signal is aborted.
RunIdle ==
    /\ \E d \in idle : idle' = idle \ { d }
    /\ UNCHANGED <<rail, view, tactile>>

-----------------------------------------------------------------------------
(* The pointer.                                                            *)

MountTactile(reduced) ==
    /\ ~tactile.mounted
    /\ tactile' = [AtRest EXCEPT !.mounted = TRUE, !.reduced = reduced]

\* Nothing of it is left but the frame, which the cleanup cancels.
UnmountTactile == tactile' = AtRest

\* 1 at the centre, 0 from a distance on that lies outside the element, in
\* Proximities-ths.
ComputeProximityFromRect(dist) == IF dist < Proximities THEN Proximities - dist ELSE 0

\* A touch or a pen counts as touch until the next pointer enters.
ProcessPointerEnter(p, dist) ==
    IF tactile.reduced THEN [isTouch |-> FALSE, proximity |-> 0]
    ELSE IF p # "mouse" THEN [isTouch |-> TRUE, proximity |-> 0]
    ELSE [isTouch |-> FALSE, proximity |-> ComputeProximityFromRect(dist)]

PointerEnter(p, dist) ==
    /\ tactile.mounted /\ p \notin tactile.over
    /\ LET r == ProcessPointerEnter(p, dist)
       IN  tactile' = [tactile EXCEPT !.over = @ \cup { p }, !.isTouch = r.isTouch,
                                      !.proximity = r.proximity]

\* A later move replaces the frame of an earlier one.
ResolveMoveRaf(dist) ==
    IF tactile.reduced \/ tactile.isTouch THEN tactile.frame
    ELSE ComputeProximityFromRect(dist)

PointerMove(p, dist) ==
    /\ p \in tactile.over
    /\ tactile' = [tactile EXCEPT !.frame = ResolveMoveRaf(dist)]

ProximityFrame ==
    /\ tactile.frame # NoFrame
    /\ tactile' = [tactile EXCEPT !.proximity = tactile.frame, !.frame = NoFrame]

\* Leave that does not cancel the frame.
LeaveMutant(t) == [t EXCEPT !.proximity = 0, !.isPressed = FALSE]

\* Leaving cancels the frame and releases the press.
Leave(t) == [t EXCEPT !.proximity = 0, !.frame = NoFrame, !.isPressed = FALSE]

PointerLeave(p) ==
    /\ p \in tactile.over
    /\ tactile' = [Leave(tactile) EXCEPT !.over = @ \ { p }]

PointerDown(p) ==
    /\ p \in tactile.over /\ ~tactile.reduced
    /\ tactile' = [tactile EXCEPT !.isPressed = TRUE]

PointerUp(p) ==
    /\ p \in tactile.over
    /\ tactile' = [tactile EXCEPT !.isPressed = FALSE]

FollowPointer ==
    /\ \/ \E p \in Pointers, dist \in 0 .. Proximities - 1 :
            PointerEnter(p, dist) \/ PointerMove(p, dist)
       \/ \E p \in Pointers : PointerLeave(p) \/ PointerDown(p) \/ PointerUp(p)
       \/ ProximityFrame
    /\ UNCHANGED <<rail, view, idle>>

\* The target of the animation: tilted by what is left of the way to the
\* centre, larger and lifted by what is done of it.
ComputeTransform(t) ==
    IF t.reduced THEN [rotate |-> 0, scale |-> 0, y |-> 0]
    ELSE [rotate |-> Proximities - t.proximity,
          scale  |-> IF t.isPressed THEN -1 ELSE t.proximity,
          y      |-> -t.proximity]

FramesStep ==
    \/ Animate
    \/ \E enters \in BOOLEAN : HandleMouse(enters)
    \/ \E dir \in Directions : NavigateTo(dir)
    \/ RunIdle
    \/ FollowPointer

-----------------------------------------------------------------------------
\* The rail stays within its loop.
RailIsInLoop == -TrackWidth < rail.pos /\ (rail.pos # 0 => rail.width # 0)

\* A cover that will still be loaded, whatever was shown before, lies around the
\* record on screen.
PreloadsAreNear ==
    \A d \in idle : ~d.aborted =>
        d.crate = view.crate /\ AbsVal(d.record - view.index) \in 2 .. PreloadRadius

\* An element no pointer is over is, and remains, as if none had been: no frame
\* of the last move comes after it.  With reduced motion nothing ever moves.
RestsAlone ==
    /\ tactile.over = {} =>
         tactile.frame = NoFrame /\
         ComputeTransform(tactile) = ComputeTransform([AtRest EXCEPT !.reduced = tactile.reduced])
    /\ tactile.reduced => tactile.frame = NoFrame /\ tactile.proximity = 0 /\ ~tactile.isPressed

FramesInv ==
    /\ FramesTypeOK
    /\ RailIsInLoop
    /\ PreloadsAreNear
    /\ RestsAlone
=============================================================================
