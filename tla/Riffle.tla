------------------------------- MODULE Riffle -------------------------------
(***************************************************************************)
(* The arithmetic of browsing: a drag on a card or on a page of the wall,  *)
(* the move from one record of a crate to the next, the cards laid out     *)
(* around the active one, the pages of the wall and the tab an arrow key   *)
(* goes to.                                                                *)
(***************************************************************************)
EXTENDS Integers, Sequences, FiniteSets

Directions == { "front", "deeper" }

AbsVal(n) == IF n < 0 THEN -n ELSE n

ClampIndex(i, max) == IF i < 0 THEN 0 ELSE IF i > max THEN max ELSE i

-----------------------------------------------------------------------------
(* Drags, in pixels and pixels per second: [x, y, vx, vy].                 *)

DirectionFromVertical(v) == IF v > 0 THEN "deeper" ELSE "front"

VelocityExceedsThreshold(absY, vy) == absY >= 10 /\ AbsVal(vy) >= 300

\* The directions a drag moves to: none when it is mostly horizontal, or
\* neither long nor fast enough.
ResolveRiffleDrag(d) ==
    IF AbsVal(d.x) > AbsVal(d.y) THEN {}
    ELSE IF AbsVal(d.y) >= 72 THEN { DirectionFromVertical(d.y) }
    ELSE IF VelocityExceedsThreshold(AbsVal(d.y), d.vy)
    THEN { DirectionFromVertical(d.vy) }
    ELSE {}

SwipePower(d) == AbsVal(d.x) * d.vx

\* The pages a swipe goes to.
ComputeSwipeDirection(power, pageIndex, pageCount) ==
    IF power > 8000 /\ pageIndex > 0 THEN { pageIndex - 1 }
    ELSE IF power < -8000 /\ pageIndex < pageCount - 1 THEN { pageIndex + 1 }
    ELSE {}

-----------------------------------------------------------------------------
(* Crates.                                                                 *)

RiffleDelta(dir) == IF dir = "front" THEN -1 ELSE 1

ResolveRiffleMove(index, total, dir) ==
    LET next  == index + RiffleDelta(dir)
        moved == total > 0 /\ next >= 0 /\ next < total
    IN  [moved |-> moved, next |-> IF moved THEN next ELSE index]

\* The positions of the cards around the active one.
BuildCrateWindow(total, active, radius) ==
    IF total = 0 THEN {}
    ELSE LET c == ClampIndex(active, total - 1)
         IN  ClampIndex(c - radius, total - 1) .. ClampIndex(c + radius, total - 1)

\* The arrow keys go round the tabs.
ResolveNextIndex(count, i, forward) ==
    IF forward THEN (i % count) + 1 ELSE ((i + count - 2) % count) + 1

-----------------------------------------------------------------------------
(* The wall.                                                               *)

\* Pages of a chunk of records each; the last one may be shorter.
PageCount(total, chunk) == IF total = 0 THEN 0 ELSE (total + chunk - 1) \div chunk

ChunkRecords(total, chunk, pageIndex) ==
    { r \in 0 .. total - 1 : r \div chunk = pageIndex }

ClampPageIndex(pageCount, pageIndex) ==
    IF pageCount = 0 \/ pageIndex <= pageCount - 1 THEN pageIndex ELSE pageCount - 1
=============================================================================
