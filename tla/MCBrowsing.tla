----------------------------- MODULE MCBrowsing -----------------------------
(***************************************************************************)
(* A wall of two records and two crates.  The next day one crate has       *)
(* become a genre, which there was none of before, and the other is empty. *)
(* Addresses of the floor, a crate and a record.  That of the crate has a  *)
(* fragment, so that the skip link replaces its entry and a history of two *)
(* has room for a crate above it.                                          *)
(***************************************************************************)
EXTENDS Browsing

CONSTANTS w, a, d

MCSize(empty) == [s \in Slugs |-> CASE s \in empty -> 0 [] s = d -> 1 [] OTHER -> 2]

MCCatalogs ==
    { [busy |-> FALSE, wall |-> w, featured |-> <<a, d>>, genres |-> <<>>,
       size |-> MCSize({})],
      [busy |-> FALSE, wall |-> w, featured |-> <<d>>, genres |-> <<a>>,
       size |-> MCSize({ d })] }

MCLinks ==
    { NoEntry, [NoEntry EXCEPT !.url = a, !.hash = TRUE], [NoEntry EXCEPT !.highlight = TRUE] }

MCGestures ==
    { [x |-> 0, y |-> 72, vx |-> 0, vy |-> 0],
      [x |-> 0, y |-> -10, vx |-> 0, vy |-> -300],
      [x |-> -100, y |-> 90, vx |-> -90, vy |-> 0],
      [x |-> 100, y |-> 90, vx |-> 90, vy |-> 0] }
=============================================================================
