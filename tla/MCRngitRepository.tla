--------------------------- MODULE MCRngitRepository ---------------------------
(***************************************************************************)
(* RngitRepository with two branches and the commits {x}, {y} and {x, y}:  *)
(* working repositories that are behind, ahead of and beside each other.   *)
(***************************************************************************)
EXTENDS RngitRepository

CONSTANTS main, dev, x, y

Tips(m, d) == [r \in {main, dev} |-> IF r = main THEN m ELSE d]

MCLocals ==
  {[tips |-> Tips({x}, {}), objects |-> {{x}}],
   [tips |-> Tips({y}, {}), objects |-> {{y}}],
   [tips |-> Tips({x, y}, {x}), objects |-> {{x}, {y}, {x, y}}]}
================================================================================
