------------------------- MODULE MCBackgroundWork -------------------------
(***************************************************************************)
(* BackgroundWork for TLC: items 1 to 4 come from outside, item 1's        *)
(* function schedules item 5 and item 5's schedules item 6.                *)
(***************************************************************************)
EXTENDS BackgroundWork

MCChildren == [w \in Items |-> CASE w = 1 -> {5} [] w = 5 -> {6} [] OTHER -> {}]
===========================================================================
