--------------------------- MODULE MCPositionLife ---------------------------
(* Sets of entry conditions for TLC: those of each entry mode, all but one *)
(* of them, and all.                                                       *)
EXTENDS PositionLife

SomeSigns ==
  {Signs, {"channel", "volume"}, {"dipped", "recovered", "overFast"},
   {"squeezed", "channel", "volume"}, {"dipped", "recovered", "volume"}}
=============================================================================
