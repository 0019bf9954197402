----------------------------- MODULE MCBacktest -----------------------------
(* Sets of entry conditions for TLC: enough for a breakout, and too few.   *)
EXTENDS WalkForward

SomeSigns == {{"channel", "volume"}, {"channel"}}
=============================================================================
