-------------------------- MODULE MCTradingEngine --------------------------
(***************************************************************************)
(* Values for TLC: net results of a sale, what a refresh sees of a market. *)
(***************************************************************************)
EXTENDS TradingEngine

Flat       == {0}
LossOrFlat == {-1, 0}

LookOf(turnover, warned, edge, cheap) ==
  [turnover |-> turnover, warned |-> warned, edge |-> edge, cheap |-> cheap]

OneLook   == {LookOf(1, FALSE, 1, TRUE)}
SomeLooks == {LookOf(2, FALSE, 1, TRUE), LookOf(1, FALSE, 2, TRUE), LookOf(0, FALSE, 1, TRUE),
              LookOf(2, TRUE, 2, TRUE), LookOf(2, FALSE, 0, TRUE), LookOf(2, FALSE, 1, FALSE)}
============================================================================
