------------------------------ MODULE Universe ------------------------------
(***************************************************************************)
(* Which markets are worth trading (build_universe, src/ubbit/universe.py):*)
(* three filters, the cheapest request first, each applied to the best of  *)
(* what the one before it left.                                            *)
(*                                                                         *)
(* A look is what one refresh sees of a market.  turnover is 0 where the   *)
(* market is not listed, is excluded by the configuration, trades less     *)
(* than min_turnover_krw, or its ticker failed; edge is 0 where the candle *)
(* request failed or was too short, or the median ATR is below the cost    *)
(* floor or above atr_max_pct; cheap is FALSE where the book failed, is too*)
(* thin for the probe order or makes a round trip too dear.                *)
(***************************************************************************)
EXTENDS Integers, FiniteSets

CONSTANTS
  TopN,      \* top_n
  Looks      \* the looks a refresh may meet

Look == [turnover : Nat, warned : BOOLEAN, edge : Nat, cheap : BOOLEAN]

ASSUME UniverseConstants == TopN \in Nat \ {0} /\ Looks \subseteq Look

(* The choices of the n markets of S that rank first by the look's field:  *)
(* a sort, then a slice.                                                   *)
Best(n, S, look, field) ==
  {T \in SUBSET S : /\ Cardinality(T) = IF Cardinality(S) < n THEN Cardinality(S) ELSE n
                    /\ \A t \in T, s \in S \ T : look[t][field] >= look[s][field]}

Liquid(look)    == {m \in DOMAIN look : look[m].turnover > 0}
Moving(S, look) == {m \in S : ~look[m].warned /\ look[m].edge > 0}
Cheap(S, look)  == {m \in S : look[m].cheap}

(* What build_universe may answer.  A warned market takes a place among    *)
(* the most liquid and leaves it empty, as one without candles does.       *)
Selections(look) ==
  UNION {UNION {Best(TopN, Cheap(C, look), look, "edge")
                  : C \in Best(3 * TopN, Moving(L, look), look, "edge")}
           : L \in Best(8 * TopN, Liquid(look), look, "turnover")}
=============================================================================
