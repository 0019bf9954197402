---------------------------- MODULE PositionBook ----------------------------
(***************************************************************************)
(* What the tables positions and trades promise their readers (the page,   *)
(* the next process, its reconciliation), whatever the engine, the         *)
(* exchange and the operating system do (src/ubbit/state.py, as            *)
(* src/ubbit/engine.py and src/ubbit/reconcile.py use it).  TradingEngine  *)
(* is shown to implement it.                                               *)
(*                                                                         *)
(* A market has at most one position.  It is opened where there is none,   *)
(* while there are fewer than max_concurrent; its quantity never rises; a  *)
(* trade is recorded for a position that is there; and the position goes   *)
(* in one commit, with such a trade behind it, never by being lowered.     *)
(***************************************************************************)
EXTENDS Naturals, FiniteSets

CONSTANTS
  Markets,
  MaxConcurrent,
  MaxQty          \* the largest quantity a position is opened with

VARIABLES
  qty,            \* qty of the positions row of a market, 0 for none
  trades          \* trades rows that carry the opened_at of that row

vars == <<qty, trades>>

Held == {m \in Markets : qty[m] > 0}

Init ==
  /\ qty = [m \in Markets |-> 0]
  /\ trades = [m \in Markets |-> 0]

Open(m, q) ==
  /\ qty[m] = 0
  /\ Cardinality(Held) < MaxConcurrent
  /\ qty' = [qty EXCEPT ![m] = q]
  /\ UNCHANGED trades

Lower(m, q) ==
  /\ q < qty[m]
  /\ qty' = [qty EXCEPT ![m] = q]
  /\ UNCHANGED trades

(* A second one where a crash or a failed write came between this and      *)
(* Close, and the coins were found sold, or gone, afterwards.              *)
Record(m) ==
  /\ qty[m] > 0
  /\ trades' = [trades EXCEPT ![m] = @ + 1]
  /\ UNCHANGED qty

Close(m) ==
  /\ qty[m] > 0 /\ trades[m] > 0
  /\ qty' = [qty EXCEPT ![m] = 0]
  /\ trades' = [trades EXCEPT ![m] = 0]

Next ==
  \E m \in Markets :
    \/ \E q \in 1..MaxQty : Open(m, q) \/ Lower(m, q)
    \/ Record(m)
    \/ Close(m)

Spec == Init /\ [][Next]_vars
=============================================================================
