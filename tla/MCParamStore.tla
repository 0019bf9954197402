---------------------------- MODULE MCParamStore ----------------------------
(* Returns of a fold for TLC: a loss and two gains.                        *)
EXTENDS ParamStore

Returns == {-1, 1, 2}
=============================================================================
