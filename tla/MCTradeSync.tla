----------------------------- MODULE MCTradeSync -----------------------------
(***************************************************************************)
(* Instances of TradeSync for TLC.                                         *)
(***************************************************************************)
EXTENDS TradeSync
=============================================================================
