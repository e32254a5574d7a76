--------------------------- MODULE MCTradeHistory ---------------------------
(* TradeHistory with the engine's limits, over one day.                    *)
EXTENDS TradeHistory
=============================================================================
