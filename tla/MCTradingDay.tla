---------------------------- MODULE MCTradingDay ----------------------------
(* Small instances of TradingDay for TLC.                                  *)
EXTENDS TradingDay

(* Two sessions in a row, a weekend day, a holiday, and a session again.   *)
LongWeekend ==
  [d \in 0..4 |-> CASE d = 2 -> "weekend" [] d = 3 -> "holiday" [] OTHER -> "trading"]
=============================================================================
