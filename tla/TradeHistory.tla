---------------------------- MODULE TradeHistory ----------------------------
(***************************************************************************)
(* The trade history of one ticker, as the risk engine reads it back: the  *)
(* rows of trades, what the order stream writes to them, what the broker   *)
(* does with a position's stop and target legs, and the end-of-day summary *)
(* over the rows.  Time is in hours.  A nullable column is a set of at     *)
(* most one value.                                                         *)
(***************************************************************************)
EXTENDS Integers, Sequences, FiniteSetsExt

CONSTANTS
  RoundTripLimit, \* ROUND_TRIP_LIMIT
  Cooldown,       \* REENTRY_COOLDOWN_HOURS
  Week,           \* seven days
  Day,            \* hours of a day
  MaxTrades,      \* bound on entries
  LastHour        \* bound on the clock

VARIABLES
  now,      \* hours since the first midnight
  trades,   \* the ticker's rows of trades
  entry,    \* trade -> its entry order at the broker: "live", "filled", "dead"
  stops,    \* history: the hours at which a stop leg sold at a loss
  summary   \* day -> its row of daily_summary, at most one

vars == <<now, trades, entry, stops, summary>>

Init ==
  /\ now = 0 /\ trades = <<>> /\ entry = <<>> /\ stops = {}
  /\ summary = [d \in 0..(LastHour \div Day) |-> {}]

-----------------------------------------------------------------------------
(* DBTradeHistory and the two checks of the risk engine on it.             *)

ClosedSince(hour) == {k \in DOMAIN trades : \E c \in trades[k].closed : c >= hour}

RoundTrips == Cardinality(ClosedSince(now - Week))
HadStopLoss == \E k \in ClosedSince(now - Cooldown) : \E p \in trades[k].pnl : p < 0

(* A proposal that passes both is executed.                                *)
Enter ==
  /\ Len(trades) < MaxTrades
  /\ RoundTrips < RoundTripLimit /\ ~HadStopLoss
  /\ trades' = Append(trades, [status |-> "pending", opened |-> now,
                               closed |-> {}, pnl |-> {}])
  /\ entry' = Append(entry, "live")
  /\ UNCHANGED <<now, stops, summary>>

-----------------------------------------------------------------------------
(* The order stream.                                                       *)

(* EVENT_STATUS_MAP, without the events that change nothing.               *)
StatusOf == [partial_fill |-> "partial", fill |-> "filled", canceled |-> "cancelled",
             expired |-> "cancelled", rejected |-> "rejected", stopped |-> "cancelled"]

(* AlpacaOrderStream._handle for an order that has a row.                  *)
Handle(k, event) ==
  trades' = [trades EXCEPT
    ![k].status = StatusOf[event],
    ![k].closed = IF @ = {} /\ StatusOf[event] \in {"cancelled", "rejected"} THEN {now} ELSE @]

(* The broker reports on an entry order; "stopped" promises a fill.        *)
EntryEvent ==
  /\ \E k \in DOMAIN trades : \E event \in DOMAIN StatusOf :
       /\ entry[k] = "live"
       /\ Handle(k, event)
       /\ entry' = [entry EXCEPT ![k] =
            CASE event = "fill" -> "filled"
              [] event \in {"partial_fill", "stopped"} -> "live"
              [] OTHER -> "dead"]
  /\ UNCHANGED <<now, stops, summary>>

(* A leg of the bracket closes the position.  Its order has no row: the    *)
(* handler finds no trade and returns.                                     *)
LegFill ==
  /\ \E k \in DOMAIN trades :
       /\ entry[k] = "filled"
       /\ entry' = [entry EXCEPT ![k] = "dead"]
  /\ stops' = stops \/ stops' = stops \cup {now}
  /\ UNCHANGED <<now, trades, summary>>

-----------------------------------------------------------------------------
(* The end of the day.                                                     *)

Today == now \div Day

(* build_summary: upserts the day's row and writes to no trade.            *)
Summarize ==
  LET fills == {k \in DOMAIN trades : /\ trades[k].opened \div Day = Today
                                      /\ trades[k].status \in {"filled", "partial"}}
      Pnl(k) == IF trades[k].pnl = {} THEN 0 ELSE CHOOSE p \in trades[k].pnl : TRUE
      executed == {k \in DOMAIN trades : trades[k].opened \div Day = Today}
  IN  /\ summary' = [summary EXCEPT ![Today] =
           {[fills |-> Cardinality(fills), pnl |-> MapThenSumSet(Pnl, fills),
             executed |-> Cardinality(executed)]}]
      /\ UNCHANGED <<now, trades, entry, stops>>

Hour ==
  /\ now < LastHour /\ now' = now + 1
  /\ UNCHANGED <<trades, entry, stops, summary>>

Next == Enter \/ EntryEvent \/ LegFill \/ Summarize \/ Hour

Spec == Init /\ [][Next]_vars

(* The re-entry cooldown: no entry while a stop-loss of the ticker is less *)
(* than two hours old.                                                     *)
CooldownAfterStopLoss ==
  [][Len(trades') > Len(trades) => \A s \in stops : s < now - Cooldown]_vars
=============================================================================
