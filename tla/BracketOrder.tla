---------------------------- MODULE BracketOrder ----------------------------
(***************************************************************************)
(* One proposal's way from its levels to the bracket order at Alpaca:      *)
(* a strategy or the LLM proposes stop and target, a quote or a fallback   *)
(* gives the entry, the risk engine sizes the position with the proposed   *)
(* stop, and the order is sent with the reconciled one.                    *)
(***************************************************************************)
EXTENDS Sizing

CONSTANTS
  Prices,       \* what a share may trade at
  Levels,       \* what the LLM may propose as a stop or as a target
  Equities,     \* the account's equity when the state is read
  PriceFloor    \* no listed share trades below it

ASSUME PriceAssumption ==
  /\ PriceFloor \in Nat /\ PriceFloor >= 25 * Cent
  /\ Prices \subseteq {p \in Nat : p >= PriceFloor}
ASSUME LevelAssumption == Levels \subseteq {l \in Nat : l > 0}
ASSUME EquityAssumption == Equities \subseteq Int

VARIABLES
  step,    \* "start", "proposed", "priced", "sized", "sent" or "refused"
  source,  \* who proposed: "llm", "trend" or "reversion"
  side, stop, target,   \* the proposal
  entry,   \* entry_price of ProposalIn
  equity,  \* AccountState.equity
  qty,     \* SizedProposal.qty
  order    \* the levels of the order at Alpaca

vars == <<step, source, side, stop, target, entry, equity, qty, order>>

Steps == {"start", "proposed", "priced", "sized", "sent", "refused"}
NoOrder == [stop |-> NoLevel, target |-> NoLevel]

TypeOK ==
  /\ step \in Steps
  /\ source \in {"llm", "trend", "reversion"}
  /\ side \in Sides
  /\ stop \in Nat /\ target \in Nat /\ entry \in Nat
  /\ equity \in Int
  /\ qty \in Nat
  /\ order \in [stop : Nat, target : Nat]

Init ==
  /\ step = "start" /\ source = "llm" /\ side = "buy"
  /\ stop = NoLevel /\ target = NoLevel /\ entry = 0
  /\ equity = 0 /\ qty = 0 /\ order = NoOrder

-----------------------------------------------------------------------------
(* The LLM's levels are blind to the quote.                                *)
ProposeLLM ==
  /\ step = "start"
  /\ step' = "proposed" /\ source' = "llm"
  /\ side' \in Sides /\ stop' \in Levels /\ target' \in Levels \cup {NoLevel}
  /\ UNCHANGED <<entry, equity, qty, order>>

(* Golden cross: the close is above SMA(200), which is the stop; the entry *)
(* is the close, not a quote.                                              *)
ProposeTrend ==
  /\ step = "start"
  /\ \E close, sma \in Prices : sma < close /\ entry' = close /\ stop' = sma
  /\ step' = "priced" /\ source' = "trend" /\ side' = "buy" /\ target' = NoLevel
  /\ UNCHANGED <<equity, qty, order>>

(* RSI(2) under 10: the close is above SMA(200), which is the target; the  *)
(* stop is 2% under the lowest of the last five closes.                    *)
ProposeReversion ==
  /\ step = "start"
  /\ \E close, sma, low \in Prices :
       /\ sma < close /\ low <= close
       /\ entry' = close /\ target' = sma
       /\ stop' = (98 * low) \div 100
       /\ stop' < close
  /\ step' = "priced" /\ source' = "reversion" /\ side' = "buy"
  /\ UNCHANGED <<equity, qty, order>>

(* latest_trade_price.                                                     *)
Quote ==
  /\ step = "proposed"
  /\ entry' \in Prices
  /\ step' = "priced"
  /\ UNCHANGED <<source, side, stop, target, equity, qty, order>>

(* The consumers' fallback: 5% above the stop, for a sell as well.         *)
QuoteFails ==
  /\ step = "proposed"
  /\ entry' = (105 * stop) \div 100
  /\ step' = "priced"
  /\ UNCHANGED <<source, side, stop, target, equity, qty, order>>

(* RiskEngine.validate, with its limits of account and history left to     *)
(* Portfolio: they may refuse any proposal.                                *)
Size ==
  /\ step = "priced"
  /\ equity' \in Equities
  /\ qty' = SizePosition(equity', entry, stop)
  /\ step' = IF qty' < 1 THEN "refused" ELSE "sized"
  /\ UNCHANGED <<source, side, stop, target, entry, order>>

(* submit_bracket: reconcile_bracket, then the market order.               *)
Send ==
  /\ step = "sized"
  /\ order' = [stop |-> ReconcileStop(side, entry, stop),
               target |-> ReconcileTarget(side, entry, target)]
  /\ step' = "sent"
  /\ UNCHANGED <<source, side, stop, target, entry, equity, qty>>

(* The next proposal.                                                      *)
Finish ==
  /\ step \in {"sized", "sent", "refused"}
  /\ step' = "start" /\ source' = "llm" /\ side' = "buy"
  /\ stop' = NoLevel /\ target' = NoLevel /\ entry' = 0
  /\ equity' = 0 /\ qty' = 0 /\ order' = NoOrder

Next ==
  \/ ProposeLLM \/ ProposeTrend \/ ProposeReversion
  \/ Quote \/ QuoteFails
  \/ Size \/ Send \/ Finish

Spec == Init /\ [][Next]_vars

-----------------------------------------------------------------------------
(* Every order validly brackets its entry, rounding included: that is what *)
(* Alpaca asks of a bracket.                                               *)
BracketsEntry ==
  step = "sent" /\ entry >= PriceFloor =>
    IF side = "buy" THEN order.stop < entry /\ entry < order.target
    ELSE order.target < entry /\ entry < order.stop

(* The levels that are sent, proposed or replaced and rounded, are no more *)
(* than 15% and 30% from the entry the order was sized with.  That is the  *)
(* live price, and an out-of-date level is replaced, only if there was a   *)
(* quote: the entry made up without one is 5% above the proposed stop,     *)
(* which is then in its band for a buy, however old it is, and is sent.    *)
WithinBands ==
  step = "sent" /\ entry >= PriceFloor =>
    /\ 100 * Distance(entry, order.stop) <= MaxStopDistance * entry
    /\ 100 * Distance(entry, order.target) <= MaxTargetDistance * entry

(* Between entry and the stop that is really sent, an order risks at most  *)
(* 1% of equity, although it was sized with the stop that was proposed.    *)
RiskBounded ==
  step = "sent" /\ entry >= PriceFloor => 100 * qty * Distance(entry, order.stop) <= equity

(* At its entry price a position takes at most 20% of equity.              *)
ExposureBounded == step = "sent" => 5 * qty * entry <= equity
=============================================================================
