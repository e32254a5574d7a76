----------------------------- MODULE Portfolio -----------------------------
(***************************************************************************)
(* The exposure limits of RiskEngine.validate over many proposals: each    *)
(* decision is taken on an AccountState read earlier, while orders of the  *)
(* other process, or of the same scan, are still on their way to becoming  *)
(* positions at Alpaca.                                                    *)
(*                                                                         *)
(* Prices and equity do not move here: the limits are checked when an      *)
(* order is sent, and nothing promises them after the market has moved.    *)
(***************************************************************************)
EXTENDS Sizing, FiniteSetsExt

CONSTANTS
  Etfs,        \* SYMBOLS of the trend scan
  Stocks,      \* the whitelist, for mean reversion and the LLM
  SectorOf,    \* SECTOR_MAP
  Price,       \* ticker -> price
  Stops,       \* distances between a price and the stop proposed for it
  Levels,      \* stops the LLM proposes for a ticker whose quote then fails
  Equity,      \* the account's equity
  Allocation,  \* settings.sleeve_allocation, in percent
  LLMSides,    \* the sides the LLM proposes
  MaxOrders    \* bound: orders that are ever sent

Tickers == Etfs \cup Stocks
Sleeves == {"trend", "mean_reversion", "discretionary"}
Runners == {"app", "worker"}
Orders == 1..MaxOrders

ASSUME PortfolioAssumption ==
  /\ Etfs \cap Stocks = {}
  /\ IsFiniteSet(Tickers)
  /\ Price \in [Tickers -> Nat \ {0}]
  /\ Stops \subseteq Nat \ {0}
  /\ Levels \subseteq Nat \ {0}
  /\ Equity \in Nat
  /\ Allocation \in [Sleeves -> 0..100]
  /\ LLMSides \subseteq Sides
  /\ MaxOrders \in Nat

VARIABLES
  shares,   \* the position in each ticker at Alpaca, negative when short
  sent,     \* how many orders have been sent
  open,     \* order -> what of it is not filled yet
  held,     \* the AccountState each runner decides on: its positions
  todo,     \* the tickers each runner still has a proposal for
  sleeve,   \* the sleeve of those proposals
  sold,     \* history: the tickers that were sold
  missed,   \* history: ticker -> its buys decided on a state that had missed
            \* a share or an open order of its sector
  discount  \* history: ticker -> by how much its buys were valued too low

history == <<sold, missed, discount>>
vars == <<shares, sent, open, held, todo, sleeve, history>>

Free == [ticker |-> "none", side |-> "buy", left |-> 0]

TypeOK ==
  /\ shares \in [Tickers -> Int]
  /\ sent \in 0..MaxOrders
  /\ open \in [Orders -> [ticker : Tickers \cup {"none"}, side : Sides, left : Nat]]
  /\ \A o \in Orders : open[o] # Free => open[o].ticker \in Tickers /\ open[o].left > 0
  /\ held \in [Runners -> [Tickers -> Int]]
  /\ todo \in [Runners -> SUBSET Tickers]
  /\ sleeve \in [Runners -> Sleeves]
  /\ sold \subseteq Tickers
  /\ missed \in [Tickers -> Nat]
  /\ discount \in [Tickers -> Nat]

(* The sum of f over S.                                                    *)
Total(f, S) == MapThenSumSet(LAMBDA x : f[x], S)

Nothing == [t \in Tickers |-> 0]

Init ==
  /\ shares = Nothing
  /\ sent = 0
  /\ open = [o \in Orders |-> Free]
  /\ held = [r \in Runners |-> Nothing]
  /\ todo = [r \in Runners |-> {}]
  /\ sleeve = [r \in Runners |-> "discretionary"]
  /\ sold = {}
  /\ missed = Nothing
  /\ discount = Nothing

-----------------------------------------------------------------------------
(* RiskEngine.validate, in its order; exposures are those of the state.    *)

Exposure(state, t) == state[t] * Price[t]

Sectors == {SectorOf[t] : t \in Tickers}
Sector(s) == {t \in Tickers : SectorOf[t] = s}

SectorExposure(state, s) == Total([t \in Tickers |-> Exposure(state, t)], Sector(s))

(* Mutant of UnderTickerCap: the position held already is not counted.     *)
UnderTickerCapAlone(state, t, value) == 100 * value <= MaxSingleTicker * Equity

UnderTickerCap(state, t, value) ==
  100 * (Exposure(state, t) + value) <= MaxSingleTicker * Equity

(* Mutant of UnderSectorCap: the ticker's own position stands for all.     *)
UnderSectorCapOwn(state, t, value) == 100 * (Exposure(state, t) + value) <= 40 * Equity

UnderSectorCap(state, t, value) ==
  100 * (SectorExposure(state, SectorOf[t]) + value) <= 40 * Equity

(* The sleeve's exposure is summed over the positions table, which nothing *)
(* writes: every order is compared with the whole of its sleeve.           *)
SleeveExposure == 0

UnderSleeveCap(name, value) ==
  /\ Allocation[name] > 0
  /\ 100 * (SleeveExposure + value) <= Allocation[name] * Equity

(* Mutant of Approved: a stop too far for one share is not refused.        *)
ApprovedEmpty(state, t, name, qty, entry) ==
  LET value == qty * entry
  IN /\ UnderTickerCap(state, t, value)
     /\ UnderSectorCap(state, t, value)
     /\ UnderSleeveCap(name, value)

(* The order is valued at the entry of the proposal, and its value added   *)
(* whatever the side: a sell counts as exposure too.                       *)
Approved(state, t, name, qty, entry) ==
  LET value == qty * entry
  IN /\ UnderTickerCap(state, t, value)
     /\ UnderSectorCap(state, t, value)
     /\ UnderSleeveCap(name, value)
     /\ qty >= 1

-----------------------------------------------------------------------------
(* The runners.                                                            *)

Idle(r) == todo[r] = {}

(* get_account_state: positions, whatever orders are open.                 *)
Begin(r, tickers, name) ==
  /\ Idle(r)
  /\ held' = [held EXCEPT ![r] = shares]
  /\ todo' = [todo EXCEPT ![r] = tickers]
  /\ sleeve' = [sleeve EXCEPT ![r] = name]
  /\ UNCHANGED <<shares, sent, open, history>>

(* A scan reads the state once and decides on all of its signals.  Under   *)
(* the bound only the trend scan goes on once no order can follow.         *)
BeginTrend == \E ts \in SUBSET Etfs \ {{}} : Begin("worker", ts, "trend")

BeginReversion ==
  sent < MaxOrders /\ \E ts \in SUBSET Stocks \ {{}} : Begin("worker", ts, "mean_reversion")

(* A consumer, or the app for an approved proposal, reads it for each.     *)
BeginProposal(r) ==
  sent < MaxOrders /\ \E t \in Stocks : Begin(r, {t}, "discretionary")

(* Every share of t there may be once the open buys have filled.           *)
Buying(t, o) == IF open[o].ticker = t /\ open[o].side = "buy" THEN open[o].left ELSE 0
Reach(t) == shares[t] + Total([o \in Orders |-> Buying(t, o)], Orders)

(* The state holds every share that t's sector may reach.                  *)
Current(state, t) == \A u \in Sector(SectorOf[t]) : state[u] >= Reach(u)

Decided(r, t) ==
  /\ todo' = [todo EXCEPT ![r] = @ \ {t}]
  /\ IF todo[r] = {t}
     THEN held' = [held EXCEPT ![r] = Nothing] /\ sleeve' = [sleeve EXCEPT ![r] = "discretionary"]
     ELSE UNCHANGED <<held, sleeve>>

(* Whitelist, window, history and breaker may refuse any proposal, and so  *)
(* may Alpaca.                                                             *)
Refuse(r, t) ==
  /\ t \in todo[r]
  /\ Decided(r, t)
  /\ UNCHANGED <<shares, sent, open, history>>

SidesOf(name) == IF name = "discretionary" THEN LLMSides ELSE {"buy"}

(* Entry and stop of a proposal: the last price, or the close of a scan.   *)
(* When its quote fails a consumer takes an entry 5% above the stop, which *)
(* is the LLM's and may be far from the price; the app gives up.           *)
Priced(t) == [entry : {Price[t]}, stop : {Price[t] - distance : distance \in Stops}]
Unpriced == {[entry |-> (105 * level) \div 100, stop |-> level] : level \in Levels}

Terms(r, t) ==
  Priced(t) \cup (IF r = "worker" /\ sleeve[r] = "discretionary" THEN Unpriced ELSE {})

(* What a decision to buy, on this state and with this entry, leaves out.  *)
Note(state, t, qty, entry) ==
  /\ missed' = IF Current(state, t) THEN missed ELSE [missed EXCEPT ![t] = @ + 1]
  /\ discount' = [discount EXCEPT ![t] = @ + qty * NotNegative(Price[t] - entry)]
  /\ UNCHANGED sold

Order(r, t) ==
  /\ t \in todo[r] /\ sent < MaxOrders
  /\ sent' = sent + 1
  /\ \E side \in SidesOf(sleeve[r]), terms \in Terms(r, t) :
       LET qty == SizePosition(Equity, terms.entry, terms.stop)
       IN /\ Approved(held[r], t, sleeve[r], qty, terms.entry)
          /\ open' = [open EXCEPT ![sent'] = [ticker |-> t, side |-> side, left |-> qty]]
          /\ IF side = "buy" THEN Note(held[r], t, qty, terms.entry)
             ELSE sold' = sold \cup {t} /\ UNCHANGED <<missed, discount>>
  /\ Decided(r, t)
  /\ UNCHANGED shares

-----------------------------------------------------------------------------
(* Alpaca.                                                                 *)

Signed(side, n) == IF side = "buy" THEN n ELSE -n

(* What is left of an order after a fill of n shares.                      *)
Filled(order, n) == IF n = order.left THEN Free ELSE [order EXCEPT !.left = @ - n]

Fill(o) ==
  /\ open[o] # Free
  /\ \E n \in 1..open[o].left :
       /\ shares' = [shares EXCEPT ![open[o].ticker] = @ + Signed(open[o].side, n)]
       /\ open' = [open EXCEPT ![o] = Filled(@, n)]
  /\ UNCHANGED <<sent, held, todo, sleeve, history>>

Cancel(o) ==
  /\ open[o] # Free
  /\ open' = [open EXCEPT ![o] = Free]
  /\ UNCHANGED <<shares, sent, held, todo, sleeve, history>>

(* A leg, the position monitor or the operator closes the position.        *)
Close(t) ==
  /\ shares[t] # 0
  /\ shares' = [shares EXCEPT ![t] = 0]
  /\ UNCHANGED <<sent, open, held, todo, sleeve, history>>

-----------------------------------------------------------------------------
Run(r) ==
  \/ r = "worker" /\ (BeginTrend \/ BeginReversion)
  \/ BeginProposal(r)
  \/ \E t \in Tickers : Refuse(r, t) \/ Order(r, t)

Next ==
  \/ \E r \in Runners : Run(r)
  \/ \E o \in Orders : Fill(o) \/ Cancel(o)
  \/ \E t \in Tickers : Close(t)

Spec == Init /\ [][Next]_vars

-----------------------------------------------------------------------------
(* Safety, for what was never sold: a sale may leave a short position,     *)
(* which the engine nets against what is still to be bought.               *)

(* What t may reach is worth, less what its buys were valued too low.      *)
Valued(t) == Reach(t) * Price[t] - discount[t]

(* A ticker takes at most 20% of equity, open orders included, and at most *)
(* as much again for each buy decided on a state that had missed something;*)
(* what goes beyond that is no more than its buys were valued too low.     *)
TickerCapped ==
  \A t \in Tickers \ sold : 100 * Valued(t) <= MaxSingleTicker * Equity * (1 + missed[t])

Missed(s) == Total(missed, Sector(s))

(* A sector takes at most 40%, and 20% for each such buy in it, but for    *)
(* what its buys were valued too low.                                      *)
SectorCapped ==
  \A s \in Sectors :
    Sector(s) \cap sold = {} =>
      100 * Total([t \in Tickers |-> Valued(t)], Sector(s))
        <= (40 + MaxSingleTicker * Missed(s)) * Equity

(* Why they hold: what was never sold is not short, nor in any state, and  *)
(* the book has no entry for an order that was not sent.                   *)
LongOnly ==
  \A t \in Tickers \ sold :
    /\ shares[t] >= 0
    /\ \A r \in Runners : held[r][t] >= 0
    /\ \A o \in Orders : open[o].ticker = t => open[o].side = "buy"

Unsent == \A o \in Orders : o > sent => open[o] = Free

IInv == TypeOK /\ LongOnly /\ Unsent /\ TickerCapped /\ SectorCapped
=============================================================================
