# A formal model of stockanalysier

stockanalysier trades a paper account at Alpaca. Two cron scans and two
LLM-fed consumers propose trades, a risk engine sizes and filters them, an
operator approves the riskier ones on a dashboard, and bracket orders go to
Alpaca. This directory models what may go wrong between those parts:
duplicated orders, rejected proposals that are executed, rows that disagree
with orders, trading when the system has been told to stop, orders outside
their limits.

Paths below are relative to the repository (`src/`). Every definition that
stands for code is listed with its lines under `map` in `PROJECT.json`.

## 1. The system

Three processes and three stores:

| | runs | shares |
|---|---|---|
| **app** | FastAPI: the dashboard's handlers; `async` ones on one event loop, plain ones on a thread pool | Postgres, Redis, Alpaca |
| **worker** | one asyncio loop with APScheduler: cron jobs, interval jobs, two consumers; the order and market streams on threads of alpaca-py | Postgres, Redis, Alpaca |
| **operator** | `scripts/*.py`, a browser with pages that do not refresh | Redis, the app |

Almost nothing on the worker's and the app's path really suspends: SQLAlchemy,
redis-py and alpaca-py are called synchronously inside `async` functions.
So one process is one sequential actor there; the exceptions are the LLM call,
`asyncio.sleep`, and the threads. Races are between processes, not inside one.

### Components

**Proposal and trade lifecycle** (`app/models`, `app/risk/persistence.py`).
State: rows of `trade_proposals` (tier, `rejected_reason`, `created_at`) and of
`trades` (Alpaca order id, status, `closed_at`). There is no status column on a
proposal: "pending", "executing" and "rejected" are queries over both tables,
written out anew by every reader. Hard: every writer checks by one query and writes by
another statement. Correct when a proposal has at most one live trade, a
rejected one is never sent, an automatic one goes through `submit_order` at most
once.

**Execution service** (`app/execution/service.py`). `submit_bracket` checks the
proposal and its trades, reconciles stop and target, sends the order, *then*
writes the row. Hard: every failure between order and row, and alpaca-py
(0.33.1, `requirements.txt:9`), which repeats a POST answered by 429 or 504
although the request carries no `client_order_id`.

**Order stream** (`app/execution/order_stream.py`). Maps Alpaca's events to
`trades.status`. Hard: events before the row exists, events lost while
disconnected, handlers that raise. Correct when a row never claims more than
its order has reached.

**Tier-3 expiry** (`app/scheduler/expire_stale.py`). Selects stale pending
proposals, then marks them `hitl_timeout`. Hard: an approval between the two;
liveness: a stale card must go.

**Approval dashboard** (`app/dashboard/routes.py`). approve, reject, pending
page, system panel with the kill-switch toggle, history pages. Hard: pages are
stale when clicked; handlers read, then write.

**Kill switch and start-of-day equity** (`app/core/redis.py`,
`app/services/equity.py`, `scripts/kill_switch.py`,
`scripts/snapshot_equity_now.py`). Two Redis keys, both usually with a TTL of
24 hours. A missing baseline engages the kill switch without a TTL; the breaker
engages it with one. Hard: which key expires first, weekends, holidays.

**Scheduler gates and jobs** (`app/scheduler/jobs.py`, `worker.py`).
`with_kill_switch`, `trading_day_only`, cron and interval triggers. Hard: gates
are read once; synchronous calls hold the loop, and late jobs are dropped.

**Risk engine** (`app/risk/engine.py`, `sleeve_caps.py`): whitelist, window,
daily-loss breaker, sizing, ticker, sector and sleeve caps, round trips,
cooldown, in that order. Hard: it decides on an account state read earlier.

**Sizing and reconciliation** (`app/risk/sizing.py`): two pure functions with
decimal rounding. Hard: sizes use the proposed stop, orders the reconciled one.

**Account state** (`app/services/account.py`, `quotes.py`,
`app/core/whitelist.py`): positions, exposures and baseline at one moment. It
knows no open orders.

**Trend and mean-reversion scans** (`app/signals/trend.py`,
`mean_reversion.py`): one account state, then every symbol in turn: signal,
proposal, decision, order.

**News and filing consumers** (`app/consumers`): read a Redis stream in a
consumer group, ask the orchestrator, store proposals by tier, execute tiers 1
and 2, acknowledge.

**LLM orchestrator, rate limiter, providers** (`app/llm`): kill switch and
state again, provider chain with counters in Redis, one retry after an answer
that does not validate, tiers, and a bear case for each tier-3 proposal. State:
two counters per provider with TTLs, and what each analysis holds while it
awaits. Hard: two consumers share the counters, windows change under a call, a
failure half way through the proposals of one answer. Correct when budgets hold,
an analysis ends, and no proposal of high stakes skips its review.

**Pollers and streams** (`app/ingestion`): fetch, deduplicate by a Redis set,
add one entry per ticker to a stream of bounded length. Hard: the mark and the
entries are separate writes; the consumer group is created at the end of the
stream; deliveries are acknowledged much later. Correct when an event is
analyzed at most once and, without faults, not lost.

**Market data stream**: prices nobody reads.

**Position monitor** (`app/signals/position_monitor.py`): closes positions that
are past stop or target, as Alpaca's bracket legs do. It iterates over the
`positions` table, which no code in the repository fills.

**Trade history** (`app/risk/history.py`): round trips and stop losses of a
ticker, read back from `trades`. Hard: it depends on columns that other code
should write.

**End-of-day summary, sleeve map, authentication, sanitizer, health,
configuration**: queries, text and settings without state of their own.

### How they interact

    pollers --stream--> consumers --LLM--> proposals --tier_3--> dashboard --approve--+
                        scans -----------> proposals --tier_1/2-----------------------+
                                                                                      v
       Redis: kill switch, baseline <---- risk engine (validate) <---- account state, quote
                                                 | approved
                                                 v
                       trades <-- submit_bracket --> Alpaca --events--> order stream --> trades

The hazards, each at its line with the properties that are about it, are listed
under `hazards` in `PROJECT.json`.

## 2. The modules

| module | about | extends / instantiates |
|---|---|---|
| `ProposalLifecycle` | both tables, both processes, the venue and its stream, expiry, faults | `INSTANCE ProposalClaims` (refinement) |
| `ProposalClaims` | what execution promises of one proposal, with no processes | |
| `TradingDay` | clock, the two Redis keys, gates, runs, breaker, operator | |
| `KillSwitchPanel` | a stale page and a toggle in two steps, composed with `TradingDay` | `TradingDay` |
| `Sizing` | `size_position` and `reconcile_bracket` as operators on integers | |
| `BracketOrder` | one proposal from its levels to the order | `Sizing` |
| `Portfolio` | many proposals against the exposure limits | `Sizing` |
| `EventStream` | poller, seen-set, stream, consumer group, consumer, faults | `INSTANCE EventDelivery` (refinement) |
| `EventDelivery` | what the way from feed to LLM promises of its events | |
| `Orchestrator` | two callers, the provider chain, rate limits, tiers, bear case | |
| `WorkerLoop` | seconds of the worker's loop: blocking reads and missed jobs | |
| `TradeHistory` | rows of one ticker, what writes them and what reads them back | |
| `MC*` | constants for TLC | |
| `*Proofs` | theorems and their proofs | the module they are about, `TLAPS` |
| `TradingDayProofs` | theorems on the day, with and without the panel | `KillSwitchPanel` |
| `ProposalClaimsProofs` | that the lifecycle implements `ProposalClaims` | `ProposalLifecycleProofs` |

### ProposalLifecycle

State: `tier`, `reason`, `aged`, `trade`, `closed` are columns; `broker`,
`owner`, `events`, `connected` are Alpaca and its stream; `pc`, `job`, `held`,
`posted`, `batch`, `running` are the memory of the two processes; `halted` is the
kill switch. `pc[r]` names the point the shared path has reached: `deciding`
(validate), `lookup` (the two queries of `submit_bracket`), `submit`
(`submit_order`), `record` (the insert and its commit). Between two of these
points another process may run, inside one of them the code makes one
observable step. A consumer is `running` between its gate and its end and lets
others in while it awaits the LLM; a scan in `running` holds the loop
(`LoopFree`).

Faults, at most `MaxFaults`: a crash of either process (memory lost, rows and
orders stay), a commit that fails, an answer of Alpaca that is lost, an order that
Alpaca accepts and answers by 504, so that alpaca-py posts it again
(`SubmitResent`; `posted` has the orders the current call has placed so), a stream
that disconnects (updates of that time are gone), a handler that raises. The
kill switch may flip at any time here: `TradingDay` says when it really does.

`RiskReject`, `DecideAbort` and `RiskApprove` are open: any limit may refuse.
What the limits do is the business of the other modules.

### TradingDay and KillSwitchPanel

Time is four ticks a day: before 9:29, the snapshot's minute, the session, the
rest. A key's TTL of 24 hours is four ticks; two keys that expire in one tick
keep the order in which they were written (`killFirst`). No tick passes while a
run is between its account state and its last order (`Busy`), which takes
seconds in the code; an LLM call (`woken`, `called`) may last for ticks. The
snapshot job may be missed on any day: its minute passes. `breach` and `late`
are history: the last breach, and the worker runs that passed their gate after
it; approvals, which have no gate, are not among them.

`KillSwitchPanel` adds the page on the screen and the toggle between its read
and its write.

### Sizing, BracketOrder, Portfolio

Prices are integers in hundredths of a cent, so that 3%, 5%, 15% and 30% of a
price in whole cents are exact, and `ToCents` is `Decimal.quantize` with
half-even rounding. `BracketOrder` follows the three sources of levels (LLM,
trend, mean reversion), the quote and its fallback, sizing with the proposed
stop and sending with the reconciled one. `Portfolio` abstracts prices that do
not move, keeps account states that grow stale, open orders, partial fills and
the two runners. A proposal has the price as its entry; when a consumer's quote
fails it has 1.05 times the LLM's stop instead (`Unpriced`), and the engine
sizes and caps the order with that. Three history variables say how far a limit may
be passed: `sold` has the tickers that were sold, `missed` counts for each ticker
the buys decided on a state that had missed a share or an open order of its
sector, and `discount` adds up by how much its buys were valued too low.
`Reach(t)` is every share of `t` there may be once its open buys have filled, and
both limits are about what those are worth less the discount (`Valued`): with a
quote for every buy, about their full worth. The LLM buys and sells in the run.

### EventStream and EventDelivery

A behaviour is about one `kind`, news or filings: the two have their own
streams, groups and seen-sets and share only the loop. The poller walks through
its requests (`request`), the items of an answer (`page`) and the entries of an
item, one for each ticker (`marked`, `part`). Entries are numbered in stream
order; `log` keeps all of them and `trimmed` says how many the stream has
dropped: `MAXLEN ~` may drop some, never one of the last `MaxLen`. `group`,
`last` and `pel` are the consumer group, `hand` and `stage` the consumer.
`calls` is history.

redis-py is synchronous here, so poller and consumer give up the loop only where
they await HTTP or the LLM (`PollerBusy`, `ConsumerBusy`). A Redis error
comes before or after the write it is about (`MarkFails`, `PublishFails`,
`ReadFails`, `AckFails`); a crash loses the worker's memory and leaves Redis. A
restarted worker has a new consumer name, so what was pending stays pending: no
code claims it. The group is created at `$`, the end of the stream.

`EventDelivery` has neither streams nor acknowledgements: an event is
published, taken, analyzed or given up, and of what waits only the oldest are
taken or given up. `ImplementsDelivery` maps the entries after the group's
position to its queue, the batch before its question to its hand (`InHand`), the
analyses to `Given`, and what is in none of these, nor still to come (`Coming`),
to `Lost`.

### Orchestrator

Two callers, one for each consumer. A run is at the choice of a provider
(`choose`), awaits it (`waiting`), or goes through its drafts (`tiering`); time
passes, and the other caller moves, only while it waits. A minute and a day are
cycles of ticks; a key is named after its UTC window, so a new window starts
without one, and within a window the key must outlive it: `MinuteTTL` and
`DayTTL` keep the code's 90 s : 60 s and 25 h : 24 h, rounded down to ticks. `allow` raises both
counters also when it refuses; above a limit the model stops counting, since no
decision depends on by how much. The five strengths of a bear case are two, as
the code tells them apart, and a confidence and a size stand for a draft. Rows
of `risk_events` are left out: only a page reads them.

### WorkerLoop and TradeHistory

Both are small models of one disagreement. `WorkerLoop` counts real seconds: the
consumers are due every second and block the loop for up to 30 s in
`xreadgroup`; APScheduler (external, 3.10) fires the last due time of a job,
drops tasks later than the grace time and never runs two instances.
`TradeHistory` keeps the rows of one ticker by the hour, with a nullable column
as a set of at most one value, and takes every writer of them: submission, order
stream, summary.

## 3. The runs

Seven runs hold, five show a statement of the repository that the code does not
keep.

| run | instance | shows |
|---|---|---|
| `lifecycle_safety` | 2 proposals, 2 orders, consumer and scan, 1 fault | `AtMostOneLiveTrade`, `AutomaticSentOnce`, `RowNeverAhead`, `OneOrderWithoutFaults`, `RejectedNeverSent` |
| `lifecycle_liveness` | 1 proposal, 2 orders, consumer and scan, 1 fault, fair | `StaleOnlyIfStarved`: a stale card leaves the pending page unless the expiry job is starved; `ImplementsClaims`: the lifecycle implements `ProposalClaims` |
| `tradingday_safety` | 5 days: session, session, weekend day, holiday, session | `BaselineOfTheDay`, `ClosedMarketStopsTrading`, `BreachStopsTwoDays` |
| `bracketorder_bounds` | 10 prices, 25 levels, 6 equities | `BracketsEntry`, `WithinBands`, `RiskBounded`, `ExposureBounded` |
| `portfolio_limits` | 1 ETF, 3 stocks of one sector, 3 orders, bought and sold | `TickerCapped`, `SectorCapped`: 20% and 40%, 20% more for each buy decided on a stale state, and what buys without a quote were valued too low |
| `eventstream_delivery` | news of 2 items and 3 events, or filings of 3; 2 faults, 2 flips, streams of 2 | `AnalyzedOnce`, `PendingInHand`, `NothingLost`, `NewsIsTaken`; implements `EventDelivery` |
| `orchestrator_budget` | 2 callers, a limited and an unlimited provider, 2 analyses of 2 drafts | `BudgetKept`, `QuestionBounded`, `HighStakesReviewed`, `AnalysisEnds` |
| `lifecycle_second_order` | 1 proposal, 2 orders, 1 fault | finding: a lost answer or a failed commit, a second approval, two orders |
| `lifecycle_expiry` | 1 proposal, 1 order, no fault | finding: the expiry job rejects what was executed meanwhile |
| `killswitchpanel_engage` | one day | finding: confirming "Engage" may disengage |
| `workerloop_expiry` | 700 seconds with the worker's own intervals | finding: empty streams keep the expiry job from ever running |
| `tradehistory_cooldown` | 3 trades of one ticker in 26 hours | finding: the re-entry cooldown never finds a stop loss |

Why the bounds are enough. The lifecycle needs two orders for one proposal to
duplicate anything, two proposals to mix them up between the processes, and
one fault for each way the row and the order can part; proposals and orders
are interchangeable, hence the symmetry (not used with liveness). The venue of
the safety run sends every kind of event that the code maps differently;
`expired` is mapped like `canceled`. The claims of one proposal do not depend on
another's, so one proposal with two orders is enough for the refinement. The five days of `tradingday_safety` hold
every pair of neighbours that matters: a breach before a session, before a day
off and before a holiday, and a session after them. The prices of
`bracketorder_bounds` sit around the floor of 25 cents, where rounding is
coarsest, and the levels inside, on and outside every band. In `portfolio_limits`
two shares of the ETF are exactly a ticker's 20%, three shares of the stocks are
more than their sector's 40%, and the stops buy one share or none; a stop at 80
for a stock at 140 makes an entry of 84 when the quote fails, and buys two shares,
28% of equity at their price. Once no order can follow under the bound only the trend
scan still reads a state. A scan of
several ETFs takes the same steps as the scan of the stocks.
In `eventstream_delivery` an article is about two tickers, so that a fault can fall
between its entries; a batch of two news entries is read before, between and after
them; a stream of two trims the third event; two faults allow an error in the restart after a
crash. In `orchestrator_budget` the limited provider has one call a minute and two
a day, a minute is a tick and a day three, so that both windows change under
calls and a day ends within its third minute; two drafts of different tiers, or of one
ticker twice, go through the bear case and without it. Nothing counts days: the model goes on
through as many as two analyses last.
The proofs in section 4 remove the bounds for most of these properties.

What some properties do not say. `NothingLost` is about runs without a fault: what a
crash or a lost answer of Redis takes from a batch is gone, and only
`ImplementsDelivery` speaks of it. `BudgetKept` counts the orchestrator's calls of a
provider in UTC windows, not what a provider's own SDK repeats inside one.
`HighStakesReviewed` takes over the thresholds of `_compute_tier`: a large proposal of
a confidence under 8 is tier 2 by the code and is executed unattended.
`ImplementsClaims` sees the phases of a proposal and its rows; orders at Alpaca are
counted by `OneOrderWithoutFaults` and `AutomaticSentOnce`.

Deadlock is checked in every run but `workerloop_expiry` and
`tradehistory_cooldown`, whose bounds on the clock stop the model.

### Fairness

`FairSpec` assumes, beyond `Spec`: a process that has begun a handler runs on
(`WF` of `Advance`; every step there is a call that returns or raises); a
consumer or scan finishes (`WF` of `FinishTask`); and the stream's thread handles
what has arrived and reconnects (`WF`; `run_forever` loops with a delay). It assumes
nothing about proposing, approving, the kill switch or faults, and nothing about
the expiry job: `WorkerLoop` shows that with idle streams the job may misfire for
ever. So `StaleOnlyIfStarved` names what may keep a stale card on the page: a
kill switch that keeps coming on, or a job that is able to start again and again and
never does (the negation of `SF` of `ExpireSelect`). Nothing else does, neither
approvals that abort, nor failed commits, crashes and lost updates, nor scans and
consumers that compete for the loop. Without either hypothesis the property is
violated.

`EventStream!FairSpec`: the container is restarted, HTTP requests and
code that has the loop end (`WF`), an answer of the LLM gets the loop back
(`SF`: polls interrupt it, but are 20 minutes apart), and the news
consumer, the first of the jobs of every second, gets to read (`SF`). The filing
consumer has no such promise: behind the blocking reads of an idle news
stream it is dropped as a misfire, so `NewsIsTaken` is about news only.

`Orchestrator!FairSpec`: a coroutine that has the loop runs on (`WF` of `Advance`),
and a provider answers or its timeout raises (`SF` of `Reply`, because the other
caller may have the loop at that moment). Nobody has to start an analysis, and
time does not have to pass.

## 4. What is proved

Theorems hold for every value of the constants that satisfies the named
assumptions.

**`ProposalLifecycleProofs`** (assumptions `NoneAssumption`, `TaskAssumption`,
`BoundAssumption`, `EventAssumption`). The invariant `IInv` has two parts.

- `SentInv` needs nothing of the venue: the app works on tier-3 proposals only
  and the worker on the others (`JobsApart`), what is being executed can only be
  rejected by the timeout (`ReasonsOK`), and what the worker is deciding has not
  been sent but by this very call of `submit_order` (`NotYetSent`). From it `SentOnce` and
  `NothingRejectedIsSent` follow. `AutomaticSentOnce` is about the code: it never
  begins a second call of `submit_order` for an automatic proposal, whatever fails,
  and a second order can only be alpaca-py's repetition within the one call.
  `RejectedNeverSent` is about every reason, `hitl_timeout` included: once rejected, no
  order follows, except when `submit_bracket` had passed its lookup before. Neither
  is inductive alone: that a rejection is for good, for instance, rests on who
  may hold which proposal at every step.
- `TradeInv` adds the updates on their way: what a queue may hold in each state
  of its order (`UpdatesFit`), and that between submission and record the
  process holds the only order of its claim (`ClaimsOK`). From it `OneLiveTrade`
  and `RowsFollowOrders` follow. Their explicit hypothesis is
  `"stopped" \notin BrokerEvents`, see section 6.

**`TradingDayProofs`** (assumptions `CalendarAssumption`, `RunAssumption`), for
every calendar and length of time. `IInv` says that a key in Redis has not
outlived its tick (`KeysOK`), that a run holds a baseline which was in Redis when
it read it (`SeenOK`), and of the two days after a breach that the baseline
expires before the kill switch does (`BreachOK`): the breaker writes its key in
the session, after the 9:29 baseline of the same day, and both live for 24
hours. So the next 9:29 finds the kill switch on and takes no baseline, and when
it goes off there is nothing to trade on. `FreshBaseline`, `ClosedMarket` and
`BreachHolds` follow. `PanelRefines` shows that the panel adds nothing new: a
toggle that writes, whatever it read and whatever the page showed, is a
`CommandLine` step. So the three also hold with the panel (`PanelSafe`), where
`EngageEngages` does not.

**`BracketOrderProofs`** (assumptions `PriceAssumption`, `LevelAssumption`,
`EquityAssumption`), for all prices of at least 25 cents, all levels and
equities. `SizeIsLargest` is the reference definition of `SizePosition`: it is
the largest number of shares that fits both budgets. The lemmas bound `ToCents`
and the reconciled levels; `ValidBrackets`, `LevelsWithinBands`,
`OnePercentAtRisk` and `TwentyPercentPerOrder` follow. That the
risk stays within 1% although sizing uses another stop rests on both limits of
the size: a stop in its band is sent as it was sized, and a stop that is replaced
lies 3% from the entry, where the 20% of exposure is 0.6% of equity, and at most
1% after rounding to cents.

**`ProposalClaimsProofs`** (the assumptions of the lifecycle, and again
`"stopped" \notin BrokerEvents`). `ClaimsImplemented` is a step simulation: from
`IInv` in a state and in the next, every action is an action of `ProposalClaims`
or changes nothing there. The phase of a proposal is a case over what
the two processes do; `JobsApart` makes the cases disjoint (`PhaseValue`), a step
of one process moves the phase of its own proposal only (`OtherPhases`), and
an update settles the trades of one (`UpdateStep`, where `OrdersOK` keeps a late
update from reviving a row). `OneOrder` adds `Tracked`: until the first fault
every order at work has a live row, or a process that is about to write it.
`AtMostOneLiveTrade`, `ClaimsOK` and `JobsApart` then leave room for one.

**`EventStreamProofs`** (assumptions `FeedAssumption`, `StreamAssumption`).
`IInv`: an event is published of a seen item only, at most once, up to the
current part (`PublishedOnce`); entries are handed out and analyzed in
stream order, and the group's position is past all of them (`TakenInOrder`);
an idle consumer holds nothing. `AtMostOnce` needs the first two: neither a repeated
item nor a repeated delivery exists. `BatchesAcknowledged` needs the last. `LossFree`
adds `Lossless`, three facts of a calm run: nothing precedes the first start
(else the group, created at `$`, would skip it), every delivered or trimmed entry is in
hand, analyzed or old (`Followed`), and every event of a seen item is in the log or
is still to come (`Placed`).

**`OrchestratorProofs`** (assumptions `ChainAssumption`, `ClockAssumption`,
`DraftAssumption`). `KeyKept` says why 90 seconds are enough: a key that counts
calls lives at least until its window ends, so no call of the window is
forgotten, and the count includes denied calls. `QuestionSpent` bounds the calls of
a question by the places of the chain it has passed, in each of two attempts.
`TieredReviewed` follows a draft from the answer over its bear case to the
result. `LimitsHold`, `TwoRounds` and `ReviewHolds` follow.

**`PortfolioProofs`** (assumption `PortfolioAssumption`: above all, a finite
number of tickers), for any tickers, sectors, prices, stops, stops without a quote,
allocations, sides and orders. The caps alone are not inductive. `IInv` adds that a ticker which was
never sold has no short position, in the account or in a state a runner holds, and
no open sale (`LongOnly`), and that an order number not yet used has no entry in
the book (`Unsent`). `OrderKeeps` is the core. A buy decided on a state that held
every share the sector may reach was checked against a sum at least as large as
what it adds to. A buy decided on any other state has, because that state is not
short, at most a ticker's 20% in itself, and `missed` counts it. At its price an
order is worth no more than at its entry and the gap between them (`PriceGap`), which
`discount` takes up. A fill moves
shares from the order to the position and leaves `Reach` as it is (`FillKeeps`), a
cancelled order or a closed position only lowers it. `TickersWithinCap` and
`SectorsWithinCap` follow: while no decision was stale and no quote failed they are the engine's own
20% and 40%.
The sums are folds over finite sets. Their lemmas (`TotalTake`, `TotalMonotone`,
`TotalChange`) are proved by a least counterexample among the subsets of a finite
set, from the well-foundedness theorems of the library and with no operator
parameter.

**Refinement of `EventDelivery`** (in `EventStreamProofs`). `DeliveryImplemented`
is a step simulation from `IInv` in a state and in the next. What is to come, waits, is in the
hand and was analyzed are disjoint sets of events (`Apart`), because every
entry has an event of its own and the group's position separates what waits
from the rest; so `Lost` changes by exactly what a step takes from the others.
What waits is the log from the group's position on (`QueueForm`); a read cuts it
(`Cut`, `Advances`), an XADD cuts it where the stream is trimmed and appends to
it (`Grows`), a group created at `$` finds it empty (`QuietMaps`). `LostForGood`
follows: what was given up is never analyzed later.

Only model-checked:

- liveness (`StaleOnlyIfStarved`, `NewsIsTaken`, `AnalysisEnds`), which is out of the
  prover's reach, as is ENABLED, on which their fairness rests;
- the findings, which are counterexamples, and `WorkerLoop` and `TradeHistory`,
  which exist for theirs.

Every invariant and every refinement of the seven passing runs is a theorem.
Four of them, `OneLiveTrade`, `RowsFollowOrders`, `ClaimsImplemented` and
`OneOrder`, have a hypothesis beyond the assumptions: a venue that does not send
`"stopped"`.

## 5. What is not modelled

- Indicators, texts, prompts, schema rewriting, filled quantities and prices of
  trades, pages and styling: no property is about them. What they decide is
  open: a scan may signal any symbol, the LLM may propose any level, tier or nothing.
- Position monitor: it loops over `positions`, which has no writer, so `run_once`
  does nothing. Positions are closed by their legs (`LegFill`, `Close`).
- Market stream, sanitizer, authentication, health, configuration: functions of
  one value, or I/O whose result nothing reads.
- The end-of-day summary's split by model and sleeve, its starting equity and
  its proposal counts; rows of `risk_events` and of the sanitization log. Only
  pages read them.

## 6. Where code and documents part

Besides the five findings, the models contain these behaviours:

- **One call may place two orders.** A POST that Alpaca accepts and answers by 504
  is repeated by alpaca-py, and nothing in the request lets Alpaca know it again. Only
  the last order gets a row. `SubmitResent` models it; no property forbids it, and
  `OneOrderWithoutFaults` counts it among the faults.
- **A made-up entry hides an old price.** `app/risk/sizing.py:10` calls a level far from
  the live entry garbage, "e.g. proposing a $170 stop on a stock now trading at
  $310". Without a quote a consumer takes 1.05 times the stop as entry: the $170 stop
  is then in its band and is sent, and the engine values the share at $178.50, so
  that 20% of equity may be 35%. `WithinBands`, `RiskBounded` and `ExposureBounded` are
  about the entry the order was sized with, and `TickerCapped` and `SectorCapped` say
  how far the caps are passed (`discount`).
- **A level in its band is sent as it was proposed**, with any fraction of a cent;
  `BracketsEntry` is about the order of the levels, not Alpaca's tick size.
- **The kill switch is read once** per batch, scan or poll, and never by
  `approve`. `app/dashboard/templates/_system_panel.html:12` says "Trades are not
  submitted"; what has passed its gate, and what the operator approves, still is. `BreachStopsTwoDays` is about runs of the worker.
- **The breaker expires.** `README.md:80` says "no TTL — manual reset required", and
  the breaker's key has a TTL of 24 hours. Over a day off it is gone before the next
  session, whose snapshot then sets a new baseline.
- **40% per sector is checked against one state**: a trend scan decides on SPY, QQQ and
  IWM with the state it read before the first, and may buy 60% of equity in
  `etf`. `SectorCapped` says how far this goes: 20% for each decision that
  missed something.
- **Late jobs are dropped**, not only the expiry: the same grace time applies to the 9:29 snapshot,
  the scans and the summary. The filing consumer starves while the news
  stream is idle.
- **Round trips count the wrong rows**: `closed_at` is set for cancelled and
  rejected orders only, so that the limit of five counts entries that never filled.
- **A bear case that fails lets the proposal through** to the operator as tier 3, and
  the last of two proposals for one ticker wins silently.
- **A filing's proposal may name another ticker** than the filing: nothing compares them.
- **Pending entries stay pending**: a batch read before a crash is never claimed
  by the next worker, and its events are never analyzed.

- **"stopped"** is mapped to `cancelled`, although a stopped order has a
  guaranteed fill still to come. With `"stopped"` among the events, a proposal
  is free while its order is about to fill, and `AtMostOneLiveTrade` fails. Runs
  and four theorems assume a venue that does not send it; the model can.
- **Lost updates stay lost.** An update that arrives before its row is
  committed, while the stream is down or in a handler that raises is not
  replayed. The row stays `pending`, counts as live, and is never settled.
- **"Manual reset required (no TTL set)"** on the panel: a breach on the approval
  path overwrites the operator's key without a TTL by one that expires.
- **Trading days only**: the consumers and the approval run every day, and the
  window knows no dates. Without the script a missing baseline stops them
  (`ClosedMarket`); after `scripts/snapshot_equity_now.py` on a Saturday they
  trade.
- **A missing baseline engages the kill switch for good**, and the snapshot job
  is skipped while it is on: after a quiet weekend the first consumer batch
  halts the system until the operator acts.
- **Mean reversion's target** SMA(200) lies below the close by the entry rule,
  so `reconcile_bracket` always replaces it by 5% above.
- **Shorts are not capped**: a sell adds its value to a long position and a short
  counts negative. The caps are stated for tickers that were never sold
  (`sold`), because the engine nets a short against what it buys next.
- **Sleeve caps hold per order only**: the `positions` table they sum over has no
  writer.
- **The approval fails when the quote does**: the fallback multiplies a Decimal
  by a float.

## 7. Plan

Done: every component that keeps state, the two refinements, and proofs of all
safety properties and both refinements that the runs check.

What is left, the most important first:

1. One composition of `TradingDay` with `ProposalLifecycle`, in which the kill
   switch flips only when the two keys make it. The lifecycle's theorems hold for
   any flips, so they carry over; what is missing is a property of both.
2. A venue with `"stopped"`: what still holds of a proposal whose stopped order is
   about to fill.
