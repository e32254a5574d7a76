------------------------- MODULE ProposalLifecycle -------------------------
(***************************************************************************)
(* The life of a trade proposal: created by the worker, decided by the     *)
(* risk engine or by the operator, sent to Alpaca, and followed by the     *)
(* order stream until its Trade row settles.                               *)
(*                                                                         *)
(* Two processes run the shared path  decide -> lookup -> submit -> record *)
(* ("app": the dashboard's approve handler; "worker": consumers and scans).*)
(* Each is one asyncio event loop whose handlers never really suspend on   *)
(* this path, so each has one program counter.  Between two steps of one   *)
(* process the other process, the order-stream thread, the broker, the     *)
(* operator and the kill switch may all move.                              *)
(***************************************************************************)
EXTENDS Naturals, Sequences, FiniteSets

CONSTANTS
  Proposals,    \* trade_proposals rows that may come to exist (one per signal)
  Orders,       \* Alpaca order ids that may come to exist
  Consumers,    \* news and filing consumer: they await the LLM, then propose
  Scans,        \* trend and mean-reversion scan: they never await anything
  NoProposal,   \* a process working on no proposal
  NoOrder,      \* a process that holds no order id
  BrokerEvents, \* the event kinds the venue delivers
  MaxFaults     \* bound on crashes, failed commits and lost answers

ASSUME NoneAssumption == NoProposal \notin Proposals /\ NoOrder \notin Orders
ASSUME TaskAssumption == Consumers \cap Scans = {}
ASSUME BoundAssumption == MaxFaults \in Nat
ASSUME EventAssumption ==
  BrokerEvents \subseteq
    {"partial_fill", "stopped", "fill", "rejected", "canceled", "expired"}

VARIABLES
  tier,      \* trade_proposals.tier; "absent" while the row does not exist
  reason,    \* trade_proposals.rejected_reason; "null" is SQL NULL
  aged,      \* proposals whose created_at is before the approval cutoff
  trade,     \* trades.status by alpaca_order_id; "absent" when there is no row
  closed,    \* trades whose closed_at is set
  pc,        \* what each process is doing
  job,       \* the proposal each process is working on
  held,      \* the order id Alpaca returned to the process, not yet recorded
  posted,    \* orders its submit_order call has placed and posted once more
  batch,     \* rows selected by expire_stale, not yet committed
  running,   \* consumers and scans past their kill-switch check
  broker,    \* the order at Alpaca; "absent" until it is accepted
  owner,     \* the proposal an order was sent for
  events,    \* trade updates on their way to the worker, per order
  connected, \* is the trading stream connected
  halted,    \* system:kill_switch = "true" in Redis
  faults     \* crashes, failed commits and lost answers so far

rows     == <<tier, reason, aged, trade, closed>>
process  == <<pc, job, held, posted, batch, running>>
venue    == <<broker, owner, events, connected>>
vars     == <<rows, process, venue, halted, faults>>

Runners == {"app", "worker"}
Tiers == {"tier_1", "tier_2", "tier_3"}
Reasons == {"bear_case_invalidated", "hitl_rejected", "hitl_timeout", "risk"}
Statuses == {"pending", "partial", "filled", "cancelled", "rejected"}
Stages == {"idle", "rejecting", "expiring", "deciding", "lookup", "submit", "record"}
OrderStates == {"new", "partially_filled", "stopped", "filled", "canceled", "rejected"}

(* The three statuses every "is it already executing" query asks for.      *)
LiveStatuses == {"pending", "filled", "partial"}

(* Mutants of EventStatus: Alpaca's own spelling reaches the enum column;  *)
(* a partial fill counts as a fill.                                        *)
EventStatusSpelling ==
  [new |-> "keep", accepted |-> "keep", partial_fill |-> "partial",
   fill |-> "filled", canceled |-> "canceled", expired |-> "cancelled",
   rejected |-> "rejected", done_for_day |-> "keep", replaced |-> "keep",
   stopped |-> "cancelled", suspended |-> "keep"]
EventStatusEager == [EventStatusSpelling EXCEPT !.partial_fill = "filled", !.canceled = "cancelled"]

(* Alpaca event -> trades.status; "keep" is None: leave the row unchanged. *)
EventStatus ==
  [new |-> "keep", accepted |-> "keep", partial_fill |-> "partial",
   fill |-> "filled", canceled |-> "cancelled", expired |-> "cancelled",
   rejected |-> "rejected", done_for_day |-> "keep", replaced |-> "keep",
   stopped |-> "cancelled", suspended |-> "keep"]

EventKinds == DOMAIN EventStatus

TypeOK ==
  /\ tier \in [Proposals -> Tiers \cup {"absent"}]
  /\ reason \in [Proposals -> Reasons \cup {"null"}]
  /\ aged \subseteq Proposals
  /\ trade \in [Orders -> Statuses \cup {"absent"}]
  /\ closed \subseteq Orders
  /\ pc \in [Runners -> Stages]
  /\ job \in [Runners -> Proposals \cup {NoProposal}]
  /\ held \in [Runners -> Orders \cup {NoOrder}]
  /\ posted \in [Runners -> SUBSET Orders]
  /\ batch \subseteq Proposals
  /\ running \subseteq Consumers \cup Scans
  /\ broker \in [Orders -> OrderStates \cup {"absent"}]
  /\ owner \in [Orders -> Proposals \cup {NoProposal}]
  /\ events \in [Orders -> Seq(EventKinds)]
  /\ connected \in BOOLEAN
  /\ halted \in BOOLEAN
  /\ faults \in 0..MaxFaults

-----------------------------------------------------------------------------
(* What the queries return.                                                *)

(* Mutant of LiveTrades: only a pending trade counts as executing.         *)
LiveTradesPending(p) == {o \in Orders : owner[o] = p /\ trade[o] = "pending"}

LiveTrades(p) == {o \in Orders : owner[o] = p /\ trade[o] \in LiveStatuses}

(* tier_3, not rejected, no live trade: shown on the pending page.         *)
Pending(p) == tier[p] = "tier_3" /\ reason[p] = "null" /\ LiveTrades(p) = {}

(* Mutant of Expirable: any Trade row, a cancelled one too, keeps it.      *)
ExpirableNeverSent == {p \in Proposals : Pending(p) /\ p \in aged /\ \A o \in Orders : owner[o] # p}

(* What expire_stale_tier3_proposals selects.                              *)
Expirable == {p \in Proposals : Pending(p) /\ p \in aged}

(* Nothing on its way: what the stream lost is not replayed.              *)
NoUpdates == [o \in Orders |-> <<>>]

Init ==
  /\ tier = [p \in Proposals |-> "absent"]
  /\ reason = [p \in Proposals |-> "null"]
  /\ aged = {}
  /\ trade = [o \in Orders |-> "absent"]
  /\ closed = {}
  /\ pc = [r \in Runners |-> "idle"]
  /\ job = [r \in Runners |-> NoProposal]
  /\ held = [r \in Runners |-> NoOrder]
  /\ posted = [r \in Runners |-> {}]
  /\ batch = {}
  /\ running = {}
  /\ broker = [o \in Orders |-> "absent"]
  /\ owner = [o \in Orders |-> NoProposal]
  /\ events = NoUpdates
  /\ connected = TRUE
  /\ halted = FALSE
  /\ faults = 0

Fault == faults < MaxFaults /\ faults' = faults + 1

(* The process returns, raises or rolls back: it forgets what it held.     *)
Leave(r) ==
  /\ pc' = [pc EXCEPT ![r] = "idle"]
  /\ job' = [job EXCEPT ![r] = NoProposal]
  /\ held' = [held EXCEPT ![r] = NoOrder]
  /\ posted' = [posted EXCEPT ![r] = {}]

Goto(r, stage) == pc' = [pc EXCEPT ![r] = stage] /\ UNCHANGED <<job, held, posted>>

-----------------------------------------------------------------------------
(* The worker: tasks that propose.                                         *)

(* The worker's loop is free for a task of the set; a scan holds it.       *)
LoopFree(tasks) == pc["worker"] = "idle" /\ running \cap Scans \subseteq tasks

(* run_once and the scheduled scans read the kill switch here, once.       *)
StartTask(t) ==
  /\ LoopFree({}) /\ t \notin running /\ ~halted
  /\ running' = running \cup {t}
  /\ UNCHANGED <<rows, pc, job, held, posted, batch, venue, halted, faults>>

FinishTask(t) ==
  /\ LoopFree({t}) /\ t \in running
  /\ running' = running \ {t}
  /\ UNCHANGED <<rows, pc, job, held, posted, batch, venue, halted, faults>>

(* A row for the operator to decide; the task goes on with its next one.   *)
ProposeForApproval(t, p) ==
  /\ LoopFree({t}) /\ t \in running \cap Consumers
  /\ tier[p] = "absent"
  /\ tier' = [tier EXCEPT ![p] = "tier_3"]
  /\ \/ UNCHANGED reason
     \/ reason' = [reason EXCEPT ![p] = "bear_case_invalidated"]
  /\ UNCHANGED <<aged, trade, closed, process, venue, halted, faults>>

(* A row that is executed at once: scans propose tier_1 only.              *)
ProposeForExecution(t, p) ==
  /\ LoopFree({t}) /\ t \in running
  /\ tier[p] = "absent"
  /\ \E k \in (IF t \in Scans THEN {"tier_1"} ELSE {"tier_1", "tier_2"}) :
       tier' = [tier EXCEPT ![p] = k]
  /\ pc' = [pc EXCEPT !["worker"] = "deciding"]
  /\ job' = [job EXCEPT !["worker"] = p]
  /\ UNCHANGED <<reason, aged, trade, closed, held, posted, batch, running,
                 venue, halted, faults>>

-----------------------------------------------------------------------------
(* The operator, on a pending page that may be stale: its cards are tier_3 *)
(* proposals, and the page does not refresh when they are decided.         *)

Approve(p) ==
  /\ pc["app"] = "idle" /\ tier[p] = "tier_3"
  /\ reason[p] = "null"          \* else 409 already rejected
  /\ LiveTrades(p) = {}          \* else 409 already executing
  /\ pc' = [pc EXCEPT !["app"] = "deciding"]
  /\ job' = [job EXCEPT !["app"] = p]
  /\ UNCHANGED <<rows, held, posted, batch, running, venue, halted, faults>>

(* Reject reads the row, and writes it without looking at its trades.      *)
Reject(p) ==
  /\ pc["app"] = "idle" /\ tier[p] = "tier_3"
  /\ reason[p] = "null"
  /\ pc' = [pc EXCEPT !["app"] = "rejecting"]
  /\ job' = [job EXCEPT !["app"] = p]
  /\ UNCHANGED <<rows, held, posted, batch, running, venue, halted, faults>>

RejectCommit ==
  /\ pc["app"] = "rejecting"
  /\ reason' = [reason EXCEPT ![job["app"]] = "hitl_rejected"]
  /\ Leave("app")
  /\ UNCHANGED <<tier, aged, trade, closed, batch, running, venue, halted, faults>>

RejectFail ==
  /\ pc["app"] = "rejecting"
  /\ Fault
  /\ Leave("app")
  /\ UNCHANGED <<rows, batch, running, venue, halted>>

-----------------------------------------------------------------------------
(* Expiry, every five minutes on the worker: select, then write blindly.   *)

ExpireSelect ==
  /\ LoopFree({}) /\ ~halted
  /\ Expirable # {}
  /\ batch' = Expirable
  /\ pc' = [pc EXCEPT !["worker"] = "expiring"]
  /\ UNCHANGED <<rows, job, held, posted, running, venue, halted, faults>>

ExpireCommit ==
  /\ pc["worker"] = "expiring"
  /\ reason' = [p \in Proposals |-> IF p \in batch THEN "hitl_timeout" ELSE reason[p]]
  /\ batch' = {}
  /\ Leave("worker")
  /\ UNCHANGED <<tier, aged, trade, closed, running, venue, halted, faults>>

ExpireFail ==
  /\ pc["worker"] = "expiring"
  /\ Fault
  /\ batch' = {}
  /\ Leave("worker")
  /\ UNCHANGED <<rows, running, venue, halted>>

(* The approval timeout passes for a proposal.                             *)
Age(p) ==
  /\ tier[p] = "tier_3" /\ p \notin aged
  /\ aged' = aged \cup {p}
  /\ UNCHANGED <<tier, reason, trade, closed, process, venue, halted, faults>>

-----------------------------------------------------------------------------
(* The shared path: account state, quote, RiskEngine.validate,             *)
(* persist_decision, submit_bracket.                                       *)

(* Account state missing (which engages the kill switch), a failed quote,  *)
(* or a decision that could not be saved: nothing is written to the row.   *)
DecideAbort(r) ==
  /\ pc[r] = "deciding"
  /\ halted' \in {halted, TRUE}
  /\ Leave(r)
  /\ UNCHANGED <<rows, batch, running, venue, faults>>

(* Rejected: the reason is written whatever the row holds by now.  The     *)
(* daily-loss rejection also engages the kill switch.                      *)
RiskReject(r) ==
  /\ pc[r] = "deciding"
  /\ reason' = [reason EXCEPT ![job[r]] = "risk"]
  /\ halted' \in {halted, TRUE}
  /\ Leave(r)
  /\ UNCHANGED <<tier, aged, trade, closed, batch, running, venue, faults>>

RiskApprove(r) ==
  /\ pc[r] = "deciding"
  /\ Goto(r, "lookup")
  /\ UNCHANGED <<rows, batch, running, venue, halted, faults>>

(* Mutant of MaySubmit: the rejected_reason filter is forgotten.           *)
MaySubmitRejected(p) == LiveTrades(p) = {}

(* submit_bracket's two queries: a non-rejected row, and no live trade.    *)
MaySubmit(p) == reason[p] = "null" /\ LiveTrades(p) = {}

Lookup(r) ==
  /\ pc[r] = "lookup" /\ MaySubmit(job[r])
  /\ Goto(r, "submit")
  /\ UNCHANGED <<rows, batch, running, venue, halted, faults>>

(* ExecutionError or DuplicateExecution.                                   *)
Refuse(r) ==
  /\ pc[r] = "lookup" /\ ~MaySubmit(job[r])
  /\ Leave(r)
  /\ UNCHANGED <<rows, batch, running, venue, halted, faults>>

(* Alpaca accepts an order for p under the fresh id o.                     *)
Accept(o, p) ==
  /\ broker[o] = "absent"
  /\ broker' = [broker EXCEPT ![o] = "new"]
  /\ owner' = [owner EXCEPT ![o] = p]

Submit(r, o) ==
  /\ pc[r] = "submit"
  /\ Accept(o, job[r])
  /\ pc' = [pc EXCEPT ![r] = "record"]
  /\ held' = [held EXCEPT ![r] = o]
  /\ posted' = [posted EXCEPT ![r] = {}]
  /\ UNCHANGED <<rows, job, batch, running, events, connected, halted, faults>>

(* Alpaca refuses the order, or cannot be reached.                         *)
SubmitRefused(r) ==
  /\ pc[r] = "submit"
  /\ Leave(r)
  /\ UNCHANGED <<rows, batch, running, venue, halted, faults>>

(* Alpaca accepts the order and answers 504: alpaca-py posts the same      *)
(* request again, without a client_order_id Alpaca could know it by.       *)
SubmitResent(r, o) ==
  /\ pc[r] = "submit"
  /\ Fault
  /\ Accept(o, job[r])
  /\ posted' = [posted EXCEPT ![r] = @ \cup {o}]
  /\ UNCHANGED <<rows, pc, job, held, batch, running, events, connected, halted>>

(* Alpaca accepts the order and no answer comes: the call raises.          *)
SubmitUnanswered(r, o) ==
  /\ pc[r] = "submit"
  /\ Fault
  /\ Accept(o, job[r])
  /\ Leave(r)
  /\ UNCHANGED <<rows, batch, running, events, connected, halted>>

(* The Trade row is committed, after the order exists.                     *)
Record(r) ==
  /\ pc[r] = "record"
  /\ trade' = [trade EXCEPT ![held[r]] = "pending"]
  /\ Leave(r)
  /\ UNCHANGED <<tier, reason, aged, closed, batch, running, venue, halted, faults>>

(* Mutant of RecordFail: a failed commit is retried from the submission.   *)
RecordFailRetried(r) ==
  /\ pc[r] = "record"
  /\ Fault
  /\ pc' = [pc EXCEPT ![r] = "submit"]
  /\ held' = [held EXCEPT ![r] = NoOrder]
  /\ UNCHANGED <<job, posted, rows, batch, running, venue, halted>>

RecordFail(r) ==
  /\ pc[r] = "record"
  /\ Fault
  /\ Leave(r)
  /\ UNCHANGED <<rows, batch, running, venue, halted>>

-----------------------------------------------------------------------------
(* Alpaca and its trading stream.  Each order's updates arrive in order;   *)
(* those of a time when the stream is down are not replayed.               *)

(* The order state an event moves to, by the state it may leave.           *)
Moves(e) ==
  CASE e = "partial_fill" -> [from |-> {"new"}, to |-> "partially_filled"]
    [] e = "stopped"      -> [from |-> {"new"}, to |-> "stopped"]
    [] e = "fill"         -> [from |-> {"new", "partially_filled", "stopped"},
                              to |-> "filled"]
    [] e = "rejected"     -> [from |-> {"new"}, to |-> "rejected"]
    [] e \in {"canceled", "expired"} ->
                             [from |-> {"new", "partially_filled"}, to |-> "canceled"]

BrokerEvent(o, e) ==
  /\ broker[o] \in Moves(e).from
  /\ broker' = [broker EXCEPT ![o] = Moves(e).to]
  /\ events' = IF connected THEN [events EXCEPT ![o] = Append(@, e)] ELSE events
  /\ UNCHANGED <<rows, process, owner, connected, halted, faults>>

(* The row an update finds changes as the map says; closed_at is set once, *)
(* for cancelled and rejected.  An update that finds no row is dropped.    *)
Apply(o, status) ==
  IF trade[o] = "absent" \/ status = "keep" THEN UNCHANGED <<trade, closed>>
  ELSE /\ trade' = [trade EXCEPT ![o] = status]
       /\ closed' = IF status \in {"cancelled", "rejected"}
                    THEN closed \cup {o} ELSE closed

HandleUpdate(o) ==
  /\ events[o] # <<>>
  /\ Apply(o, EventStatus[Head(events[o])])
  /\ events' = [events EXCEPT ![o] = Tail(@)]
  /\ UNCHANGED <<tier, reason, aged, process, broker, owner, connected, halted, faults>>

(* The handler logs any exception and goes on: the update is lost.         *)
HandleFail(o) ==
  /\ events[o] # <<>>
  /\ Fault
  /\ events' = [events EXCEPT ![o] = Tail(@)]
  /\ UNCHANGED <<rows, process, broker, owner, connected, halted>>

Disconnect ==
  /\ connected
  /\ Fault
  /\ connected' = FALSE
  /\ events' = NoUpdates
  /\ UNCHANGED <<rows, process, broker, owner, halted>>

Reconnect ==
  /\ ~connected
  /\ connected' = TRUE
  /\ UNCHANGED <<rows, process, broker, owner, events, halted, faults>>

-----------------------------------------------------------------------------
(* Crashes: memory is lost, transactions roll back, rows and orders stay.  *)

CrashApp ==
  /\ Fault
  /\ Leave("app")
  /\ UNCHANGED <<rows, batch, running, venue, halted>>

CrashWorker ==
  /\ Fault
  /\ Leave("worker")
  /\ batch' = {} /\ running' = {}
  /\ connected' = FALSE
  /\ events' = NoUpdates
  /\ UNCHANGED <<rows, broker, owner, halted>>

(* The operator, a script or a key that expires changes the kill switch.   *)
FlipKillSwitch ==
  /\ halted' = ~halted
  /\ UNCHANGED <<rows, process, venue, faults>>

-----------------------------------------------------------------------------
Tasks == Consumers \cup Scans

Propose ==
  \E t \in Tasks :
    \/ StartTask(t)
    \/ FinishTask(t)
    \/ \E p \in Proposals : ProposeForApproval(t, p) \/ ProposeForExecution(t, p)

Operate ==
  \/ \E p \in Proposals : Approve(p) \/ Reject(p) \/ Age(p)
  \/ FlipKillSwitch

(* The steps a process takes by itself once it has begun.                  *)
Advance(r) ==
  \/ DecideAbort(r) \/ RiskReject(r) \/ RiskApprove(r)
  \/ Lookup(r) \/ Refuse(r)
  \/ SubmitRefused(r) \/ \E o \in Orders : Submit(r, o)
  \/ Record(r)
  \/ r = "app" /\ RejectCommit
  \/ r = "worker" /\ ExpireCommit

Venue ==
  \/ \E o \in Orders, e \in BrokerEvents : BrokerEvent(o, e)
  \/ \E o \in Orders : HandleUpdate(o)
  \/ Reconnect

Fail ==
  \/ RejectFail \/ ExpireFail \/ Disconnect \/ CrashApp \/ CrashWorker
  \/ \E r \in Runners :
       RecordFail(r) \/ \E o \in Orders : SubmitResent(r, o) \/ SubmitUnanswered(r, o)
  \/ \E o \in Orders : HandleFail(o)

Next ==
  \/ Propose \/ Operate \/ ExpireSelect \/ (\E r \in Runners : Advance(r))
  \/ Venue \/ Fail

Spec == Init /\ [][Next]_vars

(* A handler that has begun runs on, and the stream reconnects and         *)
(* delivers.  Nobody has to propose, approve or fail, and the expiry job   *)
(* need not start: a busy loop makes it miss its time (see WorkerLoop).    *)
Fairness ==
  /\ \A r \in Runners : WF_vars(Advance(r))
  /\ \A t \in Tasks : WF_vars(FinishTask(t))
  /\ \A o \in Orders : WF_vars(HandleUpdate(o))
  /\ WF_vars(Reconnect)

FairSpec == Spec /\ Fairness

-----------------------------------------------------------------------------
(* Safety.                                                                 *)

(* A proposal never has two live Trade rows: the approve query and both    *)
(* submit_bracket queries use scalar_one_or_none, and would raise.         *)
AtMostOneLiveTrade ==
  \A o1, o2 \in Orders :
    owner[o1] = owner[o2] /\ {trade[o1], trade[o2]} \subseteq LiveStatuses => o1 = o2

(* The proposals some process is executing and has brought to this stage.  *)
Claiming(stage) == {p \in Proposals : \E r \in Runners : pc[r] = stage /\ job[r] = p}

OrdersOf(p) == {o \in Orders : owner[o] = p}

Sent(o) == broker[o] = "absent" /\ broker'[o] # "absent"

(* The other orders of o's proposal, those aside that the same call of     *)
(* submit_order has placed: alpaca-py's own repetitions.                   *)
EarlierCalls(o) ==
  OrdersOf(owner'[o]) \ UNION {posted[r] : r \in {x \in Runners : job[x] = owner'[o]}}

(* A proposal the worker executes by itself goes through submit_order at   *)
(* most once, whatever crashes, times out or fails to commit: the code     *)
(* never begins a second call, and a second order is alpaca-py's doing.    *)
AutomaticSentOnce ==
  [][\A o \in Orders : Sent(o) /\ tier[owner'[o]] # "tier_3" => EarlierCalls(o) = {}]_vars

(* A Trade row never shows a final state that its order at Alpaca has not  *)
(* reached, however late, lost or overtaken its updates are.               *)
RowNeverAhead ==
  \A o \in Orders :
    /\ trade[o] = "filled" => broker[o] = "filled"
    /\ trade[o] \in {"cancelled", "rejected"} => broker[o] \in {"canceled", "rejected"}

(* Rejected, and no process has got past submit_bracket's lookup with it.  *)
Barred(p) == reason[p] # "null" /\ p \notin Claiming("submit")

(* A rejection is for good: a proposal that anyone rejected, the timeout   *)
(* included, gets no order any more, unless submit_bracket had passed its  *)
(* lookup; and only the timeout can come in between.                       *)
RejectedNeverSent ==
  [][\A p \in Proposals :
       /\ Barred(p) => Barred(p)' /\ OrdersOf(p)' = OrdersOf(p)
       /\ OrdersOf(p)' # OrdersOf(p) => reason[p] \in {"null", "hitl_timeout"}]_vars

Working(o) == broker[o] \in {"new", "partially_filled", "stopped", "filled"}

(* While no fault has happened, a proposal never has two orders at Alpaca  *)
(* that are working or filled.                                             *)
OneOrderWithoutFaults ==
  faults = 0 =>
    \A o1, o2 \in Orders : Working(o1) /\ Working(o2) /\ owner[o1] = owner[o2] => o1 = o2

-----------------------------------------------------------------------------
(* Why it holds: the parts of the inductive invariant, for a venue that    *)
(* does not report an order as "stopped" before it fills.                  *)

Executing == {"deciding", "lookup", "submit", "record"}

(* The app works on tier_3 proposals only, the worker on the others only,  *)
(* so that the two processes never execute the same proposal.              *)
JobsApart ==
  /\ \A r \in Runners : pc[r] \in Executing => job[r] \in Proposals
  /\ pc["app"] \in Executing \cup {"rejecting"} => tier[job["app"]] = "tier_3"
  /\ pc["worker"] \in Executing => tier[job["worker"]] \in {"tier_1", "tier_2"}

(* While a proposal is being executed, only the timeout can reject it.     *)
ReasonsOK ==
  /\ \A p \in batch : tier[p] = "tier_3"
  /\ \A p \in Proposals : tier[p] = "absent" => reason[p] = "null"
  /\ \A r \in Runners : pc[r] \in Executing => reason[job[r]] \in {"null", "hitl_timeout"}

(* An order was sent for a proposal that exists.                           *)
OwnersOK ==
  \A o \in Orders :
    IF broker[o] = "absent" THEN owner[o] = NoProposal
    ELSE owner[o] \in Proposals /\ tier[owner[o]] # "absent"

(* What is on its way was sent by an order in this state; a final update   *)
(* is the last one of its order.                                           *)
UpdatesFit(o) ==
  /\ broker[o] # "stopped"
  /\ broker[o] \in {"absent", "new"} => events[o] = <<>>
  /\ broker[o] = "partially_filled" =>
       \A i \in 1..Len(events[o]) : events[o][i] = "partial_fill"
  /\ broker[o] = "filled" =>
       \A i \in 1..Len(events[o]) : events[o][i] \in {"partial_fill", "fill"}
  /\ broker[o] \in {"canceled", "rejected"} =>
       \A i \in 1..Len(events[o]) :
         /\ events[o][i] \in {"partial_fill", "canceled", "expired", "rejected"}
         /\ i < Len(events[o]) => events[o][i] = "partial_fill"

OrderOK(o) ==
  /\ trade[o] # "absent" => broker[o] # "absent"
  /\ UpdatesFit(o)
  /\ trade[o] \in {"cancelled", "rejected"} => events[o] = <<>>

OrdersOK == \A o \in Orders : OrderOK(o)

(* Between the submission and its record, the proposal has no live trade,  *)
(* and the order the process holds was sent for it and has no row.         *)
ClaimsOK ==
  \A r \in Runners :
    /\ pc[r] \in {"submit", "record"} => LiveTrades(job[r]) = {}
    /\ pc[r] = "record" =>
         /\ held[r] \in Orders
         /\ broker[held[r]] # "absent"
         /\ trade[held[r]] = "absent"
         /\ owner[held[r]] = job[r]

(* The worker has sent nothing yet for the proposal it is deciding, but    *)
(* for what this very call has posted.                                     *)
NotYetSent ==
  pc["worker"] \in {"deciding", "lookup", "submit"} =>
    OrdersOf(job["worker"]) \subseteq posted["worker"]

(* What holds of every venue, and what a venue without "stopped" adds.     *)
SentInv  == TypeOK /\ JobsApart /\ ReasonsOK /\ OwnersOK /\ NotYetSent
TradeInv == OrdersOK /\ RowNeverAhead /\ ClaimsOK /\ AtMostOneLiveTrade
IInv     == SentInv /\ TradeInv

-----------------------------------------------------------------------------
(* The abstract specification this one implements.                         *)

PhaseOf(p) ==
  CASE p \in Claiming("record") -> "placed"
    [] p \in Claiming("submit") -> "claimed"
    [] OTHER -> IF LiveTrades(p) # {} THEN "live" ELSE "free"

Claims == INSTANCE ProposalClaims WITH
  phase    <- [p \in Proposals |-> PhaseOf(p)],
  rejected <- {p \in Proposals : reason[p] # "null"}

(* Every behaviour, with its races and faults, keeps to the claims: one    *)
(* process at a time, never on a rejected or live proposal, at most one    *)
(* order recorded, and a rejection is never taken back.                    *)
ImplementsClaims == Claims!Spec

-----------------------------------------------------------------------------
(* Liveness.                                                               *)

Stale(p) == Pending(p) /\ p \in aged

(* An aged proposal leaves the pending page, rejected or executed, unless  *)
(* the kill switch keeps coming on or the expiry job is starved: able to   *)
(* start again and again, and never started.                               *)
StaleOnlyIfStarved ==
  <>[]~halted /\ SF_vars(ExpireSelect) => \A p \in Proposals : Stale(p) ~> ~Stale(p)

-----------------------------------------------------------------------------
(* What the repository says of the program, and the code does not keep.    *)

(* tests/test_tier3_timeout.py: if a Trade row exists in pending, partial  *)
(* or filled, the proposal was approved and is not rejected again.         *)
ExpirySparesExecuted ==
  [][\A p \in Proposals :
       reason[p] # "hitl_timeout" /\ reason'[p] = "hitl_timeout" => LiveTrades(p) = {}]_vars

(* DuplicateExecution: a second order is refused for a proposal that is    *)
(* already pending or filled.  (What the same call repeats is left aside.) *)
NoSecondOrder ==
  [][\A o \in Orders : Sent(o) => \A x \in EarlierCalls(o) : ~Working(x)]_vars
=============================================================================
