----------------------------- MODULE TradingDay -----------------------------
(***************************************************************************)
(* When the system may trade: the kill switch and the start-of-day equity  *)
(* in Redis, both with a 24-hour TTL, the jobs and gates of the worker,    *)
(* the risk engine's trading window and daily-loss breaker, and the        *)
(* operator with his scripts and the dashboard's system panel.             *)
(*                                                                         *)
(* Time is a tick count, four ticks a day: 0 before 9:29 ET, 1 the minute  *)
(* of the snapshot job, 2 the session 9:30-16:00, 3 the rest of the day.   *)
(* A key set somewhere in a tick with a TTL of a day expires somewhere in  *)
(* the same tick of the next day.                                          *)
(***************************************************************************)
EXTENDS Naturals

CONSTANTS
  Consumers,  \* news and filing consumer, polling day and night
  Scans,      \* trend and mean-reversion scan, cron jobs of the session
  Calendar,   \* day -> "trading", "holiday" (a weekday) or "weekend"
  LastTick    \* bound: the clock stops here

ASSUME CalendarAssumption ==
  /\ LastTick \in Nat
  /\ Calendar \in [0..(LastTick \div 4) -> {"trading", "holiday", "weekend"}]
ASSUME RunAssumption ==
  Consumers \cap Scans = {} /\ "app" \notin Consumers \cup Scans

VARIABLES
  now,       \* the tick
  kill,      \* system:kill_switch: Absent, the tick it expires in, or NoExpiry
  sod,       \* equity:start_of_day: Absent, or the tick it expires in
  sodBy,     \* who wrote equity:start_of_day: the "job" or the "script"
  killFirst, \* both keys expire in the same tick, the kill switch first
  loss,      \* equity is at least 3% under the baseline in Redis
  due,       \* the snapshot job is due in this tick
  stage,     \* what each run is doing
  seen,      \* what AccountState each run holds: the baseline, the loss
  breach,    \* the tick of the last breach, Absent once the operator acts
  late       \* worker runs that passed their gate after that breach

keys == <<kill, sod, sodBy, killFirst>>
runs == <<stage, seen, late>>
vars == <<now, keys, loss, due, runs, breach>>

Absent   == 0
DayTicks == 4
NoExpiry == LastTick + DayTicks + 1

DayOf(t) == t \div DayTicks
Phase(t) == t % DayTicks
Weekday(t) == Calendar[DayOf(t)] # "weekend"
IsTradingDay(t) == Calendar[DayOf(t)] = "trading"
InWindow(t) == Phase(t) = 2

Workers == Consumers \cup Scans
Runs == Workers \cup {"app"}
Stages == {"idle", "woken", "called", "ready", "cleared"}
Held == [taken : 0..LastTick, by : {"job", "script"}, loss : BOOLEAN]

TypeOK ==
  /\ now \in 0..LastTick
  /\ kill \in 0..NoExpiry
  /\ sod \in 0..(LastTick + DayTicks)
  /\ sodBy \in {"job", "script"}
  /\ killFirst \in BOOLEAN /\ loss \in BOOLEAN /\ due \in BOOLEAN
  /\ stage \in [Runs -> Stages]
  /\ seen \in [Runs -> Held]
  /\ breach \in 0..LastTick
  /\ late \subseteq Workers

Nothing == [taken |-> 0, by |-> "job", loss |-> FALSE]

Init ==
  /\ now = 0
  /\ kill = Absent /\ sod = Absent /\ sodBy = "job" /\ killFirst = FALSE
  /\ loss = FALSE /\ due = FALSE
  /\ stage = [r \in Runs |-> "idle"]
  /\ seen = [r \in Runs |-> Nothing]
  /\ breach = Absent /\ late = {}

Halted == kill # Absent

-----------------------------------------------------------------------------
(* Redis.                                                                  *)

(* Mutant of SodTTL: a baseline that lasts for two days.                   *)
SodTTLTwoDays == 2 * DayTicks

(* 24 * 60 * 60 seconds from now.                                          *)
KillTTL == DayTicks
SodTTL  == DayTicks

SetKill(expires) == kill' = expires /\ killFirst' = FALSE /\ UNCHANGED <<sod, sodBy>>
ClearKill == SetKill(Absent)

(* snapshot_sod_equity: the equity of this moment becomes the baseline.    *)
Snapshot(who) ==
  /\ sod' = now + SodTTL /\ sodBy' = who /\ killFirst' = (kill = sod')
  /\ loss' = FALSE
  /\ UNCHANGED kill

(* A key expires in its tick; of two with the same age, the older first.   *)
ExpireKill ==
  /\ kill = now /\ Halted
  /\ sod = now => killFirst
  /\ ClearKill
  /\ UNCHANGED <<now, loss, due, runs, breach>>

ExpireSod ==
  /\ sod = now /\ sod # Absent
  /\ kill = now => ~killFirst
  /\ sod' = Absent /\ sodBy' = "job" /\ killFirst' = FALSE /\ loss' = FALSE
  /\ UNCHANGED <<now, kill, due, runs, breach>>

Expired(key) == key # Absent /\ key <= now

-----------------------------------------------------------------------------
(* The clock.  A run takes seconds from reading the account state to its   *)
(* last order, so no tick passes in between; an LLM call may take longer.  *)

Busy(r) == stage[r] \in {"ready", "cleared"}

Tick ==
  /\ now < LastTick
  /\ ~Expired(kill) /\ ~Expired(sod)
  /\ \A r \in Runs : ~Busy(r)
  /\ now' = now + 1
  /\ due' = (Phase(now') = 1 /\ Weekday(now'))
  /\ UNCHANGED <<keys, loss, runs, breach>>

(* The market moves equity across the 3% line, against a baseline.         *)
MarketMoves ==
  /\ sod # Absent
  /\ loss' = ~loss
  /\ UNCHANGED <<now, keys, due, runs, breach>>

-----------------------------------------------------------------------------
(* The worker.  It is one event loop: only the LLM call lets others in.    *)

LoopFree(r) == r \in Workers => \A w \in Workers \ {r} : ~Busy(w)

(* Mutant of SnapshotJob: without @with_kill_switch.                       *)
SnapshotJobUngated ==
  /\ due /\ \A w \in Workers : ~Busy(w)
  /\ due' = FALSE
  /\ IF IsTradingDay(now) THEN Snapshot("job") ELSE UNCHANGED <<keys, loss>>
  /\ UNCHANGED <<now, runs, breach>>

(* Mutant of SnapshotJob: without @trading_day_only.                       *)
SnapshotJobEveryDay ==
  /\ due /\ \A w \in Workers : ~Busy(w)
  /\ due' = FALSE
  /\ IF ~Halted THEN Snapshot("job") ELSE UNCHANGED <<keys, loss>>
  /\ UNCHANGED <<now, runs, breach>>

(* 9:29 on weekdays, if the kill switch is off and the market opens.  It   *)
(* may fail or be missed: the minute passes and it is not retried.         *)
SnapshotJob ==
  /\ due /\ \A w \in Workers : ~Busy(w)
  /\ due' = FALSE
  /\ IF ~Halted /\ IsTradingDay(now) THEN Snapshot("job") ELSE UNCHANGED <<keys, loss>>
  /\ UNCHANGED <<now, runs, breach>>

To(r, s) ==
  /\ stage' = [stage EXCEPT ![r] = s]
  /\ seen' = IF s \in {"ready", "cleared"} THEN seen ELSE [seen EXCEPT ![r] = Nothing]

(* A run passes its gate: the scans' decorators, or run_once.              *)
Gate(r, s) ==
  /\ stage[r] = "idle" /\ LoopFree(r) /\ ~Halted
  /\ To(r, s)
  /\ late' = IF breach = Absent THEN late \ {r} ELSE late \cup {r}
  /\ UNCHANGED <<now, keys, loss, due, breach>>

StartScan(r) == r \in Scans /\ IsTradingDay(now) /\ InWindow(now) /\ Gate(r, "called")
StartBatch(r) == r \in Consumers /\ Gate(r, "woken")

(* read_sod_equity: without the key the kill switch engages, for good.     *)
MissingSod == sod = Absent /\ SetKill(NoExpiry)

(* The orchestrator looks at the kill switch again, and puts the account   *)
(* state in the prompt; without it, or when halted, it drops the batch.    *)
Analyze(r) ==
  /\ stage[r] = "woken" /\ LoopFree(r)
  /\ IF Halted \/ sod # Absent THEN UNCHANGED keys ELSE MissingSod
  /\ To(r, IF Halted \/ sod = Absent THEN "idle" ELSE "called")
  /\ UNCHANGED <<now, loss, due, breach, late>>

(* The LLM has no further proposal, or all providers failed; a scan finds  *)
(* no further symbol to buy; the app's quote fails.                        *)
Done(r) ==
  /\ stage[r] \in {"called", "ready"} /\ LoopFree(r)
  /\ To(r, "idle")
  /\ UNCHANGED <<now, keys, loss, due, breach, late>>

-----------------------------------------------------------------------------
(* The shared path, in the worker and in the app.                          *)

(* A consumer goes on with its next proposal, a scan and the app stop.     *)
NextProposal(r) == IF r \in Consumers THEN "called" ELSE "idle"

(* get_account_state.                                                      *)
ReadState(r) ==
  /\ stage[r] = "called" /\ LoopFree(r)
  /\ \/ /\ sod # Absent
        /\ stage' = [stage EXCEPT ![r] = "ready"]
        /\ seen' = [seen EXCEPT ![r] = [taken |-> sod - SodTTL, by |-> sodBy, loss |-> loss]]
        /\ UNCHANGED keys
     \/ /\ MissingSod
        /\ To(r, NextProposal(r))
  /\ UNCHANGED <<now, loss, due, breach, late>>

(* After a decision: a scan keeps its state for the next symbol.           *)
Then(r) == IF r \in Scans THEN "ready" ELSE NextProposal(r)

(* validate: the whitelist, the window, or any limit after the breaker.    *)
Refuse(r) ==
  /\ stage[r] = "ready"
  /\ To(r, Then(r))
  /\ UNCHANGED <<now, keys, loss, due, breach, late>>

(* validate, the breaker: whatever the key held, it now lasts a day.       *)
Breach(r) ==
  /\ stage[r] = "ready" /\ InWindow(now) /\ seen[r].loss
  /\ SetKill(now + KillTTL)
  /\ To(r, Then(r))
  /\ breach' = now /\ late' = {}
  /\ UNCHANGED <<now, loss, due>>

(* validate approves: submit_bracket follows, with no gate in between.     *)
Clear(r) ==
  /\ stage[r] = "ready" /\ InWindow(now) /\ ~seen[r].loss
  /\ To(r, "cleared")
  /\ UNCHANGED <<now, keys, loss, due, breach, late>>

Send(r) ==
  /\ stage[r] = "cleared"
  /\ To(r, Then(r))
  /\ UNCHANGED <<now, keys, loss, due, breach, late>>

-----------------------------------------------------------------------------
(* The operator.                                                           *)

(* approve has no kill-switch gate.                                        *)
Approve ==
  /\ stage["app"] = "idle"
  /\ To("app", "called")
  /\ UNCHANGED <<now, keys, loss, due, breach, late>>

OperatorActs == breach' = Absent /\ late' = {}

(* scripts/kill_switch.py on, on --ttl 86400, off; the dashboard's toggle   *)
(* writes the first or the last (see KillSwitchPanel).                     *)
CommandLine ==
  /\ SetKill(NoExpiry) \/ SetKill(now + KillTTL) \/ ClearKill
  /\ OperatorActs
  /\ UNCHANGED <<now, loss, due, stage, seen>>

(* scripts/snapshot_equity_now.py, on any day and at any time.             *)
SnapshotScript ==
  /\ Snapshot("script")
  /\ OperatorActs
  /\ UNCHANGED <<now, due, stage, seen>>

-----------------------------------------------------------------------------
Worker ==
  \/ SnapshotJob
  \/ \E r \in Workers : StartScan(r) \/ StartBatch(r) \/ Analyze(r) \/ Done(r)

Decide == \E r \in Runs : ReadState(r) \/ Refuse(r) \/ Breach(r) \/ Clear(r) \/ Send(r)

Operator == Approve \/ CommandLine \/ SnapshotScript

Next == Tick \/ ExpireKill \/ ExpireSod \/ MarketMoves \/ Worker \/ Decide \/ Operator

Spec == Init /\ [][Next]_vars

-----------------------------------------------------------------------------
(* Safety.                                                                 *)

Trading == {r \in Runs : stage[r] = "cleared"}

(* The daily-loss limit is measured against a baseline of this very day,   *)
(* unless the operator's script took it: the TTL of the job's baseline     *)
(* ends before the next session opens.                                     *)
BaselineOfTheDay ==
  \A r \in Trading : seen[r].by = "job" => DayOf(seen[r].taken) = DayOf(now)

(* No order is sent on a weekend or a holiday on a baseline the job took,  *)
(* although the consumers run every day and the window has no dates.       *)
ClosedMarketStopsTrading ==
  \A r \in Trading : ~IsTradingDay(now) => seen[r].by = "script"

(* After a breach, no worker run that starts later trades that day or the  *)
(* next one, until the operator acts: the breaker outlives the next        *)
(* snapshot job, and the old baseline expires before the breaker does.     *)
(* (Approvals read no kill switch, and are not among the late runs.)       *)
BreachStopsTwoDays ==
  \A r \in Trading \cap late : DayOf(now) >= DayOf(breach) + 2

-----------------------------------------------------------------------------
(* Why it holds: the parts of the inductive invariant.                     *)

(* A key in Redis has not outlived its tick; the job writes the baseline   *)
(* in its own minute of a trading day.                                     *)
KeysOK ==
  /\ kill # Absent => now <= kill
  /\ sod # Absent =>
       /\ DayTicks <= sod /\ now <= sod /\ sod <= now + DayTicks
       /\ sodBy = "job" => Phase(sod - DayTicks) = 1 /\ IsTradingDay(sod - DayTicks)
  /\ due => Phase(now) = 1

(* A run holds a baseline that was in Redis when it read the state.        *)
SeenOK ==
  \A r \in Runs :
    /\ stage[r] = "cleared" => InWindow(now)
    /\ Busy(r) /\ seen[r].by = "job" =>
         /\ Phase(seen[r].taken) = 1 /\ IsTradingDay(seen[r].taken)
         /\ seen[r].taken <= now /\ now <= seen[r].taken + DayTicks

(* On the day of a breach and the next, the kill switch is on, or it has   *)
(* expired and the baseline before it.                                     *)
BreachFresh == DayOf(now) < DayOf(breach) + 2

BreachOK ==
  /\ breach = Absent => late = {}
  /\ breach # Absent =>
       /\ InWindow(breach) /\ breach <= now
       /\ kill # Absent => kill \in {breach + DayTicks, NoExpiry}
       /\ kill = Absent => breach + DayTicks <= now
  /\ breach # Absent /\ BreachFresh =>
       /\ sod <= breach + DayTicks
       /\ sod = breach + DayTicks => ~killFirst
       /\ kill = Absent \/ late # {} => sod = Absent
       /\ \A r \in late : ~Busy(r)

IInv == TypeOK /\ KeysOK /\ SeenOK /\ BreachOK
=============================================================================
