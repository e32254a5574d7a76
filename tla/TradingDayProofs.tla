-------------------------- MODULE TradingDayProofs --------------------------
(***************************************************************************)
(* Proofs about TradingDay: what the two Redis keys and the gates together *)
(* keep, for every calendar, every set of consumers and scans and every    *)
(* length of time, under an operator whose page is stale as well.          *)
(***************************************************************************)
EXTENDS KillSwitchPanel, TLAPS

USE CalendarAssumption, RunAssumption

-----------------------------------------------------------------------------
(* The clock.                                                              *)

(* A tick is a day and a phase.                                            *)
LEMMA Clock ==
  ASSUME NEW t \in Nat
  PROVE  DayOf(t) \in Nat /\ Phase(t) \in 0..3 /\ t = 4 * DayOf(t) + Phase(t)
BY DEF DayOf, Phase, DayTicks

(* From the snapshot's minute to the session of at most a day later, it is *)
(* the same day.                                                           *)
LEMMA SameDay ==
  ASSUME NEW t \in Nat, NEW u \in Nat,
         Phase(t) = 1, Phase(u) = 2, t <= u, u <= t + 4
  PROVE  DayOf(t) = DayOf(u)
<1>1. DayOf(t) \in Nat /\ t = 4 * DayOf(t) + 1
  BY Clock
<1>2. DayOf(u) \in Nat /\ u = 4 * DayOf(u) + 2
  BY Clock
<1> QED BY <1>1, <1>2

(* A day after a session it is past the snapshot's minute: the next one is *)
(* on the day after.                                                       *)
LEMMA NextSnapshot ==
  ASSUME NEW b \in Nat, NEW t \in Nat,
         Phase(b) = 2, Phase(t) = 1, b + 4 <= t
  PROVE  DayOf(t) >= DayOf(b) + 2
<1>1. DayOf(b) \in Nat /\ b = 4 * DayOf(b) + 2
  BY Clock
<1>2. DayOf(t) \in Nat /\ t = 4 * DayOf(t) + 1
  BY Clock
<1> QED BY <1>1, <1>2

(* Days do not run backwards.                                              *)
LEMMA DaysPass ==
  ASSUME NEW t \in Nat
  PROVE  DayOf(t) <= DayOf(t + 1)
BY DEF DayOf, DayTicks

-----------------------------------------------------------------------------
(* A run moves to another stage.                                           *)

(* Type correctness in two parts: the provers split over them.             *)
Flags == killFirst \in BOOLEAN /\ loss \in BOOLEAN /\ due \in BOOLEAN
Values ==
  /\ now \in 0..LastTick
  /\ kill \in 0..NoExpiry
  /\ sod \in 0..(LastTick + DayTicks)
  /\ sodBy \in {"job", "script"}
  /\ stage \in [Runs -> Stages]
  /\ seen \in [Runs -> Held]
  /\ breach \in 0..LastTick
  /\ late \subseteq Workers

(* The two parts are type correctness.                                     *)
LEMMA Types == TypeOK <=> Flags /\ Values
BY Zenon DEF TypeOK, Flags, Values

(* And so they are after a step.                                           *)
LEMMA TypesNext == TypeOK' <=> Flags' /\ Values'
BY Zenon DEF TypeOK, Flags, Values

(* A run that moves keeps its types.                                       *)
LEMMA MoveTypes ==
  ASSUME TypeOK, NEW r \in Runs, NEW s \in Stages, To(r, s)
  PROVE  stage' \in [Runs -> Stages] /\ seen' \in [Runs -> Held]
<1>1. Nothing \in Held
  BY DEF Nothing, Held
<1> QED BY <1>1 DEF TypeOK, To

(* It keeps what it saw only if it was busy before.                        *)
LEMMA MoveKeepsSeen ==
  ASSUME TypeOK, SeenOK, NEW r \in Runs, NEW s \in Stages, To(r, s),
         s \in {"ready", "cleared"} => Busy(r),
         s = "cleared" => InWindow(now),
         now' = now
  PROVE  SeenOK'
<1> SUFFICES ASSUME NEW q \in Runs
             PROVE  /\ stage'[q] = "cleared" => InWindow(now)
                    /\ stage'[q] \in {"ready", "cleared"} /\ seen'[q].by = "job" =>
                         /\ Phase(seen'[q].taken) = 1 /\ IsTradingDay(seen'[q].taken)
                         /\ seen'[q].taken <= now /\ now <= seen'[q].taken + DayTicks
  BY DEF SeenOK, Busy, InWindow, IsTradingDay, Phase, DayOf
<1>1. CASE q = r
  <2>1. stage'[q] = s
    BY <1>1 DEF To, TypeOK
  <2>2. s \in {"ready", "cleared"} => seen'[q] = seen[q]
    BY DEF To
  <2> QED BY <1>1, <2>1, <2>2 DEF SeenOK, Busy
<1>2. CASE q # r
  <2>1. stage'[q] = stage[q] /\ seen'[q] = seen[q]
    BY <1>2 DEF To, TypeOK
  <2> QED BY <2>1 DEF SeenOK, Busy
<1> QED BY <1>1, <1>2

(* The keys and the clock stay, and so do the breach and its late runs:    *)
(* what is left to show is that no late run gets busy.                     *)
LEMMA BreachKept ==
  ASSUME BreachOK, UNCHANGED <<now, kill, sod, killFirst, breach, late>>,
         breach # Absent /\ BreachFresh => \A r \in late : ~Busy(r)'
  PROVE  BreachOK'
BY DEF BreachOK, BreachFresh, Busy, InWindow

(* A step that writes neither key keeps them as they should be.            *)
LEMMA KeysKept ==
  ASSUME KeysOK, UNCHANGED <<now, kill, sod, sodBy>>, due' => due
  PROVE  KeysOK'
BY DEF KeysOK, IsTradingDay, Phase, DayOf

(* A busy run was not late, or the days of the breach are over.            *)
LEMMA BusyNotLate ==
  ASSUME BreachOK, breach # Absent, BreachFresh, NEW r, Busy(r)
  PROVE  r \notin late
BY DEF BreachOK

-----------------------------------------------------------------------------
(* A run only moves on, between busy stages or to one that is not busy.    *)
LEMMA MoveOnly ==
  ASSUME IInv, NEW r \in Runs, NEW s \in Stages, To(r, s),
         s \in {"ready", "cleared"} => Busy(r),
         s = "cleared" => InWindow(now),
         UNCHANGED <<now, keys, loss, due, breach, late>>
  PROVE  IInv'
<1> USE DEF IInv, keys
<1>1. TypeOK'
  BY MoveTypes DEF TypeOK
<1>2. KeysOK'
  BY KeysKept
<1>3. SeenOK'
  BY MoveKeepsSeen
<1>4. ASSUME breach # Absent, BreachFresh, NEW q \in late PROVE ~Busy(q)'
  <2>1. q \in Runs
    BY DEF TypeOK, Runs
  <2>2. ~Busy(q)
    BY <1>4 DEF BreachOK
  <2> QED BY <2>1, <2>2 DEF Busy, To, TypeOK
<1>5. BreachOK'
  BY <1>4, BreachKept
<1> QED BY <1>1, <1>2, <1>3, <1>5

(* After a decision a run is idle or back at an earlier stage.             *)
LEMMA ThenIs ==
  ASSUME NEW r \in Runs
  PROVE  Then(r) \in Stages /\ (Then(r) = "ready" \/ Then(r) \in {"called", "idle"})
         /\ NextProposal(r) \in {"called", "idle"}
BY DEF Then, NextProposal, Stages

-----------------------------------------------------------------------------
(* The key of the kill switch changes, with a value that has not expired;  *)
(* the run that may have caused it moves on.                               *)

(* With no key and no run, the invariant holds.                            *)
LEMMA InitInv == Init => IInv
<1> SUFFICES ASSUME Init PROVE IInv
  OBVIOUS
<1> USE DEF Init
<1>1. TypeOK
  <2>1. Flags
    BY Zenon DEF Flags
  <2>2. Nothing \in Held
    BY DEF Nothing, Held
  <2>3. Values
    BY <2>2 DEF Values, Stages, NoExpiry, DayTicks, Absent
  <2> QED BY <2>1, <2>3, Types
<1>2. KeysOK /\ SeenOK /\ BreachOK
  BY DEF KeysOK, SeenOK, BreachOK, Busy, Absent, DayTicks, BreachFresh
<1> QED BY <1>1, <1>2 DEF IInv

(* read_sod_equity engages the kill switch, and the run stops.             *)
LEMMA MissingStep ==
  ASSUME IInv, NEW r \in Runs, NEW s \in {"idle", "called"}, To(r, s), MissingSod,
         UNCHANGED <<now, loss, due, breach, late>>
  PROVE  IInv'
<1> USE DEF IInv, MissingSod, SetKill
<1>0. s \in Stages
  BY DEF Stages
<1>1. TypeOK'
  <2>1. Flags'
    BY Types, Zenon DEF Flags
  <2>2. Values'
    BY <1>0, MoveTypes, Types DEF Values, NoExpiry, DayTicks
  <2> QED BY <2>1, <2>2, TypesNext
<1>2. KeysOK'
  BY DEF KeysOK, TypeOK, NoExpiry, DayTicks, Absent
<1>3. SeenOK'
  BY <1>0, MoveKeepsSeen
<1>4. ASSUME breach # Absent, BreachFresh, NEW q \in late PROVE ~Busy(q)'
  <2>1. q \in Runs
    BY DEF TypeOK, Runs
  <2>2. ~Busy(q)
    BY <1>4 DEF BreachOK
  <2> QED BY <2>1, <2>2 DEF Busy, To, TypeOK
<1>5. BreachOK'
  BY <1>4 DEF BreachOK, BreachFresh, TypeOK, NoExpiry, DayTicks, Absent, InWindow
<1> QED BY <1>1, <1>2, <1>3, <1>5

(* The clock: no key has outlived its tick, and no run is busy.            *)
LEMMA TickStep == IInv /\ Tick => IInv'
<1> SUFFICES ASSUME IInv, Tick PROVE IInv'
  OBVIOUS
<1> USE DEF IInv, Tick, keys, runs
<1>0. now \in Nat /\ now + 1 \in Nat /\ now' = now + 1
  BY DEF TypeOK
<1>1. TypeOK'
  <2>1. Flags'
    <3>1. due' \in BOOLEAN
      BY Zenon
    <3>2. killFirst' \in BOOLEAN /\ loss' \in BOOLEAN
      BY Types, Zenon DEF Flags
    <3> QED BY <3>1, <3>2 DEF Flags
  <2>2. Values'
    BY Types DEF Values
  <2> QED BY <2>1, <2>2, TypesNext
<1>2. KeysOK'
  <2>1. kill # Absent => now + 1 <= kill
    BY DEF KeysOK, TypeOK, Expired, NoExpiry, Absent
  <2>2. sod # Absent => now + 1 <= sod
    BY DEF KeysOK, TypeOK, Expired, Absent
  <2>3. due' => Phase(now') = 1
    OBVIOUS
  <2> QED BY <1>0, <2>1, <2>2, <2>3 DEF KeysOK, TypeOK, DayTicks, Absent, IsTradingDay, Phase, DayOf
<1>3. SeenOK'
  <2> SUFFICES ASSUME NEW q \in Runs PROVE ~Busy(q)'
    BY DEF SeenOK, Busy
  <2> QED BY DEF Busy
<1>4. BreachOK'
  <2>1. BreachFresh' => BreachFresh
    <3>1. breach' = breach /\ breach \in Nat
      BY DEF TypeOK
    <3>2. DayOf(now) \in Nat /\ DayOf(now + 1) \in Nat /\ DayOf(breach) \in Nat
      BY <1>0, <3>1, Clock
    <3>3. DayOf(now) <= DayOf(now + 1)
      BY <1>0, DaysPass
    <3>4. DayOf(now)' = DayOf(now + 1) /\ DayOf(breach)' = DayOf(breach)
      BY <1>0, <3>1 DEF DayOf
    <3> QED BY <3>2, <3>3, <3>4 DEF BreachFresh
  <2>2. \A q \in late : ~Busy(q)'
    BY DEF Busy, TypeOK, Runs
  <2>3. breach # Absent => InWindow(breach)' /\ breach <= now'
    BY <1>0 DEF BreachOK, InWindow, Phase, TypeOK
  <2>4. breach # Absent /\ kill = Absent => breach + DayTicks <= now'
    BY <1>0 DEF BreachOK, TypeOK, DayTicks
  <2> QED BY <2>1, <2>2, <2>3, <2>4 DEF BreachOK
<1> QED BY <1>1, <1>2, <1>3, <1>4

(* The kill switch expires: after a breach the baseline went before it.    *)
LEMMA ExpireKillStep == IInv /\ ExpireKill => IInv'
<1> SUFFICES ASSUME IInv, ExpireKill PROVE IInv'
  OBVIOUS
<1> USE DEF IInv, ExpireKill, ClearKill, SetKill, runs, Halted
<1>1. TypeOK'
  <2>1. Flags'
    BY Types, Zenon DEF Flags
  <2>2. Values'
    BY Types DEF Values, Absent, NoExpiry, DayTicks
  <2> QED BY <2>1, <2>2, TypesNext
<1>2. KeysOK'
  BY DEF KeysOK, IsTradingDay, Phase, DayOf
<1>3. SeenOK'
  BY DEF SeenOK, Busy, InWindow, IsTradingDay, Phase, DayOf
<1>4. BreachOK'
  <2>1. breach # Absent => now = breach + DayTicks
    BY DEF BreachOK, TypeOK, NoExpiry, DayTicks
  <2>2. breach # Absent /\ BreachFresh => sod = Absent
    BY <2>1 DEF BreachOK, KeysOK, TypeOK, DayTicks
  <2> QED BY <2>1, <2>2 DEF BreachOK, BreachFresh, Busy, InWindow, Absent, DayTicks, TypeOK
<1> QED BY <1>1, <1>2, <1>3, <1>4

(* The baseline expires: the kill switch of a breach is still there.       *)
LEMMA ExpireSodStep == IInv /\ ExpireSod => IInv'
<1> SUFFICES ASSUME IInv, ExpireSod PROVE IInv'
  OBVIOUS
<1> USE DEF IInv, ExpireSod, runs
<1>1. TypeOK'
  <2>1. Flags'
    BY Types, Zenon DEF Flags
  <2>2. Values'
    BY Types DEF Values, Absent, DayTicks
  <2> QED BY <2>1, <2>2, TypesNext
<1>2. KeysOK'
  BY DEF KeysOK, IsTradingDay, Phase, DayOf
<1>3. SeenOK'
  BY DEF SeenOK, Busy, InWindow, IsTradingDay, Phase, DayOf
<1>4. BreachOK'
  BY DEF BreachOK, BreachFresh, Busy, InWindow, Absent, DayTicks, TypeOK
<1> QED BY <1>1, <1>2, <1>3, <1>4

(* The market moves nothing but the loss.                                  *)
LEMMA MarketStep == IInv /\ MarketMoves => IInv'
<1> SUFFICES ASSUME IInv, MarketMoves PROVE IInv'
  OBVIOUS
<1> USE DEF IInv, MarketMoves, runs, keys
<1>1. TypeOK'
  <2>1. Flags'
    BY Types, Zenon DEF Flags
  <2>2. Values'
    BY Types DEF Values
  <2> QED BY <2>1, <2>2, TypesNext
<1>2. KeysOK'
  BY KeysKept
<1>3. SeenOK'
  BY DEF SeenOK, Busy, InWindow, IsTradingDay, Phase, DayOf
<1>4. BreachOK'
  BY DEF BreachOK, BreachFresh, Busy, InWindow, Absent, DayTicks, TypeOK
<1> QED BY <1>1, <1>2, <1>3, <1>4

-----------------------------------------------------------------------------
(* A snapshot while the runs stay where they are, when the breach allows.  *)

(* A snapshot changes the baseline only.                                   *)
LEMMA SnapshotTypes ==
  ASSUME TypeOK, NEW who \in {"job", "script"}, Snapshot(who)
  PROVE  /\ kill' = kill /\ sod' = now + 4 /\ sod' \in 0..(LastTick + DayTicks) /\ sodBy' = who
         /\ killFirst' \in BOOLEAN /\ loss' \in BOOLEAN
<1>1. kill' = kill /\ sod' = now + 4 /\ sod' \in 0..(LastTick + DayTicks) /\ sodBy' = who
  BY DEF Snapshot, SodTTL, DayTicks, TypeOK
<1>2. killFirst' \in BOOLEAN /\ loss' \in BOOLEAN
  BY Zenon DEF Snapshot
<1> QED BY <1>1, <1>2

(* The job finds the kill switch off in the snapshot's minute: the two     *)
(* days of a breach are over.                                              *)
LEMMA SnapshotJobStep == IInv /\ SnapshotJob => IInv'
<1> SUFFICES ASSUME IInv, SnapshotJob PROVE IInv'
  OBVIOUS
<1> USE DEF IInv, runs
<1>1. now' = now /\ due /\ due' = FALSE /\ breach' = breach /\ late' = late
      /\ stage' = stage /\ seen' = seen
  BY DEF SnapshotJob
<1>2. SeenOK'
  BY <1>1 DEF SeenOK, Busy, InWindow, IsTradingDay, Phase, DayOf
<1>3. CASE ~Halted /\ IsTradingDay(now)
  <2>1. Snapshot("job")
    BY <1>3 DEF SnapshotJob
  <2>2. /\ kill' = kill /\ sod' = now + 4 /\ sod' \in 0..(LastTick + DayTicks) /\ sodBy' = "job"
        /\ killFirst' \in BOOLEAN /\ loss' \in BOOLEAN
    BY <2>1, SnapshotTypes
  <2>3. TypeOK'
    <3>1. Flags'
      BY <1>1, <2>2 DEF Flags
    <3>2. Values'
      BY <1>1, <2>2, Types DEF Values
    <3> QED BY <3>1, <3>2, TypesNext
  <2>4. Phase(now) = 1
    BY <1>1 DEF KeysOK
  <2>5. KeysOK'
    <3>1. now \in Nat /\ sod' - DayTicks = now
      BY <2>2 DEF TypeOK, DayTicks
    <3>2. IsTradingDay(sod - DayTicks)'
      BY <1>3, <3>1 DEF IsTradingDay, DayOf
    <3>3. kill' # Absent => now' <= kill'
      BY <1>1, <2>2 DEF KeysOK
    <3>4. sod' # Absent => DayTicks <= sod' /\ now' <= sod' /\ sod' <= now' + DayTicks
      BY <1>1, <2>2, <3>1 DEF DayTicks
    <3>5. Phase(sod - DayTicks)' = 1
      BY <2>4, <3>1 DEF Phase
    <3> QED BY <1>1, <2>2, <3>2, <3>3, <3>4, <3>5 DEF KeysOK, Phase
  <2>6. breach # Absent => ~BreachFresh
    <3> SUFFICES ASSUME breach # Absent PROVE ~BreachFresh
      OBVIOUS
    <3>1. now \in Nat /\ breach \in Nat /\ kill = Absent
      BY <1>3 DEF TypeOK, Halted
    <3>2. breach + 4 <= now /\ Phase(breach) = 2
      BY <3>1 DEF BreachOK, DayTicks, InWindow
    <3>3. DayOf(now) >= DayOf(breach) + 2 /\ DayOf(now) \in Nat /\ DayOf(breach) \in Nat
      BY <2>4, <3>1, <3>2, NextSnapshot, Clock
    <3> QED BY <3>3 DEF BreachFresh
  <2>7. BreachFresh' = BreachFresh
    BY <1>1 DEF BreachFresh
  <2>8. BreachOK'
    BY <1>1, <2>2, <2>6, <2>7 DEF BreachOK, InWindow
  <2> QED BY <1>2, <2>3, <2>5, <2>8
<1>4. CASE ~(~Halted /\ IsTradingDay(now))
  <2>1. kill' = kill /\ sod' = sod /\ sodBy' = sodBy /\ killFirst' = killFirst /\ loss' = loss
    BY <1>4 DEF SnapshotJob, keys
  <2>2. TypeOK'
    <3>1. Flags'
      BY <1>1, <2>1, Types DEF Flags
    <3>2. Values'
      BY <1>1, <2>1, Types DEF Values
    <3> QED BY <3>1, <3>2, TypesNext
  <2>3. KeysOK'
    BY <1>1, <2>1, KeysKept
  <2>4. BreachOK'
    BY <1>1, <2>1 DEF BreachOK, BreachFresh, Busy, InWindow
  <2> QED BY <1>2, <2>2, <2>3, <2>4
<1> QED BY <1>3, <1>4

(* The operator's snapshot ends what a breach demands.                     *)
LEMMA SnapshotScriptStep == IInv /\ SnapshotScript => IInv'
<1> SUFFICES ASSUME IInv, SnapshotScript PROVE IInv'
  OBVIOUS
<1> USE DEF IInv
<1>1. /\ now' = now /\ due' = due /\ stage' = stage /\ seen' = seen
      /\ breach' = Absent /\ late' = {}
  BY DEF SnapshotScript, OperatorActs
<1>2. /\ kill' = kill /\ sod' = now + 4 /\ sod' \in 0..(LastTick + DayTicks) /\ sodBy' = "script"
      /\ killFirst' \in BOOLEAN /\ loss' \in BOOLEAN
  BY SnapshotTypes DEF SnapshotScript
<1>3. TypeOK'
  <2>1. Flags'
    BY <1>1, <1>2, Types DEF Flags
  <2>2. Values'
    BY <1>1, <1>2, Types DEF Values, Absent
  <2> QED BY <2>1, <2>2, TypesNext
<1>4. KeysOK'
  BY <1>1, <1>2 DEF KeysOK, TypeOK, DayTicks, Phase
<1>5. SeenOK'
  BY <1>1 DEF SeenOK, Busy, InWindow, IsTradingDay, Phase, DayOf
<1>6. BreachOK'
  BY <1>1 DEF BreachOK
<1> QED BY <1>3, <1>4, <1>5, <1>6

(* So does his kill-switch script.                                         *)
LEMMA CommandLineStep == IInv /\ CommandLine => IInv'
<1> SUFFICES ASSUME IInv, CommandLine PROVE IInv'
  OBVIOUS
<1> USE DEF IInv
<1>1. /\ now' = now /\ due' = due /\ loss' = loss /\ stage' = stage /\ seen' = seen
      /\ breach' = Absent /\ late' = {}
  BY DEF CommandLine, OperatorActs
<1>2. /\ sod' = sod /\ sodBy' = sodBy /\ killFirst' = FALSE
      /\ kill' \in {NoExpiry, now + KillTTL, Absent}
  BY DEF CommandLine, SetKill, ClearKill
<1>3. kill' \in 0..NoExpiry /\ (kill' # Absent => now <= kill')
  BY <1>2 DEF TypeOK, NoExpiry, KillTTL, DayTicks, Absent
<1>4. TypeOK'
  <2>1. Flags'
    BY <1>1, <1>2, Types DEF Flags
  <2>2. Values'
    BY <1>1, <1>2, <1>3, Types DEF Values, Absent
  <2> QED BY <2>1, <2>2, TypesNext
<1>5. KeysOK'
  BY <1>1, <1>2, <1>3 DEF KeysOK, IsTradingDay, Phase, DayOf
<1>6. SeenOK'
  BY <1>1 DEF SeenOK, Busy, InWindow, IsTradingDay, Phase, DayOf
<1>7. BreachOK'
  BY <1>1 DEF BreachOK
<1> QED BY <1>4, <1>5, <1>6, <1>7

-----------------------------------------------------------------------------
(* The runs.                                                               *)

(* A run that passes its gate after a breach finds no baseline, unless the *)
(* two days are over.                                                      *)
LEMMA GateStep ==
  ASSUME IInv, NEW r \in Workers, NEW s \in {"woken", "called"}, Gate(r, s)
  PROVE  IInv'
<1> USE DEF IInv, Gate, keys
<1>1. r \in Runs /\ s \in Stages
  BY DEF Runs, Stages
<1>2. late' \subseteq Workers /\ (breach = Absent => late' = {}) /\ late' \subseteq late \cup {r}
  BY DEF TypeOK, BreachOK
<1>3. TypeOK'
  <2>1. Flags'
    BY Types DEF Flags
  <2>2. Values'
    BY <1>1, <1>2, MoveTypes, Types DEF Values
  <2> QED BY <2>1, <2>2, TypesNext
<1>4. KeysOK'
  BY KeysKept
<1>5. SeenOK'
  BY <1>1, MoveKeepsSeen
<1>6. ASSUME breach # Absent, BreachFresh, NEW q \in late' PROVE ~Busy(q)'
  <2>1. q \in Runs
    BY <1>2 DEF Runs
  <2>2. q # r => ~Busy(q)
    BY <1>2, <1>6 DEF BreachOK
  <2> QED BY <1>1, <2>1, <2>2 DEF Busy, To, TypeOK
<1>7. breach # Absent /\ BreachFresh => sod = Absent
  BY DEF BreachOK, Halted
<1>8. BreachFresh' = BreachFresh
  BY DEF BreachFresh
<1>9. BreachOK'
  BY <1>2, <1>6, <1>7, <1>8 DEF BreachOK, InWindow
<1> QED BY <1>3, <1>4, <1>5, <1>9

(* The orchestrator's look at the two keys.                                *)
LEMMA AnalyzeStep ==
  ASSUME IInv, NEW r \in Workers, Analyze(r)
  PROVE  IInv'
<1>1. r \in Runs
  BY DEF Runs
<1>2. CASE Halted \/ sod # Absent
  <2>1. UNCHANGED <<now, keys, loss, due, breach, late>>
    BY <1>2 DEF Analyze
  <2>2. CASE Halted \/ sod = Absent
    BY <1>1, <2>1, <2>2, MoveOnly DEF Analyze, Stages
  <2>3. CASE ~(Halted \/ sod = Absent)
    BY <1>1, <2>1, <2>3, MoveOnly DEF Analyze, Stages
  <2> QED BY <2>2, <2>3
<1>3. CASE ~(Halted \/ sod # Absent)
  BY <1>1, <1>3, MissingStep DEF Analyze
<1> QED BY <1>2, <1>3

(* A run ends.                                                             *)
LEMMA DoneStep ==
  ASSUME IInv, NEW r \in Runs, Done(r)
  PROVE  IInv'
BY MoveOnly DEF Done, Stages

(* A run that reads the baseline in Redis gets busy: it was not late, for  *)
(* then there would be none.                                               *)
LEMMA ReadStep ==
  ASSUME IInv, NEW r \in Runs, ReadState(r)
  PROVE  IInv'
<1> USE DEF IInv
<1>1. CASE MissingSod /\ To(r, NextProposal(r))
  BY <1>1, ThenIs, MissingStep DEF ReadState
<1>2. CASE /\ sod # Absent
           /\ stage' = [stage EXCEPT ![r] = "ready"]
           /\ seen' = [seen EXCEPT ![r] = [taken |-> sod - SodTTL, by |-> sodBy, loss |-> loss]]
           /\ UNCHANGED keys
  <2> DEFINE st == [taken |-> sod - SodTTL, by |-> sodBy, loss |-> loss]
  <2>1. /\ now' = now /\ kill' = kill /\ sod' = sod /\ sodBy' = sodBy /\ killFirst' = killFirst
        /\ loss' = loss /\ due' = due /\ breach' = breach /\ late' = late
    BY <1>2 DEF ReadState, keys
  <2>2. sod - SodTTL \in 0..LastTick
    BY <1>2 DEF TypeOK, KeysOK, SodTTL, DayTicks
  <2>3. st \in Held
    <3>1. loss \in BOOLEAN /\ sodBy \in {"job", "script"}
      BY Zenon DEF TypeOK
    <3> QED BY <2>2, <3>1 DEF Held
  <2>4. st.taken = sod - 4 /\ st.by = sodBy
    BY DEF SodTTL, DayTicks
  <2>5. seen' = [seen EXCEPT ![r] = st]
    BY <1>2
  <2> HIDE DEF st
  <2>6. TypeOK'
    <3>1. Flags'
      BY <2>1, Types DEF Flags
    <3>2. Values'
      BY <1>2, <2>1, <2>3, <2>5, Types DEF Values, Stages
    <3> QED BY <3>1, <3>2, TypesNext
  <2>7. KeysOK'
    BY <2>1, KeysKept
  <2>8. SeenOK'
    <3> SUFFICES ASSUME NEW q \in Runs
                 PROVE  /\ stage'[q] = "cleared" => InWindow(now)
                        /\ stage'[q] \in {"ready", "cleared"} /\ seen'[q].by = "job" =>
                             /\ Phase(seen'[q].taken) = 1 /\ IsTradingDay(seen'[q].taken)
                             /\ seen'[q].taken <= now /\ now <= seen'[q].taken + DayTicks
      BY <2>1 DEF SeenOK, Busy, InWindow, IsTradingDay, Phase, DayOf
    <3>1. CASE q = r
      <4>1. stage'[q] = "ready" /\ seen'[q] = st
        BY <1>2, <2>5, <3>1 DEF TypeOK
      <4>2. sodBy = "job" => Phase(sod - 4) = 1 /\ IsTradingDay(sod - 4)
                             /\ sod - 4 <= now /\ now <= sod
        BY <1>2 DEF KeysOK, DayTicks, TypeOK
      <4>3. sod \in Nat /\ now \in Nat
        BY DEF TypeOK
      <4> QED BY <2>4, <4>1, <4>2, <4>3 DEF DayTicks
    <3>2. CASE q # r
      <4>1. stage'[q] = stage[q] /\ seen'[q] = seen[q]
        BY <1>2, <2>5, <3>2 DEF TypeOK
      <4> QED BY <4>1 DEF SeenOK, Busy
    <3> QED BY <3>1, <3>2
  <2>9. ASSUME breach # Absent, BreachFresh, NEW q \in late PROVE ~Busy(q)'
    BY <1>2, <2>9 DEF BreachOK
  <2>10. BreachOK'
    BY <2>1, <2>9, BreachKept
  <2> QED BY <2>6, <2>7, <2>8, <2>10
<1> QED BY <1>1, <1>2 DEF ReadState

(* A refusal moves the run on.                                             *)
LEMMA RefuseStep ==
  ASSUME IInv, NEW r \in Runs, Refuse(r)
  PROVE  IInv'
BY MoveOnly, ThenIs DEF Refuse, Busy

(* An approval of the risk engine happens in the window.                   *)
LEMMA ClearStep ==
  ASSUME IInv, NEW r \in Runs, Clear(r)
  PROVE  IInv'
BY MoveOnly DEF Clear, Busy, Stages

(* A sent order moves the run on.                                          *)
LEMMA SendStep ==
  ASSUME IInv, NEW r \in Runs, Send(r)
  PROVE  IInv'
BY MoveOnly, ThenIs DEF Send, Busy

(* An approval starts a run of the app.                                    *)
LEMMA ApproveStep == IInv /\ Approve => IInv'
BY MoveOnly DEF Approve, Stages, Runs

(* The breaker's key outlives the baseline that is in Redis.               *)
LEMMA BreachStep ==
  ASSUME IInv, NEW r \in Runs, Breach(r)
  PROVE  IInv'
<1> USE DEF IInv, Breach, SetKill
<1>1. Then(r) \in Stages /\ (Then(r) = "ready" => Busy(r)) /\ Then(r) # "cleared"
  BY ThenIs DEF Busy
<1>2. TypeOK'
  <2>1. Flags'
    BY Types, Zenon DEF Flags
  <2>2. stage' \in [Runs -> Stages] /\ seen' \in [Runs -> Held]
    BY <1>1, MoveTypes
  <2>3. Values'
    BY <2>2, Types DEF Values, KillTTL, NoExpiry, DayTicks
  <2> QED BY <2>1, <2>3, TypesNext
<1>3. KeysOK'
  BY DEF KeysOK, TypeOK, KillTTL, DayTicks, IsTradingDay, Phase, DayOf
<1>4. SeenOK'
  BY <1>1, MoveKeepsSeen
<1>5. BreachOK'
  BY DEF BreachOK, KeysOK, TypeOK, KillTTL, DayTicks, Absent, InWindow, Phase
<1> QED BY <1>2, <1>3, <1>4, <1>5

(* A step that changes nothing.                                            *)
LEMMA Stutter == IInv /\ UNCHANGED vars => IInv'
<1> SUFFICES ASSUME IInv, UNCHANGED vars PROVE IInv'
  OBVIOUS
<1> USE DEF IInv, vars, keys, runs
<1>1. TypeOK'
  <2>1. Flags'
    BY Types DEF Flags
  <2>2. Values'
    BY Types DEF Values
  <2> QED BY <2>1, <2>2, TypesNext
<1>2. KeysOK'
  BY KeysKept
<1>3. SeenOK'
  BY DEF SeenOK, Busy, InWindow, IsTradingDay, Phase, DayOf
<1>4. BreachOK'
  BY DEF BreachOK, BreachFresh, Busy, InWindow
<1> QED BY <1>1, <1>2, <1>3, <1>4

-----------------------------------------------------------------------------
(* The theorems.                                                           *)

(* Every step keeps the invariant.                                         *)
LEMMA NextInv == IInv /\ [Next]_vars => IInv'
<1> SUFFICES ASSUME IInv, [Next]_vars PROVE IInv'
  OBVIOUS
<1>1. CASE Tick \/ ExpireKill \/ ExpireSod \/ MarketMoves
  BY <1>1, TickStep, ExpireKillStep, ExpireSodStep, MarketStep
<1>2. CASE SnapshotJob
  BY <1>2, SnapshotJobStep
<1>3. ASSUME NEW r \in Workers, StartScan(r) \/ StartBatch(r)
      PROVE  IInv'
  BY <1>3, GateStep DEF StartScan, StartBatch
<1>4. ASSUME NEW r \in Workers, Analyze(r) \/ Done(r)
      PROVE  IInv'
  BY <1>4, AnalyzeStep, DoneStep DEF Runs
<1>5. CASE Decide
  BY <1>5, ReadStep, RefuseStep, BreachStep, ClearStep, SendStep DEF Decide
<1>6. CASE Operator
  BY <1>6, ApproveStep, CommandLineStep, SnapshotScriptStep DEF Operator
<1>7. CASE UNCHANGED vars
  BY <1>7, Stutter
<1> QED BY <1>1, <1>2, <1>3, <1>4, <1>5, <1>6, <1>7 DEF Next, Worker

(* The keys in Redis, what the runs hold and the last breach fit together. *)
THEOREM Invariance == Spec => []IInv
BY InitInv, NextInv, PTL DEF Spec

(* The variables keep their types.                                         *)
THEOREM TypeCorrect == Spec => []TypeOK
<1>1. IInv => TypeOK
  BY DEF IInv
<1> QED BY Invariance, <1>1, PTL

(* Whoever sends an order decided on a baseline of the day, if the job     *)
(* took it.                                                                *)
THEOREM FreshBaseline == Spec => []BaselineOfTheDay
<1>1. IInv => BaselineOfTheDay
  <2> SUFFICES ASSUME IInv, NEW r \in Trading, seen[r].by = "job"
               PROVE  DayOf(seen[r].taken) = DayOf(now)
    BY DEF BaselineOfTheDay
  <2>1. r \in Runs /\ stage[r] = "cleared"
    BY DEF Trading
  <2>2. seen[r].taken \in Nat /\ now \in Nat
    BY <2>1 DEF IInv, TypeOK, Held
  <2>3. /\ Phase(now) = 2 /\ Phase(seen[r].taken) = 1
        /\ seen[r].taken <= now /\ now <= seen[r].taken + 4
    BY <2>1 DEF IInv, SeenOK, Busy, InWindow, DayTicks
  <2> QED BY <2>2, <2>3, SameDay
<1> QED BY Invariance, <1>1, PTL

(* No order on a weekend or a holiday without the operator's script.       *)
THEOREM ClosedMarket == Spec => []ClosedMarketStopsTrading
<1>1. IInv => ClosedMarketStopsTrading
  <2> SUFFICES ASSUME IInv, NEW r \in Trading, seen[r].by # "script"
               PROVE  IsTradingDay(now)
    BY DEF ClosedMarketStopsTrading
  <2>1. r \in Runs /\ stage[r] = "cleared"
    BY DEF Trading
  <2>2. seen[r].taken \in Nat /\ now \in Nat /\ seen[r].by = "job"
    BY <2>1 DEF IInv, TypeOK, Held
  <2>3. /\ Phase(now) = 2 /\ Phase(seen[r].taken) = 1 /\ IsTradingDay(seen[r].taken)
        /\ seen[r].taken <= now /\ now <= seen[r].taken + 4
    BY <2>1, <2>2 DEF IInv, SeenOK, Busy, InWindow, DayTicks
  <2>4. DayOf(seen[r].taken) = DayOf(now)
    BY <2>2, <2>3, SameDay
  <2> QED BY <2>3, <2>4 DEF IsTradingDay
<1> QED BY Invariance, <1>1, PTL

(* A breach stops the worker's later runs for its day and the next.        *)
THEOREM BreachHolds == Spec => []BreachStopsTwoDays
<1>1. IInv => BreachStopsTwoDays
  <2> SUFFICES ASSUME IInv, NEW r \in Trading \cap late
               PROVE  DayOf(now) >= DayOf(breach) + 2
    BY DEF BreachStopsTwoDays
  <2>1. r \in late /\ r \in Runs /\ Busy(r)
    BY DEF Trading, Busy
  <2>2. breach # Absent
    BY <2>1 DEF IInv, BreachOK
  <2>3. ~BreachFresh
    BY <2>1, <2>2, BusyNotLate DEF IInv
  <2>4. now \in Nat /\ breach \in Nat
    BY DEF IInv, TypeOK
  <2>5. DayOf(now) \in Nat /\ DayOf(breach) \in Nat
    BY <2>4, Clock
  <2> QED BY <2>3, <2>5 DEF BreachFresh
<1> QED BY Invariance, <1>1, PTL

-----------------------------------------------------------------------------
(* The dashboard's panel on top.                                           *)

(* The handler's write, whatever its read has found, is what the operator  *)
(* may do by the script; a page and a reading change nothing.              *)
LEMMA PanelStep == [PanelNext]_<<vars, desk>> => [Next]_vars
<1>1. ToggleWrite => CommandLine
  BY DEF ToggleWrite, CommandLine
<1>2. LoadPanel \/ ToggleRead => UNCHANGED vars
  BY DEF LoadPanel, ToggleRead
<1> QED
  BY <1>1, <1>2 DEF PanelNext, Next, Operator

(* The system with the panel, its stale page and its toggle in two steps,  *)
(* is a TradingDay.                                                        *)
THEOREM PanelRefines == PanelSpec => Spec
BY PanelStep, PTL DEF PanelSpec, PanelInit, Spec

(* So the panel, although confirming "Engage" may disengage, breaks none   *)
(* of what the two keys and the gates keep.                                *)
THEOREM PanelSafe ==
  PanelSpec => [](BaselineOfTheDay /\ ClosedMarketStopsTrading /\ BreachStopsTwoDays)
BY PanelRefines, FreshBaseline, ClosedMarket, BreachHolds, PTL
=============================================================================
