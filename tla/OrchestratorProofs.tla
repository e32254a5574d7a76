------------------------ MODULE OrchestratorProofs -------------------------
(***************************************************************************)
(* Proofs about Orchestrator: the budgets of the providers, the cost of a  *)
(* question and the review of high stakes, for every chain, limit, set of  *)
(* drafts and number of analyses.                                          *)
(***************************************************************************)
EXTENDS Orchestrator, TLAPS

USE ChainAssumption, ClockAssumption, DraftAssumption

-----------------------------------------------------------------------------
(* The types in parts: the keys, the analyses, their results.              *)

KeyTypes ==
  /\ sec \in 0..(MinuteTicks - 1) /\ tod \in 0..(DayTicks - 1)
  /\ minute \in [Limited -> Key] /\ day \in [Limited -> Key]
  /\ made \in [Limited -> [minute : Nat, day : Nat]]
  /\ analyses \in 0..MaxAnalyses
RunTypes ==
  /\ run \in [Callers -> Run]
  /\ \A c \in Callers : run[c].bear => run[c].todo # <<>>
ResultTypes == result \in [Callers -> SUBSET Proposal]

(* The parts are type correctness.                                         *)
LEMMA Types == TypeOK <=> KeyTypes /\ RunTypes /\ ResultTypes
BY Zenon DEF TypeOK, KeyTypes, RunTypes, ResultTypes

(* And so they are after a step.                                           *)
LEMMA TypesNext == TypeOK' <=> KeyTypes' /\ RunTypes' /\ ResultTypes'
BY Zenon DEF TypeOK, KeyTypes, RunTypes, ResultTypes

-----------------------------------------------------------------------------
(* The keys.                                                               *)

(* Only a call, a denial and time change a key.                            *)
LEMMA KeysChange ==
  ASSUME [Next]_vars
  PROVE  \/ Tick
         \/ \E c \in Callers : Call(c) \/ Denied(c)
         \/ UNCHANGED <<clock, counters, made>>
BY ZenonT(60) DEF Next, Advance, Reply, Crash, Start, Exhausted, TierDraft, AskBearCase, Return,
       ProviderFails, Invalid, Odd, Answer, Assess, vars, clock, counters

(* The keys keep their types when they are counted.                        *)
LEMMA CountTypes ==
  ASSUME KeyTypes, NEW p \in Limited, Count(p)
  PROVE  minute' \in [Limited -> Key] /\ day' \in [Limited -> Key]
<1>1. MinuteTTL \in Nat /\ DayTTL \in Nat
  BY DEF MinuteTTL, DayTTL
<1>2. /\ Incr(minute[p].n, PerMinute[p]) \in Nat
      /\ Incr(day[p].n, PerDay[p]) \in Nat
  BY DEF KeyTypes, Key, Incr
<1> QED BY <1>1, <1>2 DEF KeyTypes, Count, Key

(* A key a tick older is a key.                                            *)
LEMMA AgedType ==
  ASSUME NEW key \in Key
  PROVE  Aged(key) \in Key
<1>1. key.n \in Nat /\ key.left \in Nat /\ NoKey \in Key
  BY DEF Key, NoKey
<1>2. CASE key.left <= 1
  BY <1>1, <1>2 DEF Aged
<1>3. CASE ~(key.left <= 1)
  <2>1. key.left - 1 \in Nat
    BY <1>1, <1>3
  <2>2. [key EXCEPT !.left = key.left - 1] \in Key
    BY <2>1 DEF Key
  <2> QED BY <1>3, <2>2 DEF Aged
<1> QED BY <1>2, <1>3

(* The clock and the keys keep their types.                                *)
LEMMA KeyTypesStep == KeyTypes /\ RunTypes /\ [Next]_vars => KeyTypes'
<1> SUFFICES ASSUME KeyTypes, RunTypes, [Next]_vars PROVE KeyTypes'
  OBVIOUS
<1>1. analyses' \in 0..MaxAnalyses
  <2>1. analyses' = analyses \/ (analyses < MaxAnalyses /\ analyses' = analyses + 1)
    BY ZenonT(60) DEF Next, Tick, Advance, Reply, Crash, Start, Call, Denied, Exhausted, TierDraft,
           AskBearCase, Return, ProviderFails, Invalid, Odd, Answer, Assess, vars
  <2> QED BY <2>1 DEF KeyTypes
<1>2. CASE Tick
  <2>1. NoKey \in Key
    BY DEF NoKey, Key
  <2>2. minute' \in [Limited -> Key] /\ day' \in [Limited -> Key]
    BY <1>2, <2>1, AgedType DEF Tick, KeyTypes
  <2>3. made' \in [Limited -> [minute : Nat, day : Nat]]
    BY <1>2 DEF Tick, KeyTypes
  <2>4. sec' \in 0..(MinuteTicks - 1) /\ tod' \in 0..(DayTicks - 1)
    BY <1>2 DEF Tick, KeyTypes
  <2> QED BY <1>1, <2>2, <2>3, <2>4 DEF KeyTypes
<1>3. ASSUME NEW c \in Callers, Call(c)
      PROVE  KeyTypes'
  <2>1. CASE Current(c) \in Limited
    <3>1. minute' \in [Limited -> Key] /\ day' \in [Limited -> Key]
      BY <1>3, <2>1, CountTypes DEF Call
    <3>2. made' \in [Limited -> [minute : Nat, day : Nat]]
      <4> DEFINE more == [minute |-> made[Current(c)].minute + 1,
                          day |-> made[Current(c)].day + 1]
      <4>1. more \in [minute : Nat, day : Nat]
        BY <2>1 DEF KeyTypes
      <4>2. made' = [made EXCEPT ![Current(c)] = more]
        BY <1>3, <2>1 DEF Call
      <4> HIDE DEF more
      <4> QED BY <4>1, <4>2 DEF KeyTypes
    <3> QED BY <1>1, <1>3, <3>1, <3>2 DEF KeyTypes, Call, clock
  <2>2. CASE Current(c) \notin Limited
    BY <1>1, <1>3, <2>2 DEF KeyTypes, Call, clock, counters
  <2> QED BY <2>1, <2>2
<1>4. ASSUME NEW c \in Callers, Denied(c)
      PROVE  KeyTypes'
  <2>1. Current(c) \in Limited
    BY <1>4 DEF Denied, Allowed
  <2>2. minute' \in [Limited -> Key] /\ day' \in [Limited -> Key]
    BY <1>4, <2>1, CountTypes DEF Denied
  <2> QED BY <1>1, <1>4, <2>2 DEF KeyTypes, Denied, clock
<1>5. CASE UNCHANGED <<clock, counters, made>>
  BY <1>1, <1>5 DEF KeyTypes, clock, counters
<1> QED BY <1>2, <1>3, <1>4, <1>5, KeysChange

(* A key that was kept and is called once more is kept.                    *)
LEMMA CalledKept ==
  ASSUME NEW key \in Key, NEW calls \in Nat, NEW limit \in Nat, NEW rest \in Int,
         NEW ttl \in Nat, ttl >= rest, KeyKept(key, calls, limit, rest), key.n + 1 <= limit
  PROVE  KeyKept([n |-> Incr(key.n, limit), left |-> ttl], calls + 1, limit, rest)
BY DEF KeyKept, Key, Incr

(* A key that was kept and is counted for a denial is kept.                *)
LEMMA DeniedKept ==
  ASSUME NEW key \in Key, NEW calls \in Nat, NEW limit \in Nat, NEW rest \in Int,
         NEW ttl \in Nat, ttl >= rest, KeyKept(key, calls, limit, rest)
  PROVE  KeyKept([n |-> Incr(key.n, limit), left |-> ttl], calls, limit, rest)
BY DEF KeyKept, Key, Incr

(* A key that is kept is kept for a tick unless its window is over.        *)
LEMMA AgedKept ==
  ASSUME NEW key \in Key, NEW calls \in Nat, NEW limit \in Nat, NEW rest \in Int,
         rest > 1, KeyKept(key, calls, limit, rest)
  PROVE  KeyKept(Aged(key), calls, limit, rest - 1)
BY DEF KeyKept, Key, Aged, NoKey

(* A window begins with no key and no calls.                               *)
LEMMA FreshKept ==
  ASSUME NEW limit \in Nat, NEW rest \in Int
  PROVE  KeyKept(NoKey, 0, limit, rest)
BY DEF KeyKept, NoKey

(* The keys are kept by every step.                                        *)
LEMMA KeysKeptStep ==
  ASSUME KeyTypes, MinutesKept, DaysKept, [Next]_vars
  PROVE  MinutesKept' /\ DaysKept'
<1>1. /\ sec \in 0..(MinuteTicks - 1) /\ tod \in 0..(DayTicks - 1)
      /\ minute \in [Limited -> Key] /\ day \in [Limited -> Key]
      /\ made \in [Limited -> [minute : Nat, day : Nat]]
  BY DEF KeyTypes
<1>2. CASE Tick
  <2> SUFFICES ASSUME NEW p \in Limited
               PROVE  /\ KeyKept(minute[p], made[p].minute, PerMinute[p], MinuteTicks - sec)'
                      /\ KeyKept(day[p], made[p].day, PerDay[p], DayTicks - tod)'
    BY DEF MinutesKept, DaysKept
  <2>1. /\ KeyKept(minute[p], made[p].minute, PerMinute[p], MinuteTicks - sec)
        /\ KeyKept(day[p], made[p].day, PerDay[p], DayTicks - tod)
    BY DEF MinutesKept, DaysKept
  <2>2. /\ minute[p] \in Key /\ day[p] \in Key
        /\ made[p].minute \in Nat /\ made[p].day \in Nat
        /\ PerMinute[p] \in Nat /\ PerDay[p] \in Nat
    BY <1>1
  <2>3. KeyKept(minute'[p], made'[p].minute, PerMinute[p], MinuteTicks - sec')
    <3>1. CASE sec + 1 = MinuteTicks
      <4>1. minute'[p] = NoKey /\ made'[p].minute = 0 /\ MinuteTicks - sec' \in Int
        BY <1>1, <1>2, <3>1 DEF Tick
      <4> QED BY <2>2, <4>1, FreshKept
    <3>2. CASE sec + 1 # MinuteTicks
      <4>1. minute'[p] = Aged(minute[p]) /\ made'[p].minute = made[p].minute /\ sec' = sec + 1
        BY <1>1, <1>2, <3>2 DEF Tick
      <4>2. MinuteTicks - sec > 1 /\ MinuteTicks - sec \in Int
            /\ MinuteTicks - sec' = (MinuteTicks - sec) - 1
        BY <1>1, <3>2, <4>1
      <4> QED BY <2>1, <2>2, <4>1, <4>2, AgedKept
    <3> QED BY <3>1, <3>2
  <2>4. KeyKept(day'[p], made'[p].day, PerDay[p], DayTicks - tod')
    <3>1. CASE tod + 1 = DayTicks
      <4>1. day'[p] = NoKey /\ made'[p].day = 0 /\ DayTicks - tod' \in Int
        BY <1>1, <1>2, <3>1 DEF Tick
      <4> QED BY <2>2, <4>1, FreshKept
    <3>2. CASE tod + 1 # DayTicks
      <4>1. day'[p] = Aged(day[p]) /\ made'[p].day = made[p].day /\ tod' = tod + 1
        BY <1>1, <1>2, <3>2 DEF Tick
      <4>2. DayTicks - tod > 1 /\ DayTicks - tod \in Int
            /\ DayTicks - tod' = (DayTicks - tod) - 1
        BY <1>1, <3>2, <4>1
      <4> QED BY <2>1, <2>2, <4>1, <4>2, AgedKept
    <3> QED BY <3>1, <3>2
  <2> QED BY <2>3, <2>4
<1>3. ASSUME NEW c \in Callers, NEW p \in Limited, Current(c) \in Limited,
             Call(c) \/ Denied(c)
      PROVE  /\ KeyKept(minute'[p], made'[p].minute, PerMinute[p], MinuteTicks - sec)
             /\ KeyKept(day'[p], made'[p].day, PerDay[p], DayTicks - tod)
  <2>1. /\ KeyKept(minute[p], made[p].minute, PerMinute[p], MinuteTicks - sec)
        /\ KeyKept(day[p], made[p].day, PerDay[p], DayTicks - tod)
    BY DEF MinutesKept, DaysKept
  <2>2. /\ minute[p] \in Key /\ day[p] \in Key
        /\ made[p].minute \in Nat /\ made[p].day \in Nat
        /\ PerMinute[p] \in Nat /\ PerDay[p] \in Nat
        /\ MinuteTicks - sec \in Int /\ DayTicks - tod \in Int
    BY <1>1
  <2>3. /\ MinuteTTL \in Nat /\ MinuteTTL >= MinuteTicks - sec
        /\ DayTTL \in Nat /\ DayTTL >= DayTicks - tod
    BY <1>1 DEF MinuteTTL, DayTTL
  <2>4. CASE p # Current(c)
    <3>1. minute'[p] = minute[p] /\ day'[p] = day[p] /\ made'[p] = made[p]
      BY <1>1, <1>3, <2>4 DEF Call, Denied, Count
    <3> QED BY <2>1, <3>1
  <2>5. CASE p = Current(c) /\ Call(c)
    <3>1. minute[p].n + 1 <= PerMinute[p] /\ day[p].n + 1 <= PerDay[p]
      BY <2>5 DEF Call, Allowed, Admitted
    <3>2. /\ minute'[p] = [n |-> Incr(minute[p].n, PerMinute[p]), left |-> MinuteTTL]
          /\ day'[p] = [n |-> Incr(day[p].n, PerDay[p]), left |-> DayTTL]
          /\ made'[p].minute = made[p].minute + 1 /\ made'[p].day = made[p].day + 1
      BY <1>1, <2>5 DEF Call, Count
    <3>3. KeyKept(minute'[p], made'[p].minute, PerMinute[p], MinuteTicks - sec)
      <4>1. KeyKept([n |-> Incr(minute[p].n, PerMinute[p]), left |-> MinuteTTL],
                    made[p].minute + 1, PerMinute[p], MinuteTicks - sec)
        BY <2>1, <2>2, <2>3, <3>1, CalledKept
      <4> QED BY <4>1, <3>2
    <3>4. KeyKept(day'[p], made'[p].day, PerDay[p], DayTicks - tod)
      <4>1. KeyKept([n |-> Incr(day[p].n, PerDay[p]), left |-> DayTTL],
                    made[p].day + 1, PerDay[p], DayTicks - tod)
        BY <2>1, <2>2, <2>3, <3>1, CalledKept
      <4> QED BY <4>1, <3>2
    <3> QED BY <3>3, <3>4
  <2>6. CASE p = Current(c) /\ Denied(c)
    <3>1. /\ minute'[p] = [n |-> Incr(minute[p].n, PerMinute[p]), left |-> MinuteTTL]
          /\ day'[p] = [n |-> Incr(day[p].n, PerDay[p]), left |-> DayTTL]
          /\ made'[p] = made[p]
      BY <1>1, <2>6 DEF Denied, Count
    <3>2. KeyKept(minute'[p], made'[p].minute, PerMinute[p], MinuteTicks - sec)
      <4>1. KeyKept([n |-> Incr(minute[p].n, PerMinute[p]), left |-> MinuteTTL],
                    made[p].minute, PerMinute[p], MinuteTicks - sec)
        BY <2>1, <2>2, <2>3, DeniedKept
      <4> QED BY <4>1, <3>1
    <3>3. KeyKept(day'[p], made'[p].day, PerDay[p], DayTicks - tod)
      <4>1. KeyKept([n |-> Incr(day[p].n, PerDay[p]), left |-> DayTTL],
                    made[p].day, PerDay[p], DayTicks - tod)
        BY <2>1, <2>2, <2>3, DeniedKept
      <4> QED BY <4>1, <3>1
    <3> QED BY <3>2, <3>3
  <2> QED BY <1>3, <2>4, <2>5, <2>6
<1>4. ASSUME NEW c \in Callers, Current(c) \notin Limited, Call(c) \/ Denied(c)
      PROVE  UNCHANGED <<clock, counters, made>>
  BY <1>4 DEF Call, Denied, Allowed
<1>5. ASSUME NEW c \in Callers, Call(c) \/ Denied(c)
      PROVE  UNCHANGED clock
  BY <1>5 DEF Call, Denied
<1>6. CASE UNCHANGED <<clock, counters, made>>
  BY <1>6 DEF MinutesKept, DaysKept, clock, counters
<1>7. ASSUME NEW c \in Callers, Call(c) \/ Denied(c)
      PROVE  MinutesKept' /\ DaysKept'
  <2>1. CASE Current(c) \in Limited
    <3>1. sec' = sec /\ tod' = tod
      BY <1>5, <1>7 DEF clock
    <3> QED BY <1>3, <1>7, <2>1, <3>1 DEF MinutesKept, DaysKept
  <2>2. CASE Current(c) \notin Limited
    BY <1>4, <1>6, <1>7, <2>2
  <2> QED BY <2>1, <2>2
<1> QED BY <1>2, <1>6, <1>7, KeysChange

-----------------------------------------------------------------------------
(* The analyses.                                                           *)

(* What the invariant says of one analysis of caller c.                    *)
Good(c, r) ==
  /\ r \in Run /\ (r.bear => r.todo # <<>>)
  /\ Spent(r)
  /\ \A i \in DOMAIN r.todo : r.todo[i].bear = "unasked"
  /\ r.bear => HighStakes(c, Head(r.todo).draft)
  /\ \A p \in r.tiered : Reviewed(c, p)

(* It is the part of the invariant about the analyses.                     *)
LEMMA RunsGood ==
  RunTypes /\ QuestionSpent /\ TieredReviewed
    <=> (run \in [Callers -> Run] /\ \A c \in Callers : Good(c, run[c]))
BY DEF RunTypes, QuestionSpent, TieredReviewed, Good

(* And so it is after a step.                                              *)
LEMMA RunsGoodNext ==
  (RunTypes /\ QuestionSpent /\ TieredReviewed)'
    <=> (run' \in [Callers -> Run] /\ \A c \in Callers : Good(c, run'[c]))
BY DEF RunTypes, QuestionSpent, TieredReviewed, Good, Spent, HighStakes, Reviewed

(* The fields of an analysis.                                              *)
LEMMA Fields ==
  ASSUME NEW r \in Run
  PROVE  /\ r.stage \in {"idle", "choose", "waiting", "tiering"}
         /\ r.attempt \in {1, 2} /\ r.next \in 1..(Len(Chain) + 1)
         /\ r.tries \in Nat /\ r.bear \in BOOLEAN
         /\ r.todo \in Seq(Proposal) /\ r.tiered \in SUBSET Proposal
         /\ Len(Chain) \in Nat
BY DEF Run

(* No analysis is running.                                                 *)
LEMMA IdleGood == ASSUME NEW c \in Callers PROVE Good(c, Idle)
<1>1. Idle \in Run
  BY DEF Idle, Run
<1>2. Spent(Idle)
  BY DEF Idle, Spent
<1> QED BY <1>1, <1>2 DEF Good, Idle

(* The head and the rest of the drafts that wait to be tiered.             *)
LEMMA HeadAndTail ==
  ASSUME NEW todo \in Seq(Proposal), todo # <<>>
  PROVE  /\ Head(todo) \in Proposal /\ Head(todo) = todo[1] /\ 1 \in DOMAIN todo
         /\ Tail(todo) \in Seq(Proposal)
         /\ \A i \in DOMAIN Tail(todo) : i + 1 \in DOMAIN todo /\ Tail(todo)[i] = todo[i + 1]
OBVIOUS

(* What a question has cost when it is over.                               *)
LEMMA SpentInAll ==
  ASSUME NEW r \in Run, Spent(r)
  PROVE  r.tries <= 2 * Len(Chain)
<1>1. /\ r.attempt = 1 \/ r.attempt = 2
      /\ r.next \in 1..(Len(Chain) + 1) /\ r.tries \in Nat /\ Len(Chain) \in Nat
      /\ r.stage \in {"idle", "choose", "waiting", "tiering"}
  BY Fields
<1>2. \/ r.stage = "idle" /\ r.tries = 0
      \/ r.stage = "tiering" /\ r.tries <= 2 * Len(Chain)
      \/ r.tries <= (r.attempt - 1) * Len(Chain) + r.next - 1
      \/ r.next <= Len(Chain) /\ r.tries <= (r.attempt - 1) * Len(Chain) + r.next
  BY <1>1 DEF Spent
<1>3. CASE r.attempt = 1
  BY <1>1, <1>2, <1>3
<1>4. CASE r.attempt = 2
  BY <1>1, <1>2, <1>4
<1> QED BY <1>1, <1>3, <1>4

(* A draft that is tiered as it must be leaves a good analysis.            *)
LEMMA KeepGood ==
  ASSUME NEW c \in Callers, run \in [Callers -> Run], Good(c, run[c]), run[c].todo # <<>>,
         NEW p \in Proposal, Reviewed(c, p), Keep(c, p)
  PROVE  Good(c, run'[c])
<1> DEFINE r == run[c]
           kept == {q \in r.tiered : q.draft.ticker # p.draft.ticker} \cup {p}
<1>1. r \in Run /\ Spent(r)
  BY DEF Good
<1>2. /\ r.attempt \in {1, 2} /\ r.next \in 1..(Len(Chain) + 1)
      /\ r.tries \in Nat /\ r.tries <= 2 * Len(Chain)
      /\ r.todo \in Seq(Proposal) /\ r.tiered \in SUBSET Proposal
  BY <1>1, Fields, SpentInAll
<1>3. run'[c] = [stage |-> "tiering", attempt |-> r.attempt, next |-> r.next,
                 tries |-> r.tries, bear |-> FALSE, todo |-> Tail(r.todo), tiered |-> kept]
  BY <1>1 DEF Keep, Run
<1>4. Tail(r.todo) \in Seq(Proposal) /\ kept \in SUBSET Proposal
  BY <1>2, HeadAndTail
<1>5. run'[c] \in Run
  BY <1>2, <1>3, <1>4 DEF Run
<1>6. Spent(run'[c])
  BY <1>2, <1>3 DEF Spent
<1>7. \A i \in DOMAIN run'[c].todo : run'[c].todo[i].bear = "unasked"
  BY <1>2, <1>3, HeadAndTail DEF Good
<1>8. \A q \in run'[c].tiered : Reviewed(c, q)
  BY <1>3 DEF Good
<1> QED BY <1>3, <1>5, <1>6, <1>7, <1>8 DEF Good

(* A step of one caller leaves the other's analysis alone.                 *)
LEMMA OneMoves ==
  ASSUME run \in [Callers -> Run], NEW c \in Callers, Start(c) \/ Advance(c) \/ Reply(c)
  PROVE  run' = [run EXCEPT ![c] = run'[c]]
<1>1. CASE Start(c)
  BY <1>1 DEF Start
<1>2. CASE Call(c) \/ Denied(c) \/ AskBearCase(c) \/ Return(c)
  BY <1>2 DEF Call, Denied, AskBearCase, Return
<1>3. CASE Exhausted(c) \/ Invalid(c)
  BY <1>3 DEF Exhausted, Invalid, Unanswered, Keep
<1>4. CASE TierDraft(c) \/ Assess(c)
  BY <1>4 DEF TierDraft, Assess, Keep
<1>5. CASE ProviderFails(c) \/ Odd(c) \/ Answer(c)
  BY <1>5 DEF ProviderFails, Odd, Answer
<1> QED BY <1>1, <1>2, <1>3, <1>4, <1>5 DEF Advance, Reply

(* A question is put to the chain.                                         *)
LEMMA ChooseGood ==
  ASSUME run \in [Callers -> Run], NEW c \in Callers, Good(c, run[c]),
         Start(c) \/ Call(c) \/ Denied(c) \/ ProviderFails(c)
  PROVE  Good(c, run'[c])
<1> DEFINE r == run[c]
<1>1. /\ r \in Run /\ r.attempt \in {1, 2} /\ r.next \in 1..(Len(Chain) + 1)
      /\ r.tries \in Nat /\ Len(Chain) \in Nat /\ Spent(r)
      /\ (r.attempt - 1) * Len(Chain) \in Nat
  BY Fields DEF Good
<1>2. /\ run'[c] \in Run /\ run'[c].bear = r.bear /\ run'[c].todo = r.todo
      /\ run'[c].tiered = r.tiered
  <2>1. CASE Start(c)
    BY <1>1, <2>1 DEF Start, Run
  <2>2. CASE Call(c)
    <3>1. run'[c] = [r EXCEPT !.stage = "waiting", !.tries = r.tries + 1]
      BY <2>2 DEF Call
    <3>2. r.tries + 1 \in Nat
      BY <1>1
    <3> QED BY <1>1, <3>1, <3>2 DEF Run
  <2>3. CASE Denied(c) \/ ProviderFails(c)
    <3>1. r.next <= Len(Chain)
      BY <1>1, <2>3 DEF Denied, ProviderFails, Spent
    <3>2. r.next + 1 \in 1..(Len(Chain) + 1)
      BY <1>1, <3>1
    <3> QED BY <1>1, <2>3, <3>2, SMTT(30) DEF Denied, ProviderFails, Run
  <2> QED BY <2>1, <2>2, <2>3
<1>3. Spent(run'[c])
  <2>1. CASE Start(c)
    <3>1. run'[c] = [r EXCEPT !.stage = "choose"] /\ r.stage = "idle"
      BY <2>1 DEF Start
    <3>2. r.tries = 0
      BY <3>1, <1>1 DEF Spent
    <3>3. /\ run'[c].stage = "choose" /\ run'[c].next = r.next
          /\ run'[c].attempt = r.attempt /\ run'[c].tries = 0
      BY <1>1, <3>1, <3>2 DEF Run
    <3>4. 0 <= (r.attempt - 1) * Len(Chain) + r.next - 1
      BY <1>1
    <3> QED BY <3>3, <3>4 DEF Spent
  <2>2. CASE Call(c)
    <3>1. /\ run'[c].stage = "waiting" /\ run'[c].next = r.next /\ run'[c].attempt = r.attempt
          /\ run'[c].tries = r.tries + 1 /\ r.next <= Len(Chain) /\ r.stage = "choose"
      BY <1>1, <2>2 DEF Call, Run
    <3>2. r.tries <= (r.attempt - 1) * Len(Chain) + r.next - 1
      BY <1>1, <3>1 DEF Spent
    <3>3. r.tries + 1 <= (r.attempt - 1) * Len(Chain) + r.next
      BY <1>1, <3>2
    <3> QED BY <3>1, <3>3 DEF Spent
  <2>3. CASE Denied(c) \/ ProviderFails(c)
    <3>1. /\ run'[c].stage = "choose" /\ run'[c].next = r.next + 1
          /\ run'[c].attempt = r.attempt /\ run'[c].tries = r.tries
          /\ r.stage = "choose" \/ r.stage = "waiting"
      BY <1>1, <2>3 DEF Denied, ProviderFails, Run
    <3>2. r.tries <= (r.attempt - 1) * Len(Chain) + r.next
      <4>1. \/ r.tries <= (r.attempt - 1) * Len(Chain) + r.next - 1
            \/ r.tries <= (r.attempt - 1) * Len(Chain) + r.next
        BY <1>1, <3>1 DEF Spent
      <4> QED BY <1>1, <4>1
    <3>3. r.tries <= (r.attempt - 1) * Len(Chain) + (r.next + 1) - 1
      BY <1>1, <3>2
    <3> QED BY <3>1, <3>3 DEF Spent
  <2> QED BY <2>1, <2>2, <2>3
<1> QED BY <1>2, <1>3 DEF Good

(* A question that stays without an answer.                                *)
LEMMA UnansweredGood ==
  ASSUME run \in [Callers -> Run], NEW c \in Callers, Good(c, run[c]), Unanswered(c)
  PROVE  Good(c, run'[c])
<1>1. run[c] \in Run /\ run[c].bear \in BOOLEAN
  BY Fields
<1>2. CASE run[c].bear
  <2> DEFINE h == Head(run[c].todo)
             p == [h EXCEPT !.bear = "failed", !.tier = "tier_3"]
  <2>1. run[c].todo # <<>> /\ run[c].todo \in Seq(Proposal) /\ HighStakes(c, h.draft)
    BY <1>1, <1>2, Fields DEF Good
  <2>2. h \in Proposal
    BY <2>1, HeadAndTail
  <2>3. p \in Proposal /\ p.draft = h.draft /\ p.bear = "failed" /\ p.tier = "tier_3"
    BY <2>2 DEF Proposal, Tiers
  <2>4. Reviewed(c, p)
    BY <2>1, <2>3 DEF Reviewed
  <2>5. Keep(c, p)
    BY <1>2 DEF Unanswered
  <2> HIDE DEF p
  <2> QED BY <2>1, <2>3, <2>4, <2>5, KeepGood
<1>3. CASE ~run[c].bear
  BY <1>3, IdleGood DEF Unanswered
<1> QED BY <1>2, <1>3

(* The end of the chain, and answers that do not validate.                 *)
LEMMA FailGood ==
  ASSUME run \in [Callers -> Run], NEW c \in Callers, Good(c, run[c]),
         Exhausted(c) \/ Invalid(c) \/ Odd(c)
  PROVE  Good(c, run'[c])
<1> DEFINE r == run[c]
<1>1. /\ r \in Run /\ r.attempt \in {1, 2} /\ r.next \in 1..(Len(Chain) + 1)
      /\ r.tries \in Nat /\ Len(Chain) \in Nat /\ Spent(r)
  BY Fields DEF Good
<1>2. CASE Unanswered(c)
  BY <1>2, UnansweredGood
<1>3. CASE Odd(c)
  BY <1>3, IdleGood DEF Odd
<1>4. CASE Invalid(c) /\ r.attempt = 1 /\ ~Unanswered(c)
  <2>1. run'[c] = [r EXCEPT !.stage = "choose", !.attempt = 2, !.next = 1]
    BY <1>4 DEF Invalid
  <2>2. r.stage = "waiting" /\ r.tries <= Len(Chain)
    BY <1>1, <1>4 DEF Spent, Invalid
  <2>3. /\ run'[c] \in Run /\ run'[c].bear = r.bear /\ run'[c].todo = r.todo
        /\ run'[c].tiered = r.tiered /\ run'[c].stage = "choose" /\ run'[c].attempt = 2
        /\ run'[c].next = 1 /\ run'[c].tries = r.tries
    <3>1. 1 \in 1..(Len(Chain) + 1)
      BY <1>1
    <3> QED BY <1>1, <2>1, <3>1 DEF Run
  <2>4. Spent(run'[c])
    BY <1>1, <2>2, <2>3 DEF Spent
  <2> QED BY <2>3, <2>4 DEF Good
<1> QED BY <1>2, <1>3, <1>4 DEF Exhausted, Invalid

(* The main question is answered.                                          *)
LEMMA AnswerGood ==
  ASSUME run \in [Callers -> Run], NEW c \in Callers, Good(c, run[c]), Answer(c)
  PROVE  Good(c, run'[c])
<1> DEFINE r == run[c]
<1>1. /\ r \in Run /\ r.attempt \in {1, 2} /\ r.next \in 1..(Len(Chain) + 1)
      /\ r.tries \in Nat /\ ~r.bear /\ r.tiered \in SUBSET Proposal
      /\ r.tries <= 2 * Len(Chain)
  BY Fields, SpentInAll DEF Good, Answer
<1>2. PICK n \in 0..MaxOf(c) : \E drafts \in [1..n -> Drafts] :
        run' = [run EXCEPT ![c].stage = "tiering", ![c].todo = Written(drafts)]
  BY DEF Answer
<1>3. PICK drafts \in [1..n -> Drafts] :
        run' = [run EXCEPT ![c].stage = "tiering", ![c].todo = Written(drafts)]
  BY <1>2
<1>4. Written(drafts) \in [1..n -> Proposal]
  BY DEF Written, Proposal
<1>5. n \in Nat
  BY DEF MaxOf
<1>6. Written(drafts) \in Seq(Proposal)
  BY <1>4, <1>5
<1>7. \A i \in DOMAIN Written(drafts) : Written(drafts)[i].bear = "unasked"
  BY DEF Written
<1>8. run'[c] = [r EXCEPT !.stage = "tiering", !.todo = Written(drafts)]
  BY <1>3
<1>9. /\ run'[c] \in Run /\ run'[c].stage = "tiering" /\ run'[c].tries = r.tries
      /\ run'[c].bear = r.bear /\ run'[c].tiered = r.tiered
      /\ run'[c].todo = Written(drafts)
  BY <1>1, <1>6, <1>8 DEF Run
<1>10. Spent(run'[c])
  BY <1>1, <1>9 DEF Spent
<1> QED BY <1>1, <1>7, <1>9, <1>10 DEF Good

(* Tier 3 is what the high stakes are.                                     *)
LEMMA TierIsStakes ==
  ASSUME NEW c \in Callers, NEW d \in Drafts
  PROVE  /\ Tier(c, d) = "tier_3" <=> HighStakes(c, d)
         /\ Tier(c, d) \in Tiers
<1>1. d.confidence \in 1..10 /\ d.permille \in 1..50
  <2>1. d \in [ticker : Tickers, confidence : 1..10, permille : 1..50]
    OBVIOUS
  <2> QED BY <2>1
<1>2. c = "news" \/ c = "filing"
  BY DEF Callers
<1>3. Tier(c, d) = "tier_3" <=> HighStakes(c, d)
  <2>1. d.permille > 5 => d.permille > 3
    <3>1. \A n \in 1..50 : n > 5 => n > 3
      OBVIOUS
    <3> QED BY <1>1, <3>1
  <2>2. CASE c = "news"
    <3>1. d.permille <= 5 <=> ~(d.permille > 5)
      <4>1. \A n \in 1..50 : n <= 5 <=> ~(n > 5)
        OBVIOUS
      <4> QED BY <1>1, <4>1
    <3>2. HighStakes(c, d) <=> d.confidence >= 8 /\ d.permille > 5
      BY <2>2, Zenon DEF HighStakes
    <3>3. CASE d.confidence >= 8 /\ d.permille > 5
      BY <2>1, <2>2, <3>1, <3>2, <3>3 DEF Tier
    <3>4. CASE ~(d.confidence >= 8 /\ d.permille > 5)
      BY <2>1, <2>2, <3>1, <3>2, <3>4 DEF Tier
    <3> QED BY <3>3, <3>4
  <2>3. CASE c = "filing"
    BY <2>1, <2>3 DEF Tier, HighStakes
  <2> QED BY <1>2, <2>2, <2>3
<1>4. Tier(c, d) \in {"tier_1", "tier_2", "tier_3"}
  BY DEF Tier
<1> QED BY <1>3, <1>4 DEF Tiers

(* A draft is tiered without a bear case.                                  *)
LEMMA TierGood ==
  ASSUME run \in [Callers -> Run], NEW c \in Callers, Good(c, run[c]), TierDraft(c)
  PROVE  Good(c, run'[c])
<1> DEFINE h == Head(run[c].todo)
           p == [h EXCEPT !.tier = Tier(c, h.draft)]
<1>1. /\ run[c].todo # <<>> /\ run[c].todo \in Seq(Proposal)
      /\ Tier(c, h.draft) # "tier_3" /\ Keep(c, p)
  BY Fields DEF TierDraft
<1>2. h \in Proposal /\ h.bear = "unasked"
  BY <1>1, HeadAndTail DEF Good
<1>3. h.draft \in Drafts
  BY <1>2 DEF Proposal
<1>4. Tier(c, h.draft) \in Tiers /\ ~HighStakes(c, h.draft)
  BY <1>1, <1>3, TierIsStakes
<1>5. p \in Proposal /\ p.draft = h.draft /\ p.bear = "unasked"
  BY <1>2, <1>4 DEF Proposal
<1>6. Reviewed(c, p)
  BY <1>4, <1>5 DEF Reviewed
<1> HIDE DEF p
<1> QED BY <1>1, <1>5, <1>6, KeepGood

(* A bear case is asked for.                                               *)
LEMMA AskGood ==
  ASSUME run \in [Callers -> Run], NEW c \in Callers, Good(c, run[c]), AskBearCase(c)
  PROVE  Good(c, run'[c])
<1> DEFINE r == run[c]
<1>1. /\ r \in Run /\ r.todo # <<>> /\ r.todo \in Seq(Proposal)
      /\ Tier(c, Head(r.todo).draft) = "tier_3" /\ Len(Chain) \in Nat
      /\ r.tiered \in SUBSET Proposal
  BY Fields DEF AskBearCase
<1>2. Head(r.todo).draft \in Drafts
  BY <1>1, HeadAndTail DEF Proposal
<1>3. HighStakes(c, Head(r.todo).draft)
  BY <1>1, <1>2, TierIsStakes
<1>4. run'[c] = [stage |-> "choose", attempt |-> 1, next |-> 1, tries |-> 0, bear |-> TRUE,
                 todo |-> r.todo, tiered |-> r.tiered]
  BY <1>1 DEF AskBearCase, Run
<1>5. run'[c] \in Run
  BY <1>1, <1>4 DEF Run
<1>6. Spent(run'[c])
  BY <1>1, <1>4 DEF Spent
<1> QED BY <1>1, <1>3, <1>4, <1>5, <1>6 DEF Good

(* A bear case is answered.                                                *)
LEMMA AssessGood ==
  ASSUME run \in [Callers -> Run], NEW c \in Callers, Good(c, run[c]), Assess(c)
  PROVE  Good(c, run'[c])
<1> DEFINE h == Head(run[c].todo)
<1>1. PICK s \in Strengths :
        Keep(c, [h EXCEPT !.bear = s,
                          !.tier = IF s = "weak" THEN "rejected_bear_case" ELSE "tier_3"])
  BY DEF Assess
<1> DEFINE p == [h EXCEPT !.bear = s,
                          !.tier = IF s = "weak" THEN "rejected_bear_case" ELSE "tier_3"]
<1>2. run[c].todo # <<>> /\ run[c].todo \in Seq(Proposal) /\ HighStakes(c, h.draft)
  BY Fields DEF Good, Assess
<1>3. h \in Proposal
  BY <1>2, HeadAndTail
<1>4. p \in Proposal /\ p.draft = h.draft /\ p.bear = s
      /\ p.tier = IF s = "weak" THEN "rejected_bear_case" ELSE "tier_3"
  BY <1>3 DEF Proposal, Tiers
<1>5. Reviewed(c, p)
  BY <1>2, <1>4 DEF Reviewed
<1>6. Keep(c, p)
  BY <1>1
<1> HIDE DEF p
<1> QED BY <1>2, <1>4, <1>5, <1>6, KeepGood

(* Every step of an analysis keeps it good.                                *)
LEMMA GoodStep ==
  ASSUME run \in [Callers -> Run], \A c \in Callers : Good(c, run[c]), [Next]_vars
  PROVE  run' \in [Callers -> Run] /\ \A c \in Callers : Good(c, run'[c])
<1>1. CASE run' = run
  BY <1>1
<1>2. CASE Crash
  <2>1. run' = [c \in Callers |-> Idle] /\ Idle \in Run
    BY <1>2, IdleGood DEF Crash, Good
  <2> QED BY <2>1, IdleGood
<1>3. ASSUME NEW c \in Callers, Start(c) \/ Advance(c) \/ Reply(c)
      PROVE  run' \in [Callers -> Run] /\ \A d \in Callers : Good(d, run'[d])
  <2>1. Good(c, run[c])
    OBVIOUS
  <2>2. Good(c, run'[c])
    <3>1. CASE Start(c) \/ Call(c) \/ Denied(c) \/ ProviderFails(c)
      BY <2>1, <3>1, ChooseGood
    <3>2. CASE Exhausted(c) \/ Invalid(c) \/ Odd(c)
      BY <2>1, <3>2, FailGood
    <3>3. CASE Answer(c)
      BY <2>1, <3>3, AnswerGood
    <3>4. CASE TierDraft(c)
      BY <2>1, <3>4, TierGood
    <3>5. CASE AskBearCase(c)
      BY <2>1, <3>5, AskGood
    <3>6. CASE Assess(c)
      BY <2>1, <3>6, AssessGood
    <3>7. CASE Return(c)
      <4>1. run'[c] = Idle
        BY <3>7 DEF Return
      <4> QED BY <4>1, IdleGood
    <3> QED BY <1>3, <3>1, <3>2, <3>3, <3>4, <3>5, <3>6, <3>7 DEF Advance, Reply
  <2>3. run' = [run EXCEPT ![c] = run'[c]] /\ run'[c] \in Run
    BY <1>3, <2>2, OneMoves DEF Good
  <2>4. run' \in [Callers -> Run] /\ \A d \in Callers \ {c} : run'[d] = run[d]
    BY <2>3
  <2> QED BY <2>2, <2>4
<1>4. CASE Tick \/ UNCHANGED vars
  BY <1>1, <1>4 DEF Tick, vars
<1> QED BY <1>2, <1>3, <1>4 DEF Next

(* What an analysis returns is part of what it tiered.                     *)
LEMMA ResultStep ==
  ASSUME run \in [Callers -> Run], \A c \in Callers : Good(c, run[c]),
         ResultTypes, HighStakesReviewed, [Next]_vars
  PROVE  ResultTypes' /\ HighStakesReviewed'
<1>1. CASE result' = result
  <2>1. ResultTypes'
    BY <1>1 DEF ResultTypes
  <2>2. HighStakesReviewed'
    BY <1>1 DEF HighStakesReviewed, Reviewed, HighStakes
  <2> QED BY <2>1, <2>2
<1>2. ASSUME NEW c \in Callers, NEW R, result' = [result EXCEPT ![c] = R],
             R \subseteq run[c].tiered
      PROVE  ResultTypes' /\ HighStakesReviewed'
  <2>1. run[c] \in Run /\ run[c].tiered \in SUBSET Proposal
        /\ \A p \in run[c].tiered : Reviewed(c, p)
    BY Fields DEF Good
  <2>2. ResultTypes'
    BY <1>2, <2>1 DEF ResultTypes
  <2>3. \A d \in Callers : \A p \in result'[d] : Reviewed(d, p)
    BY <1>2, <2>1 DEF HighStakesReviewed, ResultTypes
  <2>4. HighStakesReviewed'
    BY <2>3 DEF HighStakesReviewed, Reviewed, HighStakes
  <2> QED BY <2>2, <2>4
<1>3. ASSUME NEW c \in Callers, Start(c) \/ Exhausted(c) \/ Invalid(c) \/ Odd(c)
      PROVE  result' = result \/ result' = [result EXCEPT ![c] = {}]
  BY <1>3 DEF Start, Exhausted, Invalid, Odd, Unanswered
<1>4. ASSUME NEW c \in Callers, Return(c)
      PROVE  \E R \in SUBSET run[c].tiered : result' = [result EXCEPT ![c] = R]
  <2>1. PICK asked \in SUBSET Tickers :
          result' = [result EXCEPT ![c] = {p \in run[c].tiered : p.draft.ticker \in asked}]
    BY <1>4 DEF Return
  <2> QED BY <2>1
<1>5. ASSUME NEW c \in Callers,
             Call(c) \/ Denied(c) \/ TierDraft(c) \/ AskBearCase(c) \/ ProviderFails(c)
               \/ Answer(c) \/ Assess(c)
      PROVE  result' = result
  BY <1>5 DEF Call, Denied, TierDraft, AskBearCase, ProviderFails, Answer, Assess
<1>6. ASSUME NEW c \in Callers, Start(c) \/ Advance(c) \/ Reply(c)
      PROVE  ResultTypes' /\ HighStakesReviewed'
  <2>1. CASE Start(c) \/ Exhausted(c) \/ Invalid(c) \/ Odd(c)
    BY <1>1, <1>2, <1>3, <2>1
  <2>2. CASE Return(c)
    BY <1>2, <1>4, <2>2
  <2>3. CASE Call(c) \/ Denied(c) \/ TierDraft(c) \/ AskBearCase(c) \/ ProviderFails(c)
               \/ Answer(c) \/ Assess(c)
    BY <1>1, <1>5, <2>3
  <2> QED BY <1>6, <2>1, <2>2, <2>3 DEF Advance, Reply
<1>7. CASE Tick \/ Crash \/ UNCHANGED vars
  BY <1>1, <1>7 DEF Tick, Crash, vars
<1> QED BY <1>6, <1>7 DEF Next

-----------------------------------------------------------------------------
(* The theorems.                                                           *)

(* The invariant holds in the beginning.                                   *)
LEMMA InitIInv == Init => IInv
<1> SUFFICES ASSUME Init PROVE IInv
  OBVIOUS
<1>1. KeyTypes
  BY DEF Init, KeyTypes, Key, NoKey
<1>2. run \in [Callers -> Run] /\ \A c \in Callers : Good(c, run[c])
  <2>1. run = [c \in Callers |-> Idle] /\ Idle \in Run
    BY IdleGood DEF Init, Good, Callers
  <2> QED BY <2>1, IdleGood
<1>3. ResultTypes /\ HighStakesReviewed
  BY DEF Init, ResultTypes, HighStakesReviewed
<1>4. MinutesKept /\ DaysKept
  BY DEF Init, MinutesKept, DaysKept, KeyKept, NoKey
<1>5. RunTypes /\ QuestionSpent /\ TieredReviewed
  BY <1>2, RunsGood
<1> QED BY <1>1, <1>3, <1>4, <1>5, Types DEF IInv

(* Every step keeps it.                                                    *)
LEMMA StepIInv == IInv /\ [Next]_vars => IInv'
<1> SUFFICES ASSUME IInv, [Next]_vars PROVE IInv'
  OBVIOUS
<1>1. KeyTypes /\ RunTypes /\ ResultTypes
  BY Types DEF IInv
<1>2. run \in [Callers -> Run] /\ \A c \in Callers : Good(c, run[c])
  BY <1>1, RunsGood DEF IInv
<1>3. KeyTypes'
  BY <1>1, KeyTypesStep
<1>4. MinutesKept' /\ DaysKept'
  BY <1>1, KeysKeptStep DEF IInv
<1>5. (RunTypes /\ QuestionSpent /\ TieredReviewed)'
  BY <1>2, GoodStep, RunsGoodNext
<1>6. ResultTypes' /\ HighStakesReviewed'
  BY <1>1, <1>2, ResultStep DEF IInv
<1>7. TypeOK'
  BY <1>3, <1>5, <1>6, TypesNext
<1> QED BY <1>4, <1>5, <1>6, <1>7 DEF IInv

(* The invariant holds for every chain of providers, whatever fails.       *)
THEOREM Invariance == Spec => []IInv
BY InitIInv, StepIInv, PTL DEF Spec

(* Every variable keeps its type; a bear case always has its draft.        *)
THEOREM TypeCorrect == Spec => []TypeOK
<1>1. IInv => TypeOK
  BY DEF IInv
<1> QED BY <1>1, Invariance, PTL

(* The keys of RedisRateLimiter, counted up even by the calls they deny,   *)
(* hold every provider to its limits of a minute and of a day.             *)
THEOREM LimitsHold == Spec => []BudgetKept
<1>1. IInv => BudgetKept
  BY DEF IInv, MinutesKept, DaysKept, KeyKept, BudgetKept
<1> QED BY <1>1, Invariance, PTL

(* _call_with_retry costs at most two rounds of the chain.                 *)
THEOREM TwoRounds == Spec => []QuestionBounded
<1>1. IInv => QuestionBounded
  <2> SUFFICES ASSUME IInv, NEW c \in Callers PROVE run[c].tries <= 2 * Len(Chain)
    BY DEF QuestionBounded
  <2>1. run[c] \in Run /\ Spent(run[c])
    BY DEF IInv, TypeOK, QuestionSpent
  <2> QED BY <2>1, SpentInAll
<1> QED BY <1>1, Invariance, PTL

(* No proposal of high confidence and size leaves the orchestrator for     *)
(* execution unless an operator sees it, and only such a one has a bear    *)
(* case.                                                                   *)
THEOREM ReviewHolds == Spec => []HighStakesReviewed
<1>1. IInv => HighStakesReviewed
  BY DEF IInv
<1> QED BY <1>1, Invariance, PTL
=============================================================================
