---------------------------- MODULE Orchestrator ----------------------------
(***************************************************************************)
(* The LLM orchestrator between the two consumers and the providers: the   *)
(* provider chain with its rate limits in Redis, one retry after an answer *)
(* that does not validate, the tiers, and the bear case of tier 3.         *)
(*                                                                         *)
(* An analysis asks one main question, then one bear-case question for     *)
(* each tier-3 draft of the answer.  A question is tried down the chain.   *)
(* The coroutines of the two consumers share the event loop: they give it  *)
(* up only while a provider works.                                         *)
(*                                                                         *)
(* Time is the tick of the minute and the tick of the day: a rate-limit    *)
(* key is named after its UTC minute or day, so that each window starts    *)
(* with a key that does not exist.                                         *)
(***************************************************************************)
EXTENDS Integers, Sequences, FiniteSets

CONSTANTS
  Tickers,      \* the whitelist
  Chain,        \* llm_provider_chain
  Limited,      \* providers with limits
  PerMinute,    \* provider -> calls per minute
  PerDay,       \* provider -> calls per day
  Checked,      \* providers that check an answer against the JSON schema
  MinuteTicks,  \* length of a minute
  DayTicks,     \* length of a day
  Drafts,       \* proposals of the LLM that validate: ticker, confidence, size
  MaxDrafts,    \* bound on the proposals of one answer
  MaxAnalyses   \* bound on analyses

Callers == {"news", "filing"}

(* The five strengths of a bear case, as the code tells them apart.        *)
Strengths == {"weak", "strong"}

ASSUME ChainAssumption ==
  /\ Chain \in Seq(STRING)
  /\ PerMinute \in [Limited -> Nat] /\ PerDay \in [Limited -> Nat]
ASSUME ClockAssumption == MinuteTicks \in Nat \ {0} /\ DayTicks \in Nat \ {0}
ASSUME DraftAssumption ==
  /\ Drafts \subseteq [ticker : Tickers, confidence : 1..10, permille : 1..50]
  /\ MaxDrafts \in Nat /\ MaxAnalyses \in Nat

(* Mutant of DayTTL: the key of a day lives for half of it.                *)
DayTTLHalf == DayTicks \div 2

(* 90 seconds and 25 hours.                                                *)
MinuteTTL == MinuteTicks + MinuteTicks \div 2
DayTTL    == DayTicks + DayTicks \div 24

VARIABLES
  sec,      \* the tick of the minute
  tod,      \* the tick of the day
  minute,   \* provider -> this minute's key: its count and the ticks it has left
  day,      \* provider -> this day's key
  made,     \* history: provider -> calls made in this minute, in this day
  run,      \* caller -> its analysis
  result,   \* caller -> the proposals its last analysis returned
  analyses  \* analyses begun

clock    == <<sec, tod>>
counters == <<minute, day>>
vars == <<clock, counters, made, run, result, analyses>>

Tiers == {"tier_1", "tier_2", "tier_3", "rejected_bear_case"}
Key   == [n : Nat, left : Nat]
NoKey == [n |-> 0, left |-> 0]

(* A draft on its way, and what the bear case said of it.                  *)
Proposal == [draft : Drafts, bear : Strengths \cup {"unasked", "failed"},
             tier : Tiers \cup {"none"}]

Run == [stage   : {"idle", "choose", "waiting", "tiering"},
        attempt : {1, 2},          \* of _call_with_retry
        next    : 1..(Len(Chain) + 1),
        tries   : Nat,             \* history: calls for this question
        bear    : BOOLEAN,         \* the question is the bear case of todo's head
        todo    : Seq(Proposal),   \* parsed, not yet tiered
        tiered  : SUBSET Proposal] \* by_ticker

Idle == [stage |-> "idle", attempt |-> 1, next |-> 1, tries |-> 0,
         bear |-> FALSE, todo |-> <<>>, tiered |-> {}]

TypeOK ==
  /\ sec \in 0..(MinuteTicks - 1) /\ tod \in 0..(DayTicks - 1)
  /\ minute \in [Limited -> Key] /\ day \in [Limited -> Key]
  /\ made \in [Limited -> [minute : Nat, day : Nat]]
  /\ run \in [Callers -> Run]
  /\ \A c \in Callers : run[c].bear => run[c].todo # <<>>
  /\ result \in [Callers -> SUBSET Proposal]
  /\ analyses \in 0..MaxAnalyses

Init ==
  /\ sec = 0 /\ tod = 0
  /\ minute = [p \in Limited |-> NoKey] /\ day = [p \in Limited |-> NoKey]
  /\ made = [p \in Limited |-> [minute |-> 0, day |-> 0]]
  /\ run = [c \in Callers |-> Idle]
  /\ result = [c \in Callers |-> {}]
  /\ analyses = 0

-----------------------------------------------------------------------------
(* Time.                                                                   *)

(* A key in the next tick of its window: gone when its TTL is over.        *)
Aged(key) == IF key.left <= 1 THEN NoKey ELSE [key EXCEPT !.left = @ - 1]

Tick ==
  LET newMinute == sec + 1 = MinuteTicks
      newDay    == tod + 1 = DayTicks
  IN  /\ \A c \in Callers : run[c].stage \in {"idle", "waiting"}
      /\ sec' = IF newMinute THEN 0 ELSE sec + 1
      /\ tod' = IF newDay THEN 0 ELSE tod + 1
      /\ minute' = [p \in Limited |-> IF newMinute THEN NoKey ELSE Aged(minute[p])]
      /\ day'    = [p \in Limited |-> IF newDay THEN NoKey ELSE Aged(day[p])]
      /\ made'   = [p \in Limited |-> [minute |-> IF newMinute THEN 0 ELSE made[p].minute,
                                       day    |-> IF newDay THEN 0 ELSE made[p].day]]
      /\ UNCHANGED <<run, result, analyses>>

-----------------------------------------------------------------------------
(* One question.                                                           *)

(* The loop is c's unless the other caller has it.                         *)
Turn(c) == \A d \in Callers \ {c} : run[d].stage \in {"idle", "waiting"}

Current(c) == Chain[run[c].next]

(* RedisRateLimiter.allow, with both counters raised.                      *)
Admitted(p, m, d) == m <= PerMinute[p] /\ d <= PerDay[p]

(* A count above its limit is not counted further.                         *)
Incr(n, limit) == IF n > limit THEN n ELSE n + 1

Count(p) ==
  /\ minute' = [minute EXCEPT ![p] = [n |-> Incr(@.n, PerMinute[p]), left |-> MinuteTTL]]
  /\ day'    = [day EXCEPT ![p] = [n |-> Incr(@.n, PerDay[p]), left |-> DayTTL]]

Allowed(p) == p \in Limited => Admitted(p, minute[p].n + 1, day[p].n + 1)

(* The next provider is asked if its limits allow it.                      *)
Call(c) ==
  /\ run[c].stage = "choose" /\ run[c].next <= Len(Chain)
  /\ Allowed(Current(c))
  /\ IF Current(c) \in Limited
       THEN /\ Count(Current(c))
            /\ made' = [made EXCEPT ![Current(c)] =
                          [minute |-> @.minute + 1, day |-> @.day + 1]]
       ELSE UNCHANGED <<counters, made>>
  /\ run' = [run EXCEPT ![c].stage = "waiting", ![c].tries = @ + 1]
  /\ UNCHANGED <<clock, result, analyses>>

(* Mutant of Denied: the caller waits for the provider's next window.      *)
DeniedWaits(c) ==
  /\ run[c].stage = "choose" /\ run[c].next <= Len(Chain)
  /\ ~Allowed(Current(c))
  /\ Count(Current(c))
  /\ UNCHANGED <<clock, made, run, result, analyses>>

(* A provider over its limits is passed over; the denial is counted too.   *)
Denied(c) ==
  /\ run[c].stage = "choose" /\ run[c].next <= Len(Chain)
  /\ ~Allowed(Current(c))
  /\ Count(Current(c))
  /\ run' = [run EXCEPT ![c].next = @ + 1]
  /\ UNCHANGED <<clock, made, result, analyses>>

(* A timeout, a 429, a transport error or no JSON: the next provider.      *)
ProviderFails(c) ==
  /\ run[c].stage = "waiting" /\ Turn(c)
  /\ run' = [run EXCEPT ![c].stage = "choose", ![c].next = @ + 1]
  /\ UNCHANGED <<clock, counters, made, result, analyses>>

(* Mutant of Keep: the next question is taken for a bear case again.       *)
KeepBear(c, proposal) ==
  run' = [run EXCEPT ![c].stage = "tiering", ![c].todo = Tail(@),
                     ![c].tiered =
                       {p \in @ : p.draft.ticker # proposal.draft.ticker} \cup {proposal}]

(* The head of todo is tiered, in place of what its ticker had.            *)
Keep(c, proposal) ==
  run' = [run EXCEPT ![c].stage = "tiering", ![c].bear = FALSE,
                     ![c].todo = Tail(@),
                     ![c].tiered =
                       {p \in @ : p.draft.ticker # proposal.draft.ticker} \cup {proposal}]

(* A question without an answer: no proposal at all, or a tier-3 proposal  *)
(* that passes through; a row in risk_events, which nothing but a page     *)
(* reads, is not modelled.                                                 *)
Unanswered(c) ==
  IF run[c].bear
    THEN /\ Keep(c, [Head(run[c].todo) EXCEPT !.bear = "failed", !.tier = "tier_3"])
         /\ UNCHANGED result
    ELSE /\ run' = [run EXCEPT ![c] = Idle]
         /\ result' = [result EXCEPT ![c] = {}]

(* The end of the chain.                                                   *)
Exhausted(c) ==
  /\ run[c].stage = "choose" /\ run[c].next > Len(Chain)
  /\ Unanswered(c)
  /\ UNCHANGED <<clock, counters, made, analyses>>

(* Mutant of Invalid: the second attempt forgets that it is one.           *)
InvalidForgets(c) ==
  /\ run[c].stage = "waiting" /\ Turn(c)
  /\ run' = [run EXCEPT ![c].stage = "choose", ![c].next = 1]
  /\ UNCHANGED <<clock, counters, made, result, analyses>>

(* An answer that does not validate is asked for once more.                *)
Invalid(c) ==
  /\ run[c].stage = "waiting" /\ Turn(c)
  /\ \/ /\ run[c].attempt = 1
        /\ run' = [run EXCEPT ![c].stage = "choose", ![c].attempt = 2, ![c].next = 1]
        /\ UNCHANGED result
     \/ /\ run[c].attempt = 2
        /\ Unanswered(c)
  /\ UNCHANGED <<clock, counters, made, analyses>>

(* JSON that is no object or lists what is none, or a blocked answer whose *)
(* text cannot be read, raises past fallback and retry: the caller drops   *)
(* the whole analysis, tiered drafts included.                             *)
Odd(c) ==
  /\ run[c].stage = "waiting" /\ Turn(c)
  /\ Current(c) \notin Checked
  /\ run' = [run EXCEPT ![c] = Idle]
  /\ result' = [result EXCEPT ![c] = {}]
  /\ UNCHANGED <<clock, counters, made, analyses>>

-----------------------------------------------------------------------------
(* An analysis.                                                            *)

Start(c) ==
  /\ run[c].stage = "idle" /\ Turn(c)
  /\ analyses < MaxAnalyses /\ analyses' = analyses + 1
  /\ run' = [run EXCEPT ![c].stage = "choose"]
  /\ result' = [result EXCEPT ![c] = {}]
  /\ UNCHANGED <<clock, counters, made>>

Written(drafts) ==
  [k \in DOMAIN drafts |-> [draft |-> drafts[k], bear |-> "unasked", tier |-> "none"]]

MaxOf(c) == IF c = "news" THEN MaxDrafts ELSE 1

(* The main question is answered; the drafts are tiered one by one.        *)
Answer(c) ==
  /\ run[c].stage = "waiting" /\ ~run[c].bear /\ Turn(c)
  /\ \E n \in 0..MaxOf(c) : \E drafts \in [1..n -> Drafts] :
       run' = [run EXCEPT ![c].stage = "tiering", ![c].todo = Written(drafts)]
  /\ UNCHANGED <<clock, counters, made, result, analyses>>

(* Mutant of Tier: a filing is tiered like news.                           *)
TierAsNews(source, d) ==
  CASE d.confidence >= 8 /\ d.permille > 5 -> "tier_3"
    [] d.confidence >= 8 /\ d.permille <= 5 -> "tier_1"
    [] OTHER -> "tier_2"

(* _compute_tier: a size of 5 per mille is 0.5% of equity.                 *)
Tier(source, d) ==
  CASE d.confidence >= 8 /\ (d.permille > 5 \/ (source = "filing" /\ d.permille > 3)) -> "tier_3"
    [] d.confidence >= 8 /\ d.permille <= 5 /\ source = "news" -> "tier_1"
    [] OTHER -> "tier_2"

TierDraft(c) ==
  /\ run[c].stage = "tiering" /\ run[c].todo # <<>>
  /\ LET p == Head(run[c].todo)
         tier == Tier(c, p.draft)
     IN  /\ tier # "tier_3"
         /\ Keep(c, [p EXCEPT !.tier = tier])
  /\ UNCHANGED <<clock, counters, made, result, analyses>>

AskBearCase(c) ==
  /\ run[c].stage = "tiering" /\ run[c].todo # <<>>
  /\ Tier(c, Head(run[c].todo).draft) = "tier_3"
  /\ run' = [run EXCEPT ![c].stage = "choose", ![c].bear = TRUE,
                        ![c].attempt = 1, ![c].next = 1, ![c].tries = 0]
  /\ UNCHANGED <<clock, counters, made, result, analyses>>

Assess(c) ==
  /\ run[c].stage = "waiting" /\ run[c].bear /\ Turn(c)
  /\ \E s \in Strengths :
       Keep(c, [Head(run[c].todo) EXCEPT
                  !.bear = s,
                  !.tier = IF s = "weak" THEN "rejected_bear_case" ELSE "tier_3"])
  /\ UNCHANGED <<clock, counters, made, result, analyses>>

(* News: the last proposal for each ticker asked about, which nothing read *)
(* before; a filing: its proposal, whatever ticker that is for.            *)
Return(c) ==
  /\ run[c].stage = "tiering" /\ run[c].todo = <<>>
  /\ \E asked \in SUBSET Tickers :
       /\ c = "filing" => asked = Tickers
       /\ result' = [result EXCEPT ![c] = {p \in run[c].tiered : p.draft.ticker \in asked}]
  /\ run' = [run EXCEPT ![c] = Idle]
  /\ UNCHANGED <<clock, counters, made, analyses>>

(* The worker crashes, or Redis fails under allow: the keys stay.          *)
Crash ==
  /\ \E c \in Callers : run[c].stage # "idle"
  /\ run' = [c \in Callers |-> Idle]
  /\ UNCHANGED <<clock, counters, made, result, analyses>>

(* What a caller does until it gives up the loop, and what comes back.     *)
Advance(c) ==
  \/ Call(c) \/ Denied(c) \/ Exhausted(c)
  \/ TierDraft(c) \/ AskBearCase(c) \/ Return(c)
Reply(c) == ProviderFails(c) \/ Invalid(c) \/ Odd(c) \/ Answer(c) \/ Assess(c)

Next == Tick \/ Crash \/ \E c \in Callers : Start(c) \/ Advance(c) \/ Reply(c)

Spec == Init /\ [][Next]_vars

(* A coroutine that has the loop runs on; a provider answers or its        *)
(* timeout raises, and the other caller leaves the loop now and then.      *)
Fairness ==
  /\ WF_vars(\E c \in Callers : Advance(c))
  /\ \A c \in Callers : SF_vars(Reply(c))

FairSpec == Spec /\ Fairness

-----------------------------------------------------------------------------
(* Properties.                                                             *)

(* No provider is called more often in a minute or in a day than its plan  *)
(* allows, whichever callers, retries and bear cases share it, and over    *)
(* crashes of the worker.                                                  *)
BudgetKept ==
  \A p \in Limited : made[p].minute <= PerMinute[p] /\ made[p].day <= PerDay[p]

(* One question costs at most two rounds of the chain, whatever fails.     *)
QuestionBounded == \A c \in Callers : run[c].tries <= 2 * Len(Chain)

HighStakes(c, d) ==
  d.confidence >= 8 /\ d.permille > (IF c = "filing" THEN 3 ELSE 5)

Reviewed(c, p) ==
  /\ HighStakes(c, p.draft) =>
       p.tier = IF p.bear = "weak" THEN "rejected_bear_case" ELSE "tier_3"
  /\ p.bear # "unasked" => HighStakes(c, p.draft)

(* A proposal of high confidence and size is never executed unattended: it *)
(* goes to the operator, or its own bear case rejected it.                 *)
HighStakesReviewed == \A c \in Callers : \A p \in result[c] : Reviewed(c, p)

(* An analysis ends, whatever its providers do.                            *)
AnalysisEnds == \A c \in Callers : run[c].stage # "idle" ~> run[c].stage = "idle"

-----------------------------------------------------------------------------
(* The inductive invariant.                                                *)

(* While a window lasts, its key outlives it and counts every call.        *)
KeyKept(key, calls, limit, rest) ==
  /\ calls <= key.n /\ calls <= limit
  /\ key.n > 0 => key.left >= rest

MinutesKept == \A p \in Limited :
  KeyKept(minute[p], made[p].minute, PerMinute[p], MinuteTicks - sec)
DaysKept == \A p \in Limited :
  KeyKept(day[p], made[p].day, PerDay[p], DayTicks - tod)

(* The calls of a question are at most the places of the chain it passed.  *)
Spent(r) ==
  CASE r.stage = "choose"  -> r.tries <= (r.attempt - 1) * Len(Chain) + r.next - 1
    [] r.stage = "waiting" -> /\ r.next <= Len(Chain)
                              /\ r.tries <= (r.attempt - 1) * Len(Chain) + r.next
    [] r.stage = "tiering" -> r.tries <= 2 * Len(Chain)
    [] r.stage = "idle"    -> r.tries = 0

QuestionSpent == \A c \in Callers : Spent(run[c])

(* Nothing is tiered before its bear case, and a bear case is for tier 3.  *)
TieredReviewed == \A c \in Callers :
  /\ \A i \in DOMAIN run[c].todo : run[c].todo[i].bear = "unasked"
  /\ run[c].bear => HighStakes(c, Head(run[c].todo).draft)
  /\ \A p \in run[c].tiered : Reviewed(c, p)

IInv == /\ TypeOK /\ MinutesKept /\ DaysKept
        /\ QuestionSpent /\ TieredReviewed /\ HighStakesReviewed
=============================================================================
