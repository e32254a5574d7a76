---------------------------- MODULE EventStream ----------------------------
(***************************************************************************)
(* The way of a news article or a filing from its feed to the LLM: the     *)
(* poller with its set of seen items, the Redis stream with its consumer   *)
(* group, and the consumer, all on the worker's one event loop.  The same  *)
(* code shape serves both kinds; a behaviour is about one of them.         *)
(*                                                                         *)
(* An item is published as one entry per ticker it is about: event <<i, n>>*)
(* is the n-th entry of item i.  Entries are numbered in stream order, so  *)
(* that log[id] is the event of entry id.                                  *)
(*                                                                         *)
(* redis-py is called synchronously: poller and consumer give up the loop  *)
(* only while they await an HTTP request or the LLM.  Redis keeps its data *)
(* over a crash of the worker.  A Redis error may come before or after the *)
(* write it is about.                                                      *)
(***************************************************************************)
EXTENDS Naturals, Sequences, FiniteSets

CONSTANTS
  Feed,      \* kind -> for each request of one poll, the items it may return
  Parts,     \* item -> the number of tickers it is about
  Batch,     \* kind -> entries read at once
  MaxLen,    \* the stream keeps at least this many entries
  NoItem,
  MaxFaults, \* bound on crashes and errors
  MaxFlips   \* bound on changes of the kill switch

Kinds == {"news", "filings"}
Items == DOMAIN Parts
Events == UNION {{<<i, n>> : n \in 1..Parts[i]} : i \in Items}

ASSUME FeedAssumption ==
  /\ Feed \in [Kinds -> Seq(SUBSET Items)]
  /\ Parts \in [Items -> Nat \ {0}]
  /\ NoItem \notin Items
ASSUME StreamAssumption ==
  /\ Batch \in [Kinds -> Nat \ {0}]
  /\ MaxLen \in Nat \ {0}
  /\ MaxFaults \in Nat /\ MaxFlips \in Nat

VARIABLES
  kind,     \* which of the two streams
  halted,   \* system:kill_switch
  flips,    \* how often it has changed
  up,       \* the worker runs
  request,  \* the poll awaits this request; 0: none
  page,     \* items of the last answer the poll has not looked at
  marked,   \* the item being published, or NoItem
  part,     \* its next entry
  seen,     \* SEEN_SET
  log,      \* every entry added to the stream, ever
  trimmed,  \* entries up to this one are no longer in the stream
  group,    \* the consumer group exists
  last,     \* its last delivered entry
  pel,      \* its pending entries: delivered and not acknowledged
  hand,     \* entries the running consumer holds
  stage,    \* what it does with them
  calls,    \* history: the entries of each analysis
  faults    \* how many errors and crashes there were

poller   == <<request, page, marked, part>>
consumer == <<hand, stage>>
stream   == <<log, trimmed>>
cursor   == <<group, last, pel>>
vars == <<kind, halted, flips, up, poller, seen, stream, cursor, consumer, calls, faults>>

Requests == Len(Feed[kind])
Ids == 1..Len(log)

TypeOK ==
  /\ kind \in Kinds /\ halted \in BOOLEAN /\ up \in BOOLEAN
  /\ flips \in 0..MaxFlips /\ faults \in 0..MaxFaults
  /\ request \in 0..Requests /\ page \subseteq Items
  /\ marked \in Items \cup {NoItem}
  /\ part \in Nat /\ (marked # NoItem => part \in 1..Parts[marked])
  /\ seen \subseteq Items
  /\ log \in Seq(Events) /\ trimmed \in 0..Len(log)
  /\ group \in BOOLEAN /\ last \in 0..Len(log) /\ pel \subseteq Ids
  /\ hand \subseteq Ids
  /\ stage \in {"idle", "taken", "asking", "acking"}
  /\ calls \in Seq(SUBSET Ids)

Init ==
  /\ kind \in Kinds /\ halted = FALSE /\ flips = 0 /\ up = FALSE
  /\ request = 0 /\ page = {} /\ marked = NoItem /\ part = 1
  /\ seen = {} /\ log = <<>> /\ trimmed = 0
  /\ group = FALSE /\ last = 0 /\ pel = {}
  /\ hand = {} /\ stage = "idle"
  /\ calls = <<>> /\ faults = 0

Fault == faults < MaxFaults /\ faults' = faults + 1

PollerBusy   == page # {} \/ marked # NoItem
ConsumerBusy == stage \in {"taken", "acking"}

-----------------------------------------------------------------------------
(* The poller.                                                             *)

StartPoll ==
  /\ up /\ ~ConsumerBusy
  /\ request = 0 /\ ~PollerBusy
  /\ ~halted
  /\ Requests > 0 /\ request' = 1
  /\ UNCHANGED <<kind, halted, flips, up, page, marked, part, seen, stream, cursor, consumer, calls, faults>>

NextRequest == IF request = Requests THEN 0 ELSE request + 1

(* A request is answered, with any of its items, or fails: the poll goes   *)
(* on with the next one.  An answer also hands back the loop.              *)
FetchDone ==
  /\ request # 0 /\ ~PollerBusy /\ ~ConsumerBusy
  /\ page' \in SUBSET Feed[kind][request]
  /\ request' = NextRequest
  /\ UNCHANGED <<kind, halted, flips, up, marked, part, seen, stream, cursor, consumer, calls, faults>>

SkipSeen(i) ==
  /\ i \in page \cap seen /\ marked = NoItem
  /\ page' = page \ {i}
  /\ UNCHANGED <<kind, halted, flips, up, request, marked, part, seen, stream, cursor, consumer, calls, faults>>

(* Mutant of MarkSeen: the whole page is added to the set at once.         *)
MarkSeenPage(i) ==
  /\ i \in page \ seen /\ marked = NoItem
  /\ page' = page \ {i}
  /\ seen' = seen \cup page
  /\ marked' = i /\ part' = 1
  /\ UNCHANGED <<kind, halted, flips, up, request, stream, cursor, consumer, calls, faults>>

MarkSeen(i) ==
  /\ i \in page \ seen /\ marked = NoItem
  /\ page' = page \ {i}
  /\ seen' = seen \cup {i}
  /\ marked' = i /\ part' = 1
  /\ UNCHANGED <<kind, halted, flips, up, request, stream, cursor, consumer, calls, faults>>

(* XADD with MAXLEN ~: old entries may go, but never the last MaxLen.      *)
Add ==
  /\ log' = Append(log, <<marked, part>>)
  /\ trimmed' \in {t \in trimmed..Len(log') : t = trimmed \/ Len(log') - t >= MaxLen}

(* Mutant of Publish: one entry too many.                                  *)
PublishOneMore ==
  /\ marked # NoItem
  /\ Add
  /\ IF part <= Parts[marked]
       THEN part' = part + 1 /\ UNCHANGED marked
       ELSE marked' = NoItem /\ part' = 1
  /\ UNCHANGED <<kind, halted, flips, up, request, page, seen, cursor, consumer, calls, faults>>

Publish ==
  /\ marked # NoItem
  /\ Add
  /\ IF part < Parts[marked]
       THEN part' = part + 1 /\ UNCHANGED marked
       ELSE marked' = NoItem /\ part' = 1
  /\ UNCHANGED <<kind, halted, flips, up, request, page, seen, cursor, consumer, calls, faults>>

DropPoll == request' = 0 /\ page' = {} /\ marked' = NoItem /\ part' = 1

(* An exception of Redis escapes poll_once: the rest of the page comes     *)
(* again with the next poll, the rest of a marked item does not.           *)
MarkFails(i) ==
  /\ i \in page \ seen /\ marked = NoItem
  /\ Fault
  /\ seen' \in {seen, seen \cup {i}}
  /\ DropPoll
  /\ UNCHANGED <<kind, halted, flips, up, stream, cursor, consumer, calls>>

(* Mutant of PublishFails: the item is marked after its last entry only.   *)
PublishFailsUnmarked ==
  /\ marked # NoItem
  /\ Fault
  /\ Add \/ UNCHANGED stream
  /\ seen' = seen \ {marked}
  /\ DropPoll
  /\ UNCHANGED <<kind, halted, flips, up, cursor, consumer, calls>>

PublishFails ==
  /\ marked # NoItem
  /\ Fault
  /\ Add \/ UNCHANGED stream
  /\ DropPoll
  /\ UNCHANGED <<kind, halted, flips, up, seen, cursor, consumer, calls>>

-----------------------------------------------------------------------------
(* The consumer.                                                           *)

(* Entries before From were delivered, skipped or trimmed.                 *)
From == IF last > trimmed THEN last ELSE trimmed
Upto == IF From + Batch[kind] < Len(log) THEN From + Batch[kind] ELSE Len(log)

(* Mutant of MayRead: wait for a full batch.                               *)
MayReadFullBatch ==
  up /\ stage = "idle" /\ ~PollerBusy /\ ~halted /\ group /\ From + Batch[kind] <= Len(log)

MayRead == up /\ stage = "idle" /\ ~PollerBusy /\ ~halted /\ group /\ From < Len(log)

(* XREADGROUP ">": the oldest entries nobody has got yet.                  *)
Deliver ==
  /\ last' = Upto
  /\ pel' = pel \cup (From + 1)..Upto

Read ==
  /\ MayRead
  /\ Deliver
  /\ hand' = (From + 1)..Upto /\ stage' = "taken"
  /\ UNCHANGED <<kind, halted, flips, up, poller, seen, stream, group, calls, faults>>

(* The answer is lost: the entries count as delivered all the same.        *)
ReadFails ==
  /\ MayRead
  /\ Fault
  /\ Deliver
  /\ UNCHANGED <<kind, halted, flips, up, poller, seen, stream, group, consumer, calls>>

(* The orchestrator looks at the kill switch again, then reads the account *)
(* state; without either it returns no proposal.                           *)
Ask ==
  /\ stage = "taken" /\ ~halted
  /\ stage' = "asking"
  /\ calls' = Append(calls, hand)
  /\ UNCHANGED <<kind, halted, flips, up, poller, seen, stream, cursor, hand, faults>>

(* Mutant of SkipHalted: no acknowledgement on this way out.               *)
SkipHaltedUnacked ==
  /\ stage = "taken" /\ halted
  /\ hand' = {} /\ stage' = "idle"
  /\ UNCHANGED <<kind, halted, flips, up, poller, seen, stream, cursor, calls, faults>>

SkipHalted ==
  /\ stage = "taken" /\ halted
  /\ stage' = "acking"
  /\ UNCHANGED <<kind, halted, flips, up, poller, seen, stream, cursor, hand, calls, faults>>

StateFails ==
  /\ stage = "taken" /\ ~halted
  /\ Fault
  /\ stage' = "acking"
  /\ UNCHANGED <<kind, halted, flips, up, poller, seen, stream, cursor, hand, calls>>

(* The analysis ends, with proposals that are then processed, with none or *)
(* with an exception: every way leads to the acknowledgement.              *)
Answer ==
  /\ stage = "asking" /\ ~PollerBusy
  /\ stage' = "acking"
  /\ UNCHANGED <<kind, halted, flips, up, poller, seen, stream, cursor, hand, calls, faults>>

Ack ==
  /\ stage = "acking"
  /\ pel' = pel \ hand
  /\ hand' = {} /\ stage' = "idle"
  /\ UNCHANGED <<kind, halted, flips, up, poller, seen, stream, group, last, calls, faults>>

AckFails ==
  /\ stage = "acking"
  /\ Fault
  /\ pel' \in {pel, pel \ hand}
  /\ hand' = {} /\ stage' = "idle"
  /\ UNCHANGED <<kind, halted, flips, up, poller, seen, stream, group, last, calls>>

-----------------------------------------------------------------------------
(* The worker, and the operator or the breaker.                            *)

(* Mutant of StartWorker: the group starts over, at the oldest entry.      *)
StartWorkerOver ==
  /\ ~up /\ up' = TRUE
  /\ group' = TRUE
  /\ last' = 0
  /\ UNCHANGED <<kind, halted, flips, poller, seen, stream, pel, consumer, calls, faults>>

(* A start creates the group at the end of the stream, unless it exists.   *)
StartWorker ==
  /\ ~up /\ up' = TRUE
  /\ group' = TRUE
  /\ last' = IF group THEN last ELSE Len(log)
  /\ UNCHANGED <<kind, halted, flips, poller, seen, stream, pel, consumer, calls, faults>>

(* An error other than BUSYGROUP is logged, and the worker runs without.   *)
StartWithoutGroup ==
  /\ ~up /\ up' = TRUE
  /\ Fault
  /\ UNCHANGED <<kind, halted, flips, poller, seen, stream, cursor, consumer, calls>>

(* A new process has a new consumer name: what was pending stays pending.  *)
Crash ==
  /\ up /\ up' = FALSE
  /\ Fault
  /\ DropPoll
  /\ hand' = {} /\ stage' = "idle"
  /\ UNCHANGED <<kind, halted, flips, seen, stream, cursor, calls>>

FlipKillSwitch ==
  /\ flips < MaxFlips /\ flips' = flips + 1
  /\ halted' = ~halted
  /\ UNCHANGED <<kind, up, poller, seen, stream, cursor, consumer, calls, faults>>

Poll    == StartPoll \/ FetchDone \/ Publish \/ \E i \in Items : SkipSeen(i) \/ MarkSeen(i)
Consume == Ask \/ SkipHalted \/ Answer \/ Ack
Fail    == \/ PublishFails \/ ReadFails \/ StateFails \/ AckFails
           \/ StartWithoutGroup \/ Crash \/ \E i \in Items : MarkFails(i)

Next == Poll \/ Read \/ Consume \/ StartWorker \/ FlipKillSwitch \/ Fail

Spec == Init /\ [][Next]_vars

(* The container is restarted, requests and analyses end by their          *)
(* timeouts, code that holds the loop runs on.  Polls are 20 minutes apart *)
(* and do not keep an answer, nor the news consumer, the first of the jobs *)
(* of every second, from the loop for ever.                                *)
Fairness ==
  /\ WF_vars(StartWorker)
  /\ WF_vars(FetchDone) /\ WF_vars(Publish)
  /\ \A i \in Items : WF_vars(SkipSeen(i)) /\ WF_vars(MarkSeen(i))
  /\ WF_vars(Ask \/ SkipHalted \/ Ack)
  /\ SF_vars(Answer)
  /\ SF_vars(kind = "news" /\ Read)

FairSpec == Spec /\ Fairness

-----------------------------------------------------------------------------
(* Properties.                                                             *)

(* No event is given to the LLM twice, however often an item comes back    *)
(* from its feed, and whatever crashes or fails between the two Redis      *)
(* writes, the delivery and the acknowledgement.                           *)
AnalyzedOnce ==
  \A c, d \in DOMAIN calls : \A a \in calls[c], b \in calls[d] :
    log[a] = log[b] => c = d /\ a = b

(* Without a fault an entry is pending exactly while the consumer holds    *)
(* it: every way through a batch acknowledges it.                          *)
PendingInHand == faults = 0 => pel = hand

(* Why it holds: what was published belongs to a seen item and to no later *)
(* part of it, and the group only moves forward, past all it has given out.*)
PublishedOnce ==
  /\ marked # NoItem => marked \in seen
  /\ \A id \in Ids : log[id][1] \in seen /\ (log[id][1] = marked => log[id][2] < part)
  /\ \A i, j \in Ids : log[i] = log[j] => i = j

TakenInOrder ==
  /\ \A id \in hand : id <= last
  /\ \A c \in DOMAIN calls : \A id \in calls[c] :
       id <= last /\ (stage = "taken" => \A h \in hand : id < h)
  /\ \A c, d \in DOMAIN calls : c < d => \A a \in calls[c], b \in calls[d] : a < b

(* And for the acknowledgements.                                           *)
HandEmpty == stage = "idle" => hand = {}

IInv == TypeOK /\ PublishedOnce /\ TakenInOrder /\ HandEmpty /\ PendingInHand

Queued(id) == group /\ id > From
Analyzed(id) == \E c \in DOMAIN calls : id \in calls[c]

(* Where an event of a seen item may be.                                   *)
Accounted(e) ==
  \/ e[1] = marked /\ e[2] >= part
  \/ \E id \in Ids :
       /\ log[id] = e
       /\ Queued(id) \/ id \in hand \/ Analyzed(id) \/ Len(log) - id >= MaxLen

(* Without a fault, and if the kill switch was never engaged, an event is  *)
(* lost only to MaxLen newer entries: nothing is seen and not published,   *)
(* delivered and not analyzed, or skipped by the group.                    *)
NothingLost ==
  faults = 0 /\ flips = 0 => \A e \in Events : e[1] \in seen => Accounted(e)

(* While the kill switch stays off from some time on, no published article *)
(* waits in the stream for ever.                                           *)
NewsIsTaken ==
  <>[]~halted =>
    \A e \in Events :
      (kind = "news" /\ \E id \in Ids : log[id] = e /\ Queued(id))
        ~> ~(\E id \in Ids : log[id] = e /\ Queued(id))

(* The promise of EventDelivery, kept with streams, groups and crashes.    *)
Waiting == IF group THEN SubSeq(log, From + 1, Len(log)) ELSE <<>>
InHand  == IF stage = "taken" THEN {log[id] : id \in hand} ELSE {}
Given   == {log[id] : id \in UNION {calls[c] : c \in DOMAIN calls}}
Coming  == {e \in Events : e[1] \notin seen \/ (e[1] = marked /\ e[2] >= part)}
Lost    == Events \ (Coming \cup Given \cup InHand \cup {Waiting[k] : k \in DOMAIN Waiting})

Delivery == INSTANCE EventDelivery WITH
  queue <- Waiting, hand <- InHand, analyzed <- Given, gone <- Lost

ImplementsDelivery == Delivery!Spec
=============================================================================
