------------------------- MODULE EventStreamProofs -------------------------
(***************************************************************************)
(* Proofs about EventStream, for all feeds, batch sizes and stream lengths *)
(* and any number of faults: an event reaches the LLM at most once, every  *)
(* way through a batch acknowledges it, no event is lost without a fault,  *)
(* and the whole way from feed to LLM implements EventDelivery.            *)
(***************************************************************************)
EXTENDS EventStream, SequenceTheorems, TLAPS

USE FeedAssumption, StreamAssumption

-----------------------------------------------------------------------------
(* Events and entries.                                                     *)

(* An event is a part of an item.                                          *)
LEMMA EventParts ==
  ASSUME NEW e \in Events
  PROVE  e[1] \in Items /\ e[2] \in Nat /\ e = <<e[1], e[2]>>
BY DEF Events

(* What the poller is about to publish is an event.                        *)
LEMMA NextEvent ==
  ASSUME TypeOK, marked # NoItem
  PROVE  <<marked, part>> \in Events /\ marked \in Items /\ part \in 1..Parts[marked]
<1>1. marked \in Items /\ part \in 1..Parts[marked]
  BY DEF TypeOK
<1> QED BY <1>1 DEF Events

(* The stream after an XADD.                                               *)
LEMMA Added ==
  ASSUME TypeOK, marked # NoItem, Add
  PROVE  /\ log' \in Seq(Events) /\ Len(log') = Len(log) + 1
         /\ log'[Len(log) + 1] = <<marked, part>>
         /\ \A id \in Ids : log'[id] = log[id]
         /\ Ids' = Ids \cup {Len(log) + 1}
         /\ trimmed' \in 0..Len(log')
<1>1. <<marked, part>> \in Events
  BY NextEvent
<1>2. log \in Seq(Events) /\ log' = Append(log, <<marked, part>>) /\ trimmed \in 0..Len(log)
  BY DEF TypeOK, Add
<1>3. log' \in Seq(Events) /\ Len(log') = Len(log) + 1
  BY <1>1, <1>2
<1>4. log'[Len(log) + 1] = <<marked, part>> /\ \A id \in Ids : log'[id] = log[id]
  BY <1>1, <1>2 DEF Ids
<1>5. Ids' = Ids \cup {Len(log) + 1}
  BY <1>2, <1>3 DEF Ids
<1>6. trimmed' \in 0..Len(log')
  BY <1>2, <1>3 DEF Add
<1> QED BY <1>3, <1>4, <1>5, <1>6

(* What a delivery hands out: entries after all that were delivered.       *)
LEMMA Delivered ==
  ASSUME TypeOK, MayRead, Deliver
  PROVE  /\ last' \in 0..Len(log) /\ last <= last'
         /\ (From + 1)..Upto \subseteq Ids
         /\ \A id \in (From + 1)..Upto : id \in Nat /\ last < id /\ id <= last'
<1>1. last \in 0..Len(log) /\ trimmed \in 0..Len(log) /\ Len(log) \in Nat /\ Batch[kind] \in Nat \ {0}
  BY DEF TypeOK
<1>2. From \in 0..Len(log) /\ last <= From /\ From < Len(log)
  BY <1>1 DEF From, MayRead
<1>3. Upto \in (From + 1)..Len(log)
  BY <1>1, <1>2 DEF Upto
<1> QED BY <1>1, <1>2, <1>3 DEF Deliver, Ids

-----------------------------------------------------------------------------
(* Type correctness.                                                       *)

Switches == halted \in BOOLEAN /\ up \in BOOLEAN /\ group \in BOOLEAN
Counts == kind \in Kinds /\ flips \in 0..MaxFlips /\ faults \in 0..MaxFaults
PollerTypes ==
  /\ request \in 0..Requests /\ page \subseteq Items
  /\ marked \in Items \cup {NoItem}
  /\ part \in Nat /\ (marked # NoItem => part \in 1..Parts[marked])
  /\ seen \subseteq Items
StreamTypes ==
  /\ log \in Seq(Events) /\ trimmed \in 0..Len(log)
  /\ last \in 0..Len(log) /\ pel \subseteq Ids /\ hand \subseteq Ids
  /\ stage \in {"idle", "taken", "asking", "acking"}
  /\ calls \in Seq(SUBSET Ids)

(* The parts are type correctness.                                         *)
LEMMA Types == TypeOK <=> Switches /\ Counts /\ PollerTypes /\ StreamTypes
BY Zenon DEF TypeOK, Switches, Counts, PollerTypes, StreamTypes

(* And so they are after a step.                                           *)
LEMMA TypesNext == TypeOK' <=> Switches' /\ Counts' /\ PollerTypes' /\ StreamTypes'
BY Zenon DEF TypeOK, Switches, Counts, PollerTypes, StreamTypes

(* Flags stay flags.                                                       *)
LEMMA SwitchesStep == TypeOK /\ [Next]_vars => Switches'
<1> SUFFICES ASSUME TypeOK, [Next]_vars PROVE Switches'
  OBVIOUS
<1>1. Switches
  BY Types
<1>2. /\ halted' = halted \/ halted' = ~halted
      /\ up' = up \/ up' = TRUE \/ up' = FALSE
      /\ group' = group \/ group' = TRUE
  BY DEF Next, Poll, Consume, Fail, StartPoll, FetchDone, SkipSeen, MarkSeen, Publish,
         MarkFails, PublishFails, Read, ReadFails, Ask, SkipHalted, StateFails, Answer, Ack,
         AckFails, StartWorker, StartWithoutGroup, Crash, FlipKillSwitch, Deliver, vars, cursor
<1> QED BY <1>1, <1>2, Zenon DEF Switches

(* The kind never changes, the counters stay within their bounds.          *)
LEMMA CountsStep == TypeOK /\ [Next]_vars => kind' = kind /\ Counts'
<1> SUFFICES ASSUME TypeOK, [Next]_vars PROVE kind' = kind /\ Counts'
  OBVIOUS
<1>1. Counts
  BY Types
<1>2. /\ kind' = kind
      /\ flips' = flips \/ (flips < MaxFlips /\ flips' = flips + 1)
      /\ faults' = faults \/ (faults < MaxFaults /\ faults' = faults + 1)
  BY DEF Next, Poll, Consume, Fail, StartPoll, FetchDone, SkipSeen, MarkSeen, Publish,
         MarkFails, PublishFails, Read, ReadFails, Ask, SkipHalted, StateFails, Answer, Ack,
         AckFails, StartWorker, StartWithoutGroup, Crash, FlipKillSwitch, Fault, vars
<1> QED BY <1>1, <1>2 DEF Counts

(* The worker's poll is over or was never begun.                           *)
LEMMA DroppedTypes ==
  ASSUME TypeOK, DropPoll, seen' \subseteq Items, Requests' = Requests
  PROVE  PollerTypes'
<1>1. Requests \in Nat
  BY DEF Requests, TypeOK
<1> QED BY <1>1 DEF DropPoll, PollerTypes

(* The poller keeps to its requests, items and parts.                      *)
LEMMA PollerStep == TypeOK /\ [Next]_vars => PollerTypes'
<1> SUFFICES ASSUME TypeOK, [Next]_vars PROVE PollerTypes'
  OBVIOUS
<1>1. PollerTypes
  BY Types
<1>2. kind' = kind
  BY CountsStep
<1>3. Requests' = Requests /\ Requests \in Nat
  BY <1>2 DEF Requests, TypeOK
<1>4. ASSUME UNCHANGED <<poller, seen>> PROVE PollerTypes'
  BY <1>1, <1>3, <1>4 DEF PollerTypes, poller
<1>5. CASE StartPoll
  BY <1>1, <1>3, <1>5 DEF StartPoll, PollerTypes
<1>6. CASE FetchDone
  <2>1. request \in 1..Requests
    BY <1>1, <1>6 DEF FetchDone, PollerTypes
  <2>2. Feed[kind][request] \subseteq Items
    <3>1. Feed[kind] \in Seq(SUBSET Items)
      BY DEF TypeOK
    <3> QED BY <2>1, <3>1 DEF Requests
  <2>3. NextRequest \in 0..Requests
    BY <2>1, <1>3 DEF NextRequest
  <2> QED BY <1>1, <1>3, <1>6, <2>2, <2>3 DEF FetchDone, PollerTypes
<1>7. ASSUME NEW i \in Items, SkipSeen(i) PROVE PollerTypes'
  BY <1>1, <1>3, <1>7 DEF SkipSeen, PollerTypes
<1>8. ASSUME NEW i \in Items, MarkSeen(i) PROVE PollerTypes'
  BY <1>1, <1>3, <1>8 DEF MarkSeen, PollerTypes
<1>9. CASE Publish
  <2>1. marked # NoItem /\ marked \in Items /\ part \in 1..Parts[marked] /\ Parts[marked] \in Nat
    BY <1>1, <1>9 DEF Publish, PollerTypes
  <2>2. CASE part < Parts[marked]
    BY <1>1, <1>3, <1>9, <2>1, <2>2 DEF Publish, PollerTypes
  <2>3. CASE ~(part < Parts[marked])
    BY <1>1, <1>3, <1>9, <2>1, <2>3 DEF Publish, PollerTypes
  <2> QED BY <2>2, <2>3
<1>10. ASSUME NEW i \in Items, MarkFails(i) PROVE PollerTypes'
  <2>1. seen' \subseteq Items
    BY <1>1, <1>10 DEF MarkFails, PollerTypes
  <2> QED BY <1>3, <1>10, <2>1, DroppedTypes DEF MarkFails
<1>11. CASE PublishFails
  BY <1>1, <1>3, <1>11, DroppedTypes DEF PublishFails, PollerTypes
<1>12. CASE Crash
  BY <1>1, <1>3, <1>12, DroppedTypes DEF Crash, PollerTypes
<1>13. CASE Read \/ Consume \/ StartWorker \/ FlipKillSwitch
  BY <1>4, <1>13 DEF Read, Consume, Ask, SkipHalted, Answer, Ack, StartWorker, FlipKillSwitch
<1>14. CASE ReadFails \/ StateFails \/ AckFails \/ StartWithoutGroup
  BY <1>4, <1>14 DEF ReadFails, StateFails, AckFails, StartWithoutGroup
<1>15. CASE UNCHANGED vars
  BY <1>4, <1>15 DEF vars
<1> QED
  BY <1>5, <1>6, <1>7, <1>8, <1>9, <1>10, <1>11, <1>12, <1>13, <1>14, <1>15
     DEF Next, Poll, Fail

(* The stream grows, the group moves forward, the consumer holds entries.  *)
LEMMA StreamStep == TypeOK /\ [Next]_vars => StreamTypes'
<1> SUFFICES ASSUME TypeOK, [Next]_vars PROVE StreamTypes'
  OBVIOUS
<1>1. StreamTypes
  BY Types
<1>2. Len(log) \in Nat
  BY <1>1 DEF StreamTypes
<1>3. ASSUME UNCHANGED <<stream, cursor, consumer, calls>> PROVE StreamTypes'
  BY <1>1, <1>3 DEF StreamTypes, stream, cursor, consumer, Ids
<1>4. ASSUME UNCHANGED stream PROVE Ids' = Ids /\ log' \in Seq(Events) /\ trimmed' \in 0..Len(log)
  BY <1>1, <1>4 DEF StreamTypes, stream, Ids
<1>5. ASSUME marked # NoItem, Add, UNCHANGED <<cursor, consumer, calls>> PROVE StreamTypes'
  <2>1. /\ log' \in Seq(Events) /\ Len(log') = Len(log) + 1
        /\ Ids' = Ids \cup {Len(log) + 1} /\ trimmed' \in 0..Len(log')
    BY <1>5, Added
  <2>2. last' \in 0..Len(log') /\ pel' \subseteq Ids' /\ hand' \subseteq Ids' /\ stage' = stage
    BY <1>1, <1>2, <1>5, <2>1 DEF StreamTypes, cursor, consumer
  <2>3. calls' \in Seq(SUBSET Ids')
    BY <1>1, <1>5, <2>1 DEF StreamTypes
  <2> QED BY <1>1, <2>1, <2>2, <2>3 DEF StreamTypes
<1>6. CASE Publish
  BY <1>5, <1>6 DEF Publish, consumer
<1>7. ASSUME Deliver, MayRead, UNCHANGED stream, UNCHANGED calls,
             hand' = hand \/ hand' = (From + 1)..Upto, stage' \in {stage, "taken"}
      PROVE  StreamTypes'
  <2>1. last' \in 0..Len(log) /\ (From + 1)..Upto \subseteq Ids
    BY <1>7, Delivered
  <2>2. pel' \subseteq Ids /\ hand' \subseteq Ids
    BY <1>1, <1>7, <2>1 DEF Deliver, StreamTypes
  <2>3. log' = log
    BY <1>7 DEF stream
  <2> QED BY <1>1, <1>4, <1>7, <2>1, <2>2, <2>3 DEF StreamTypes
<1>8. CASE Read
  BY <1>7, <1>8 DEF Read
<1>9. CASE ReadFails
  BY <1>7, <1>9 DEF ReadFails, consumer
<1>10. CASE Ask
  <2>1. calls' = Append(calls, hand) /\ stage' = "asking" /\ UNCHANGED <<stream, cursor, hand>>
    BY <1>10 DEF Ask
  <2>2. calls' \in Seq(SUBSET Ids)
    BY <1>1, <2>1 DEF StreamTypes
  <2> QED BY <1>1, <1>4, <2>1, <2>2 DEF StreamTypes, stream, cursor
<1>11. CASE SkipHalted \/ StateFails \/ Answer
  BY <1>1, <1>4, <1>11 DEF SkipHalted, StateFails, Answer, StreamTypes, stream, cursor
<1>12. ASSUME pel' \subseteq pel, hand' = {}, stage' = "idle", last' = last,
              UNCHANGED <<stream, calls>>
       PROVE  StreamTypes'
  BY <1>1, <1>4, <1>12 DEF StreamTypes, stream
<1>13. CASE Ack \/ AckFails
  <2>1. pel' \subseteq pel
    BY <1>13 DEF Ack, AckFails
  <2> QED BY <1>12, <1>13, <2>1 DEF Ack, AckFails
<1>14. CASE Crash
  BY <1>12, <1>14 DEF Crash, cursor
<1>15. CASE StartWorker
  BY <1>1, <1>2, <1>4, <1>15 DEF StartWorker, StreamTypes, stream, consumer
<1>16. CASE PublishFails
  BY <1>3, <1>5, <1>16 DEF PublishFails
<1>17. CASE StartPoll \/ FetchDone \/ FlipKillSwitch \/ StartWithoutGroup
  BY <1>3, <1>17 DEF StartPoll, FetchDone, FlipKillSwitch, StartWithoutGroup
<1>18. ASSUME NEW i \in Items, SkipSeen(i) \/ MarkSeen(i) \/ MarkFails(i) PROVE StreamTypes'
  BY <1>3, <1>18 DEF SkipSeen, MarkSeen, MarkFails
<1>19. CASE UNCHANGED vars
  BY <1>3, <1>19 DEF vars
<1> QED
  BY <1>6, <1>8, <1>9, <1>10, <1>11, <1>13, <1>14, <1>15, <1>16, <1>17, <1>18, <1>19
     DEF Next, Poll, Consume, Fail

(* Types are kept by every step.                                           *)
LEMMA TypeStep == TypeOK /\ [Next]_vars => TypeOK'
BY SwitchesStep, CountsStep, PollerStep, StreamStep, TypesNext

(* Types hold at first.                                                    *)
LEMMA TypeInit == Init => TypeOK
<1> SUFFICES ASSUME Init PROVE TypeOK
  OBVIOUS
<1>1. Switches
  BY Zenon DEF Init, Switches
<1>2. Feed[kind] \in Seq(SUBSET Items) /\ kind \in Kinds
  BY DEF Init
<1>3. Requests \in Nat
  BY <1>2 DEF Requests
<1>4. Counts /\ PollerTypes
  BY <1>2, <1>3 DEF Init, Counts, PollerTypes
<1>5. StreamTypes
  BY DEF Init, StreamTypes, Ids
<1> QED BY <1>1, <1>4, <1>5, Types

-----------------------------------------------------------------------------
(* No event is published twice.                                            *)

(* The steps that publish nothing and keep what is marked, or drop it.     *)
LEMMA NothingPublished ==
  ASSUME TypeOK, PublishedOnce, log' = log, seen \subseteq seen',
         UNCHANGED <<marked, part>> \/ (marked' = NoItem /\ part' = 1)
  PROVE  PublishedOnce'
<1>1. Ids' = Ids
  BY DEF Ids
<1>2. \A id \in Ids : log[id][1] \in Items
  BY EventParts DEF TypeOK, Ids
<1> QED BY <1>1, <1>2 DEF PublishedOnce

(* The step that publishes the next part of the marked item.               *)
LEMMA OnePublished ==
  ASSUME TypeOK, PublishedOnce, marked # NoItem, Add, seen' = seen,
         \/ marked' = marked /\ part' = part + 1
         \/ marked' = NoItem /\ part' = 1
  PROVE  PublishedOnce'
<1>1. marked \in Items /\ part \in Nat /\ marked \in seen
  BY NextEvent DEF PublishedOnce, TypeOK
<1>2. /\ Ids' = Ids \cup {Len(log) + 1}
      /\ log'[Len(log) + 1] = <<marked, part>>
      /\ \A id \in Ids : log'[id] = log[id]
  BY Added
<1>3. \A id \in Ids : log[id] \in Events /\ log[id][1] \in Items /\ log[id][2] \in Nat
  BY EventParts, SMTT(30) DEF TypeOK, Ids
<1>9. \A id \in Ids' : log'[id][1] \in Items
  BY <1>1, <1>2, <1>3, SMTT(30)
<1>4. \A id \in Ids : log[id] # <<marked, part>>
  BY <1>1, <1>3 DEF PublishedOnce
<1>5. ASSUME NEW i \in Ids', NEW j \in Ids', log'[i] = log'[j] PROVE i = j
  <2>1. CASE i \in Ids /\ j \in Ids
    BY <1>2, <1>5, <2>1 DEF PublishedOnce
  <2>2. CASE i = Len(log) + 1 /\ j \in Ids
    BY <1>2, <1>4, <1>5, <2>2
  <2>3. CASE i \in Ids /\ j = Len(log) + 1
    BY <1>2, <1>4, <1>5, <2>3
  <2> QED BY <1>2, <2>1, <2>2, <2>3
<1>6. \A id \in Ids' : log'[id][1] \in seen'
  BY <1>1, <1>2 DEF PublishedOnce
<1>7. ASSUME NEW id \in Ids', log'[id][1] = marked' PROVE log'[id][2] < part'
  <2>1. marked' = marked /\ part' = part + 1
    BY <1>7, <1>9
  <2>2. CASE id \in Ids
    BY <1>1, <1>2, <1>3, <1>7, <2>1, <2>2 DEF PublishedOnce
  <2>3. CASE id = Len(log) + 1
    BY <1>1, <1>2, <2>1, <2>3
  <2> QED BY <1>2, <2>2, <2>3
<1>8. marked' # NoItem => marked' \in seen'
  BY <1>1
<1> QED BY <1>5, <1>6, <1>7, <1>8 DEF PublishedOnce

(* Every step keeps published events distinct.                             *)
LEMMA PublishedStep == TypeOK /\ PublishedOnce /\ [Next]_vars => PublishedOnce'
<1> SUFFICES ASSUME TypeOK, PublishedOnce, [Next]_vars PROVE PublishedOnce'
  OBVIOUS
<1>1. CASE Publish
  BY <1>1, OnePublished DEF Publish
<1>2. CASE PublishFails
  BY <1>2, OnePublished, NothingPublished DEF PublishFails, DropPoll, stream
<1>3. ASSUME NEW i \in Items, MarkSeen(i) PROVE PublishedOnce'
  <2>1. log' = log /\ Ids' = Ids /\ seen' = seen \cup {i} /\ i \notin seen /\ marked' = i
    BY <1>3 DEF MarkSeen, stream, Ids
  <2> QED BY <2>1 DEF PublishedOnce
<1>4. ASSUME NEW i \in Items, SkipSeen(i) \/ MarkFails(i) PROVE PublishedOnce'
  BY <1>4, NothingPublished DEF SkipSeen, MarkFails, DropPoll, stream
<1>5. CASE StartPoll \/ FetchDone \/ FlipKillSwitch \/ StartWithoutGroup \/ StartWorker
  BY <1>5, NothingPublished
     DEF StartPoll, FetchDone, FlipKillSwitch, StartWithoutGroup, StartWorker, stream, poller
<1>6. CASE Read \/ ReadFails \/ Consume \/ StateFails \/ AckFails
  BY <1>6, NothingPublished
     DEF Read, ReadFails, Consume, Ask, SkipHalted, Answer, Ack, StateFails, AckFails, stream, poller
<1>7. CASE Crash
  BY <1>7, NothingPublished DEF Crash, DropPoll, stream
<1>8. CASE UNCHANGED vars
  BY <1>8, NothingPublished DEF vars, stream, poller
<1> QED BY <1>1, <1>2, <1>3, <1>4, <1>5, <1>6, <1>7, <1>8 DEF Next, Poll, Fail

-----------------------------------------------------------------------------
(* No entry is taken twice.                                                *)

(* Steps that take nothing and ask nothing.                                *)
LEMMA NothingTaken ==
  ASSUME TypeOK, TakenInOrder, calls' = calls, last' \in Nat, last <= last',
         hand' = hand \/ hand' = {},
         stage' = stage \/ stage' # "taken"
  PROVE  TakenInOrder'
<1>1. last \in Nat /\ \A id \in hand : id \in Nat
  BY DEF TypeOK, Ids
<1>2. \A c \in DOMAIN calls : \A id \in calls[c] : id \in Nat
  BY DEF TypeOK, Ids
<1>3. \A id \in hand' : id <= last'
  BY <1>1 DEF TakenInOrder
<1>4. \A c \in DOMAIN calls' : \A id \in calls'[c] : id <= last'
  BY <1>1, <1>2 DEF TakenInOrder
<1>5. stage' = "taken" => \A c \in DOMAIN calls' : \A id \in calls'[c] : \A h \in hand' : id < h
  BY DEF TakenInOrder
<1>6. \A c, d \in DOMAIN calls' : c < d => \A a \in calls'[c], b \in calls'[d] : a < b
  BY DEF TakenInOrder
<1> QED BY <1>3, <1>4, <1>5, <1>6 DEF TakenInOrder

(* Every step keeps deliveries and analyses in stream order.               *)
LEMMA TakenStep == TypeOK /\ TakenInOrder /\ [Next]_vars => TakenInOrder'
<1> SUFFICES ASSUME TypeOK, TakenInOrder, [Next]_vars PROVE TakenInOrder'
  OBVIOUS
<1>1. last \in Nat /\ last <= last /\ Len(log) \in Nat /\ last <= Len(log)
  BY DEF TypeOK
<1>2. CASE Read
  <2>1. /\ last' \in 0..Len(log) /\ last <= last' /\ hand' = (From + 1)..Upto
        /\ \A id \in hand' : id \in Nat /\ last < id /\ id <= last'
        /\ calls' = calls
    BY <1>2, Delivered DEF Read
  <2>2. \A c \in DOMAIN calls : \A id \in calls[c] : id \in Nat /\ id <= last
    BY DEF TypeOK, Ids, TakenInOrder
  <2>3. \A c \in DOMAIN calls' : \A id \in calls'[c] :
          id <= last' /\ \A h \in hand' : id < h
    BY <1>1, <2>1, <2>2
  <2>4. \A c, d \in DOMAIN calls' : c < d => \A a \in calls'[c], b \in calls'[d] : a < b
    BY <2>1 DEF TakenInOrder
  <2> QED BY <2>1, <2>3, <2>4 DEF TakenInOrder
<1>3. CASE ReadFails
  BY <1>3, Delivered, NothingTaken DEF ReadFails, consumer
<1>4. CASE Ask
  <2>1. /\ calls' = Append(calls, hand) /\ UNCHANGED <<last, hand>>
        /\ stage = "taken" /\ stage' = "asking"
    BY <1>4 DEF Ask, cursor
  <2>2. /\ calls \in Seq(SUBSET Ids) /\ hand \in SUBSET Ids
        /\ DOMAIN calls = 1..Len(calls) /\ Len(calls) \in Nat
    BY DEF TypeOK
  <2>3. /\ DOMAIN calls' = 1..(Len(calls) + 1)
        /\ calls'[Len(calls) + 1] = hand
        /\ \A c \in DOMAIN calls : calls'[c] = calls[c]
    BY <2>1, <2>2
  <2>4. \A c \in DOMAIN calls' : \A id \in calls'[c] : id <= last'
    BY <2>1, <2>2, <2>3 DEF TakenInOrder
  <2>5. ASSUME NEW c \in DOMAIN calls', NEW d \in DOMAIN calls', c < d,
               NEW a \in calls'[c], NEW b \in calls'[d]
        PROVE  a < b
    <3>1. c \in DOMAIN calls /\ a \in calls[c]
      BY <2>2, <2>3, <2>5
    <3>2. CASE d \in DOMAIN calls
      BY <2>3, <2>5, <3>1, <3>2 DEF TakenInOrder
    <3>3. CASE d = Len(calls) + 1
      BY <2>1, <2>3, <2>5, <3>1, <3>3 DEF TakenInOrder
    <3>4. d \in 1..Len(calls) \/ d = Len(calls) + 1
      BY <2>2, <2>3
    <3> QED BY <2>2, <3>2, <3>3, <3>4
  <2> QED BY <2>1, <2>4, <2>5 DEF TakenInOrder
<1>5. CASE SkipHalted \/ StateFails \/ Answer
  BY <1>1, <1>5, NothingTaken DEF SkipHalted, StateFails, Answer, cursor
<1>6. CASE Ack \/ AckFails
  BY <1>1, <1>6, NothingTaken DEF Ack, AckFails
<1>7. CASE Crash
  BY <1>1, <1>7, NothingTaken DEF Crash, cursor
<1>8. CASE StartWorker
  BY <1>1, <1>8, NothingTaken DEF StartWorker, consumer
<1>9. CASE Poll \/ PublishFails \/ FlipKillSwitch \/ StartWithoutGroup
  BY <1>1, <1>9, NothingTaken
     DEF Poll, StartPoll, FetchDone, Publish, SkipSeen, MarkSeen, PublishFails,
         FlipKillSwitch, StartWithoutGroup, cursor, consumer
<1>10. ASSUME NEW i \in Items, MarkFails(i) PROVE TakenInOrder'
  BY <1>1, <1>10, NothingTaken DEF MarkFails, cursor, consumer
<1>11. CASE UNCHANGED vars
  BY <1>1, <1>11, NothingTaken DEF vars, cursor, consumer
<1> QED
  BY <1>2, <1>3, <1>4, <1>5, <1>6, <1>7, <1>8, <1>9, <1>10, <1>11 DEF Next, Consume, Fail

-----------------------------------------------------------------------------
(* What is pending.                                                        *)

PendingOK == HandEmpty /\ PendingInHand

(* Every step keeps pending what the consumer holds, until a fault.        *)
LEMMA PendingStep == TypeOK /\ PendingOK /\ [Next]_vars => PendingOK'
<1> SUFFICES ASSUME TypeOK, PendingOK, [Next]_vars PROVE PendingOK'
  OBVIOUS
<1>1. faults \in Nat
  BY DEF TypeOK
<1>2. ASSUME UNCHANGED <<hand, stage, pel, faults>> PROVE PendingOK'
  BY <1>2 DEF PendingOK, HandEmpty, PendingInHand
<1>3. CASE Read
  BY <1>3 DEF Read, MayRead, Deliver, PendingOK, HandEmpty, PendingInHand
<1>4. CASE Ask \/ SkipHalted \/ Answer
  BY <1>4 DEF Ask, SkipHalted, Answer, PendingOK, HandEmpty, PendingInHand, cursor
<1>5. CASE Ack
  BY <1>5 DEF Ack, PendingOK, HandEmpty, PendingInHand
<1>6. ASSUME Fault, (stage' = "idle" => hand' = {}) PROVE PendingOK'
  BY <1>1, <1>6 DEF Fault, PendingOK, HandEmpty, PendingInHand
<1>7. CASE PublishFails \/ ReadFails \/ StartWithoutGroup
  BY <1>6, <1>7 DEF PublishFails, ReadFails, StartWithoutGroup, PendingOK, HandEmpty, consumer
<1>8. CASE StateFails \/ AckFails \/ Crash
  BY <1>6, <1>8 DEF StateFails, AckFails, Crash
<1>9. ASSUME NEW i \in Items, MarkFails(i) PROVE PendingOK'
  BY <1>6, <1>9 DEF MarkFails, PendingOK, HandEmpty, consumer
<1>10. CASE Poll \/ StartWorker \/ FlipKillSwitch \/ UNCHANGED vars
  BY <1>2, <1>10
     DEF Poll, StartPoll, FetchDone, Publish, SkipSeen, MarkSeen, StartWorker, FlipKillSwitch,
         cursor, consumer, vars
<1> QED
  BY <1>3, <1>4, <1>5, <1>7, <1>8, <1>9, <1>10 DEF Next, Consume, Fail

-----------------------------------------------------------------------------
(* The theorems.                                                           *)

(* The invariant holds at first.                                           *)
LEMMA InvInit == Init => IInv
<1> SUFFICES ASSUME Init PROVE IInv
  OBVIOUS
<1>1. Ids = {} /\ DOMAIN calls = {}
  BY DEF Init, Ids
<1> QED
  BY <1>1, TypeInit DEF Init, IInv, PublishedOnce, TakenInOrder, HandEmpty, PendingInHand

(* And every step keeps it.                                                *)
LEMMA InvStep == IInv /\ [Next]_vars => IInv'
<1> SUFFICES ASSUME IInv, [Next]_vars PROVE IInv'
  OBVIOUS
<1>1. TypeOK /\ PublishedOnce /\ TakenInOrder /\ PendingOK
  BY DEF IInv, PendingOK
<1>2. TypeOK' /\ PublishedOnce' /\ TakenInOrder' /\ PendingOK'
  BY <1>1, TypeStep, PublishedStep, TakenStep, PendingStep
<1> QED BY <1>2 DEF IInv, PendingOK

(* Entries that are taken in order, of events published once, are analyzed *)
(* once.                                                                   *)
LEMMA OnceFollows == IInv => AnalyzedOnce
<1> SUFFICES ASSUME IInv, NEW c \in DOMAIN calls, NEW d \in DOMAIN calls,
                    NEW a \in calls[c], NEW b \in calls[d], log[a] = log[b]
             PROVE  c = d /\ a = b
  BY DEF AnalyzedOnce
<1>1. a \in Ids /\ b \in Ids /\ a \in Nat /\ c \in Nat /\ d \in Nat
  BY DEF IInv, TypeOK, Ids
<1>2. a = b
  BY <1>1 DEF IInv, PublishedOnce
<1>3. ~(c < d) /\ ~(d < c)
  BY <1>1, <1>2 DEF IInv, TakenInOrder
<1> QED BY <1>1, <1>2, <1>3

(* The inductive invariant of stream, group and consumer: published events *)
(* are distinct, deliveries move forward, what is pending is in hand.      *)
THEOREM Invariance == Spec => []IInv
BY InvInit, InvStep, PTL DEF Spec

(* The variables keep their types: the poller stays within its requests    *)
(* and parts, ids within the stream.                                       *)
THEOREM TypeCorrect == Spec => []TypeOK
<1>1. IInv => TypeOK
  BY DEF IInv
<1> QED BY <1>1, Invariance, PTL

(* No event is given to the LLM twice, whatever crashes or fails.          *)
THEOREM AtMostOnce == Spec => []AnalyzedOnce
BY OnceFollows, Invariance, PTL

(* Without a fault every delivered entry is acknowledged when its batch is *)
(* over, kill switch or not.                                               *)
THEOREM BatchesAcknowledged == Spec => []PendingInHand
<1>1. IInv => PendingInHand
  BY DEF IInv
<1> QED BY <1>1, Invariance, PTL

-----------------------------------------------------------------------------
(* Nothing is lost in a calm run: one without faults, and without a change *)
(* of the kill switch.                                                     *)

Calm == faults = 0 /\ flips = 0

(* Nothing is in the stream before the first start.                        *)
Started ==
  /\ ~halted /\ (up => group)
  /\ ~up => Len(log) = 0 /\ request = 0 /\ ~PollerBusy

Old(id) == Len(log) - id >= MaxLen

(* What was delivered is in hand, analyzed or old, and so is what was      *)
(* trimmed before.                                                         *)
Followed ==
  /\ \A id \in Ids : id <= trimmed => Old(id)
  /\ \A id \in Ids : id <= last => id \in hand \/ Analyzed(id) \/ Old(id)
  /\ stage \in {"asking", "acking"} => \A id \in hand : Analyzed(id)

(* A seen item is published, up to the part the poller is at.              *)
Placed ==
  \A e \in Events : e[1] \in seen =>
    (e[1] = marked /\ e[2] >= part) \/ \E id \in Ids : log[id] = e

Lossless == Calm => Started /\ Followed /\ Placed

(* A calm run has only calm steps.                                         *)
LEMMA CalmStep ==
  ASSUME TypeOK, [Next]_vars, Calm'
  PROVE  Calm /\ (Poll \/ Read \/ Consume \/ StartWorker \/ UNCHANGED vars)
<1>1. faults \in Nat /\ flips \in Nat
  BY DEF TypeOK
<1>2. ~Fault /\ ~FlipKillSwitch
  BY <1>1 DEF Fault, FlipKillSwitch, Calm
<1>3. Poll \/ Read \/ Consume \/ StartWorker \/ UNCHANGED vars
  BY <1>2 DEF Next, Fail, PublishFails, ReadFails, StateFails, AckFails, StartWithoutGroup,
              Crash, MarkFails
<1>4. UNCHANGED <<faults, flips>>
  BY <1>3 DEF Poll, StartPoll, FetchDone, Publish, SkipSeen, MarkSeen, Read, Consume, Ask,
              SkipHalted, Answer, Ack, StartWorker, vars
<1> QED BY <1>3, <1>4 DEF Calm

(* The poller works while the worker is up.                                *)
LEMMA StartedStep ==
  ASSUME TypeOK, Started, Poll \/ Read \/ Consume \/ StartWorker \/ UNCHANGED vars
  PROVE  Started'
<1>1. CASE StartWorker
  BY <1>1 DEF StartWorker, Started
<1>2. CASE StartPoll \/ FetchDone \/ \E i \in Items : SkipSeen(i) \/ MarkSeen(i)
  BY <1>2 DEF StartPoll, FetchDone, SkipSeen, MarkSeen, Started, PollerBusy, cursor, stream
<1>3. CASE Publish
  BY <1>3 DEF Publish, Started, PollerBusy, cursor
<1>4. CASE Read
  BY <1>4 DEF Read, MayRead, Started, PollerBusy, poller, stream
<1>5. CASE Consume
  BY <1>5 DEF Consume, Ask, SkipHalted, Answer, Ack, Started, PollerBusy, poller, stream, cursor
<1>6. CASE UNCHANGED vars
  BY <1>6 DEF vars, Started, PollerBusy, poller, stream, cursor
<1> QED BY <1>1, <1>2, <1>3, <1>4, <1>5, <1>6 DEF Poll

(* An entry is followed to its analysis.                                   *)
LEMMA FollowedStep ==
  ASSUME TypeOK, HandEmpty, Started, Followed,
         Poll \/ Read \/ Consume \/ StartWorker \/ UNCHANGED vars
  PROVE  Followed'
<1>1. ASSUME UNCHANGED <<stream, last, calls>>, hand' = hand,
             stage' = stage \/ (stage = "asking" /\ stage' = "acking")
      PROVE  Followed'
  BY <1>1 DEF Followed, Old, Analyzed, Ids, stream
<1>2. CASE StartPoll \/ FetchDone \/ (\E i \in Items : SkipSeen(i) \/ MarkSeen(i)) \/ UNCHANGED vars
  BY <1>1, <1>2 DEF StartPoll, FetchDone, SkipSeen, MarkSeen, vars, cursor, consumer
<1>3. CASE Answer
  BY <1>1, <1>3 DEF Answer, cursor
<1>4. CASE StartWorker
  <2>1. Len(log) = 0 /\ last \in 0..Len(log) /\ last' = last
    BY <1>4 DEF StartWorker, Started, TypeOK
  <2> QED BY <1>1, <1>4, <2>1 DEF StartWorker, consumer
<1>5. CASE SkipHalted
  BY <1>5 DEF SkipHalted, Started
<1>6. CASE Publish
  <2>1. /\ Len(log') = Len(log) + 1 /\ Len(log) \in Nat
        /\ Ids' = Ids \cup {Len(log) + 1}
        /\ trimmed' = trimmed \/ Len(log') - trimmed' >= MaxLen
        /\ trimmed \in 0..Len(log) /\ trimmed' \in Nat /\ last \in 0..Len(log)
        /\ UNCHANGED <<last, hand, stage, calls>>
    BY <1>6, Added, SMTT(30) DEF Publish, Add, TypeOK, cursor, consumer
  <2>2. \A id \in Ids : id \in Nat /\ (Old(id) => Old(id)')
    BY <2>1 DEF Old, Ids
  <2>3. \A id \in Ids' : id <= trimmed' => Old(id)'
    <3>1. CASE trimmed' = trimmed
      BY <2>1, <2>2, <3>1 DEF Followed, Ids
    <3>2. CASE Len(log') - trimmed' >= MaxLen
      BY <2>1, <2>2, <3>2 DEF Old
    <3> QED BY <2>1, <3>1, <3>2
  <2>4. \A id : Analyzed(id)' <=> Analyzed(id)
    BY <2>1 DEF Analyzed
  <2>5. \A id \in Ids' : id <= last' => id \in hand' \/ Analyzed(id)' \/ Old(id)'
    BY <2>1, <2>2, <2>4 DEF Followed
  <2> QED BY <2>1, <2>3, <2>4, <2>5 DEF Followed
<1>7. CASE Read
  <2>1. /\ UNCHANGED <<stream, calls>> /\ stage' = "taken" /\ hand = {}
        /\ hand' = (From + 1)..Upto /\ last' = Upto
    BY <1>7 DEF Read, MayRead, Deliver, HandEmpty
  <2>2. /\ Ids' = Ids /\ (\A id : Old(id)' <=> Old(id)) /\ trimmed' = trimmed
        /\ \A id : Analyzed(id)' <=> Analyzed(id)
    BY <2>1 DEF Ids, Old, Analyzed, stream
  <2>3. Upto \in 0..Len(log) /\ last \in Nat /\ trimmed \in Nat /\ From \in {last, trimmed}
        /\ \A id \in Ids : id \in Nat
    BY <1>7, Delivered DEF Read, TypeOK, From, Ids, Deliver
  <2>4. ASSUME NEW id \in Ids, id <= Upto PROVE id \in hand' \/ Analyzed(id) \/ Old(id)
    <3>1. id <= last \/ id <= trimmed \/ id \in (From + 1)..Upto
      BY <2>3, <2>4
    <3> QED BY <2>1, <3>1 DEF Followed
  <2> QED BY <2>1, <2>2, <2>4 DEF Followed
<1>8. CASE Ask
  <2>1. /\ calls' = Append(calls, hand) /\ UNCHANGED <<stream, last, hand>>
        /\ calls \in Seq(SUBSET Ids) /\ hand \in SUBSET Ids
    BY <1>8 DEF Ask, cursor, TypeOK
  <2>2. /\ calls'[Len(calls) + 1] = hand /\ Len(calls) + 1 \in DOMAIN calls'
        /\ \A c \in DOMAIN calls : c \in DOMAIN calls' /\ calls'[c] = calls[c]
    BY <2>1
  <2>3. /\ \A id \in hand : Analyzed(id)'
        /\ \A id : Analyzed(id) => Analyzed(id)'
    BY <2>2 DEF Analyzed
  <2>4. Ids' = Ids /\ trimmed' = trimmed /\ \A id : Old(id)' <=> Old(id)
    BY <2>1 DEF Ids, Old, stream
  <2> QED BY <2>1, <2>3, <2>4 DEF Followed
<1>9. CASE Ack
  <2>1. /\ UNCHANGED <<stream, last, calls>> /\ hand' = {} /\ stage' = "idle"
        /\ \A id \in hand : Analyzed(id)
    BY <1>9 DEF Ack, Followed
  <2>2. /\ Ids' = Ids /\ trimmed' = trimmed /\ (\A id : Old(id)' <=> Old(id))
        /\ \A id : Analyzed(id)' <=> Analyzed(id)
    BY <2>1 DEF Ids, Old, Analyzed, stream
  <2> QED BY <2>1, <2>2 DEF Followed
<1> QED
  BY <1>2, <1>3, <1>4, <1>5, <1>6, <1>7, <1>8, <1>9 DEF Poll, Consume

(* An item is marked before it is published, and published to its end.     *)
LEMMA PlacedStep ==
  ASSUME TypeOK, Placed, Poll \/ Read \/ Consume \/ StartWorker \/ UNCHANGED vars
  PROVE  Placed'
<1>1. ASSUME UNCHANGED <<seen, marked, part, log>> PROVE Placed'
  BY <1>1 DEF Placed, Ids
<1>2. ASSUME NEW i \in Items, MarkSeen(i) PROVE Placed'
  <2>1. /\ marked = NoItem /\ seen' = seen \cup {i} /\ marked' = i /\ part' = 1
        /\ UNCHANGED log
    BY <1>2 DEF MarkSeen, stream
  <2>2. \A e \in Events : e[1] \in Items /\ e[2] >= 1 /\ e[1] # NoItem
    BY DEF Events
  <2> QED BY <2>1, <2>2 DEF Placed, Ids
<1>3. CASE Publish
  <2>1. /\ Ids' = Ids \cup {Len(log) + 1} /\ log'[Len(log) + 1] = <<marked, part>>
        /\ \A id \in Ids : log'[id] = log[id]
        /\ part \in 1..Parts[marked] /\ Parts[marked] \in Nat
        /\ UNCHANGED seen
    BY <1>3, Added, NextEvent DEF Publish
  <2>2. \A e \in Events : e[1] = marked => e[2] \in 1..Parts[marked]
    BY DEF Events
  <2>3. ASSUME NEW e \in Events, e[1] = marked, e[2] >= part
        PROVE  (e[1] = marked' /\ e[2] >= part') \/ e = <<marked, part>>
    <3>1. e[2] \in Nat /\ e = <<e[1], e[2]>> /\ e[2] <= Parts[marked]
      BY <2>1, <2>2, <2>3, EventParts
    <3>2. CASE e[2] = part
      BY <2>3, <3>1, <3>2
    <3>3. CASE e[2] # part
      <4>1. e[2] >= part + 1 /\ part < Parts[marked]
        BY <2>1, <2>3, <3>1, <3>3
      <4> QED BY <1>3, <2>3, <4>1 DEF Publish
    <3> QED BY <3>2, <3>3
  <2> QED BY <2>1, <2>3 DEF Placed
<1>4. CASE StartPoll \/ FetchDone \/ (\E i \in Items : SkipSeen(i)) \/ UNCHANGED vars
  BY <1>1, <1>4 DEF StartPoll, FetchDone, SkipSeen, vars, poller, stream
<1>5. CASE Read \/ Consume \/ StartWorker
  BY <1>1, <1>5 DEF Read, Consume, Ask, SkipHalted, Answer, Ack, StartWorker, poller, stream
<1> QED BY <1>2, <1>3, <1>4, <1>5 DEF Poll

(* What is placed and followed is accounted for.                           *)
LEMMA LossFollows == TypeOK /\ Lossless => NothingLost
<1> SUFFICES ASSUME TypeOK, Calm, Started, Followed, Placed, NEW e \in Events, e[1] \in seen
             PROVE  Accounted(e)
  BY DEF Lossless, NothingLost, Calm
<1>1. CASE e[1] = marked /\ e[2] >= part
  BY <1>1 DEF Accounted
<1>2. ASSUME NEW id \in Ids, log[id] = e PROVE Accounted(e)
  <2>1. id \in Nat /\ id <= Len(log) /\ id >= 1 /\ Len(log) \in Nat /\ last \in Nat /\ trimmed \in Nat
    BY DEF TypeOK, Ids
  <2>2. group
    BY <2>1 DEF Started
  <2>3. id <= last \/ id <= trimmed \/ Queued(id)
    BY <2>1, <2>2 DEF Queued, From
  <2>4. Queued(id) \/ id \in hand \/ Analyzed(id) \/ Len(log) - id >= MaxLen
    BY <2>3 DEF Followed, Old
  <2> QED BY <1>2, <2>4 DEF Accounted
<1> QED BY <1>1, <1>2 DEF Placed

(* Without a fault and a change of the kill switch every event of a seen   *)
(* item is about to be published, waits for the consumer, is in its hand,  *)
(* analyzed, or older than the newest MaxLen: no place between the feed    *)
(* and the LLM loses one.                                                  *)
THEOREM LossFree == Spec => []NothingLost
<1>1. Init => Lossless
  BY DEF Init, Lossless, Started, Followed, Placed, PollerBusy, Ids
<1>2. IInv /\ Lossless /\ [Next]_vars => Lossless'
  <2> SUFFICES ASSUME IInv, Lossless, [Next]_vars, Calm' PROVE (Started /\ Followed /\ Placed)'
    BY DEF Lossless
  <2>1. TypeOK /\ HandEmpty
    BY DEF IInv
  <2>2. /\ Poll \/ Read \/ Consume \/ StartWorker \/ UNCHANGED vars
        /\ Started /\ Followed /\ Placed
    BY <2>1, CalmStep DEF Lossless
  <2> QED BY <2>1, <2>2, StartedStep, FollowedStep, PlacedStep
<1>3. IInv /\ Lossless => NothingLost
  BY LossFollows DEF IInv
<1> QED BY <1>1, <1>2, <1>3, Invariance, PTL DEF Spec

-----------------------------------------------------------------------------
(* The promise of EventDelivery.                                           *)

Awaited == {log[id] : id \in {i \in Ids : Queued(i)}}

(* What waits is the log from From on.                                     *)
LEMMA WaitingType ==
  ASSUME TypeOK
  PROVE  /\ From \in 0..Len(log) /\ Len(log) \in Nat
         /\ Waiting \in Seq(Events)
         /\ Len(Waiting) = IF group THEN Len(log) - From ELSE 0
         /\ \A k \in 1..Len(Waiting) : Waiting[k] = log[From + k]
<1>1. log \in Seq(Events) /\ trimmed \in 0..Len(log) /\ last \in 0..Len(log) /\ Len(log) \in Nat
  BY DEF TypeOK
<1>2. From \in 0..Len(log)
  BY <1>1 DEF From
<1>3. CASE ~group
  BY <1>1, <1>2, <1>3 DEF Waiting
<1>4. CASE group
  <2>1. Waiting = SubSeq(log, From + 1, Len(log))
    BY <1>4 DEF Waiting
  <2>2. \A i \in (From + 1)..Len(log) : log[i] \in Events
    BY <1>1, <1>2
  <2>3. From + 1 \in Int /\ Len(log) \in Int
    BY <1>1, <1>2
  <2>4. /\ Waiting \in Seq(Events)
        /\ Len(Waiting) = IF From + 1 <= Len(log) THEN Len(log) - (From + 1) + 1 ELSE 0
        /\ \A k \in 1..(Len(log) - (From + 1) + 1) : Waiting[k] = log[From + 1 + k - 1]
    BY <2>1, <2>2, <2>3, SubSeqProperties
  <2>5. Len(Waiting) = Len(log) - From /\ Len(log) - (From + 1) + 1 = Len(log) - From
    BY <1>1, <1>2, <2>4
  <2>6. \A k \in 1..Len(Waiting) : From + 1 + k - 1 = From + k
    BY <1>1, <1>2, <2>5
  <2> QED
    BY <1>1, <1>2, <1>4, <2>4, <2>5, <2>6
<1> QED
  BY <1>3, <1>4

QueueForm ==
  /\ From \in 0..Len(log) /\ Len(log) \in Nat
  /\ Waiting \in Seq(Events)
  /\ Len(Waiting) = IF group THEN Len(log) - From ELSE 0
  /\ \A k \in 1..Len(Waiting) : Waiting[k] = log[From + k]

(* In this state and in the next.                                          *)
LEMMA QueueIs == TypeOK => QueueForm
BY WaitingType DEF QueueForm

(* The same of the next state.                                             *)
LEMMA QueueIsNext == TypeOK' => QueueForm'
BY QueueIs, PTL

(* The set of what waits.                                                  *)
LEMMA WaitingSet ==
  ASSUME TypeOK
  PROVE  {Waiting[k] : k \in DOMAIN Waiting} = Awaited
<1>1. /\ From \in 0..Len(log) /\ Len(log) \in Nat
      /\ Waiting \in Seq(Events)
      /\ Len(Waiting) = IF group THEN Len(log) - From ELSE 0
      /\ \A k \in 1..Len(Waiting) : Waiting[k] = log[From + k]
  BY WaitingType
<1>2. DOMAIN Waiting = 1..Len(Waiting)
  BY <1>1
<1>3. ASSUME NEW k \in 1..Len(Waiting) PROVE Waiting[k] \in Awaited
  <2>1. group /\ From + k \in Ids /\ From + k > From
    BY <1>1 DEF Ids
  <2> QED
    BY <1>1, <2>1 DEF Awaited, Queued
<1>4. ASSUME NEW id \in Ids, Queued(id) PROVE log[id] \in {Waiting[k] : k \in 1..Len(Waiting)}
  <2>1. group /\ id - From \in 1..Len(Waiting) /\ From + (id - From) = id
    BY <1>1, <1>4 DEF Ids, Queued
  <2> QED
    BY <1>1, <2>1
<1> QED
  BY <1>2, <1>3, <1>4 DEF Awaited

(* An entry waits, is in the hand, or was analyzed, as its event is; and   *)
(* no two of these, nor is an event still to come that has an entry.       *)
LEMMA Apart ==
  ASSUME IInv
  PROVE  /\ Awaited \subseteq Events /\ InHand \subseteq Events /\ Given \subseteq Events
         /\ Awaited \cap InHand = {} /\ Awaited \cap Given = {} /\ InHand \cap Given = {}
         /\ Coming \cap (Awaited \cup InHand \cup Given) = {}
<1>1. /\ log \in Seq(Events) /\ last \in 0..Len(log) /\ trimmed \in 0..Len(log)
      /\ hand \subseteq Ids /\ Len(log) \in Nat
      /\ \A c \in DOMAIN calls : calls[c] \subseteq Ids
  <2>1. calls \in Seq(SUBSET Ids)
    BY DEF IInv, TypeOK
  <2> QED
    BY <2>1 DEF IInv, TypeOK
<1>2. /\ \A id \in Ids : log[id] \in Events
      /\ \A i, j \in Ids : log[i] = log[j] => i = j
      /\ \A id \in Ids : log[id] \notin Coming
  <2>1. \A id \in Ids : log[id] \in Events
    BY <1>1 DEF Ids
  <2>2. \A id \in Ids : log[id][1] \in seen /\ (log[id][1] = marked => log[id][2] < part)
    BY DEF IInv, PublishedOnce
  <2>3. \A id \in Ids : log[id][2] \in Nat /\ part \in Nat
    BY <2>1, EventParts DEF IInv, TypeOK
  <2>4. \A id \in Ids : log[id] \notin Coming
    BY <2>2, <2>3 DEF Coming
  <2> QED
    BY <2>1, <2>4 DEF IInv, PublishedOnce
<1>3. \A id \in Ids : Queued(id) => id > last
  BY <1>1 DEF Queued, From, Ids
<1>4. \A id \in hand : id <= last
  BY DEF IInv, TakenInOrder
<1>5. \A c \in DOMAIN calls : \A id \in calls[c] : id <= last /\ (stage = "taken" => id \notin hand)
  BY <1>1 DEF IInv, TakenInOrder, Ids
<1>6. InHand \subseteq {log[id] : id \in hand} /\ (InHand # {} => stage = "taken")
  BY DEF InHand
<1>7. \A e \in Given : \E c \in DOMAIN calls : \E id \in calls[c] : e = log[id]
  BY DEF Given
<1>8. \A e \in Awaited : \E id \in Ids : Queued(id) /\ e = log[id]
  BY DEF Awaited
<1>9. \A id \in Ids : Queued(id) => ~(id <= last)
  BY <1>1, <1>3 DEF Ids
<1>10. \A e \in Awaited : \E id \in Ids : e = log[id] /\ ~(id <= last)
  BY <1>8, <1>9
<1>11. \A e \in InHand : \E id \in Ids : e = log[id] /\ id <= last /\ id \in hand /\ stage = "taken"
  BY <1>1, <1>4, <1>6
<1>12. \A e \in Given : \E id \in Ids : e = log[id] /\ id <= last /\ (stage = "taken" => id \notin hand)
  BY <1>1, <1>5, <1>7
<1>13. ASSUME NEW e \in Awaited PROVE e \notin InHand /\ e \notin Given
  <2>1. PICK i \in Ids : e = log[i] /\ ~(i <= last)
    BY <1>10
  <2>2. \A j \in Ids : e = log[j] => j = i
    BY <1>2, <2>1
  <2> QED
    BY <1>11, <1>12, <2>1, <2>2
<1>14. InHand \cap Given = {}
  BY <1>2, <1>11, <1>12
<1>15. \A e \in Awaited \cup InHand \cup Given : e \in Events /\ e \notin Coming
  <2>1. \A e \in Awaited \cup InHand \cup Given : \E id \in Ids : e = log[id]
    BY <1>10, <1>11, <1>12
  <2> QED
    BY <1>2, <2>1
<1> QED
  BY <1>13, <1>14, <1>15

(* Seen from EventDelivery, what may still come is unpublished.            *)
LEMMA Unpublished ==
  ASSUME IInv
  PROVE  /\ Delivery!Unpublished = Coming
         /\ Lost = Events \ (Coming \cup Given \cup InHand \cup Awaited)
<1>1. {Waiting[k] : k \in DOMAIN Waiting} = Awaited
  BY WaitingSet DEF IInv
<1>2. Lost = Events \ (Coming \cup Given \cup InHand \cup Awaited)
  BY <1>1 DEF Lost
<1>3. Delivery!Unpublished = Events \ (Given \cup Lost \cup InHand \cup Awaited)
  BY <1>1 DEF Delivery!Unpublished, Delivery!ToSet
<1>4. Coming \subseteq Events
  BY DEF Coming
<1> QED
  BY <1>2, <1>3, <1>4, Apart

(* A step that moves no event is none of EventDelivery's.                  *)
LEMMA Stutter ==
  ASSUME UNCHANGED <<Waiting, InHand, Given, Coming>>
  PROVE  UNCHANGED Delivery!vars
<1>1. Lost' = Lost
  BY DEF Lost
<1> QED
  BY <1>1 DEF Delivery!vars

(* The elements of a sequence.                                             *)
Entries(q) == {q[k] : k \in DOMAIN q}

Distinct(q) == \A i, j \in 1..Len(q) : q[i] = q[j] => i = j

CutAt(q, n, older, newer) ==
  /\ newer \in Seq(Events) /\ Len(newer) = Len(q) - n
  /\ \A k \in 1..(Len(q) - n) : newer[k] = q[n + k]
  /\ older \in Seq(Events) /\ Len(older) = n
  /\ \A k \in 1..n : older[k] = q[k]
  /\ Entries(q) = Entries(older) \cup Entries(newer)
  /\ Entries(older) \cap Entries(newer) = {}

(* A sequence without repetitions, cut after its n-th element.             *)
LEMMA CutSequence ==
  ASSUME NEW q \in Seq(Events), NEW n \in 0..Len(q), Distinct(q)
  PROVE  CutAt(q, n, SubSeq(q, 1, n), SubSeq(q, n + 1, Len(q)))
<1>a. PICK older : older = SubSeq(q, 1, n)
  OBVIOUS
<1>b. PICK newer : newer = SubSeq(q, n + 1, Len(q))
  OBVIOUS
<1>1. PICK m \in Nat : m = Len(q)
  OBVIOUS
<1>2. n \in Nat /\ n <= m /\ \A k \in 1..m : q[k] \in Events
  BY <1>1
<1>3. /\ older \in Seq(Events) /\ Len(older) = n
      /\ \A k \in 1..n : older[k] = q[k]
  <2>1. \A k \in 1..n : q[k] \in Events
    BY <1>2
  <2>2. /\ older \in Seq(Events)
        /\ Len(older) = IF 1 <= n THEN n - 1 + 1 ELSE 0
        /\ \A k \in 1..(n - 1 + 1) : older[k] = q[1 + k - 1]
    BY <1>a, <1>2, <2>1, SubSeqProperties
  <2> QED
    BY <1>2, <2>2
<1>4. /\ newer \in Seq(Events) /\ Len(newer) = m - n
      /\ \A k \in 1..(m - n) : newer[k] = q[n + k]
  <2>1. \A k \in (n + 1)..m : q[k] \in Events
    BY <1>2
  <2>2. /\ newer \in Seq(Events)
        /\ Len(newer) = IF n + 1 <= m THEN m - (n + 1) + 1 ELSE 0
        /\ \A k \in 1..(m - (n + 1) + 1) : newer[k] = q[n + 1 + k - 1]
    BY <1>b, <1>1, <1>2, <2>1, SubSeqProperties
  <2>3. m - (n + 1) + 1 = m - n /\ \A k \in Nat : n + 1 + k - 1 = n + k
    BY <1>2
  <2> QED
    BY <1>2, <2>2, <2>3
<1>5. DOMAIN older = 1..n /\ DOMAIN newer = 1..(m - n) /\ DOMAIN q = 1..m
  BY <1>1, <1>3, <1>4
<1>6. \A k \in 1..m : k \in 1..n \/ (k - n \in 1..(m - n) /\ n + (k - n) = k)
  BY <1>2
<1>7. (\A k \in 1..n : k \in 1..m) /\ (\A k \in 1..(m - n) : n + k \in 1..m)
  BY <1>2
<1>8. ASSUME NEW i \in 1..n, NEW j \in 1..(m - n) PROVE older[i] # newer[j]
  <2>1. i # n + j /\ i \in 1..m /\ n + j \in 1..m
    BY <1>2
  <2>2. q[i] # q[n + j]
    BY <1>1, <2>1 DEF Distinct
  <2> QED
    BY <1>3, <1>4, <2>2
<1>9. ASSUME NEW k \in 1..m
      PROVE  (\E i \in 1..n : q[k] = older[i]) \/ (\E j \in 1..(m - n) : q[k] = newer[j])
  <2>1. CASE k \in 1..n
    BY <1>3, <2>1
  <2>2. CASE k \notin 1..n
    <3>1. k - n \in 1..(m - n) /\ n + (k - n) = k
      BY <1>6, <2>2
    <3>2. newer[k - n] = q[k]
      BY <1>4, <3>1
    <3> QED
      BY <3>1, <3>2
  <2> QED
    BY <2>1, <2>2
<1>10. \A i \in 1..n : older[i] = q[i] /\ i \in 1..m
  BY <1>3, <1>7
<1>11. \A j \in 1..(m - n) : newer[j] = q[n + j] /\ n + j \in 1..m
  BY <1>4, <1>7
<1>12. Entries(q) \subseteq Entries(older) \cup Entries(newer)
  <2>1. \A i \in 1..n : older[i] \in Entries(older)
    BY <1>5 DEF Entries
  <2>2. \A j \in 1..(m - n) : newer[j] \in Entries(newer)
    BY <1>5 DEF Entries
  <2>3. \A e \in Entries(q) : \E k \in 1..m : e = q[k]
    BY <1>5 DEF Entries
  <2> SUFFICES ASSUME NEW e \in Entries(q) PROVE e \in Entries(older) \cup Entries(newer)
    OBVIOUS
  <2>4. PICK k \in 1..m : e = q[k]
    BY <2>3
  <2>5. (\E i \in 1..n : e = older[i]) \/ (\E j \in 1..(m - n) : e = newer[j])
    BY <1>9, <2>4
  <2> QED
    BY <2>1, <2>2, <2>5
<1>13. Entries(older) \subseteq Entries(q)
  BY <1>5, <1>10 DEF Entries
<1>14. Entries(newer) \subseteq Entries(q)
  <2>1. \A i \in 1..m : q[i] \in Entries(q)
    BY <1>5 DEF Entries
  <2>2. \A e \in Entries(newer) : \E k \in 1..(m - n) : e = newer[k]
    BY <1>5 DEF Entries
  <2> QED
    BY <1>11, <2>1, <2>2, SMTT(30)
<1>15. Entries(older) \cap Entries(newer) = {}
  BY <1>5, <1>8 DEF Entries
<1>16. newer \in Seq(Events) /\ Len(newer) = Len(q) - n /\ \A k \in 1..(Len(q) - n) : newer[k] = q[n + k]
  BY <1>1, <1>4
<1>17. Entries(q) = Entries(older) \cup Entries(newer)
  BY <1>12, <1>13, <1>14
<1> QED
  BY <1>a, <1>b, <1>3, <1>15, <1>16, <1>17 DEF CutAt

(* The events before and after a place of the queue.                       *)
LEMMA Cut ==
  ASSUME IInv, NEW n \in 0..Len(Waiting)
  PROVE  /\ Delivery!Oldest(n) \subseteq Awaited
         /\ Entries(Delivery!After(n)) = Awaited \ Delivery!Oldest(n)
         /\ Delivery!Oldest(n) = {Waiting[k] : k \in 1..n}
         /\ Delivery!After(n) \in Seq(Events)
         /\ Len(Delivery!After(n)) = Len(Waiting) - n
         /\ \A k \in 1..(Len(Waiting) - n) : Delivery!After(n)[k] = Waiting[n + k]
<1>1. /\ From \in 0..Len(log) /\ Len(log) \in Nat
      /\ Waiting \in Seq(Events) /\ Len(Waiting) \in Nat
      /\ Len(Waiting) = IF group THEN Len(log) - From ELSE 0
      /\ \A k \in 1..Len(Waiting) : Waiting[k] = log[From + k]
  BY WaitingType DEF IInv
<1>2. Distinct(Waiting)
  <2> SUFFICES ASSUME NEW i \in 1..Len(Waiting), NEW j \in 1..Len(Waiting), Waiting[i] = Waiting[j]
               PROVE  i = j
    BY DEF Distinct
  <2>1. From + i \in Ids /\ From + j \in Ids /\ log[From + i] = log[From + j]
    BY <1>1 DEF Ids
  <2>2. From + i = From + j
    BY <2>1 DEF IInv, PublishedOnce
  <2> QED
    BY <1>1, <2>2
<1>3. PICK older : older = SubSeq(Waiting, 1, n)
  OBVIOUS
<1>4. PICK newer : newer = SubSeq(Waiting, n + 1, Len(Waiting))
  OBVIOUS
<1>5. Delivery!Oldest(n) = Entries(older) /\ Delivery!After(n) = newer
  BY <1>3, <1>4 DEF Delivery!Oldest, Delivery!After, Delivery!ToSet, Entries
<1>6. Entries(Waiting) = Awaited
  BY WaitingSet DEF IInv, Entries
<1>7. CutAt(Waiting, n, older, newer)
  BY <1>1, <1>2, <1>3, <1>4, CutSequence
<1>8. Entries(older) = {Waiting[k] : k \in 1..n}
  <2>1. DOMAIN older = 1..n /\ \A k \in 1..n : older[k] = Waiting[k]
    BY <1>7 DEF CutAt
  <2> QED
    BY <2>1, Zenon DEF Entries
<1>9. Entries(older) \subseteq Awaited /\ Entries(newer) = Awaited \ Entries(older)
  BY <1>6, <1>7 DEF CutAt
<1> QED
  BY <1>5, <1>7, <1>8, <1>9 DEF CutAt

Partition ==
  /\ Lost = Events \ (Coming \cup Given \cup InHand \cup Awaited)
  /\ Entries(Waiting) = Awaited
  /\ Coming \subseteq Events

(* What was lost is neither to come, nor waiting, taken or given.          *)
LEMMA LostIs == IInv => Partition
BY Unpublished, WaitingSet DEF IInv, Entries, Coming, Partition

(* The same of the next state.                                             *)
LEMMA LostIsNext == IInv' => Partition'
BY LostIs, PTL

(* The oldest of the queue are given up, and what may not come any more,   *)
(* and what is in the hand and is not asked about.                         *)
LEMMA GivesUp ==
  ASSUME IInv, IInv', NEW n \in 0..Len(Waiting), Waiting' = Delivery!After(n),
         Given' = Given, InHand' \subseteq InHand, Coming' \subseteq Coming
  PROVE  Delivery!Next
<1> DEFINE S == (Coming \ Coming') \cup (InHand \ InHand')
<1>1. Awaited' = Awaited \ Delivery!Oldest(n) /\ Delivery!Oldest(n) \subseteq Awaited
  BY Cut, LostIsNext DEF Partition
<1>2. S \in SUBSET (Delivery!Unpublished \cup InHand)
  BY Unpublished
<1>3. InHand' = InHand \ S
  BY Apart
<1>4. Lost' = Lost \cup S \cup Delivery!Oldest(n)
  BY <1>1, Apart, LostIs, LostIsNext DEF Partition
<1>5. Delivery!GiveUp(n, S)
  BY <1>3, <1>4 DEF Delivery!GiveUp
<1> QED
  BY <1>2, <1>5 DEF Delivery!Next

(* An event is published, and the oldest are trimmed.                      *)
LEMMA Publishes ==
  ASSUME IInv, IInv', NEW n \in 0..Len(Waiting), NEW e \in Coming \ Coming',
         Waiting' = Append(Delivery!After(n), e),
         Given' = Given, InHand' = InHand, Coming' \subseteq Coming
  PROVE  Delivery!Next
<1> DEFINE S == (Coming \ Coming') \ {e}
<1>1. /\ Delivery!After(n) \in Seq(Events)
      /\ Entries(Delivery!After(n)) = Awaited \ Delivery!Oldest(n)
      /\ Delivery!Oldest(n) \subseteq Awaited
  BY Cut
<1>2. e \in Events
  BY LostIs DEF Partition
<1>3. Entries(Append(Delivery!After(n), e)) = Entries(Delivery!After(n)) \cup {e}
  <2>1. PICK q \in Seq(Events) : q = Delivery!After(n)
    BY <1>1
  <2>2. PICK r : r = Append(q, e)
    OBVIOUS
  <2>3. /\ r \in Seq(Events) /\ Len(r) = Len(q) + 1 /\ Len(q) \in Nat
        /\ \A k \in 1..Len(q) : r[k] = q[k]
        /\ r[Len(q) + 1] = e
    BY <1>2, <2>2
  <2>4. DOMAIN q = 1..Len(q) /\ DOMAIN r = 1..(Len(q) + 1)
    BY <2>3
  <2>5. \A k \in 1..(Len(q) + 1) : k \in 1..Len(q) \/ k = Len(q) + 1
    BY <2>3
  <2>6. \A k \in 1..Len(q) : k \in 1..(Len(q) + 1)
    BY <2>3
  <2>7. Len(q) + 1 \in 1..(Len(q) + 1)
    BY <2>3
  <2>8. Entries(r) \subseteq Entries(q) \cup {e}
    BY <2>3, <2>4, <2>5 DEF Entries
  <2>9. Entries(q) \subseteq Entries(r) /\ e \in Entries(r)
    BY <2>3, <2>4, <2>6, <2>7 DEF Entries
  <2> QED
    BY <2>1, <2>2, <2>8, <2>9
<1>4. Awaited' = (Awaited \ Delivery!Oldest(n)) \cup {e}
  BY <1>1, <1>3, LostIsNext DEF Partition
<1>5. S \in SUBSET Delivery!Unpublished /\ e \in Delivery!Unpublished \ S
  BY Unpublished
<1>6. Lost' = Lost \cup S \cup Delivery!Oldest(n)
  BY <1>1, <1>2, <1>4, Apart, LostIs, LostIsNext DEF Partition
<1>7. Delivery!Publish(e, n, S)
  BY <1>5, <1>6 DEF Delivery!Publish
<1> QED
  BY <1>2, <1>5, <1>7 DEF Delivery!Next

(* The oldest of the queue are taken.                                      *)
LEMMA Takes ==
  ASSUME IInv, IInv', NEW n \in 0..Len(Waiting), n > 0, Waiting' = Delivery!After(n),
         InHand = {}, InHand' = Delivery!Oldest(n), Given' = Given, Coming' = Coming
  PROVE  Delivery!Next
<1>1. Awaited' = Awaited \ Delivery!Oldest(n) /\ Delivery!Oldest(n) \subseteq Awaited
  BY Cut, LostIsNext DEF Partition
<1>2. Lost' = Lost
  BY <1>1, LostIs, LostIsNext DEF Partition
<1>3. Delivery!Take(n)
  BY <1>2 DEF Delivery!Take
<1> QED
  BY <1>3 DEF Delivery!Next

(* What is in the hand is given to the LLM.                                *)
LEMMA Analyzes ==
  ASSUME IInv, IInv', Waiting' = Waiting, Coming' = Coming,
         InHand' = {}, Given' = Given \cup InHand
  PROVE  Delivery!Next
<1>1. Awaited' = Awaited
  BY LostIs, LostIsNext DEF Partition
<1>2. Lost' = Lost
  BY <1>1, LostIs, LostIsNext DEF Partition
<1>3. Delivery!Analyze
  BY <1>2 DEF Delivery!Analyze
<1> QED
  BY <1>3 DEF Delivery!Next

(* The stream, the group's place in it and the analyses stay as they are.  *)
LEMMA Still ==
  ASSUME UNCHANGED <<log, trimmed, group, last, calls>>
  PROVE  Waiting' = Waiting /\ Given' = Given
BY DEF Waiting, From, Given

(* Nothing is given up from the front of the queue.                        *)
LEMMA FromFirst == ASSUME IInv PROVE Delivery!After(0) = Waiting /\ 0 \in 0..Len(Waiting)
<1>1. Waiting \in Seq(Events) /\ Len(Waiting) \in Nat
  BY WaitingType DEF IInv
<1>2. /\ Delivery!After(0) \in Seq(Events)
      /\ Len(Delivery!After(0)) = Len(Waiting)
      /\ \A k \in 1..Len(Waiting) : Delivery!After(0)[k] = Waiting[k]
  <2>1. 0 \in 0..Len(Waiting) /\ Len(Waiting) - 0 = Len(Waiting)
    BY <1>1
  <2>2. /\ Delivery!After(0) \in Seq(Events)
        /\ Len(Delivery!After(0)) = Len(Waiting) - 0
        /\ \A k \in 1..(Len(Waiting) - 0) : Delivery!After(0)[k] = Waiting[0 + k]
    BY <2>1, Cut
  <2>3. \A k \in 1..Len(Waiting) : 0 + k = k
    BY <1>1
  <2> QED
    BY <2>1, <2>2, <2>3
<1> QED
  BY <1>1, <1>2, SeqEqual

(* A step that only drops what was to come, or what is in the hand.        *)
LEMMA Drops ==
  ASSUME IInv, IInv', UNCHANGED <<log, trimmed, group, last, calls>>,
         InHand' \subseteq InHand, Coming' \subseteq Coming
  PROVE  Delivery!Next
BY Still, FromFirst, GivesUp

(* A poll that ends early drops the rest of what it publishes.             *)
LEMMA DropComing ==
  ASSUME DropPoll, seen \subseteq seen'
  PROVE  Coming' \subseteq Coming
<1> SUFFICES ASSUME NEW e \in Coming' PROVE e \in Coming
  OBVIOUS
<1>1. e \in Events /\ e[1] \in Items
  BY EventParts DEF Coming
<1>2. e[1] \notin seen'
  BY <1>1 DEF Coming, DropPoll
<1> QED
  BY <1>1, <1>2 DEF Coming

(* The group moves forward by n entries, and the stream stays.             *)
LEMMA Advances ==
  ASSUME IInv, IInv', group, UNCHANGED <<log, group>>, NEW n \in Nat, From' = From + n
  PROVE  n \in 0..Len(Waiting) /\ Waiting' = Delivery!After(n)
<1>1. /\ From \in Nat /\ Len(log) \in Nat
      /\ Waiting \in Seq(Events) /\ Len(Waiting) = Len(log) - From
      /\ \A k \in 1..Len(Waiting) : Waiting[k] = log[From + k]
  BY QueueIs DEF IInv, QueueForm
<1>2. /\ From + n <= Len(log)
      /\ Waiting' \in Seq(Events) /\ Len(Waiting') = Len(log) - (From + n)
      /\ \A k \in 1..Len(Waiting') : Waiting'[k] = log[From + n + k]
  BY QueueIsNext DEF IInv, QueueForm
<1>3. n \in 0..Len(Waiting)
  BY <1>1, <1>2
<1>4. /\ Delivery!After(n) \in Seq(Events)
      /\ Len(Delivery!After(n)) = Len(Waiting) - n
      /\ \A k \in 1..(Len(Waiting) - n) : Delivery!After(n)[k] = Waiting[n + k]
  BY <1>3, Cut
<1>5. Len(Waiting') = Len(Waiting) - n
  BY <1>1, <1>2
<1>6. ASSUME NEW k \in 1..Len(Waiting') PROVE Waiting'[k] = Delivery!After(n)[k]
  <2>1. k \in Nat /\ n + k \in 1..Len(Waiting) /\ From + (n + k) = From + n + k
    BY <1>1, <1>2
  <2> QED
    BY <1>1, <1>2, <1>4, <1>5, <2>1
<1> QED
  BY <1>2, <1>3, <1>4, <1>5, <1>6, SeqEqual

(* w0 and w1 are the ends, from a and from a + n on, of a log and of its    *)
(* extension by e, and c is what is after the first n of w0.               *)
Grown(E, e, w0, w1, c, l0, l1, a, n, m) ==
  /\ a \in Nat /\ n \in Nat /\ m \in Nat
  /\ e \in E /\ w0 \in Seq(E) /\ w1 \in Seq(E) /\ c \in Seq(E)
  /\ Len(w0) = n + m /\ Len(c) = m /\ Len(w1) = m + 1
  /\ \A k \in 1..(n + m) : w0[k] = l0[a + k]
  /\ \A k \in 1..m : c[k] = w0[n + k]
  /\ \A k \in 1..(m + 1) : w1[k] = l1[(a + n) + k]
  /\ \A i \in 1..(a + n + m) : l1[i] = l0[i]
  /\ l1[a + n + m + 1] = e

(* So w1 is c with e at its end.                                           *)
LEMMA AppendAfter ==
  ASSUME NEW E, NEW e, NEW w0, NEW w1, NEW c, NEW l0, NEW l1, NEW a, NEW n, NEW m,
         Grown(E, e, w0, w1, c, l0, l1, a, n, m)
  PROVE  w1 = Append(c, e)
<1> USE DEF Grown
<1>1. PICK r : r = Append(c, e)
  OBVIOUS
<1>2. r \in Seq(E) /\ Len(r) = m + 1
  BY <1>1
<1>3. (\A k \in 1..m : r[k] = c[k]) /\ r[m + 1] = e
  BY <1>1
<1>4. ASSUME NEW k \in 1..m PROVE w1[k] = r[k]
  <2>1. k \in 1..(m + 1) /\ n + k \in 1..(n + m) /\ (a + n) + k = a + (n + k)
        /\ a + (n + k) \in 1..(a + n + m)
    OBVIOUS
  <2>2. w1[k] = l0[a + (n + k)]
    BY <2>1
  <2>3. r[k] = l0[a + (n + k)]
    BY <1>3, <2>1
  <2> QED
    BY <2>2, <2>3
<1>5. w1[m + 1] = r[m + 1]
  BY <1>3
<1>6. \A k \in 1..(m + 1) : w1[k] = r[k]
  <2>1. \A k \in 1..(m + 1) : k \in 1..m \/ k = m + 1
    OBVIOUS
  <2> QED
    BY <1>4, <1>5, <2>1
<1> QED
  BY <1>1, <1>2, <1>6, SeqEqual

(* An entry is added, and perhaps the oldest are trimmed.                  *)
LEMMA Grows ==
  ASSUME IInv, IInv', marked # NoItem, Add, UNCHANGED <<group, last, calls, hand, stage>>
  PROVE  /\ Given' = Given /\ InHand' = InHand
         /\ ~group => Waiting' = Waiting
         /\ group => \E n \in 0..Len(Waiting) :
                        Waiting' = Append(Delivery!After(n), <<marked, part>>)
<1>1. /\ log' \in Seq(Events) /\ Len(log') = Len(log) + 1
      /\ log'[Len(log) + 1] = <<marked, part>>
      /\ \A id \in Ids : log'[id] = log[id]
  BY Added DEF IInv
<1>2. hand \subseteq Ids /\ \A c \in DOMAIN calls : calls[c] \subseteq Ids
  <2>1. hand \subseteq Ids /\ calls \in Seq(SUBSET Ids)
    BY DEF IInv, TypeOK
  <2> QED
    BY <2>1
<1>3. InHand' = InHand
  BY <1>1, <1>2 DEF InHand
<1>4. Given' = Given
  <2>1. PICK D : D = UNION {calls[c] : c \in DOMAIN calls}
    OBVIOUS
  <2>2. D \subseteq Ids
    BY <1>2, <2>1
  <2>3. Given = {log[id] : id \in D} /\ Given' = {log'[id] : id \in D}
    BY <2>1 DEF Given
  <2> QED
    BY <1>1, <2>2, <2>3
<1>5. ASSUME ~group PROVE Waiting' = Waiting
  BY <1>5 DEF Waiting
<1>6. ASSUME group
      PROVE  \E n \in 0..Len(Waiting) : Waiting' = Append(Delivery!After(n), <<marked, part>>)
  <2>1. /\ From \in Nat /\ Len(log) \in Nat
        /\ Waiting \in Seq(Events) /\ Len(Waiting) = Len(log) - From
        /\ \A k \in 1..Len(Waiting) : Waiting[k] = log[From + k]
    <3>1. QueueForm
      BY QueueIs DEF IInv
    <3> QED
      BY <1>6, <3>1 DEF QueueForm
  <2>2. /\ From' \in Nat
        /\ Waiting' \in Seq(Events) /\ Len(Waiting') = Len(log) + 1 - From'
        /\ \A k \in 1..Len(Waiting') : Waiting'[k] = log'[From' + k]
    BY <1>1, <1>6, QueueIsNext DEF IInv, QueueForm
  <2>3. From <= From' /\ From' <= Len(log)
    <3>1. trimmed \in 0..Len(log) /\ last \in 0..Len(log) /\ MaxLen \in Nat \ {0}
      BY DEF IInv, TypeOK
    <3>2. trimmed' \in trimmed..(Len(log) + 1) /\ (trimmed' = trimmed \/ Len(log) + 1 - trimmed' >= MaxLen)
      BY <1>1 DEF Add
    <3> QED
      BY <2>1, <3>1, <3>2 DEF From
  <2>4. PICK n \in 0..Len(Waiting) : From' = From + n
    <3>1. From' - From \in 0..Len(Waiting) /\ From' = From + (From' - From)
      BY <2>1, <2>2, <2>3
    <3> QED
      BY <3>1
  <2>5. /\ Delivery!After(n) \in Seq(Events)
        /\ Len(Delivery!After(n)) = Len(Waiting) - n
        /\ \A k \in 1..(Len(Waiting) - n) : Delivery!After(n)[k] = Waiting[n + k]
    BY <2>4, Cut
  <2>6. PICK m : m = Len(Waiting) - n
    OBVIOUS
  <2>7. PICK a : a = From
    OBVIOUS
  <2>8. PICK w0 : w0 = Waiting
    OBVIOUS
  <2>9. PICK w1 : w1 = Waiting'
    OBVIOUS
  <2>10. PICK c : c = Delivery!After(n)
    OBVIOUS
  <2>11. w0 \in Seq(Events) /\ w1 \in Seq(Events) /\ c \in Seq(Events) /\ <<marked, part>> \in Events
    BY <2>1, <2>2, <2>5, <2>8, <2>9, <2>10, NextEvent DEF IInv
  <2>12. /\ a \in Nat /\ n \in Nat /\ m \in Nat
         /\ Len(w0) = n + m /\ Len(log) = a + n + m /\ From' = a + n
    <3>1. Len(w0) \in Nat /\ n \in 0..Len(w0)
      BY <2>4, <2>8, <2>11
    <3>2. a \in Nat /\ Len(log) \in Nat /\ Len(w0) = Len(log) - a
      BY <2>1, <2>7, <2>8
    <3>3. m = Len(w0) - n /\ From' = a + n
      BY <2>4, <2>6, <2>7, <2>8
    <3> QED
      BY <3>1, <3>2, <3>3
  <2>13. Len(c) = m
    BY <2>5, <2>6, <2>10
  <2>14. Len(w1) = m + 1
    <3>1. Len(w1) = Len(log) + 1 - From'
      BY <2>2, <2>9
    <3> QED
      BY <2>12, <3>1
  <2>15. \A k \in 1..(n + m) : w0[k] = log[a + k]
    BY <2>1, <2>7, <2>8, <2>12
  <2>16. \A k \in 1..m : c[k] = w0[n + k]
    BY <2>5, <2>6, <2>8, <2>10
  <2>17. \A k \in 1..(m + 1) : w1[k] = log'[(a + n) + k]
    BY <2>2, <2>9, <2>12, <2>14
  <2>18. (\A i \in 1..(a + n + m) : log'[i] = log[i]) /\ log'[a + n + m + 1] = <<marked, part>>
    BY <1>1, <2>12 DEF Ids
  <2>19. Grown(Events, <<marked, part>>, w0, w1, c, log, log', a, n, m)
    BY <2>11, <2>12, <2>13, <2>14, <2>15, <2>16, <2>17, <2>18 DEF Grown
  <2>20. w1 = Append(c, <<marked, part>>)
    BY <2>19, AppendAfter
  <2> QED
    BY <2>4, <2>9, <2>10, <2>20
<1> QED
  BY <1>3, <1>4, <1>5, <1>6

(* Steps of the poller that publish nothing, and no longer hold nothing    *)
(* back: they move no event.                                               *)
LEMMA PollMaps ==
  ASSUME IInv, IInv', StartPoll \/ FetchDone \/ \E i \in Items : SkipSeen(i) \/ MarkSeen(i)
  PROVE  UNCHANGED Delivery!vars
<1>1. UNCHANGED <<log, trimmed, group, last, calls, hand, stage>>
  BY DEF StartPoll, FetchDone, SkipSeen, MarkSeen, stream, cursor, consumer
<1>2. InHand' = InHand
  BY <1>1 DEF InHand
<1>3. Coming' = Coming
  <2>1. CASE StartPoll \/ FetchDone \/ \E i \in Items : SkipSeen(i)
    BY <2>1 DEF StartPoll, FetchDone, SkipSeen, Coming
  <2>2. ASSUME NEW i \in Items, MarkSeen(i) PROVE Coming' = Coming
    <3>1. i \notin seen /\ marked = NoItem /\ seen' = seen \cup {i} /\ marked' = i /\ part' = 1
      BY <2>2 DEF MarkSeen
    <3>2. \A e \in Events : e[1] \in Items /\ e[1] # NoItem /\ e[2] >= 1
      BY DEF Events
    <3> QED
      BY <3>1, <3>2 DEF Coming
  <2> QED
    BY <2>1, <2>2
<1> QED
  BY <1>1, <1>2, <1>3, Still, Stutter

(* What is published may no longer come.                                   *)
LEMMA PublishComing ==
  ASSUME IInv, marked # NoItem, seen' = seen,
         \/ marked' = marked /\ part' = part + 1
         \/ marked' = NoItem
  PROVE  <<marked, part>> \in Coming \ Coming' /\ Coming' \subseteq Coming
<1>1. /\ <<marked, part>> \in Events /\ marked \in Items /\ part \in Nat /\ marked \in seen
      /\ marked' # NoItem => marked' = marked /\ part' = part + 1
  BY NextEvent DEF IInv, TypeOK, PublishedOnce
<1>2. <<marked, part>> \in Coming
  BY <1>1 DEF Coming
<1>3. <<marked, part>> \notin Coming'
  BY <1>1 DEF Coming
<1>4. Coming' \subseteq Coming
  <2> SUFFICES ASSUME NEW e \in Coming' PROVE e \in Coming
    OBVIOUS
  <2>1. e \in Events /\ e[1] \in Items /\ e[2] \in Nat /\ (e[1] \notin seen' \/ (e[1] = marked' /\ e[2] >= part'))
    BY EventParts DEF Coming
  <2>2. CASE e[1] \notin seen
    BY <2>1, <2>2 DEF Coming
  <2>3. CASE e[1] = marked' /\ e[2] >= part'
    <3>1. e[1] = marked /\ e[2] >= part
      BY <1>1, <2>1, <2>3
    <3> QED
      BY <2>1, <3>1 DEF Coming
  <2> QED
    BY <2>1, <2>2, <2>3
<1> QED
  BY <1>2, <1>3, <1>4

(* An event that is added to the stream is published, or skipped at once   *)
(* where no group waits for it.                                            *)
LEMMA AddMaps ==
  ASSUME IInv, IInv', marked # NoItem, Add, seen' = seen,
         UNCHANGED <<group, last, calls, hand, stage>>,
         \/ marked' = marked /\ part' = part + 1
         \/ marked' = NoItem
  PROVE  Delivery!Next
<1>1. <<marked, part>> \in Coming \ Coming' /\ Coming' \subseteq Coming
  BY PublishComing
<1>2. Given' = Given /\ InHand' = InHand
  BY Grows
<1>3. CASE group
  <2>1. PICK n \in 0..Len(Waiting) : Waiting' = Append(Delivery!After(n), <<marked, part>>)
    BY <1>3, Grows
  <2> QED
    BY <1>1, <1>2, <2>1, Publishes
<1>4. CASE ~group
  BY <1>1, <1>2, <1>4, Grows, FromFirst, GivesUp
<1> QED
  BY <1>3, <1>4

(* What fails or ends early drops events: those of the poll, or the hand.  *)
LEMMA DropMaps ==
  ASSUME IInv, IInv', SkipHalted \/ StateFails \/ Crash \/ \E i \in Items : MarkFails(i)
  PROVE  Delivery!Next
<1>1. UNCHANGED <<log, trimmed, group, last, calls>>
  BY DEF SkipHalted, StateFails, Crash, MarkFails, stream, cursor
<1>2. InHand' \subseteq InHand
  <2>1. CASE SkipHalted \/ StateFails \/ Crash
    BY <2>1 DEF SkipHalted, StateFails, Crash, InHand
  <2>2. CASE \E i \in Items : MarkFails(i)
    <3>1. UNCHANGED <<log, hand, stage>>
      BY <1>1, <2>2 DEF MarkFails, consumer
    <3> QED
      BY <3>1 DEF InHand
  <2> QED
    BY <2>1, <2>2
<1>3. Coming' \subseteq Coming
  <2>1. CASE SkipHalted \/ StateFails
    BY <2>1 DEF SkipHalted, StateFails, poller, Coming
  <2>2. CASE Crash \/ \E i \in Items : MarkFails(i)
    <3>1. DropPoll /\ seen \subseteq seen'
      BY <2>2 DEF Crash, MarkFails
    <3> QED
      BY <3>1, DropComing
  <2> QED
    BY <2>1, <2>2
<1> QED
  BY <1>1, <1>2, <1>3, Drops

(* Deliveries take the oldest, or lose them.                               *)
LEMMA DeliverMaps ==
  ASSUME IInv, IInv', Read \/ ReadFails
  PROVE  Delivery!Next
<1>1. MayRead /\ Deliver /\ UNCHANGED <<log, trimmed, group, calls, seen, marked, part>>
  BY DEF Read, ReadFails, stream, poller
<1>2. /\ trimmed \in 0..Len(log) /\ last \in 0..Len(log) /\ Len(log) \in Nat
      /\ Batch[kind] \in Nat \ {0}
  BY SMTT(30) DEF IInv, TypeOK
<1>3. From \in 0..Len(log) /\ trimmed <= From /\ From < Len(log) /\ Upto \in (From + 1)..Len(log)
  BY <1>1, <1>2 DEF From, Upto, MayRead
<1>4. From' = Upto
  BY <1>1, <1>2, <1>3 DEF From, Deliver
<1>5. PICK n \in Nat : n > 0 /\ Upto = From + n
  <2>1. Upto - From \in Nat /\ Upto - From > 0 /\ Upto = From + (Upto - From)
    BY <1>3
  <2> QED
    BY <2>1
<1>6. n \in 0..Len(Waiting) /\ Waiting' = Delivery!After(n)
  BY <1>1, <1>4, <1>5, Advances DEF MayRead
<1>7. Given' = Given /\ Coming' = Coming /\ InHand = {}
  BY <1>1 DEF Given, Coming, InHand, MayRead
<1>8. CASE Read
  <2>1. InHand' = {log[id] : id \in (From + 1)..(From + n)}
    BY <1>1, <1>5, <1>8 DEF Read, InHand
  <2>2. Delivery!Oldest(n) = {Waiting[k] : k \in 1..n}
    BY <1>6, Cut
  <2>3. \A k \in 1..n : k \in 1..Len(Waiting)
    BY <1>5, <1>6
  <2>4. \A k \in 1..n : Waiting[k] = log[From + k]
    BY <2>3, QueueIs DEF IInv, QueueForm
  <2>5. \A id \in (From + 1)..(From + n) : id - From \in 1..n /\ From + (id - From) = id
    BY <1>3, <1>5
  <2>6. \A k \in 1..n : From + k \in (From + 1)..(From + n)
    BY <1>3, <1>5
  <2>7. InHand' = Delivery!Oldest(n)
    BY <2>1, <2>2, <2>4, <2>5, <2>6
  <2> QED
    BY <1>5, <1>6, <1>7, <2>7, Takes
<1>9. CASE ReadFails
  <2>1. InHand' = InHand
    BY <1>1, <1>9 DEF ReadFails, InHand, consumer
  <2> QED
    BY <1>6, <1>7, <2>1, GivesUp
<1> QED
  BY <1>8, <1>9

(* The request to the LLM has the whole hand.                              *)
LEMMA AskMaps == ASSUME IInv, IInv', Ask PROVE Delivery!Next
<1>1. /\ UNCHANGED <<log, trimmed, group, last, seen, marked, part>>
      /\ calls' = Append(calls, hand) /\ stage = "taken" /\ stage' = "asking"
  BY DEF Ask, stream, cursor, poller
<1>2. Waiting' = Waiting /\ Coming' = Coming
  BY <1>1 DEF Waiting, From, Coming
<1>3. InHand' = {} /\ InHand = {log[id] : id \in hand}
  BY <1>1 DEF InHand
<1>4. calls \in Seq(SUBSET Ids) /\ hand \in SUBSET Ids
  BY DEF IInv, TypeOK
<1>5. Given' = Given \cup InHand
  <2>1. PICK D : D = UNION {calls[c] : c \in DOMAIN calls}
    OBVIOUS
  <2>2. PICK m \in Nat : m = Len(calls)
    BY <1>4
  <2>3. /\ DOMAIN calls = 1..m /\ DOMAIN calls' = 1..(m + 1)
        /\ \A c \in 1..m : calls'[c] = calls[c]
        /\ calls'[m + 1] = hand
    BY <1>1, <1>4, <2>2
  <2>4. \A c \in 1..(m + 1) : c \in 1..m \/ c = m + 1
    BY <2>2
  <2>5. m + 1 \in 1..(m + 1) /\ \A c \in 1..m : c \in 1..(m + 1)
    BY <2>2
  <2>6. UNION {calls'[c] : c \in DOMAIN calls'} = D \cup hand
    BY <2>1, <2>3, <2>4, <2>5
  <2>7. Given' = {log[id] : id \in D \cup hand} /\ Given = {log[id] : id \in D}
    BY <1>1, <2>1, <2>6 DEF Given
  <2> QED
    BY <1>3, <2>7
<1> QED
  BY <1>2, <1>3, <1>5, Analyzes

(* The end of a batch and the kill switch move no event, nor does a start: *)
(* a group created at the end of the stream finds nothing waiting.         *)
LEMMA QuietMaps ==
  ASSUME IInv, IInv',
         \/ Answer \/ Ack \/ AckFails \/ StartWorker \/ StartWithoutGroup
         \/ FlipKillSwitch \/ UNCHANGED vars
  PROVE  UNCHANGED Delivery!vars
<1>1. /\ UNCHANGED <<log, trimmed, calls, seen, marked, part>>
      /\ UNCHANGED <<group, last>> \/ StartWorker
  BY DEF Answer, Ack, AckFails, StartWorker, StartWithoutGroup, FlipKillSwitch, vars,
         stream, cursor, poller
<1>2. InHand' = InHand
  <2>1. CASE Answer \/ Ack \/ AckFails
    BY <2>1 DEF Answer, Ack, AckFails, InHand
  <2>2. CASE StartWorker \/ StartWithoutGroup \/ FlipKillSwitch \/ UNCHANGED vars
    <3>1. UNCHANGED <<log, hand, stage>>
      BY <1>1, <2>2 DEF StartWorker, StartWithoutGroup, FlipKillSwitch, vars, consumer
    <3> QED
      BY <3>1 DEF InHand
  <2> QED
    BY <2>1, <2>2
<1>3. Given' = Given /\ Coming' = Coming
  BY <1>1 DEF Given, Coming
<1>4. Waiting' = Waiting
  <2>1. CASE UNCHANGED <<group, last>>
    BY <1>1, <2>1 DEF Waiting, From
  <2>2. CASE StartWorker /\ group
    BY <1>1, <2>2 DEF StartWorker, Waiting, From
  <2>3. CASE StartWorker /\ ~group
    <3>1. trimmed \in 0..Len(log) /\ Len(log) \in Nat
      BY DEF IInv, TypeOK
    <3>2. last' = Len(log) /\ group' /\ From' = Len(log)
      BY <1>1, <2>3, <3>1 DEF StartWorker, From
    <3>3. Len(Waiting') = 0 /\ Waiting' \in Seq(Events)
      <4>1. QueueForm'
        BY QueueIsNext DEF IInv
      <4> QED
        BY <1>1, <3>1, <3>2, <4>1 DEF QueueForm
    <3>4. Waiting = <<>>
      BY <2>3 DEF Waiting
    <3> QED
      BY <3>3, <3>4
  <2> QED
    BY <1>1, <2>1, <2>2, <2>3
<1> QED
  BY <1>2, <1>3, <1>4, Stutter

(* A part that was added is published; one that failed may be lost.        *)
LEMMA PublishMaps ==
  ASSUME IInv, IInv', Publish \/ PublishFails
  PROVE  Delivery!Next
<1>1. marked # NoItem /\ seen' = seen /\ UNCHANGED <<group, last, calls, hand, stage>>
  BY DEF Publish, PublishFails, cursor, consumer
<1>2. (marked' = marked /\ part' = part + 1) \/ marked' = NoItem
  BY DEF Publish, PublishFails, DropPoll
<1>3. CASE Add
  BY <1>1, <1>2, <1>3, AddMaps
<1>4. CASE PublishFails /\ UNCHANGED stream
  <2>1. UNCHANGED <<log, trimmed>> /\ DropPoll
    BY <1>4 DEF PublishFails, stream
  <2>2. InHand' = InHand
    BY <1>1, <2>1 DEF InHand
  <2>3. Coming' \subseteq Coming
    BY <1>1, <2>1, DropComing
  <2> QED
    BY <1>1, <2>1, <2>2, <2>3, Drops
<1> QED
  BY <1>3, <1>4 DEF Publish, PublishFails

(* Nothing waits, is taken, given or lost at first.                        *)
LEMMA DeliveryStarts == Init => Delivery!Init
<1> SUFFICES ASSUME Init PROVE Delivery!Init
  OBVIOUS
<1>1. Waiting = <<>> /\ InHand = {}
  BY DEF Init, Waiting, InHand
<1>2. calls = <<>> /\ DOMAIN calls = {}
  BY DEF Init
<1>3. Given = {}
  BY <1>2 DEF Given
<1>4. Coming = Events
  BY DEF Init, Coming
<1>5. Lost = {}
  BY <1>4 DEF Lost
<1> QED
  BY <1>1, <1>3, <1>5 DEF Delivery!Init

(* Each step is one of EventDelivery, or moves no event.                   *)
LEMMA DeliverySteps ==
  ASSUME IInv, IInv', [Next]_vars
  PROVE  Delivery!Next \/ UNCHANGED Delivery!vars
<1>1. CASE Poll \/ PublishFails
  BY <1>1, PollMaps, PublishMaps DEF Poll
<1>2. CASE Read \/ ReadFails
  BY <1>2, DeliverMaps
<1>3. CASE Ask
  BY <1>3, AskMaps
<1>4. CASE SkipHalted \/ StateFails \/ Crash \/ \E i \in Items : MarkFails(i)
  BY <1>4, DropMaps
<1>5. CASE \/ Answer \/ Ack \/ AckFails \/ StartWorker \/ StartWithoutGroup
           \/ FlipKillSwitch \/ UNCHANGED vars
  BY <1>5, QuietMaps
<1> QED
  BY <1>1, <1>2, <1>3, <1>4, <1>5 DEF Next, Consume, Fail

(* The way from a feed to the LLM, with its crashes and lost answers,      *)
(* keeps the promise of EventDelivery: events are taken in the order in    *)
(* which they were published, each is analyzed at most once, what was      *)
(* given up never is, and of what waits only the oldest are given up.      *)
THEOREM DeliveryImplemented == Spec => ImplementsDelivery
<1>1. IInv /\ IInv' /\ [Next]_vars => [Delivery!Next]_Delivery!vars
  BY DeliverySteps
<1> QED
  BY <1>1, DeliveryStarts, Invariance, PTL DEF Spec, ImplementsDelivery, Delivery!Spec

(* An event that was given up, by a crash, a lost answer, a trimmed stream *)
(* or the kill switch, stays lost: neither the next poll, which finds its  *)
(* item among the seen ones, nor a restart brings it back to the LLM.      *)
THEOREM LostForGood == Spec => [][Lost \subseteq Lost' /\ Given \subseteq Given']_vars
<1>1. IInv /\ IInv' /\ [Next]_vars => [Lost \subseteq Lost' /\ Given \subseteq Given']_vars
  <2> SUFFICES ASSUME IInv, IInv', [Next]_vars PROVE Lost \subseteq Lost' /\ Given \subseteq Given'
    OBVIOUS
  <2>1. Delivery!Next \/ UNCHANGED Delivery!vars
    BY DeliverySteps
  <2>2. CASE Delivery!Next
    BY <2>2 DEF Delivery!Next, Delivery!Publish, Delivery!Take, Delivery!Analyze, Delivery!GiveUp
  <2>3. CASE UNCHANGED Delivery!vars
    BY <2>3 DEF Delivery!vars
  <2> QED
    BY <2>1, <2>2, <2>3
<1> QED
  BY <1>1, Invariance, PTL DEF Spec
=============================================================================
