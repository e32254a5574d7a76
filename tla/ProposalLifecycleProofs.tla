---------------------- MODULE ProposalLifecycleProofs ----------------------
(***************************************************************************)
(* Theorems about ProposalLifecycle for every set of proposals, orders and *)
(* tasks and every bound on faults.                                        *)
(***************************************************************************)
EXTENDS ProposalLifecycle, SequenceTheorems, TLAPS

(* The event map gives a status, or leaves the row alone.                  *)
LEMMA StatusType ==
  \A e \in EventKinds : EventStatus[e] \in Statuses \cup {"keep"}
  BY DEF EventKinds, EventStatus, Statuses

(* An empty stream is a stream of updates.                                 *)
LEMMA NoUpdatesType == NoUpdates \in [Orders -> Seq(EventKinds)]
  BY DEF NoUpdates

(* The venue's moves lead to an order state.                               *)
LEMMA MovesType ==
  \A e \in BrokerEvents : e \in EventKinds /\ Moves(e).to \in OrderStates
<1> TAKE e \in BrokerEvents
<1> e \in {"partial_fill", "stopped", "fill", "rejected", "canceled", "expired"}
  BY EventAssumption
<1> QED
  BY DEF EventKinds, EventStatus, Moves, OrderStates

(* Every step keeps every variable in its type.                            *)
LEMMA TypeStep == TypeOK /\ [Next]_vars => TypeOK'
<1> SUFFICES ASSUME TypeOK, [Next]_vars PROVE TypeOK'
  OBVIOUS
<1> USE NoneAssumption, BoundAssumption, EventAssumption
    DEF TypeOK, rows, process, venue, Leave, Goto, Fault, Runners, Stages, Tiers, Reasons
<1>1. ASSUME NEW t \in Tasks, StartTask(t) PROVE TypeOK'
  BY <1>1 DEF StartTask, Tasks
<1>2. ASSUME NEW t \in Tasks, FinishTask(t) PROVE TypeOK'
  BY <1>2 DEF FinishTask
<1>3. ASSUME NEW t \in Tasks, NEW p \in Proposals, ProposeForApproval(t, p) PROVE TypeOK'
  BY <1>3 DEF ProposeForApproval
<1>4. ASSUME NEW t \in Tasks, NEW p \in Proposals, ProposeForExecution(t, p) PROVE TypeOK'
  BY <1>4 DEF ProposeForExecution
<1>5. ASSUME NEW p \in Proposals, Approve(p) PROVE TypeOK'
  BY <1>5 DEF Approve
<1>6. ASSUME NEW p \in Proposals, Reject(p) PROVE TypeOK'
  BY <1>6 DEF Reject
<1>7. ASSUME NEW p \in Proposals, Age(p) PROVE TypeOK'
  BY <1>7 DEF Age
<1>8. CASE FlipKillSwitch
  BY <1>8 DEF FlipKillSwitch
<1>9. CASE ExpireSelect
  BY <1>9 DEF ExpireSelect, Expirable
<1>10. ASSUME NEW r \in Runners, DecideAbort(r) PROVE TypeOK'
  BY <1>10 DEF DecideAbort
<1>11. ASSUME NEW r \in Runners, RiskReject(r) PROVE TypeOK'
  BY <1>11 DEF RiskReject
<1>12. ASSUME NEW r \in Runners, RiskApprove(r) PROVE TypeOK'
  BY <1>12 DEF RiskApprove
<1>13. ASSUME NEW r \in Runners, Lookup(r) PROVE TypeOK'
  BY <1>13 DEF Lookup
<1>14. ASSUME NEW r \in Runners, Refuse(r) PROVE TypeOK'
  BY <1>14 DEF Refuse
<1>15. ASSUME NEW r \in Runners, SubmitRefused(r) PROVE TypeOK'
  BY <1>15 DEF SubmitRefused
<1>16. ASSUME NEW r \in Runners, NEW o \in Orders, Submit(r, o) PROVE TypeOK'
  BY <1>16 DEF Submit, Accept, OrderStates
<1>17. ASSUME NEW r \in Runners, Record(r) PROVE TypeOK'
  BY <1>17 DEF Record, Statuses
<1>18. CASE RejectCommit
  BY <1>18 DEF RejectCommit
<1>19. CASE ExpireCommit
  BY <1>19 DEF ExpireCommit
<1>20. ASSUME NEW o \in Orders, NEW e \in BrokerEvents, BrokerEvent(o, e) PROVE TypeOK'
  <2>1. e \in EventKinds /\ Moves(e).to \in OrderStates
    BY <1>20, MovesType
  <2>2. events' \in [Orders -> Seq(EventKinds)]
    BY <1>20, <2>1 DEF BrokerEvent
  <2>3. broker' \in [Orders -> OrderStates \cup {"absent"}]
    BY <1>20, <2>1 DEF BrokerEvent
  <2> QED
    BY <1>20, <2>2, <2>3 DEF BrokerEvent
<1>21. ASSUME NEW o \in Orders, HandleUpdate(o) PROVE TypeOK'
  <2>1. Head(events[o]) \in EventKinds /\ Tail(events[o]) \in Seq(EventKinds)
    BY <1>21 DEF HandleUpdate
  <2>2. EventStatus[Head(events[o])] \in Statuses \cup {"keep"}
    BY <2>1, StatusType
  <2>3. trade' \in [Orders -> Statuses \cup {"absent"}] /\ closed' \subseteq Orders
    <3> DEFINE status == EventStatus[Head(events[o])]
    <3>1. Apply(o, status) /\ status \in Statuses \cup {"keep"}
      BY <1>21, <2>2 DEF HandleUpdate
    <3> HIDE DEF status
    <3>2. CASE trade[o] = "absent" \/ status = "keep"
      BY <3>1, <3>2 DEF Apply
    <3>3. CASE ~(trade[o] = "absent" \/ status = "keep")
      <4>1. trade' = [trade EXCEPT ![o] = status]
        BY <3>1, <3>3 DEF Apply
      <4>2. closed' \in {closed, closed \cup {o}}
        BY <3>1, <3>3 DEF Apply
      <4>3. status \in Statuses
        BY <3>1, <3>3
      <4> QED
        BY <4>1, <4>2, <4>3
    <3> QED
      BY <3>2, <3>3
  <2>4. events' \in [Orders -> Seq(EventKinds)]
    BY <1>21, <2>1 DEF HandleUpdate
  <2> QED
    BY <1>21, <2>3, <2>4 DEF HandleUpdate
<1>22. CASE Reconnect
  BY <1>22 DEF Reconnect
<1>23. CASE RejectFail
  BY <1>23 DEF RejectFail
<1>24. CASE ExpireFail
  BY <1>24 DEF ExpireFail
<1>25. CASE Disconnect
  <2>1. events' \in [Orders -> Seq(EventKinds)]
    BY <1>25, NoUpdatesType DEF Disconnect
  <2>2. faults' \in 0..MaxFaults
    BY <1>25 DEF Disconnect
  <2>3. connected' \in BOOLEAN
    BY <1>25, Zenon DEF Disconnect
  <2>4. UNCHANGED <<rows, process, broker, owner, halted>>
    BY <1>25 DEF Disconnect
  <2> QED
    BY <2>1, <2>2, <2>3, <2>4
<1>26. CASE CrashApp
  BY <1>26 DEF CrashApp
<1>27. CASE CrashWorker
  <2>1. events' \in [Orders -> Seq(EventKinds)]
    BY <1>27, NoUpdatesType DEF CrashWorker
  <2>2. faults' \in 0..MaxFaults
    BY <1>27 DEF CrashWorker
  <2>3. connected' \in BOOLEAN
    BY <1>27, Zenon DEF CrashWorker
  <2>4. UNCHANGED <<rows, broker, owner, halted>>
    BY <1>27 DEF CrashWorker
  <2>5. /\ pc' \in [Runners -> Stages]
        /\ job' \in [Runners -> Proposals \cup {NoProposal}]
        /\ held' \in [Runners -> Orders \cup {NoOrder}]
        /\ posted' \in [Runners -> SUBSET Orders]
        /\ batch' = {} /\ running' = {}
    BY <1>27 DEF CrashWorker
  <2> QED
    BY <2>1, <2>2, <2>3, <2>4, <2>5
<1>28. ASSUME NEW r \in Runners, RecordFail(r) PROVE TypeOK'
  BY <1>28 DEF RecordFail
<1>29. ASSUME NEW r \in Runners, NEW o \in Orders, SubmitUnanswered(r, o) PROVE TypeOK'
  BY <1>29 DEF SubmitUnanswered, Accept, OrderStates
<1>30. ASSUME NEW r \in Runners, NEW o \in Orders, SubmitResent(r, o) PROVE TypeOK'
  BY <1>30 DEF SubmitResent, Accept, OrderStates
<1>31. ASSUME NEW o \in Orders, HandleFail(o) PROVE TypeOK'
  <2>1. Tail(events[o]) \in Seq(EventKinds)
    BY <1>31 DEF HandleFail
  <2> QED
    BY <1>31, <2>1 DEF HandleFail
<1>32. CASE UNCHANGED vars
  BY <1>32 DEF vars
<1> QED
  BY <1>1, <1>2, <1>3, <1>4, <1>5, <1>6, <1>7, <1>8, <1>9, <1>10, <1>11, <1>12,
     <1>13, <1>14, <1>15, <1>16, <1>17, <1>18, <1>19, <1>20, <1>21, <1>22,
     <1>23, <1>24, <1>25, <1>26, <1>27, <1>28, <1>29, <1>30, <1>31, <1>32, ZenonT(60)
  DEF Next, Propose, Operate, Advance, Venue, Fail

(* The initial state is type-correct.                                      *)
LEMMA InitType == Init => TypeOK
<1> SUFFICES ASSUME Init PROVE TypeOK
  OBVIOUS
<1>1. events \in [Orders -> Seq(EventKinds)]
  BY NoUpdatesType DEF Init
<1>2. connected \in BOOLEAN /\ halted \in BOOLEAN
  BY Zenon DEF Init
<1>3. faults \in 0..MaxFaults
  BY BoundAssumption DEF Init
<1> QED
  BY <1>1, <1>2, <1>3 DEF Init, TypeOK, Runners, Stages

(* Type correctness, for every instance and under every fault.             *)
THEOREM TypeCorrect == Spec => []TypeOK
  BY InitType, TypeStep, PTL DEF Spec

-----------------------------------------------------------------------------
(* The two processes never execute the same proposal.                      *)

(* A process that leaves what it was doing executes nothing.               *)
LEMMA LeaveKeepsJobsApart ==
  ASSUME TypeOK, JobsApart, NEW r \in Runners, Leave(r), UNCHANGED tier
  PROVE  JobsApart'
  BY DEF TypeOK, JobsApart, Leave, Runners, Executing

(* No step lets the two processes work on one proposal.                    *)
LEMMA JobsStep == TypeOK /\ JobsApart /\ [Next]_vars => JobsApart'
<1> SUFFICES ASSUME TypeOK, JobsApart, [Next]_vars PROVE JobsApart'
  OBVIOUS
<1> USE DEF rows, process, venue, Runners
<1>1. CASE UNCHANGED <<tier, pc, job>>
  BY <1>1 DEF JobsApart
<1>2. ASSUME NEW r \in Runners, Leave(r), UNCHANGED tier PROVE JobsApart'
  BY <1>2, LeaveKeepsJobsApart
<1>3. ASSUME NEW t \in Tasks, NEW p \in Proposals, ProposeForApproval(t, p) PROVE JobsApart'
  BY <1>3 DEF ProposeForApproval, TypeOK, JobsApart, Executing
<1>4. ASSUME NEW t \in Tasks, NEW p \in Proposals, ProposeForExecution(t, p) PROVE JobsApart'
  BY <1>4 DEF ProposeForExecution, TypeOK, JobsApart, Executing
<1>5. ASSUME NEW p \in Proposals, Approve(p) \/ Reject(p) PROVE JobsApart'
  BY <1>5 DEF Approve, Reject, TypeOK, JobsApart, Executing
<1>6. CASE ExpireSelect
  BY <1>6 DEF ExpireSelect, TypeOK, JobsApart, Executing
<1>7. ASSUME NEW r \in Runners, RiskApprove(r) \/ Lookup(r) PROVE JobsApart'
  BY <1>7 DEF RiskApprove, Lookup, Goto, TypeOK, JobsApart, Executing
<1>8. ASSUME NEW r \in Runners, NEW o \in Orders, Submit(r, o) PROVE JobsApart'
  BY <1>8 DEF Submit, TypeOK, JobsApart, Executing
<1>9. CASE \E r \in Runners : Leave(r) /\ UNCHANGED tier
  BY <1>2, <1>9
<1> QED
  BY <1>1, <1>3, <1>4, <1>5, <1>6, <1>7, <1>8, <1>9
  DEF Next, Propose, Operate, Advance, Venue, Fail, vars, StartTask, FinishTask, Age,
      FlipKillSwitch, DecideAbort, RiskReject, Refuse, SubmitRefused, Record, RejectCommit,
      ExpireCommit, BrokerEvent, HandleUpdate, Reconnect, RejectFail, ExpireFail,
      Disconnect, CrashApp, CrashWorker, RecordFail, SubmitResent, SubmitUnanswered, HandleFail

-----------------------------------------------------------------------------
(* Orders, their rows and the updates between them.                        *)

OrderFacts == OrdersOK /\ RowNeverAhead

(* The updates that are left still fit, when some are handled or lost.     *)
LEMMA TailFits ==
  ASSUME TypeOK, NEW o \in Orders, UpdatesFit(o), events[o] # <<>>,
         events' = [events EXCEPT ![o] = Tail(@)], UNCHANGED broker
  PROVE  UpdatesFit(o)'
<1>1. /\ events[o] \in Seq(EventKinds) /\ Len(events[o]) \in Nat \ {0}
      /\ events'[o] = Tail(events[o])
      /\ Len(events'[o]) = Len(events[o]) - 1
      /\ \A i \in 1..Len(events'[o]) : events'[o][i] = events[o][i + 1]
  BY DEF TypeOK
<1>2. \A i \in 1..Len(events'[o]) :
        /\ i + 1 \in 1..Len(events[o])
        /\ i < Len(events'[o]) => i + 1 < Len(events[o])
  BY <1>1
<1> QED
  BY <1>1, <1>2 DEF UpdatesFit

(* The first update that is handled tells what the order has reached.      *)
LEMMA HeadTells ==
  ASSUME TypeOK, NEW o \in Orders, UpdatesFit(o), events[o] # <<>>
  PROVE  /\ EventStatus[Head(events[o])] \in {"partial", "filled", "cancelled", "rejected"}
         /\ EventStatus[Head(events[o])] = "filled" => broker[o] = "filled"
         /\ EventStatus[Head(events[o])] \in {"cancelled", "rejected"} =>
              /\ broker[o] \in {"canceled", "rejected"}
              /\ Tail(events[o]) = <<>>
<1> DEFINE e == Head(events[o])
<1>1. /\ events[o] \in Seq(EventKinds) /\ Len(events[o]) \in Nat \ {0}
      /\ e = events[o][1]
  BY DEF TypeOK
<1>2. broker[o] \in {"partially_filled", "filled", "canceled", "rejected"}
  BY DEF TypeOK, UpdatesFit, OrderStates
<1>3. 1 \in 1..Len(events[o])
  BY <1>1
<1>4. CASE broker[o] = "partially_filled"
  BY <1>1, <1>3, <1>4 DEF UpdatesFit, EventStatus
<1>5. CASE broker[o] = "filled"
  BY <1>1, <1>3, <1>5 DEF UpdatesFit, EventStatus
<1>6. CASE broker[o] \in {"canceled", "rejected"}
  <2>1. CASE Len(events[o]) = 1
    <3>1. Tail(events[o]) \in Seq(EventKinds) /\ Len(Tail(events[o])) = 0
      BY <1>1, <2>1
    <3>2. Tail(events[o]) = <<>>
      BY <3>1, EmptySeq
    <3>3. EventStatus[e] \in {"partial", "cancelled", "rejected"}
      BY <1>1, <1>3, <1>6 DEF UpdatesFit, EventStatus
    <3> QED
      BY <1>6, <3>2, <3>3
  <2>2. CASE 1 < Len(events[o])
    <3>1. EventStatus[e] = "partial"
      BY <1>1, <1>3, <1>6, <2>2 DEF UpdatesFit, EventStatus
    <3> QED
      BY <3>1
  <2>3. Len(events[o]) = 1 \/ 1 < Len(events[o])
    <3>1. \A n \in Nat \ {0} : n = 1 \/ 1 < n
      OBVIOUS
    <3> QED
      BY <1>1, <3>1, Zenon
  <2> QED
    BY <2>1, <2>2, <2>3
<1> QED
  BY <1>2, <1>4, <1>5, <1>6

(* The venue appends an update that fits the state it moves the order to.  *)
LEMMA AppendFits ==
  ASSUME TypeOK, NEW o \in Orders, NEW e \in BrokerEvents, "stopped" \notin BrokerEvents,
         UpdatesFit(o), BrokerEvent(o, e)
  PROVE  UpdatesFit(o)'
<1>1. e \in {"partial_fill", "fill", "rejected", "canceled", "expired"}
  BY EventAssumption
<1>2. broker'[o] = Moves(e).to /\ broker[o] \in Moves(e).from
  BY DEF BrokerEvent, TypeOK
<1>3. broker[o] \in {"new", "partially_filled"}
  <2>1. Moves(e).from \subseteq {"new", "partially_filled", "stopped"}
    BY <1>1 DEF Moves
  <2> QED
    BY <1>2, <2>1 DEF UpdatesFit
<1>4. \A i \in 1..Len(events[o]) : events[o][i] = "partial_fill"
  BY <1>3 DEF UpdatesFit
<1>5. events[o] \in Seq(EventKinds) /\ e \in EventKinds
  BY MovesType DEF TypeOK
<1>6. \A i \in 1..Len(events'[o]) :
        /\ events'[o][i] \in {"partial_fill", e}
        /\ i < Len(events'[o]) => events'[o][i] = "partial_fill"
  <2>1. CASE connected
    <3>1. events'[o] = Append(events[o], e)
      BY <2>1 DEF BrokerEvent, TypeOK
    <3> QED
      BY <1>4, <1>5, <3>1
  <2>2. CASE ~connected
    <3>1. events'[o] = events[o]
      BY <2>2 DEF BrokerEvent
    <3> QED
      BY <1>4, <1>5, <3>1
  <2> QED
    BY <2>1, <2>2
<1>7. e = "partial_fill" => broker'[o] = "partially_filled"
  BY <1>2 DEF Moves
<1>8. e = "fill" => broker'[o] = "filled"
  BY <1>2 DEF Moves
<1>9. e \in {"rejected", "canceled", "expired"} => broker'[o] \in {"canceled", "rejected"}
  BY <1>2 DEF Moves
<1> QED
  BY <1>1, <1>6, <1>7, <1>8, <1>9 DEF UpdatesFit

(* The initial and the empty queue fit any order that is not "stopped".    *)
LEMMA EmptyFits ==
  ASSUME NEW o \in Orders, UpdatesFit(o), events' = NoUpdates, UNCHANGED broker
  PROVE  UpdatesFit(o)' /\ events'[o] = <<>>
<1>1. events'[o] = <<>>
  BY DEF NoUpdates
<1>2. Len(<<>>) = 0
  OBVIOUS
<1> QED
  BY <1>1, <1>2 DEF UpdatesFit

(* Every step keeps what is on its way fitting the state of its order.     *)
LEMMA OrderStep ==
  ASSUME TypeOK, JobsApart, OrderFacts, ClaimsOK, [Next]_vars, "stopped" \notin BrokerEvents
  PROVE  OrderFacts'
<1> USE DEF rows, process, venue, OrderFacts
<1>1. CASE UNCHANGED <<tier, trade, broker, owner, events>>
  BY <1>1 DEF OrdersOK, OrderOK, UpdatesFit, RowNeverAhead
<1>2. ASSUME NEW p \in Proposals, tier[p] = "absent", NEW k \in Tiers,
             tier' = [tier EXCEPT ![p] = k], UNCHANGED <<trade, broker, owner, events>>
      PROVE  OrderFacts'
  BY <1>2 DEF OrdersOK, OrderOK, UpdatesFit, RowNeverAhead, TypeOK, Tiers
<1>3. ASSUME NEW r \in Runners, pc[r] = "submit", NEW o \in Orders, Accept(o, job[r]),
             UNCHANGED <<tier, trade, events>>
      PROVE  OrderFacts'
  <2>1. job[r] \in Proposals /\ tier[job[r]] # "absent"
    BY <1>3 DEF JobsApart, Executing, Runners
  <2>2. /\ broker[o] = "absent" /\ broker'[o] = "new" /\ owner'[o] = job[r]
        /\ \A x \in Orders \ {o} : broker'[x] = broker[x] /\ owner'[x] = owner[x]
    BY <1>3 DEF Accept, TypeOK
  <2> QED
    BY <1>3, <2>1, <2>2 DEF OrdersOK, OrderOK, UpdatesFit, RowNeverAhead
<1>4. ASSUME NEW r \in Runners, Record(r) PROVE OrderFacts'
  <2>1. held[r] \in Orders /\ broker[held[r]] # "absent"
    BY <1>4 DEF ClaimsOK, Record
  <2>2. /\ trade'[held[r]] = "pending"
        /\ \A x \in Orders \ {held[r]} : trade'[x] = trade[x]
    BY <1>4, <2>1 DEF Record, TypeOK
  <2> QED
    BY <1>4, <2>1, <2>2 DEF Record, OrdersOK, OrderOK, UpdatesFit, RowNeverAhead
<1>5. ASSUME NEW o \in Orders, NEW e \in BrokerEvents, BrokerEvent(o, e) PROVE OrderFacts'
  <2>1. UpdatesFit(o)'
    BY <1>5, AppendFits DEF OrdersOK, OrderOK
  <2>2. /\ \A x \in Orders \ {o} : broker'[x] = broker[x] /\ events'[x] = events[x]
        /\ broker'[o] = Moves(e).to /\ broker[o] \in Moves(e).from
        /\ UNCHANGED <<tier, trade, owner>>
    BY <1>5 DEF BrokerEvent, TypeOK
  <2>3. /\ Moves(e).from \subseteq {"new", "partially_filled", "stopped"}
        /\ Moves(e).to # "absent"
    BY EventAssumption DEF Moves
  <2>4. trade[o] \notin {"filled", "cancelled", "rejected"}
    BY <2>2, <2>3 DEF RowNeverAhead
  <2>5. broker[o] # "absent"
    BY <2>2, <2>3
  <2> QED
    BY <2>1, <2>2, <2>3, <2>4, <2>5 DEF OrdersOK, OrderOK, UpdatesFit, RowNeverAhead
<1>6. ASSUME NEW o \in Orders, HandleUpdate(o) PROVE OrderFacts'
  <2> DEFINE status == EventStatus[Head(events[o])]
  <2>1. UpdatesFit(o)'
    BY <1>6, TailFits DEF HandleUpdate, OrdersOK, OrderOK
  <2>2. /\ \A x \in Orders \ {o} : trade'[x] = trade[x] /\ events'[x] = events[x]
        /\ trade'[o] = IF trade[o] = "absent" THEN "absent" ELSE status
        /\ events'[o] = Tail(events[o])
        /\ UNCHANGED <<tier, broker, owner>>
    <3>1. status \in {"partial", "filled", "cancelled", "rejected"}
      BY <1>6, HeadTells DEF HandleUpdate, OrdersOK, OrderOK
    <3>2. Apply(o, status)
      BY <1>6 DEF HandleUpdate
    <3> HIDE DEF status
    <3>3. trade' = IF trade[o] = "absent" THEN trade ELSE [trade EXCEPT ![o] = status]
      BY <3>1, <3>2 DEF Apply
    <3> QED
      BY <1>6, <3>3 DEF HandleUpdate, TypeOK
  <2>3. /\ status = "filled" => broker[o] = "filled"
        /\ status \in {"cancelled", "rejected"} =>
             broker[o] \in {"canceled", "rejected"} /\ events'[o] = <<>>
    BY <1>6, <2>2, HeadTells DEF HandleUpdate, OrdersOK, OrderOK
  <2> HIDE DEF status
  <2>4. ASSUME NEW x \in Orders
        PROVE  /\ OrderOK(x)'
               /\ trade'[x] = "filled" => broker'[x] = "filled"
               /\ trade'[x] \in {"cancelled", "rejected"} => broker'[x] \in {"canceled", "rejected"}
    <3>1. CASE x = o
      BY <2>1, <2>2, <2>3, <3>1 DEF OrdersOK, OrderOK
    <3>2. CASE x # o
      BY <2>2, <3>2 DEF OrdersOK, OrderOK, UpdatesFit, RowNeverAhead
    <3> QED
      BY <3>1, <3>2
  <2> QED
    BY <2>4 DEF OrdersOK, RowNeverAhead
<1>7. ASSUME NEW o \in Orders, HandleFail(o) PROVE OrderFacts'
  <2>1. UpdatesFit(o)'
    BY <1>7, TailFits DEF HandleFail, OrdersOK, OrderOK
  <2>2. /\ \A x \in Orders \ {o} : events'[x] = events[x]
        /\ UNCHANGED <<tier, trade, broker, owner>>
        /\ events[o] # <<>>
    BY <1>7 DEF HandleFail, TypeOK
  <2> QED
    BY <2>1, <2>2 DEF OrdersOK, OrderOK, UpdatesFit, RowNeverAhead
<1>8. ASSUME events' = NoUpdates, UNCHANGED <<tier, trade, broker, owner>> PROVE OrderFacts'
  BY <1>8, EmptyFits DEF OrdersOK, OrderOK, RowNeverAhead
<1>9. ASSUME NEW t \in Tasks, NEW p \in Proposals,
             ProposeForApproval(t, p) \/ ProposeForExecution(t, p)
      PROVE  OrderFacts'
  BY <1>2, <1>9 DEF ProposeForApproval, ProposeForExecution, Tiers
<1>10. ASSUME NEW r \in Runners, NEW o \in Orders,
              Submit(r, o) \/ SubmitResent(r, o) \/ SubmitUnanswered(r, o)
       PROVE  OrderFacts'
  BY <1>3, <1>10 DEF Submit, SubmitResent, SubmitUnanswered
<1>11. CASE Disconnect \/ CrashWorker
  BY <1>8, <1>11 DEF Disconnect, CrashWorker
<1> QED
  BY <1>1, <1>4, <1>5, <1>6, <1>7, <1>9, <1>10, <1>11
  DEF Next, Propose, Operate, Advance, Venue, Fail, vars, StartTask, FinishTask, Age,
      Approve, Reject, FlipKillSwitch, ExpireSelect, DecideAbort, RiskReject, RiskApprove,
      Lookup, Refuse, SubmitRefused, RejectCommit, ExpireCommit, Reconnect, RejectFail,
      ExpireFail, CrashApp, RecordFail

-----------------------------------------------------------------------------
(* Claims and live trades.                                                 *)

ClaimFacts == ClaimsOK /\ AtMostOneLiveTrade

(* An update settles a row or moves it on; it never brings one to life.    *)
LEMMA UpdateRevivesNothing ==
  ASSUME TypeOK, OrdersOK, NEW o \in Orders, HandleUpdate(o)
  PROVE  \A x \in Orders :
           /\ trade'[x] \in LiveStatuses => trade[x] \in LiveStatuses
           /\ trade[x] = "absent" => trade'[x] = "absent"
<1> DEFINE status == EventStatus[Head(events[o])]
<1>1. events[o] # <<>> /\ Apply(o, status)
  BY DEF HandleUpdate
<1>2. trade[o] \notin {"cancelled", "rejected"}
  BY <1>1 DEF OrdersOK, OrderOK
<1>3. trade[o] \in LiveStatuses \cup {"absent"}
  BY <1>2 DEF TypeOK, Statuses, LiveStatuses
<1> HIDE DEF status
<1>4. trade' = trade \/ (trade[o] # "absent" /\ trade' = [trade EXCEPT ![o] = status])
  BY <1>1 DEF Apply
<1> QED
  BY <1>3, <1>4 DEF TypeOK

(* Two processes that claim, claim different proposals.                    *)
LEMMA ClaimsDiffer ==
  ASSUME JobsApart, NEW r1 \in Runners, NEW r2 \in Runners, r1 # r2,
         pc[r1] \in Executing, pc[r2] \in Executing
  PROVE  job[r1] # job[r2]
  BY DEF JobsApart, Runners

(* Every step keeps claims, orders and live rows of a proposal apart.      *)
LEMMA ClaimStep ==
  ASSUME TypeOK, JobsApart, OrderFacts, ClaimFacts, [Next]_vars
  PROVE  ClaimFacts'
<1> USE DEF rows, process, venue, ClaimFacts
<1> DEFINE SameTrades == UNCHANGED <<trade, broker, owner>>
<1>1. CASE SameTrades /\ UNCHANGED <<pc, job, held>>
  BY <1>1 DEF ClaimsOK, AtMostOneLiveTrade, LiveTrades
<1>2. ASSUME SameTrades, NEW r \in Runners,
             \A x \in Runners \ {r} : pc'[x] = pc[x] /\ job'[x] = job[x] /\ held'[x] = held[x],
             pc'[r] \notin {"submit", "record"}
      PROVE  ClaimFacts'
  BY <1>2 DEF ClaimsOK, AtMostOneLiveTrade, LiveTrades
<1>3. ASSUME SameTrades, NEW r \in Runners, Leave(r) PROVE ClaimFacts'
  BY <1>2, <1>3 DEF Leave, TypeOK
<1>4. ASSUME SameTrades, NEW r \in Runners, NEW stage \in {"lookup", "deciding", "rejecting", "expiring"},
             pc' = [pc EXCEPT ![r] = stage],
             job' = job \/ (\E p \in Proposals : job' = [job EXCEPT ![r] = p]),
             UNCHANGED held
      PROVE  ClaimFacts'
  BY <1>2, <1>4 DEF TypeOK
<1>5. ASSUME NEW r \in Runners, Lookup(r) PROVE ClaimFacts'
  BY <1>5 DEF Lookup, Goto, MaySubmit, TypeOK, ClaimsOK, AtMostOneLiveTrade, LiveTrades
<1>6. ASSUME NEW o \in Orders, NEW p \in Proposals, Accept(o, p), UNCHANGED trade
      PROVE  /\ \A x \in Orders \ {o} : broker'[x] = broker[x] /\ owner'[x] = owner[x]
             /\ broker'[o] # "absent" /\ owner'[o] = p /\ trade[o] = "absent"
             /\ \A q \in Proposals : LiveTrades(q)' = LiveTrades(q)
             /\ AtMostOneLiveTrade'
  <2>1. /\ \A x \in Orders \ {o} : broker'[x] = broker[x] /\ owner'[x] = owner[x]
        /\ broker'[o] # "absent" /\ owner'[o] = p
    BY <1>6 DEF Accept, TypeOK
  <2>2. trade[o] = "absent"
    BY <1>6 DEF Accept, OrderFacts, OrdersOK, OrderOK
  <2> QED
    BY <1>6, <2>1, <2>2 DEF LiveTrades, LiveStatuses, AtMostOneLiveTrade
<1>7. ASSUME NEW r \in Runners, NEW o \in Orders, Submit(r, o) PROVE ClaimFacts'
  <2>1. job[r] \in Proposals
    BY <1>7 DEF Submit, JobsApart, Executing
  <2>2. /\ \A x \in Runners \ {r} : pc'[x] = pc[x] /\ held'[x] = held[x]
        /\ pc'[r] = "record" /\ held'[r] = o /\ job' = job /\ trade' = trade
        /\ pc[r] = "submit" /\ broker[o] = "absent" /\ Accept(o, job[r])
    BY <1>7 DEF Submit, Accept, TypeOK
  <2>3. \A x \in Runners : pc'[x] \in {"submit", "record"} => job[x] \in Proposals
    BY <2>1, <2>2 DEF JobsApart, Executing
  <2> QED
    BY <1>6, <2>1, <2>2, <2>3 DEF ClaimsOK
<1>8. ASSUME NEW r \in Runners, NEW o \in Orders, SubmitUnanswered(r, o) PROVE ClaimFacts'
  <2>1. job[r] \in Proposals
    BY <1>8 DEF SubmitUnanswered, JobsApart, Executing
  <2>2. /\ \A x \in Runners \ {r} : pc'[x] = pc[x] /\ held'[x] = held[x] /\ job'[x] = job[x]
        /\ pc'[r] = "idle" /\ trade' = trade
        /\ broker[o] = "absent" /\ Accept(o, job[r])
    BY <1>8 DEF SubmitUnanswered, Leave, Accept, TypeOK
  <2>3. \A x \in Runners \ {r} : pc[x] \in {"submit", "record"} => job[x] \in Proposals
    BY DEF JobsApart, Executing
  <2> QED
    BY <1>6, <2>1, <2>2, <2>3 DEF ClaimsOK
<1>9. ASSUME NEW r \in Runners, Record(r) PROVE ClaimFacts'
  <2> DEFINE o == held[r]
             p == job[r]
  <2>1. /\ o \in Orders /\ owner[o] = p /\ LiveTrades(p) = {} /\ trade[o] = "absent"
        /\ pc[r] = "record" /\ p \in Proposals
    BY <1>9 DEF Record, ClaimsOK, JobsApart, Executing
  <2>2. /\ trade'[o] = "pending" /\ \A x \in Orders \ {o} : trade'[x] = trade[x]
        /\ UNCHANGED <<broker, owner>>
        /\ \A x \in Runners \ {r} : pc'[x] = pc[x] /\ held'[x] = held[x] /\ job'[x] = job[x]
        /\ pc'[r] = "idle"
    BY <1>9, <2>1 DEF Record, Leave, TypeOK
  <2>3. \A x \in Runners \ {r} : pc[x] \in {"submit", "record"} => job[x] # p
    BY <2>1, ClaimsDiffer DEF Executing
  <2> HIDE DEF o, p
  <2>4. AtMostOneLiveTrade'
    BY <2>1, <2>2 DEF AtMostOneLiveTrade, LiveTrades, LiveStatuses
  <2>5. \A q \in Proposals \ {p} : LiveTrades(q)' = LiveTrades(q)
    BY <2>1, <2>2 DEF LiveTrades, LiveStatuses
  <2>6. ASSUME NEW x \in Runners \ {r}, pc[x] \in {"submit", "record"}
        PROVE  LiveTrades(job[x])' = {} /\ (pc[x] = "record" => held[x] # o)
    <3>1. job[x] \in Proposals /\ LiveTrades(job[x]) = {} /\ job[x] # p /\ job'[x] = job[x]
      BY <2>2, <2>3, <2>6 DEF ClaimsOK, JobsApart, Executing
    <3>2. pc[x] = "record" => owner[held[x]] = job[x]
      BY <2>6 DEF ClaimsOK
    <3> QED
      BY <2>1, <2>5, <3>1, <3>2
  <2> QED
    BY <2>2, <2>4, <2>6 DEF ClaimsOK
<1>10. ASSUME NEW o \in Orders, NEW e \in BrokerEvents, BrokerEvent(o, e) PROVE ClaimFacts'
  <2>1. \A x \in Orders : broker[x] # "absent" => broker'[x] # "absent"
    <3>1. Moves(e).to # "absent"
      BY EventAssumption DEF Moves
    <3> QED
      BY <1>10, <3>1 DEF BrokerEvent, TypeOK
  <2>2. UNCHANGED <<trade, owner, pc, job, held>>
    BY <1>10 DEF BrokerEvent
  <2> QED
    BY <2>1, <2>2 DEF ClaimsOK, AtMostOneLiveTrade, LiveTrades
<1>11. ASSUME NEW o \in Orders, HandleUpdate(o) PROVE ClaimFacts'
  <2>1. UNCHANGED <<broker, owner, pc, job, held>>
    BY <1>11 DEF HandleUpdate
  <2>2. \A x \in Orders :
          /\ trade'[x] \in LiveStatuses => trade[x] \in LiveStatuses
          /\ trade[x] = "absent" => trade'[x] = "absent"
    BY <1>11, UpdateRevivesNothing DEF OrderFacts
  <2>3. \A q : LiveTrades(q)' \subseteq LiveTrades(q)
    BY <2>1, <2>2 DEF LiveTrades
  <2> QED
    BY <2>1, <2>2, <2>3 DEF ClaimsOK, AtMostOneLiveTrade
<1>12. ASSUME NEW t \in Tasks, NEW p \in Proposals, ProposeForExecution(t, p) PROVE ClaimFacts'
  BY <1>4, <1>12 DEF ProposeForExecution, Runners
<1>13. ASSUME NEW p \in Proposals, Approve(p) \/ Reject(p) PROVE ClaimFacts'
  BY <1>4, <1>13 DEF Approve, Reject, Runners
<1>14. CASE ExpireSelect
  BY <1>4, <1>14 DEF ExpireSelect, Runners
<1>15. ASSUME NEW r \in Runners, RiskApprove(r) PROVE ClaimFacts'
  BY <1>4, <1>15 DEF RiskApprove, Goto
<1>16. CASE SameTrades /\ \E r \in Runners : Leave(r)
  BY <1>3, <1>16
<1>17. ASSUME NEW r \in Runners, NEW o \in Orders, SubmitResent(r, o) PROVE ClaimFacts'
  <2>1. job[r] \in Proposals
    BY <1>17 DEF SubmitResent, JobsApart, Executing
  <2>2. UNCHANGED <<trade, pc, job, held>> /\ broker[o] = "absent" /\ Accept(o, job[r])
    BY <1>17 DEF SubmitResent, Accept
  <2>3. \A x \in Runners : pc[x] \in {"submit", "record"} => job[x] \in Proposals
    BY DEF JobsApart, Executing
  <2> QED
    BY <1>6, <2>1, <2>2, <2>3 DEF ClaimsOK
<1> QED
  BY <1>1, <1>5, <1>7, <1>8, <1>9, <1>10, <1>11, <1>12, <1>13, <1>14, <1>15, <1>16, <1>17
  DEF Next, Propose, Operate, Advance, Venue, Fail, vars, StartTask, FinishTask,
      ProposeForApproval, Age, FlipKillSwitch, DecideAbort, RiskReject, Refuse,
      SubmitRefused, RejectCommit, ExpireCommit, Reconnect, RejectFail, ExpireFail,
      CrashApp, CrashWorker, RecordFail, HandleFail, Disconnect, Runners

-----------------------------------------------------------------------------
(* What the worker executes by itself is sent in one call.                 *)

AutoFacts == OwnersOK /\ NotYetSent

(* A new order is its proposal's, and no other order changes hands.        *)
LEMMA AcceptOwner ==
  ASSUME TypeOK, NEW o \in Orders, NEW p \in Proposals, Accept(o, p)
  PROVE  /\ OrdersOf(p)' = OrdersOf(p) \cup {o}
         /\ \A q \in Proposals \ {p} : OrdersOf(q)' \subseteq OrdersOf(q)
         /\ OwnersOK => \A q \in Proposals \ {p} : OrdersOf(q)' = OrdersOf(q)
<1>1. /\ broker[o] = "absent" /\ owner'[o] = p
      /\ \A x \in Orders \ {o} : owner'[x] = owner[x]
  BY DEF Accept, TypeOK
<1>2. OwnersOK => owner[o] = NoProposal
  BY <1>1 DEF OwnersOK
<1> QED
  BY <1>1, <1>2, NoneAssumption DEF OrdersOf

(* Every step keeps an automatic proposal to its first attempt.            *)
LEMMA AutoStep ==
  ASSUME TypeOK, JobsApart, AutoFacts, [Next]_vars
  PROVE  AutoFacts'
<1> USE DEF rows, process, venue, AutoFacts
<1> DEFINE SameOrders == UNCHANGED <<tier, owner>>
                         /\ \A o \in Orders : broker'[o] = "absent" <=> broker[o] = "absent"
           Undecided == {"deciding", "lookup", "submit"}
           Same(r) == pc'[r] = pc[r] /\ job'[r] = job[r] /\ posted'[r] = posted[r]
<1>1. ASSUME SameOrders,
             \/ pc'["worker"] \notin Undecided
             \/ /\ pc["worker"] \in Undecided
                /\ job'["worker"] = job["worker"] /\ posted'["worker"] = posted["worker"]
      PROVE  AutoFacts'
  BY <1>1 DEF OwnersOK, NotYetSent, OrdersOf
<1>2. CASE UNCHANGED <<tier, broker, owner, pc, job, posted>>
  BY <1>1, <1>2
<1>3. ASSUME UNCHANGED <<tier, broker, owner>>, NEW r \in Runners, Leave(r) PROVE AutoFacts'
  BY <1>1, <1>3 DEF Leave, TypeOK, Runners
<1>4. ASSUME NEW r \in Runners, RiskApprove(r) \/ Lookup(r) PROVE AutoFacts'
  BY <1>1, <1>4 DEF RiskApprove, Lookup, Goto, TypeOK, Runners
<1>5. ASSUME NEW p \in Proposals, Approve(p) \/ Reject(p) PROVE AutoFacts'
  BY <1>1, <1>5 DEF Approve, Reject, TypeOK, Runners
<1>6. CASE ExpireSelect
  BY <1>1, <1>6 DEF ExpireSelect, TypeOK, Runners
<1>7. ASSUME NEW p \in Proposals, tier[p] = "absent" PROVE OrdersOf(p) = {}
  BY <1>7, NoneAssumption DEF OwnersOK, OrdersOf
<1>8. ASSUME NEW p \in Proposals, tier[p] = "absent", UNCHANGED <<broker, owner>>,
             \A q \in Proposals \ {p} : tier'[q] = tier[q]
      PROVE  OwnersOK'
  BY <1>7, <1>8 DEF OwnersOK, OrdersOf
<1>9. ASSUME NEW t \in Tasks, NEW p \in Proposals, ProposeForApproval(t, p) PROVE AutoFacts'
  <2>1. OwnersOK'
    BY <1>8, <1>9 DEF ProposeForApproval, TypeOK
  <2>2. NotYetSent'
    BY <1>9 DEF ProposeForApproval, NotYetSent, OrdersOf
  <2> QED
    BY <2>1, <2>2
<1>10. ASSUME NEW t \in Tasks, NEW p \in Proposals, ProposeForExecution(t, p) PROVE AutoFacts'
  <2>1. /\ tier[p] = "absent" /\ UNCHANGED <<broker, owner>> /\ job'["worker"] = p
        /\ \A q \in Proposals \ {p} : tier'[q] = tier[q]
    BY <1>10 DEF ProposeForExecution, TypeOK, Runners
  <2>2. OrdersOf(p)' = {}
    BY <1>7, <2>1 DEF OrdersOf
  <2> QED
    BY <1>8, <2>1, <2>2 DEF NotYetSent
<1>11. ASSUME NEW r \in Runners, pc[r] = "submit", NEW o \in Orders, Accept(o, job[r]),
              UNCHANGED tier
       PROVE  OwnersOK'
  <2>1. job[r] \in Proposals /\ tier[job[r]] # "absent"
    BY <1>11 DEF JobsApart, Executing, Runners
  <2>2. /\ broker'[o] = "new" /\ owner'[o] = job[r]
        /\ \A x \in Orders \ {o} : broker'[x] = broker[x] /\ owner'[x] = owner[x]
    BY <1>11 DEF Accept, TypeOK
  <2> QED
    BY <1>11, <2>1, <2>2 DEF OwnersOK
<1>12. ASSUME pc["app"] = "submit", NEW o \in Orders, Accept(o, job["app"]), Same("worker")
       PROVE  NotYetSent'
  <2>1. job["app"] \in Proposals /\ tier[job["app"]] = "tier_3"
    BY <1>12 DEF JobsApart, Executing, Runners
  <2>2. pc["worker"] \in Undecided => job["worker"] \in Proposals \ {job["app"]}
    BY <2>1 DEF JobsApart, Executing, Runners
  <2> QED
    BY <1>12, <2>1, <2>2, AcceptOwner DEF NotYetSent, OrdersOf
<1>13. ASSUME NEW r \in Runners, NEW o \in Orders, Submit(r, o) \/ SubmitUnanswered(r, o)
       PROVE  AutoFacts'
  <2>1. /\ pc[r] = "submit" /\ Accept(o, job[r]) /\ UNCHANGED tier
        /\ pc'[r] \notin Undecided /\ \A x \in Runners \ {r} : Same(x)
    BY <1>13 DEF Submit, SubmitUnanswered, Leave, TypeOK
  <2>2. NotYetSent'
    BY <1>12, <2>1 DEF NotYetSent, Runners
  <2> QED
    BY <1>11, <2>1, <2>2
<1>14. ASSUME NEW r \in Runners, NEW o \in Orders, SubmitResent(r, o) PROVE AutoFacts'
  <2>1. /\ pc[r] = "submit" /\ Accept(o, job[r]) /\ UNCHANGED <<tier, pc, job>>
        /\ posted'[r] = posted[r] \cup {o} /\ \A x \in Runners \ {r} : Same(x)
    BY <1>14 DEF SubmitResent, TypeOK
  <2>2. CASE r = "worker"
    <3>1. job[r] \in Proposals /\ OrdersOf(job[r]) \subseteq posted[r]
      BY <2>1, <2>2 DEF JobsApart, Executing, NotYetSent
    <3>2. OrdersOf(job[r])' = OrdersOf(job[r]) \cup {o}
      BY <2>1, <3>1, AcceptOwner DEF OrdersOf
    <3>3. NotYetSent'
      BY <2>1, <2>2, <3>1, <3>2 DEF NotYetSent
    <3> QED
      BY <1>11, <2>1, <3>3
  <2>3. CASE r = "app"
    BY <1>11, <1>12, <2>1, <2>3 DEF Runners
  <2> QED
    BY <2>2, <2>3 DEF Runners
<1>15. ASSUME NEW o \in Orders, NEW e \in BrokerEvents, BrokerEvent(o, e) PROVE AutoFacts'
  <2>1. Moves(e).to # "absent" /\ "absent" \notin Moves(e).from
    BY EventAssumption DEF Moves
  <2>2. SameOrders /\ UNCHANGED <<pc, job, posted>>
    BY <1>15, <2>1 DEF BrokerEvent, TypeOK
  <2> QED
    BY <1>1, <2>2
<1>16. CASE UNCHANGED <<tier, broker, owner>> /\ \E r \in Runners : Leave(r)
  BY <1>3, <1>16
<1> QED
  BY <1>2, <1>4, <1>5, <1>6, <1>9, <1>10, <1>13, <1>14, <1>15, <1>16
  DEF Next, Propose, Operate, Advance, Venue, Fail, vars, StartTask, FinishTask, Age,
      FlipKillSwitch, DecideAbort, RiskReject, Refuse, SubmitRefused, Record, RejectCommit,
      ExpireCommit, HandleUpdate, Reconnect, RejectFail, ExpireFail, Disconnect,
      CrashApp, CrashWorker, RecordFail, HandleFail, Runners

-----------------------------------------------------------------------------
(* Rejections and executions.                                              *)

(* While it is executed, a proposal can only be rejected by the timeout.   *)
LEMMA ReasonStep ==
  ASSUME TypeOK, JobsApart, ReasonsOK, [Next]_vars
  PROVE  ReasonsOK'
<1> USE DEF rows, process, venue
<1>1. CASE UNCHANGED <<tier, reason, pc, job, batch>>
  BY <1>1 DEF ReasonsOK
<1>2. ASSUME UNCHANGED <<tier, reason>>, batch' \in {{}, batch}, NEW r \in Runners, Leave(r) PROVE ReasonsOK'
  BY <1>2 DEF ReasonsOK, Leave, TypeOK, Executing
<1>3. ASSUME NEW t \in Tasks, NEW p \in Proposals, ProposeForApproval(t, p) PROVE ReasonsOK'
  <2>1. \A r \in Runners : pc[r] \in Executing => job[r] # p
    BY <1>3 DEF ProposeForApproval, JobsApart, Runners, Executing
  <2>2. /\ UNCHANGED <<pc, job, batch>>
        /\ \A q \in Proposals \ {p} : tier'[q] = tier[q] /\ reason'[q] = reason[q]
        /\ tier[p] = "absent" /\ tier'[p] = "tier_3"
    BY <1>3 DEF ProposeForApproval, TypeOK
  <2>3. \A r \in Runners : pc[r] \in Executing => job[r] \in Proposals
    BY DEF JobsApart
  <2>4. \A q \in batch : q \in Proposals \ {p}
    BY <2>2 DEF ReasonsOK, TypeOK
  <2> QED
    BY <2>1, <2>2, <2>3, <2>4 DEF ReasonsOK
<1>4. ASSUME NEW t \in Tasks, NEW p \in Proposals, ProposeForExecution(t, p) PROVE ReasonsOK'
  BY <1>4 DEF ProposeForExecution, ReasonsOK, TypeOK, Runners, Executing
<1>5. ASSUME NEW p \in Proposals, Approve(p) \/ Reject(p) PROVE ReasonsOK'
  BY <1>5 DEF Approve, Reject, ReasonsOK, TypeOK, Runners, Executing
<1>6. CASE ExpireSelect
  BY <1>6 DEF ExpireSelect, Expirable, Pending, ReasonsOK, TypeOK, Runners, Executing
<1>7. ASSUME NEW r \in Runners, RiskApprove(r) \/ Lookup(r) PROVE ReasonsOK'
  BY <1>7 DEF RiskApprove, Lookup, Goto, ReasonsOK, TypeOK, Executing
<1>8. ASSUME NEW r \in Runners, NEW o \in Orders, Submit(r, o) PROVE ReasonsOK'
  BY <1>8 DEF Submit, ReasonsOK, TypeOK, Executing
<1>9. ASSUME NEW r \in Runners, pc[r] \in Executing \/ (r = "app" /\ pc[r] = "rejecting"),
             NEW why \in Reasons, reason' = [reason EXCEPT ![job[r]] = why],
             Leave(r), UNCHANGED <<tier, batch>>
      PROVE  ReasonsOK'
  <2>1. \A p \in Proposals : tier[p] = "absent" => p # job[r]
    BY <1>9 DEF JobsApart, Runners
  <2>2. \A x \in Runners \ {r} : pc[x] \in Executing => job[x] # job[r]
    BY <1>9 DEF JobsApart, Runners, Executing
  <2>3. pc'[r] = "idle" /\ \A x \in Runners \ {r} : pc'[x] = pc[x] /\ job'[x] = job[x]
    BY <1>9 DEF Leave, TypeOK
  <2>4. \A p \in Proposals : p # job[r] => reason'[p] = reason[p]
    BY <1>9 DEF TypeOK
  <2>5. \A x \in Runners : pc[x] \in Executing => job[x] \in Proposals
    BY DEF JobsApart
  <2> QED
    BY <1>9, <2>1, <2>2, <2>3, <2>4, <2>5 DEF ReasonsOK, Executing
<1>10. ASSUME NEW r \in Runners, RiskReject(r) PROVE ReasonsOK'
  BY <1>9, <1>10 DEF RiskReject, Executing, Reasons
<1>11. CASE RejectCommit
  BY <1>9, <1>11 DEF RejectCommit, Reasons, Runners
<1>12. CASE ExpireCommit
  <2>1. \A p \in Proposals : tier[p] = "absent" => p \notin batch
    BY DEF ReasonsOK
  <2> QED
    BY <1>12 DEF ExpireCommit, Leave, ReasonsOK, JobsApart, TypeOK, Runners, Executing
<1>13. CASE UNCHANGED <<tier, reason>> /\ batch' \in {{}, batch} /\ \E r \in Runners : Leave(r)
  BY <1>2, <1>13
<1> QED
  BY <1>1, <1>3, <1>4, <1>5, <1>6, <1>7, <1>8, <1>10, <1>11, <1>12, <1>13
  DEF Next, Propose, Operate, Advance, Venue, Fail, vars, StartTask, FinishTask, Age,
      FlipKillSwitch, DecideAbort, Refuse, SubmitRefused, Record, BrokerEvent, HandleUpdate,
      Reconnect, RejectFail, ExpireFail, Disconnect, CrashApp, CrashWorker, RecordFail,
      SubmitResent, SubmitUnanswered, HandleFail, Runners

-----------------------------------------------------------------------------
(* The theorems.                                                           *)

(* The initial state satisfies the inductive invariant.                    *)
LEMMA InitInv == Init => IInv
<1> SUFFICES ASSUME Init PROVE IInv
  OBVIOUS
<1>1. /\ \A o \in Orders : broker[o] = "absent" /\ trade[o] = "absent" /\ events[o] = <<>>
      /\ \A r \in Runners : pc[r] = "idle"
      /\ \A p \in Proposals : reason[p] = "null"
      /\ \A o \in Orders : owner[o] = NoProposal
      /\ batch = {}
  BY DEF Init, NoUpdates
<1>2. JobsApart /\ ReasonsOK /\ OwnersOK /\ ClaimsOK /\ NotYetSent
  BY <1>1 DEF JobsApart, ReasonsOK, OwnersOK, ClaimsOK, NotYetSent, Runners, Executing
<1>3. OrdersOK
  BY <1>1 DEF OrdersOK, OrderOK, UpdatesFit
<1>4. AtMostOneLiveTrade /\ RowNeverAhead
  BY <1>1 DEF AtMostOneLiveTrade, RowNeverAhead, LiveStatuses
<1> QED
  BY <1>2, <1>3, <1>4, InitType DEF IInv, SentInv, TradeInv

(* What is sent, and for whom: inductive for every venue.                  *)
THEOREM SentInvariance == Spec => []SentInv
<1>1. Init => SentInv
  BY InitInv DEF IInv
<1>2. SentInv /\ [Next]_vars => SentInv'
  BY TypeStep, JobsStep, ReasonStep, AutoStep DEF SentInv, AutoFacts
<1> QED
  BY <1>1, <1>2, PTL DEF Spec

(* The whole invariant, as long as the venue reports no order as "stopped" *)
(* before it fills.                                                        *)
THEOREM Invariance == ASSUME "stopped" \notin BrokerEvents PROVE Spec => []IInv
<1>1. IInv /\ [Next]_vars => IInv'
  BY TypeStep, JobsStep, ReasonStep, OrderStep, ClaimStep, AutoStep
  DEF IInv, SentInv, TradeInv, OrderFacts, ClaimFacts, AutoFacts
<1> QED
  BY <1>1, InitInv, PTL DEF Spec

(* A proposal has at most one live Trade row, whatever the two processes   *)
(* do and whichever faults happen: scalar_one_or_none never raises.        *)
THEOREM OneLiveTrade ==
  ASSUME "stopped" \notin BrokerEvents PROVE Spec => []AtMostOneLiveTrade
<1>1. IInv => AtMostOneLiveTrade
  BY DEF IInv, TradeInv
<1> QED
  BY <1>1, Invariance, PTL

(* A Trade row shows a final state only after its order has reached it,    *)
(* however its updates are delayed or lost.                                *)
THEOREM RowsFollowOrders ==
  ASSUME "stopped" \notin BrokerEvents PROVE Spec => []RowNeverAhead
<1>1. IInv => RowNeverAhead
  BY DEF IInv, TradeInv
<1> QED
  BY <1>1, Invariance, PTL

-----------------------------------------------------------------------------
(* Who sends, and for whom.                                                *)

(* An order is sent from submit_order, and for the proposal in hand.       *)
LEMMA SentFor ==
  ASSUME TypeOK, JobsApart, [Next]_vars
  PROVE  \/ /\ \A o \in Orders : ~Sent(o)
            /\ UNCHANGED owner
         \/ \E r \in Runners, x \in Orders :
              pc[r] = "submit" /\ Accept(x, job[r]) /\ \A o \in Orders : Sent(o) => o = x
<1> USE DEF rows, process, venue
<1>1. CASE UNCHANGED <<broker, owner>>
  BY <1>1 DEF Sent
<1>2. ASSUME NEW x \in Orders, NEW e \in BrokerEvents, BrokerEvent(x, e)
      PROVE  (\A o \in Orders : ~Sent(o)) /\ UNCHANGED owner
  <2>1. "absent" \notin Moves(e).from
    BY EventAssumption DEF Moves
  <2> QED
    BY <1>2, <2>1 DEF BrokerEvent, Sent, TypeOK
<1>3. ASSUME NEW r \in Runners, NEW x \in Orders,
             Submit(r, x) \/ SubmitResent(r, x) \/ SubmitUnanswered(r, x)
      PROVE  pc[r] = "submit" /\ Accept(x, job[r]) /\ \A o \in Orders : Sent(o) => o = x
  BY <1>3 DEF Submit, SubmitResent, SubmitUnanswered, Accept, Sent, TypeOK
<1> QED
  BY <1>1, <1>2, <1>3
  DEF Next, Propose, Operate, Advance, Venue, Fail, vars, StartTask, FinishTask,
      ProposeForApproval, ProposeForExecution, Approve, Reject, Age, FlipKillSwitch,
      ExpireSelect, DecideAbort, RiskReject, RiskApprove, Lookup, Refuse, SubmitRefused,
      Record, RejectCommit, ExpireCommit, HandleUpdate, Reconnect, RejectFail, ExpireFail,
      Disconnect, CrashApp, CrashWorker, RecordFail, HandleFail

(* A proposal executed without the operator is submitted in one call of    *)
(* submit_order in its life: no crash, lost answer or failed commit makes  *)
(* the code call again, and further orders are alpaca-py's repetitions.    *)
THEOREM SentOnce == Spec => AutomaticSentOnce
<1> DEFINE Safe == \A o \in Orders : Sent(o) /\ tier[owner'[o]] # "tier_3" => EarlierCalls(o) = {}
<1>1. SentInv /\ [Next]_vars => [Safe]_vars
  <2> SUFFICES ASSUME SentInv, [Next]_vars, NEW o \in Orders, Sent(o),
                      tier[owner'[o]] # "tier_3"
               PROVE  EarlierCalls(o) = {}
    OBVIOUS
  <2>1. TypeOK /\ JobsApart /\ NotYetSent
    BY DEF SentInv
  <2>2. PICK r \in Runners : pc[r] = "submit" /\ owner'[o] = job[r]
    BY <2>1, SentFor DEF Accept, TypeOK
  <2>3. r = "worker"
    BY <2>1, <2>2 DEF JobsApart, Runners, Executing
  <2>4. OrdersOf(owner'[o]) \subseteq posted[r]
    BY <2>1, <2>2, <2>3 DEF NotYetSent
  <2> QED
    BY <2>2, <2>4 DEF EarlierCalls
<1> QED
  BY <1>1, SentInvariance, PTL DEF Spec, AutomaticSentOnce

(* No rejection is taken back.                                             *)
LEMMA ReasonStays ==
  ASSUME TypeOK, ReasonsOK, [Next]_vars, NEW p \in Proposals, reason[p] # "null"
  PROVE  reason'[p] # "null"
<1> USE DEF rows, process, venue
<1>1. CASE UNCHANGED reason
  BY <1>1
<1>2. ASSUME NEW q, NEW why \in Reasons, reason' = [reason EXCEPT ![q] = why]
      PROVE  reason'[p] # "null"
  BY <1>2 DEF TypeOK, Reasons
<1>3. ASSUME NEW t \in Tasks, NEW q \in Proposals, ProposeForApproval(t, q)
      PROVE  reason'[p] # "null"
  BY <1>1, <1>2, <1>3 DEF ProposeForApproval, Reasons
<1>4. ASSUME NEW r \in Runners, RiskReject(r) \/ RejectCommit PROVE reason'[p] # "null"
  BY <1>2, <1>4 DEF RiskReject, RejectCommit, Reasons
<1>5. CASE ExpireCommit
  BY <1>5 DEF ExpireCommit
<1> QED
  BY <1>1, <1>3, <1>4, <1>5
  DEF Next, Propose, Operate, Advance, Venue, Fail, vars, StartTask, FinishTask,
      ProposeForExecution, Approve, Reject, Age, FlipKillSwitch, ExpireSelect, DecideAbort,
      RiskApprove, Lookup, Refuse, Submit, SubmitRefused, SubmitResent, SubmitUnanswered,
      Record, BrokerEvent, HandleUpdate, Reconnect, RejectFail, ExpireFail, Disconnect,
      CrashApp, CrashWorker, RecordFail, HandleFail, Runners

(* Only the lookup takes a proposal to its submission.                     *)
LEMMA SubmitBegins ==
  ASSUME TypeOK, [Next]_vars, NEW p \in Proposals, p \in Claiming("submit")'
  PROVE  p \in Claiming("submit") \/ reason[p] = "null"
<1> USE DEF rows, process, venue
<1>1. PICK r \in Runners : pc'[r] = "submit" /\ job'[r] = p
  BY DEF Claiming
<1>2. ASSUME pc'[r] = pc[r], job'[r] = job[r] PROVE p \in Claiming("submit")
  BY <1>1, <1>2 DEF Claiming
<1>3. ASSUME NEW x \in Runners, Lookup(x) PROVE p \in Claiming("submit") \/ reason[p] = "null"
  <2>1. CASE x = r
    BY <1>1, <1>3, <2>1 DEF Lookup, MaySubmit, Goto
  <2>2. CASE x # r
    BY <1>2, <1>3, <2>2 DEF Lookup, Goto, TypeOK
  <2> QED
    BY <2>1, <2>2
<1>4. ASSUME NEW x \in Runners, pc'[x] # "submit",
             \A y \in Runners \ {x} : pc'[y] = pc[y] /\ job'[y] = job[y]
      PROVE  p \in Claiming("submit")
  <2>1. r \in Runners \ {x}
    BY <1>1, <1>4
  <2> QED
    BY <1>2, <1>4, <2>1
<1>5. ASSUME NEW x \in Runners, Leave(x) PROVE p \in Claiming("submit")
  BY <1>4, <1>5 DEF Leave, TypeOK
<1>6. ASSUME NEW q \in Proposals, Approve(q) \/ Reject(q) PROVE p \in Claiming("submit")
  BY <1>4, <1>6 DEF Approve, Reject, TypeOK, Runners
<1>7. ASSUME NEW t \in Tasks, NEW q \in Proposals, ProposeForExecution(t, q)
      PROVE  p \in Claiming("submit")
  BY <1>4, <1>7 DEF ProposeForExecution, TypeOK, Runners
<1>8. CASE ExpireSelect
  BY <1>4, <1>8 DEF ExpireSelect, TypeOK, Runners
<1>9. ASSUME NEW x \in Runners, RiskApprove(x) \/ \E o \in Orders : Submit(x, o)
      PROVE  p \in Claiming("submit")
  BY <1>4, <1>9 DEF RiskApprove, Submit, Goto, TypeOK
<1>10. CASE \E x \in Runners : Leave(x)
  BY <1>5, <1>10
<1> QED
  BY <1>2, <1>3, <1>6, <1>7, <1>8, <1>9, <1>10
  DEF Next, Propose, Operate, Advance, Venue, Fail, vars, StartTask, FinishTask,
      ProposeForApproval, Age, FlipKillSwitch, DecideAbort, RiskReject, Refuse,
      SubmitRefused, SubmitResent, SubmitUnanswered, Record, RejectCommit, ExpireCommit,
      BrokerEvent, HandleUpdate, Reconnect, RejectFail, ExpireFail, Disconnect, CrashApp,
      CrashWorker, RecordFail, HandleFail, Runners

(* A proposal that was rejected, by the timeout too, gets no order unless  *)
(* submit_bracket had passed its lookup: on any interleaving, after any    *)
(* fault, and for good.                                                    *)
THEOREM NothingRejectedIsSent == Spec => RejectedNeverSent
<1> DEFINE Safe(p) ==
      /\ Barred(p) => Barred(p)' /\ OrdersOf(p)' = OrdersOf(p)
      /\ OrdersOf(p)' # OrdersOf(p) => reason[p] \in {"null", "hitl_timeout"}
<1>1. SentInv /\ [Next]_vars => [\A p \in Proposals : Safe(p)]_vars
  <2> SUFFICES ASSUME SentInv, [Next]_vars, NEW p \in Proposals PROVE Safe(p)
    OBVIOUS
  <2>1. TypeOK /\ JobsApart /\ ReasonsOK /\ OwnersOK
    BY DEF SentInv
  <2>2. CASE OrdersOf(p)' = OrdersOf(p)
    BY <2>1, <2>2, ReasonStays, SubmitBegins DEF Barred
  <2>3. CASE OrdersOf(p)' # OrdersOf(p)
    <3>1. owner' # owner
      BY <2>3 DEF OrdersOf
    <3>2. PICK r \in Runners, x \in Orders : pc[r] = "submit" /\ Accept(x, job[r])
      BY <2>1, <3>1, SentFor
    <3>3. job[r] \in Proposals /\ reason[job[r]] \in {"null", "hitl_timeout"}
      BY <2>1, <3>2 DEF JobsApart, ReasonsOK, Executing
    <3>4. p = job[r]
      BY <2>1, <2>3, <3>2, <3>3, AcceptOwner
    <3>5. p \in Claiming("submit")
      BY <3>2, <3>4 DEF Claiming
    <3> QED
      BY <3>3, <3>4, <3>5 DEF Barred
  <2> QED
    BY <2>2, <2>3
<1> QED
  BY <1>1, SentInvariance, PTL DEF Spec, RejectedNeverSent
=============================================================================
