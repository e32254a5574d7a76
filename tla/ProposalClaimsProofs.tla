------------------------ MODULE ProposalClaimsProofs ------------------------
(***************************************************************************)
(* That ProposalLifecycle implements ProposalClaims, for every set of      *)
(* proposals, orders and tasks and every bound on faults; and that without *)
(* a fault a proposal has one working order.                               *)
(***************************************************************************)
EXTENDS ProposalLifecycleProofs

(* The refinement mapping, by name.                                        *)
Phases   == [p \in Proposals |-> PhaseOf(p)]
Rejected == {p \in Proposals : reason[p] # "null"}
Live(p)  == LiveTrades(p) # {}

(* What the two processes do in one state does not overlap.                *)
LEMMA OneClaimant ==
  ASSUME JobsApart, NEW r \in Runners, NEW x \in Runners,
         pc[r] \in Executing, pc[x] \in Executing, job[r] = job[x]
  PROVE  r = x
  BY DEF JobsApart, Runners

(* A claim is in one stage.                                                *)
LEMMA StagesApart ==
  ASSUME JobsApart, NEW p \in Proposals, p \in Claiming("record")
  PROVE  p \notin Claiming("submit")
<1>1. PICK r \in Runners : pc[r] = "record" /\ job[r] = p
  BY DEF Claiming
<1>2. ASSUME NEW x \in Runners, pc[x] = "submit", job[x] = p PROVE FALSE
  BY <1>1, <1>2, OneClaimant DEF Executing
<1> QED
  BY <1>2 DEF Claiming

(* The same in the next state.                                             *)
LEMMA StagesApartNext ==
  ASSUME JobsApart', NEW p \in Proposals, p \in Claiming("record")'
  PROVE  p \notin Claiming("submit")'
<1>1. PICK r \in Runners : pc'[r] = "record" /\ job'[r] = p
  BY DEF Claiming
<1>2. ASSUME NEW x \in Runners, pc'[x] = "submit", job'[x] = p PROVE FALSE
  BY <1>1, <1>2 DEF JobsApart, Runners, Executing
<1> QED
  BY <1>2 DEF Claiming

(* The phase of a proposal, without overlapping cases.                     *)
PhaseFacts(p) ==
  /\ p \in Claiming("record") => p \notin Claiming("submit") /\ Phases[p] = "placed"
  /\ p \in Claiming("submit") => p \notin Claiming("record") /\ Phases[p] = "claimed"
  /\ p \notin Claiming("record") \cup Claiming("submit") =>
       Phases[p] = IF Live(p) THEN "live" ELSE "free"

(* The mapping gives the phase.                                            *)
LEMMA PhaseValue == ASSUME JobsApart, NEW p \in Proposals PROVE PhaseFacts(p)
<1>1. p \in Claiming("record") => p \notin Claiming("submit")
  BY StagesApart
<1> QED
  BY <1>1 DEF PhaseFacts, Phases, PhaseOf, Live

(* The mapping gives the phase of the next state.                          *)
LEMMA PhaseValueNext == ASSUME JobsApart', NEW p \in Proposals PROVE PhaseFacts(p)'
<1>1. p \in Claiming("record")' => p \notin Claiming("submit")'
  BY StagesApartNext
<1> QED
  BY <1>1 DEF PhaseFacts, Phases, PhaseOf, Live

-----------------------------------------------------------------------------
(* Steps of the mapping.                                                   *)

SameClaims == Claiming("record")' = Claiming("record") /\ Claiming("submit")' = Claiming("submit")

(* A step that starts and ends no claim and settles no trade, and takes no *)
(* rejection back, is a step of rejections, or none.                       *)
LEMMA QuietStep ==
  ASSUME JobsApart, JobsApart', SameClaims, Rejected \subseteq Rejected',
         \A p \in Proposals : Live(p)' = Live(p)
  PROVE  Claims!Reject
<1>1. \A p \in Proposals : Phases'[p] = Phases[p]
  BY PhaseValue, PhaseValueNext DEF PhaseFacts, SameClaims
<1>2. Phases' = Phases
  BY <1>1 DEF Phases
<1>3. Rejected' \subseteq Proposals
  BY DEF Rejected
<1> QED
  BY <1>2, <1>3 DEF Claims!Reject, Phases, Rejected

(* A step that changes one phase and rejects nothing is a move.            *)
LEMMA MoveStep ==
  ASSUME NEW p \in Proposals, NEW from, NEW to, Phases[p] \in from, Phases'[p] = to,
         \A q \in Proposals \ {p} : Phases'[q] = Phases[q], UNCHANGED reason
  PROVE  Claims!Move(p, from, to)
<1>1. Phases' = [Phases EXCEPT ![p] = to]
  BY DEF Phases
<1>2. UNCHANGED Rejected
  BY DEF Rejected
<1> QED
  BY <1>1, <1>2 DEF Claims!Move, Phases, Rejected

Others(r) == \A x \in Runners \ {r} : pc'[x] = pc[x] /\ job'[x] = job[x]

(* A step of one process leaves the phases of other proposals alone.       *)
LEMMA OtherPhases ==
  ASSUME JobsApart, JobsApart', NEW r \in Runners, NEW p \in Proposals, Others(r),
         job[r] = p, job'[r] \in {p, NoProposal},
         \A q \in Proposals \ {p} : Live(q)' = Live(q)
  PROVE  \A q \in Proposals \ {p} : Phases'[q] = Phases[q]
<1> SUFFICES ASSUME NEW q \in Proposals \ {p} PROVE Phases'[q] = Phases[q]
  OBVIOUS
<1>1. \A x \in Runners : job'[x] = q => x # r
  BY NoneAssumption
<1>2. ASSUME NEW stage PROVE q \in Claiming(stage)' <=> q \in Claiming(stage)
  BY <1>1 DEF Claiming, Others
<1>3. PhaseFacts(q) /\ PhaseFacts(q)'
  BY PhaseValue, PhaseValueNext
<1> QED
  BY <1>2, <1>3 DEF PhaseFacts

(* The phase of the proposal a process executes.                           *)
LEMMA OwnPhase ==
  ASSUME JobsApart, NEW r \in Runners, NEW p \in Proposals, job[r] = p
  PROVE  /\ pc[r] = "record" => Phases[p] = "placed"
         /\ pc[r] = "submit" => Phases[p] = "claimed"
         /\ pc[r] = "lookup" /\ ~Live(p) => Phases[p] = "free"
<1>1. PhaseFacts(p)
  BY PhaseValue
<1>2. ASSUME pc[r] = "lookup", NEW stage \in {"record", "submit"} PROVE p \notin Claiming(stage)
  BY <1>2, OneClaimant DEF Claiming, Executing
<1> QED
  BY <1>1, <1>2 DEF PhaseFacts, Claiming

(* The phase after a step of the process that executes it.                 *)
LEMMA NextPhase ==
  ASSUME JobsApart, JobsApart', NEW r \in Runners, NEW p \in Proposals, Others(r),
         job[r] = p, pc[r] \in Executing
  PROVE  /\ pc'[r] = "record" /\ job'[r] = p => Phases'[p] = "placed"
         /\ pc'[r] = "submit" /\ job'[r] = p => Phases'[p] = "claimed"
         /\ pc'[r] = "idle" => Phases'[p] = IF Live(p)' THEN "live" ELSE "free"
<1>1. PhaseFacts(p)'
  BY PhaseValueNext
<1>2. ASSUME pc'[r] = "idle", NEW stage \in {"record", "submit"} PROVE p \notin Claiming(stage)'
  BY <1>2, OneClaimant DEF Claiming, Executing, Others
<1> QED
  BY <1>1, <1>2 DEF PhaseFacts, Claiming

(* A process that leaves gives its claim up, if it has one.                *)
LEMMA LeaveStep ==
  ASSUME TypeOK, JobsApart, JobsApart', ClaimsOK, NEW r \in Runners, Leave(r),
         \A p \in Proposals : Live(p)' = Live(p),
         Rejected \subseteq Rejected', pc[r] \in {"submit", "record"} => UNCHANGED reason
  PROVE  Claims!Next
<1>1. pc'[r] = "idle" /\ job'[r] = NoProposal /\ Others(r)
  BY DEF Leave, TypeOK, Others
<1>2. CASE pc[r] \notin {"submit", "record"}
  <2>1. SameClaims
    BY <1>1, <1>2 DEF SameClaims, Claiming, Others
  <2> QED
    BY <2>1, QuietStep DEF Claims!Next
<1>3. CASE pc[r] \in {"submit", "record"}
  <2> DEFINE p == job[r]
  <2>1. p \in Proposals /\ pc[r] \in Executing /\ ~Live(p)
    BY <1>3 DEF JobsApart, Executing, ClaimsOK, Live
  <2>2. Phases[p] \in {"claimed", "placed"}
    BY <1>3, <2>1, OwnPhase
  <2>3. Phases'[p] = "free"
    BY <1>1, <2>1, NextPhase
  <2>4. \A q \in Proposals \ {p} : Phases'[q] = Phases[q]
    BY <1>1, <2>1, OtherPhases
  <2>5. Claims!Abandon(p)
    BY <1>3, <2>1, <2>2, <2>3, <2>4, MoveStep DEF Claims!Abandon
  <2> QED
    BY <2>1, <2>5 DEF Claims!Next
<1> QED
  BY <1>2, <1>3

(* Which trades are live, when rows, orders and owners stay.               *)
LEMMA SameLive ==
  ASSUME UNCHANGED <<trade, owner>>
  PROVE  \A p \in Proposals : Live(p)' = Live(p)
  BY DEF Live, LiveTrades

(* Nor does a new order without a row make one live.                       *)
LEMMA AcceptLive ==
  ASSUME TypeOK, OrdersOK, NEW o \in Orders, NEW p, Accept(o, p), UNCHANGED trade
  PROVE  \A q \in Proposals : Live(q)' = Live(q)
<1>1. trade[o] = "absent" /\ \A x \in Orders \ {o} : owner'[x] = owner[x]
  BY DEF Accept, OrdersOK, OrderOK, TypeOK
<1>2. \A q \in Proposals : LiveTrades(q)' = LiveTrades(q)
  BY <1>1 DEF LiveTrades, LiveStatuses
<1> QED
  BY <1>2 DEF Live

(* Lookup takes a claim.                                                   *)
LEMMA LookupStep ==
  ASSUME TypeOK, JobsApart, JobsApart', NEW r \in Runners, Lookup(r)
  PROVE  Claims!Next
<1> DEFINE p == job[r]
<1>1. /\ pc[r] = "lookup" /\ p \in Proposals /\ pc[r] \in Executing
      /\ reason[p] = "null" /\ ~Live(p)
      /\ UNCHANGED <<trade, owner, reason>>
  BY DEF Lookup, MaySubmit, JobsApart, Executing, Live, rows, venue
<1>2. pc'[r] = "submit" /\ job'[r] = p /\ Others(r)
  BY DEF Lookup, Goto, TypeOK, Others
<1>3. \A q \in Proposals : Live(q)' = Live(q)
  BY <1>1, SameLive
<1>4. Phases[p] \in {"free"} /\ Phases'[p] = "claimed"
  BY <1>1, <1>2, OwnPhase, NextPhase
<1>5. \A q \in Proposals \ {p} : Phases'[q] = Phases[q]
  BY <1>1, <1>2, <1>3, OtherPhases
<1>6. Claims!Move(p, {"free"}, "claimed")
  BY <1>1, <1>4, <1>5, MoveStep
<1>7. p \notin Rejected
  BY <1>1 DEF Rejected
<1> QED
  BY <1>1, <1>6, <1>7 DEF Claims!Next, Claims!Claim, Rejected

(* Submit places the order of the claim.                                   *)
LEMMA SubmitStep ==
  ASSUME TypeOK, JobsApart, JobsApart', OrdersOK, NEW r \in Runners, NEW o \in Orders,
         Submit(r, o)
  PROVE  Claims!Next
<1> DEFINE p == job[r]
<1>1. /\ pc[r] = "submit" /\ p \in Proposals /\ pc[r] \in Executing
      /\ Accept(o, p) /\ UNCHANGED <<trade, reason>>
  BY DEF Submit, JobsApart, Executing, rows
<1>2. pc'[r] = "record" /\ job'[r] = p /\ Others(r)
  BY DEF Submit, TypeOK, Others
<1>3. \A q \in Proposals : Live(q)' = Live(q)
  BY <1>1, AcceptLive
<1>4. Phases[p] \in {"claimed"} /\ Phases'[p] = "placed"
  BY <1>1, <1>2, OwnPhase, NextPhase
<1>5. \A q \in Proposals \ {p} : Phases'[q] = Phases[q]
  BY <1>1, <1>2, <1>3, OtherPhases
<1>6. Claims!Place(p)
  BY <1>1, <1>4, <1>5, MoveStep DEF Claims!Place
<1> QED
  BY <1>1, <1>6 DEF Claims!Next

(* A repetition by alpaca-py leaves the claim where it is.                 *)
LEMMA ResentStep ==
  ASSUME TypeOK, JobsApart, JobsApart', OrdersOK, NEW r \in Runners, NEW o \in Orders,
         SubmitResent(r, o)
  PROVE  Claims!Next
<1>1. Accept(o, job[r]) /\ UNCHANGED <<trade, reason, pc, job>>
  BY DEF SubmitResent, rows
<1>2. \A q \in Proposals : Live(q)' = Live(q)
  BY <1>1, AcceptLive
<1>3. SameClaims /\ Rejected \subseteq Rejected'
  BY <1>1 DEF SameClaims, Claiming, Rejected
<1> QED
  BY <1>2, <1>3, QuietStep DEF Claims!Next

(* Record confirms it.                                                     *)
LEMMA RecordStep ==
  ASSUME TypeOK, JobsApart, JobsApart', ClaimsOK, NEW r \in Runners, Record(r)
  PROVE  Claims!Next
<1>1. /\ pc[r] = "record" /\ job[r] \in Proposals /\ pc[r] \in Executing
      /\ held[r] \in Orders /\ owner[held[r]] = job[r]
      /\ trade' = [trade EXCEPT ![held[r]] = "pending"]
      /\ UNCHANGED <<owner, reason>>
  BY DEF Record, JobsApart, Executing, ClaimsOK, venue
<1>2. PICK p \in Proposals : p = job[r]
  BY <1>1
<1>3. PICK o \in Orders : o = held[r]
  BY <1>1
<1>4. pc'[r] = "idle" /\ job'[r] = NoProposal /\ Others(r)
  BY DEF Record, Leave, TypeOK, Others
<1>5. /\ owner'[o] = p /\ trade'[o] = "pending"
      /\ \A x \in Orders \ {o} : trade'[x] = trade[x]
  BY <1>1, <1>2, <1>3 DEF TypeOK
<1>6. Live(p)'
  BY <1>5 DEF Live, LiveTrades, LiveStatuses
<1>7. ASSUME NEW q \in Proposals \ {p} PROVE Live(q)' = Live(q)
  <2>1. LiveTrades(q)' = LiveTrades(q)
    BY <1>1, <1>5 DEF LiveTrades
  <2> QED
    BY <2>1 DEF Live
<1>8. Phases[p] \in {"placed"}
  BY <1>1, <1>2, OwnPhase
<1>9. Phases'[p] = "live"
  BY <1>1, <1>2, <1>4, <1>6, NextPhase
<1>10. \A q \in Proposals \ {p} : Phases'[q] = Phases[q]
  BY <1>2, <1>4, <1>7, OtherPhases
<1>11. Claims!Confirm(p)
  BY <1>1, <1>8, <1>9, <1>10, MoveStep DEF Claims!Confirm
<1> QED
  BY <1>11 DEF Claims!Next

(* An update settles the trade of one proposal, or changes no phase.       *)
LEMMA UpdateStep ==
  ASSUME TypeOK, JobsApart, JobsApart', OrdersOK, OwnersOK, NEW o \in Orders, HandleUpdate(o)
  PROVE  Claims!Next
<1>1. UNCHANGED <<owner, pc, job, reason>>
  BY DEF HandleUpdate, process
<1>2. SameClaims /\ Rejected' = Rejected
  BY <1>1 DEF SameClaims, Claiming, Rejected
<1>3. \A x \in Orders : trade'[x] \in LiveStatuses => trade[x] \in LiveStatuses
  BY UpdateRevivesNothing
<1>4. \A p \in Proposals : LiveTrades(p)' \subseteq LiveTrades(p)
  BY <1>1, <1>3 DEF LiveTrades
<1>5. \A x \in Orders \ {o} : trade'[x] = trade[x]
  <2> DEFINE status == EventStatus[Head(events[o])]
  <2>1. Apply(o, status)
    BY DEF HandleUpdate
  <2> HIDE DEF status
  <2> QED
    BY <2>1 DEF Apply, TypeOK
<1>6. \A p \in Proposals : p # owner[o] => LiveTrades(p)' = LiveTrades(p)
  BY <1>1, <1>5 DEF LiveTrades
<1>7. CASE \A p \in Proposals : Live(p)' = Live(p)
  BY <1>2, <1>7, QuietStep DEF Claims!Next
<1>8. ASSUME NEW p \in Proposals, Live(p)' # Live(p) PROVE Claims!Next
  <2>1. p = owner[o] /\ Live(p) /\ ~Live(p)'
    BY <1>4, <1>6, <1>8 DEF Live
  <2>2. \A q \in Proposals \ {p} : Live(q)' = Live(q)
    BY <1>6, <2>1 DEF Live
  <2>3. \A q \in Proposals : PhaseFacts(q) /\ PhaseFacts(q)'
    BY PhaseValue, PhaseValueNext
  <2>4. \A q \in Proposals \ {p} : Phases'[q] = Phases[q]
    BY <1>2, <2>2, <2>3 DEF PhaseFacts, SameClaims
  <2>5. CASE p \in Claiming("record") \cup Claiming("submit")
    <3>1. Phases'[p] = Phases[p]
      BY <1>2, <2>3, <2>5 DEF PhaseFacts, SameClaims
    <3>2. Phases' = Phases
      BY <2>4, <3>1 DEF Phases
    <3> QED
      BY <1>2, <3>2 DEF Claims!Next, Claims!Reject, Phases, Rejected
  <2>6. CASE p \notin Claiming("record") \cup Claiming("submit")
    <3>1. Phases[p] \in {"live"} /\ Phases'[p] = "free"
      BY <1>2, <2>1, <2>3, <2>6 DEF PhaseFacts, SameClaims
    <3>2. Claims!Settle(p)
      BY <1>1, <2>4, <3>1, MoveStep DEF Claims!Settle
    <3> QED
      BY <3>2 DEF Claims!Next
  <2> QED
    BY <2>5, <2>6
<1> QED
  BY <1>7, <1>8

(* Every step implements a step of the claims, or none.                    *)
LEMMA SimStep ==
  ASSUME IInv, IInv', [Next]_vars PROVE Claims!Next \/ UNCHANGED Claims!vars
<1> USE DEF rows, process, venue
<1>0. /\ TypeOK /\ JobsApart /\ JobsApart' /\ ReasonsOK /\ OwnersOK
      /\ OrdersOK /\ ClaimsOK
  BY DEF IInv, SentInv, TradeInv
<1>1. CASE UNCHANGED <<trade, owner, reason, pc, job>>
  <2>1. Phases' = Phases /\ Rejected' = Rejected
    BY <1>1 DEF Phases, PhaseOf, Claiming, LiveTrades, Rejected
  <2> QED
    BY <2>1 DEF Claims!vars, Phases, Rejected
<1>2. ASSUME SameClaims, UNCHANGED <<trade, owner>>, Rejected \subseteq Rejected' PROVE Claims!Next
  BY <1>0, <1>2, SameLive, QuietStep DEF Claims!Next
<1>3. ASSUME NEW r \in Runners, pc[r] \notin {"submit", "record"}, pc'[r] \notin {"submit", "record"},
             Others(r), UNCHANGED <<trade, owner>>, Rejected \subseteq Rejected'
      PROVE  Claims!Next
  <2>1. SameClaims
    BY <1>3 DEF SameClaims, Claiming, Others
  <2> QED
    BY <1>2, <1>3, <2>1
<1>4. ASSUME UNCHANGED <<reason, trade, owner>>, NEW r \in Runners, Leave(r) PROVE Claims!Next
  <2>1. Rejected \subseteq Rejected'
    BY <1>4 DEF Rejected
  <2> QED
    BY <1>0, <1>4, <2>1, SameLive, LeaveStep
<1>5. ASSUME NEW t \in Tasks, NEW p \in Proposals, ProposeForApproval(t, p) PROVE Claims!Next
  <2>1. /\ SameClaims /\ UNCHANGED <<trade, owner>>
        /\ \A q \in Proposals \ {p} : reason'[q] = reason[q]
        /\ reason[p] = "null"
    BY <1>0, <1>5 DEF ProposeForApproval, SameClaims, Claiming, TypeOK, ReasonsOK
  <2>2. Rejected \subseteq Rejected'
    BY <2>1 DEF Rejected
  <2> QED
    BY <1>2, <2>1, <2>2
<1>6. ASSUME NEW t \in Tasks, NEW p \in Proposals, ProposeForExecution(t, p) PROVE Claims!Next
  <2>1. /\ pc["worker"] = "idle" /\ pc'["worker"] = "deciding" /\ Others("worker")
        /\ UNCHANGED <<trade, owner>> /\ Rejected \subseteq Rejected'
    BY <1>0, <1>6 DEF ProposeForExecution, LoopFree, Others, TypeOK, Runners, Rejected
  <2> QED
    BY <1>3, <2>1 DEF Runners
<1>7. ASSUME NEW p \in Proposals, Approve(p) \/ Reject(p) PROVE Claims!Next
  <2>1. /\ pc["app"] = "idle" /\ pc'["app"] \in {"deciding", "rejecting"} /\ Others("app")
        /\ UNCHANGED <<trade, owner>> /\ Rejected \subseteq Rejected'
    BY <1>0, <1>7 DEF Approve, Reject, Others, TypeOK, Runners, Rejected
  <2> QED
    BY <1>3, <2>1 DEF Runners
<1>8. CASE ExpireSelect
  <2>1. /\ pc["worker"] = "idle" /\ pc'["worker"] = "expiring" /\ Others("worker")
        /\ UNCHANGED <<trade, owner>> /\ Rejected \subseteq Rejected'
    BY <1>0, <1>8 DEF ExpireSelect, LoopFree, Others, TypeOK, Runners, Rejected
  <2> QED
    BY <1>3, <2>1 DEF Runners
<1>9. ASSUME NEW r \in Runners, RiskApprove(r) PROVE Claims!Next
  <2>1. /\ pc[r] = "deciding" /\ pc'[r] = "lookup" /\ Others(r)
        /\ UNCHANGED <<trade, owner>> /\ Rejected \subseteq Rejected'
    BY <1>0, <1>9 DEF RiskApprove, Goto, Others, TypeOK, Rejected
  <2> QED
    BY <1>3, <2>1
<1>10. ASSUME NEW r \in Runners, RiskReject(r) \/ (r = "app" /\ RejectCommit) PROVE Claims!Next
  <2>0. pc[r] \in {"deciding", "rejecting"} /\ Leave(r) /\ UNCHANGED <<trade, owner>>
    BY <1>10 DEF RiskReject, RejectCommit
  <2>1. pc'[r] = "idle" /\ Others(r)
    BY <1>0, <2>0 DEF Leave, Others, TypeOK
  <2>2. \E why \in Reasons : reason' = [reason EXCEPT ![job[r]] = why]
    BY <1>10 DEF RiskReject, RejectCommit, Reasons
  <2>3. Rejected \subseteq Rejected'
    BY <1>0, <2>2 DEF Rejected, TypeOK, Reasons
  <2> QED
    BY <1>3, <2>0, <2>1, <2>3
<1>11. CASE ExpireCommit
  <2>1. /\ pc["worker"] = "expiring" /\ pc'["worker"] = "idle" /\ Others("worker")
        /\ UNCHANGED <<trade, owner>> /\ Rejected \subseteq Rejected'
    BY <1>0, <1>11 DEF ExpireCommit, Leave, Others, TypeOK, Runners, Rejected
  <2> QED
    BY <1>3, <2>1 DEF Runners
<1>12. ASSUME NEW r \in Runners, NEW o \in Orders, SubmitUnanswered(r, o) PROVE Claims!Next
  <2>1. Rejected \subseteq Rejected' /\ UNCHANGED reason
    BY <1>12 DEF SubmitUnanswered, Rejected
  <2>2. \A p \in Proposals : Live(p)' = Live(p)
    <3>1. Accept(o, job[r]) /\ UNCHANGED trade
      BY <1>12 DEF SubmitUnanswered
    <3> QED
      BY <1>0, <3>1, AcceptLive
  <2>3. Leave(r)
    BY <1>12 DEF SubmitUnanswered
  <2> QED
    BY <1>0, <2>1, <2>2, <2>3, LeaveStep
<1>13. ASSUME NEW r \in Runners, Lookup(r) PROVE Claims!Next
  BY <1>0, <1>13, LookupStep
<1>14. ASSUME NEW r \in Runners, NEW o \in Orders, Submit(r, o) PROVE Claims!Next
  BY <1>0, <1>14, SubmitStep
<1>15. ASSUME NEW r \in Runners, Record(r) PROVE Claims!Next
  BY <1>0, <1>15, RecordStep
<1>16. ASSUME NEW o \in Orders, HandleUpdate(o) PROVE Claims!Next
  BY <1>0, <1>16, UpdateStep
<1>17. CASE UNCHANGED <<reason, trade, owner>> /\ \E r \in Runners : Leave(r)
  BY <1>4, <1>17
<1>18. ASSUME NEW r \in Runners, NEW o \in Orders, SubmitResent(r, o) PROVE Claims!Next
  BY <1>0, <1>18, ResentStep
<1> QED
  BY <1>1, <1>5, <1>6, <1>7, <1>8, <1>9, <1>10, <1>11, <1>12, <1>13, <1>14, <1>15, <1>16, <1>17, <1>18
  DEF Next, Propose, Operate, Advance, Venue, Fail, vars, StartTask, FinishTask, Age,
      FlipKillSwitch, DecideAbort, Refuse, SubmitRefused, BrokerEvent, Reconnect,
      RejectFail, ExpireFail, Disconnect, CrashApp, CrashWorker, RecordFail, HandleFail,
      Runners

(* At the start every proposal is free.                                    *)
LEMMA InitMap == Init => Claims!Init
<1> SUFFICES ASSUME Init PROVE Claims!Init
  OBVIOUS
<1>1. \A p \in Proposals : PhaseOf(p) = "free" /\ reason[p] = "null"
  BY DEF Init, PhaseOf, Claiming, LiveTrades, LiveStatuses, Runners
<1> QED
  BY <1>1 DEF Claims!Init

(* The execution path keeps its claims: a proposal is executed by one      *)
(* process at a time, never while it is rejected or live, with at most one *)
(* order recorded per claim, and a rejection is final.                     *)
THEOREM ClaimsImplemented ==
  ASSUME "stopped" \notin BrokerEvents PROVE Spec => ImplementsClaims
<1>1. IInv /\ IInv' /\ [Next]_vars => [Claims!Next]_(Claims!vars)
  BY SimStep
<1> QED
  BY <1>1, InitMap, Invariance, PTL DEF Spec, ImplementsClaims, Claims!Spec

-----------------------------------------------------------------------------
(* Without faults an order at work has its row, or its process at hand.    *)

Attended(o) ==
  trade[o] \in LiveStatuses \/ \E r \in Runners : pc[r] = "record" /\ held[r] = o

Tracked == faults = 0 => \A o \in Orders : Working(o) => Attended(o)

(* Attended orders of one proposal are one order.                          *)
LEMMA AttendedOnce == IInv /\ Tracked => OneOrderWithoutFaults
<1> SUFFICES ASSUME IInv, Tracked, faults = 0, NEW o1 \in Orders, NEW o2 \in Orders,
                    Working(o1), Working(o2), owner[o1] = owner[o2]
             PROVE  o1 = o2
  BY DEF OneOrderWithoutFaults
<1>0. JobsApart /\ ClaimsOK /\ AtMostOneLiveTrade /\ Attended(o1) /\ Attended(o2)
  BY DEF Tracked, IInv, SentInv, TradeInv
<1>1. ASSUME NEW r \in Runners, pc[r] = "record"
      PROVE  \A x \in Orders : owner[x] = owner[held[r]] => trade[x] \notin LiveStatuses
  BY <1>0, <1>1 DEF ClaimsOK, LiveTrades
<1>2. ASSUME NEW r1 \in Runners, NEW r2 \in Runners, pc[r1] = "record", pc[r2] = "record",
             owner[held[r1]] = owner[held[r2]]
      PROVE  held[r1] = held[r2]
  BY <1>0, <1>2, ClaimsDiffer DEF ClaimsOK, Executing
<1>3. CASE trade[o1] \in LiveStatuses /\ trade[o2] \in LiveStatuses
  BY <1>0, <1>3 DEF AtMostOneLiveTrade
<1> QED
  BY <1>0, <1>1, <1>2, <1>3 DEF Attended

(* Every step keeps it.                                                    *)
LEMMA TrackedStep ==
  ASSUME IInv, IInv', Tracked, [Next]_vars PROVE Tracked'
<1> USE DEF rows, process, venue
<1>0. TypeOK /\ ClaimsOK /\ RowNeverAhead' /\ OrdersOK
  BY DEF IInv, SentInv, TradeInv
<1>1. CASE Fault
  BY <1>0, <1>1 DEF Fault, Tracked, TypeOK
<1>2. ASSUME UNCHANGED <<trade, broker, faults>>,
             \A r \in Runners : pc[r] = "record" => pc'[r] = "record" /\ held'[r] = held[r]
      PROVE  Tracked'
  BY <1>2 DEF Tracked, Working, Attended
<1>3. ASSUME UNCHANGED <<trade, broker, faults>>, NEW r \in Runners, pc[r] # "record",
             \A x \in Runners \ {r} : pc'[x] = pc[x] /\ held'[x] = held[x]
      PROVE  Tracked'
  BY <1>2, <1>3
<1>4. ASSUME NEW r \in Runners, NEW o \in Orders, Submit(r, o) PROVE Tracked'
  <2>1. pc[r] = "submit" /\ pc'[r] = "record" /\ held'[r] = o /\ UNCHANGED <<trade, faults>>
    BY <1>0, <1>4 DEF Submit, TypeOK
  <2>2. /\ \A x \in Runners \ {r} : pc'[x] = pc[x] /\ held'[x] = held[x]
        /\ \A x \in Orders \ {o} : broker'[x] = broker[x]
    BY <1>0, <1>4 DEF Submit, Accept, TypeOK
  <2> QED
    BY <2>1, <2>2 DEF Tracked, Working, Attended
<1>5. ASSUME NEW r \in Runners, Record(r) PROVE Tracked'
  <2>1. PICK o \in Orders : o = held[r]
    BY <1>0, <1>5 DEF Record, ClaimsOK
  <2>2. /\ trade'[o] = "pending" /\ UNCHANGED <<broker, faults>>
        /\ \A x \in Orders \ {o} : trade'[x] = trade[x]
        /\ \A x \in Runners \ {r} : pc'[x] = pc[x] /\ held'[x] = held[x]
    BY <1>0, <1>5, <2>1 DEF Record, Leave, TypeOK
  <2> QED
    BY <2>1, <2>2 DEF Tracked, Working, Attended, LiveStatuses
<1>6. ASSUME NEW o \in Orders, NEW e \in BrokerEvents, BrokerEvent(o, e) PROVE Tracked'
  <2>1. /\ Moves(e).from \subseteq {"new", "partially_filled", "stopped"}
        /\ broker[o] \in Moves(e).from
        /\ UNCHANGED <<trade, pc, held, faults>>
        /\ \A x \in Orders \ {o} : broker'[x] = broker[x]
    BY <1>0, <1>6, EventAssumption DEF BrokerEvent, Moves, TypeOK
  <2>2. \A x \in Orders : Working(x)' => Working(x)
    BY <2>1 DEF Working
  <2> QED
    BY <2>1, <2>2 DEF Tracked, Attended
<1>7. ASSUME NEW o \in Orders, HandleUpdate(o) PROVE Tracked'
  <2>1. UNCHANGED <<broker, pc, held, faults>>
    BY <1>7 DEF HandleUpdate
  <2>2. /\ \A x \in Orders : trade[x] # "absent" => trade'[x] # "absent"
    <3> DEFINE status == EventStatus[Head(events[o])]
    <3>1. Apply(o, status) /\ status # "absent"
      BY <1>0, <1>7, HeadTells DEF HandleUpdate, OrdersOK, OrderOK
    <3> HIDE DEF status
    <3> QED
      BY <1>0, <3>1 DEF Apply, TypeOK
  <2>3. \A x \in Orders : trade'[x] \in Statuses \cup {"absent"}
    BY DEF IInv, SentInv, TypeOK
  <2>4. ASSUME NEW x \in Orders, Working(x), trade[x] \in LiveStatuses
        PROVE  trade'[x] \in LiveStatuses
    <3>1. trade'[x] \notin {"cancelled", "rejected"}
      BY <1>0, <2>1, <2>4 DEF RowNeverAhead, Working
    <3>2. trade'[x] # "absent"
      BY <2>2, <2>4 DEF LiveStatuses
    <3> QED
      BY <2>3, <3>1, <3>2 DEF Statuses, LiveStatuses
  <2> QED
    BY <2>1, <2>4 DEF Tracked, Working, Attended
<1>8. ASSUME NEW p \in Proposals, Approve(p) \/ Reject(p) PROVE Tracked'
  <2>1. /\ UNCHANGED <<trade, broker, faults, held>> /\ "app" \in Runners /\ pc["app"] = "idle"
        /\ \A x \in Runners \ {"app"} : pc'[x] = pc[x]
    BY <1>0, <1>8 DEF Approve, Reject, TypeOK, Runners
  <2> QED
    BY <1>3, <2>1
<1>9. ASSUME ExpireSelect \/ \E t \in Tasks, p \in Proposals : ProposeForExecution(t, p) PROVE Tracked'
  <2>1. /\ UNCHANGED <<trade, broker, faults, held>> /\ "worker" \in Runners /\ pc["worker"] = "idle"
        /\ \A x \in Runners \ {"worker"} : pc'[x] = pc[x]
    BY <1>0, <1>9 DEF ExpireSelect, ProposeForExecution, LoopFree, TypeOK, Runners
  <2> QED
    BY <1>3, <2>1
<1>10. ASSUME NEW r \in Runners,
              DecideAbort(r) \/ RiskReject(r) \/ RiskApprove(r) \/ Lookup(r) \/ Refuse(r)
              \/ SubmitRefused(r) \/ (r = "app" /\ RejectCommit) \/ (r = "worker" /\ ExpireCommit)
       PROVE  Tracked'
  <2>1. /\ UNCHANGED <<trade, broker, faults>> /\ pc[r] # "record"
        /\ \A x \in Runners \ {r} : pc'[x] = pc[x] /\ held'[x] = held[x]
    BY <1>0, <1>10, ZenonT(60)
    DEF DecideAbort, RiskReject, RiskApprove, Lookup, Refuse, SubmitRefused, RejectCommit,
        ExpireCommit, Leave, Goto, TypeOK
  <2> QED
    BY <1>3, <2>1
<1>11. CASE UNCHANGED <<trade, broker, faults, pc, held>>
  BY <1>2, <1>11
<1> QED
  BY <1>1, <1>4, <1>5, <1>6, <1>7, <1>8, <1>9, <1>10, <1>11
  DEF Next, Propose, Operate, Advance, Venue, Fail, vars, StartTask, FinishTask, Age,
      ProposeForApproval, FlipKillSwitch, Reconnect, RejectFail, ExpireFail, Disconnect,
      CrashApp, CrashWorker, RecordFail, SubmitResent, SubmitUnanswered, HandleFail, Runners

(* As long as no crash, lost answer or failed commit has happened, a       *)
(* proposal never has two orders at Alpaca that are working or filled,     *)
(* however the two processes, the venue and the stream interleave.         *)
THEOREM OneOrder ==
  ASSUME "stopped" \notin BrokerEvents PROVE Spec => []OneOrderWithoutFaults
<1>1. Init => Tracked
  BY DEF Init, Tracked, Working
<1>2. IInv /\ IInv' /\ Tracked /\ [Next]_vars => Tracked'
  BY TrackedStep
<1>3. IInv /\ Tracked => OneOrderWithoutFaults
  BY AttendedOnce
<1> QED
  BY <1>1, <1>2, <1>3, Invariance, PTL DEF Spec
=============================================================================
