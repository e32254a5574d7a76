--------------------------- MODULE ProposalClaims ---------------------------
(***************************************************************************)
(* What the execution path promises about a proposal, without processes,   *)
(* queues, crashes or a venue.  Executing a proposal is a claim that one   *)
(* process holds at a time; it is taken only on a proposal that is neither *)
(* rejected nor live, records at most one order, and ends either in a live *)
(* trade or in nothing.  What Alpaca makes of the request is not its       *)
(* concern: "placed" is what the process has been told.                    *)
(***************************************************************************)
CONSTANT Proposals

VARIABLES
  phase,     \* "free", "claimed", "placed" (an order was returned) or "live"
  rejected   \* the proposals that have been rejected, for any reason

vars == <<phase, rejected>>

Init ==
  /\ phase = [p \in Proposals |-> "free"]
  /\ rejected = {}

Move(p, from, to) ==
  /\ phase[p] \in from
  /\ phase' = [phase EXCEPT ![p] = to]
  /\ UNCHANGED rejected

Claim(p)   == p \notin rejected /\ Move(p, {"free"}, "claimed")
Place(p)   == Move(p, {"claimed"}, "placed")
Confirm(p) == Move(p, {"placed"}, "live")
Abandon(p) == Move(p, {"claimed", "placed"}, "free")
Settle(p)  == Move(p, {"live"}, "free")

(* A rejection is for good, but does not undo a claim or a live trade.     *)
Reject == rejected \subseteq rejected' /\ rejected' \subseteq Proposals /\ UNCHANGED phase

Next ==
  \/ \E p \in Proposals : Claim(p) \/ Place(p) \/ Confirm(p) \/ Abandon(p) \/ Settle(p)
  \/ Reject

Spec == Init /\ [][Next]_vars
=============================================================================
