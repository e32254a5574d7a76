-------------------------- MODULE KillSwitchPanel --------------------------
(***************************************************************************)
(* The dashboard's system panel on top of TradingDay: the operator clicks  *)
(* on what the page showed when it was rendered, and the handler toggles   *)
(* the kill switch it finds.  The page does not refresh itself, and the    *)
(* handler runs in a thread of its own, so its read and its write are two  *)
(* steps.                                                                  *)
(***************************************************************************)
EXTENDS TradingDay

VARIABLES
  panel,   \* the page on the operator's screen shows the kill switch ON
  click    \* the toggle request between its read and its write

desk == <<panel, click>>

NoClick == [wants |-> "none", sets |-> FALSE]

PanelInit == Init /\ panel = FALSE /\ click = NoClick

(* GET /dashboard/system.                                                  *)
LoadPanel ==
  /\ panel' = Halted
  /\ UNCHANGED <<vars, click>>

(* The button says "Resume trading" when the page shows ON, and "Engage    *)
(* kill switch" otherwise; the handler decides by what it reads now.       *)
ToggleRead ==
  /\ click = NoClick
  /\ click' = [wants |-> IF panel THEN "resume" ELSE "engage", sets |-> ~Halted]
  /\ UNCHANGED <<vars, panel>>

(* The response is the panel rendered anew.                                *)
ToggleWrite ==
  /\ click # NoClick
  /\ IF click.sets THEN SetKill(NoExpiry) ELSE ClearKill
  /\ click' = NoClick /\ panel' = Halted'
  /\ OperatorActs
  /\ UNCHANGED <<now, loss, due, stage, seen>>

PanelNext ==
  \/ Next /\ UNCHANGED desk
  \/ LoadPanel \/ ToggleRead \/ ToggleWrite

PanelSpec == PanelInit /\ [][PanelNext]_<<vars, desk>>

(* The panel's button asks "Engage the kill switch and halt ALL trading?": *)
(* confirming it leaves the kill switch engaged.                           *)
EngageEngages ==
  [][click.wants = "engage" /\ click' = NoClick => kill' # Absent]_<<vars, desk>>
=============================================================================
