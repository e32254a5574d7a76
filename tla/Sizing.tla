------------------------------- MODULE Sizing -------------------------------
(***************************************************************************)
(* app/risk/sizing.py: how many shares, and between which stop and target. *)
(* Prices and equity are integers in hundredths of a cent, so that every   *)
(* percentage of a price in whole cents is exact; 0 stands for no level,   *)
(* which every band treats as it treats None.                              *)
(***************************************************************************)
EXTENDS Integers

Cent == 100
NoLevel == 0
Sides == {"buy", "sell"}

(* The percentages of sizing.py.                                           *)
MaxSingleTicker == 20
StopDistance    == 3
TargetDistance  == 5
MaxStopDistance == 15
MaxTargetDistance == 30

Distance(a, b) == IF a < b THEN b - a ELSE a - b
Lesser(a, b) == IF a < b THEN a ELSE b
NotNegative(n) == IF n < 0 THEN 0 ELSE n

(* Mutant of SizePosition: the position is not capped.                     *)
SizePositionUncapped(equity, entry, stop) ==
  IF Distance(entry, stop) = 0 \/ entry = 0 THEN 0
  ELSE NotNegative(equity \div (100 * Distance(entry, stop)))

(* Mutant of SizePosition: the whole 20% whatever the stop.                *)
SizePositionFull(equity, entry, stop) ==
  IF Distance(entry, stop) = 0 \/ entry = 0 THEN 0
  ELSE NotNegative(equity \div (5 * entry))

(* Mutant of SizePosition: without max(0, ...).                            *)
SizePositionSigned(equity, entry, stop) ==
  IF Distance(entry, stop) = 0 \/ entry = 0 THEN 0
  ELSE Lesser(equity \div (100 * Distance(entry, stop)), equity \div (5 * entry))

(* At most 1% of equity at risk between entry and stop, at most 20% of it  *)
(* in the position, rounded down.                                          *)
SizePosition(equity, entry, stop) ==
  IF Distance(entry, stop) = 0 \/ entry = 0 THEN 0
  ELSE NotNegative(Lesser(equity \div (100 * Distance(entry, stop)), equity \div (5 * entry)))

(* Decimal.quantize to cents of a price times pct/100: half to even.       *)
ToCents(price, pct) ==
  LET exact == price * pct
      unit  == 100 * Cent
      down  == exact \div unit
      rest  == exact % unit
  IN Cent * (IF 2 * rest < unit \/ (2 * rest = unit /\ down % 2 = 0) THEN down ELSE down + 1)

(* Mutant of StopInBand: the side is ignored.                              *)
StopInBandAsBuy(side, entry, stop) ==
  (100 - MaxStopDistance) * entry <= 100 * stop /\ stop < entry

(* Mutant of StopInBand: no limit on how far away the stop may be.         *)
StopInBandAnyDistance(side, entry, stop) ==
  IF side = "buy" THEN stop < entry ELSE entry < stop

(* The proposed stop is on its side of the entry, and at most 15% away.    *)
StopInBand(side, entry, stop) ==
  IF side = "buy" THEN (100 - MaxStopDistance) * entry <= 100 * stop /\ stop < entry
  ELSE entry < stop /\ 100 * stop <= (100 + MaxStopDistance) * entry

(* The proposed target is on its side of the entry, and at most 30% away.  *)
TargetInBand(side, entry, target) ==
  IF side = "buy" THEN entry < target /\ 100 * target <= (100 + MaxTargetDistance) * entry
  ELSE (100 - MaxTargetDistance) * entry <= 100 * target /\ target < entry

(* reconcile_bracket: a level out of its band is replaced by a fixed one.  *)
ReconcileStop(side, entry, stop) ==
  IF StopInBand(side, entry, stop) THEN stop
  ELSE ToCents(entry, IF side = "buy" THEN 100 - StopDistance ELSE 100 + StopDistance)

ReconcileTarget(side, entry, target) ==
  IF TargetInBand(side, entry, target) THEN target
  ELSE ToCents(entry, IF side = "buy" THEN 100 + TargetDistance ELSE 100 - TargetDistance)
=============================================================================
