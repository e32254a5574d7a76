------------------------- MODULE BracketOrderProofs -------------------------
(***************************************************************************)
(* Proofs about BracketOrder: the bounds on every order, for every set of  *)
(* prices, levels and equities.                                            *)
(***************************************************************************)
EXTENDS BracketOrder, TLAPS

-----------------------------------------------------------------------------
(* The pure functions.                                                     *)

(* Rounding down.                                                          *)
LEMMA Quotient ==
  ASSUME NEW a \in Int, NEW b \in Nat, b > 0
  PROVE  a \div b \in Int /\ (a \div b) * b <= a
OBVIOUS

(* Rounding down loses less than a unit: a quotient is the largest one.    *)
LEMMA LargestQuotient ==
  ASSUME NEW a \in Int, NEW b \in Nat, b > 0, NEW n \in Int
  PROVE  n <= a \div b <=> n * b <= a
<1>1. a \div b \in Int /\ (a \div b) * b <= a /\ a < (a \div b + 1) * b
  OBVIOUS
<1>2. PICK q \in Int : q = a \div b
  BY <1>1
<1>3. q * b <= a /\ a < (q + 1) * b
  BY <1>1, <1>2
<1>4. ASSUME n <= q PROVE n * b <= a
  <2>1. n * b <= q * b
    BY <1>4
  <2> QED
    BY <1>3, <2>1
<1>5. ASSUME q + 1 <= n PROVE a < n * b
  <2>1. (q + 1) * b <= n * b
    BY <1>5
  <2> QED
    BY <1>3, <2>1
<1> QED
  BY <1>2, <1>4, <1>5

(* A distance is a natural number, and zero only between equal prices.     *)
LEMMA DistanceFacts ==
  ASSUME NEW a \in Nat, NEW b \in Nat
  PROVE  /\ Distance(a, b) \in Nat
         /\ a # b => Distance(a, b) > 0
BY DEF Distance

(* A size is a natural number; when it is positive, it respects both the   *)
(* risk budget and the exposure cap.                                       *)
LEMMA SizeBounds ==
  ASSUME NEW eq \in Int, NEW en \in Nat, NEW st \in Nat
  PROVE  /\ SizePosition(eq, en, st) \in Nat
         /\ SizePosition(eq, en, st) > 0 =>
              /\ SizePosition(eq, en, st) * (100 * Distance(en, st)) <= eq
              /\ SizePosition(eq, en, st) * (5 * en) <= eq
<1> DEFINE d == Distance(en, st)
           r == eq \div (100 * d)
           x == eq \div (5 * en)
           q == SizePosition(eq, en, st)
<1>1. CASE d = 0 \/ en = 0
  BY <1>1 DEF SizePosition
<1>2. CASE ~(d = 0 \/ en = 0)
  <2>1. d \in Nat /\ d > 0
    BY <1>2, DistanceFacts
  <2>2. 100 * d \in Nat /\ 100 * d > 0 /\ 5 * en \in Nat /\ 5 * en > 0
    BY <1>2, <2>1
  <2>3. r \in Int /\ r * (100 * d) <= eq
    BY <2>2, Quotient
  <2>4. x \in Int /\ x * (5 * en) <= eq
    BY <2>2, Quotient
  <2>5. q = NotNegative(Lesser(r, x))
    BY <1>2 DEF SizePosition
  <2> HIDE DEF d, r, x, q
  <2>6. q \in Nat /\ (q > 0 => q <= r /\ q <= x)
    BY <2>3, <2>4, <2>5 DEF NotNegative, Lesser
  <2>7. ASSUME NEW m \in Int, NEW k \in Int, NEW n \in Nat, m <= k, k * n <= eq
        PROVE  m * n <= eq
    <3>1. m * n <= k * n
      BY <2>7
    <3> QED BY <3>1, <2>7
  <2>8. ASSUME q > 0 PROVE q * (100 * d) <= eq
    BY <2>2, <2>3, <2>6, <2>7, <2>8
  <2>9. ASSUME q > 0 PROVE q * (5 * en) <= eq
    BY <2>2, <2>4, <2>6, <2>7, <2>9
  <2> QED BY <2>6, <2>8, <2>9 DEF d, q
<1> QED BY <1>1, <1>2

(* size_position returns the largest number of shares that risks no more   *)
(* than 1% of equity and takes no more than 20% of it, or none where even  *)
(* one share does: for every equity, entry and stop.                       *)
THEOREM SizeIsLargest ==
  ASSUME NEW eq \in Int, NEW en \in Nat \ {0}, NEW st \in Nat \ {en}, NEW n \in Nat \ {0}
  PROVE  n <= SizePosition(eq, en, st) <=>
           n * (100 * Distance(en, st)) <= eq /\ n * (5 * en) <= eq
<1> DEFINE d == Distance(en, st)
<1>1. d \in Nat /\ d > 0
  BY DistanceFacts
<1>2. PICK r \in Int : r = eq \div (100 * d)
  BY <1>1
<1>3. PICK x \in Int : x = eq \div (5 * en)
  OBVIOUS
<1>4. SizePosition(eq, en, st) = NotNegative(Lesser(r, x))
  BY <1>1, <1>2, <1>3 DEF SizePosition
<1> HIDE DEF d
<1>5. n <= NotNegative(Lesser(r, x)) <=> n <= r /\ n <= x
  BY DEF NotNegative, Lesser
<1>6. n <= r <=> n * (100 * d) <= eq
  <2>1. 100 * d \in Nat /\ 100 * d > 0
    BY <1>1
  <2> QED
    BY <1>2, <2>1, LargestQuotient
<1>7. n <= x <=> n * (5 * en) <= eq
  <2>1. 5 * en \in Nat /\ 5 * en > 0
    OBVIOUS
  <2> QED
    BY <1>3, <2>1, LargestQuotient
<1> QED
  BY <1>4, <1>5, <1>6, <1>7 DEF d

(* Rounding to cents moves a value by half a cent at most.                 *)
LEMMA Rounding ==
  ASSUME NEW price \in Nat, NEW pct \in Nat
  PROVE  /\ ToCents(price, pct) \in Nat
         /\ 100 * ToCents(price, pct) <= price * pct + 5000
         /\ price * pct <= 100 * ToCents(price, pct) + 5000
<1> DEFINE e == price * pct
           down == e \div 10000
           rest == e % 10000
<1>1. e \in Nat
  OBVIOUS
<1>2. down \in Nat /\ rest \in 0..9999 /\ e = 10000 * down + rest
  BY <1>1
<1>3. ToCents(price, pct) = 100 * (IF 2 * rest < 10000 \/ (2 * rest = 10000 /\ down % 2 = 0)
                                   THEN down ELSE down + 1)
  BY DEF ToCents, Cent
<1> HIDE DEF e, down, rest
<1>4. CASE 2 * rest < 10000 \/ (2 * rest = 10000 /\ down % 2 = 0)
  <2>1. ToCents(price, pct) = 100 * down
    BY <1>3, <1>4
  <2>2. 2 * rest <= 10000
    BY <1>2, <1>4
  <2>3. e <= 100 * (100 * down) + 5000 /\ 100 * (100 * down) <= e + 5000
    BY <1>2, <2>2
  <2> QED BY <1>2, <2>1, <2>3 DEF e
<1>5. CASE ~(2 * rest < 10000 \/ (2 * rest = 10000 /\ down % 2 = 0))
  <2>1. ToCents(price, pct) = 100 * (down + 1)
    BY <1>3, <1>5
  <2>2. 2 * rest >= 10000
    BY <1>2, <1>5
  <2>3. e <= 100 * (100 * (down + 1)) + 5000 /\ 100 * (100 * (down + 1)) <= e + 5000
    BY <1>2, <2>2
  <2> QED BY <1>2, <2>1, <2>3 DEF e
<1> QED BY <1>4, <1>5

(* Where the stop of the order lies: on its side of the entry, and either  *)
(* where it was proposed or at 3%, rounded.                                *)
LEMMA StopPlaced ==
  ASSUME NEW en \in Nat, NEW st \in Nat, NEW sd \in Sides, en >= 2500
  PROVE  LET s == ReconcileStop(sd, en, st)
         IN /\ s \in Nat
            /\ IF sd = "buy" THEN s < en ELSE en < s
            /\ s # st => 100 * Distance(en, s) <= 3 * en + 5000
<1> DEFINE s == ReconcileStop(sd, en, st)
<1>1. CASE StopInBand(sd, en, st)
  <2>1. s = st
    BY <1>1 DEF ReconcileStop
  <2>2. IF sd = "buy" THEN st < en ELSE en < st
    BY <1>1 DEF StopInBand
  <2> QED BY <2>1, <2>2
<1>2. CASE ~StopInBand(sd, en, st) /\ sd = "buy"
  <2>1. s = ToCents(en, 97)
    BY <1>2 DEF ReconcileStop, StopDistance
  <2>2. s \in Nat /\ 100 * s <= 97 * en + 5000 /\ 97 * en <= 100 * s + 5000
    BY <2>1, Rounding
  <2> HIDE DEF s
  <2>3. s < en
    BY <2>2
  <2>4. 100 * Distance(en, s) <= 3 * en + 5000
    BY <2>2, <2>3 DEF Distance
  <2> QED BY <1>2, <2>2, <2>3, <2>4 DEF s
<1>3. CASE ~StopInBand(sd, en, st) /\ sd = "sell"
  <2>1. s = ToCents(en, 103)
    BY <1>3 DEF ReconcileStop, StopDistance
  <2>2. s \in Nat /\ 100 * s <= 103 * en + 5000 /\ 103 * en <= 100 * s + 5000
    BY <2>1, Rounding
  <2> HIDE DEF s
  <2>3. en < s
    BY <2>2
  <2>4. 100 * Distance(en, s) <= 3 * en + 5000
    BY <2>2, <2>3 DEF Distance
  <2> QED BY <1>3, <2>2, <2>3, <2>4 DEF s
<1> QED BY <1>1, <1>2, <1>3 DEF Sides

(* The reconciled target is a price on its side of the entry.              *)
LEMMA TargetPlaced ==
  ASSUME NEW en \in Nat, NEW tg \in Nat, NEW sd \in Sides, en >= 2500
  PROVE  LET t == ReconcileTarget(sd, en, tg)
         IN t \in Nat /\ IF sd = "buy" THEN en < t ELSE t < en
<1> DEFINE t == ReconcileTarget(sd, en, tg)
<1>1. CASE TargetInBand(sd, en, tg)
  BY <1>1 DEF ReconcileTarget, TargetInBand
<1>2. CASE ~TargetInBand(sd, en, tg) /\ sd = "buy"
  <2>1. t = ToCents(en, 105)
    BY <1>2 DEF ReconcileTarget, TargetDistance
  <2>2. t \in Nat /\ 105 * en <= 100 * t + 5000
    BY <2>1, Rounding
  <2> QED BY <1>2, <2>2
<1>3. CASE ~TargetInBand(sd, en, tg) /\ sd = "sell"
  <2>1. t = ToCents(en, 95)
    BY <1>3 DEF ReconcileTarget, TargetDistance
  <2>2. t \in Nat /\ 100 * t <= 95 * en + 5000
    BY <2>1, Rounding
  <2> QED BY <1>3, <2>2
<1> QED BY <1>1, <1>2, <1>3 DEF Sides

(* How far the reconciled stop may be from the entry.                      *)
LEMMA StopInReach ==
  ASSUME NEW en \in Nat, NEW st \in Nat, NEW sd \in Sides, en >= 2500
  PROVE  100 * Distance(en, ReconcileStop(sd, en, st)) <= MaxStopDistance * en
<1> DEFINE s == ReconcileStop(sd, en, st)
<1>1. CASE StopInBand(sd, en, st)
  <2>1. s = st
    BY <1>1 DEF ReconcileStop
  <2>2. 100 * Distance(en, st) <= 15 * en
    BY <1>1 DEF StopInBand, Distance, MaxStopDistance
  <2> QED
    BY <2>1, <2>2 DEF MaxStopDistance
<1>2. CASE s # st
  <2>1. s \in Nat /\ 100 * Distance(en, s) <= 3 * en + 5000
    BY <1>2, StopPlaced
  <2>2. Distance(en, s) \in Nat
    BY <2>1, DistanceFacts
  <2> QED
    BY <2>1, <2>2 DEF MaxStopDistance
<1>3. ~StopInBand(sd, en, st) => s # st
  <2> SUFFICES ASSUME ~StopInBand(sd, en, st), s = st PROVE FALSE
    OBVIOUS
  <2>1. CASE sd = "buy"
    <3>1. st = ToCents(en, 97)
      BY <2>1 DEF ReconcileStop, StopDistance
    <3>2. 100 * st <= 97 * en + 5000 /\ 97 * en <= 100 * st + 5000
      BY <3>1, Rounding
    <3> QED
      BY <2>1, <3>2 DEF StopInBand, MaxStopDistance
  <2>2. CASE sd = "sell"
    <3>1. st = ToCents(en, 103)
      BY <2>2 DEF ReconcileStop, StopDistance
    <3>2. 100 * st <= 103 * en + 5000 /\ 103 * en <= 100 * st + 5000
      BY <3>1, Rounding
    <3> QED
      BY <2>2, <3>2 DEF StopInBand, MaxStopDistance
  <2> QED
    BY <2>1, <2>2 DEF Sides
<1> QED
  BY <1>1, <1>2, <1>3

(* How far the reconciled target may be from the entry.                    *)
LEMMA TargetInReach ==
  ASSUME NEW en \in Nat, NEW tg \in Nat, NEW sd \in Sides, en >= 2500
  PROVE  100 * Distance(en, ReconcileTarget(sd, en, tg)) <= MaxTargetDistance * en
<1> DEFINE t == ReconcileTarget(sd, en, tg)
<1>1. CASE TargetInBand(sd, en, tg)
  <2>1. t = tg
    BY <1>1 DEF ReconcileTarget
  <2>2. 100 * Distance(en, tg) <= 30 * en
    BY <1>1 DEF TargetInBand, Distance, MaxTargetDistance
  <2> QED
    BY <2>1, <2>2 DEF MaxTargetDistance
<1>2. CASE ~TargetInBand(sd, en, tg) /\ sd = "buy"
  <2>1. t = ToCents(en, 105)
    BY <1>2 DEF ReconcileTarget, TargetDistance
  <2>2. t \in Nat /\ 100 * t <= 105 * en + 5000 /\ 105 * en <= 100 * t + 5000
    BY <2>1, Rounding
  <2> HIDE DEF t
  <2>3. 100 * Distance(en, t) <= 30 * en
    BY <2>2 DEF Distance
  <2> QED
    BY <2>3 DEF t, MaxTargetDistance
<1>3. CASE ~TargetInBand(sd, en, tg) /\ sd = "sell"
  <2>1. t = ToCents(en, 95)
    BY <1>3 DEF ReconcileTarget, TargetDistance
  <2>2. t \in Nat /\ 100 * t <= 95 * en + 5000 /\ 95 * en <= 100 * t + 5000
    BY <2>1, Rounding
  <2> HIDE DEF t
  <2>3. 100 * Distance(en, t) <= 30 * en
    BY <2>2 DEF Distance
  <2> QED
    BY <2>3 DEF t, MaxTargetDistance
<1> QED
  BY <1>1, <1>2, <1>3 DEF Sides

(* Reconciling natural levels gives natural levels.                        *)
LEMMA LevelsNat ==
  ASSUME NEW en \in Nat, NEW level \in Nat, NEW sd \in Sides
  PROVE  ReconcileStop(sd, en, level) \in Nat /\ ReconcileTarget(sd, en, level) \in Nat
<1>1. \A pct \in Nat : ToCents(en, pct) \in Nat
  BY Rounding
<1>2. ToCents(en, 97) \in Nat /\ ToCents(en, 103) \in Nat
  BY <1>1
<1>3. ToCents(en, 105) \in Nat /\ ToCents(en, 95) \in Nat
  BY <1>1
<1>4. ReconcileStop(sd, en, level) \in {level, ToCents(en, 97), ToCents(en, 103)}
  BY DEF ReconcileStop, StopDistance
<1>5. ReconcileTarget(sd, en, level) \in {level, ToCents(en, 105), ToCents(en, 95)}
  BY DEF ReconcileTarget, TargetDistance
<1> QED BY <1>2, <1>3, <1>4, <1>5

(* Sized with one stop, sent with another: the risk stays within 1%.       *)
LEMMA RiskOfTheOrder ==
  ASSUME NEW eq \in Int, NEW en \in Nat, NEW st \in Nat, NEW sd \in Sides, en >= 2500,
         SizePosition(eq, en, st) > 0
  PROVE  100 * SizePosition(eq, en, st) * Distance(en, ReconcileStop(sd, en, st)) <= eq
<1> DEFINE q == SizePosition(eq, en, st)
           s == ReconcileStop(sd, en, st)
           d == Distance(en, s)
<1>1. q \in Nat /\ q > 0 /\ q * (100 * Distance(en, st)) <= eq /\ q * (5 * en) <= eq
  BY SizeBounds
<1>2. s \in Nat /\ d \in Nat /\ (s # st => 100 * d <= 3 * en + 5000)
  BY StopPlaced, DistanceFacts
<1> HIDE DEF q, s
<1>3. CASE s = st
  <2>1. q * (100 * d) <= eq
    BY <1>1, <1>3
  <2> QED BY <1>1, <1>2, <2>1 DEF q, s
<1>4. CASE s # st
  <2> HIDE DEF d
  <2>1. 100 * d <= 5 * en
    BY <1>2, <1>4
  <2>2. q * (100 * d) <= q * (5 * en)
    BY <1>1, <1>2, <2>1
  <2>3. q * (100 * d) <= eq
    BY <1>1, <1>2, <2>2
  <2> QED BY <1>1, <1>2, <2>3 DEF q, d, s
<1> QED BY <1>3, <1>4

-----------------------------------------------------------------------------
(* The path of a proposal.                                                 *)

(* What the steps in between carry: a sized order has its size.            *)
Inv ==
  /\ TypeOK
  /\ step = "sized" => qty = SizePosition(equity, entry, stop) /\ qty > 0
  /\ step = "sent" =>
       /\ qty = SizePosition(equity, entry, stop) /\ qty > 0
       /\ order.stop = ReconcileStop(side, entry, stop)
       /\ order.target = ReconcileTarget(side, entry, target)

(* Before the first proposal the invariant holds.                          *)
LEMMA InvInit == Init => Inv
BY DEF Init, Inv, TypeOK, Steps, Sides, NoLevel, NoOrder

(* Every step of a proposal's way to its order keeps the invariant.        *)
LEMMA InvNext == Inv /\ [Next]_vars => Inv'
<1> SUFFICES ASSUME Inv, [Next]_vars PROVE Inv'
  OBVIOUS
<1> USE PriceAssumption, LevelAssumption, EquityAssumption DEF Inv, TypeOK, Steps, Sides
<1>1. CASE ProposeLLM
  BY <1>1 DEF ProposeLLM, NoLevel
<1>2. CASE ProposeTrend
  BY <1>2 DEF ProposeTrend, NoLevel
<1>3. CASE ProposeReversion
  <2>1. PICK close \in Prices, sma \in Prices, low \in Prices :
          entry' = close /\ target' = sma /\ stop' = (98 * low) \div 100
    BY <1>3 DEF ProposeReversion
  <2>2. close \in Nat /\ sma \in Nat /\ low \in Nat
    OBVIOUS
  <2>3. stop' \in Nat
    BY <2>1, <2>2
  <2> QED BY <1>3, <2>1, <2>2, <2>3 DEF ProposeReversion
<1>4. CASE Quote
  BY <1>4 DEF Quote
<1>5. CASE QuoteFails
  <2>1. entry' \in Nat
    BY <1>5 DEF QuoteFails
  <2> QED BY <1>5, <2>1 DEF QuoteFails
<1>6. CASE Size
  <2>1. equity' \in Int /\ qty' \in Nat
    BY <1>6, SizeBounds DEF Size
  <2> QED BY <1>6, <2>1 DEF Size
<1>7. CASE Send
  <2>1. order' \in [stop : Nat, target : Nat]
    BY <1>7, LevelsNat DEF Send
  <2> QED BY <1>7, <2>1 DEF Send
<1>8. CASE Finish
  BY <1>8 DEF Finish, NoLevel, NoOrder
<1>9. CASE UNCHANGED vars
  BY <1>9 DEF vars
<1> QED BY <1>1, <1>2, <1>3, <1>4, <1>5, <1>6, <1>7, <1>8, <1>9 DEF Next

(* The inductive invariant behind the theorems below.                      *)
LEMMA Invariance == Spec => []Inv
BY InvInit, InvNext, PTL DEF Spec

(* The types, for all prices, levels and equities.                         *)
THEOREM OrderTypes == Spec => []TypeOK
<1>1. Inv => TypeOK
  BY DEF Inv
<1> QED BY Invariance, <1>1, PTL

(* reconcile_bracket and its rounding always produce a valid bracket.      *)
THEOREM ValidBrackets == Spec => []BracketsEntry
<1>1. Inv => BracketsEntry
  BY StopPlaced, TargetPlaced, PriceAssumption DEF Inv, TypeOK, BracketsEntry, Cent
<1> QED BY Invariance, <1>1, PTL

(* Sent levels keep to the bands of sizing.py, also where a level outside  *)
(* them was replaced and the replacement rounded.                          *)
THEOREM LevelsWithinBands == Spec => []WithinBands
<1>1. Inv => WithinBands
  BY StopInReach, TargetInReach, PriceAssumption DEF Inv, TypeOK, WithinBands, Cent
<1> QED BY Invariance, <1>1, PTL

(* No order puts more than 1% of equity at risk between entry and stop.    *)
THEOREM OnePercentAtRisk == Spec => []RiskBounded
<1>1. Inv => RiskBounded
  <2> SUFFICES ASSUME Inv, step = "sent", entry >= PriceFloor
               PROVE  100 * qty * Distance(entry, order.stop) <= equity
    BY DEF RiskBounded
  <2>1. entry \in Nat /\ stop \in Nat /\ equity \in Int /\ side \in Sides /\ entry >= 2500
    BY PriceAssumption DEF Inv, TypeOK, Cent
  <2> QED BY <2>1, RiskOfTheOrder DEF Inv
<1> QED BY Invariance, <1>1, PTL

(* No order takes more than 20% of equity at its entry price.              *)
THEOREM TwentyPercentPerOrder == Spec => []ExposureBounded
<1>1. Inv => ExposureBounded
  <2> SUFFICES ASSUME Inv, step = "sent" PROVE 5 * qty * entry <= equity
    BY DEF ExposureBounded
  <2>1. entry \in Nat /\ stop \in Nat /\ equity \in Int /\ qty \in Nat
    BY DEF Inv, TypeOK
  <2>2. qty * (5 * entry) <= equity
    BY <2>1, SizeBounds DEF Inv
  <2>3. 5 * qty * entry = qty * (5 * entry)
    BY <2>1
  <2> QED BY <2>2, <2>3
<1> QED BY Invariance, <1>1, PTL
=============================================================================
