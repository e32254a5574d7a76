-------------------------- MODULE PortfolioProofs --------------------------
(***************************************************************************)
(* The portfolio for every universe of tickers, prices, stops and          *)
(* allocations.  Its types: in particular no order is ever open for        *)
(* nothing, because an approved size is at least one share.  Sums over     *)
(* finite sets, by induction on the subsets of a set.  And the limits of   *)
(* a ticker and of a sector, from the inductive invariant IInv: what was   *)
(* never sold is not short, in the account or in any state read from it.   *)
(***************************************************************************)
EXTENDS Portfolio, FiniteSetTheorems, WellFoundedInduction, TLAPS

(* A size is a whole number of shares, whatever the entry and the stop.    *)
LEMMA SizeType ==
  ASSUME NEW entry \in Nat, NEW stop \in Int
  PROVE  SizePosition(Equity, entry, stop) \in Nat
<1>1. CASE Distance(entry, stop) = 0 \/ entry = 0
  BY <1>1 DEF SizePosition
<1>2. CASE ~(Distance(entry, stop) = 0 \/ entry = 0)
  <2>1. 100 * Distance(entry, stop) \in Nat \ {0} /\ 5 * entry \in Nat \ {0}
    BY <1>2 DEF Distance
  <2>2. Equity \div (100 * Distance(entry, stop)) \in Int /\ Equity \div (5 * entry) \in Int
    BY <2>1, PortfolioAssumption
  <2>3. SizePosition(Equity, entry, stop)
          = NotNegative(Lesser(Equity \div (100 * Distance(entry, stop)), Equity \div (5 * entry)))
    BY <1>2 DEF SizePosition
  <2>4. \A m, n \in Int : NotNegative(Lesser(m, n)) \in Nat
    BY DEF NotNegative, Lesser
  <2> QED
    BY <2>2, <2>3, <2>4
<1> QED
  BY <1>1, <1>2

(* Entry and stop of a proposal are prices.                                *)
LEMMA TermsType ==
  ASSUME NEW r \in Runners, NEW t \in Tickers, NEW terms \in Terms(r, t)
  PROVE  terms.entry \in Nat /\ terms.stop \in Int
<1>1. CASE terms \in Priced(t)
  <2>1. PICK distance \in Stops : terms.entry = Price[t] /\ terms.stop = Price[t] - distance
    BY <1>1 DEF Priced
  <2>2. Price[t] \in Nat /\ distance \in Nat
    BY PortfolioAssumption
  <2> QED
    BY <2>1, <2>2
<1>2. CASE terms \in Unpriced
  <2>1. PICK level \in Levels : terms.entry = (105 * level) \div 100 /\ terms.stop = level
    BY <1>2 DEF Unpriced
  <2>2. level \in Nat
    BY PortfolioAssumption
  <2> QED
    BY <2>1, <2>2
<1> QED
  BY <1>1, <1>2 DEF Terms

(* What an order does with one choice of side, entry and stop.             *)
Sends(r, t, side, entry, qty) ==
  /\ Approved(held[r], t, sleeve[r], qty, entry)
  /\ open' = [open EXCEPT ![sent'] = [ticker |-> t, side |-> side, left |-> qty]]
  /\ IF side = "buy" THEN Note(held[r], t, qty, entry)
     ELSE sold' = sold \cup {t} /\ UNCHANGED <<missed, discount>>

(* Such a choice.                                                          *)
LEMMA OrderSends ==
  ASSUME NEW r \in Runners, NEW t \in Tickers, Order(r, t)
  PROVE  \E side \in SidesOf(sleeve[r]), entry \in Nat, qty \in Nat : Sends(r, t, side, entry, qty)
<1>1. PICK side \in SidesOf(sleeve[r]), terms \in Terms(r, t) :
        Sends(r, t, side, terms.entry, SizePosition(Equity, terms.entry, terms.stop))
  BY DEF Order, Sends
<1>2. terms.entry \in Nat /\ SizePosition(Equity, terms.entry, terms.stop) \in Nat
  BY TermsType, SizeType
<1> QED
  BY <1>1, <1>2

(* The form of an entry of the book of open orders.                        *)
Book == [ticker : Tickers \cup {"none"}, side : Sides, left : Nat]

(* A runner that has decided has one proposal less.                        *)
LEMMA DecidedType ==
  ASSUME TypeOK, NEW r \in Runners, NEW t \in Tickers, Decided(r, t)
  PROVE  /\ held' \in [Runners -> [Tickers -> Int]]
         /\ todo' \in [Runners -> SUBSET Tickers]
         /\ sleeve' \in [Runners -> Sleeves]
<1>1. todo' \in [Runners -> SUBSET Tickers]
  BY DEF Decided, TypeOK
<1>2. CASE todo[r] = {t}
  <2>1. Nothing \in [Tickers -> Int] /\ "discretionary" \in Sleeves
    BY DEF Nothing, Sleeves
  <2>2. held' = [held EXCEPT ![r] = Nothing] /\ sleeve' = [sleeve EXCEPT ![r] = "discretionary"]
    BY <1>2 DEF Decided
  <2> QED
    BY <1>1, <2>1, <2>2 DEF TypeOK
<1>3. CASE todo[r] # {t}
  BY <1>1, <1>3 DEF Decided, TypeOK
<1> QED
  BY <1>2, <1>3

(* At its price an order is worth no more than at its entry, but for the   *)
(* gap from a lower entry.                                                 *)
LEMMA PriceGap ==
  ASSUME NEW t \in Tickers, NEW qty \in Nat, NEW entry \in Nat
  PROVE  /\ qty * NotNegative(Price[t] - entry) \in Nat
         /\ qty * Price[t] - qty * NotNegative(Price[t] - entry) <= qty * entry
<1>1. PICK p \in Nat : p = Price[t]
  BY PortfolioAssumption
<1>2. CASE p < entry
  <2>1. NotNegative(p - entry) = 0
    BY <1>2 DEF NotNegative
  <2>2. PICK more \in Nat : entry = p + more
    <3>1. entry - p \in Nat /\ entry = p + (entry - p)
      BY <1>2
    <3> QED
      BY <3>1
  <2>3. qty * (p + more) = qty * p + qty * more /\ qty * more \in Nat /\ qty * p \in Nat
    OBVIOUS
  <2>4. qty * entry = qty * p + qty * more
    BY <2>2, <2>3
  <2>5. qty * 0 = 0
    OBVIOUS
  <2> QED
    BY <1>1, <2>1, <2>3, <2>4, <2>5
<1>3. CASE ~(p < entry)
  <2>1. PICK gap \in Nat : gap = p - entry /\ p = entry + gap
    BY <1>3
  <2>2. NotNegative(p - entry) = gap
    BY <2>1 DEF NotNegative
  <2>3. qty * (entry + gap) = qty * entry + qty * gap /\ qty * gap \in Nat /\ qty * entry \in Nat
    OBVIOUS
  <2>4. qty * p = qty * entry + qty * gap
    BY <2>1, <2>3
  <2> QED
    BY <1>1, <2>2, <2>3, <2>4
<1> QED
  BY <1>2, <1>3

(* Sending an order, which must buy or sell at least a share.              *)
LEMMA OrderType ==
  ASSUME TypeOK, NEW r \in Runners, NEW t \in Tickers, Order(r, t)
  PROVE  TypeOK'
<1>1. PICK side \in SidesOf(sleeve[r]), entry \in Nat, qty \in Nat : Sends(r, t, side, entry, qty)
  BY OrderSends
<1>3. qty >= 1
  BY <1>1 DEF Sends, Approved
<1>4. side \in Sides
  BY PortfolioAssumption DEF SidesOf, Sides
<1>5. sent' \in 0..MaxOrders /\ sent' \in Orders
  BY PortfolioAssumption DEF Order, TypeOK, Orders
<1>6. open' = [open EXCEPT ![sent'] = [ticker |-> t, side |-> side, left |-> qty]]
  BY <1>1 DEF Sends
<1>7. open' \in [Orders -> Book]
  BY <1>4, <1>5, <1>6 DEF TypeOK, Book
<1>8. \A o \in Orders : open'[o] # Free => open'[o].ticker \in Tickers /\ open'[o].left > 0
  BY <1>3, <1>5, <1>6 DEF TypeOK
<1>9. sold' \subseteq Tickers
  BY <1>1 DEF Sends, Note, TypeOK
<1>10. missed' \in [Tickers -> Nat]
  <2>1. missed' = missed \/ missed' = [missed EXCEPT ![t] = @ + 1]
    BY <1>1 DEF Sends, Note
  <2>2. missed \in [Tickers -> Nat] /\ missed[t] + 1 \in Nat
    BY DEF TypeOK
  <2> QED
    BY <2>1, <2>2
<1>11. discount' \in [Tickers -> Nat]
  <2>1. PICK extra : extra = qty * NotNegative(Price[t] - entry)
    OBVIOUS
  <2>2. extra \in Nat
    BY <2>1, PriceGap
  <2>3. discount' = discount \/ discount' = [discount EXCEPT ![t] = @ + extra]
    BY <1>1, <2>1 DEF Sends, Note
  <2>4. discount \in [Tickers -> Nat] /\ discount[t] + extra \in Nat
    BY <2>2 DEF TypeOK
  <2> QED
    BY <2>3, <2>4
<1>12. /\ shares' \in [Tickers -> Int]
       /\ held' \in [Runners -> [Tickers -> Int]]
       /\ todo' \in [Runners -> SUBSET Tickers]
       /\ sleeve' \in [Runners -> Sleeves]
  BY DecidedType DEF Order, TypeOK
<1> QED
  BY <1>5, <1>7, <1>8, <1>9, <1>10, <1>11, <1>12 DEF TypeOK, Book

(* A fill moves shares by as many as it takes from the order.              *)
LEMMA FillType == ASSUME TypeOK, NEW o \in Orders, Fill(o) PROVE TypeOK'
<1>1. PICK n \in 1..open[o].left :
        /\ shares' = [shares EXCEPT ![open[o].ticker] = @ + Signed(open[o].side, n)]
        /\ open' = [open EXCEPT ![o] = Filled(@, n)]
  BY DEF Fill
<1>2. PICK order \in Book : order = open[o] /\ order.ticker \in Tickers
  BY DEF Fill, TypeOK, Book
<1>3. n \in Int /\ (n = order.left \/ order.left - n \in Nat \ {0})
  BY <1>1, <1>2 DEF Book
<1>4. shares' \in [Tickers -> Int]
  <2>1. Signed(open[o].side, n) \in Int
    BY <1>3 DEF Signed
  <2> QED
    BY <1>1, <1>2, <2>1 DEF TypeOK
<1>5. PICK rest : rest = Filled(order, n)
  OBVIOUS
<1>6. rest \in Book /\ (rest # Free => rest.ticker \in Tickers /\ rest.left > 0)
  <2>1. CASE n = order.left
    BY <1>5, <2>1 DEF Filled, Free, Book, Sides
  <2>2. CASE n # order.left
    <3>1. rest = [order EXCEPT !.left = @ - n]
      BY <1>5, <2>2 DEF Filled
    <3>2. rest = [ticker |-> order.ticker, side |-> order.side, left |-> order.left - n]
      BY <3>1 DEF Book
    <3> QED
      BY <1>2, <1>3, <2>2, <3>2 DEF Book
  <2> QED
    BY <2>1, <2>2
<1>7. open' = [open EXCEPT ![o] = rest]
  BY <1>1, <1>2, <1>5
<1>8. open' \in [Orders -> Book]
  BY <1>6, <1>7 DEF TypeOK, Book
<1>9. \A x \in Orders : open'[x] # Free => open'[x].ticker \in Tickers /\ open'[x].left > 0
  BY <1>6, <1>7 DEF TypeOK
<1> QED
  BY <1>4, <1>8, <1>9 DEF Fill, TypeOK, Book, history

(* Every step keeps the types.                                             *)
LEMMA TypeStep == ASSUME TypeOK, [Next]_vars PROVE TypeOK'
<1>1. CASE UNCHANGED vars
  BY <1>1 DEF vars, TypeOK, history
<1>2. ASSUME NEW r \in Runners, NEW tickers \in SUBSET Tickers, NEW name \in Sleeves,
             Begin(r, tickers, name)
      PROVE  TypeOK'
  BY <1>2 DEF Begin, TypeOK, history
<1>3. ASSUME NEW r \in Runners, Run(r) PROVE TypeOK'
  <2>1. CASE r = "worker" /\ BeginTrend
    BY <1>2, <2>1 DEF BeginTrend, Runners, Sleeves, Tickers
  <2>2. CASE r = "worker" /\ BeginReversion
    BY <1>2, <2>2 DEF BeginReversion, Runners, Sleeves, Tickers
  <2>3. CASE BeginProposal(r)
    BY <1>2, <1>3, <2>3 DEF BeginProposal, Sleeves, Tickers
  <2>4. ASSUME NEW t \in Tickers, Refuse(r, t) PROVE TypeOK'
    BY <2>4, DecidedType DEF Refuse, TypeOK, history
  <2> QED
    BY <1>3, <2>1, <2>2, <2>3, <2>4, OrderType DEF Run
<1>4. ASSUME NEW o \in Orders, Cancel(o) PROVE TypeOK'
  <2>1. open' \in [Orders -> Book]
    BY <1>4 DEF Cancel, TypeOK, Free, Book, Sides
  <2>2. \A x \in Orders : open'[x] # Free => open'[x].ticker \in Tickers /\ open'[x].left > 0
    BY <1>4 DEF Cancel, TypeOK
  <2> QED
    BY <1>4, <2>1, <2>2 DEF Cancel, TypeOK, Book, history
<1>5. ASSUME NEW t \in Tickers, Close(t) PROVE TypeOK'
  BY <1>5 DEF Close, TypeOK, history
<1> QED
  BY <1>1, <1>3, <1>4, <1>5, FillType DEF Next

(* Positions, orders and runners keep their types; an open order is one    *)
(* for at least a share of a ticker of the universe.                       *)
THEOREM TypeCorrect == Spec => []TypeOK
<1>1. Init => TypeOK
  BY PortfolioAssumption DEF Init, TypeOK, Nothing, Free, Orders, Sides, Sleeves, Runners
<1>2. TypeOK /\ [Next]_vars => TypeOK'
  BY TypeStep
<1> QED
  BY <1>1, <1>2, PTL DEF Spec

-----------------------------------------------------------------------------
(* Sums over finite sets, for any function.                               *)

(* A set of numbers with 0 that is closed under + 1 has them all.          *)
LEMMA NumberInduction ==
  ASSUME NEW G \in SUBSET Nat, 0 \in G, \A n \in G : n + 1 \in G
  PROVE  G = Nat
<1> SUFFICES ASSUME Nat \ G # {} PROVE FALSE
  OBVIOUS
<1>1. PICK n \in Nat \ G : \A m \in Nat \ G : ~(<<m, n>> \in OpToRel(<, Nat))
  <2>1. IsWellFoundedOn(OpToRel(<, Nat), Nat)
    BY NatLessThanWellFounded
  <2> QED
    BY <2>1, WFMin
<1>2. \A m \in Nat \ G : ~(m < n)
  BY <1>1 DEF OpToRel
<1>3. n # 0 /\ n - 1 \in Nat /\ n - 1 < n
  OBVIOUS
<1>4. n - 1 \in G
  BY <1>2, <1>3
<1>5. (n - 1) + 1 \in G
  BY <1>4
<1> QED
  BY <1>5

(* A family of subsets of a finite set that has the empty set, and each    *)
(* set that is one element away from members only, has them all.           *)
LEMMA SubsetInduction ==
  ASSUME NEW S, IsFiniteSet(S), NEW G \in SUBSET SUBSET S, {} \in G,
         \A T \in SUBSET S : T # {} /\ (\A x \in T : T \ {x} \in G) => T \in G
  PROVE  S \in G
<1> SUFFICES ASSUME S \notin G PROVE FALSE
  OBVIOUS
<1> DEFINE Bad == (SUBSET S) \ G
<1>1. Bad \subseteq FiniteSubsetsOf(S) /\ Bad # {}
  BY FS_Subset DEF FiniteSubsetsOf
<1>2. PICK T \in Bad : \A U \in Bad : ~(<<U, T>> \in StrictSubsetOrdering(S))
  <2>1. IsWellFoundedOn(StrictSubsetOrdering(S), FiniteSubsetsOf(S))
    BY FS_StrictSubsetOrderingWellFounded
  <2> HIDE DEF Bad
  <2> QED
    BY <1>1, <2>1, WFMin
<1>3. ASSUME NEW x \in T PROVE T \ {x} \in G
  <2>1. T \in SUBSET S /\ T \ {x} \in SUBSET S /\ T \ {x} # T
    OBVIOUS
  <2>2. <<T \ {x}, T>> \in StrictSubsetOrdering(S)
    BY <2>1 DEF StrictSubsetOrdering
  <2> QED
    BY <1>2, <2>1, <2>2
<1> QED
  BY <1>2, <1>3

Pick(s) == CHOOSE x \in s : TRUE
(* g holds the sums of f over the subsets of S.                            *)
Sums(f, S, g) == g = [s \in SUBSET S |-> IF s = {} THEN 0 ELSE f[Pick(s)] + g[s \ {Pick(s)}]]

LEMMA TotalDef == ASSUME NEW f, NEW S PROVE Total(f, S) = (CHOOSE g : Sums(f, S, g))[S]
  BY DEF Total, MapThenSumSet, MapThenFoldSet, Sums, Pick

(* What is picked is there. *)
LEMMA Picked == ASSUME NEW s, s # {} PROVE Pick(s) \in s
  BY DEF Pick

(* There is such a function. *)
LEMMA SumsExist == ASSUME NEW f, NEW S, IsFiniteSet(S) PROVE \E g : Sums(f, S, g)
<1> DEFINE Small(n) == {s \in SUBSET S : Cardinality(s) <= n}
           Step(g, s) == IF s = {} THEN 0 ELSE f[Pick(s)] + g[s \ {Pick(s)}]
           G == {n \in Nat : \E g : g = [s \in Small(n) |-> Step(g, s)]}
<1>1. \A s \in SUBSET S : IsFiniteSet(s) /\ Cardinality(s) \in Nat
  BY FS_Subset, FS_CardinalityType
<1>2. 0 \in G
  <2>1. \A s \in Small(0) : s = {}
    BY <1>1, FS_EmptySet
  <2> DEFINE g == [s \in Small(0) |-> 0]
  <2>2. g = [s \in Small(0) |-> Step(g, s)]
    BY <2>1
  <2> QED
    BY <2>2
<1>3. ASSUME NEW n \in G PROVE n + 1 \in G
  <2>1. PICK g : g = [s \in Small(n) |-> Step(g, s)]
    OBVIOUS
  <2> DEFINE h == [s \in Small(n + 1) |-> Step(g, s)]
  <2>2. \A s \in Small(n) : s \in Small(n + 1) /\ g[s] = Step(g, s)
    <3>1. \A s \in Small(n) : g[s] = Step(g, s)
      <4> HIDE DEF Small, Step
      <4> QED
        BY <2>1
    <3>2. \A s \in Small(n) : s \in Small(n + 1)
      BY <1>1
    <3> QED
      BY <3>1, <3>2
  <2>3. \A s \in Small(n) : h[s] = g[s]
    <3> HIDE DEF Small, Step
    <3> QED
      BY <2>2
  <2>4. \A s \in Small(n + 1) : s # {} => s \ {Pick(s)} \in Small(n)
    <3> SUFFICES ASSUME NEW s \in Small(n + 1), s # {} PROVE s \ {Pick(s)} \in Small(n)
      OBVIOUS
    <3>1. Cardinality(s \ {Pick(s)}) = Cardinality(s) - 1
      BY <1>1, Picked, FS_RemoveElement
    <3> QED
      BY <1>1, <3>1
  <2>5. \A s \in Small(n + 1) : Step(g, s) = Step(h, s)
    <3> HIDE DEF Small, h
    <3> QED
      BY <2>3, <2>4
  <2>6. h = [s \in Small(n + 1) |-> Step(h, s)]
    <3>1. h = [s \in Small(n + 1) |-> Step(g, s)]
      OBVIOUS
    <3> HIDE DEF Small, h, Step
    <3> QED
      BY <2>5, <3>1
  <2> HIDE DEF h, Small, Step
  <2> QED
    BY <2>6
<1>4. G = Nat
  <2>1. G \in SUBSET Nat
    OBVIOUS
  <2> HIDE DEF G
  <2> QED
    BY <1>2, <1>3, <2>1, NumberInduction
<1>5. Cardinality(S) \in G
  BY <1>1, <1>4
<1>6. Small(Cardinality(S)) = SUBSET S
  BY FS_Subset
<1>7. PICK g : g = [s \in Small(Cardinality(S)) |-> Step(g, s)]
  BY <1>5
<1>8. g = [s \in SUBSET S |-> Step(g, s)]
  BY <1>6, <1>7
<1> QED
  BY <1>8 DEF Sums

(* Such functions agree on the sets they both know, so that a sum does not *)
(* depend on the set it is a part of.                                      *)
LEMMA SumsAgree ==
  ASSUME NEW f, NEW S, IsFiniteSet(S), NEW T \in SUBSET S,
         NEW g, Sums(f, S, g), NEW h, Sums(f, T, h)
  PROVE  g[T] = h[T]
<1> DEFINE G == {U \in SUBSET T : g[U] = h[U]}
<1>1. IsFiniteSet(T)
  BY FS_Subset
<1>2. /\ g[{}] = 0 /\ h[{}] = 0
      /\ \A U \in SUBSET T : U # {} =>
           /\ g[U] = f[Pick(U)] + g[U \ {Pick(U)}]
           /\ h[U] = f[Pick(U)] + h[U \ {Pick(U)}]
  BY DEF Sums
<1>3. {} \in G
  BY <1>2
<1>4. \A U \in SUBSET T : U # {} /\ (\A x \in U : U \ {x} \in G) => U \in G
  <2> SUFFICES ASSUME NEW U \in SUBSET T, U # {}, \A x \in U : U \ {x} \in G PROVE U \in G
    OBVIOUS
  <2>1. g[U \ {Pick(U)}] = h[U \ {Pick(U)}]
    BY Picked
  <2> QED
    BY <1>2, <2>1
<1>5. G \in SUBSET SUBSET T
  OBVIOUS
<1>6. T \in G
  <2> HIDE DEF G
  <2> QED
    BY <1>1, <1>3, <1>4, <1>5, SubsetInduction
<1> QED
  BY <1>6

(* The sum over a set is what is picked and the sum over the rest.         *)
LEMMA TotalPick ==
  ASSUME NEW f, NEW S, IsFiniteSet(S)
  PROVE  Total(f, S) = IF S = {} THEN 0 ELSE f[Pick(S)] + Total(f, S \ {Pick(S)})
<1>1. PICK g : Sums(f, S, g) /\ Total(f, S) = g[S]
  <2>1. Sums(f, S, CHOOSE g : Sums(f, S, g))
    BY SumsExist
  <2> QED
    BY <2>1, TotalDef
<1>2. g[S] = IF S = {} THEN 0 ELSE f[Pick(S)] + g[S \ {Pick(S)}]
  BY <1>1 DEF Sums
<1>3. IsFiniteSet(S \ {Pick(S)})
  BY FS_RemoveElement
<1>4. PICK h : Sums(f, S \ {Pick(S)}, h) /\ Total(f, S \ {Pick(S)}) = h[S \ {Pick(S)}]
  <2>1. Sums(f, S \ {Pick(S)}, CHOOSE h : Sums(f, S \ {Pick(S)}, h))
    BY <1>3, SumsExist
  <2> QED
    BY <2>1, TotalDef
<1>5. g[S \ {Pick(S)}] = h[S \ {Pick(S)}]
  BY <1>1, <1>4, SumsAgree
<1> QED
  BY <1>1, <1>2, <1>4, <1>5

LEMMA TotalEmpty == ASSUME NEW f PROVE Total(f, {}) = 0
  BY TotalPick, FS_EmptySet

(* Whole numbers have a whole sum, and natural ones a natural sum.         *)
LEMMA TotalType ==
  ASSUME NEW f, NEW S, IsFiniteSet(S), \A x \in S : f[x] \in Int
  PROVE  Total(f, S) \in Int
<1> DEFINE G == {T \in SUBSET S : Total(f, T) \in Int}
<1>1. {} \in G
  BY TotalEmpty
<1>2. \A T \in SUBSET S : T # {} /\ (\A x \in T : T \ {x} \in G) => T \in G
  <2> SUFFICES ASSUME NEW T \in SUBSET S, T # {}, \A x \in T : T \ {x} \in G PROVE T \in G
    OBVIOUS
  <2>1. Total(f, T) = f[Pick(T)] + Total(f, T \ {Pick(T)})
    BY TotalPick, FS_Subset
  <2>2. f[Pick(T)] \in Int /\ Total(f, T \ {Pick(T)}) \in Int
    BY Picked
  <2> QED
    BY <2>1, <2>2
<1>3. S \in G
  <2>1. G \in SUBSET SUBSET S
    OBVIOUS
  <2> HIDE DEF G
  <2> QED
    BY <1>1, <1>2, <2>1, SubsetInduction
<1> QED
  BY <1>3

(* Any element may be taken out first.                                     *)
LEMMA TotalTake ==
  ASSUME NEW f, NEW S, IsFiniteSet(S), \A x \in S : f[x] \in Int, NEW y \in S
  PROVE  Total(f, S) = f[y] + Total(f, S \ {y})
<1> DEFINE G == {T \in SUBSET S : \A x \in T : Total(f, T) = f[x] + Total(f, T \ {x})}
<1>1. {} \in G
  OBVIOUS
<1>2. \A T \in SUBSET S : T # {} /\ (\A x \in T : T \ {x} \in G) => T \in G
  <2> SUFFICES ASSUME NEW T \in SUBSET S, T # {}, \A x \in T : T \ {x} \in G, NEW x \in T
               PROVE  Total(f, T) = f[x] + Total(f, T \ {x})
    OBVIOUS
  <2>1. PICK p \in T : p = Pick(T)
    BY Picked
  <2>2. Total(f, T) = f[p] + Total(f, T \ {p})
    BY <2>1, TotalPick, FS_Subset
  <2>3. CASE x = p
    BY <2>2, <2>3
  <2>4. CASE x # p
    <3>1. Total(f, T \ {p}) = f[x] + Total(f, (T \ {p}) \ {x})
      BY <2>4
    <3>2. Total(f, T \ {x}) = f[p] + Total(f, (T \ {x}) \ {p})
      BY <2>4
    <3>3. (T \ {p}) \ {x} = (T \ {x}) \ {p}
      OBVIOUS
    <3>4. Total(f, (T \ {p}) \ {x}) \in Int
      BY TotalType, FS_Subset
    <3>5. f[x] \in Int /\ f[p] \in Int
      OBVIOUS
    <3> QED
      BY <2>2, <3>1, <3>2, <3>3, <3>4, <3>5
  <2> QED
    BY <2>3, <2>4
<1>3. S \in G
  <2>1. G \in SUBSET SUBSET S
    OBVIOUS
  <2> HIDE DEF G
  <2> QED
    BY <1>1, <1>2, <2>1, SubsetInduction
<1> QED
  BY <1>3

(* A sum grows with its terms.                                             *)
LEMMA TotalMonotone ==
  ASSUME NEW f, NEW g, NEW S, IsFiniteSet(S),
         \A x \in S : f[x] \in Int /\ g[x] \in Int /\ f[x] <= g[x]
  PROVE  Total(f, S) <= Total(g, S)
<1> DEFINE G == {T \in SUBSET S : Total(f, T) <= Total(g, T)}
<1>1. {} \in G
  BY TotalEmpty
<1>2. \A T \in SUBSET S : T # {} /\ (\A x \in T : T \ {x} \in G) => T \in G
  <2> SUFFICES ASSUME NEW T \in SUBSET S, T # {}, \A x \in T : T \ {x} \in G PROVE T \in G
    OBVIOUS
  <2>1. PICK p \in T : p = Pick(T)
    BY Picked
  <2>2. Total(f, T) = f[p] + Total(f, T \ {p}) /\ Total(g, T) = g[p] + Total(g, T \ {p})
    BY <2>1, TotalPick, FS_Subset
  <2>3. Total(f, T \ {p}) \in Int /\ Total(g, T \ {p}) \in Int
    BY TotalType, FS_Subset
  <2>4. Total(f, T \ {p}) <= Total(g, T \ {p})
    OBVIOUS
  <2>5. f[p] \in Int /\ g[p] \in Int /\ f[p] <= g[p]
    OBVIOUS
  <2> QED
    BY <2>2, <2>3, <2>4, <2>5
<1>3. S \in G
  <2>1. G \in SUBSET SUBSET S
    OBVIOUS
  <2> HIDE DEF G
  <2> QED
    BY <1>1, <1>2, <2>1, SubsetInduction
<1> QED
  BY <1>3

(* Equal terms have equal sums.                                            *)
LEMMA TotalSame ==
  ASSUME NEW f, NEW g, NEW S, IsFiniteSet(S),
         \A x \in S : f[x] \in Int /\ g[x] = f[x]
  PROVE  Total(f, S) = Total(g, S)
<1>1. Total(f, S) <= Total(g, S) /\ Total(g, S) <= Total(f, S)
  BY TotalMonotone
<1>2. Total(f, S) \in Int /\ Total(g, S) \in Int
  BY TotalType
<1> QED
  BY <1>1, <1>2

(* Nothing but zeros is zero.                                              *)
LEMMA TotalZero ==
  ASSUME NEW f, NEW S, IsFiniteSet(S), \A x \in S : f[x] = 0
  PROVE  Total(f, S) = 0
<1> DEFINE G == {T \in SUBSET S : Total(f, T) = 0}
<1>1. {} \in G
  BY TotalEmpty
<1>2. \A T \in SUBSET S : T # {} /\ (\A x \in T : T \ {x} \in G) => T \in G
  <2> SUFFICES ASSUME NEW T \in SUBSET S, T # {}, \A x \in T : T \ {x} \in G PROVE T \in G
    OBVIOUS
  <2>1. PICK p \in T : p = Pick(T)
    BY Picked
  <2>2. Total(f, T) = f[p] + Total(f, T \ {p})
    BY <2>1, TotalPick, FS_Subset
  <2> QED
    BY <2>2
<1>3. S \in G
  <2>1. G \in SUBSET SUBSET S
    OBVIOUS
  <2> HIDE DEF G
  <2> QED
    BY <1>1, <1>2, <2>1, SubsetInduction
<1> QED
  BY <1>3

(* One term that changes changes the sum by as much.                       *)
LEMMA TotalChange ==
  ASSUME NEW f, NEW g, NEW S, IsFiniteSet(S), NEW y \in S, g[y] \in Int,
         \A x \in S : f[x] \in Int /\ (x # y => g[x] = f[x])
  PROVE  Total(g, S) = Total(f, S) + g[y] - f[y]
<1>1. IsFiniteSet(S \ {y})
  BY FS_RemoveElement
<1>2. Total(f, S \ {y}) = Total(g, S \ {y}) /\ Total(f, S \ {y}) \in Int
  BY <1>1, TotalSame, TotalType
<1>3. Total(f, S) = f[y] + Total(f, S \ {y})
  BY TotalTake
<1>4. \A x \in S : g[x] \in Int
  OBVIOUS
<1>5. Total(g, S) = g[y] + Total(g, S \ {y})
  BY <1>4, TotalTake
<1> QED
  BY <1>2, <1>3, <1>5

-----------------------------------------------------------------------------
(* The limits.                                                             *)

(* A smaller number of shares is worth no more.                            *)
LEMMA WorthMore ==
  ASSUME NEW a \in Int, NEW b \in Int, a <= b, NEW p \in Nat
  PROVE  a * p \in Int /\ b * p \in Int /\ a * p <= b * p
<1>1. PICK d \in Nat : b = a + d
  <2>1. b - a \in Nat /\ b = a + (b - a)
    OBVIOUS
  <2> QED
    BY <2>1
<1>2. d * p \in Nat /\ a * p \in Int
  OBVIOUS
<1>3. (a + d) * p = a * p + d * p
  OBVIOUS
<1> QED
  BY <1>1, <1>2, <1>3

(* What an order may still buy of a ticker, and what the ticker may reach, *)
(* are whole numbers.                                                      *)
LEMMA ReachType ==
  ASSUME TypeOK, NEW t \in Tickers
  PROVE  /\ IsFiniteSet(Orders)
         /\ \A o \in Orders : Buying(t, o) \in Nat
         /\ Total([o \in Orders |-> Buying(t, o)], Orders) \in Int
         /\ Reach(t) \in Int
<1>1. IsFiniteSet(Orders)
  BY PortfolioAssumption, FS_Interval DEF Orders
<1>2. \A o \in Orders : Buying(t, o) \in Nat
  BY DEF Buying, TypeOK
<1>3. Total([o \in Orders |-> Buying(t, o)], Orders) \in Int
  <2>1. \A o \in Orders : [x \in Orders |-> Buying(t, x)][o] \in Int
    BY <1>2
  <2> QED
    BY <1>1, <2>1, TotalType
<1>4. shares[t] \in Int
  BY DEF TypeOK
<1> QED
  BY <1>1, <1>2, <1>3, <1>4 DEF Reach

(* A sector has finitely many tickers.                                     *)
LEMMA SectorType == ASSUME NEW s PROVE Sector(s) \subseteq Tickers /\ IsFiniteSet(Sector(s))
  BY PortfolioAssumption, FS_Subset DEF Sector

(* A ticker reaches as far as before, give or take what one order still    *)
(* buys of it and what its position has changed by.                        *)
LEMMA ReachChange ==
  ASSUME TypeOK, TypeOK', NEW t \in Tickers, NEW o \in Orders,
         \A x \in Orders \ {o} : open'[x] = open[x]
  PROVE  Reach(t)' = Reach(t) + (shares'[t] - shares[t]) + (Buying(t, o)' - Buying(t, o))
<1> DEFINE f == [x \in Orders |-> Buying(t, x)]
<1>1. PICK g : g = [x \in Orders |-> Buying(t, x)']
  OBVIOUS
<1>2. IsFiniteSet(Orders) /\ \A x \in Orders : Buying(t, x) \in Nat
  BY ReachType
<1>3. \A x \in Orders : Buying(t, x)' \in Nat
  BY DEF Buying, TypeOK
<1>4. \A x \in Orders : x # o => Buying(t, x)' = Buying(t, x)
  BY DEF Buying
<1>5. \A x \in Orders : f[x] \in Int /\ (x # o => g[x] = f[x])
  BY <1>1, <1>2, <1>4
<1>6. g[o] = Buying(t, o)' /\ f[o] = Buying(t, o) /\ g[o] \in Int
  BY <1>1, <1>3
<1>7. Total(g, Orders) = Total(f, Orders) + g[o] - f[o]
  <2> HIDE DEF f
  <2> QED
    BY <1>2, <1>5, <1>6, TotalChange
<1>8. Reach(t) = shares[t] + Total(f, Orders) /\ Reach(t)' = shares'[t] + Total(g, Orders)
  BY <1>1 DEF Reach
<1>9. shares[t] \in Int /\ shares'[t] \in Int /\ Total(f, Orders) \in Int
  BY ReachType DEF TypeOK
<1>10. Buying(t, o) \in Int /\ Buying(t, o)' \in Int
  BY <1>2, <1>3
<1> HIDE DEF f
<1> QED
  BY <1>6, <1>7, <1>8, <1>9, <1>10

(* The same of the next state.                                             *)
LEMMA ReachTyped == TypeOK => \A t \in Tickers : Reach(t) \in Int
  BY ReachType

LEMMA ReachTypedNext == TypeOK' => (\A t \in Tickers : Reach(t) \in Int)'
  BY ReachTyped, PTL

(* What a sector's buys have missed is a natural number.                   *)
LEMMA MissedType == ASSUME TypeOK, NEW s PROVE Missed(s) \in Nat
<1>1. Sector(s) \subseteq Tickers /\ IsFiniteSet(Sector(s))
  BY SectorType
<1>2. \A t \in Sector(s) : missed[t] \in Nat
  BY <1>1 DEF TypeOK
<1>3. Missed(s) \in Int
  BY <1>1, <1>2, TotalType DEF Missed
<1>4. \A t \in Sector(s) : Nothing[t] = 0
  BY <1>1 DEF Nothing
<1>5. Total(Nothing, Sector(s)) = 0
  BY <1>1, <1>4, TotalZero
<1>6. Total(Nothing, Sector(s)) <= Total(missed, Sector(s))
  <2>1. \A t \in Sector(s) : Nothing[t] \in Int /\ missed[t] \in Int /\ Nothing[t] <= missed[t]
    BY <1>2, <1>4
  <2> QED
    BY <1>1, <2>1, TotalMonotone
<1> QED
  BY <1>3, <1>5, <1>6 DEF Missed

(* The limits as numbers.                                                  *)
TickerLimit(t) == MaxSingleTicker * Equity * (1 + missed[t])
SectorLimit(s) == (40 + MaxSingleTicker * Missed(s)) * Equity

(* They are whole numbers.                                                 *)
LEMMA LimitType ==
  ASSUME TypeOK
  PROVE  /\ \A t \in Tickers : TickerLimit(t) \in Int
         /\ \A s : SectorLimit(s) \in Int
<1>1. \A t \in Tickers : missed[t] \in Nat
  BY DEF TypeOK
<1>2. \A s : Missed(s) \in Nat
  BY MissedType
<1>3. Equity \in Nat
  BY PortfolioAssumption
<1> QED
  BY <1>1, <1>2, <1>3 DEF TickerLimit, SectorLimit, MaxSingleTicker

(* A ticker is valued at most at what it may reach.                        *)
LEMMA ValuedType ==
  ASSUME TypeOK, NEW t \in Tickers
  PROVE  /\ Reach(t) * Price[t] \in Int
         /\ Valued(t) \in Int
         /\ Valued(t) <= Reach(t) * Price[t]
<1>1. PICK a \in Int, p \in Nat, d \in Nat : a = Reach(t) /\ p = Price[t] /\ d = discount[t]
  BY ReachType, PortfolioAssumption DEF TypeOK
<1>2. a * p \in Int /\ a * p - d \in Int /\ a * p - d <= a * p
  <2>1. a * p \in Int
    OBVIOUS
  <2> QED
    BY <2>1
<1> QED
  BY <1>1, <1>2 DEF Valued

(* The values of all tickers, and the same of the next state.              *)
LEMMA ValuedTyped == TypeOK => \A t \in Tickers : Valued(t) \in Int
  BY ValuedType

LEMMA ValuedTypedNext == TypeOK' => (\A t \in Tickers : Valued(t) \in Int)'
  BY ValuedTyped, PTL

(* While no ticker within the limits reaches further, they stay kept.      *)
LEMMA LimitsKept ==
  ASSUME TypeOK, TypeOK', TickerCapped, SectorCapped, UNCHANGED history,
         \A t \in Tickers \ sold : Reach(t)' <= Reach(t)
  PROVE  TickerCapped' /\ SectorCapped'
<1>1. \A t \in Tickers : Valued(t) \in Int /\ Valued(t)' \in Int
  BY ValuedTyped, ValuedTypedNext
<1>2. \A t \in Tickers \ sold : Valued(t)' <= Valued(t)
  <2> SUFFICES ASSUME NEW t \in Tickers \ sold PROVE Valued(t)' <= Valued(t)
    OBVIOUS
  <2>1. PICK a \in Int, b \in Int, p \in Nat, d \in Nat :
          a = Reach(t) /\ b = Reach(t)' /\ p = Price[t] /\ d = discount[t]
    BY ReachTyped, ReachTypedNext, PortfolioAssumption DEF TypeOK
  <2>2. b * p \in Int /\ a * p \in Int /\ b * p <= a * p
    BY <2>1, WorthMore
  <2>3. Valued(t) = a * p - d /\ Valued(t)' = b * p - d
    BY <2>1 DEF Valued, history
  <2> QED
    BY <2>2, <2>3
<1>3. sold' = sold
  BY DEF history
<1>4. /\ \A t \in Tickers : TickerLimit(t) \in Int /\ TickerLimit(t)' = TickerLimit(t)
      /\ \A s : SectorLimit(s) \in Int /\ SectorLimit(s)' = SectorLimit(s)
  <2>1. (\A t \in Tickers : TickerLimit(t)' = TickerLimit(t)) /\ \A s : Missed(s)' = Missed(s)
    BY DEF TickerLimit, Missed, history
  <2>2. \A s : SectorLimit(s)' = SectorLimit(s)
    BY <2>1 DEF SectorLimit
  <2> QED
    BY <2>1, <2>2, LimitType
<1>5. TickerCapped'
  <2> SUFFICES ASSUME NEW t \in Tickers \ sold
               PROVE  100 * Valued(t)' <= TickerLimit(t)'
    BY <1>3 DEF TickerCapped, TickerLimit
  <2>1. 100 * Valued(t) <= TickerLimit(t)
    BY DEF TickerCapped, TickerLimit
  <2> QED
    BY <1>1, <1>2, <1>4, <2>1
<1>6. SectorCapped'
  <2> SUFFICES ASSUME NEW s \in Sectors, Sector(s) \cap sold = {}
               PROVE  100 * Total([t \in Tickers |-> Valued(t)'], Sector(s)) <= SectorLimit(s)'
    BY <1>3 DEF SectorCapped, SectorLimit
  <2> DEFINE f == [t \in Tickers |-> Valued(t)]
  <2>1. PICK g : g = [t \in Tickers |-> Valued(t)']
    OBVIOUS
  <2>2. 100 * Total(f, Sector(s)) <= SectorLimit(s)
    BY DEF SectorCapped, SectorLimit
  <2>3. Sector(s) \subseteq Tickers \ sold /\ IsFiniteSet(Sector(s))
    BY SectorType
  <2>4. \A t \in Sector(s) : g[t] \in Int /\ f[t] \in Int /\ g[t] <= f[t]
    BY <1>1, <1>2, <2>1, <2>3
  <2> HIDE DEF f
  <2>5. Total(g, Sector(s)) <= Total(f, Sector(s))
    BY <2>3, <2>4, TotalMonotone
  <2>6. Total(g, Sector(s)) \in Int /\ Total(f, Sector(s)) \in Int
    BY <2>3, <2>4, TotalType
  <2>7. 100 * Total(g, Sector(s)) <= SectorLimit(s)
    BY <1>4, <2>2, <2>5, <2>6
  <2> QED
    BY <1>4, <2>1, <2>7
<1> QED
  BY <1>5, <1>6

(* Fills move shares from the book to the position, and no further.        *)
LEMMA FillKeeps ==
  ASSUME IInv, TypeOK', NEW o \in Orders, Fill(o)
  PROVE  IInv'
<1>1. PICK n \in 1..open[o].left :
        /\ shares' = [shares EXCEPT ![open[o].ticker] = @ + Signed(open[o].side, n)]
        /\ open' = [open EXCEPT ![o] = Filled(@, n)]
  BY DEF Fill
<1>2. PICK order \in Book : order = open[o] /\ order # Free /\ order.ticker \in Tickers
  BY DEF Fill, IInv, TypeOK, Book
<1>3. PICK rest : rest = Filled(order, n)
  OBVIOUS
<1>4. /\ open' = [open EXCEPT ![o] = rest]
      /\ shares' = [shares EXCEPT ![order.ticker] = @ + Signed(order.side, n)]
  BY <1>1, <1>2, <1>3
<1>5. n \in Nat /\ n <= order.left /\ order.left \in Nat
  BY <1>1, <1>2 DEF Book
<1>6. \/ n = order.left /\ rest = Free
      \/ n # order.left /\ rest.ticker = order.ticker /\ rest.side = order.side /\ rest.left = order.left - n
  BY <1>2, <1>3 DEF Filled, Book
<1>7. open'[o] = rest /\ (\A x \in Orders \ {o} : open'[x] = open[x])
  BY <1>4 DEF IInv, TypeOK
<1>8. UNCHANGED <<sent, held, sold>> /\ UNCHANGED history
  BY DEF Fill, history
<1>9. \A t \in Tickers :
        /\ shares[t] \in Int
        /\ shares'[t] = IF t = order.ticker THEN shares[t] + Signed(order.side, n) ELSE shares[t]
  BY <1>2, <1>4 DEF IInv, TypeOK
<1>10. Unsent'
  BY <1>2, <1>7, <1>8 DEF IInv, Unsent
<1>11. LongOnly'
  <2> SUFFICES ASSUME NEW t \in Tickers \ sold
               PROVE  shares'[t] >= 0 /\ \A x \in Orders : open'[x].ticker = t => open'[x].side = "buy"
    BY <1>8 DEF IInv, LongOnly
  <2>1. shares[t] >= 0 /\ \A x \in Orders : open[x].ticker = t => open[x].side = "buy"
    BY DEF IInv, LongOnly
  <2>2. rest.ticker = t => rest.side = "buy"
    BY <1>2, <1>6, <2>1 DEF Free
  <2>3. t = order.ticker => order.side = "buy"
    BY <1>2, <2>1
  <2>4. shares'[t] >= 0
    BY <1>5, <1>9, <2>1, <2>3 DEF Signed
  <2> QED
    BY <1>7, <2>1, <2>2, <2>4
<1>12. ASSUME NEW t \in Tickers PROVE Reach(t)' <= Reach(t)
  <2>1. Reach(t)' = Reach(t) + (shares'[t] - shares[t]) + (Buying(t, o)' - Buying(t, o))
    BY <1>7, ReachChange DEF IInv
  <2>2. Buying(t, o) = IF order.ticker = t /\ order.side = "buy" THEN order.left ELSE 0
    BY <1>2 DEF Buying
  <2>3. Buying(t, o)' = IF rest.ticker = t /\ rest.side = "buy" THEN rest.left ELSE 0
    BY <1>7 DEF Buying
  <2>4. PICK b \in Int : b = Buying(t, o)'
    BY <1>5, <1>6, <2>3 DEF Free
  <2>5. b - Buying(t, o) = IF order.ticker = t /\ order.side = "buy" THEN -n ELSE 0
    BY <1>5, <1>6, <2>2, <2>3, <2>4 DEF Free
  <2>6. shares'[t] - shares[t] = IF t = order.ticker THEN Signed(order.side, n) ELSE 0
    BY <1>5, <1>9 DEF Signed
  <2>7. Reach(t) \in Int
    BY ReachType DEF IInv
  <2> QED
    BY <1>5, <2>1, <2>4, <2>5, <2>6, <2>7 DEF Signed
<1>13. TickerCapped' /\ SectorCapped'
  BY <1>8, <1>12, LimitsKept DEF IInv
<1> QED
  BY <1>10, <1>11, <1>13 DEF IInv

(* A cancelled order buys nothing any more.                                *)
LEMMA CancelKeeps ==
  ASSUME IInv, TypeOK', NEW o \in Orders, Cancel(o)
  PROVE  IInv'
<1>1. open'[o] = Free /\ (\A x \in Orders \ {o} : open'[x] = open[x])
  BY DEF Cancel, IInv, TypeOK
<1>2. UNCHANGED <<shares, sent, held, sold>> /\ UNCHANGED history
  BY DEF Cancel, history
<1>3. Unsent'
  BY <1>1, <1>2 DEF IInv, Unsent
<1>4. LongOnly'
  BY <1>1, <1>2 DEF IInv, LongOnly, Free
<1>5. ASSUME NEW t \in Tickers PROVE Reach(t)' <= Reach(t)
  <2>1. Reach(t)' = Reach(t) + (shares'[t] - shares[t]) + (Buying(t, o)' - Buying(t, o))
    BY <1>1, ReachChange DEF IInv
  <2>2. Buying(t, o)' = 0
    BY <1>1 DEF Buying, Free
  <2>3. Buying(t, o) \in Nat /\ Reach(t) \in Int /\ shares[t] \in Int
    BY ReachType DEF IInv, TypeOK
  <2> QED
    BY <1>2, <2>1, <2>2, <2>3
<1>6. TickerCapped' /\ SectorCapped'
  BY <1>2, <1>5, LimitsKept DEF IInv
<1> QED
  BY <1>3, <1>4, <1>6 DEF IInv

(* What was never sold is not short: closing it gives shares back.         *)
LEMMA CloseKeeps ==
  ASSUME IInv, TypeOK', NEW c \in Tickers, Close(c)
  PROVE  IInv'
<1>1. UNCHANGED <<sent, open, held, sold>> /\ UNCHANGED history
  BY DEF Close, history
<1>2. \A t \in Tickers : shares'[t] = IF t = c THEN 0 ELSE shares[t]
  BY DEF Close, IInv, TypeOK
<1>3. Unsent'
  BY <1>1 DEF IInv, Unsent
<1>4. LongOnly'
  BY <1>1, <1>2 DEF IInv, LongOnly
<1>5. ASSUME NEW t \in Tickers \ sold PROVE Reach(t)' <= Reach(t)
  <2>1. shares[t] \in Int /\ shares[t] >= 0
    BY DEF IInv, TypeOK, LongOnly
  <2>2. Reach(t)' = shares'[t] + Total([o \in Orders |-> Buying(t, o)], Orders)
    BY <1>1 DEF Reach, Buying
  <2>3. Total([o \in Orders |-> Buying(t, o)], Orders) \in Int
    BY ReachType DEF IInv
  <2>4. shares'[t] <= shares[t] /\ shares'[t] \in Int
    BY <1>2, <2>1
  <2> QED
    BY <2>1, <2>2, <2>3, <2>4 DEF Reach
<1>6. TickerCapped' /\ SectorCapped'
  BY <1>1, <1>5, LimitsKept DEF IInv
<1> QED
  BY <1>3, <1>4, <1>6 DEF IInv

(* Steps of a runner that send no order leave the limits alone.            *)
LEMMA QuietKeeps ==
  ASSUME IInv, TypeOK', UNCHANGED <<shares, sent, open, history>>,
         \A r \in Runners : held'[r] \in {held[r], shares, Nothing}
  PROVE  IInv'
<1>1. \A t \in Tickers : Reach(t)' = Reach(t) /\ Reach(t) \in Int
  BY ReachType DEF IInv, Reach, Buying
<1>2. TickerCapped' /\ SectorCapped'
  BY <1>1, LimitsKept DEF IInv
<1>3. \A t \in Tickers \ sold : \A r \in Runners : held'[r][t] >= 0
  <2> SUFFICES ASSUME NEW t \in Tickers \ sold, NEW r \in Runners PROVE held'[r][t] >= 0
    OBVIOUS
  <2>1. held[r][t] >= 0 /\ shares[t] >= 0
    BY DEF IInv, LongOnly
  <2>2. Nothing[t] >= 0
    BY DEF Nothing
  <2> QED
    BY <2>1, <2>2
<1>4. LongOnly'
  BY <1>3 DEF IInv, LongOnly, history
<1> QED
  BY <1>2, <1>4 DEF IInv, Unsent

(* A new buy passes both caps.  On a state that holds whatever the tickers *)
(* of its sector may reach, so does the sum; on one that had missed some,  *)
(* the order by itself is no more than a ticker's 20%.                     *)
LEMMA OrderKeeps ==
  ASSUME IInv, TypeOK', NEW r \in Runners, NEW t \in Tickers, Order(r, t)
  PROVE  IInv'
<1>1. PICK side \in SidesOf(sleeve[r]), entry \in Nat, qty \in Nat : Sends(r, t, side, entry, qty)
  BY OrderSends
<1>2. PICK extra \in Nat : extra = qty * NotNegative(Price[t] - entry)
  BY PriceGap
<1>3. PICK o \in Orders : o = sent + 1 /\ o = sent'
  BY PortfolioAssumption DEF Order, IInv, TypeOK, Orders
<1>4. open' = [open EXCEPT ![o] = [ticker |-> t, side |-> side, left |-> qty]]
  BY <1>1, <1>3 DEF Sends
<1>5. /\ open[o] = Free
      /\ open'[o].ticker = t /\ open'[o].side = side /\ open'[o].left = qty
      /\ \A x \in Orders \ {o} : open'[x] = open[x]
  <2>1. open[o] = Free
    BY <1>3 DEF IInv, Unsent, TypeOK, Orders
  <2> QED
    BY <1>4, <2>1 DEF IInv, TypeOK
<1>6. shares' = shares
  BY DEF Order
<1>7. /\ sold \subseteq sold'
      /\ t \notin sold' => side = "buy"
  BY <1>1 DEF Sends, Note
<1>8. /\ \A u \in Tickers : u # t => missed'[u] = missed[u] /\ discount'[u] = discount[u]
      /\ missed[t] \in Nat /\ discount[t] \in Nat
      /\ side = "buy" => /\ missed'[t] = IF Current(held[r], t) THEN missed[t] ELSE missed[t] + 1
                         /\ discount'[t] = discount[t] + extra
  <2>1. missed \in [Tickers -> Nat] /\ discount \in [Tickers -> Nat]
    BY DEF IInv, TypeOK
  <2>2. CASE side = "buy"
    <3>1. /\ missed' = IF Current(held[r], t) THEN missed ELSE [missed EXCEPT ![t] = @ + 1]
          /\ discount' = [discount EXCEPT ![t] = @ + extra]
      BY <1>1, <1>2, <2>2 DEF Sends, Note
    <3> QED
      BY <2>1, <2>2, <3>1
  <2>3. CASE side # "buy"
    BY <1>1, <2>1, <2>3 DEF Sends
  <2> QED
    BY <2>2, <2>3
<1>9. Unsent'
  BY <1>3, <1>5 DEF IInv, Unsent, TypeOK, Orders
<1>10. ASSUME NEW u \in Tickers \ sold, NEW q \in Runners PROVE held'[q][u] >= 0
  <2>1. held' = held \/ held' = [held EXCEPT ![r] = Nothing]
    BY DEF Order, Decided
  <2>2. held'[q] = held[q] \/ held'[q] = Nothing
    BY <2>1 DEF IInv, TypeOK
  <2>3. held[q][u] >= 0 /\ Nothing[u] >= 0
    BY DEF IInv, LongOnly, Nothing
  <2> QED
    BY <2>2, <2>3
<1>11. LongOnly'
  BY <1>5, <1>6, <1>7, <1>10 DEF IInv, LongOnly
<1>12. ASSUME NEW u \in Tickers
       PROVE  Reach(u)' = IF u = t /\ side = "buy" THEN Reach(u) + qty ELSE Reach(u)
  <2>1. Reach(u)' = Reach(u) + (shares'[u] - shares[u]) + (Buying(u, o)' - Buying(u, o))
    BY <1>5, ReachChange DEF IInv
  <2>2. Buying(u, o) = 0
    BY <1>5 DEF Buying, Free
  <2>3. Buying(u, o)' = IF u = t /\ side = "buy" THEN qty ELSE 0
    BY <1>5 DEF Buying
  <2>4. Reach(u) \in Int /\ shares[u] \in Int
    BY ReachType DEF IInv, TypeOK
  <2> QED
    BY <1>6, <2>1, <2>2, <2>3, <2>4
<1>13. PICK value \in Nat : value = qty * entry
  OBVIOUS
<1>14. PICK state \in [Tickers -> Int] : state = held[r]
  BY DEF IInv, TypeOK
<1>15. UnderTickerCap(state, t, value) /\ UnderSectorCap(state, t, value)
  BY <1>1, <1>13, <1>14 DEF Sends, Approved
<1>16. PICK p \in Nat, e \in Nat : p = Price[t] /\ e = Equity
  BY PortfolioAssumption
<1>17. 100 * (state[t] * p + value) <= 20 * e
  BY <1>15, <1>16 DEF UnderTickerCap, Exposure, MaxSingleTicker
<1>18. t \notin sold' => 100 * value <= 20 * e
  <2> SUFFICES ASSUME t \notin sold' PROVE 100 * value <= 20 * e
    OBVIOUS
  <2>1. PICK b \in Int : b = state[t] /\ b >= 0
    BY <1>7, <1>14 DEF IInv, LongOnly
  <2>2. 0 * p <= b * p /\ b * p \in Int
    BY <2>1, WorthMore
  <2> QED
    BY <1>17, <2>1, <2>2
<1>19. \A u \in Tickers : u # t => Valued(u)' = Valued(u)
  BY <1>8, <1>12 DEF Valued
<1>20. Valued(t) \in Int /\ Valued(t) <= Reach(t) * p
  BY <1>16, ValuedType DEF IInv
<1>21. side = "buy" => Valued(t)' \in Int /\ Valued(t)' <= Valued(t) + value
  <2> SUFFICES ASSUME side = "buy" PROVE Valued(t)' \in Int /\ Valued(t)' <= Valued(t) + value
    OBVIOUS
  <2>1. PICK a \in Int, d \in Nat : a = Reach(t) /\ d = discount[t]
    BY <1>8, ReachType DEF IInv
  <2>2. Valued(t) = a * p - d /\ Valued(t)' = (a + qty) * p - (d + extra)
    BY <1>8, <1>12, <1>16, <2>1 DEF Valued
  <2>3. (a + qty) * p = a * p + qty * p /\ a * p \in Int /\ qty * p \in Int
    OBVIOUS
  <2>4. qty * p - extra <= value
    BY <1>2, <1>13, <1>16, PriceGap
  <2> QED
    BY <2>1, <2>2, <2>3, <2>4
<1>22. TickerCapped'
  <2> SUFFICES ASSUME NEW u \in Tickers \ sold'
               PROVE  100 * Valued(u)' <= MaxSingleTicker * Equity * (1 + missed'[u])
    BY DEF TickerCapped
  <2>1. 100 * Valued(u) <= MaxSingleTicker * Equity * (1 + missed[u])
    BY <1>7 DEF IInv, TickerCapped
  <2>2. CASE u # t
    BY <1>8, <1>19, <2>1, <2>2
  <2>3. CASE u = t
    <3>1. side = "buy"
      BY <1>7, <2>3
    <3>2. PICK v \in Int, w \in Int, k \in Nat : v = Valued(t) /\ w = Valued(t)' /\ k = missed[t]
      BY <1>8, <1>20, <1>21, <3>1
    <3>3. w <= v + value
      BY <1>21, <3>1, <3>2
    <3>4. e * k \in Nat /\ 20 * e * (1 + k) = 20 * e + 20 * (e * k)
      OBVIOUS
    <3>5. CASE Current(held[r], t)
      <4>1. PICK a \in Int, b \in Int : a = Reach(t) /\ b = state[t]
        BY ReachTyped DEF IInv
      <4>2. a <= b
        BY <1>14, <4>1, <3>5 DEF Current, Sector
      <4>3. a * p \in Int /\ b * p \in Int /\ a * p <= b * p
        BY <4>2, WorthMore
      <4>4. 100 * (b * p + value) <= 20 * e /\ v <= a * p
        BY <1>17, <1>20, <3>2, <4>1
      <4>5. 100 * w <= 20 * e * (1 + k)
        BY <3>3, <3>4, <4>3, <4>4
      <4>6. missed'[t] = k
        BY <1>8, <3>1, <3>2, <3>5
      <4> QED
        BY <1>16, <2>3, <3>2, <4>5, <4>6 DEF MaxSingleTicker
    <3>6. CASE ~Current(held[r], t)
      <4>1. 100 * v <= 20 * e * (1 + k)
        BY <1>16, <2>1, <2>3, <3>2 DEF MaxSingleTicker
      <4>2. 100 * value <= 20 * e
        BY <1>18, <2>3
      <4>3. 20 * e * (1 + (k + 1)) = 20 * e + 20 * e + 20 * (e * k)
        OBVIOUS
      <4>4. 100 * w <= 20 * e * (1 + (k + 1))
        BY <3>3, <3>4, <4>1, <4>2, <4>3
      <4>5. missed'[t] = k + 1
        BY <1>8, <3>1, <3>2, <3>6
      <4> QED
        BY <1>16, <2>3, <3>2, <4>4, <4>5 DEF MaxSingleTicker
    <3> QED
      BY <3>5, <3>6
  <2> QED
    BY <2>2, <2>3
<1>23. SectorCapped'
  <2> SUFFICES ASSUME NEW s \in Sectors, Sector(s) \cap sold' = {}
               PROVE  100 * Total([u \in Tickers |-> Valued(u)'], Sector(s))
                        <= (40 + MaxSingleTicker * Total(missed', Sector(s))) * Equity
    BY DEF SectorCapped, Missed
  <2> DEFINE f == [u \in Tickers |-> Valued(u)]
             h == [u \in Tickers |-> Exposure(state, u)]
  <2>1. PICK g : g = [u \in Tickers |-> Valued(u)']
    OBVIOUS
  <2>2. PICK old : old = missed
    OBVIOUS
  <2>3. PICK new : new = missed'
    OBVIOUS
  <2>4. Sector(s) \subseteq Tickers \ sold' /\ Sector(s) \subseteq Tickers \ sold /\ IsFiniteSet(Sector(s))
    BY <1>7, SectorType
  <2>5. 100 * Total(f, Sector(s)) <= (40 + 20 * Total(old, Sector(s))) * e
    BY <1>7, <1>16, <2>2 DEF IInv, SectorCapped, Missed, MaxSingleTicker
  <2>6. \A u \in Tickers : f[u] \in Int
    BY ValuedTyped DEF IInv
  <2>7. \A u \in Tickers : u # t => g[u] = f[u]
    BY <1>19, <2>1
  <2>8. \A u \in Tickers : old[u] \in Nat /\ new[u] \in Nat /\ (u # t => new[u] = old[u])
    BY <1>8, <2>2, <2>3 DEF IInv, TypeOK
  <2>9. PICK k \in Nat : k = Total(old, Sector(s))
    BY <2>2, MissedType DEF IInv, Missed
  <2>10. Total(f, Sector(s)) \in Int
    <3> HIDE DEF f
    <3> QED
      BY <2>4, <2>6, TotalType
  <2>11. e * k \in Nat /\ (40 + 20 * k) * e = 40 * e + 20 * (e * k)
    OBVIOUS
  <2>12. CASE t \notin Sector(s)
    <3>1. \A u \in Sector(s) : f[u] \in Int /\ g[u] = f[u] /\ old[u] \in Int /\ new[u] = old[u]
      BY <2>4, <2>6, <2>7, <2>8, <2>12
    <3> HIDE DEF f
    <3>2. Total(f, Sector(s)) = Total(g, Sector(s)) /\ Total(old, Sector(s)) = Total(new, Sector(s))
      BY <2>4, <3>1, TotalSame
    <3> QED
      BY <1>16, <2>1, <2>3, <2>5, <3>2 DEF MaxSingleTicker
  <2>13. CASE t \in Sector(s)
    <3>1. side = "buy" /\ s = SectorOf[t] /\ t \notin sold'
      BY <1>7, <2>4, <2>13 DEF Sector
    <3>2. g[t] \in Int /\ g[t] <= f[t] + value
      BY <1>21, <2>1, <3>1
    <3>3. \A u \in Sector(s) : f[u] \in Int /\ (u # t => g[u] = f[u])
      BY <2>4, <2>6, <2>7
    <3>4. f[t] \in Int /\ g[t] \in Int
      BY <2>6, <3>2
    <3>5. Total(g, Sector(s)) \in Int /\ Total(g, Sector(s)) <= Total(f, Sector(s)) + value
      <4> HIDE DEF f
      <4>1. Total(g, Sector(s)) = Total(f, Sector(s)) + g[t] - f[t]
        BY <2>4, <2>13, <3>3, <3>4, TotalChange
      <4> QED
        BY <2>10, <3>2, <3>4, <4>1
    <3>6. CASE Current(state, t)
      <4>1. \A u \in Sector(s) : f[u] \in Int /\ h[u] \in Int /\ f[u] <= h[u]
        <5> SUFFICES ASSUME NEW u \in Sector(s) PROVE f[u] \in Int /\ h[u] \in Int /\ f[u] <= h[u]
          OBVIOUS
        <5>1. Reach(u) \in Int /\ state[u] \in Int /\ Reach(u) <= state[u] /\ Price[u] \in Nat
          BY <2>4, <3>1, <3>6, ReachType, PortfolioAssumption DEF IInv, Current
        <5>2. Valued(u) \in Int /\ Valued(u) <= Reach(u) * Price[u]
          BY <2>4, ValuedType DEF IInv
        <5>3. f[u] = Valued(u) /\ h[u] = state[u] * Price[u]
          BY <2>4 DEF Exposure
        <5>4. Reach(u) * Price[u] \in Int /\ state[u] * Price[u] \in Int /\ Reach(u) * Price[u] <= state[u] * Price[u]
          BY <5>1, WorthMore
        <5> QED
          BY <5>2, <5>3, <5>4
      <4>2. 100 * (Total(h, Sector(s)) + value) <= 40 * e
        BY <1>15, <1>16, <3>1 DEF UnderSectorCap, SectorExposure
      <4> HIDE DEF f, h
      <4>3. Total(f, Sector(s)) <= Total(h, Sector(s)) /\ Total(h, Sector(s)) \in Int
        BY <2>4, <4>1, TotalMonotone, TotalType
      <4>4. 100 * Total(g, Sector(s)) <= 40 * e
        BY <2>10, <3>5, <4>2, <4>3
      <4>5. \A u \in Sector(s) : old[u] \in Int /\ new[u] = old[u]
        BY <1>8, <1>14, <2>2, <2>3, <2>4, <2>8, <3>1, <3>6
      <4>6. Total(new, Sector(s)) = k
        BY <2>4, <2>9, <4>5, TotalSame
      <4>7. 100 * Total(g, Sector(s)) <= (40 + 20 * k) * e
        BY <2>10, <2>11, <3>5, <4>4
      <4> QED
        BY <1>16, <2>1, <2>3, <4>6, <4>7 DEF MaxSingleTicker
    <3>7. CASE ~Current(state, t)
      <4>1. new[t] = old[t] + 1
        BY <1>8, <1>14, <2>2, <2>3, <3>1, <3>7
      <4>2. \A u \in Sector(s) : old[u] \in Int /\ (u # t => new[u] = old[u])
        BY <2>4, <2>8
      <4>3. old[t] \in Int /\ new[t] \in Int
        BY <2>8
      <4>4. Total(new, Sector(s)) = Total(old, Sector(s)) + new[t] - old[t]
        BY <2>4, <2>13, <4>2, <4>3, TotalChange
      <4>5. Total(new, Sector(s)) = k + 1
        BY <2>9, <4>1, <4>3, <4>4
      <4>6. 100 * value <= 20 * e
        BY <1>18, <3>1
      <4> HIDE DEF f
      <4>7. 100 * Total(f, Sector(s)) <= 40 * e + 20 * (e * k)
        BY <2>5, <2>9, <2>11
      <4>8. (40 + 20 * (k + 1)) * e = 40 * e + 20 * e + 20 * (e * k)
        OBVIOUS
      <4>9. 100 * Total(g, Sector(s)) <= (40 + 20 * (k + 1)) * e
        BY <2>10, <2>11, <3>5, <4>6, <4>7, <4>8
      <4> QED
        BY <1>16, <2>1, <2>3, <4>5, <4>9 DEF MaxSingleTicker
    <3> QED
      BY <3>6, <3>7
  <2> QED
    BY <2>12, <2>13
<1> QED
  BY <1>9, <1>11, <1>22, <1>23 DEF IInv

(* Every step keeps the limits, and what they rest on.                     *)
LEMMA LimitsStep == ASSUME IInv, [Next]_vars PROVE IInv'
<1>1. TypeOK'
  BY TypeStep DEF IInv
<1>2. CASE UNCHANGED vars
  BY <1>1, <1>2, QuietKeeps DEF vars, history
<1>3. ASSUME NEW r \in Runners, Run(r) PROVE IInv'
  <2>1. CASE BeginTrend \/ BeginReversion \/ BeginProposal(r)
    <3>1. PICK q \in Runners : held' = [held EXCEPT ![q] = shares]
      BY <1>3, <2>1 DEF BeginTrend, BeginReversion, BeginProposal, Begin, Runners
    <3>2. UNCHANGED <<shares, sent, open, history>>
      BY <2>1 DEF BeginTrend, BeginReversion, BeginProposal, Begin, history
    <3>3. \A x \in Runners : held'[x] \in {held[x], shares, Nothing}
      BY <3>1 DEF IInv, TypeOK
    <3> QED
      BY <1>1, <3>2, <3>3, QuietKeeps
  <2>2. ASSUME NEW t \in Tickers, Refuse(r, t) PROVE IInv'
    <3>1. UNCHANGED <<shares, sent, open, history>>
      BY <2>2 DEF Refuse, history
    <3>2. held' = held \/ held' = [held EXCEPT ![r] = Nothing]
      BY <2>2 DEF Refuse, Decided
    <3>3. \A x \in Runners : held'[x] \in {held[x], shares, Nothing}
      BY <3>2 DEF IInv, TypeOK
    <3> QED
      BY <1>1, <3>1, <3>3, QuietKeeps
  <2> QED
    BY <1>1, <1>3, <2>1, <2>2, OrderKeeps DEF Run
<1> QED
  BY <1>1, <1>2, <1>3, FillKeeps, CancelKeeps, CloseKeeps DEF Next

(* The limits hold at the start, and so does what they rest on.            *)
LEMMA LimitsAtStart == Init => IInv
<1> SUFFICES ASSUME Init PROVE IInv
  OBVIOUS
<1>1. TypeOK
  BY PortfolioAssumption DEF Init, TypeOK, Nothing, Free, Orders, Sides, Sleeves, Runners
<1>2. LongOnly /\ Unsent
  BY DEF Init, LongOnly, Unsent, Nothing, Free
<1>3. \A t \in Tickers : Reach(t) = 0
  <2> SUFFICES ASSUME NEW t \in Tickers PROVE Reach(t) = 0
    OBVIOUS
  <2>1. \A o \in Orders : [x \in Orders |-> Buying(t, x)][o] = 0
    BY DEF Init, Buying, Free
  <2>2. Total([o \in Orders |-> Buying(t, o)], Orders) = 0
    BY <1>1, <2>1, ReachType, TotalZero
  <2>3. shares[t] = 0
    BY DEF Init, Nothing
  <2> QED
    BY <2>2, <2>3 DEF Reach
<1>4. Equity \in Nat /\ \A t \in Tickers : Price[t] \in Nat
  BY PortfolioAssumption
<1>5. \A t \in Tickers : Valued(t) = 0
  BY <1>3, <1>4 DEF Init, Nothing, Valued
<1>6. TickerCapped
  <2> SUFFICES ASSUME NEW t \in Tickers
               PROVE  100 * Valued(t) <= MaxSingleTicker * Equity * (1 + missed[t])
    BY DEF TickerCapped
  <2>1. missed[t] = 0
    BY DEF Init, Nothing
  <2> QED
    BY <1>4, <1>5, <2>1 DEF MaxSingleTicker
<1>7. SectorCapped
  <2> SUFFICES ASSUME NEW s \in Sectors
               PROVE  100 * Total([t \in Tickers |-> Valued(t)], Sector(s))
                        <= (40 + MaxSingleTicker * Missed(s)) * Equity
    BY DEF SectorCapped
  <2>1. \A u \in Sector(s) : [t \in Tickers |-> Valued(t)][u] = 0
    BY <1>5 DEF Sector
  <2>2. Total([t \in Tickers |-> Valued(t)], Sector(s)) = 0
    BY <2>1, SectorType, TotalZero
  <2>3. PICK k \in Nat : k = Missed(s)
    BY <1>1, MissedType
  <2>4. (40 + 20 * k) * Equity \in Nat
    BY <1>4
  <2> QED
    BY <2>2, <2>3, <2>4 DEF MaxSingleTicker
<1> QED
  BY <1>1, <1>2, <1>6, <1>7 DEF IInv

(* The limits always hold.                                                 *)
LEMMA LimitsInvariant == Spec => []IInv
<1>1. IInv /\ [Next]_vars => IInv'
  BY LimitsStep
<1> QED
  BY <1>1, LimitsAtStart, PTL DEF Spec

(* What was never sold takes no more than 20% of equity per ticker, shares *)
(* and open orders together, and as much again for each buy of it decided  *)
(* on a state that had missed a share or an open order of its sector; what *)
(* it is worth beyond that is what its buys were valued too low when their *)
(* quote had failed, nothing if all had one.  For any universe, prices,    *)
(* stops and made-up entries, any interleaving of app and worker, and any  *)
(* order of fills, cancellations and closes.                               *)
THEOREM TickersWithinCap == Spec => []TickerCapped
<1>1. IInv => TickerCapped
  BY DEF IInv
<1> QED
  BY <1>1, LimitsInvariant, PTL

(* And a sector takes no more than 40%, however its tickers are bought,    *)
(* and 20% for each such buy of one of them, with the same exception.      *)
THEOREM SectorsWithinCap == Spec => []SectorCapped
<1>1. IInv => SectorCapped
  BY DEF IInv
<1> QED
  BY <1>1, LimitsInvariant, PTL
=============================================================================
