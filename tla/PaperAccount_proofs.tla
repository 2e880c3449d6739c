------------------------- MODULE PaperAccount_proofs -------------------------
(***************************************************************************)
(* Theorems about PaperAccount, for any number of processes, tickers,      *)
(* keys, trades and resets, whatever trade dates the calls carry.          *)
(***************************************************************************)
EXTENDS PaperAccount, WellFoundedInduction, TLAPS

-----------------------------------------------------------------------------
(* Commissions. *)

LEMMA QuotientBound ==
  ASSUME NEW a \in Nat, NEW r \in Nat \ {0}
  PROVE  a \div r \in Nat /\ a \div r <= a
OBVIOUS

LEMMA FeeBounds ==
  ASSUME NEW a \in Nat
  PROVE  /\ Fee(a) \in Nat
         /\ Fee(a) > 0
         /\ MinFee <= a => Fee(a) <= a
BY QuotientBound, BookAssumption DEF Fee

LEMMA OrderMoney ==
  ASSUME NEW o \in Order
  PROVE  /\ Amount(o) \in Nat /\ Fee(Amount(o)) \in Nat /\ Fee(Amount(o)) > 0
         /\ TotalCost(o) \in Nat /\ Proceeds(o) \in Nat
<1>1. o.price \in Nat /\ o.lots \in Nat
  BY BookAssumption DEF Order, OrderOn
<1>2. Amount(o) \in Nat
  BY <1>1 DEF Amount
<1>3. MinFee <= Amount(o)
  BY ProceedsCoverFee DEF Order, OrderOn, Amount
<1> QED
  BY <1>2, <1>3, FeeBounds DEF TotalCost, Proceeds

-----------------------------------------------------------------------------
(* The transactions on a book. *)

LEMMA UnlockKeepsBook ==
  ASSUME NEW b \in Book, NEW d \in Day
  PROVE  /\ UnlockAll(b, d) \in Book
         /\ UnlockAll(b, d).cash = b.cash /\ UnlockAll(b, d).fees = b.fees
         /\ UnlockAll(b, d).held = b.held /\ UnlockAll(b, d).trades = b.trades
         /\ Solvent(b) => Solvent(UnlockAll(b, d))
<1>1. /\ b.cash \in Int /\ b.fees \in Nat /\ b.held \in [Ticker -> Nat]
      /\ b.trades \in Seq(Order)
  BY DEF Book, Holdings
<1>2. /\ UnlockAll(b, d).cash = b.cash /\ UnlockAll(b, d).fees = b.fees
      /\ UnlockAll(b, d).held = b.held /\ UnlockAll(b, d).trades = b.trades
      /\ UnlockAll(b, d).free = b.held
  BY DEF UnlockAll, Book
<1>3. UnlockAll(b, d) \in Book
  BY DEF UnlockAll, Book
<1>4. \A k \in Ticker : 0 <= b.held[k] /\ b.held[k] <= b.held[k]
  BY <1>1
<1>5. Solvent(b) => Solvent(UnlockAll(b, d))
  BY <1>2, <1>4 DEF Solvent
<1> QED
  BY <1>2, <1>3, <1>5

LEMMA BarrierKeepsBook ==
  ASSUME NEW b \in Book, NEW d \in Day
  PROVE  /\ Barrier(b, d) \in Book
         /\ Barrier(b, d).cash = b.cash /\ Barrier(b, d).fees = b.fees
         /\ Barrier(b, d).held = b.held /\ Barrier(b, d).trades = b.trades
         /\ Solvent(b) => Solvent(Barrier(b, d))
BY UnlockKeepsBook DEF Barrier

\* A fill an account can afford leaves a solvent account, one trade longer,
\* with a higher commission total.
LEMMA FillKeepsBook ==
  ASSUME NEW b \in Book, NEW o \in Order, Solvent(b), Affordable(b, o)
  PROVE  /\ Filled(b, o) \in Book
         /\ Solvent(Filled(b, o))
         /\ Filled(b, o).fees > b.fees
         /\ Filled(b, o).trades = Append(b.trades, o)
<1> DEFINE k == o.ticker
<1>1. /\ Fee(Amount(o)) \in Nat /\ Fee(Amount(o)) > 0
      /\ TotalCost(o) \in Nat /\ Proceeds(o) \in Nat
  BY OrderMoney
<1>2. k \in Ticker /\ o.lots \in Nat /\ o.side \in Side
  BY BookAssumption DEF Order, OrderOn
<1>3. /\ b.cash \in Int /\ b.fees \in Nat
      /\ b.held \in [Ticker -> Nat] /\ b.free \in [Ticker -> Nat]
      /\ b.trades \in Seq(Order)
  BY DEF Book, Holdings
<1>4. Append(b.trades, o) \in Seq(Order)
  BY <1>3
<1>5. CASE o.side = "buy"
  <2>1. Filled(b, o) = Bought(b, o)
    BY <1>5 DEF Filled
  <2>2. TotalCost(o) <= b.cash
    BY <1>5 DEF Affordable
  <2>3. /\ Bought(b, o).cash = b.cash - TotalCost(o)
        /\ Bought(b, o).fees = b.fees + Fee(Amount(o))
        /\ Bought(b, o).held = [b.held EXCEPT ![k] = @ + o.lots]
        /\ Bought(b, o).free = b.free
        /\ Bought(b, o).trades = Append(b.trades, o)
    BY DEF Bought, Book
  <2>4. [b.held EXCEPT ![k] = @ + o.lots] \in [Ticker -> Nat]
    BY <1>2, <1>3
  <2>5. b.cash - TotalCost(o) \in Int /\ b.fees + Fee(Amount(o)) \in Nat
    BY <1>1, <1>3
  <2>6. Bought(b, o) \in Book
    BY <1>4, <2>4, <2>5 DEF Bought, Book, Holdings
  <2>7. \A j \in Ticker :
          0 <= b.free[j] /\ b.free[j] <= [b.held EXCEPT ![k] = @ + o.lots][j]
    BY <1>2, <1>3 DEF Solvent
  <2>8. b.cash - TotalCost(o) >= 0
    BY <1>1, <1>3, <2>2
  <2>9. Solvent(Bought(b, o))
    BY <2>3, <2>7, <2>8 DEF Solvent
  <2> QED
    BY <1>1, <1>3, <2>1, <2>3, <2>6, <2>9
<1>6. CASE o.side = "sell"
  <2>1. Filled(b, o) = Sold(b, o)
    BY <1>6 DEF Filled
  <2>2. o.lots <= b.free[k]
    BY <1>6 DEF Affordable
  <2>3. /\ Sold(b, o).cash = b.cash + Proceeds(o)
        /\ Sold(b, o).fees = b.fees + Fee(Amount(o))
        /\ Sold(b, o).held = [b.held EXCEPT ![k] = @ - o.lots]
        /\ Sold(b, o).free = [b.free EXCEPT ![k] = @ - o.lots]
        /\ Sold(b, o).trades = Append(b.trades, o)
    BY DEF Sold, Book
  <2>4. b.free[k] <= b.held[k] /\ b.free[k] \in Nat /\ b.held[k] \in Nat
    BY <1>2, <1>3 DEF Solvent
  <2>5. /\ [b.held EXCEPT ![k] = @ - o.lots] \in [Ticker -> Nat]
        /\ [b.free EXCEPT ![k] = @ - o.lots] \in [Ticker -> Nat]
    BY <1>2, <1>3, <2>2, <2>4
  <2>6. /\ b.cash + Proceeds(o) \in Int /\ b.fees + Fee(Amount(o)) \in Nat
        /\ b.cash + Proceeds(o) >= 0
    BY <1>1, <1>3 DEF Solvent
  <2>7. Sold(b, o) \in Book
    BY <1>4, <2>5, <2>6 DEF Sold, Book, Holdings
  <2>8. \A j \in Ticker :
          /\ 0 <= [b.free EXCEPT ![k] = @ - o.lots][j]
          /\ [b.free EXCEPT ![k] = @ - o.lots][j] <= [b.held EXCEPT ![k] = @ - o.lots][j]
    BY <1>2, <1>3, <2>2, <2>4 DEF Solvent
  <2>9. Solvent(Sold(b, o))
    BY <2>3, <2>6, <2>8 DEF Solvent
  <2> QED
    BY <1>1, <1>3, <2>1, <2>3, <2>7, <2>9
<1> QED
  BY <1>2, <1>5, <1>6 DEF Side

\* What the transaction of an order may do to the book: nothing, or fill an
\* order that is bound to no trade yet and whose snapshot is current.
LEMMA SettledBook ==
  ASSUME NEW b \in Book, NEW o \in Order, Solvent(b), Verdict(b, o) = "filled"
  PROVE  /\ Settled(b, o) \in Book
         /\ Solvent(Settled(b, o))
         /\ Settled(b, o).fees > b.fees
         /\ Settled(b, o).trades = Append(b.trades, o)
         /\ Bound(b, o.key) = {}
         /\ o.base # None => o.base.fees = b.fees
<1> DEFINE open == Barrier(b, o.date)
<1>1. /\ open \in Book /\ open.fees = b.fees /\ open.trades = b.trades /\ Solvent(open)
  BY BarrierKeepsBook DEF Order, OrderOn
<1>2. Bound(b, o.key) = {} /\ Matches(open, o.base) /\ Affordable(open, o)
  BY DEF Verdict, Replay
<1>3. Settled(b, o) = Filled(open, o)
  BY DEF Settled
<1>4. o.base # None => o.base.fees = open.fees
  BY <1>2 DEF Matches, SnapshotOf, FullyLocked
<1> QED
  BY <1>1, <1>2, <1>3, <1>4, FillKeepsBook

-----------------------------------------------------------------------------
(* Sums.  Sums(v) is a recursive function: that there is one, that it is   *)
(* unique, and what it does on a longer sequence.                          *)

LEMMA Induction ==
  ASSUME NEW n \in Nat, NEW S, 0 \in S, \A k \in 0..n : k < n /\ k \in S => k + 1 \in S
  PROVE  \A k \in 0..n : k \in S
<1> SUFFICES ASSUME (0..n) \ S # {} PROVE FALSE
  OBVIOUS
<1> DEFINE T == (0..n) \ S
           R == OpToRel(<, Nat)
<1>1. T \subseteq Nat /\ T # {}
  OBVIOUS
<1>2. \A x, y \in T : y < x => <<y, x>> \in R
  BY <1>1, SMT DEF OpToRel
<1>3. \E x \in T : \A y \in T : ~(<<y, x>> \in R)
  <2> HIDE DEF T, R
  <2> QED
    BY <1>1, NatLessThanWellFounded, WFMin, Zenon DEF R
<1>4. PICK m \in T : \A y \in T : ~(y < m)
  <2> HIDE DEF T, R
  <2> QED
    BY <1>2, <1>3, Zenon
<1>5. m # 0 /\ m - 1 \in 0..n /\ m - 1 < n /\ (m - 1) + 1 = m
  OBVIOUS
<1>6. m - 1 \in S
  BY <1>4, <1>5
<1> QED
  BY <1>5, <1>6

IntSeq == Seq(Int)

\* f sums up the first m elements of v.
SumsUp(f, v, m) ==
  /\ f \in [0..m -> Int] /\ f[0] = 0
  /\ \A k \in 1..m : f[k] = f[k - 1] + v[k]

LEMMA SumsUnique ==
  ASSUME NEW v, NEW w, NEW m \in Nat, NEW f, NEW g, SumsUp(f, v, m), SumsUp(g, w, m),
         \A k \in 1..m : v[k] = w[k]
  PROVE  \A k \in 0..m : f[k] = g[k]
<1> DEFINE S == {k \in 0..m : f[k] = g[k]}
<1>1. 0 \in S
  BY DEF SumsUp
<1>2. ASSUME NEW k \in 0..m, k < m, k \in S PROVE k + 1 \in S
  <2>1. k + 1 \in 1..m /\ (k + 1) - 1 = k
    BY <1>2
  <2> QED
    BY <1>2, <2>1 DEF SumsUp
<1> HIDE DEF S
<1>3. \A k \in 0..m : k \in S
  BY <1>1, <1>2, Induction
<1> QED
  BY <1>3 DEF S

LEMMA SumsExist ==
  ASSUME NEW v \in IntSeq, NEW m \in 0..Len(v)
  PROVE  \E f : SumsUp(f, v, m)
<1> DEFINE n == Len(v)
           S == {k \in 0..n : \E f : SumsUp(f, v, k)}
<1>0. n \in Nat /\ \A k \in 1..n : v[k] \in Int
  BY DEF IntSeq
<1>1. 0 \in S
  <2>1. SumsUp([k \in 0..0 |-> 0], v, 0)
    BY DEF SumsUp
  <2> QED
    BY <1>0, <2>1
<1>2. ASSUME NEW k \in 0..n, k < n, k \in S PROVE k + 1 \in S
  <2>1. PICK f : SumsUp(f, v, k)
    BY <1>2
  <2> DEFINE g == [j \in 0..(k + 1) |-> IF j = k + 1 THEN f[k] + v[k + 1] ELSE f[j]]
  <2>2. g \in [0..(k + 1) -> Int] /\ g[0] = 0
    <3>1. /\ f[k] + v[k + 1] \in Int /\ f[0] = 0 /\ 0 # k + 1 /\ 0 \in 0..(k + 1)
          /\ \A j \in 0..(k + 1) : j # k + 1 => f[j] \in Int
      <4>1. k \in 0..k /\ k + 1 \in 1..n
        BY <1>0, <1>2
      <4>2. \A j \in 0..(k + 1) : j # k + 1 => j \in 0..k
        OBVIOUS
      <4> QED
        BY <1>0, <1>2, <2>1, <4>1, <4>2 DEF SumsUp
    <3> QED
      BY <3>1
  <2>3. ASSUME NEW j \in 1..(k + 1) PROVE g[j] = g[j - 1] + v[j]
    BY <1>2, <2>1 DEF SumsUp
  <2>4. SumsUp(g, v, k + 1)
    BY <2>2, <2>3 DEF SumsUp
  <2> QED
    BY <1>2, <2>4
<1> HIDE DEF S, n
<1>3. \A k \in 0..n : k \in S
  BY <1>0, <1>1, <1>2, Induction
<1> QED
  BY <1>3 DEF S, n

LEMMA SumsAreSums ==
  ASSUME NEW v \in IntSeq
  PROVE  SumsUp(Sums(v), v, Len(v))
<1> DEFINE n == Len(v)
           Body(s) == [k \in 0..n |-> IF k = 0 THEN 0 ELSE s[k - 1] + v[k]]
<1>0. n \in Nat
  BY DEF IntSeq
<1>1. PICK f : SumsUp(f, v, n)
  BY <1>0, SumsExist
<1>2. f = Body(f)
  <2>1. ASSUME NEW k \in 0..n PROVE f[k] = IF k = 0 THEN 0 ELSE f[k - 1] + v[k]
    BY <1>0, <1>1 DEF SumsUp
  <2> QED
    BY <1>1, <2>1 DEF SumsUp
<1>3. Sums(v) = CHOOSE s : s = Body(s)
  BY DEF Sums
<1>4. Sums(v) = Body(Sums(v))
  <2> HIDE DEF Body
  <2> QED
    BY <1>2, <1>3
<1> DEFINE s == Sums(v)
<1>5. /\ s[0] = 0 /\ DOMAIN s = 0..n /\ s = [k \in 0..n |-> s[k]]
      /\ \A k \in 1..n : s[k] = s[k - 1] + v[k]
  <2> HIDE DEF s
  <2>1. s = Body(s)
    BY <1>4 DEF s
  <2> QED
    BY <1>0, <2>1
<1> HIDE DEF s
<1>6. \A k \in 0..n : s[k] \in Int
  <2> DEFINE S == {k \in 0..n : s[k] \in Int}
  <2>1. 0 \in S
    BY <1>0, <1>5
  <2>2. ASSUME NEW k \in 0..n, k < n, k \in S PROVE k + 1 \in S
    <3>1. k + 1 \in 1..n /\ (k + 1) - 1 = k /\ v[k + 1] \in Int
      BY <1>0, <2>2 DEF IntSeq
    <3> QED
      BY <1>5, <2>2, <3>1
  <2> HIDE DEF S
  <2>3. \A k \in 0..n : k \in S
    BY <1>0, <2>1, <2>2, Induction
  <2> QED
    BY <2>3 DEF S
<1>7. s \in [0..n -> Int]
  BY <1>5, <1>6
<1> QED
  BY <1>5, <1>7 DEF SumsUp, s

\* One element more adds that element.
LEMMA SumAppend ==
  ASSUME NEW v \in IntSeq, NEW w \in IntSeq, NEW x \in Int, Len(w) = Len(v) + 1,
         \A k \in 1..Len(v) : w[k] = v[k], w[Len(v) + 1] = x
  PROVE  Sum(w) = Sum(v) + x /\ Sum(v) \in Int
<1> DEFINE n == Len(v)
           f == Sums(v)
           g == Sums(w)
           h == [k \in 0..n |-> g[k]]
<1>0. n \in Nat
  BY DEF IntSeq
<1>1. SumsUp(f, v, n) /\ SumsUp(g, w, n + 1)
  BY SumsAreSums
<1> HIDE DEF f, g, n
<1>2. SumsUp(h, w, n)
  BY <1>0, <1>1 DEF SumsUp
<1> HIDE DEF h
<1>3. h[n] = f[n]
  <2>1. \A k \in 1..n : v[k] = w[k]
    BY DEF n
  <2>2. \A k \in 0..n : f[k] = h[k]
    BY <1>0, <1>1, <1>2, <2>1, SumsUnique
  <2> QED
    BY <1>0, <2>2
<1>4. g[n + 1] = g[n] + x /\ g[n] = h[n] /\ f[n] \in Int
  BY <1>0, <1>1 DEF SumsUp, h, n
<1> QED
  BY <1>3, <1>4 DEF Sum, f, g, n

LEMMA SumEmpty == ASSUME NEW v \in IntSeq, Len(v) = 0 PROVE Sum(v) = 0
BY SumsAreSums DEF Sum, SumsUp

\* Element by element less, less in sum.
LEMMA SumMonotonic ==
  ASSUME NEW v \in IntSeq, NEW w \in IntSeq, Len(v) = Len(w),
         \A k \in 1..Len(v) : v[k] <= w[k]
  PROVE  Sum(v) <= Sum(w)
<1> DEFINE n == Len(v)
           f == Sums(v)
           g == Sums(w)
           S == {k \in 0..n : f[k] <= g[k]}
<1>0. n \in Nat /\ \A k \in 1..n : v[k] \in Int /\ w[k] \in Int /\ v[k] <= w[k]
  BY DEF IntSeq
<1>1. SumsUp(f, v, n) /\ SumsUp(g, w, n)
  BY SumsAreSums
<1> HIDE DEF f, g, n
<1>2. 0 \in S
  BY <1>0, <1>1 DEF SumsUp
<1>3. ASSUME NEW k \in 0..n, k < n, k \in S PROVE k + 1 \in S
  <2>1. k + 1 \in 1..n /\ (k + 1) - 1 = k
    BY <1>0, <1>3
  <2>2. f[k + 1] = f[k] + v[k + 1] /\ g[k + 1] = g[k] + w[k + 1]
        /\ f[k] \in Int /\ g[k] \in Int
    BY <1>1, <2>1 DEF SumsUp
  <2> QED
    BY <1>0, <1>3, <2>1, <2>2
<1> HIDE DEF S
<1>4. \A k \in 0..n : k \in S
  BY <1>0, <1>2, <1>3, Induction
<1> QED
  BY <1>0, <1>4 DEF S, Sum, f, g, n

-----------------------------------------------------------------------------
(* What a trade more does to the sums over the trades. *)

Cashes(b) == [i \in DOMAIN b.trades |-> CashOf(b.trades[i])]
FeesPaid(b) == [i \in DOMAIN b.trades |-> FeeOf(b.trades[i])]
LotsIn(b, side, k, days) == [i \in DOMAIN b.trades |-> LotsOf(b.trades[i], side, k, days)]

LEMMA TradeValues ==
  ASSUME NEW t \in Order
  PROVE  /\ CashOf(t) \in Int /\ FeeOf(t) \in Int
         /\ \A side, k, days : LotsOf(t, side, k, days) \in Nat
<1>1. CashOf(t) \in Int /\ FeeOf(t) \in Int
  BY OrderMoney DEF CashOf, FeeOf
<1>2. t.lots \in Nat
  BY BookAssumption DEF Order, OrderOn
<1> QED
  BY <1>1, <1>2 DEF LotsOf

LEMMA ValueSequences ==
  ASSUME NEW b \in Book, NEW side, NEW k, NEW days
  PROVE  /\ Cashes(b) \in IntSeq /\ FeesPaid(b) \in IntSeq
         /\ LotsIn(b, side, k, days) \in IntSeq
         /\ Len(Cashes(b)) = Len(b.trades) /\ Len(FeesPaid(b)) = Len(b.trades)
         /\ Len(LotsIn(b, side, k, days)) = Len(b.trades)
<1> DEFINE n == Len(b.trades)
<1>1. n \in Nat /\ DOMAIN b.trades = 1..n /\ \A i \in 1..n : b.trades[i] \in Order
  BY DEF Book
<1> HIDE DEF n
<1>2. /\ Cashes(b) \in [1..n -> Int] /\ FeesPaid(b) \in [1..n -> Int]
      /\ LotsIn(b, side, k, days) \in [1..n -> Int]
  BY <1>1, TradeValues DEF Cashes, FeesPaid, LotsIn
<1>3. ASSUME NEW v \in [1..n -> Int] PROVE v \in IntSeq /\ Len(v) = n
  BY <1>1 DEF IntSeq
<1> QED
  BY <1>2, <1>3 DEF n

LEMMA SumsOfAppend ==
  ASSUME NEW a \in Book, NEW b \in Book, NEW o \in Order, a.trades = Append(b.trades, o),
         NEW side, NEW k, NEW days
  PROVE  /\ Sum(Cashes(a)) = Sum(Cashes(b)) + CashOf(o) /\ Sum(Cashes(b)) \in Int
         /\ Sum(FeesPaid(a)) = Sum(FeesPaid(b)) + FeeOf(o) /\ Sum(FeesPaid(b)) \in Int
         /\ LotsTraded(a, side, k, days)
              = LotsTraded(b, side, k, days) + LotsOf(o, side, k, days)
         /\ LotsTraded(b, side, k, days) \in Int
<1> DEFINE n == Len(b.trades)
<1>1. b.trades \in Seq(Order) /\ n \in Nat
  BY DEF Book
<1>2. /\ DOMAIN b.trades = 1..n /\ DOMAIN a.trades = 1..(n + 1) /\ Len(a.trades) = n + 1
      /\ a.trades[n + 1] = o /\ \A i \in 1..n : a.trades[i] = b.trades[i]
  BY <1>1
<1> HIDE DEF n
<1>3. Sum(Cashes(a)) = Sum(Cashes(b)) + CashOf(o) /\ Sum(Cashes(b)) \in Int
  <2>1. /\ \A i \in 1..n : Cashes(a)[i] = Cashes(b)[i]
        /\ Cashes(a)[n + 1] = CashOf(o)
    BY <1>1, <1>2 DEF Cashes
  <2> QED
    BY <1>2, <2>1, TradeValues, ValueSequences, SumAppend DEF n
<1>4. Sum(FeesPaid(a)) = Sum(FeesPaid(b)) + FeeOf(o) /\ Sum(FeesPaid(b)) \in Int
  <2>1. /\ \A i \in 1..n : FeesPaid(a)[i] = FeesPaid(b)[i]
        /\ FeesPaid(a)[n + 1] = FeeOf(o)
    BY <1>1, <1>2 DEF FeesPaid
  <2> QED
    BY <1>2, <2>1, TradeValues, ValueSequences, SumAppend DEF n
<1>5. /\ Sum(LotsIn(a, side, k, days)) = Sum(LotsIn(b, side, k, days)) + LotsOf(o, side, k, days)
      /\ Sum(LotsIn(b, side, k, days)) \in Int
  <2>1. /\ \A i \in 1..n : LotsIn(a, side, k, days)[i] = LotsIn(b, side, k, days)[i]
        /\ LotsIn(a, side, k, days)[n + 1] = LotsOf(o, side, k, days)
    BY <1>1, <1>2 DEF LotsIn
  <2>2. LotsOf(o, side, k, days) \in Int
    BY TradeValues
  <2> QED
    BY <1>2, <2>1, <2>2, ValueSequences, SumAppend DEF n
<1> QED
  BY <1>3, <1>4, <1>5 DEF LotsTraded, LotsIn

\* A fill moves what its trade says.
LEMMA FillMoves ==
  ASSUME NEW b \in Book, NEW o \in Order
  PROVE  /\ Filled(b, o).cash = b.cash + CashOf(o)
         /\ Filled(b, o).fees = b.fees + FeeOf(o)
         /\ \A k \in Ticker :
              Filled(b, o).held[k]
                = b.held[k] + LotsOf(o, "buy", k, Day) - LotsOf(o, "sell", k, Day)
<1>0. o.lots \in Nat /\ TotalCost(o) \in Int /\ Proceeds(o) \in Int
  <2>1. TotalCost(o) \in Nat /\ Proceeds(o) \in Nat
    BY OrderMoney
  <2>2. o.lots \in Nat
    BY BookAssumption DEF Order, OrderOn
  <2> QED
    BY <2>1, <2>2
<1>1. o.ticker \in Ticker /\ o.side \in {"buy", "sell"} /\ o.date \in Day
  BY DEF Order, OrderOn, Side
<1>2. b.cash \in Int /\ b.held \in [Ticker -> Nat]
  BY DEF Book, Holdings
<1>3. CASE o.side = "buy"
  <2>1. /\ Filled(b, o).cash = b.cash - TotalCost(o)
        /\ Filled(b, o).fees = b.fees + Fee(Amount(o))
        /\ Filled(b, o).held = [b.held EXCEPT ![o.ticker] = @ + o.lots]
    BY <1>3 DEF Filled, Bought, Book
  <2> QED
    BY <1>0, <1>1, <1>2, <1>3, <2>1 DEF CashOf, FeeOf, LotsOf
<1>4. CASE o.side = "sell"
  <2>1. /\ Filled(b, o).cash = b.cash + Proceeds(o)
        /\ Filled(b, o).fees = b.fees + Fee(Amount(o))
        /\ Filled(b, o).held = [b.held EXCEPT ![o.ticker] = @ - o.lots]
    BY <1>4 DEF Filled, Sold, Book
  <2> QED
    BY <1>0, <1>1, <1>2, <1>4, <2>1 DEF CashOf, FeeOf, LotsOf
<1> QED
  BY <1>1, <1>3, <1>4

LEMMA NewBookExplained ==
  ASSUME NEW b \in Book, b.trades = << >>, b.cash = Capital, b.fees = 0,
         \A k \in Ticker : b.held[k] = 0
  PROVE  /\ ExplainedByTrades(b)
         /\ \A side, k, days : LotsTraded(b, side, k, days) = 0
<1>1. Len(b.trades) = 0
  OBVIOUS
<1>2. Sum(Cashes(b)) = 0 /\ Sum(FeesPaid(b)) = 0
  BY <1>1, ValueSequences, SumEmpty
<1>3. \A side, k, days : Sum(LotsIn(b, side, k, days)) = 0
  BY <1>1, ValueSequences, SumEmpty
<1> QED
  BY <1>2, <1>3, BookAssumption DEF ExplainedByTrades, LotsTraded, Cashes, FeesPaid, LotsIn

\* Unlocking moves nothing.
LEMMA UnlockExplained ==
  ASSUME NEW b \in Book, NEW d \in Day
  PROVE  /\ ExplainedByTrades(b) => ExplainedByTrades(UnlockAll(b, d))
         /\ \A side, k, days : LotsTraded(UnlockAll(b, d), side, k, days)
                                 = LotsTraded(b, side, k, days)
BY UnlockKeepsBook DEF ExplainedByTrades, LotsTraded

LEMMA SettledExplained ==
  ASSUME NEW b \in Book, Solvent(b), ExplainedByTrades(b), NEW o \in Order
  PROVE  ExplainedByTrades(Settled(b, o))
<1>1. CASE Verdict(b, o) # "filled"
  BY <1>1 DEF Settled
<1>2. CASE Verdict(b, o) = "filled"
  <2> DEFINE open == Barrier(b, o.date)
             a == Filled(open, o)
  <2>1. /\ Settled(b, o) = a /\ a \in Book /\ a.trades = Append(b.trades, o)
        /\ open \in Book /\ open.cash = b.cash /\ open.fees = b.fees /\ open.held = b.held
    BY <1>2, SettledBook, BarrierKeepsBook DEF Settled, Order, OrderOn
  <2>2. /\ a.cash = b.cash + CashOf(o) /\ a.fees = b.fees + FeeOf(o)
        /\ \A k \in Ticker :
             a.held[k] = b.held[k] + LotsOf(o, "buy", k, Day) - LotsOf(o, "sell", k, Day)
    BY <2>1, FillMoves
  <2> HIDE DEF a, open
  <2>3. /\ CashOf(o) \in Int /\ FeeOf(o) \in Int
        /\ \A side, k, days : LotsOf(o, side, k, days) \in Int
    BY TradeValues
  <2>4. /\ b.cash = Capital + Sum(Cashes(b)) /\ b.fees = Sum(FeesPaid(b))
        /\ \A k \in Ticker :
             b.held[k] = LotsTraded(b, "buy", k, Day) - LotsTraded(b, "sell", k, Day)
    BY DEF ExplainedByTrades, Cashes, FeesPaid
  <2>5. a.cash = Capital + Sum(Cashes(a)) /\ a.fees = Sum(FeesPaid(a))
    <3>1. /\ Sum(Cashes(a)) = Sum(Cashes(b)) + CashOf(o) /\ Sum(Cashes(b)) \in Int
          /\ Sum(FeesPaid(a)) = Sum(FeesPaid(b)) + FeeOf(o) /\ Sum(FeesPaid(b)) \in Int
      BY <2>1, SumsOfAppend
    <3> QED
      BY <2>2, <2>3, <2>4, <3>1, BookAssumption
  <2>6. ASSUME NEW k \in Ticker
        PROVE  a.held[k] = LotsTraded(a, "buy", k, Day) - LotsTraded(a, "sell", k, Day)
    <3>1. /\ LotsTraded(a, "buy", k, Day) = LotsTraded(b, "buy", k, Day) + LotsOf(o, "buy", k, Day)
          /\ LotsTraded(b, "buy", k, Day) \in Int
      BY <2>1, SumsOfAppend
    <3>2. /\ LotsTraded(a, "sell", k, Day) = LotsTraded(b, "sell", k, Day) + LotsOf(o, "sell", k, Day)
          /\ LotsTraded(b, "sell", k, Day) \in Int
      BY <2>1, SumsOfAppend
    <3> QED
      BY <2>2, <2>3, <2>4, <3>1, <3>2
  <2> QED
    BY <2>1, <2>5, <2>6 DEF ExplainedByTrades, Cashes, FeesPaid
<1> QED
  BY <1>1, <1>2

-----------------------------------------------------------------------------
(* T+1 on one day after another: what is sellable on day c is no more than *)
(* what was bought before c and is not yet sold.                           *)

Before(d) == {e \in Day : e < d}
UpTo(d) == {e \in Day : e <= d}

Settling(b, c) ==
  /\ \A i \in DOMAIN b.trades : /\ b.trades[i].date <= c
                                /\ b.trades[i].date = c => b.unlocked = c
  /\ \A k \in Ticker :
       b.free[k] <= LotsTraded(b, "buy", k, Before(c)) - LotsTraded(b, "sell", k, Day)
  /\ SettlesNextDay(b)

\* More days, more lots; days on which nothing was traded add none.
LEMMA LotsMonotonic ==
  ASSUME NEW b \in Book, NEW side, NEW k, NEW D, NEW E,
         \A i \in DOMAIN b.trades : b.trades[i].date \in D => b.trades[i].date \in E
  PROVE  LotsTraded(b, side, k, D) <= LotsTraded(b, side, k, E)
<1> DEFINE n == Len(b.trades)
           v == LotsIn(b, side, k, D)
           w == LotsIn(b, side, k, E)
<1>1. n \in Nat /\ DOMAIN b.trades = 1..n /\ \A i \in 1..n : b.trades[i] \in Order
  BY DEF Book
<1>2. v \in IntSeq /\ w \in IntSeq /\ Len(v) = n /\ Len(w) = n
  BY ValueSequences
<1>3. ASSUME NEW i \in 1..n PROVE v[i] <= w[i]
  <2>1. v[i] = LotsOf(b.trades[i], side, k, D) /\ w[i] = LotsOf(b.trades[i], side, k, E)
    BY <1>1 DEF LotsIn
  <2>2. LotsOf(b.trades[i], side, k, D) \in Nat /\ LotsOf(b.trades[i], side, k, E) \in Nat
    BY <1>1, TradeValues
  <2>3. CASE LotsOf(b.trades[i], side, k, D) = 0
    BY <2>1, <2>2, <2>3
  <2>4. CASE LotsOf(b.trades[i], side, k, D) # 0
    <3>1. LotsOf(b.trades[i], side, k, D) = LotsOf(b.trades[i], side, k, E)
      BY <1>1, <2>4 DEF LotsOf
    <3> QED
      BY <2>1, <2>2, <3>1
  <2> QED
    BY <2>3, <2>4
<1> HIDE DEF v, w, n
<1>4. Sum(v) <= Sum(w)
  BY <1>2, <1>3, SumMonotonic
<1> QED
  BY <1>4 DEF LotsTraded, LotsIn, v, w

LEMMA LotsAreInts ==
  ASSUME NEW b \in Book, NEW side, NEW k, NEW D PROVE LotsTraded(b, side, k, D) \in Int
<1>1. LotsIn(b, side, k, D) \in IntSeq
  BY ValueSequences
<1>2. Sum(LotsIn(b, side, k, D)) \in Int
  <2>1. Len(LotsIn(b, side, k, D)) \in Nat
    BY <1>1 DEF IntSeq
  <2> QED
    BY <1>1, <2>1, SumsAreSums DEF Sum, SumsUp
<1> QED
  BY <1>2 DEF LotsTraded, LotsIn

LEMMA BarrierSettles ==
  ASSUME NEW b \in Book, ExplainedByTrades(b), NEW c \in Day, Settling(b, c),
         NEW d \in Day, c <= d, b.unlocked = d => c = d
  PROVE  Settling(Barrier(b, d), d) /\ Barrier(b, d).unlocked = d
<1> DEFINE a == Barrier(b, d)
<1>1. CASE b.unlocked = d
  BY <1>1 DEF Barrier
<1>2. CASE b.unlocked # d
  <2>1. a = UnlockAll(b, d)
    BY <1>2 DEF Barrier
  <2>2. a.trades = b.trades /\ a.free = b.held /\ a.unlocked = d /\ a \in Book
    BY <2>1, UnlockKeepsBook DEF UnlockAll, Book
  <2> HIDE DEF a
  <2>3. \A i \in DOMAIN b.trades : b.trades[i].date \in Day /\ b.trades[i].date < d
    <3> SUFFICES ASSUME NEW i \in DOMAIN b.trades
                 PROVE  b.trades[i].date \in Day /\ b.trades[i].date < d
      OBVIOUS
    <3>1. b.trades[i].date \in Day
      <4>1. b.trades[i] \in Order
        BY DEF Book
      <4> QED
        BY <4>1 DEF Order, OrderOn
    <3>2. c \in Nat /\ d \in Nat /\ b.trades[i].date \in Nat
      BY <3>1, BookAssumption
    <3>3. b.trades[i].date <= c /\ (b.trades[i].date = c => b.unlocked = c)
      BY DEF Settling
    <3> QED
      BY <1>2, <3>1, <3>2, <3>3
  <2>4. ASSUME NEW k \in Ticker
        PROVE  a.free[k] <= LotsTraded(a, "buy", k, Before(d)) - LotsTraded(a, "sell", k, Day)
    <3>1. LotsTraded(b, "buy", k, Day) <= LotsTraded(b, "buy", k, Before(d))
      BY <2>3, LotsMonotonic DEF Before
    <3>2. b.held[k] = LotsTraded(b, "buy", k, Day) - LotsTraded(b, "sell", k, Day)
      BY DEF ExplainedByTrades
    <3>3. /\ LotsTraded(b, "buy", k, Day) \in Int /\ LotsTraded(b, "sell", k, Day) \in Int
          /\ LotsTraded(b, "buy", k, Before(d)) \in Int
      BY LotsAreInts
    <3>4. /\ LotsTraded(a, "buy", k, Before(d)) = LotsTraded(b, "buy", k, Before(d))
          /\ LotsTraded(a, "sell", k, Day) = LotsTraded(b, "sell", k, Day)
      BY <2>2 DEF LotsTraded
    <3> QED
      BY <2>2, <3>1, <3>2, <3>3, <3>4
  <2>5. SettlesNextDay(a)
    BY <2>2 DEF Settling, SettlesNextDay, LotsTraded
  <2>6. \A i \in DOMAIN a.trades : a.trades[i].date <= d
    <3>1. \A x \in Day : x < d => x <= d
      BY BookAssumption
    <3> QED
      BY <2>2, <2>3, <3>1
  <2>7. a.unlocked = d /\ Settling(a, d)
    BY <2>2, <2>4, <2>5, <2>6 DEF Settling
  <2> QED
    BY <2>7 DEF a
<1> QED
  BY <1>1, <1>2

LEMMA FillSettles ==
  ASSUME NEW b \in Book, Solvent(b), NEW c \in Day, Settling(b, c), b.unlocked = c,
         NEW o \in Order, o.date = c, Affordable(b, o)
  PROVE  Settling(Filled(b, o), c)
<1> DEFINE a == Filled(b, o)
<1>1. a \in Book /\ a.trades = Append(b.trades, o)
  BY FillKeepsBook
<1>2. /\ o.ticker \in Ticker /\ o.side \in {"buy", "sell"} /\ o.lots \in Nat
      /\ b.free \in [Ticker -> Nat]
  <2>1. o.lots \in Nat
    BY BookAssumption DEF Order, OrderOn
  <2> QED
    BY <2>1 DEF Order, OrderOn, Side, Book, Holdings
<1>3. /\ \A k \in Ticker : a.free[k] = b.free[k] - LotsOf(o, "sell", k, Day)
      /\ a.unlocked = c
      /\ o.side = "sell" => o.lots <= b.free[o.ticker]
  <2>1. CASE o.side = "buy"
    BY <1>2, <2>1 DEF Filled, Bought, Book, LotsOf
  <2>2. CASE o.side = "sell"
    <3>1. a.free = [b.free EXCEPT ![o.ticker] = @ - o.lots] /\ a.unlocked = c
      BY <2>2 DEF Filled, Sold, Book
    <3>2. o.lots <= b.free[o.ticker]
      BY <2>2 DEF Affordable
    <3> QED
      BY <1>2, <2>2, <3>1, <3>2 DEF LotsOf
  <2> QED
    BY <1>2, <2>1, <2>2
<1> HIDE DEF a
<1>4. \A side, k, D : /\ LotsTraded(a, side, k, D) = LotsTraded(b, side, k, D) + LotsOf(o, side, k, D)
                      /\ LotsTraded(b, side, k, D) \in Int /\ LotsOf(o, side, k, D) \in Nat
  BY <1>1, SumsOfAppend, TradeValues
<1>5. c \in Nat
  BY BookAssumption
<1>6. \A i \in DOMAIN a.trades : /\ a.trades[i].date <= c
                                 /\ a.trades[i].date = c => a.unlocked = c
  <2>1. \A i \in DOMAIN a.trades : a.trades[i] = o \/ (i \in DOMAIN b.trades /\ a.trades[i] = b.trades[i])
    <3>1. b.trades \in Seq(Order)
      BY DEF Book
    <3> QED
      BY <1>1, <3>1
  <2> QED
    BY <1>3, <1>5, <2>1 DEF Settling
<1>7. ASSUME NEW k \in Ticker
      PROVE  a.free[k] <= LotsTraded(a, "buy", k, Before(c)) - LotsTraded(a, "sell", k, Day)
  <2>1. b.free[k] <= LotsTraded(b, "buy", k, Before(c)) - LotsTraded(b, "sell", k, Day)
        /\ b.free[k] \in Nat
    BY <1>2 DEF Settling
  <2>2. LotsOf(o, "buy", k, Before(c)) = 0
    BY <1>5 DEF LotsOf, Before
  <2> QED
    BY <1>3, <1>4, <2>1, <2>2
<1>8. ASSUME NEW d \in Day, NEW k \in Ticker
      PROVE  LotsTraded(a, "sell", k, UpTo(d)) <= LotsTraded(a, "buy", k, Before(d))
  <2>0. d \in Nat
    BY BookAssumption
  <2>1. LotsTraded(b, "sell", k, UpTo(d)) <= LotsTraded(b, "buy", k, Before(d))
    BY DEF Settling, SettlesNextDay, UpTo, Before
  <2>2. CASE LotsOf(o, "sell", k, UpTo(d)) = 0
    BY <1>4, <2>1, <2>2
  <2>3. CASE LotsOf(o, "sell", k, UpTo(d)) # 0
    <3>1. o.side = "sell" /\ o.ticker = k /\ c <= d
          /\ LotsOf(o, "sell", k, UpTo(d)) = o.lots /\ LotsOf(o, "buy", k, Before(d)) = 0
      BY <2>3 DEF LotsOf, UpTo
    <3>2. LotsTraded(b, "sell", k, UpTo(d)) <= LotsTraded(b, "sell", k, Day)
      BY LotsMonotonic DEF UpTo
    <3>3. LotsTraded(b, "buy", k, Before(c)) <= LotsTraded(b, "buy", k, Before(d))
      <4>1. \A x \in Day : x < c => x < d
        BY <1>5, <2>0, <3>1, BookAssumption
      <4> QED
        BY <4>1, LotsMonotonic DEF Before
    <3>4. o.lots <= LotsTraded(b, "buy", k, Before(c)) - LotsTraded(b, "sell", k, Day)
      <4>1. b.free[k] <= LotsTraded(b, "buy", k, Before(c)) - LotsTraded(b, "sell", k, Day)
        BY DEF Settling
      <4> QED
        BY <1>2, <1>3, <1>4, <3>1, <4>1
    <3>5. /\ LotsTraded(b, "buy", k, Before(d)) \in Int
          /\ LotsTraded(b, "buy", k, Before(c)) \in Int
          /\ LotsTraded(b, "sell", k, Day) \in Int
          /\ LotsTraded(b, "sell", k, UpTo(d)) \in Int
      BY LotsAreInts
    <3>6. /\ LotsTraded(a, "sell", k, UpTo(d)) = LotsTraded(b, "sell", k, UpTo(d)) + o.lots
          /\ LotsTraded(a, "buy", k, Before(d)) = LotsTraded(b, "buy", k, Before(d))
      BY <1>4, <3>1, <3>5
    <3> QED
      BY <1>2, <3>2, <3>3, <3>4, <3>5, <3>6
  <2> QED
    BY <2>2, <2>3
<1>9. SettlesNextDay(a)
  BY <1>8 DEF SettlesNextDay, UpTo, Before
<1>10. Settling(a, c)
  BY <1>6, <1>7, <1>9 DEF Settling
<1> QED
  BY <1>10 DEF a

\* An order that is filled brings its day about: the barrier, then the fill.
LEMMA FilledSettles ==
  ASSUME NEW b \in Book, Solvent(b), ExplainedByTrades(b), NEW c \in Day, Settling(b, c),
         NEW o \in Order, c <= o.date, b.unlocked = o.date => c = o.date,
         Verdict(b, o) = "filled"
  PROVE  Settling(Settled(b, o), o.date) /\ Settled(b, o).unlocked = o.date
<1> DEFINE open == Barrier(b, o.date)
<1>1. o.date \in Day
  BY DEF Order, OrderOn
<1>2. Settled(b, o) = Filled(open, o) /\ Affordable(open, o)
  BY DEF Settled, Verdict, Replay
<1>3. open \in Book /\ Solvent(open)
  BY <1>1, BarrierKeepsBook
<1>4. Settling(open, o.date) /\ open.unlocked = o.date
  BY <1>1, BarrierSettles
<1> HIDE DEF open
<1>5. Settling(Filled(open, o), o.date)
  BY <1>1, <1>2, <1>3, <1>4, FillSettles
<1>6. Filled(open, o).unlocked = o.date
  BY <1>3, <1>4 DEF Filled, Bought, Sold, Book
<1> QED
  BY <1>2, <1>5, <1>6

-----------------------------------------------------------------------------
(* The inductive invariant.  A snapshot some trade was sized on has a       *)
(* smaller commission total than the account, which is why no later order  *)
(* can match it.                                                           *)

SnapshotsArePast ==
  \A i \in DOMAIN book.trades :
    book.trades[i].base # None => book.trades[i].base.fees < book.fees

Inv == TypeOK /\ NobodyOwes /\ OneFillPerIntent /\ OneFillPerSnapshot /\ SnapshotsArePast

\* What the invariant says of the book.
Sound(b) ==
  /\ b \in Book /\ Solvent(b) /\ OncePerIntent(b) /\ OncePerSnapshot(b)
  /\ \A i \in DOMAIN b.trades : b.trades[i].base # None => b.trades[i].base.fees < b.fees

LEMMA NewBookSound ==
  ASSUME NEW u \in Day \cup {None} PROVE Sound([NewBook EXCEPT !.unlocked = u])
<1> DEFINE b == [NewBook EXCEPT !.unlocked = u]
<1>1. /\ b.cash = Capital /\ b.fees = 0 /\ b.trades = << >>
      /\ b.held = [k \in Ticker |-> 0] /\ b.free = [k \in Ticker |-> 0]
  BY DEF NewBook
<1>2. b \in Book
  <2>1. [k \in Ticker |-> 0] \in [Ticker -> Nat] /\ << >> \in Seq(Order)
    OBVIOUS
  <2>2. b = [cash |-> Capital, fees |-> 0, held |-> [k \in Ticker |-> 0],
             free |-> [k \in Ticker |-> 0], unlocked |-> u, trades |-> << >>]
    BY DEF NewBook
  <2>3. Capital \in Int /\ 0 \in Nat
    BY BookAssumption
  <2> HIDE DEF b
  <2> QED
    BY <2>1, <2>2, <2>3 DEF Book, Holdings
<1>3. Solvent(b)
  BY <1>1, BookAssumption DEF Solvent
<1> QED
  BY <1>1, <1>2, <1>3 DEF Sound, OncePerIntent, OncePerSnapshot

LEMMA UnlockSound ==
  ASSUME NEW b, Sound(b), NEW d \in Day PROVE Sound(UnlockAll(b, d))
BY UnlockKeepsBook DEF Sound, OncePerIntent, OncePerSnapshot

LEMMA SettledSound ==
  ASSUME NEW b, Sound(b), NEW o \in Order PROVE Sound(Settled(b, o))
<1>1. CASE Verdict(b, o) # "filled"
  BY <1>1 DEF Settled
<1>2. CASE Verdict(b, o) = "filled"
  <2> DEFINE a == Settled(b, o)
             n == Len(b.trades)
  <2>1. /\ a \in Book /\ Solvent(a) /\ a.fees > b.fees
        /\ a.trades = Append(b.trades, o)
        /\ Bound(b, o.key) = {}
        /\ o.base # None => o.base.fees = b.fees
    BY <1>2, SettledBook DEF Sound
  <2>2. b.trades \in Seq(Order) /\ b.fees \in Nat /\ a.fees \in Nat
    BY <2>1 DEF Sound, Book
  <2>3. /\ n \in Nat /\ DOMAIN b.trades = 1..n /\ DOMAIN a.trades = 1..(n + 1)
        /\ a.trades[n + 1] = o
        /\ \A i \in 1..n : a.trades[i] = b.trades[i]
    BY <2>1, <2>2
  <2>4. \A i \in 1..n : b.trades[i] \in Order
    BY <2>2, <2>3
  <2>5. \A i \in 1..n : b.trades[i].key = o.key => o.key = None
    BY <2>1, <2>3 DEF Bound
  <2>6. OncePerIntent(a)
    <3> SUFFICES ASSUME NEW i \in 1..(n + 1), NEW j \in 1..(n + 1),
                        a.trades[i].key = a.trades[j].key, a.trades[i].key # None
                 PROVE  i = j
      BY <2>3 DEF OncePerIntent
    <3>1. CASE i \in 1..n /\ j \in 1..n
      BY <3>1, <2>3 DEF Sound, OncePerIntent
    <3>2. CASE i \in 1..n /\ j = n + 1
      BY <3>2, <2>3, <2>5
    <3>3. CASE i = n + 1 /\ j \in 1..n
      BY <3>3, <2>3, <2>5
    <3> QED
      BY <3>1, <3>2, <3>3, <2>3
  <2>7. \A i \in 1..n : b.trades[i].base # None => b.trades[i].base.fees < b.fees
    BY <2>3 DEF Sound
  <2>8. OncePerSnapshot(a)
    <3> SUFFICES ASSUME NEW i \in 1..(n + 1), NEW j \in 1..(n + 1),
                        a.trades[i].base = a.trades[j].base, a.trades[i].base # None
                 PROVE  i = j
      BY <2>3 DEF OncePerSnapshot
    <3>1. CASE i \in 1..n /\ j \in 1..n
      BY <3>1, <2>3 DEF Sound, OncePerSnapshot
    <3>2. CASE i \in 1..n /\ j = n + 1
      BY <3>2, <2>1, <2>2, <2>3, <2>7
    <3>3. CASE i = n + 1 /\ j \in 1..n
      BY <3>3, <2>1, <2>2, <2>3, <2>7
    <3> QED
      BY <3>1, <3>2, <3>3, <2>3
  <2>9. \A i \in 1..(n + 1) : a.trades[i].base # None => a.trades[i].base.fees < a.fees
    <3> SUFFICES ASSUME NEW i \in 1..(n + 1), a.trades[i].base # None
                 PROVE  a.trades[i].base.fees < a.fees
      OBVIOUS
    <3>1. CASE i \in 1..n
      <4>1. a.trades[i].base.fees \in Nat /\ a.trades[i].base.fees < b.fees
        BY <3>1, <2>3, <2>4, <2>7 DEF Order, OrderOn, Snapshot
      <4> QED
        BY <4>1, <2>1, <2>2
    <3>2. CASE i = n + 1
      BY <3>2, <2>1, <2>2, <2>3
    <3> QED
      BY <3>1, <3>2, <2>3
  <2> QED
    BY <2>1, <2>3, <2>6, <2>8, <2>9 DEF Sound
<1> QED
  BY <1>1, <1>2

LEMMA InvIsSound == Inv <=> TypeOK /\ Sound(book)
BY DEF Inv, TypeOK, Sound, NobodyOwes, OneFillPerIntent, OneFillPerSnapshot, SnapshotsArePast

-----------------------------------------------------------------------------
(* The actions. *)

LEMMA DateOfIsADay == ASSUME TypeOK, NEW d \in Day \cup {None} PROVE DateOf(d) \in Day
BY DEF TypeOK, DateOf

LEMMA ReplyTypes ==
  ASSUME NEW b, NEW o PROVE Replay(b, o) \in Reply /\ Verdict(b, o) \in Reply
BY DEF Replay, Verdict, Reply

LEMMA SnapshotTypes == ASSUME NEW b \in Book PROVE SnapshotOf(b) \in Snapshot
BY DEF Book, Snapshot, SnapshotOf

LEMMA OrderInFlight ==
  ASSUME TypeOK, NEW p \in Proc, call[p].at = "order"
  PROVE  /\ call[p].order \in OrderOn(Day \cup {None})
         /\ [call[p].order EXCEPT !.date = DateOf(@)] \in Order
<1>1. call[p].order \in OrderOn(Day \cup {None})
  BY DEF TypeOK, Call
<1>2. DateOf(call[p].order.date) \in Day
  BY <1>1, DateOfIsADay DEF OrderOn
<1> QED
  BY <1>1, <1>2 DEF Order, OrderOn

LEMMA SubmitTypeOK == ASSUME TypeOK, NEW p \in Proc, Submit(p) PROVE TypeOK'
<1> PICK side \in Side, k \in Ticker, l \in Lots, price \in Price,
         key \in Key \cup {None}, tgt \in Target \cup {None},
         base \in {known[p], None}, d \in Given :
      LET o == [side |-> side, ticker |-> k, lots |-> l, price |-> price,
                key |-> key, target |-> tgt, base |-> base, date |-> d]
      IN  call' = [call EXCEPT ![p] =
            IF Bound(book, key) # {} THEN Done(Replay(book, o))
                                     ELSE [at |-> "order", order |-> o]]
  BY DEF Submit
<1> DEFINE o == [side |-> side, ticker |-> k, lots |-> l, price |-> price,
                 key |-> key, target |-> tgt, base |-> base, date |-> d]
<1>1. o \in OrderOn(Day \cup {None})
  BY GivenAssumption DEF OrderOn, TypeOK
<1>2. Done(Replay(book, o)) \in Call /\ [at |-> "order", order |-> o] \in Call
  BY <1>1, ReplyTypes DEF Done, Call
<1>3. call' \in [Proc -> Call]
  BY <1>2 DEF TypeOK
<1> QED
  BY <1>3 DEF Submit, TypeOK

LEMMA CommitKeeps ==
  ASSUME Inv, NEW p \in Proc, Commit(p) PROVE TypeOK' /\ Sound(book')
<1> DEFINE o == [call[p].order EXCEPT !.date = DateOf(@)]
<1>1. TypeOK /\ Sound(book)
  BY InvIsSound
<1>2. o \in Order
  BY <1>1, OrderInFlight DEF Commit
<1>3. Sound(book')
  BY <1>1, <1>2, SettledSound DEF Commit
<1>4. Done(Verdict(book, o)) \in Call
  BY ReplyTypes DEF Done, Call
<1>5. call' \in [Proc -> Call]
  BY <1>1, <1>4 DEF Commit, TypeOK
<1> QED
  BY <1>1, <1>3, <1>5 DEF Commit, TypeOK, Sound

LEMMA UnlockKeeps ==
  ASSUME Inv, NEW p \in Proc, Unlock(p) PROVE TypeOK' /\ Sound(book')
<1>1. TypeOK /\ Sound(book)
  BY InvIsSound
<1>2. call[p] \in [at : {"unlock", "read"}, date : Day]
  BY <1>1 DEF TypeOK, Call, Unlock
<1>3. Sound(book')
  BY <1>1, <1>2, UnlockSound DEF Unlock
<1>4. [call[p] EXCEPT !.at = "read"] \in Call
  BY <1>2 DEF Call
<1>5. call' \in [Proc -> Call]
  BY <1>1, <1>4 DEF TypeOK, Unlock
<1> QED
  BY <1>1, <1>3, <1>5 DEF Unlock, TypeOK, Sound

LEMMA OthersKeep ==
  ASSUME Inv, NEW p \in Proc,
         Fail(p) \/ BeginRead(p) \/ Read(p) \/ ResetAccount(p) \/ Midnight
  PROVE  TypeOK' /\ Sound(book')
<1>1. TypeOK /\ Sound(book)
  BY InvIsSound
<1>2. CASE Fail(p)
  <2>1. Done("error") \in Call
    BY DEF Done, Call, Reply
  <2> QED
    BY <1>1, <1>2, <2>1 DEF Fail, TypeOK
<1>3. CASE BeginRead(p)
  <2>1. PICK d \in {DateOf(g) : g \in Given} :
          call' = [call EXCEPT ![p] =
            [at |-> IF book.unlocked = d THEN "read" ELSE "unlock", date |-> d]]
    BY <1>3 DEF BeginRead
  <2>2. d \in Day
    BY <1>1, DateOfIsADay, GivenAssumption
  <2>3. [at |-> IF book.unlocked = d THEN "read" ELSE "unlock", date |-> d] \in Call
    BY <2>2 DEF Call
  <2> QED
    BY <1>1, <1>3, <2>1, <2>3 DEF BeginRead, TypeOK
<1>4. CASE Read(p)
  <2>1. Done("none") \in Call
    BY DEF Done, Call, Reply
  <2>2. known' \in [Proc -> Snapshot \cup {None}]
    BY <1>1, <1>4, SnapshotTypes DEF Read, TypeOK
  <2> QED
    BY <1>1, <1>4, <2>1, <2>2 DEF Read, TypeOK
<1>5. CASE ResetAccount(p)
  <2>1. Sound(Reset(book))
    BY <1>1, NewBookSound DEF Reset, TypeOK, Book
  <2>2. MaxResets \in Nat => resets' \in 0..MaxResets
    BY <1>1, <1>5 DEF ResetAccount, TypeOK
  <2> QED
    BY <1>1, <1>5, <2>1, <2>2, BoundsAssumption DEF ResetAccount, TypeOK, Sound
<1>6. CASE Midnight
  BY <1>1, <1>6 DEF Midnight, TypeOK
<1> QED
  BY <1>2, <1>3, <1>4, <1>5, <1>6

LEMMA InvNext == ASSUME Inv, [Next]_vars PROVE Inv'
<1>0. TypeOK /\ Sound(book)
  BY InvIsSound
<1>1. ASSUME NEW p \in Proc, Submit(p) PROVE TypeOK' /\ Sound(book')
  BY <1>0, <1>1, SubmitTypeOK DEF Submit
<1>2. ASSUME NEW p \in Proc, Commit(p) PROVE TypeOK' /\ Sound(book')
  BY <1>2, CommitKeeps
<1>3. ASSUME NEW p \in Proc, Unlock(p) PROVE TypeOK' /\ Sound(book')
  BY <1>3, UnlockKeeps
<1>4. ASSUME NEW p \in Proc, Fail(p) \/ BeginRead(p) \/ Read(p) \/ ResetAccount(p)
      PROVE  TypeOK' /\ Sound(book')
  BY <1>4, OthersKeep
<1>5. ASSUME Midnight PROVE TypeOK' /\ Sound(book')
  BY <1>0, <1>5 DEF Midnight, TypeOK
<1>6. ASSUME UNCHANGED vars PROVE TypeOK' /\ Sound(book')
  BY <1>0, <1>6 DEF vars, TypeOK
<1>7. TypeOK' /\ Sound(book')
  BY <1>1, <1>2, <1>3, <1>4, <1>5, <1>6 DEF Next
<1> QED
  BY <1>7 DEF Inv, Sound, NobodyOwes, OneFillPerIntent, OneFillPerSnapshot, SnapshotsArePast

LEMMA InvInit == ASSUME Init PROVE Inv
<1>1. NewBook = [NewBook EXCEPT !.unlocked = None]
  BY DEF NewBook
<1>2. Sound(book)
  BY <1>1, NewBookSound DEF Init
<1>3. Done("none") \in Call
  BY DEF Done, Call, Reply
<1>4. TypeOK
  BY <1>2, <1>3, BoundsAssumption DEF Init, TypeOK, Sound
<1> QED
  BY <1>2, <1>4, InvIsSound

\* Every reachable state has the invariant: the account is typed and solvent,
\* every intent and every snapshot filled at most once.
THEOREM AccountInvariant == Spec => []Inv
BY InvInit, InvNext, PTL DEF Spec

\* Every value of the state is of its type; above all a holding is never
\* negative.
THEOREM AccountTyped == Spec => []TypeOK
<1>1. Inv => TypeOK
  BY DEF Inv
<1> QED
  BY <1>1, AccountInvariant, PTL

\* Cash, commissions and holdings are always what the trades add up to: no
\* interleaving, rollback, reset or unlock loses or doubles a table's part of a
\* fill (the three writes of buy and of sell).
THEOREM AccountExplained == Spec => []TradesExplainAccount
<1>1. ASSUME Init PROVE TradesExplainAccount
  BY <1>1, InvInit, NewBookExplained DEF Init, Inv, TypeOK, TradesExplainAccount, NewBook
<1>2. ASSUME Inv, TradesExplainAccount, [Next]_vars PROVE TradesExplainAccount'
  <2>1. /\ book \in Book /\ Solvent(book) /\ ExplainedByTrades(book)
        /\ TypeOK
    BY <1>2 DEF Inv, TypeOK, NobodyOwes, TradesExplainAccount
  <2>2. ASSUME NEW p \in Proc, Commit(p) PROVE ExplainedByTrades(book')
    BY <2>1, <2>2, OrderInFlight, SettledExplained DEF Commit
  <2>3. ASSUME NEW p \in Proc, Unlock(p) PROVE ExplainedByTrades(book')
    <3>1. call[p].date \in Day
      BY <2>1, <2>3 DEF TypeOK, Call, Unlock
    <3> QED
      BY <2>1, <2>3, <3>1, UnlockExplained DEF Unlock
  <2>4. ASSUME NEW p \in Proc, ResetAccount(p) PROVE ExplainedByTrades(book')
    <3>1. Sound(Reset(book))
      BY <2>1, NewBookSound DEF Reset, Book
    <3>2. /\ Reset(book).trades = << >> /\ Reset(book).cash = Capital
          /\ Reset(book).fees = 0 /\ \A k \in Ticker : Reset(book).held[k] = 0
      BY DEF Reset, NewBook
    <3> QED
      BY <2>4, <3>1, <3>2, NewBookExplained DEF ResetAccount, Sound
  <2>5. ASSUME NEW p \in Proc, Submit(p) \/ Fail(p) \/ BeginRead(p) \/ Read(p)
        PROVE  book' = book
    BY <2>5 DEF Submit, Fail, BeginRead, Read
  <2>6. ASSUME Midnight \/ UNCHANGED vars PROVE book' = book
    BY <2>6 DEF Midnight, vars
  <2>7. ASSUME book' = book PROVE ExplainedByTrades(book')
    BY <2>1, <2>7
  <2>8. ExplainedByTrades(book')
    BY <1>2, <2>2, <2>3, <2>4, <2>5, <2>6, <2>7 DEF Next
  <2> QED
    BY <2>8 DEF TradesExplainAccount
<1> QED
  BY <1>1, <1>2, AccountInvariant, PTL DEF Spec

\* Nobody ever owes money or shares, however orders, reads and resets of
\* several processes interleave and fail (buy and sell check and change in
\* one transaction).
THEOREM NobodyEverOwes == Spec => []NobodyOwes
<1>1. Inv => NobodyOwes
  BY DEF Inv
<1> QED
  BY <1>1, AccountInvariant, PTL

\* An order intent is filled once at most, whichever processes send it and
\* however often (_existing_order_intent inside the transaction).
THEOREM IntentFilledOnce == Spec => []OneFillPerIntent
<1>1. Inv => OneFillPerIntent
  BY DEF Inv
<1> QED
  BY <1>1, AccountInvariant, PTL

\* Of the orders sized on one snapshot one is filled at most, whatever days
\* begin in between (_assert_account_snapshot with its T+1 exception).
THEOREM SnapshotFilledOnce == Spec => []OneFillPerSnapshot
<1>1. Inv => OneFillPerSnapshot
  BY DEF Inv
<1> QED
  BY <1>1, AccountInvariant, PTL

\* A retry of a filled order is never answered with a complaint about the
\* account: the intent is looked up before the snapshot and the cash.
THEOREM FilledOrderIsReplayed == Spec => RetryIsReplayed
<1> DEFINE Step ==
      \A p \in Proc :
        /\ call[p].at = "order"
        /\ \E i \in Bound(book, call[p].order.key) :
             SameIntent(call[p].order, book.trades[i])
        /\ call'[p].at = "idle"
        => call'[p].reply \in {"replay", "error"}
<1>1. ASSUME Inv, [Next]_vars PROVE [Step]_vars
  <2> SUFFICES ASSUME NEW p \in Proc, call[p].at = "order",
                      NEW i \in Bound(book, call[p].order.key),
                      SameIntent(call[p].order, book.trades[i]),
                      call'[p].at = "idle", Next
               PROVE  call'[p].reply \in {"replay", "error"}
    BY <1>1
  <2> DEFINE o == [call[p].order EXCEPT !.date = DateOf(@)]
  <2>1. /\ TypeOK /\ OneFillPerIntent /\ call \in [Proc -> Call]
        /\ call[p].order \in OrderOn(Day \cup {None})
    BY <1>1, OrderInFlight DEF Inv, TypeOK
  <2>2. o.key = call[p].order.key /\ SameIntent(o, book.trades[i])
    BY <2>1 DEF SameIntent, OrderOn
  <2>3. \A j \in Bound(book, o.key) : j = i
    BY <2>1, <2>2 DEF OneFillPerIntent, OncePerIntent, Bound
  <2>4. Verdict(book, o) = "replay"
    BY <2>2, <2>3 DEF Verdict, Replay
  <2>5. CASE Commit(p)
    BY <2>1, <2>4, <2>5 DEF Commit, Done
  <2>6. CASE Fail(p)
    BY <2>1, <2>6 DEF Fail, Done
  <2>7. CASE ~Commit(p) /\ ~Fail(p)
    <3>1. CASE Midnight \/ \E q \in Proc : ResetAccount(q)
      BY <2>1, <3>1 DEF Midnight, ResetAccount
    <3>2. CASE Submit(p) \/ BeginRead(p) \/ Unlock(p) \/ Read(p)
      BY <2>1, <3>2 DEF Submit, BeginRead, Unlock, Read
    <3>3. ASSUME NEW q \in Proc \ {p},
                 \/ Submit(q) \/ Commit(q) \/ Fail(q)
                 \/ BeginRead(q) \/ Unlock(q) \/ Read(q)
          PROVE  FALSE
      <4>1. \E v : call' = [call EXCEPT ![q] = v]
        <5>1. CASE Submit(q)
          BY <5>1 DEF Submit
        <5>2. CASE BeginRead(q)
          BY <5>2 DEF BeginRead
        <5>3. CASE Commit(q) \/ Fail(q) \/ Unlock(q) \/ Read(q)
          BY <5>3 DEF Commit, Fail, Unlock, Read
        <5> QED
          BY <3>3, <5>1, <5>2, <5>3
      <4> QED
        BY <4>1, <2>1
    <3> QED
      BY <2>7, <3>1, <3>2, <3>3 DEF Next
  <2> QED
    BY <2>5, <2>6, <2>7
<1>2. []Inv /\ [][Next]_vars => [][Step]_vars
  BY <1>1, PTL
<1> QED
  BY <1>2, AccountInvariant, PTL DEF Spec, RetryIsReplayed

-----------------------------------------------------------------------------
(* T+1 for one process alone, on the days of the clock.  Several processes  *)
(* break it: one unlocks late what another has bought since.                *)

\* The account was last used on day c, no later than today; a read that is
\* about to unlock was begun on or after c and still has something to do.
LastUsed(c) ==
  /\ c <= today
  /\ book.unlocked \in {None, c}
  /\ Settling(book, c)
  /\ \A p \in Proc :
       /\ call[p].at = "order" => call[p].order.date = None
       /\ call[p].at = "unlock" =>
            c <= call[p].date /\ call[p].date <= today /\ book.unlocked # call[p].date

LEMMA LastUsedInit ==
  ASSUME Init, ExplainedByTrades(book) PROVE \E c \in Day : LastUsed(c)
<1>1. /\ book \in Book /\ book.trades = << >> /\ book.cash = Capital /\ book.fees = 0
      /\ \A k \in Ticker : book.held[k] = 0 /\ book.free[k] = 0
  BY InvInit DEF Init, Inv, TypeOK, NewBook
<1>2. \A side, k, days : LotsTraded(book, side, k, days) = 0
  BY <1>1, NewBookExplained
<1>3. Settling(book, today)
  BY <1>1, <1>2 DEF Settling, SettlesNextDay
<1>4. today \in Day /\ today <= today
  BY BookAssumption DEF Init
<1> QED
  BY <1>3, <1>4 DEF Init, LastUsed, Done, NewBook

LEMMA LastUsedNext ==
  ASSUME \A p, q \in Proc : p = q, Given = {None},
         Inv, ExplainedByTrades(book), NEW c \in Day, LastUsed(c), [Next]_vars
  PROVE  \E d \in Day : LastUsed(d)'
<1>1. /\ TypeOK /\ book \in Book /\ Solvent(book) /\ today \in Day
      /\ Day \subseteq Nat /\ c \in Nat /\ None \notin Day
      /\ call \in [Proc -> Call] /\ c <= today /\ Settling(book, c)
  BY BookAssumption, NoneIsNoArgument DEF Inv, TypeOK, NobodyOwes, LastUsed
<1>2. ASSUME NEW p \in Proc, Submit(p) PROVE LastUsed(c)'
  <2>1. UNCHANGED <<book, today>>
    BY <1>2 DEF Submit
  <2>2. PICK side \in Side, k \in Ticker, l \in Lots, price \in Price,
             key \in Key \cup {None}, tgt \in Target \cup {None},
             base \in {known[p], None}, d \in Given :
          LET o == [side |-> side, ticker |-> k, lots |-> l, price |-> price,
                    key |-> key, target |-> tgt, base |-> base, date |-> d]
          IN  call' = [call EXCEPT ![p] =
                IF Bound(book, key) # {} THEN Done(Replay(book, o))
                                         ELSE [at |-> "order", order |-> o]]
    BY <1>2 DEF Submit
  <2> DEFINE o == [side |-> side, ticker |-> k, lots |-> l, price |-> price,
                   key |-> key, target |-> tgt, base |-> base, date |-> d]
  <2>3. o.date = None
    OBVIOUS
  <2> HIDE DEF o
  <2>4. \/ call' = [call EXCEPT ![p] = Done(Replay(book, o))]
        \/ call' = [call EXCEPT ![p] = [at |-> "order", order |-> o]]
    BY <2>2 DEF o
  <2> QED
    BY <1>1, <2>1, <2>3, <2>4 DEF LastUsed, Done
<1>3. ASSUME NEW p \in Proc, Commit(p) PROVE \E d \in Day : LastUsed(d)'
  <2> DEFINE o == [call[p].order EXCEPT !.date = DateOf(@)]
  <2>1. /\ o \in Order /\ book' = Settled(book, o) /\ today' = today
        /\ \A q \in Proc : call'[q].at = "idle"
    BY <1>1, <1>3, OrderInFlight DEF Commit, Done
  <2>2. o.date = today
    BY <1>1, <1>3, OrderInFlight DEF Commit, LastUsed, DateOf, OrderOn
  <2> HIDE DEF o
  <2>3. CASE Verdict(book, o) # "filled"
    BY <2>1, <2>3 DEF Settled, LastUsed
  <2>4. CASE Verdict(book, o) = "filled"
    <3>1. book.unlocked = today => c = today
      BY <1>1 DEF LastUsed
    <3>2. Settling(Settled(book, o), today) /\ Settled(book, o).unlocked = today
      BY <1>1, <2>1, <2>2, <2>4, <3>1, FilledSettles
    <3> QED
      BY <1>1, <2>1, <3>2 DEF LastUsed
  <2> QED
    BY <2>3, <2>4
<1>4. ASSUME NEW p \in Proc, Fail(p) \/ Read(p) PROVE LastUsed(c)'
  BY <1>1, <1>4 DEF Fail, Read, LastUsed, Done
<1>5. ASSUME NEW p \in Proc, BeginRead(p) PROVE LastUsed(c)'
  <2>1. call' = [call EXCEPT ![p] =
                   [at |-> IF book.unlocked = today THEN "read" ELSE "unlock",
                    date |-> today]]
    BY <1>5 DEF BeginRead, DateOf
  <2>2. today <= today
    BY <1>1
  <2> QED
    BY <1>1, <1>5, <2>1, <2>2 DEF BeginRead, LastUsed
<1>6. ASSUME NEW p \in Proc, Unlock(p) PROVE \E d \in Day : LastUsed(d)'
  <2> DEFINE d == call[p].date
  <2>1. d \in Day /\ c <= d /\ d <= today /\ book.unlocked # d
    BY <1>1, <1>6 DEF Unlock, LastUsed, Call
  <2>2. Settling(book', d) /\ book'.unlocked = d
    BY <1>1, <1>6, <2>1, BarrierSettles DEF Unlock, Barrier
  <2>3. today' = today /\ \A q \in Proc : call'[q].at = "read"
    BY <1>1, <1>6 DEF Unlock, Call
  <2> HIDE DEF d
  <2> QED
    BY <2>1, <2>2, <2>3 DEF LastUsed
<1>7. ASSUME NEW p \in Proc, ResetAccount(p) PROVE LastUsed(c)'
  <2>1. /\ book' = Reset(book) /\ UNCHANGED <<today, call>>
        /\ Reset(book).unlocked = book.unlocked
    BY <1>7 DEF ResetAccount, Reset, NewBook
  <2>2. /\ Reset(book) \in Book /\ Reset(book).trades = << >>
        /\ Reset(book).cash = Capital /\ Reset(book).fees = 0
        /\ \A k \in Ticker : Reset(book).held[k] = 0 /\ Reset(book).free[k] = 0
    BY <1>1, NewBookSound DEF Reset, Book, NewBook, Sound
  <2>3. \A side, k, days : LotsTraded(Reset(book), side, k, days) = 0
    BY <2>2, NewBookExplained
  <2>4. Settling(Reset(book), c)
    BY <2>2, <2>3 DEF Settling, SettlesNextDay
  <2> QED
    BY <2>1, <2>4 DEF LastUsed
<1>8. ASSUME Midnight PROVE LastUsed(c)'
  <2>1. /\ today' = today + 1 /\ UNCHANGED <<book, call>>
        /\ \A p \in Proc : call[p].at = "unlock" => call[p].date \in Day
    BY <1>1, <1>8 DEF Midnight, Call
  <2>2. c <= today' /\ \A d \in Day : d <= today => d <= today'
    BY <1>1, <2>1
  <2> QED
    BY <2>1, <2>2 DEF LastUsed
<1>9. ASSUME UNCHANGED vars PROVE LastUsed(c)'
  BY <1>9 DEF vars, LastUsed
<1> QED
  BY <1>2, <1>3, <1>4, <1>5, <1>6, <1>7, <1>8, <1>9 DEF Next

\* One process alone whose calls take the date of the clock: what it sells
\* had been bought on an earlier day, also across midnight between the two halves
\* of a read, and whatever fails (with a second process the late unlock of a
\* read frees what the other has bought since).
THEOREM LoneProcessSettles ==
  ASSUME \A p, q \in Proc : p = q, Given = {None}
  PROVE  Spec => []T1Settlement
<1>1. Init /\ TradesExplainAccount => \E c \in Day : LastUsed(c)
  BY LastUsedInit DEF TradesExplainAccount
<1>2. Inv /\ TradesExplainAccount /\ (\E c \in Day : LastUsed(c)) /\ [Next]_vars
        => (\E c \in Day : LastUsed(c))'
  BY LastUsedNext DEF TradesExplainAccount
<1>3. (\E c \in Day : LastUsed(c)) => T1Settlement
  BY DEF LastUsed, Settling, T1Settlement
<1> QED
  BY <1>1, <1>2, <1>3, AccountInvariant, AccountExplained, PTL DEF Spec
=============================================================================
