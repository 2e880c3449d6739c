------------------------------ MODULE PaperBook ------------------------------
(***************************************************************************)
(* The transactions of the paper-trading engine as functions of one user's *)
(* rows (mosaic/paper_trading/engine.py, rules.py).  A book is what SQLite *)
(* keeps for the user: cash and total commission, the quantity and the     *)
(* sellable quantity of every ticker (0 stands for no row), the date of    *)
(* the last T+1 unlock, and the trades since the last reset.               *)
(*                                                                         *)
(* Quantities are lots of 100 shares, money is a natural number and a      *)
(* price is per lot.  Average cost and realised profit decide nothing and  *)
(* are left out, so two snapshots the code tells apart only by them are    *)
(* equal here: the model accepts at least the orders the code accepts.     *)
(***************************************************************************)
EXTENDS Integers, Sequences

CONSTANTS
  Ticker,     \* tickers
  Lots,       \* order sizes, in lots
  Price,      \* prices of one lot
  Key,        \* order intent keys
  Target,     \* final target hashes
  Capital,    \* cash of a fresh account
  FeeRate,    \* a commission is amount \div FeeRate ...
  MinFee,     \* ... but at least this
  Day,        \* trading days, an interval of the naturals
  None        \* an argument not given

ASSUME BookAssumption ==
  /\ Lots \subseteq Nat \ {0}
  /\ Price \subseteq Nat \ {0}
  /\ Capital \in Nat
  /\ FeeRate \in Nat \ {0}
  /\ MinFee \in Nat \ {0}
  /\ Day \subseteq Nat

\* A sale brings in at least its commission: true of any price above five
\* cents a share (MIN_COMMISSION over LOT_SIZE), which the code leaves to the
\* market.
ASSUME ProceedsCoverFee ==
  \A p \in Price, l \in Lots : MinFee <= p * l

ASSUME NoneIsNoArgument == None \notin Key \cup Target \cup Day

-----------------------------------------------------------------------------
Side == {"buy", "sell"}

\* calc_commission: a rate with a floor.
Fee(amount) == IF amount \div FeeRate > MinFee THEN amount \div FeeRate ELSE MinFee

Holdings == [Ticker -> Nat]

\* What the snapshot hash covers.  base |-> None: the caller sent no hash.
Snapshot == [cash : Int, fees : Nat, held : Holdings, free : Holdings]

ASSUME NoneIsNoSnapshot == None \notin Snapshot

\* An order; its date is the one its transaction settles it under, which the
\* code knows but does not store with the trade.
OrderOn(dates) ==
  [side : Side, ticker : Ticker, lots : Lots, price : Price, key : Key \cup {None},
   target : Target \cup {None}, base : Snapshot \cup {None}, date : dates]

Order == OrderOn(Day)

Book ==
  [cash : Int, fees : Nat, held : Holdings, free : Holdings,
   unlocked : Day \cup {None}, trades : Seq(Order)]

NewBook ==
  [cash |-> Capital, fees |-> 0, held |-> [k \in Ticker |-> 0],
   free |-> [k \in Ticker |-> 0], unlocked |-> None, trades |-> << >>]

SnapshotOf(b) == [cash |-> b.cash, fees |-> b.fees, held |-> b.held, free |-> b.free]

-----------------------------------------------------------------------------
\* _update_day_barrier: on any other date than the stored one everything
\* becomes sellable.
UnlockAll(b, d) == [b EXCEPT !.free = b.held, !.unlocked = d]

Barrier(b, d) == IF b.unlocked = d THEN b ELSE UnlockAll(b, d)

\* _existing_order_intent: the rows bound to a key, of which the unique
\* index allows one, and whether they were for the same order.
Bound(b, key) == {i \in DOMAIN b.trades : key # None /\ b.trades[i].key = key}

SameIntent(o, t) == t.ticker = o.ticker /\ t.side = o.side /\ t.target = o.target

Replay(b, o) ==
  IF \A i \in Bound(b, o.key) : SameIntent(o, b.trades[i]) THEN "replay" ELSE "conflict"

\* _assert_account_snapshot: equal, or equal but for a fully locked
\* portfolio that has become fully sellable.
FullyLocked(s) == [s EXCEPT !.free = [k \in Ticker |-> 0]]

Matches_Quantities(b, base) == base = None \/ base.held = b.held

Matches(b, base) ==
  LET now == SnapshotOf(b) IN
  \/ base = None
  \/ base = now
  \/ /\ \E k \in Ticker : b.held[k] > 0
     /\ b.free = b.held
     /\ base = FullyLocked(now)

-----------------------------------------------------------------------------
Amount(o) == o.price * o.lots
TotalCost(o) == Amount(o) + Fee(Amount(o))
Proceeds(o) == Amount(o) - Fee(Amount(o))

Affordable_Held(b, o) ==
  IF o.side = "buy" THEN TotalCost(o) <= b.cash ELSE o.lots <= b.held[o.ticker]

Affordable_BeforeFee(b, o) ==
  IF o.side = "buy" THEN Amount(o) <= b.cash ELSE o.lots <= b.free[o.ticker]

Affordable(b, o) ==
  IF o.side = "buy" THEN TotalCost(o) <= b.cash ELSE o.lots <= b.free[o.ticker]

Bought(b, o) ==
  [b EXCEPT !.cash = @ - TotalCost(o), !.fees = @ + Fee(Amount(o)),
            !.held[o.ticker] = @ + o.lots, !.trades = Append(@, o)]

Sold_Gross(b, o) ==
  [b EXCEPT !.cash = @ + Amount(o), !.fees = @ + Fee(Amount(o)),
            !.held[o.ticker] = @ - o.lots, !.free[o.ticker] = @ - o.lots,
            !.trades = Append(@, o)]

Sold(b, o) ==
  [b EXCEPT !.cash = @ + Proceeds(o), !.fees = @ + Fee(Amount(o)),
            !.held[o.ticker] = @ - o.lots, !.free[o.ticker] = @ - o.lots,
            !.trades = Append(@, o)]

Filled(b, o) == IF o.side = "buy" THEN Bought(b, o) ELSE Sold(b, o)

\* The transaction of buy and sell, in the order of its checks.  One that
\* ends in an error rolls the barrier back with everything else.
Verdict_NoRecheck(b, o) ==
  LET open == Barrier(b, o.date) IN
  CASE ~Matches(open, o.base) -> "stale"
    [] Matches(open, o.base) /\ ~Affordable(open, o) -> "rejected"
    [] OTHER -> "filled"

Verdict_SnapshotFirst(b, o) ==
  LET open == Barrier(b, o.date) IN
  CASE ~Matches(open, o.base) -> "stale"
    [] Matches(open, o.base) /\ Bound(b, o.key) # {} -> Replay(b, o)
    [] OTHER -> IF Affordable(open, o) THEN "filled" ELSE "rejected"

Verdict(b, o) ==
  LET open  == Barrier(b, o.date)
      fresh == Bound(b, o.key) = {}
      same  == Matches(open, o.base)
  IN  CASE ~fresh -> Replay(b, o)
        [] fresh /\ ~same -> "stale"
        [] fresh /\ same /\ ~Affordable(open, o) -> "rejected"
        [] OTHER -> "filled"

Settled(b, o) ==
  IF Verdict(b, o) = "filled" THEN Filled(Barrier(b, o.date), o) ELSE b

\* reset_account: the trades go, and with them the intents; the date of
\* the last unlock stays.
Reset(b) == [NewBook EXCEPT !.unlocked = b.unlocked]

-----------------------------------------------------------------------------
\* The sum of a sequence of integers, by recursion on its length.
Sums(v) == LET sum[n \in 0..Len(v)] == IF n = 0 THEN 0 ELSE sum[n - 1] + v[n] IN sum

Sum(v) == Sums(v)[Len(v)]

\* What a trade moves: money, its commission, and lots of one ticker on one
\* side, if it is of one of the days.
CashOf(t) == IF t.side = "buy" THEN -TotalCost(t) ELSE Proceeds(t)
FeeOf(t) == Fee(Amount(t))
LotsOf(t, side, k, days) ==
  IF t.side = side /\ t.ticker = k /\ t.date \in days THEN t.lots ELSE 0

LotsTraded(b, side, k, days) ==
  Sum([i \in DOMAIN b.trades |-> LotsOf(b.trades[i], side, k, days)])

\* The account is what its trades made of it: cash is the capital less
\* what was paid plus what was received, every holding the difference of the
\* lots bought and sold, the commissions the sum of the trades' (buy and sell
\* update three tables, any of which a rollback or a racing process could
\* leave behind).
ExplainedByTrades(b) ==
  /\ b.cash = Capital + Sum([i \in DOMAIN b.trades |-> CashOf(b.trades[i])])
  /\ b.fees = Sum([i \in DOMAIN b.trades |-> FeeOf(b.trades[i])])
  /\ \A k \in Ticker :
       b.held[k] = LotsTraded(b, "buy", k, Day) - LotsTraded(b, "sell", k, Day)

\* Nobody owes money or shares: cash is never negative, and never more is
\* sellable than is held.
Solvent(b) == b.cash >= 0 /\ \A k \in Ticker : 0 <= b.free[k] /\ b.free[k] <= b.held[k]

\* One trade for one intent, however often and by however many processes
\* the order is sent.
OncePerIntent(b) ==
  \A i, j \in DOMAIN b.trades :
    b.trades[i].key = b.trades[j].key /\ b.trades[i].key # None => i = j

\* The snapshot is a compare-and-swap: of the orders sized on one snapshot
\* one is filled.
OncePerSnapshot(b) ==
  \A i, j \in DOMAIN b.trades :
    b.trades[i].base = b.trades[j].base /\ b.trades[i].base # None => i = j

\* T+1: what was sold up to a day had been bought before that day.
SettlesNextDay(b) ==
  \A d \in Day, k \in Ticker :
    LotsTraded(b, "sell", k, {e \in Day : e <= d})
      <= LotsTraded(b, "buy", k, {e \in Day : e < d})
=============================================================================
