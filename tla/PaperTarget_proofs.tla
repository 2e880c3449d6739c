-------------------------- MODULE PaperTarget_proofs --------------------------
(***************************************************************************)
(* Theorems about PaperTarget, for a target of any length, any prices and  *)
(* lots, and any number of orders of somebody else.                        *)
(***************************************************************************)
EXTENDS PaperTarget, TLAPS

\* The lemmas of PaperAccount_proofs about the transactions on a book.  They
\* say nothing of that module's processes, so any values will do for those.
Account == INSTANCE PaperAccount_proofs
  WITH Proc <- {}, Given <- {}, MaxTrades <- 0, MaxResets <- 0,
       today <- 0, call <- << >>, known <- << >>, resets <- 0

-----------------------------------------------------------------------------
(* The account. *)

Sound(b) ==
  /\ b \in Book /\ Solvent(b) /\ OncePerIntent(b) /\ OncePerSnapshot(b)
  /\ \A i \in DOMAIN b.trades : b.trades[i].base # None => b.trades[i].base.fees < b.fees

LEMMA SameTypes ==
  Account!Book = Book /\ Account!Order = Order /\ Account!Snapshot = Snapshot
BY DEF Account!Book, Book, Account!Holdings, Holdings, Account!Order, Order,
       Account!OrderOn, OrderOn, Account!Side, Side, Account!Snapshot, Snapshot

LEMMA SameSound ==
  ASSUME NEW b
  PROVE  (Account!Sound(b) <=> Sound(b)) /\ (Account!Solvent(b) <=> Solvent(b))
BY SameTypes
DEF Account!Sound, Sound, Account!Solvent, Solvent, Account!OncePerIntent, OncePerIntent,
    Account!OncePerSnapshot, OncePerSnapshot

LEMMA SameTransaction ==
  ASSUME NEW b, NEW o
  PROVE  /\ Account!Settled(b, o) = Settled(b, o)
         /\ Account!Verdict(b, o) = Verdict(b, o)
         /\ Account!Bound(b, o.key) = Bound(b, o.key)
BY DEF Account!Settled, Settled, Account!Verdict, Verdict, Account!Barrier, Barrier,
   Account!UnlockAll, UnlockAll, Account!Filled, Filled, Account!Bought, Bought,
   Account!Sold, Sold, Account!TotalCost, TotalCost, Account!Proceeds, Proceeds,
   Account!Amount, Amount, Account!Fee, Fee, Account!Bound, Bound, Account!Replay, Replay,
   Account!SameIntent, SameIntent, Account!Matches, Matches, Account!SnapshotOf, SnapshotOf,
   Account!FullyLocked, FullyLocked, Account!Affordable, Affordable

LEMMA NewBookSound == Sound(NewBook)
<1>1. Account!Sound([Account!NewBook EXCEPT !.unlocked = None])
  BY Account!NewBookSound, BookAssumption, ProceedsCoverFee, NoneIsNoArgument,
     NoneIsNoSnapshot, SameTypes
<1>2. [Account!NewBook EXCEPT !.unlocked = None] = NewBook
  BY DEF Account!NewBook, NewBook
<1> QED
  BY <1>1, <1>2, SameSound

\* The unlock of a read leaves the trades and the commissions alone.
LEMMA UnlockSound ==
  ASSUME NEW b, Sound(b), NEW d \in Day
  PROVE  /\ Sound(UnlockAll(b, d)) /\ UnlockAll(b, d) \in Book
         /\ UnlockAll(b, d).trades = b.trades /\ UnlockAll(b, d).fees = b.fees
<1>1. Account!Sound(b) /\ b \in Book
  BY SameSound DEF Sound
<1>2. Account!Sound(Account!UnlockAll(b, d))
  BY <1>1, Account!UnlockSound, BookAssumption, ProceedsCoverFee, NoneIsNoArgument,
     NoneIsNoSnapshot, SameTypes
<1>3. Account!UnlockAll(b, d) = UnlockAll(b, d)
  BY DEF Account!UnlockAll, UnlockAll
<1>4. UnlockAll(b, d).trades = b.trades /\ UnlockAll(b, d).fees = b.fees
  BY <1>1 DEF UnlockAll, Book
<1>5. Sound(UnlockAll(b, d))
  BY <1>2, <1>3, SameSound
<1> QED
  BY <1>4, <1>5 DEF Sound

\* A filled order is one trade more and a higher commission total; the order was
\* bound to no trade and the snapshot it carried was current.
LEMMA SettledSound ==
  ASSUME NEW b, Sound(b), NEW o \in Order
  PROVE  /\ Sound(Settled(b, o))
         /\ Verdict(b, o) # "filled" => Settled(b, o) = b
         /\ Verdict(b, o) = "filled" =>
              /\ Settled(b, o).trades = Append(b.trades, o)
              /\ Settled(b, o).fees > b.fees
              /\ Bound(b, o.key) = {}
              /\ o.base # None => o.base.fees = b.fees
<1>1. Account!Sound(b) /\ Account!Solvent(b) /\ b \in Account!Book /\ o \in Account!Order
  BY SameSound, SameTypes DEF Sound
<1>2. Account!Sound(Account!Settled(b, o))
  BY <1>1, Account!SettledSound, BookAssumption, ProceedsCoverFee, NoneIsNoArgument,
     NoneIsNoSnapshot, SameTypes
<1>3. Account!Verdict(b, o) = "filled" =>
        /\ Account!Settled(b, o).trades = Append(b.trades, o)
        /\ Account!Settled(b, o).fees > b.fees
        /\ Account!Bound(b, o.key) = {}
        /\ o.base # None => o.base.fees = b.fees
  BY <1>1, Account!SettledBook, BookAssumption, ProceedsCoverFee, NoneIsNoArgument,
     NoneIsNoSnapshot, SameTypes
<1>4. Verdict(b, o) # "filled" => Settled(b, o) = b
  BY DEF Settled
<1> QED
  BY <1>2, <1>3, <1>4, SameTransaction, SameSound

LEMMA TodayIsADay == Today \in Day /\ Eve \in Day
BY DayAssumption DEF Today, Eve

LEMMA SnapshotTypes == ASSUME NEW b \in Book PROVE SnapshotOf(b) \in Snapshot
BY DEF Book, Snapshot, SnapshotOf

-----------------------------------------------------------------------------
(* The inductive invariant.  A snapshot is outdated once the commission     *)
(* total has risen above the one it was taken at: it never matches again.  *)

Outdated == seen.fees < book.fees

\* The run's trades come after its first snapshot and carry the key of
\* their order.
Keyed ==
  \A j \in Own :
    j > since /\ book.trades[j].key = <<book.trades[j].ticker, book.trades[j].side>>

NotStarted ==
  at = "start" =>
    Own = {} /\ action = 1 /\ since = 0 /\ \A i \in DOMAIN Wanted : report[i] = "open"

Started ==
  at # "start" =>
    /\ since <= Len(book.trades) /\ seen \in Snapshot /\ seen.fees <= book.fees
    /\ at # "done" => action \in DOMAIN Wanted

InOrder ==
  at = "order" =>
    /\ order \in Order /\ order.ticker = Wanted[action] /\ order.base = seen
    /\ order.key = <<order.ticker, order.side>>

\* The first trade after the first snapshot is the run's own, or no trade of
\* the run can follow.
FirstIsOwn ==
  /\ Own # {} => since + 1 \in Own
  /\ at # "start" /\ Own = {} /\ Len(book.trades) > since => Outdated

FilledIsTraded == \A i \in DOMAIN Wanted : report[i] = "filled" => TradesFor(i) # {}

AheadIsClear ==
  at # "done" => \A i \in DOMAIN Wanted :
    /\ i > action \/ (i = action /\ at # "look") => TradesFor(i) = {}
    /\ i = action /\ at = "look" => TradesFor(i) # {}

\* A fill whose answer was lost is the last one: it leaves the run with an
\* outdated snapshot, which it cannot replace without another fill.
LostIsLast ==
  \A i \in DOMAIN Wanted :
    TradesFor(i) # {} /\ report[i] # "filled" /\ ~(i = action /\ at = "look") =>
      /\ \A later \in DOMAIN Wanted : later > i => TradesFor(later) = {}
      /\ at # "done" => Outdated /\ at # "look"

Inv ==
  /\ TypeOK /\ Sound(book) /\ Keyed /\ NotStarted /\ Started /\ InOrder
  /\ FirstIsOwn /\ FilledIsTraded /\ AheadIsClear /\ LostIsLast

LEMMA InvInit == ASSUME Init PROVE Inv
<1>1. Sound(book) /\ book \in Book
  BY NewBookSound DEF Init, Sound
<1>2. book.trades = << >> /\ Own = {} /\ \A i : TradesFor(i) = {}
  BY DEF Init, NewBook, Own, Trades, TradesFor
<1>3. TypeOK
  BY <1>1, WantedAssumption DEF Init, TypeOK, Outcome
<1> QED
  BY <1>1, <1>2, <1>3 DEF Init, Inv, Keyed, NotStarted, Started, InOrder, FirstIsOwn,
     FilledIsTraded, AheadIsClear, LostIsLast

-----------------------------------------------------------------------------
(* What a step does to the trades. *)

LEMMA NoTrade ==
  ASSUME book'.trades = book.trades
  PROVE  Own' = Own /\ \A i : TradesFor(i)' = TradesFor(i)
BY DEF Own, Trades, TradesFor

LEMMA StrangeTrade ==
  ASSUME book.trades \in Seq(Order), NEW o \in Order, o.key = None,
         book'.trades = Append(book.trades, o)
  PROVE  /\ Own' = Own /\ \A i : TradesFor(i)' = TradesFor(i)
         /\ \A j \in Own : j <= Len(book.trades) /\ book'.trades[j] = book.trades[j]
         /\ Len(book'.trades) = Len(book.trades) + 1
<1> DEFINE n == Len(book.trades)
<1>1. /\ n \in Nat /\ DOMAIN book.trades = 1..n /\ DOMAIN book'.trades = 1..(n + 1)
      /\ book'.trades[n + 1] = o /\ \A j \in 1..n : book'.trades[j] = book.trades[j]
      /\ Len(book'.trades) = n + 1
  OBVIOUS
<1> HIDE DEF n
<1>2. Own' = Own
  BY <1>1 DEF Own, Trades
<1>3. \A j \in Own : j \in 1..n
  BY <1>1 DEF Own, Trades
<1>4. \A i : TradesFor(i)' = TradesFor(i)
  BY <1>1, <1>2, <1>3 DEF TradesFor
<1> QED
  BY <1>1, <1>2, <1>3, <1>4 DEF n

LEMMA OwnTrade ==
  ASSUME book.trades \in Seq(Order), NEW o \in Order, o.key # None,
         book'.trades = Append(book.trades, o), NEW n, n = Len(book.trades) + 1
  PROVE  /\ Own' = Own \cup {n} /\ n \notin Own
         /\ \A i \in DOMAIN Wanted :
              /\ Wanted[i] = o.ticker => TradesFor(i)' # {}
              /\ Wanted[i] # o.ticker => TradesFor(i)' = TradesFor(i)
         /\ \A j \in Own : j \in Nat /\ j < n /\ book'.trades[j] = book.trades[j]
         /\ book'.trades[n] = o /\ Len(book'.trades) = n /\ n \in Nat \ {0}
<1>1. /\ n \in Nat \ {0} /\ DOMAIN book.trades = 1..(n - 1) /\ DOMAIN book'.trades = 1..n
      /\ book'.trades[n] = o /\ \A j \in 1..(n - 1) : book'.trades[j] = book.trades[j]
      /\ Len(book'.trades) = n
  OBVIOUS
<1>2. Own' = Own \cup {n} /\ n \notin Own
  BY <1>1 DEF Own, Trades
<1>3. \A j \in Own : j \in 1..(n - 1)
  BY <1>1 DEF Own, Trades
<1>4. ASSUME NEW i \in DOMAIN Wanted
      PROVE  /\ Wanted[i] = o.ticker => TradesFor(i)' # {}
             /\ Wanted[i] # o.ticker => TradesFor(i)' = TradesFor(i)
  <2>1. TradesFor(i)' = {j \in Own \cup {n} : book'.trades[j].ticker = Wanted[i]}
    BY <1>2 DEF TradesFor
  <2>2. \A j \in Own : book'.trades[j].ticker = book.trades[j].ticker
    BY <1>1, <1>3
  <2>3. CASE Wanted[i] = o.ticker
    BY <1>1, <2>1, <2>2, <2>3 DEF TradesFor
  <2>4. CASE Wanted[i] # o.ticker
    BY <1>1, <2>1, <2>2, <2>4 DEF TradesFor
  <2> QED
    BY <2>3, <2>4
<1>5. \A j \in Own : j \in Nat /\ j < n /\ book'.trades[j] = book.trades[j]
  BY <1>1, <1>3
<1> QED
  BY <1>1, <1>2, <1>4, <1>5

LEMMA WantedFacts ==
  /\ Len(Wanted) \in Nat /\ DOMAIN Wanted = 1..Len(Wanted)
  /\ Wanted # << >> => 1 \in DOMAIN Wanted
  /\ \A i \in DOMAIN Wanted : Wanted[i] \in Ticker
  /\ \A i, j \in DOMAIN Wanted : Wanted[i] = Wanted[j] => i = j
BY WantedAssumption

-----------------------------------------------------------------------------
(* The actions. *)

\* Steps of which the invariant sees nothing but their types.
LEMMA AloneKeeps ==
  ASSUME Inv, UNCHANGED <<book, at, action, seen, order, report, since>>, TypeOK'
  PROVE  Inv'
BY DEF Inv, Keyed, NotStarted, Started, InOrder, FirstIsOwn, FilledIsTraded, AheadIsClear,
   LostIsLast, Outdated, Own, Trades, TradesFor

LEMMA ReadsKeep ==
  ASSUME Inv, BeginRead \/ StrangeRead
  PROVE  Inv'
<1>1. TypeOK /\ Clock \in Day
  BY TodayIsADay DEF Inv, Clock
<1>2. UNCHANGED <<book, at, action, seen, order, report, since>> /\ TypeOK'
  BY <1>1, WantedAssumption DEF BeginRead, StrangeRead, runVars, otherVars, TypeOK
<1> QED
  BY <1>2, AloneKeeps

\* The late unlock of a read, for whichever day: it neither trades nor
\* touches the commissions, which are all the invariant knows of the account.
LEMMA UnlocksKeep ==
  ASSUME Inv, Unlock \/ StrangeUnlock
  PROVE  Inv'
<1>1. PICK d \in Day : book' = UnlockAll(book, d)
  BY TodayIsADay DEF Inv, TypeOK, Unlock, StrangeUnlock
<1>2. UNCHANGED <<at, action, seen, order, report, since>>
  BY DEF Unlock, StrangeUnlock, runVars
<1>3. /\ Sound(book') /\ book'.trades = book.trades /\ book'.fees = book.fees
      /\ book' \in Book
  BY <1>1, UnlockSound DEF Inv
<1>4. Own' = Own /\ \A i : TradesFor(i)' = TradesFor(i)
  BY <1>3, NoTrade
<1>5. TypeOK'
  BY <1>2, <1>3 DEF Inv, TypeOK, Unlock, StrangeUnlock, runVars, otherVars
<1>6. Keyed' /\ NotStarted' /\ Started' /\ InOrder'
  BY <1>2, <1>3, <1>4 DEF Inv, Keyed, NotStarted, Started, InOrder
<1>7. FirstIsOwn' /\ FilledIsTraded' /\ AheadIsClear' /\ LostIsLast'
  BY <1>2, <1>3, <1>4 DEF Inv, FirstIsOwn, FilledIsTraded, AheadIsClear, LostIsLast, Outdated
<1> QED
  BY <1>3, <1>5, <1>6, <1>7 DEF Inv

LEMMA StartKeeps == ASSUME Inv, Start PROVE Inv'
<1>1. /\ Sound(book) /\ book \in Book /\ book.trades \in Seq(Order) /\ TypeOK /\ Own = {}
      /\ action = 1 /\ \A i \in DOMAIN Wanted : report[i] = "open"
  BY DEF Inv, Sound, Book, NotStarted, Start
<1>2. book' = book /\ read' = "none" /\ UNCHANGED <<action, order, report, strange, pending>>
  BY DEF Start, Rows, otherVars
<1>3. Own' = {} /\ \A i : TradesFor(i)' = {}
  BY <1>1, <1>2, NoTrade DEF TradesFor
<1>4. seen' \in Snapshot /\ seen'.fees = book'.fees /\ book'.fees \in Nat
  BY <1>1, <1>2, SnapshotTypes DEF Start, SnapshotOf, Book
<1>5. since' = Len(book'.trades) /\ since' \in Nat
  BY <1>1, <1>2 DEF Start
<1>6. at' \in {"plan", "done"} /\ (at' # "done" => action' \in DOMAIN Wanted)
  BY <1>1, <1>2, WantedFacts DEF Start
<1>7. TypeOK'
  BY <1>1, <1>2, <1>4, <1>5, <1>6 DEF TypeOK
<1>8. Keyed' /\ NotStarted' /\ Started' /\ InOrder'
  BY <1>3, <1>4, <1>5, <1>6 DEF Keyed, NotStarted, Started, InOrder
<1>9. FirstIsOwn' /\ FilledIsTraded' /\ AheadIsClear' /\ LostIsLast'
  <2>1. ~(Len(book'.trades) > since')
    BY <1>5
  <2>2. \A i \in DOMAIN Wanted : report'[i] # "filled"
    BY <1>1, <1>2
  <2> QED
    BY <1>3, <1>6, <2>1, <2>2 DEF FirstIsOwn, FilledIsTraded, AheadIsClear, LostIsLast
<1> QED
  BY <1>1, <1>2, <1>7, <1>8, <1>9 DEF Inv

LEMMA PlanKeeps == ASSUME Inv, Plan PROVE Inv'
<1>1. /\ at = "plan" /\ at' = "size" /\ read' = "none"
      /\ UNCHANGED <<book, action, seen, order, report, since, strange, pending>>
  BY DEF Plan, Rows, otherVars
<1>2. TypeOK' /\ Sound(book')
  BY <1>1 DEF Inv, TypeOK
<1>3. Own' = Own /\ \A i : TradesFor(i)' = TradesFor(i)
  BY <1>1, NoTrade
<1> QED
  BY <1>1, <1>2, <1>3
  DEF Inv, Keyed, NotStarted, Started, InOrder, FirstIsOwn, FilledIsTraded, AheadIsClear,
      LostIsLast, Outdated

LEMMA SizeKeeps == ASSUME Inv, Size PROVE Inv'
<1>1. /\ Sound(book) /\ TypeOK /\ Started /\ at = "size" /\ action \in DOMAIN Wanted
  BY DEF Inv, Size, Started
<1>2. /\ UNCHANGED <<book, action, seen, report, since, strange, pending>>
      /\ at' = "order" /\ read' = "none"
  BY DEF Size, Rows, otherVars
<1>3. Own' = Own /\ \A i : TradesFor(i)' = TradesFor(i)
  BY <1>2, NoTrade
<1>4. PICK side \in Side, l \in Lots, price \in Price :
        order' = [side |-> side, ticker |-> Wanted[action], lots |-> l, price |-> price,
                  key |-> <<Wanted[action], side>>, target |-> None, base |-> seen,
                  date |-> Today]
  BY DEF Size, BaseOf
<1>5. <<Wanted[action], side>> \in Key /\ Wanted[action] \in Ticker
  BY <1>1, WantedAssumption, WantedFacts
<1>6. order' \in Order /\ order'.ticker = Wanted[action] /\ order'.base = seen
      /\ order'.key = <<order'.ticker, order'.side>>
  BY <1>1, <1>4, <1>5, TodayIsADay DEF Order, OrderOn, TypeOK
<1>7. TypeOK'
  BY <1>1, <1>2, <1>6 DEF TypeOK
<1>8. Keyed' /\ NotStarted' /\ Started' /\ InOrder'
  BY <1>1, <1>2, <1>3, <1>6 DEF Inv, Keyed, NotStarted, Started, InOrder
<1>9. FirstIsOwn' /\ FilledIsTraded' /\ AheadIsClear' /\ LostIsLast'
  BY <1>1, <1>2, <1>3
  DEF Inv, FirstIsOwn, FilledIsTraded, AheadIsClear, LostIsLast, Outdated
<1> QED
  BY <1>1, <1>2, <1>7, <1>8, <1>9 DEF Inv

\* Going on to the next action.  An outdated snapshot must stay so unless the
\* run was looking for a new one, and a fill that is not reported must have
\* made it so.
LEMMA RecordKeeps ==
  ASSUME Inv, at \in {"plan", "size", "order", "look"}, NEW outcome \in Outcome,
         Record(outcome), NEW a, a = action, book' \in Book, Sound(book'),
         UNCHANGED <<order, since, strange, pending>>, read' \in {read, "none"},
         seen' \in Snapshot, seen'.fees <= book'.fees, since' <= Len(book'.trades),
         Keyed', FirstIsOwn',
         \A i \in DOMAIN Wanted : i # a => TradesFor(i)' = TradesFor(i),
         outcome = "filled" => TradesFor(a)' # {},
         outcome # "filled" /\ TradesFor(a)' # {} => Outdated',
         Outdated /\ at # "look" => Outdated' /\ TradesFor(a)' = TradesFor(a)
  PROVE  Inv'
<1>1. TypeOK /\ a \in DOMAIN Wanted /\ a \in Nat
  BY WantedFacts DEF Inv, Started
<1>2. /\ action' = a + 1 /\ at' \in {"plan", "done"}
      /\ at' # "done" => action' \in DOMAIN Wanted
      /\ report' = [report EXCEPT ![a] = outcome]
  BY <1>1, WantedFacts DEF Record
<1>3. /\ report' \in [DOMAIN Wanted -> Outcome] /\ report'[a] = outcome
      /\ \A i \in DOMAIN Wanted : i # a => report'[i] = report[i]
  BY <1>1, <1>2 DEF TypeOK
<1>4. TypeOK'
  BY <1>1, <1>2, <1>3, WantedFacts DEF TypeOK
<1>5. NotStarted' /\ Started' /\ InOrder'
  BY <1>2 DEF NotStarted, Started, InOrder
<1>6. FilledIsTraded'
  BY <1>1, <1>3 DEF Inv, FilledIsTraded
<1>7. \A i \in DOMAIN Wanted : i > a => TradesFor(i) = {} /\ TradesFor(i)' = {}
  BY <1>1, WantedFacts DEF Inv, AheadIsClear
<1>8. AheadIsClear'
  BY <1>1, <1>2, <1>7, WantedFacts DEF AheadIsClear
<1>9. LostIsLast'
  <2> SUFFICES ASSUME NEW i \in DOMAIN Wanted, TradesFor(i)' # {}, report'[i] # "filled"
               PROVE  /\ \A later \in DOMAIN Wanted : later > i => TradesFor(later)' = {}
                      /\ Outdated'
    BY <1>2 DEF LostIsLast
  <2>1. CASE i = a
    BY <2>1, <1>3, <1>7
  <2>2. CASE i > a
    BY <2>2, <1>7
  <2>3. CASE i < a
    <3>1. TradesFor(i) # {} /\ report[i] # "filled" /\ i # a
      BY <2>3, <1>1, <1>3, WantedFacts
    <3>2. /\ \A later \in DOMAIN Wanted : later > i => TradesFor(later) = {}
          /\ Outdated /\ at # "look"
      BY <3>1 DEF Inv, LostIsLast
    <3>3. \A later \in DOMAIN Wanted : TradesFor(later)' = TradesFor(later)
      BY <3>2
    <3> QED
      BY <3>2, <3>3
  <2> QED
    BY <2>1, <2>2, <2>3, <1>1, WantedFacts
<1> QED
  BY <1>4, <1>5, <1>6, <1>8, <1>9 DEF Inv

\* A step without a trade, after which the snapshot is as old or newer.
LEMMA QuietKeeps ==
  ASSUME Inv, at # "start", at' # "start", book'.trades = book.trades, book'.fees = book.fees,
         since' = since, seen' = seen \/ Own # {}
  PROVE  /\ Own' = Own /\ \A i : TradesFor(i)' = TradesFor(i)
         /\ Keyed' /\ FirstIsOwn'
<1>1. Own' = Own /\ \A i : TradesFor(i)' = TradesFor(i)
  BY NoTrade
<1>2. Keyed' /\ FirstIsOwn'
  BY <1>1 DEF Inv, Keyed, FirstIsOwn, Outdated
<1> QED
  BY <1>1, <1>2

\* The run is at an action it has not traded for, with an order nobody is
\* bound to.
LEMMA AtOrder ==
  ASSUME Inv, at = "order"
  PROVE  /\ action \in DOMAIN Wanted /\ order \in Order /\ order.ticker = Wanted[action]
         /\ order.key # None /\ order.base = seen /\ seen # None
         /\ TradesFor(action) = {} /\ Bound(book, order.key) = {}
         /\ Verdict(book, order) \in {"filled", "stale", "rejected"}
<1>1. /\ action \in DOMAIN Wanted /\ order \in Order /\ order.ticker = Wanted[action]
      /\ order.key = <<order.ticker, order.side>> /\ order.base = seen /\ seen # None
  BY NoneIsNoSnapshot DEF Inv, Started, InOrder
<1>2. order.key # None
  BY <1>1, NoneIsNoArgument, WantedAssumption DEF Order, OrderOn
<1>3. TradesFor(action) = {}
  BY <1>1 DEF Inv, AheadIsClear
<1>4. Bound(book, order.key) = {}
  <2> SUFFICES ASSUME NEW j \in DOMAIN book.trades, book.trades[j].key = order.key
               PROVE  FALSE
    BY DEF Bound
  <2>1. j \in Own
    BY <1>2 DEF Own, Trades
  <2>2. book.trades[j].key = <<book.trades[j].ticker, book.trades[j].side>>
    BY <2>1 DEF Inv, Keyed
  <2>3. book.trades[j].ticker = order.ticker
    BY <1>1, <2>2
  <2> QED
    BY <1>1, <1>3, <2>1, <2>3 DEF TradesFor
<1>5. Verdict(book, order) \in {"filled", "stale", "rejected"}
  BY <1>4 DEF Verdict
<1> QED
  BY <1>1, <1>2, <1>3, <1>4, <1>5

LEMMA NothingToOrderKeeps == ASSUME Inv, NothingToOrder \/ PlanFails PROVE Inv'
<1>1. /\ Sound(book) /\ book \in Book /\ TypeOK /\ Started
      /\ at \in {"plan", "size"} /\ action \in DOMAIN Wanted
  BY DEF Inv, Sound, NothingToOrder, PlanFails, Started
<1>2. /\ UNCHANGED <<book, seen, order, since, strange, pending>> /\ read' = "none"
  BY DEF NothingToOrder, PlanFails, Rows, otherVars
<1>3. PICK outcome \in {"nothing_to_do", "no_plan"} : Record(outcome)
  BY DEF NothingToOrder, PlanFails
<1>4. PICK a : a = action
  OBVIOUS
<1>5. TradesFor(a) = {} /\ outcome # "filled" /\ outcome \in Outcome
  BY <1>1, <1>4 DEF Inv, AheadIsClear, Outcome
<1>6. at # "start" /\ at' # "start"
  BY <1>1, <1>3 DEF Record
<1>7. Keyed' /\ FirstIsOwn' /\ \A i : TradesFor(i)' = TradesFor(i)
  BY <1>2, <1>6, QuietKeeps
<1>8. /\ seen' \in Snapshot /\ seen'.fees <= book'.fees /\ since' <= Len(book'.trades)
      /\ Outdated => Outdated'
  BY <1>1, <1>2, <1>6 DEF Started, Outdated
<1> QED
  BY <1>1, <1>2, <1>3, <1>4, <1>5, <1>7, <1>8, RecordKeeps

\* The run stops: what it has traded so far stays as reported.
LEMMA StopKeeps ==
  ASSUME Inv, at \in {"order", "look"}, NEW outcome \in Outcome, outcome # "filled",
         Stop(outcome, outcome), UNCHANGED <<book, seen, order, since, strange, pending>>,
         read' \in {read, "none"}
  PROVE  Inv'
<1> PICK a : a = action
  OBVIOUS
<1>1. TypeOK /\ a \in DOMAIN Wanted /\ a \in Nat /\ Started
  BY WantedFacts DEF Inv, Started
<1>2. /\ action' = Len(Wanted) + 1 /\ at' = "done" /\ report' \in [DOMAIN Wanted -> Outcome]
      /\ \A i \in DOMAIN Wanted : report'[i] = IF i < a THEN report[i] ELSE outcome
  BY <1>1 DEF Stop, TypeOK
<1>3. Own' = Own /\ \A i : TradesFor(i)' = TradesFor(i)
  BY NoTrade
<1>4. Keyed' /\ FirstIsOwn'
  BY <1>1, <1>2, QuietKeeps
<1>5. TypeOK' /\ Sound(book')
  BY <1>1, <1>2, WantedFacts DEF TypeOK, Inv
<1>6. NotStarted' /\ Started' /\ InOrder' /\ AheadIsClear' /\ FilledIsTraded'
  BY <1>1, <1>2, <1>3
  DEF Inv, NotStarted, Started, InOrder, AheadIsClear, FilledIsTraded
<1>7. LostIsLast'
  <2> SUFFICES ASSUME NEW i \in DOMAIN Wanted, TradesFor(i) # {}, report'[i] # "filled",
                      NEW later \in DOMAIN Wanted, later > i
               PROVE  TradesFor(later) = {}
    BY <1>2, <1>3 DEF LostIsLast
  <2>1. CASE i < a
    BY <2>1, <1>2 DEF Inv, LostIsLast
  <2>2. CASE ~(i < a)
    BY <2>2, <1>1, WantedFacts DEF Inv, AheadIsClear
  <2> QED
    BY <2>1, <2>2
<1> QED
  BY <1>4, <1>5, <1>6, <1>7 DEF Inv

\* A fill of the run: its snapshot was current and is outdated now.
LEMMA RunFills ==
  ASSUME Inv, at = "order", Verdict(book, order) = "filled", book' = Settled(book, order),
         UNCHANGED <<seen, since>>, at' # "start", NEW a, a = action
  PROVE  /\ Sound(book') /\ book' \in Book /\ Keyed' /\ FirstIsOwn'
         /\ ~Outdated /\ Outdated' /\ since' <= Len(book'.trades)
         /\ TradesFor(a)' # {}
         /\ \A i \in DOMAIN Wanted : i # a => TradesFor(i)' = TradesFor(i)
<1> PICK n : n = Len(book.trades) + 1
  OBVIOUS
<1> PICK o : o = order
  OBVIOUS
<1>1. /\ Sound(book) /\ book.trades \in Seq(Order) /\ book.fees \in Nat /\ Started
      /\ since \in Nat
  BY DEF Inv, Sound, Book, TypeOK
<1>2. /\ a \in DOMAIN Wanted /\ o \in Order /\ o.ticker = Wanted[a]
      /\ o.key # None /\ o.base = seen /\ seen # None
      /\ o.key = <<o.ticker, o.side>>
  BY AtOrder DEF Inv, InOrder
<1>3. /\ Sound(book') /\ book'.trades = Append(book.trades, o) /\ book'.fees > book.fees
      /\ seen.fees = book.fees
  BY <1>1, <1>2, SettledSound
<1>4. /\ Own' = Own \cup {n} /\ n \notin Own /\ n \in Nat \ {0}
      /\ \A i \in DOMAIN Wanted :
           /\ Wanted[i] = o.ticker => TradesFor(i)' # {}
           /\ Wanted[i] # o.ticker => TradesFor(i)' = TradesFor(i)
      /\ \A j \in Own : j \in Nat /\ j < n /\ book'.trades[j] = book.trades[j]
      /\ book'.trades[n] = o /\ Len(book'.trades) = n
  BY <1>1, <1>2, <1>3, OwnTrade
<1>5. ~Outdated /\ Outdated' /\ book' \in Book
  BY <1>1, <1>3 DEF Outdated, Sound, Book
<1>6. TradesFor(a)' # {} /\ \A i \in DOMAIN Wanted : i # a => TradesFor(i)' = TradesFor(i)
  BY <1>2, <1>4, WantedFacts
<1>7. since <= n - 1 /\ since < n /\ since <= Len(book'.trades)
  BY <1>1, <1>4 DEF Started
<1>8. Keyed'
  <2>1. \A j \in Own : j > since /\ book'.trades[j].key =
                                      <<book'.trades[j].ticker, book'.trades[j].side>>
    BY <1>4 DEF Inv, Keyed
  <2> QED
    BY <2>1, <1>1, <1>2, <1>4, <1>7 DEF Keyed
<1>9. FirstIsOwn'
  <2>1. since + 1 \in Own \cup {n}
    <3>1. CASE Own = {}
      <4>1. ~(Len(book.trades) > since)
        BY <3>1, <1>5 DEF Inv, FirstIsOwn
      <4> QED
        BY <4>1, <1>1, <1>7
    <3>2. CASE Own # {}
      BY <3>2 DEF Inv, FirstIsOwn
    <3> QED
      BY <3>1, <3>2
  <2> QED
    BY <2>1, <1>4 DEF FirstIsOwn
<1> QED
  BY <1>3, <1>5, <1>6, <1>7, <1>8, <1>9

\* The answer of an order is an error, whatever has become of the order.
LEMMA ErrorKeeps ==
  ASSUME Inv, at = "order", book' \in {book, Settled(book, order)}, AfterAnswer("error"),
         UNCHANGED <<read, seen, order, since, strange, pending>>
  PROVE  Inv'
<1> PICK a : a = action
  OBVIOUS
<1>1. /\ Sound(book) /\ book \in Book /\ TypeOK /\ Started /\ order \in Order
      /\ TradesFor(a) = {}
  BY AtOrder DEF Inv, Sound
<1>2. Record("rejected") /\ at' # "start" /\ "rejected" \in Outcome
  BY DEF AfterAnswer, Record, Outcome
<1>3. CASE book' = book
  <2>1. /\ \A i : TradesFor(i)' = TradesFor(i)
        /\ Keyed' /\ FirstIsOwn'
    BY <1>2, <1>3, QuietKeeps
  <2>2. /\ seen' \in Snapshot /\ seen'.fees <= book'.fees /\ since' <= Len(book'.trades)
        /\ Outdated => Outdated'
    BY <1>1, <1>3 DEF Started, Outdated
  <2> QED
    BY <1>1, <1>2, <1>3, <2>1, <2>2, RecordKeeps
<1>4. CASE book' # book
  <2>1. Verdict(book, order) = "filled" /\ book' = Settled(book, order)
    BY <1>1, <1>4, SettledSound
  <2>2. /\ Sound(book') /\ book' \in Book /\ Keyed' /\ FirstIsOwn'
        /\ ~Outdated /\ Outdated' /\ since' <= Len(book'.trades)
        /\ \A i \in DOMAIN Wanted : i # a => TradesFor(i)' = TradesFor(i)
    BY <1>2, <2>1, RunFills
  <2>3. seen' \in Snapshot /\ seen'.fees <= book'.fees
    BY <1>1, <2>2 DEF Started, Outdated, Book, Snapshot
  <2> QED
    BY <1>2, <2>2, <2>3, RecordKeeps
<1> QED
  BY <1>3, <1>4

LEMMA SendKeeps == ASSUME Inv, Send PROVE Inv'
<1>1. /\ at = "order" /\ book' = Settled(book, order) /\ AfterAnswer(Verdict(book, order))
      /\ UNCHANGED <<read, seen, order, since, strange, pending>>
  BY DEF Send, otherVars
<1>2. Verdict(book, order) \in {"filled", "stale", "rejected"} /\ order \in Order
  BY <1>1, AtOrder
<1>3. Verdict(book, order) # "filled" => book' = book
  BY <1>1 DEF Settled
<1>4. CASE Verdict(book, order) = "rejected"
  BY <1>1, <1>3, <1>4, ErrorKeeps DEF AfterAnswer
<1>5. CASE Verdict(book, order) = "stale"
  BY <1>1, <1>3, <1>5, StopKeeps DEF AfterAnswer, Outcome
<1>6. CASE Verdict(book, order) = "filled"
  <2> PICK a : a = action
    OBVIOUS
  <2>1. at' = "look" /\ UNCHANGED <<action, report>>
    BY <1>1, <1>6 DEF AfterAnswer
  <2>2. /\ Sound(book') /\ book' \in Book /\ Keyed' /\ FirstIsOwn'
        /\ ~Outdated /\ Outdated' /\ since' <= Len(book'.trades)
        /\ TradesFor(a)' # {}
        /\ \A i \in DOMAIN Wanted : i # a => TradesFor(i)' = TradesFor(i)
    BY <1>1, <1>6, <2>1, RunFills
  <2>3. TypeOK' /\ NotStarted' /\ InOrder' /\ action \in DOMAIN Wanted
    BY <1>1, <2>1, <2>2, AtOrder DEF Inv, TypeOK, NotStarted, InOrder
  <2>4. Started'
    BY <1>1, <2>1, <2>2, <2>3 DEF Inv, Started, Outdated, Book, Snapshot
  <2>5. FilledIsTraded' /\ AheadIsClear'
    BY <1>1, <2>1, <2>2, WantedFacts DEF Inv, FilledIsTraded, AheadIsClear
  <2>6. LostIsLast'
    <3>1. ASSUME NEW i \in DOMAIN Wanted, TradesFor(i)' # {}, report[i] # "filled", i # a
          PROVE  FALSE
      BY <3>1, <1>1, <2>2 DEF Inv, LostIsLast
    <3> QED
      BY <3>1, <2>1 DEF LostIsLast
  <2> QED
    BY <2>2, <2>3, <2>4, <2>5, <2>6 DEF Inv
<1> QED
  BY <1>2, <1>4, <1>5, <1>6

LEMMA LookKeeps == ASSUME Inv, Look PROVE Inv'
<1> PICK a : a = action
  OBVIOUS
<1>1. /\ Sound(book) /\ book \in Book /\ TypeOK /\ Started /\ at = "look"
      /\ a \in DOMAIN Wanted /\ TradesFor(a) # {} /\ Own # {}
  BY DEF Inv, Sound, Look, Started, AheadIsClear, TradesFor
<1>2. /\ Record("filled") /\ at' # "start" /\ UNCHANGED <<book, order, since, strange, pending>>
      /\ read' = "none" /\ seen' = SnapshotOf(book)
  BY DEF Look, Record, Rows, otherVars
<1>3. Keyed' /\ FirstIsOwn' /\ \A i : TradesFor(i)' = TradesFor(i)
  BY <1>1, <1>2, QuietKeeps
<1>4. seen' \in Snapshot /\ seen'.fees <= book'.fees /\ since' <= Len(book'.trades)
  <2>1. seen' \in Snapshot /\ book.fees \in Nat /\ seen'.fees = book.fees
    BY <1>1, <1>2, SnapshotTypes DEF SnapshotOf, Book
  <2> QED
    BY <1>1, <1>2, <2>1 DEF Started
<1>5. "filled" \in Outcome
  BY DEF Outcome
<1> QED
  BY <1>1, <1>2, <1>3, <1>4, <1>5, RecordKeeps

LEMMA StrangeKeeps == ASSUME Inv, Strange PROVE Inv'
<1>1. /\ Sound(book) /\ book \in Book /\ TypeOK /\ book.trades \in Seq(Order)
      /\ book.fees \in Nat
  BY DEF Inv, Sound, Book
<1>2. PICK side \in Side, k \in Ticker, l \in Lots, price \in Price :
        book' = Settled(book,
          [side |-> side, ticker |-> k, lots |-> l, price |-> price, key |-> None,
           target |-> None, base |-> None, date |-> Clock])
  BY DEF Strange
<1> DEFINE o == [side |-> side, ticker |-> k, lots |-> l, price |-> price, key |-> None,
                 target |-> None, base |-> None, date |-> Clock]
<1>3. o \in Order /\ o.key = None
  BY TodayIsADay DEF Order, OrderOn, Clock
<1>4. book' = Settled(book, o)
  BY <1>2
<1> HIDE DEF o
<1>5. /\ UNCHANGED <<at, read, action, seen, order, report, since, pending>>
      /\ strange' \in 0..MaxStrange
  BY <1>1, WantedAssumption DEF Strange, runVars, TypeOK
<1>6. Sound(book') /\ book' \in Book /\ TypeOK'
  BY <1>1, <1>3, <1>4, <1>5, SettledSound DEF Sound, TypeOK
<1>7. /\ Own' = Own /\ \A i : TradesFor(i)' = TradesFor(i)
      /\ \A j \in Own : book'.trades[j] = book.trades[j]
      /\ book' # book => Len(book'.trades) = Len(book.trades) + 1 /\ book'.fees > book.fees
  <2>1. CASE book' = book
    BY <2>1, NoTrade
  <2>2. CASE book' # book
    <3>1. book'.trades = Append(book.trades, o) /\ book'.fees > book.fees
      BY <2>2, <1>1, <1>3, <1>4, SettledSound
    <3> QED
      BY <1>1, <1>3, <3>1, StrangeTrade
  <2> QED
    BY <2>1, <2>2
<1>8. /\ Len(book.trades) \in Nat /\ Len(book'.trades) >= Len(book.trades)
      /\ book'.fees \in Nat /\ book'.fees >= book.fees
  BY <1>1, <1>6, <1>7 DEF Book
<1>9. Keyed' /\ NotStarted' /\ InOrder' /\ FilledIsTraded' /\ AheadIsClear'
  BY <1>5, <1>7 DEF Inv, Keyed, NotStarted, InOrder, FilledIsTraded, AheadIsClear
<1>10. Started' /\ (at # "start" /\ Outdated => Outdated')
  <2>1. at # "start" => seen.fees \in Nat
    BY DEF Inv, Started, Snapshot
  <2>2. Started'
    BY <1>1, <1>5, <1>8, <2>1 DEF Inv, Started, TypeOK
  <2>3. at # "start" /\ Outdated => Outdated'
    BY <1>1, <1>5, <1>8, <2>1 DEF Outdated
  <2> QED
    BY <2>2, <2>3
<1>11. FirstIsOwn'
  <2> SUFFICES ASSUME at # "start", Own = {}, Len(book'.trades) > since, ~Outdated
               PROVE  Outdated'
    BY <1>5, <1>7, <1>10 DEF Inv, FirstIsOwn
  <2>1. book' # book
    BY DEF Inv, FirstIsOwn
  <2>2. seen \in Snapshot /\ seen.fees <= book.fees
    BY DEF Inv, Started
  <2> QED
    BY <1>1, <1>5, <1>7, <1>8, <2>1, <2>2 DEF Outdated, Snapshot
<1>12. LostIsLast'
  BY <1>5, <1>7, <1>10 DEF Inv, NotStarted, LostIsLast, TradesFor
<1> QED
  BY <1>6, <1>9, <1>10, <1>11, <1>12 DEF Inv

LEMMA InvNext == ASSUME Inv, [Next]_vars PROVE Inv'
<1>1. CASE SendFails \/ SendTimesOut
  BY <1>1, ErrorKeeps DEF SendFails, SendTimesOut, otherVars
<1>2. CASE LookFails
  BY <1>2, StopKeeps DEF LookFails, Outcome, otherVars
<1>3. CASE UNCHANGED vars
  BY <1>3, AloneKeeps DEF vars, Inv, TypeOK
<1> QED
  BY <1>1, <1>2, <1>3, ReadsKeep, UnlocksKeep, StartKeeps, PlanKeeps, SizeKeeps,
     NothingToOrderKeeps, SendKeeps, LookKeeps, StrangeKeeps DEF Next

\* Every reachable state has the invariant, however many orders of somebody
\* else come in between and whichever answers are lost.
THEOREM TargetInvariant == Spec => []Inv
BY InvInit, InvNext, PTL DEF Spec

\* Nothing is filled of a target whose account has changed between its first
\* snapshot and its first fill: the snapshot hash an order carries is
\* compared in the transaction that fills it (_assert_account_snapshot), and the
\* run never takes a new snapshot without a fill of its own.
THEOREM TargetFrozen == Spec => []FrozenAccountOrNothing
<1>1. ASSUME Inv PROVE FrozenAccountOrNothing
  <2> SUFFICES ASSUME NEW j \in Own, \A e \in Own : j <= e, NEW s \in Others
               PROVE  s > j
    BY DEF FrozenAccountOrNothing
  <2>1. since + 1 \in Own /\ s \notin Own /\ s > since /\ since \in Nat
    BY <1>1 DEF Inv, FirstIsOwn, Others, TypeOK
  <2>2. j \in Nat /\ s \in Nat /\ j <= since + 1
    BY <1>1, <2>1 DEF Inv, Sound, Book, Own, Others, Trades
  <2> QED
    BY <2>1, <2>2
<1> QED
  BY <1>1, TargetInvariant, PTL

\* What a finished run reports is true, but for one fill at most: the last of
\* all, whose answer was lost (submitPaperTargetDeltaOrders records an error
\* as unfilled and goes on).
THEOREM TargetReportTrue == Spec => []ReportIsTrue
<1>1. Inv => ReportIsTrue
  BY DEF Inv, ReportIsTrue, FilledIsTraded, LostIsLast, AheadIsClear
<1> QED
  BY <1>1, TargetInvariant, PTL
=============================================================================
