----------------------------- MODULE PaperTarget -----------------------------
(***************************************************************************)
(* A daily cycle that carries out its frozen portfolio target against the  *)
(* paper account while somebody else trades on it (submitPaperTargetDelta- *)
(* Orders, mosaic-ts/src/cli/commands/daily-cycle.ts).  The account's      *)
(* transactions are those of PaperBook.                                    *)
(*                                                                         *)
(* For every action of the target the run asks for an order that closes    *)
(* the gap, sends it with an intent key and the snapshot hash it last saw, *)
(* and takes a new snapshot.  All of that happens on one trading day; what *)
(* somebody else does before the first snapshot is of the day before.  The *)
(* order of an action is sized by prices and weights the model does not    *)
(* have: it is any order or none.                                          *)
(*                                                                         *)
(* A read (a snapshot, a suggestion) is as in PaperAccount: it compares    *)
(* the date of the last unlock, unlocks in a transaction that compares     *)
(* nothing again, and looks at the rows in another, with the steps of      *)
(* somebody else's reads and orders in between.                            *)
(***************************************************************************)
EXTENDS PaperBook

CONSTANTS
  Wanted,      \* the tickers of the target's actions, in order
  Lossy,       \* TRUE: the bridge call of an order may time out
  MaxStrange   \* bound: orders and reads of the other trader

\* The key of an order is a hash of the run, the target, the ticker and the
\* side; run and target are the same for all.
ASSUME WantedAssumption ==
  /\ Wanted \in Seq(Ticker)
  /\ \A i, j \in DOMAIN Wanted : Wanted[i] = Wanted[j] => i = j
  /\ Key = Ticker \X Side
  /\ Lossy \in BOOLEAN
  /\ MaxStrange \in Nat

ASSUME DayAssumption ==
  /\ \E d \in Day : \A e \in Day : e <= d
  /\ \E d \in Day : \A e \in Day : d <= e

VARIABLES
  book,       \* the account
  at,         \* what the run does next: "start", "plan", "size", "order", "look", "done"
  read,       \* how far its read has come: "none", "unlock", "rows"
  action,     \* the action it is at
  seen,       \* accountSnapshotHash
  order,      \* the order it is about to send
  report,     \* what it has recorded of every action
  since,      \* number of trades when it took its first snapshot
  strange,    \* number of orders and reads of the other trader
  pending     \* the date the other trader's read will unlock for, or None

vars == <<book, at, read, action, seen, order, report, since, strange, pending>>
runVars == <<at, read, action, seen, order, report, since>>
otherVars == <<strange, pending>>

\* The day of the run and the one before it.
Today == CHOOSE d \in Day : \A e \in Day : e <= d
Eve == CHOOSE d \in Day : \A e \in Day : d <= e

Outcome == {"open", "filled", "rejected", "stale", "nothing_to_do", "no_plan", "no_snapshot"}

TypeOK ==
  /\ book \in Book
  /\ at \in {"start", "plan", "size", "order", "look", "done"}
  /\ read \in {"none", "unlock", "rows"}
  /\ action \in 1..(Len(Wanted) + 1)
  /\ seen \in Snapshot \cup {None}
  /\ order \in Order \cup {None}
  /\ report \in [DOMAIN Wanted -> Outcome]
  /\ since \in Nat
  /\ strange \in 0..MaxStrange
  /\ pending \in Day \cup {None}

Init ==
  /\ book = NewBook
  /\ at = "start"
  /\ read = "none"
  /\ action = 1
  /\ seen = None
  /\ order = None
  /\ report = [i \in DOMAIN Wanted |-> "open"]
  /\ since = 0
  /\ strange = 0
  /\ pending = None

-----------------------------------------------------------------------------
\* The day barrier of a read of the run, outside any transaction: its first
\* half.
BeginRead ==
  /\ at \in {"start", "plan", "size", "look"}
  /\ read = "none"
  /\ read' = IF book.unlocked = Today THEN "rows" ELSE "unlock"
  /\ UNCHANGED <<book, at, action, seen, order, report, since, otherVars>>

\* Its second half: the two UPDATEs, whatever the date is by now.
Unlock ==
  /\ read = "unlock"
  /\ book' = UnlockAll(book, Today)
  /\ read' = "rows"
  /\ UNCHANGED <<at, action, seen, order, report, since, otherVars>>

\* The rows, after which the call returns.
Rows == read = "rows" /\ read' = "none"

\* loadPaperCurrentPositions: the snapshot the target is frozen on.
Start ==
  /\ at = "start"
  /\ Rows
  /\ seen' = SnapshotOf(book)
  /\ since' = Len(book.trades)
  /\ at' = IF Wanted = << >> THEN "done" ELSE "plan"
  /\ UNCHANGED <<book, action, order, report, otherVars>>

-----------------------------------------------------------------------------
\* One action is done with: record it and go to the next.
Record(outcome) ==
  /\ report' = [report EXCEPT ![action] = outcome]
  /\ action' = action + 1
  /\ at' = IF action = Len(Wanted) THEN "done" ELSE "plan"

\* It stops the run: the actions that are left are recorded alike.
Stop(outcome, rest) ==
  /\ report' = [i \in DOMAIN Wanted |->
                  IF i < action THEN report[i] ELSE IF i = action THEN outcome ELSE rest]
  /\ action' = Len(Wanted) + 1
  /\ at' = "done"

\* orderParams.expected_account_snapshot_hash: always the last snapshot.
BaseOf_Nothing(hash) == None
BaseOf(hash) == hash

\* paper.suggest_order_from_signal passes the day barrier, and then once
\* more in get_account.
Plan ==
  /\ at = "plan"
  /\ Rows
  /\ at' = "size"
  /\ UNCHANGED <<book, action, seen, order, report, since, otherVars>>

\* It has read the account and suggests an order, or none.
Size ==
  /\ at = "size"
  /\ Rows
  /\ \E side \in Side, l \in Lots, price \in Price :
       order' = [side |-> side, ticker |-> Wanted[action], lots |-> l, price |-> price,
                 key |-> <<Wanted[action], side>>, target |-> None, base |-> BaseOf(seen),
                 date |-> Today]
  /\ at' = "order"
  /\ UNCHANGED <<book, action, seen, report, since, otherVars>>

NothingToOrder ==
  /\ at = "size"
  /\ Rows
  /\ Record("nothing_to_do")
  /\ UNCHANGED <<book, seen, order, since, otherVars>>

\* The call fails, wherever it is.  One the run only gave up on counts as
\* failed when the server is through with it: the next call waits for that.
PlanFails ==
  /\ at \in {"plan", "size"}
  /\ Record("no_plan")
  /\ read' = "none"
  /\ UNCHANGED <<book, seen, order, since, otherVars>>

\* paperBuy or paperSell and what the run makes of the answer.
AfterAnswer_AnyErrorIsDone(answer) ==
  IF answer = "stale" THEN Stop("stale", "stale")
  ELSE IF answer \in {"filled", "replay"} THEN at' = "look" /\ UNCHANGED <<action, report>>
  ELSE Record("filled")

AfterAnswer(answer) ==
  CASE answer \in {"filled", "replay"} -> at' = "look" /\ UNCHANGED <<action, report>>
    [] answer = "stale" -> Stop("stale", "stale")
    [] OTHER -> Record("rejected")

Send ==
  /\ at = "order"
  /\ book' = Settled(book, order)
  /\ AfterAnswer(Verdict(book, order))
  /\ UNCHANGED <<read, seen, order, since, otherVars>>

\* The engine finds no price.
SendFails ==
  /\ at = "order"
  /\ AfterAnswer("error")
  /\ UNCHANGED <<book, read, seen, order, since, otherVars>>

\* The call times out; the server carries the order out all the same.
SendTimesOut ==
  /\ at = "order"
  /\ Lossy
  /\ book' = Settled(book, order)
  /\ AfterAnswer("error")
  /\ UNCHANGED <<read, seen, order, since, otherVars>>

\* The snapshot after a fill, which the next order is sent with.
Look ==
  /\ at = "look"
  /\ Rows
  /\ seen' = SnapshotOf(book)
  /\ Record("filled")
  /\ UNCHANGED <<book, order, since, otherVars>>

LookFails ==
  /\ at = "look"
  /\ Stop("no_snapshot", "no_snapshot")
  /\ read' = "none"
  /\ UNCHANGED <<book, seen, order, since, otherVars>>

-----------------------------------------------------------------------------
\* The day the other trader calls on.
Clock == IF at = "start" /\ read = "none" THEN Eve ELSE Today

\* An order from the command line, with neither key nor snapshot.
Strange ==
  /\ strange < MaxStrange
  /\ strange' = strange + 1
  /\ \E side \in Side, k \in Ticker, l \in Lots, price \in Price :
       book' = Settled(book,
         [side |-> side, ticker |-> k, lots |-> l, price |-> price, key |-> None,
          target |-> None, base |-> None, date |-> Clock])
  /\ UNCHANGED <<runVars, pending>>

\* The two halves of a day barrier of a read of the other trader; the second
\* may come on the next day.
StrangeRead ==
  /\ pending = None
  /\ strange < MaxStrange
  /\ strange' = strange + 1
  /\ book.unlocked # Clock
  /\ pending' = Clock
  /\ UNCHANGED <<book, runVars>>

StrangeUnlock ==
  /\ pending # None
  /\ book' = UnlockAll(book, pending)
  /\ pending' = None
  /\ UNCHANGED <<runVars, strange>>

Next ==
  \/ BeginRead \/ Unlock
  \/ Start \/ Plan \/ Size \/ NothingToOrder \/ PlanFails
  \/ Send \/ SendFails \/ SendTimesOut \/ Look \/ LookFails
  \/ Strange \/ StrangeRead \/ StrangeUnlock

Spec == Init /\ [][Next]_vars

-----------------------------------------------------------------------------
Trades == DOMAIN book.trades
Own == {j \in Trades : book.trades[j].key # None}
Others == {j \in Trades : j > since} \ Own
TradesFor(i) == {j \in Own : book.trades[j].ticker = Wanted[i]}

\* The report tells the truth: what it calls filled was filled, and what was
\* filled it calls so, except for the very last fill of the run, whose answer
\* may have been lost; a lost answer leaves the run with a stale snapshot,
\* so nothing is filled after it.
ReportIsTrue ==
  at = "done" =>
    \A i \in DOMAIN Wanted :
      /\ report[i] = "filled" => TradesFor(i) # {}
      /\ TradesFor(i) # {} /\ report[i] # "filled" =>
           \A later \in DOMAIN Wanted : later > i => TradesFor(later) = {}

\* A stranger's trade after the first snapshot and before the first order
\* stops the run: nothing of a target frozen on another account is filled.
FrozenAccountOrNothing ==
  \A j \in Own : (\A e \in Own : j <= e) => \A s \in Others : s > j
=============================================================================
