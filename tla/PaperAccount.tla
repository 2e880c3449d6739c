---------------------------- MODULE PaperAccount ----------------------------
(***************************************************************************)
(* Processes that use one user's paper account: the bridge of a daily      *)
(* cycle, the dashboard, the command line, each building an engine per     *)
(* call over the same SQLite file (mosaic/bridge/handlers/paper.py).       *)
(*                                                                         *)
(* An order looks its intent up and fetches a price outside a transaction  *)
(* and then settles in one.  A read compares the date of the last unlock   *)
(* before it opens the transaction that unlocks: sqlite3 begins one at the *)
(* first UPDATE, so two steps of the read are two steps here.              *)
(***************************************************************************)
EXTENDS PaperBook

CONSTANTS
  Proc,        \* processes
  Given,       \* trade_date arguments of calls; None: the clock's date
  MaxTrades,   \* bound: orders are submitted while there are fewer trades
  MaxResets    \* bound: resets

ASSUME GivenAssumption == Given \subseteq Day \cup {None}

ASSUME BoundsAssumption == MaxTrades \in Nat /\ MaxResets \in Nat

VARIABLES
  book,     \* the rows of the user
  today,    \* the wall clock's date
  call,     \* call[p] : what p is in the middle of, or how its last order ended
  known,    \* known[p] : the last snapshot hash p was given, or None
  resets    \* number of resets

vars == <<book, today, call, known, resets>>

Reply == {"none", "filled", "replay", "conflict", "stale", "rejected", "error"}

Done(r) == [at |-> "idle", reply |-> r]

Call ==
  [at : {"idle"}, reply : Reply]
    \cup [at : {"order"}, order : OrderOn(Day \cup {None})]
    \cup [at : {"unlock", "read"}, date : Day]

TypeOK ==
  /\ book \in Book
  /\ today \in Day
  /\ call \in [Proc -> Call]
  /\ known \in [Proc -> Snapshot \cup {None}]
  /\ resets \in 0..MaxResets

Init ==
  /\ book = NewBook
  /\ today \in Day /\ \A d \in Day : today <= d
  /\ call = [p \in Proc |-> Done("none")]
  /\ known = [p \in Proc |-> None]
  /\ resets = 0

\* The date a trade_date argument stands for, at the time it is looked at.
DateOf(d) == IF d = None THEN today ELSE d

-----------------------------------------------------------------------------
\* buy or sell up to its transaction: an intent already bound is answered
\* at once, otherwise a price is fetched.
Submit(p) ==
  /\ call[p].at = "idle"
  /\ Len(book.trades) < MaxTrades
  /\ \E side \in Side, k \in Ticker, l \in Lots, price \in Price,
        key \in Key \cup {None}, tgt \in Target \cup {None},
        base \in {known[p], None}, d \in Given :
       LET o == [side |-> side, ticker |-> k, lots |-> l, price |-> price,
                 key |-> key, target |-> tgt, base |-> base, date |-> d]
       IN  call' = [call EXCEPT ![p] =
             IF Bound(book, key) # {} THEN Done(Replay(book, o))
                                      ELSE [at |-> "order", order |-> o]]
  /\ UNCHANGED <<book, today, known, resets>>

\* The transaction.  Without a trade date it settles under the clock's.
Commit(p) ==
  /\ call[p].at = "order"
  /\ LET o == [call[p].order EXCEPT !.date = DateOf(@)]
     IN  /\ call' = [call EXCEPT ![p] = Done(Verdict(book, o))]
         /\ book' = Settled(book, o)
  /\ UNCHANGED <<today, known, resets>>

\* No vendor has a price; or the process is killed, and the transaction it
\* had not committed never was.
Fail(p) ==
  /\ call[p].at # "idle"
  /\ call' = [call EXCEPT ![p] = Done("error")]
  /\ UNCHANGED <<book, today, known, resets>>

-----------------------------------------------------------------------------
\* get_portfolio_snapshot, get_account, get_positions and
\* suggest_order_from_signal: the day barrier outside any transaction, its
\* first half.
BeginRead(p) ==
  /\ call[p].at = "idle"
  /\ \E d \in {DateOf(g) : g \in Given} :
       call' = [call EXCEPT ![p] =
         [at |-> IF book.unlocked = d THEN "read" ELSE "unlock", date |-> d]]
  /\ UNCHANGED <<book, today, known, resets>>

\* Its second half: the two UPDATEs, which look at nothing again.
Unlock(p) ==
  /\ call[p].at = "unlock"
  /\ book' = UnlockAll(book, call[p].date)
  /\ call' = [call EXCEPT ![p].at = "read"]
  /\ UNCHANGED <<today, known, resets>>

\* The rows of one read transaction; get_portfolio_snapshot returns their hash.
Read(p) ==
  /\ call[p].at = "read"
  /\ known' \in {known, [known EXCEPT ![p] = SnapshotOf(book)]}
  /\ call' = [call EXCEPT ![p] = Done("none")]
  /\ UNCHANGED <<book, today, resets>>

ResetAccount(p) ==
  /\ call[p].at = "idle"
  /\ resets < MaxResets
  /\ book' = Reset(book)
  /\ resets' = resets + 1
  /\ UNCHANGED <<today, call, known>>

Midnight ==
  /\ today + 1 \in Day
  /\ today' = today + 1
  /\ UNCHANGED <<book, call, known, resets>>

Next ==
  \/ \E p \in Proc :
       \/ Submit(p) \/ Commit(p) \/ Fail(p)
       \/ BeginRead(p) \/ Unlock(p) \/ Read(p) \/ ResetAccount(p)
  \/ Midnight

Spec == Init /\ [][Next]_vars

-----------------------------------------------------------------------------
\* Nobody owes money or shares (buy checks cash, sell the sellable lots,
\* each in the transaction that changes them).
NobodyOwes == Solvent(book)

\* The account is what its trades made of it.
TradesExplainAccount == ExplainedByTrades(book)

\* One trade per intent key, whatever the processes do in between
\* (test_order_intent_is_idempotent_and_account_hash_is_compare_and_swap
\* sends the orders one after the other).
OneFillPerIntent == OncePerIntent(book)

\* Two orders sized on one snapshot are never both filled.
OneFillPerSnapshot == OncePerSnapshot(book)

\* T+1 settlement: shares bought on a day are not sold on it
\* (docs/wiki/Scorecard-and-Paper-Trading.md, _update_day_barrier).
T1Settlement == SettlesNextDay(book)

\* A retry of an order that was filled is answered with the fill: never
\* with an error about the account the fill itself has changed.
RetryIsReplayed ==
  [][\A p \in Proc :
       /\ call[p].at = "order"
       /\ \E i \in Bound(book, call[p].order.key) : SameIntent(call[p].order, book.trades[i])
       /\ call'[p].at = "idle"
       => call'[p].reply \in {"replay", "error"}]_vars
=============================================================================
