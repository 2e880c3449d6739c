---------------------------- MODULE HoldoutBudget ----------------------------
(***************************************************************************)
(* What a family of prompt experiments promises about its holdout set: it  *)
(* is looked at once, by one candidate, the best on validation results     *)
(* that were complete for the whole family before and stay as they were.   *)
(* A candidate that fails before takes the holdout of the family with it.  *)
(***************************************************************************)
EXTENDS Integers

CONSTANTS
  Candidate,   \* the family, ordered as ties between its candidates are broken
  MinDelta,    \* the validation delta a winner needs
  None         \* no delta, no candidate

VARIABLES
  delta,       \* delta[c] : the frozen validation result of c, or None
  consumer,    \* the candidate the holdout was opened for, or None
  failed       \* the candidates that failed

hVars == <<delta, consumer, failed>>

Eligible(c) == delta[c] # None /\ delta[c] >= MinDelta

Better(c, d) == delta[c] > delta[d] \/ (delta[c] = delta[d] /\ c <= d)

HInit ==
  /\ delta = [c \in Candidate |-> None]
  /\ consumer = None
  /\ failed = {}

Freeze(c) ==
  /\ delta[c] = None /\ c \notin failed
  /\ delta'[c] \in Int
  /\ delta' = [delta EXCEPT ![c] = delta'[c]]
  /\ UNCHANGED <<consumer, failed>>

OpenHoldout(c) ==
  /\ consumer = None /\ failed = {}
  /\ \A d \in Candidate : delta[d] # None
  /\ Eligible(c)
  /\ \A d \in Candidate : Eligible(d) => Better(c, d)
  /\ consumer' = c
  /\ UNCHANGED <<delta, failed>>

Fail(c) ==
  /\ c \notin failed
  /\ failed' = failed \cup {c}
  /\ UNCHANGED <<delta, consumer>>

HNext == \E c \in Candidate : Freeze(c) \/ OpenHoldout(c) \/ Fail(c)

HSpec == HInit /\ [][HNext]_hVars
=============================================================================
