----------------------------- MODULE RpcService ------------------------------
(***************************************************************************)
(* What the JSON-RPC bridge promises the code that calls it: a request is  *)
(* carried out at most once, an answer belongs to a request that was       *)
(* carried out, and a caller may be told of a failure at any moment, also  *)
(* when the request was, or still will be, carried out.                    *)
(***************************************************************************)
EXTENDS Naturals

CONSTANT Id   \* request ids

VARIABLES
  outcome,    \* outcome[i] : what the caller of request i knows
  executed    \* the requests whose handler has run

sVars == <<outcome, executed>>

Outcome == {"unused", "waiting", "ok", "error", "failed"}

SInit ==
  /\ outcome = [i \in Id |-> "unused"]
  /\ executed = {}

Ask(i) ==
  /\ outcome[i] = "unused"
  /\ outcome' = [outcome EXCEPT ![i] = "waiting"]
  /\ UNCHANGED executed

\* Also after the caller has given up.
Execute(i) ==
  /\ outcome[i] \in {"waiting", "failed"}
  /\ i \notin executed
  /\ executed' = executed \cup {i}
  /\ UNCHANGED outcome

Answer(i) ==
  /\ outcome[i] = "waiting"
  /\ i \in executed
  /\ \E a \in {"ok", "error"} : outcome' = [outcome EXCEPT ![i] = a]
  /\ UNCHANGED executed

\* Any number of callers are told at once.
GiveUp(these) ==
  /\ \A i \in these : outcome[i] = "waiting"
  /\ outcome' = [i \in Id |-> IF i \in these THEN "failed" ELSE outcome[i]]
  /\ UNCHANGED executed

SNext ==
  \/ \E i \in Id : Ask(i) \/ Execute(i) \/ Answer(i)
  \/ \E these \in SUBSET Id : GiveUp(these)

SSpec == SInit /\ [][SNext]_sVars
=============================================================================
