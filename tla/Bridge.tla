------------------------------- MODULE Bridge --------------------------------
(***************************************************************************)
(* The bridge between the TypeScript front end and the Python sidecar: the *)
(* client (mosaic-ts/src/bridge/client.ts), the two pipes, and the server  *)
(* loop (mosaic/bridge/server.py).                                         *)
(*                                                                         *)
(* A call is known by its id alone: any number of them may be under way.   *)
(* Everything the client does is a callback of Node's event loop and runs  *)
(* to its end; the server takes one line after the other.                  *)
(***************************************************************************)
EXTENDS Naturals, Sequences

CONSTANTS
  MaxCalls,   \* bound: number of calls
  Faults      \* subset of {"spawn", "death", "garbage", "hang"}

ASSUME MaxCallsAssumption == MaxCalls \in Nat
ASSUME FaultsAssumption == Faults \subseteq {"spawn", "death", "garbage", "hang"}

Id == 1..MaxCalls

VARIABLES
  child,      \* the process: "none", "failed" (to spawn), "absent" (that has
              \* been reported), "up", "dead"
  exited,     \* the exit event has been handled
  nextId,
  pending,    \* the ids of the pending map
  timed,      \* the calls with a timer: timeoutMs is above 0
  broken,     \* writes whose callback will report an error
  outcome,    \* outcome[i] : "unused", "waiting", "ok", "error" or "failed"
  stdin,      \* the requests in the pipe to the server
  stdinOpen,  \* the client has not ended it
  stdout,     \* the lines in the pipe from the server
  serving,    \* the request the server is at, or 0
  handler,    \* its handler: "none", "running", "hung" or "returned"
  executed,   \* requests whose handler has run
  close       \* close(): "no", "called", "returned"

client == <<exited, nextId, pending, timed, broken, outcome, stdinOpen, close>>
server == <<child, stdin, stdout, serving, handler, executed>>
vars == <<client, server>>

\* A response; or a line that names no call: no JSON, or an error with id null.
Line == [id : Id, is : {"ok", "error"}] \cup [id : {0}, is : {"garbage"}]

TypeOK ==
  /\ child \in {"none", "failed", "absent", "up", "dead"}
  /\ exited \in BOOLEAN
  /\ nextId \in 1..(MaxCalls + 1)
  /\ pending \subseteq Id /\ timed \subseteq Id /\ broken \subseteq Id
  /\ executed \subseteq Id
  /\ outcome \in [Id -> {"unused", "waiting", "ok", "error", "failed"}]
  /\ stdin \in Seq(Id) /\ stdout \in Seq(Line)
  /\ stdinOpen \in BOOLEAN
  /\ serving \in Id \cup {0}
  /\ handler \in {"none", "running", "hung", "returned"}
  /\ close \in {"no", "called", "returned"}

Init ==
  /\ child = "none" /\ exited = FALSE /\ nextId = 1
  /\ pending = {} /\ timed = {} /\ broken = {} /\ outcome = [i \in Id |-> "unused"]
  /\ stdin = << >> /\ stdinOpen = TRUE /\ stdout = << >>
  /\ serving = 0 /\ handler = "none" /\ executed = {} /\ close = "no"

-----------------------------------------------------------------------------
(* The client. *)

\* start(): a command that cannot be run is found out by an error event.
Start ==
  /\ child = "none"
  /\ \/ child' = "up"
     \/ "spawn" \in Faults /\ child' = "failed"
  /\ UNCHANGED <<client, stdin, stdout, serving, handler, executed>>

\* failPending: all that wait are told.
FailPending_Keep ==
  /\ outcome' = [i \in Id |-> IF i \in pending THEN "failed" ELSE outcome[i]]
  /\ UNCHANGED pending

FailPending ==
  /\ outcome' = [i \in Id |-> IF i \in pending THEN "failed" ELSE outcome[i]]
  /\ pending' = {}

\* child.on("error"): no exit event follows a failed spawn, but a close() that
\* awaits one returns at the error.
ErrorEvent ==
  /\ child = "failed"
  /\ child' = "absent"
  /\ FailPending
  /\ close' = IF close = "called" THEN "returned" ELSE close
  /\ UNCHANGED <<exited, nextId, timed, broken, stdinOpen, stdin,
                 stdout, serving, handler, executed>>

\* child.on("exit").  What is still in stdout is read after it.
ExitEvent_Silent ==
  /\ child = "dead" /\ ~exited
  /\ exited' = TRUE
  /\ close' = IF close = "called" THEN "returned" ELSE close
  /\ UNCHANGED <<nextId, pending, timed, outcome, broken, stdinOpen, server>>

ExitEvent ==
  /\ child = "dead" /\ ~exited
  /\ exited' = TRUE
  /\ FailPending
  /\ close' = IF close = "called" THEN "returned" ELSE close
  /\ UNCHANGED <<nextId, timed, broken, stdinOpen, server>>

\* call(): refused once the exit is known; before that the write goes into
\* the pipe, or its callback will say that there is none.
MayCall == child # "none" /\ ~exited

CallRpc ==
  /\ MayCall
  /\ nextId \in Id
  /\ nextId' = nextId + 1
  /\ pending' = pending \cup {nextId}
  /\ timed' \in {timed, timed \cup {nextId}}
  /\ outcome' = [outcome EXCEPT ![nextId] = "waiting"]
  /\ IF child = "up" /\ stdinOpen
       THEN stdin' = Append(stdin, nextId) /\ UNCHANGED broken
       ELSE broken' = broken \cup {nextId} /\ UNCHANGED stdin
  /\ UNCHANGED <<exited, stdinOpen, close, child, stdout, serving, handler, executed>>

\* A promise is settled once: the second rejection changes nothing.
Reject(i) ==
  /\ pending' = pending \ {i}
  /\ outcome' = [outcome EXCEPT ![i] = IF @ = "waiting" THEN "failed" ELSE @]

WriteError(i) ==
  /\ i \in broken
  /\ broken' = broken \ {i}
  /\ Reject(i)
  /\ UNCHANGED <<exited, nextId, timed, stdinOpen, close, server>>

\* The timer of a call: the request is not taken back.
Timeout(i) ==
  /\ i \in timed \cap pending
  /\ Reject(i)
  /\ UNCHANGED <<exited, nextId, timed, broken, stdinOpen, close, server>>

\* handleLine.  A line no call waits for is dropped; one that is no JSON
\* fails every call.
Settle_Any(line) ==
  /\ pending' = pending \ {line.id}
  /\ outcome' = [outcome EXCEPT ![line.id] = line.is]

Settle(line) ==
  IF line.id \in pending
    THEN /\ pending' = pending \ {line.id}
         /\ outcome' = [outcome EXCEPT ![line.id] = line.is]
    ELSE UNCHANGED <<pending, outcome>>

HandleLine ==
  /\ stdout # << >>
  /\ stdout' = Tail(stdout)
  /\ IF Head(stdout).is = "garbage" THEN FailPending ELSE Settle(Head(stdout))
  /\ UNCHANGED <<exited, nextId, timed, broken, stdinOpen, close,
                 child, stdin, serving, handler, executed>>

\* close(): nothing to do without a process; else end stdin, await the exit.
Close_NoEnd ==
  /\ close = "no"
  /\ close' = IF child = "none" \/ exited THEN "returned" ELSE "called"
  /\ UNCHANGED <<exited, nextId, pending, timed, broken, outcome, stdinOpen, server>>

Close ==
  /\ close = "no"
  /\ IF child = "none" \/ exited
       THEN close' = "returned" /\ UNCHANGED stdinOpen
       ELSE close' = "called" /\ stdinOpen' = FALSE
  /\ UNCHANGED <<exited, nextId, pending, timed, broken, outcome, server>>

-----------------------------------------------------------------------------
(* The server: _serve_streams and dispatch. *)

Take ==
  /\ child = "up" /\ handler = "none" /\ stdin # << >>
  /\ serving' = Head(stdin)
  /\ handler' = "running"
  /\ stdin' = Tail(stdin)
  /\ UNCHANGED <<client, child, stdout, executed>>

\* The handler runs: whatever the request changes is changed now.
Execute ==
  /\ child = "up" /\ handler = "running"
  /\ executed' = executed \cup {serving}
  /\ handler' = "returned"
  /\ UNCHANGED <<client, child, stdin, stdout, serving>>

\* Its result or its error goes out, under the id of the request.
Respond_NoId ==
  /\ child = "up" /\ handler = "returned"
  /\ stdout' = Append(stdout, [id |-> 0, is |-> "error"])
  /\ serving' = 0 /\ handler' = "none"
  /\ UNCHANGED <<client, child, stdin, executed>>

Respond ==
  /\ child = "up" /\ handler = "returned"
  /\ \E r \in {"ok", "error"} : stdout' = Append(stdout, [id |-> serving, is |-> r])
  /\ serving' = 0 /\ handler' = "none"
  /\ UNCHANGED <<client, child, stdin, executed>>

\* EOF: stdin has been ended and read to its end.
EndOfInput ==
  /\ child = "up" /\ handler = "none" /\ stdin = << >> /\ ~stdinOpen
  /\ child' = "dead"
  /\ UNCHANGED <<client, stdin, stdout, serving, handler, executed>>

\* The process is killed, or dies of a result that is no JSON.
Die ==
  /\ "death" \in Faults
  /\ child = "up"
  /\ child' = "dead" /\ stdin' = << >> /\ serving' = 0 /\ handler' = "none"
  /\ UNCHANGED <<client, stdout, executed>>

\* Something below Python prints to stdout.
Garbage ==
  /\ "garbage" \in Faults
  /\ child = "up" /\ handler = "running"
  /\ Len(stdout) < MaxCalls
  /\ stdout' = Append(stdout, [id |-> 0, is |-> "garbage"])
  /\ UNCHANGED <<client, child, stdin, serving, handler, executed>>

Hang ==
  /\ "hang" \in Faults
  /\ child = "up" /\ handler = "running"
  /\ handler' = "hung"
  /\ UNCHANGED <<client, child, stdin, stdout, serving, executed>>

-----------------------------------------------------------------------------
Next ==
  \/ Start \/ ErrorEvent \/ ExitEvent \/ CallRpc
  \/ \E i \in Id : WriteError(i) \/ Timeout(i)
  \/ HandleLine \/ Close
  \/ Take \/ Execute \/ Respond \/ EndOfInput
  \/ Die \/ Garbage \/ Hang

Spec == Init /\ [][Next]_vars

\* Node delivers every event, a timer runs out, and the server goes on as
\* long as a handler returns.  Nothing makes a fault happen, nor a call.
Fairness ==
  /\ WF_vars(ErrorEvent) /\ WF_vars(ExitEvent) /\ WF_vars(HandleLine)
  /\ \A i \in Id : WF_vars(WriteError(i)) /\ WF_vars(Timeout(i))
  /\ WF_vars(Take) /\ WF_vars(Execute) /\ WF_vars(Respond) /\ WF_vars(EndOfInput)

FairSpec == Spec /\ Fairness

-----------------------------------------------------------------------------
\* A call waits exactly as long as the pending map knows it: a promise that
\* lost its entry could never be settled, an entry that lost its promise would
\* never be removed (five paths take entries out).
WaitingIsPending == \A i \in Id : outcome[i] = "waiting" <=> i \in pending

\* Once the exit of the server is known nobody is left waiting for it.
NobodyWaitsForTheDead == exited => pending = {}

\* The service the callers may rely on: at most one execution, an answer only
\* for what was executed.
Service == INSTANCE RpcService
ImplementsService == Service!SSpec

\* Every call is settled (client.ts: "rejects with ... BridgeTransportError on
\* death/timeout"), but for one without a timer behind a handler that hangs.
EveryCallSettles ==
  \A i \in Id :
    outcome[i] = "waiting" ~> outcome[i] # "waiting" \/ (handler = "hung" /\ i \notin timed)

\* close() returns, once the requests are done or the failed spawn is known,
\* unless a handler hangs; one called after the failed spawn was reported waits
\* for an exit that never comes.
CloseReturns ==
  close = "called" /\ child # "absent" ~> close = "returned" \/ handler = "hung"
=============================================================================
