---------------------------- MODULE Bridge_proofs ----------------------------
(***************************************************************************)
(* Theorems about Bridge, for any number of calls, with and without timers *)
(* and whatever the faults.                                                *)
(***************************************************************************)
EXTENDS Bridge, TLAPS

(* The inductive invariant.  Requests are numbered, sent, taken and carried *)
(* out in one order, so a request in the pipe is later than the one at the  *)
(* server and than all that were carried out: none is carried out twice.    *)

Numbered ==
  /\ \A i \in Id : outcome[i] = "unused" <=> i >= nextId
  /\ \A e \in executed : e < nextId
  /\ serving < nextId
  /\ \A j \in DOMAIN stdin : stdin[j] < nextId

InOrder ==
  /\ \A j, k \in DOMAIN stdin : j < k => stdin[j] < stdin[k]
  /\ \A j \in DOMAIN stdin : serving < stdin[j]
  /\ \A j \in DOMAIN stdin : \A e \in executed : e < stdin[j]

AtServer ==
  /\ handler = "none" <=> serving = 0
  /\ handler \in {"running", "hung"} => \A e \in executed : e < serving
  /\ handler = "returned" => serving \in executed

Answered ==
  /\ \A j \in DOMAIN stdout : stdout[j].is # "garbage" => stdout[j].id \in executed
  /\ \A i \in Id : outcome[i] \in {"ok", "error"} => i \in executed

Known == WaitingIsPending /\ NobodyWaitsForTheDead

Inv == TypeOK /\ Known /\ Numbered /\ InOrder /\ AtServer /\ Answered

LEMMA InvInit == ASSUME Init PROVE Inv
<1>1. DOMAIN << >> = {}
  OBVIOUS
<1>2. TypeOK
  <2>1. nextId \in 1..(MaxCalls + 1)
    BY MaxCallsAssumption DEF Init
  <2>2. stdin \in Seq(Id) /\ stdout \in Seq(Line)
    BY DEF Init
  <2>3. outcome \in [Id -> {"unused", "waiting", "ok", "error", "failed"}]
    BY DEF Init
  <2> QED
    BY <2>1, <2>2, <2>3 DEF Init, TypeOK
<1>3. Known
  BY DEF Init, Known, WaitingIsPending, NobodyWaitsForTheDead
<1>4. Numbered
  BY <1>1 DEF Init, Numbered, Id
<1>5. InOrder /\ AtServer
  BY <1>1 DEF Init, InOrder, AtServer
<1>6. Answered
  BY <1>1 DEF Init, Answered
<1> QED
  BY <1>2, <1>3, <1>4, <1>5, <1>6 DEF Inv

-----------------------------------------------------------------------------
(* The client's callbacks leave the server alone and move outcomes on. *)

\* Rejecting some of the waiting calls.
LEMMA RejectKeeps ==
  ASSUME Inv, NEW these \in SUBSET Id,
         pending' = pending \ these,
         outcome' = [i \in Id |-> IF outcome[i] = "waiting" /\ i \in these
                                    THEN "failed" ELSE outcome[i]],
         UNCHANGED <<nextId, executed, stdin, stdout, serving, handler>>
  PROVE  WaitingIsPending' /\ Numbered' /\ InOrder' /\ AtServer' /\ Answered'
<1>1. WaitingIsPending'
  BY DEF Inv, TypeOK, Known, WaitingIsPending
<1>2. Numbered'
  BY DEF Inv, TypeOK, Numbered
<1>3. InOrder' /\ AtServer'
  BY DEF Inv, InOrder, AtServer
<1>4. Answered'
  BY DEF Inv, TypeOK, Answered
<1> QED
  BY <1>1, <1>2, <1>3, <1>4

LEMMA FailPendingRejects ==
  ASSUME Inv, FailPending
  PROVE  /\ pending' = pending \ Id /\ pending' = {}
         /\ outcome' = [i \in Id |-> IF outcome[i] = "waiting" /\ i \in Id
                                       THEN "failed" ELSE outcome[i]]
BY DEF Inv, TypeOK, Known, WaitingIsPending, FailPending

LEMMA RejectRejects ==
  ASSUME Inv, NEW i \in Id, Reject(i)
  PROVE  /\ pending' = pending \ {i}
         /\ outcome' = [j \in Id |-> IF outcome[j] = "waiting" /\ j \in {i}
                                       THEN "failed" ELSE outcome[j]]
BY DEF Inv, TypeOK, Reject

LEMMA EventsKeep ==
  ASSUME Inv, ErrorEvent \/ ExitEvent \/ \E i \in Id : WriteError(i) \/ Timeout(i)
  PROVE  Inv'
<1>1. CASE ErrorEvent \/ ExitEvent
  <2>1. /\ pending' = pending \ Id /\ pending' = {}
        /\ outcome' = [i \in Id |-> IF outcome[i] = "waiting" /\ i \in Id
                                      THEN "failed" ELSE outcome[i]]
    BY <1>1, FailPendingRejects DEF ErrorEvent, ExitEvent
  <2>2. UNCHANGED <<nextId, executed, stdin, stdout, serving, handler>>
    BY <1>1 DEF ErrorEvent, ExitEvent, server
  <2>3. WaitingIsPending' /\ Numbered' /\ InOrder' /\ AtServer' /\ Answered'
    BY <2>1, <2>2, RejectKeeps
  <2>4. TypeOK'
    BY <1>1, <2>1 DEF Inv, TypeOK, ErrorEvent, ExitEvent, server
  <2> QED
    BY <2>1, <2>3, <2>4 DEF Inv, Known, NobodyWaitsForTheDead
<1>2. CASE \E i \in Id : WriteError(i) \/ Timeout(i)
  <2> PICK i \in Id : WriteError(i) \/ Timeout(i)
    BY <1>2
  <2>1. /\ pending' = pending \ {i}
        /\ outcome' = [j \in Id |-> IF outcome[j] = "waiting" /\ j \in {i}
                                      THEN "failed" ELSE outcome[j]]
    BY RejectRejects DEF WriteError, Timeout
  <2>2. UNCHANGED <<exited, nextId, executed, stdin, stdout, serving, handler>>
    BY DEF WriteError, Timeout, server
  <2>3. WaitingIsPending' /\ Numbered' /\ InOrder' /\ AtServer' /\ Answered'
    BY <2>1, <2>2, RejectKeeps
  <2>4. TypeOK'
    BY <2>1 DEF Inv, TypeOK, WriteError, Timeout, server
  <2> QED
    BY <2>1, <2>2, <2>3, <2>4 DEF Inv, Known, NobodyWaitsForTheDead
<1> QED
  BY <1>1, <1>2

\* The head of a nonempty sequence and what is left of it.
LEMMA HeadAndTail ==
  ASSUME NEW S, NEW s \in Seq(S), s # << >>
  PROVE  /\ Head(s) \in S /\ Head(s) = s[1] /\ 1 \in DOMAIN s
         /\ Tail(s) \in Seq(S)
         /\ \A j \in DOMAIN Tail(s) : j + 1 \in DOMAIN s /\ Tail(s)[j] = s[j + 1]
OBVIOUS

LEMMA LonelySteps ==
  ASSUME Inv, Start \/ Close \/ UNCHANGED vars PROVE Inv'
<1>1. UNCHANGED <<nextId, pending, outcome, exited, stdin, stdout, serving, handler, executed>>
  BY DEF Start, Close, vars, client, server
<1>2. TypeOK'
  <2>1. CASE Start
    BY <2>1 DEF Inv, TypeOK, Start, client
  <2>2. CASE Close
    BY <2>2 DEF Inv, TypeOK, Close, server
  <2>3. CASE UNCHANGED vars
    BY <2>3 DEF Inv, TypeOK, vars, client, server
  <2> QED
    BY <2>1, <2>2, <2>3
<1>3. Known'
  BY <1>1 DEF Inv, Known, WaitingIsPending, NobodyWaitsForTheDead
<1>4. Numbered' /\ InOrder' /\ AtServer' /\ Answered'
  BY <1>1 DEF Inv, Numbered, InOrder, AtServer, Answered
<1> QED
  BY <1>2, <1>3, <1>4 DEF Inv

LEMMA CallKeeps == ASSUME Inv, CallRpc PROVE Inv'
<1> DEFINE i == nextId
<1>1. i \in Id /\ outcome[i] = "unused" /\ i \in Nat
  BY MaxCallsAssumption DEF Inv, Numbered, CallRpc, Id, TypeOK
<1>2. /\ stdin' = stdin \/ stdin' = Append(stdin, i)
      /\ stdin' \in Seq(Id) /\ broken' \subseteq Id
  <2>1. stdin \in Seq(Id) /\ broken \subseteq Id
    BY DEF Inv, TypeOK
  <2>2. Append(stdin, i) \in Seq(Id)
    BY <2>1, <1>1
  <2>3. CASE child = "up" /\ stdinOpen
    BY <2>1, <2>2, <2>3 DEF CallRpc
  <2>4. CASE ~(child = "up" /\ stdinOpen)
    BY <2>1, <2>4, <1>1 DEF CallRpc
  <2> QED
    BY <2>3, <2>4
<1>3. TypeOK'
  BY <1>1, <1>2, MaxCallsAssumption DEF Inv, TypeOK, CallRpc, Id
<1>4. Known'
  BY <1>1 DEF Inv, TypeOK, Known, WaitingIsPending, NobodyWaitsForTheDead, CallRpc, MayCall
<1>5. \A j \in DOMAIN stdin' :
        \/ j \in DOMAIN stdin /\ stdin'[j] = stdin[j]
        \/ stdin'[j] = i /\ (\A k \in DOMAIN stdin : k < j) /\ j \notin DOMAIN stdin
  BY <1>2 DEF Inv, TypeOK
<1>6. \A j \in DOMAIN stdin' : \A k \in DOMAIN stdin' :
        j < k => j \in DOMAIN stdin
  BY <1>2 DEF Inv, TypeOK
<1>7. \A e \in executed : e \in Nat /\ e < i
  BY MaxCallsAssumption DEF Inv, Numbered, TypeOK, Id
<1>8. \A j \in DOMAIN stdin : stdin[j] \in Nat /\ stdin[j] < i
  BY MaxCallsAssumption DEF Inv, Numbered, TypeOK, Id
<1>9. serving \in Nat /\ serving < i
  BY MaxCallsAssumption DEF Inv, Numbered, TypeOK, Id
<1>10. Numbered'
  BY <1>1, <1>5, <1>7, <1>8, <1>9 DEF Inv, TypeOK, Numbered, CallRpc, Id
<1>11. \A j, k \in DOMAIN stdin' : j < k => stdin'[j] < stdin'[k]
  BY <1>5, <1>6, <1>8 DEF Inv, InOrder
<1>12. InOrder'
  BY <1>5, <1>7, <1>9, <1>11 DEF Inv, InOrder, CallRpc
<1>13. AtServer' /\ Answered'
  BY <1>1 DEF Inv, TypeOK, AtServer, Answered, CallRpc
<1> QED
  BY <1>3, <1>4, <1>10, <1>12, <1>13 DEF Inv

LEMMA HandleLineKeeps == ASSUME Inv, HandleLine PROVE Inv'
<1> DEFINE line == Head(stdout)
<1>1. /\ line \in Line /\ line = stdout[1] /\ 1 \in DOMAIN stdout
      /\ stdout' \in Seq(Line)
      /\ \A j \in DOMAIN stdout' : j + 1 \in DOMAIN stdout /\ stdout'[j] = stdout[j + 1]
  BY HeadAndTail DEF Inv, TypeOK, HandleLine
<1>2. UNCHANGED <<nextId, executed, stdin, serving, handler, exited, timed, broken,
                  stdinOpen, close, child>>
  BY DEF HandleLine
<1>3. \A j \in DOMAIN stdout' : stdout'[j].is # "garbage" => stdout'[j].id \in executed
  BY <1>1 DEF Inv, Answered
<1>4. Numbered /\ InOrder /\ AtServer
  BY DEF Inv
<1>5. InOrder' /\ AtServer'
  BY <1>2, <1>4 DEF InOrder, AtServer
<1>6. CASE line.is = "garbage"
  <2>1. /\ pending' = {}
        /\ outcome' = [i \in Id |-> IF outcome[i] = "waiting" THEN "failed" ELSE outcome[i]]
    BY <1>6, FailPendingRejects DEF HandleLine
  <2>2. TypeOK'
    BY <1>1, <1>2, <2>1 DEF Inv, TypeOK
  <2>3. Known'
    BY <2>1 DEF Inv, TypeOK, Known, WaitingIsPending, NobodyWaitsForTheDead
  <2>4. Numbered'
    BY <1>2, <1>4, <2>1 DEF Numbered
  <2>5. Answered'
    BY <1>2, <1>3, <2>1 DEF Inv, Answered
  <2> QED
    BY <1>5, <2>2, <2>3, <2>4, <2>5 DEF Inv
<1>7. CASE line.is # "garbage" /\ line.id \in pending
  <2>1. /\ line.id \in Id /\ line.id \in executed /\ line.is \in {"ok", "error"}
        /\ outcome[line.id] = "waiting"
        /\ pending' = pending \ {line.id}
        /\ outcome' = [outcome EXCEPT ![line.id] = line.is]
    BY <1>1, <1>7 DEF Inv, Answered, TypeOK, Known, WaitingIsPending, Line, HandleLine, Settle
  <2>2. TypeOK'
    BY <1>1, <1>2, <2>1 DEF Inv, TypeOK
  <2>3. Known'
    BY <1>2, <2>1 DEF Inv, TypeOK, Known, WaitingIsPending, NobodyWaitsForTheDead
  <2>4. Numbered'
    BY <1>2, <1>4, <2>1 DEF Numbered, Inv, TypeOK
  <2>5. Answered'
    BY <1>2, <1>3, <2>1 DEF Inv, Answered, TypeOK
  <2> QED
    BY <1>5, <2>2, <2>3, <2>4, <2>5 DEF Inv
<1>8. CASE line.is # "garbage" /\ line.id \notin pending
  <2>1. UNCHANGED <<pending, outcome>>
    BY <1>8 DEF HandleLine, Settle
  <2>2. TypeOK'
    BY <1>1, <1>2, <2>1 DEF Inv, TypeOK
  <2>3. Known' /\ Numbered'
    BY <1>2, <1>4, <2>1 DEF Inv, Known, WaitingIsPending, NobodyWaitsForTheDead, Numbered
  <2>4. Answered'
    BY <1>2, <1>3, <2>1 DEF Inv, Answered
  <2> QED
    BY <1>5, <2>2, <2>3, <2>4 DEF Inv
<1> QED
  BY <1>6, <1>7, <1>8

-----------------------------------------------------------------------------
(* The server's steps leave the client alone. *)

LEMMA TakeKeeps == ASSUME Inv, Take PROVE Inv'
<1>1. /\ Head(stdin) \in Id /\ Head(stdin) = stdin[1] /\ 1 \in DOMAIN stdin
      /\ stdin' \in Seq(Id) /\ serving' = stdin[1] /\ handler' = "running"
      /\ \A j \in DOMAIN stdin' : j \in Nat \ {0} /\ j + 1 \in DOMAIN stdin
                                 /\ stdin'[j] = stdin[j + 1]
  BY HeadAndTail DEF Inv, TypeOK, Take
<1>2. UNCHANGED <<nextId, pending, outcome, exited, stdout, executed>>
  BY DEF Take, client
<1>3. TypeOK'
  BY <1>1 DEF Inv, TypeOK, Take, client
<1>4. Known'
  BY <1>2 DEF Inv, Known, WaitingIsPending, NobodyWaitsForTheDead
<1>5. Numbered'
  BY <1>1, <1>2 DEF Inv, Numbered
<1>6. InOrder'
  BY <1>1, <1>2 DEF Inv, InOrder
<1>7. AtServer'
  BY <1>1, <1>2 DEF Inv, InOrder, AtServer, Id
<1>8. Answered'
  BY <1>2 DEF Inv, Answered
<1> QED
  BY <1>3, <1>4, <1>5, <1>6, <1>7, <1>8 DEF Inv

LEMMA ExecuteKeeps == ASSUME Inv, Execute PROVE Inv'
<1>1. /\ serving \in Id /\ executed' = executed \cup {serving} /\ handler' = "returned"
      /\ serving \notin executed
  BY DEF Inv, TypeOK, AtServer, Execute, Id
<1>2. UNCHANGED <<nextId, pending, outcome, exited, stdin, stdout, serving>>
  BY DEF Execute, client
<1>3. TypeOK'
  BY <1>1 DEF Inv, TypeOK, Execute, client
<1>4. Known'
  BY <1>2 DEF Inv, Known, WaitingIsPending, NobodyWaitsForTheDead
<1>5. Numbered' /\ InOrder'
  BY <1>1, <1>2 DEF Inv, Numbered, InOrder
<1>6. AtServer' /\ Answered'
  BY <1>1, <1>2 DEF Inv, AtServer, Answered, Id
<1> QED
  BY <1>3, <1>4, <1>5, <1>6 DEF Inv

\* Another line in stdout, which answers nothing or what was carried out.
LEMMA MoreOutput ==
  ASSUME Inv, NEW line \in Line, stdout' = Append(stdout, line), UNCHANGED executed,
         line.is # "garbage" => line.id \in executed
  PROVE  /\ stdout' \in Seq(Line)
         /\ \A j \in DOMAIN stdout' : stdout'[j].is # "garbage" => stdout'[j].id \in executed'
<1>1. /\ stdout' \in Seq(Line)
      /\ \A j \in DOMAIN stdout' :
           (j \in DOMAIN stdout /\ stdout'[j] = stdout[j]) \/ stdout'[j] = line
  BY DEF Inv, TypeOK
<1> QED
  BY <1>1 DEF Inv, Answered

LEMMA RespondKeeps == ASSUME Inv, Respond PROVE Inv'
<1> PICK r \in {"ok", "error"} : stdout' = Append(stdout, [id |-> serving, is |-> r])
  BY DEF Respond
<1>1. serving \in Id /\ serving \in executed
  BY DEF Inv, TypeOK, AtServer, Respond
<1>2. UNCHANGED <<nextId, pending, outcome, exited, stdin, executed>>
  BY DEF Respond, client
<1>3. [id |-> serving, is |-> r] \in Line
  BY <1>1 DEF Line
<1>4. /\ stdout' \in Seq(Line)
      /\ \A j \in DOMAIN stdout' : stdout'[j].is # "garbage" => stdout'[j].id \in executed'
  BY <1>1, <1>2, <1>3, MoreOutput
<1>5. TypeOK'
  BY <1>4 DEF Inv, TypeOK, Respond, client
<1>6. Known'
  BY <1>2 DEF Inv, Known, WaitingIsPending, NobodyWaitsForTheDead
<1>7. serving' = 0 /\ handler' = "none"
  BY DEF Respond
<1>8. Numbered' /\ InOrder'
  <2>1. nextId \in Nat \ {0} /\ \A j \in DOMAIN stdin : stdin[j] \in Nat \ {0}
    BY MaxCallsAssumption DEF Inv, TypeOK, Id
  <2> QED
    BY <1>2, <1>7, <2>1 DEF Inv, Numbered, InOrder
<1>9. AtServer' /\ Answered'
  BY <1>2, <1>4, <1>7 DEF Inv, AtServer, Answered
<1> QED
  BY <1>5, <1>6, <1>8, <1>9 DEF Inv

LEMMA DieKeeps == ASSUME Inv, Die \/ EndOfInput PROVE Inv'
<1>1. UNCHANGED <<nextId, pending, outcome, exited, stdout, executed>>
  BY DEF Die, EndOfInput, client
<1>2. stdin' = << >> /\ serving' = 0 /\ handler' = "none"
  BY DEF Die, EndOfInput, Inv, AtServer
<1>3. << >> \in Seq(Id) /\ DOMAIN << >> = {}
  OBVIOUS
<1>4. TypeOK'
  BY <1>1, <1>2, <1>3 DEF Inv, TypeOK, Die, EndOfInput, client
<1>5. Known'
  BY <1>1 DEF Inv, Known, WaitingIsPending, NobodyWaitsForTheDead
<1>6. Numbered' /\ InOrder' /\ AtServer'
  <2>1. nextId \in Nat \ {0}
    BY MaxCallsAssumption DEF Inv, TypeOK
  <2> QED
    BY <1>1, <1>2, <1>3, <2>1 DEF Inv, Numbered, InOrder, AtServer
<1>7. Answered'
  BY <1>1 DEF Inv, Answered
<1> QED
  BY <1>4, <1>5, <1>6, <1>7 DEF Inv

LEMMA GarbageAndHangKeep == ASSUME Inv, Garbage \/ Hang PROVE Inv'
<1>1. UNCHANGED <<nextId, pending, outcome, exited, stdin, serving, executed>>
  BY DEF Garbage, Hang, client
<1>2. Known' /\ Numbered' /\ InOrder'
  BY <1>1 DEF Inv, Known, WaitingIsPending, NobodyWaitsForTheDead, Numbered, InOrder
<1>3. CASE Garbage
  <2>1. [id |-> 0, is |-> "garbage"] \in Line
    BY DEF Line
  <2>2. /\ stdout' \in Seq(Line)
        /\ \A j \in DOMAIN stdout' : stdout'[j].is # "garbage" => stdout'[j].id \in executed'
    BY <1>1, <1>3, <2>1, MoreOutput DEF Garbage
  <2>3. TypeOK' /\ AtServer' /\ Answered'
    BY <1>1, <1>3, <2>2 DEF Inv, TypeOK, AtServer, Answered, Garbage, client
  <2> QED
    BY <1>2, <2>3 DEF Inv
<1>4. CASE Hang
  <2>1. TypeOK' /\ AtServer' /\ Answered'
    BY <1>1, <1>4 DEF Inv, TypeOK, AtServer, Answered, Hang, client
  <2> QED
    BY <1>2, <2>1 DEF Inv
<1> QED
  BY <1>3, <1>4

LEMMA InvNext == ASSUME Inv, [Next]_vars PROVE Inv'
BY LonelySteps, EventsKeep, CallKeeps, HandleLineKeeps, TakeKeeps, ExecuteKeeps,
   RespondKeeps, DieKeeps, GarbageAndHangKeep
   DEF Next

\* Every reachable state has the invariant.
THEOREM BridgeInvariant == Spec => []Inv
BY InvInit, InvNext, PTL DEF Spec

\* Every value of the state is of its type: above all a request, an answer and
\* an entry of the pending map always name a call that was made.
THEOREM BridgeTyped == Spec => []TypeOK
<1>1. Inv => TypeOK
  BY DEF Inv
<1> QED
  BY <1>1, BridgeInvariant, PTL

\* The promise of a call is unsettled exactly while the pending map has an
\* entry for it, through answers, timeouts, write errors, a failed spawn,
\* the exit of the server and lines that are no JSON.
THEOREM PendingIsExact == Spec => []WaitingIsPending
<1>1. Inv => WaitingIsPending
  BY DEF Inv, Known
<1> QED
  BY <1>1, BridgeInvariant, PTL

\* After the exit event of the server no call waits, and none is accepted.
THEOREM ExitReleasesAll == Spec => []NobodyWaitsForTheDead
<1>1. Inv => NobodyWaitsForTheDead
  BY DEF Inv, Known
<1> QED
  BY <1>1, BridgeInvariant, PTL

-----------------------------------------------------------------------------
(* The bridge implements the service: every step is one of its steps or     *)
(* none.                                                                    *)

LEMMA ServiceInit == ASSUME Init PROVE Service!SInit
BY DEF Init, Service!SInit

LEMMA SomeGiveUp ==
  ASSUME Inv, NEW these \in SUBSET Id, UNCHANGED executed,
         outcome' = [i \in Id |-> IF outcome[i] = "waiting" /\ i \in these
                                    THEN "failed" ELSE outcome[i]]
  PROVE  Service!SNext
<1> DEFINE those == {i \in these : outcome[i] = "waiting"}
<1>1. Service!GiveUp(those)
  BY DEF Service!GiveUp
<1> QED
  BY <1>1 DEF Service!SNext

LEMMA ServiceNext ==
  ASSUME Inv, [Next]_vars PROVE [Service!SNext]_(Service!sVars)
<1>1. CASE ErrorEvent \/ ExitEvent
  BY <1>1, SomeGiveUp, FailPendingRejects DEF ErrorEvent, ExitEvent, server
<1>2. CASE \E i \in Id : WriteError(i) \/ Timeout(i)
  <2> PICK i \in Id : WriteError(i) \/ Timeout(i)
    BY <1>2
  <2> QED
    BY SomeGiveUp, RejectRejects DEF WriteError, Timeout, server
<1>3. CASE CallRpc
  <2>1. nextId \in Id /\ outcome[nextId] = "unused"
    BY <1>3, MaxCallsAssumption DEF Inv, Numbered, CallRpc, Id, TypeOK
  <2>2. Service!Ask(nextId)
    BY <1>3, <2>1 DEF Service!Ask, CallRpc
  <2> QED
    BY <2>1, <2>2 DEF Service!SNext
<1>4. CASE HandleLine
  <2> DEFINE line == Head(stdout)
  <2>1. line \in Line /\ line = stdout[1] /\ 1 \in DOMAIN stdout /\ UNCHANGED executed
    BY <1>4, HeadAndTail DEF Inv, TypeOK, HandleLine
  <2>2. CASE line.is = "garbage"
    BY <1>4, <2>1, <2>2, SomeGiveUp, FailPendingRejects DEF HandleLine
  <2>3. CASE line.is # "garbage" /\ line.id \in pending
    <3>1. /\ line.id \in Id /\ line.id \in executed /\ line.is \in {"ok", "error"}
          /\ outcome[line.id] = "waiting"
          /\ outcome' = [outcome EXCEPT ![line.id] = line.is]
      BY <1>4, <2>1, <2>3 DEF Inv, Answered, TypeOK, Known, WaitingIsPending, Line,
                              HandleLine, Settle
    <3>2. Service!Answer(line.id)
      BY <2>1, <3>1 DEF Service!Answer
    <3> QED
      BY <3>1, <3>2 DEF Service!SNext
  <2>4. CASE line.is # "garbage" /\ line.id \notin pending
    BY <1>4, <2>1, <2>4 DEF HandleLine, Settle, Service!sVars
  <2> QED
    BY <2>2, <2>3, <2>4
<1>5. CASE Execute
  <2>1. /\ serving \in Id /\ serving \notin executed
        /\ outcome[serving] \in {"waiting", "failed"}
    <3>1. serving \in Id /\ serving \notin executed
      BY <1>5 DEF Inv, TypeOK, AtServer, Execute, Id
    <3>2. outcome[serving] # "unused"
      BY <3>1, MaxCallsAssumption DEF Inv, Numbered, TypeOK, Id
    <3>3. outcome[serving] \notin {"ok", "error"}
      BY <3>1 DEF Inv, Answered
    <3> QED
      BY <3>1, <3>2, <3>3 DEF Inv, TypeOK
  <2>2. Service!Execute(serving)
    BY <1>5, <2>1 DEF Service!Execute, Execute, client
  <2> QED
    BY <2>1, <2>2 DEF Service!SNext
<1>6. CASE Start \/ Close \/ Take \/ Respond \/ EndOfInput \/ Die \/ Garbage \/ Hang
  BY <1>6 DEF Start, Close, Take, Respond, EndOfInput, Die, Garbage, Hang, client, server,
              Service!sVars
<1>7. CASE UNCHANGED vars
  BY <1>7 DEF vars, client, server, Service!sVars
<1> QED
  BY <1>1, <1>2, <1>3, <1>4, <1>5, <1>6, <1>7 DEF Next

\* The bridge keeps the promise of RpcService: no request is carried out
\* twice, and only what was carried out is answered.
THEOREM BridgeImplementsService == Spec => ImplementsService
<1>1. Init => Service!SInit
  BY ServiceInit
<1>2. Inv /\ [Next]_vars => [Service!SNext]_(Service!sVars)
  BY ServiceNext
<1> QED
  BY <1>1, <1>2, BridgeInvariant, PTL DEF Spec, ImplementsService, Service!SSpec
=============================================================================
