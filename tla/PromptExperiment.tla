--------------------------- MODULE PromptExperiment ---------------------------
(***************************************************************************)
(* A family of prompt experiments: the store that keeps it                 *)
(* (mosaic/scorecard/prompt_optimizer_store.py) and the processes that     *)
(* carry the plan of the family out, each as often as it is started        *)
(* (mosaic-ts/src/autoresearch/prompt_optimizer_shadow_runner.ts and       *)
(* prompt_experiment_runner.ts).                                           *)
(*                                                                         *)
(* Every call of the store is one BEGIN IMMEDIATE transaction; everything  *)
(* a process knows between two calls may be out of date.  A run is leased  *)
(* to the process that claims it, and its claims are told apart by their   *)
(* attempt: owner and instants of a claim change only with the attempt.    *)
(* Records are bound to each other by hashes that never change; a call     *)
(* that breaks such a binding is refused and left out.                     *)
(***************************************************************************)
EXTENDS Integers, FiniteSets, Functions

CONSTANTS
  Proc,          \* processes that carry out the plan
  Candidates,    \* number of candidates of the family
  Pair,          \* (sample, seed) pairs of a partition
  Score,         \* Score[r] : what run r may score, in some unit
  MinDelta,      \* what the validation gate of the policy asks for
  MaxAttempts,   \* _MAX_RUN_ATTEMPTS
  Lanes,         \* maxConcurrency of the plan
  MaxFaults,     \* bound: kills, transient failures, leases lost while at work
  None           \* no value yet

ASSUME ExperimentAssumption ==
  /\ Candidates \in Nat \ {0}
  /\ IsFiniteSet(Pair) /\ Pair # {}
  /\ MinDelta \in Int /\ None \notin Int
  /\ MaxAttempts \in Nat \ {0} /\ Lanes \in Nat \ {0} /\ MaxFaults \in Nat

\* Candidates are numbered in the order that breaks ties.
Candidate == 1..Candidates

Partition == {"VALIDATION", "HOLDOUT"}
Side == {"CHAMPION", "CANDIDATE"}

\* The runs of one partition of one experiment.
RunsOf(c, part) == {c} \X {part} \X Pair \X Side
Run == Candidate \X Partition \X Pair \X Side

ASSUME ScoreAssumption == Score \in [Run -> SUBSET Int]

VARIABLES
  exps,      \* exps[c] : the row of the experiment of candidate c
  runs,      \* runs[r] : the row of run r
  proc,      \* proc[p] : where p is in the plan and what it has read
  faults     \* number of faults so far

store == <<exps, runs>>
vars == <<exps, runs, proc, faults>>

Status == {"ABSENT", "PENDING", "VALIDATION_RUNNING", "VALIDATION_COMPLETE",
           "HOLDOUT_RUNNING", "COMPLETE", "FAILED"}

\* opened: holdoutOpenedAt is set.  delta: the paired deltas in metrics.
Experiment == [status : Status, opened : BOOLEAN, runIds : SUBSET Run,
               delta : [Partition -> Int \cup {None}]]

NewExperiment == [status |-> "ABSENT", opened |-> FALSE, runIds |-> {},
                  delta |-> [part \in Partition |-> None]]

\* live: the lease has not run out.  failures: the length of attemptFailureCodes.
RunRow == [status : {"ABSENT", "RUNNING", "COMPLETE", "FAILED"}, attempt : 0..MaxAttempts,
           failures : 0..MaxAttempts, retryable : BOOLEAN, live : BOOLEAN,
           score : Int \cup {None}]

NewRun == [status |-> "ABSENT", attempt |-> 0, failures |-> 0, retryable |-> FALSE,
           live |-> FALSE, score |-> None]

\* at: what the process does next.  of, part: the experiment and the partition
\* it is at.  exp: the experiment as it knows it.  left: the runs it has still
\* to claim and the attempt it will ask for.  claims: the runs it executes and
\* the attempt it was given.  error: one of its runs threw.
Process == [at : {"idle", "look", "create", "open", "list", "work", "put"},
            of : Candidate, part : Partition, exp : Experiment,
            left : SUBSET (Run \X (0..MaxAttempts)),
            claims : SUBSET (Run \X (0..MaxAttempts)), error : BOOLEAN]

Idle == [at |-> "idle", of |-> 1, part |-> "VALIDATION", exp |-> NewExperiment,
         left |-> {}, claims |-> {}, error |-> FALSE]

TypeOK ==
  /\ exps \in [Candidate -> Experiment]
  /\ runs \in [Run -> RunRow]
  /\ proc \in [Proc -> Process]
  /\ faults \in 0..MaxFaults

Init ==
  /\ exps = [c \in Candidate |-> NewExperiment]
  /\ runs = [r \in Run |-> NewRun]
  /\ proc = [p \in Proc |-> Idle]
  /\ faults = 0

-----------------------------------------------------------------------------
(* The store. *)

Done(r) == runs[r].status = "COMPLETE"

\* _partition_aggregate: the sum of the paired deltas stands for their mean.
DeltaOf(rows, c, part) ==
  SumFunction([i \in Pair |-> rows[<<c, part, i, "CANDIDATE">>].score
                                - rows[<<c, part, i, "CHAMPION">>].score])

\* _assert_exact_run_matrix: the partition is complete, and the experiment
\* names exactly its complete runs.
MatrixComplete(e, c, part) ==
  /\ \A r \in RunsOf(c, part) : Done(r)
  /\ e.runIds = {r \in RunsOf(c, "VALIDATION") \cup RunsOf(c, "HOLDOUT") : Done(r)}

\* _validation_gate_eligible, from the runs.
Eligible(c) == DeltaOf(runs, c, "VALIDATION") >= MinDelta

\* The order the winner is first in, by the deltas the experiments recorded.
Before(c, d) ==
  LET recorded(k) == exps[k].delta["VALIDATION"]
  IN  recorded(c) > recorded(d) \/ (recorded(c) = recorded(d) /\ c <= d)

\* _assert_holdout_winner.
HoldoutWinner_AnyComplete(c) ==
  /\ exps[c].status = "VALIDATION_COMPLETE"
  /\ MatrixComplete(exps[c], c, "VALIDATION")
  /\ Eligible(c)

HoldoutWinner_SiblingMayBeOpen(c) ==
  /\ \A d \in Candidate :
       exps[d].status \in {"VALIDATION_COMPLETE", "HOLDOUT_RUNNING", "COMPLETE", "FAILED"}
  /\ Eligible(c)

HoldoutWinner(c) ==
  /\ \A d \in Candidate :
       exps[d].status = "VALIDATION_COMPLETE" /\ MatrixComplete(exps[d], d, "VALIDATION")
  /\ Eligible(c)
  /\ \A d \in Candidate : Eligible(d) => Before(c, d)

\* _EXPERIMENT_TRANSITIONS.
TRANSITIONS ==
  {<<"ABSENT", "PENDING">>,
   <<"PENDING", "VALIDATION_RUNNING">>, <<"VALIDATION_RUNNING", "VALIDATION_COMPLETE">>,
   <<"VALIDATION_COMPLETE", "HOLDOUT_RUNNING">>, <<"HOLDOUT_RUNNING", "COMPLETE">>}
  \cup {<<s, "FAILED">> : s \in {"PENDING", "VALIDATION_RUNNING", "VALIDATION_COMPLETE",
                                 "HOLDOUT_RUNNING"}}

\* _assert_experiment_transition_closure: what the evidence of a record has to
\* be for its status.
Closed(c, value) ==
  LET evidence == [runIds |-> exps[c].runIds, delta |-> exps[c].delta]
      same == [runIds |-> value.runIds, delta |-> value.delta] = evidence
  IN  CASE value.status \in {"PENDING", "VALIDATION_RUNNING", "FAILED"} -> same
        [] value.status = "VALIDATION_COMPLETE" ->
             /\ MatrixComplete(value, c, "VALIDATION")
             /\ value.delta = [part \in Partition |->
                  IF part = "VALIDATION" THEN DeltaOf(runs, c, part) ELSE None]
        [] value.status = "HOLDOUT_RUNNING" -> HoldoutWinner(c) /\ same
        [] value.status = "COMPLETE" ->
             /\ {d \in Candidate : exps[d].status \in {"HOLDOUT_RUNNING", "COMPLETE"}} = {c}
             /\ \A part \in Partition : MatrixComplete(value, c, part)
             /\ value.delta = [part \in Partition |-> DeltaOf(runs, c, part)]

\* put_experiment: a record that is there already, or differs in its instants
\* only, is answered with the one that is there.
Repeated(c, value) ==
  LET current == exps[c] IN
  \/ current = value
  \/ /\ current.status = value.status
     /\ current.status \in {"HOLDOUT_RUNNING", "COMPLETE", "FAILED"}
     /\ [current EXCEPT !.opened = value.opened] = value

Accepted(c, value) ==
  /\ <<exps[c].status, value.status>> \in TRANSITIONS
  /\ value.status # "HOLDOUT_RUNNING" => value.opened = exps[c].opened
  /\ Closed(c, value)

\* The row after the call, to which the opening of the holdout is written, and
\* whether the caller is told of an error.
Stored(c, value) ==
  IF Repeated(c, value) \/ ~Accepted(c, value) THEN exps[c]
  ELSE [value EXCEPT !.opened = @ \/ value.status = "HOLDOUT_RUNNING"]

Refused(c, value) == ~Repeated(c, value) /\ ~Accepted(c, value)

-----------------------------------------------------------------------------
\* claim_run.  A lease that ran out on the last attempt ends the run.
ClaimOpen(r) == exps[r[1]].status = IF r[2] = "VALIDATION" THEN "VALIDATION_RUNNING"
                                                           ELSE "HOLDOUT_RUNNING"

Taken_LeasesLast(r) == Done(r) \/ runs[r].status = "RUNNING"
Taken(r) ==
  \/ Done(r)
  \/ runs[r].status = "RUNNING" /\ runs[r].live
  \/ runs[r].status = "FAILED" /\ ~runs[r].retryable

Exhausted(r) == runs[r].status = "RUNNING" /\ ~runs[r].live /\ runs[r].attempt >= MaxAttempts

\* The attempt a claim must ask for.
NextAttempt(row) ==
  IF row.status = "RUNNING" /\ row.attempt >= MaxAttempts THEN row.attempt
                                                          ELSE row.attempt + 1

Claimed(r) ==
  [status |-> "RUNNING", attempt |-> runs[r].attempt + 1,
   failures |-> runs[r].failures + IF runs[r].status = "RUNNING" THEN 1 ELSE 0,
   retryable |-> FALSE, live |-> TRUE, score |-> None]

Ended(r) ==
  [status |-> "FAILED", attempt |-> runs[r].attempt, failures |-> runs[r].failures + 1,
   retryable |-> FALSE, live |-> FALSE, score |-> None]

\* put_run: in the lease only.  A put is sent once, so the answer to a put that
\* is there already is left out.
MayPut_AnyAttempt(r, attempt) == runs[r].status = "RUNNING" /\ runs[r].live

MayPut_NoLease(r, attempt) ==
  exps[r[1]].status \in IF r[2] = "VALIDATION" THEN {"VALIDATION_RUNNING", "VALIDATION_COMPLETE"}
                                               ELSE {"HOLDOUT_RUNNING", "COMPLETE"}

MayPut(r, attempt) ==
  /\ exps[r[1]].status \in IF r[2] = "VALIDATION" THEN {"VALIDATION_RUNNING", "VALIDATION_COMPLETE"}
                                                  ELSE {"HOLDOUT_RUNNING", "COMPLETE"}
  /\ runs[r].status = "RUNNING" /\ runs[r].live
  /\ runs[r].attempt = attempt

\* The records the runner makes of its claim, which is the row as long as the
\* attempt is the same.
Succeeded(r, attempt, score) ==
  [status |-> "COMPLETE", attempt |-> attempt, failures |-> runs[r].failures,
   retryable |-> FALSE, live |-> FALSE, score |-> score]

Transient_AlwaysRetryable(r, attempt) ==
  [status |-> "FAILED", attempt |-> attempt, failures |-> runs[r].failures + 1,
   retryable |-> TRUE, live |-> FALSE, score |-> None]

Transient(r, attempt) ==
  [status |-> "FAILED", attempt |-> attempt, failures |-> runs[r].failures + 1,
   retryable |-> attempt < MaxAttempts, live |-> FALSE, score |-> None]

-----------------------------------------------------------------------------
(* The process. *)

NoFault == UNCHANGED faults
Fault == faults < MaxFaults /\ faults' = faults + 1

\* An exception ends the process, and so does the end of the plan.
Stop(p) == proc' = [proc EXCEPT ![p] = Idle]

GoOn(p, c, part) ==
  proc' = [proc EXCEPT ![p] = [Idle EXCEPT !.at = "look", !.of = c, !.part = part]]

Knows(p, at, e) == proc' = [proc EXCEPT ![p].at = at, ![p].exp = e]

\* selectPromptCandidateFamily, by the plan and by the runner again: validated
\* experiments keep their deltas and runs, so what the plan read before is what
\* is there; the one that fails now is refused at the next step.
Validated == {"VALIDATION_COMPLETE", "HOLDOUT_RUNNING", "COMPLETE"}

Selected(c) ==
  /\ \A d \in Candidate : exps[d].status \in Validated
  /\ Eligible(c)
  /\ \A d \in Candidate : Eligible(d) => Before(c, d)

\* The plan validates its candidates one after the other and then goes for the
\* holdout of the winner.
AfterValidation(p) ==
  IF proc[p].of < Candidates THEN GoOn(p, proc[p].of + 1, "VALIDATION")
  ELSE \/ \E c \in Candidate : Selected(c) /\ GoOn(p, c, "HOLDOUT")
       \/ (\A c \in Candidate : ~Selected(c)) /\ Stop(p)

Start(p) ==
  /\ proc[p].at = "idle"
  /\ GoOn(p, 1, "VALIDATION")
  /\ UNCHANGED <<store, faults>>

\* getExperiment, and what its status leaves to do.
Look(p) ==
  /\ proc[p].at = "look"
  /\ LET e == exps[proc[p].of]
         toOpen == IF proc[p].part = "VALIDATION" THEN "PENDING" ELSE "VALIDATION_COMPLETE"
         opened == IF proc[p].part = "VALIDATION" THEN "VALIDATION_RUNNING" ELSE "HOLDOUT_RUNNING"
         over == proc[p].part = "VALIDATION" /\ e.status \in Validated
     IN  \/ e.status = "ABSENT" /\ Knows(p, "create", [e EXCEPT !.status = "PENDING"])
         \/ e.status = toOpen /\ Knows(p, "open", [e EXCEPT !.status = opened,
                                     !.opened = @ \/ proc[p].part = "HOLDOUT"])
         \/ e.status = opened /\ Knows(p, "list", e)
         \/ over /\ AfterValidation(p)
         \/ e.status \notin {"ABSENT", toOpen, opened} /\ ~over /\ Stop(p)
  /\ UNCHANGED <<store, faults>>

\* putExperiment of the record the process has made.
Put(p) ==
  /\ exps' = [exps EXCEPT ![proc[p].of] = Stored(proc[p].of, proc[p].exp)]
  /\ UNCHANGED <<runs, faults>>

Create(p) ==
  /\ proc[p].at = "create"
  /\ Put(p)
  /\ IF Refused(proc[p].of, proc[p].exp) THEN Stop(p)
       ELSE Knows(p, "open", [proc[p].exp EXCEPT !.status = "VALIDATION_RUNNING"])

Open(p) ==
  /\ proc[p].at = "open"
  /\ Put(p)
  /\ IF Refused(proc[p].of, proc[p].exp) THEN Stop(p)
       ELSE Knows(p, "list", exps'[proc[p].of])

\* listRuns: a run that is over is not claimed.
List(p) ==
  /\ proc[p].at = "list"
  /\ LET open == {r \in RunsOf(proc[p].of, proc[p].part) :
                    ~Done(r) /\ ~(runs[r].status = "FAILED" /\ ~runs[r].retryable)}
     IN  proc' = [proc EXCEPT ![p].at = "work",
                              ![p].left = {<<r, NextAttempt(runs[r])>> : r \in open}]
  /\ UNCHANGED <<store, faults>>

\* claimRun, by a lane of mapLimit that is free; no lane starts another run
\* after one has thrown.
Claim(p) ==
  /\ proc[p].at = "work" /\ ~proc[p].error
  /\ Cardinality(proc[p].claims) < Lanes
  /\ \E task \in proc[p].left :
       LET r == task[1]
           wrong == ~ClaimOpen(r) \/ (~Taken(r) /\ task[2] # NextAttempt(runs[r]))
           given == ~wrong /\ ~Taken(r) /\ ~Exhausted(r)
       IN  /\ runs' = IF given THEN [runs EXCEPT ![r] = Claimed(r)]
                      ELSE IF ~wrong /\ ~Taken(r) THEN [runs EXCEPT ![r] = Ended(r)]
                      ELSE runs
           /\ proc' = [proc EXCEPT ![p].left = @ \ {task},
                                   ![p].claims = IF given THEN @ \cup {task} ELSE @,
                                   ![p].error = wrong]
  /\ UNCHANGED <<exps, faults>>

\* The agent has been run and evaluated, or its infrastructure failed: putRun.
\* A retryable failure throws, and so does a put that is refused.
Report(p) ==
  /\ \E task \in proc[p].claims : \E score \in Score[task[1]] \cup {None} :
       LET r == task[1]
           may == MayPut(r, task[2])
           value == IF score = None THEN Transient(r, task[2]) ELSE Succeeded(r, task[2], score)
       IN  /\ runs' = IF may THEN [runs EXCEPT ![r] = value] ELSE runs
           /\ proc' = [proc EXCEPT ![p].claims = @ \ {task},
                                   ![p].error = @ \/ ~may \/ value.retryable]
           /\ IF score = None THEN Fault ELSE NoFault
  /\ UNCHANGED exps

\* listRuns again: a run that failed for good fails the experiment, else an
\* error is thrown on, and so is a run that is not complete.
Conclude(p) ==
  /\ proc[p].at = "work" /\ proc[p].claims = {}
  /\ proc[p].left = {} \/ proc[p].error
  /\ LET c == proc[p].of
         mine == RunsOf(c, proc[p].part)
         e == proc[p].exp
     IN  IF \E r \in mine : runs[r].status = "FAILED" /\ ~runs[r].retryable
           THEN Knows(p, "put", [e EXCEPT !.status = "FAILED"])
         ELSE IF proc[p].error \/ \E r \in mine : ~Done(r) THEN Stop(p)
         ELSE Knows(p, "put",
                [e EXCEPT !.status = IF proc[p].part = "VALIDATION" THEN "VALIDATION_COMPLETE"
                                                                    ELSE "COMPLETE",
                          !.runIds = @ \cup mine,
                          !.delta[proc[p].part] = DeltaOf(runs, c, proc[p].part)])
  /\ UNCHANGED <<store, faults>>

\* The last putExperiment of a partition.
Finish(p) ==
  /\ proc[p].at = "put"
  /\ Put(p)
  /\ IF \/ Refused(proc[p].of, proc[p].exp)
        \/ proc[p].exp.status = "FAILED" \/ proc[p].part = "HOLDOUT"
       THEN Stop(p) ELSE AfterValidation(p)

-----------------------------------------------------------------------------
\* Any other client of the bridge may ask for the holdout of any candidate.
Request(c) ==
  /\ exps' = [exps EXCEPT ![c] =
       Stored(c, [exps[c] EXCEPT !.status = "HOLDOUT_RUNNING", !.opened = TRUE])]
  /\ UNCHANGED <<runs, proc, faults>>

\* The process is killed, or an answer of the bridge is lost and it throws.
Crash(p) ==
  /\ proc[p].at # "idle"
  /\ Fault
  /\ Stop(p)
  /\ UNCHANGED store

\* The database's clock passes leaseExpiresAt.
Expire(r) ==
  /\ runs[r].status = "RUNNING" /\ runs[r].live
  /\ IF \E p \in Proc : <<r, runs[r].attempt>> \in proc[p].claims THEN Fault ELSE NoFault
  /\ runs' = [runs EXCEPT ![r].live = FALSE]
  /\ UNCHANGED <<exps, proc>>

Step(p) ==
  \/ Start(p) \/ Look(p) \/ Create(p) \/ Open(p) \/ List(p)
  \/ Claim(p) \/ Report(p) \/ Conclude(p) \/ Finish(p)

Next ==
  \/ \E p \in Proc : Step(p) \/ Crash(p)
  \/ \E r \in Run : Expire(r)
  \/ \E c \in Candidate : Request(c)

Spec == Init /\ [][Next]_vars

\* Time passes, a process goes on, and somebody starts it again.
FairSpec ==
  /\ Spec
  /\ \A p \in Proc : WF_vars(Step(p))
  /\ WF_vars(\E r \in Run : Expire(r))

-----------------------------------------------------------------------------
\* The holdout of a family is opened for one candidate ever, also after that
\* one has failed on it, and nothing runs on it before.
OneHoldout ==
  /\ \A c, d \in Candidate : exps[c].opened /\ exps[d].opened => c = d
  /\ \A r \in Run : r[2] = "HOLDOUT" /\ runs[r].status # "ABSENT" => exps[r[1]].opened

\* What an experiment recorded is what its runs say, also long after: a late
\* result cannot change a run the record was made of.
EvidenceIsRuns ==
  \A c \in Candidate :
    LET e == exps[c] IN
    /\ \A r \in e.runIds : Done(r)
    /\ \A part \in Partition :
         e.delta[part] # None =>
           RunsOf(c, part) \subseteq e.runIds /\ e.delta[part] = DeltaOf(runs, c, part)

\* Every attempt is accounted for: one failure for each attempt but a running
\* or successful last one, across leases that ran out, transient failures and
\* processes that were killed; and a run that failed for good used them all.
AttemptsAreCounted ==
  \A r \in Run :
    /\ runs[r].status \in {"RUNNING", "COMPLETE"} => runs[r].failures = runs[r].attempt - 1
    /\ runs[r].status = "FAILED" =>
         /\ runs[r].failures = runs[r].attempt
         /\ runs[r].retryable <=> runs[r].attempt < MaxAttempts

\* A result is final, and a late answer of an earlier attempt changes nothing.
ResultsAreFinal ==
  [][\A r \in Run :
       /\ runs'[r].attempt >= runs[r].attempt
       /\ Done(r) => runs'[r] = runs[r]
       /\ runs[r].status = "FAILED" /\ ~runs[r].retryable => runs'[r] = runs[r]]_vars

\* The promise about the holdout.
Consumers == {c \in Candidate : exps[c].opened}

Budget == INSTANCE HoldoutBudget WITH
  delta <- [c \in Candidate |-> exps[c].delta["VALIDATION"]],
  consumer <- IF Consumers = {} THEN None ELSE CHOOSE c \in Consumers : TRUE,
  failed <- {c \in Candidate : exps[c].status = "FAILED"}

ImplementsBudget == Budget!HSpec

\* The family is decided, if only finitely many processes are killed: some
\* experiment has failed, the holdout is done, or nobody is good enough for it.
Decided ==
  \/ \E c \in Candidate : exps[c].status \in {"FAILED", "COMPLETE"}
  \/ \A c \in Candidate : exps[c].status = "VALIDATION_COMPLETE" /\ ~Eligible(c)

FamilyIsDecided == <>Decided
=============================================================================
