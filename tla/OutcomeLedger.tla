---------------------------- MODULE OutcomeLedger ----------------------------
(***************************************************************************)
(* The outcome tables of the scorecard database and the processes that     *)
(* share them: daily cycles, which plan a trading day, freeze what each    *)
(* scheduled agent will be judged on, run and are accepted; and operators, *)
(* which later turn due samples into scores.  SQLite serialises the        *)
(* transactions; what a process read before its transaction may be stale.  *)
(*                                                                         *)
(* A sample is <<agent, n>>: n is the trading day for an agent on a fixed  *)
(* schedule and the event for an event-triggered one.  The members of an   *)
(* opportunity set stand for its whole hashed content.  One cohort is      *)
(* modelled, whose roster has one revision per trading day.                *)
(***************************************************************************)
EXTENDS Naturals, FiniteSets

CONSTANTS
    Proc,        \* daily-cycle processes; each draws its own graph run id
    Operator,    \* callers of the outcome update
    LastDay,     \* bound: cycles run for the trading days 1 .. LastDay
    LastCutoff,  \* bound: the last trading day of the operators
    FixedDue,    \* samples of the fixed schedules, as <<agent, day>>
    EventAgent,  \* the event-triggered agents
    LastEvent,   \* bound: the events are 1 .. LastEvent
    Coverage,    \* the verified sets of event candidates a cycle may load
    LiveAgent,   \* macro and sector agents, frozen by freeze_outcome_opportunity
    MayBeEmpty,  \* EMPTY_OPPORTUNITY_ALLOWED
    Candidate,   \* what an opportunity set can contain
    None

Day == 1 .. LastDay
Event == 1 .. LastEvent
EventSample == EventAgent \X Event
Sample == FixedDue \cup EventSample
Members == SUBSET Candidate

\* What becomes of a judged sample; ABSTAIN is the disposition
\* EXOGENOUS_EXCLUSION with the reason OUTCOME_ABSTAIN.
Realized == {"SCORE", "ABSTAIN"}
Terminal == Realized \cup {"NO_EVALUATION_OBJECT", "OPPORTUNITY_SET_UNAVAILABLE"}
Disposition == {None, "PENDING"} \cup Terminal

\* A plan, as read or as drafted.
Plan == [day : Day, coverage : Coverage, slots : SUBSET Sample,
         decided : [EventSample -> {None, "SELECTED", "OVERLAPPING_WINDOW"}]]

\* What a process hands in: its own model outputs, on the sets it was given.
Work == [by : Proc, view : [Sample -> {None} \cup Members]]

ASSUME LedgerAssumption ==
    /\ LastDay \in Nat \ {0} /\ LastEvent \in Nat
    /\ Coverage \subseteq SUBSET Event
    /\ LastCutoff \in Nat /\ LastDay < LastCutoff
    /\ IsFiniteSet(Proc) /\ IsFiniteSet(Operator)
    /\ \A s \in FixedDue : s = <<s[1], s[2]>> /\ s[2] \in Day /\ s[1] \notin EventAgent
    /\ None \notin Proc \cup Terminal \cup {"PENDING", "SELECTED", "OVERLAPPING_WINDOW"}
    /\ None \notin Plan \cup Work
    /\ \A m \in Members : m # None

VARIABLES
    clock,      \* the latest trading day that has closed
    plan,       \* outcome_schedule_plans_v2 and its scheduled slots, by run
    decision,   \* event -> disposition, by event-triggered agent and event
    opp,        \* evaluation_opportunity_sets_v2, by sample
    failure,    \* evaluation_opportunity_set_generation_failures_v2
    skip,       \* no_evaluation_object_stage_skips_v2
    elig,       \* disposition of the latest eligibility revision, by sample
    output,     \* accepted_agent_outputs_v2, by run: whose work it is, and the
                \* opportunity sets the work was given
    seal,       \* scorecard_accepted_runs, by date
    outcome,    \* realized outcome the sources will report, by sample
    obs,        \* realized_outcome_observations_v2: cutoffs observed, by sample
    label,      \* samples with a row in agent_outcome_labels_v2
    cycle,      \* the daily-cycle processes
    update      \* the operators' outcome updates in progress

tables == <<plan, decision, opp, failure, skip, elig, output, seal, obs, label>>
vars == <<clock, tables, outcome, cycle, update>>

-------------------------------------------------------------------------------
(* Reading the tables. *)

Planned == {r \in Proc : plan[r] # None}

Scheduled == UNION {plan[r].slots : r \in Planned}

DayOf(d) == UNION {plan[r].slots : r \in {q \in Planned : plan[q].day = d}}

\* Verified candidates the track has never decided on, and the one of them
\* that triggers: candidates are sorted, the first is taken.
Fresh(a, coverage) == {e \in coverage : decision[<<a, e>>] = None}
Trigger(a, coverage) ==
    {e \in Fresh(a, coverage) : \A f \in Fresh(a, coverage) : e <= f}

\* The slots of day d: fixed samples that fall on it, and one event an agent.
Slots(d, coverage) ==
    {s \in FixedDue : s[2] = d}
    \cup {s \in EventSample : s[2] \in Trigger(s[1], coverage)}

Decide_AllExcluded(coverage) ==
    [s \in EventSample |->
        IF s[2] \in Trigger(s[1], coverage) THEN "SELECTED"
        ELSE IF s[2] \in Fresh(s[1], coverage) THEN "OVERLAPPING_WINDOW"
        ELSE IF s[2] \in coverage THEN "ALREADY_SCHEDULED" ELSE None]

\* What the plan decides of its candidates; an event decided before is only
\* noted in the slot.
Decide(coverage) ==
    [s \in EventSample |->
        IF s[2] \in Trigger(s[1], coverage) THEN "SELECTED"
        ELSE IF s[2] \in Fresh(s[1], coverage) THEN "OVERLAPPING_WINDOW"
        ELSE None]

-------------------------------------------------------------------------------
\* Where a process is, its run, its plan before it is written, the sample it
\* failed at, the samples it skipped, the sets it has frozen.
Cycle == [pc : {"idle", "planning", "staging", "accepted", "unavailable", "stopped"},
          run : Proc \cup {None}, draft : {None} \cup Plan, at : Sample \cup {None},
          done : SUBSET Sample, view : [Sample -> {None} \cup Members]]

Idle == [pc |-> "idle", run |-> None, draft |-> None, at |-> None, done |-> {},
         view |-> [s \in Sample |-> None]]

\* A process at its end, and the sample it ended at if it matters.
Ended(how, s) == [Idle EXCEPT !.pc = how, !.at = s]

Init ==
    /\ clock = 1
    /\ plan = [r \in Proc |-> None]
    /\ decision = [s \in EventSample |-> None]
    /\ opp = [s \in Sample |-> None]
    /\ failure = {} /\ skip = {} /\ label = {}
    /\ elig = [s \in Sample |-> None]
    /\ output = [r \in Proc |-> None]
    /\ seal = [d \in Day |-> None]
    /\ outcome = [s \in Sample |-> None]
    /\ obs = [s \in Sample |-> {}]
    /\ cycle = [p \in Proc |-> Idle]
    /\ update = [o \in Operator |-> None]

-------------------------------------------------------------------------------
(* Daily cycles: the plan. *)

\* The reads of prepare_outcome_schedule_plan, before any transaction: no plan
\* for this roster revision and date, and the events the tracks have decided.
DraftPlan(p, d, coverage) ==
    /\ cycle[p].pc = "idle"
    /\ d <= clock
    /\ \A r \in Planned : plan[r].day # d
    /\ cycle' = [cycle EXCEPT
         ![p].pc = "planning",
         ![p].draft = [day |-> d, coverage |-> coverage,
                       slots |-> Slots(d, coverage), decided |-> Decide(coverage)]]
    /\ UNCHANGED <<clock, tables, outcome, update>>

Inserts_NotUnique(draft) == TRUE

\* No slot of a sample that has one, no decision on a decided event: the
\* tables are UNIQUE in both, and a collision rolls the plan back.
Inserts(draft) ==
    /\ draft.slots \cap Scheduled = {}
    /\ \A s \in EventSample : draft.decided[s] # None => decision[s] = None

\* Its inserts, one transaction.
WritePlan(p) ==
    LET draft == cycle[p].draft IN
    /\ cycle[p].pc = "planning"
    /\ Inserts(draft)
    /\ plan' = [plan EXCEPT ![p] = draft]
    /\ decision' = [s \in EventSample |->
                       IF draft.decided[s] # None THEN draft.decided[s] ELSE decision[s]]
    /\ cycle' = [cycle EXCEPT ![p].pc = "staging", ![p].run = p,
                             ![p].draft = None]
    /\ UNCHANGED <<clock, opp, failure, skip, elig, output, seal, obs, label,
                   outcome, update>>

\* The date has a plan, drafted from the same coverage: an ungoverned cycle
\* takes over that plan's graph run id.
AdoptPlan(p, r, coverage) ==
    /\ cycle[p].pc = "idle"
    /\ r \in Planned
    /\ plan[r].coverage = coverage
    /\ cycle' = [cycle EXCEPT ![p].pc = "staging", ![p].run = r]
    /\ UNCHANGED <<clock, tables, outcome, update>>

-------------------------------------------------------------------------------
(* Daily cycles: one scheduled agent after another. *)

Slot(p) == plan[cycle[p].run].slots

MayFreeze_Replaces(s, m) == s \notin failure

\* The same content again is accepted; other content, or a recorded failure,
\* is refused.
MayFreeze(s, m) == s \notin failure /\ opp[s] \in {None, m}

\* Freeze the opportunity set of s, under BEGIN IMMEDIATE.
Freeze(p, s, m) ==
    /\ cycle[p].pc = "staging"
    /\ s \in Slot(p) /\ cycle[p].view[s] = None
    /\ m = {} => s[1] \in MayBeEmpty
    /\ MayFreeze(s, m)
    /\ opp' = [opp EXCEPT ![s] = m]
    /\ cycle' = [cycle EXCEPT ![p].view[s] = m]
    /\ UNCHANGED <<clock, plan, decision, failure, skip, elig, output, seal, obs,
                   label, outcome, update>>

\* An empty set is closed by a stage skip, in a transaction of its own.
StageSkip(p, s) ==
    /\ cycle[p].pc = "staging"
    /\ s \in Slot(p) /\ cycle[p].view[s] = {} /\ s \notin cycle[p].done
    /\ elig[s] \in {None, "NO_EVALUATION_OBJECT"}
    /\ skip' = skip \cup {s}
    /\ elig' = [elig EXCEPT ![s] = "NO_EVALUATION_OBJECT"]
    /\ cycle' = [cycle EXCEPT ![p].done = @ \cup {s}]
    /\ UNCHANGED <<clock, plan, decision, opp, failure, output, seal, obs, label,
                   outcome, update>>

MayFail_AnyTime(s) == s[1] \notin LiveAgent

\* A failure is recorded if no set is frozen and the attempt is stamped with
\* the time the plan was prepared.  The handler of the live agents stamps it
\* with the server's time, which is another.
MayFail(s) == opp[s] = None /\ s[1] \notin LiveAgent

\* The sources of s are unavailable, and the cycle cannot go on.  The failure
\* and its exclusion are recorded under BEGIN IMMEDIATE, or not at all.
Unavailable(p, s) ==
    /\ cycle[p].pc = "staging"
    /\ s \in Slot(p) /\ cycle[p].view[s] = None
    /\ IF MayFail(s)
         THEN /\ failure' = failure \cup {s}
              /\ elig' = [elig EXCEPT ![s] = "OPPORTUNITY_SET_UNAVAILABLE"]
         ELSE UNCHANGED <<failure, elig>>
    /\ cycle' = [cycle EXCEPT ![p] = Ended("unavailable", s)]
    /\ UNCHANGED <<clock, plan, decision, opp, skip, output, seal, obs, label,
                   outcome, update>>

Through_EmptyCounts(p, s) == cycle[p].view[s] # None

\* The cycle is through with s: frozen, and skipped if it was empty.
Through(p, s) ==
    cycle[p].view[s] # None /\ (cycle[p].view[s] = {} => s \in cycle[p].done)

\* append_accepted_scorecard_cycle: outputs, PENDING eligibility and the seal
\* of the date, one transaction.  It is refused if the date is sealed by
\* another run, this run by other work, a set is missing, or a sample is
\* already judged.  The caller may not hear of it, and then tries again.
Accept(p, heard) ==
    LET run == cycle[p].run
        day == plan[run].day
        judged == {s \in Slot(p) : opp[s] # {}}
        work == [by |-> p, view |-> cycle[p].view]
    IN  /\ cycle[p].pc = "staging"
        /\ \A s \in Slot(p) : Through(p, s)
        /\ \A s \in Slot(p) : s \notin failure /\ opp[s] # None
        /\ \A s \in judged : elig[s] \in {None, "PENDING"}
        /\ output[run] \in {None, work} /\ seal[day] \in {None, run}
        /\ output' = [output EXCEPT ![run] = work]
        /\ elig' = [s \in Sample |-> IF s \in judged THEN "PENDING" ELSE elig[s]]
        /\ seal' = [seal EXCEPT ![day] = run]
        /\ cycle' = [cycle EXCEPT ![p] = IF heard THEN Ended("accepted", None) ELSE @]
        /\ UNCHANGED <<clock, plan, decision, opp, failure, skip, obs, label,
                       outcome, update>>

\* A process that is killed, or whose call raised and rolled back.
Abandon(p) ==
    /\ cycle[p].pc \in {"idle", "planning", "staging"}
    /\ cycle' = [cycle EXCEPT ![p] = Ended("stopped", None)]
    /\ UNCHANGED <<clock, tables, outcome, update>>

-------------------------------------------------------------------------------
(* Operators: materialize_due_outcomes for the revision of one day. *)

\* The walk over the revision's slots raises on a terminal sample with more
\* than one observation.
Ambiguous(d) == \E s \in DayOf(d) : elig[s] = "ABSTAIN" /\ Cardinality(obs[s]) # 1

Pending(d) == {s \in DayOf(d) : elig[s] = "PENDING"}

\* The batch is worked in one fixed order.
First(batch) == CHOOSE s \in batch : TRUE

Due_OnlyYesterday(d) == d + 1 = clock

\* The samples of day d are due at the operator's cutoff.
Due(d) == d < clock

\* Read the contexts, before any write and outside a transaction: due samples
\* that are PENDING and whose sources have reported.  The batch is under way
\* once its first sample is seen to be PENDING still (to see otherwise raises
\* and changes nothing); only after that does a transaction open.
ReadPending(o, d) ==
    LET batch == {s \in Pending(d) : outcome[s] # None} IN
    /\ update[o] = None
    /\ Due(d) /\ ~Ambiguous(d) /\ batch # {}
    /\ update' = [update EXCEPT ![o] = [cutoff |-> clock, batch |-> batch]]
    /\ UNCHANGED <<clock, tables, outcome, cycle>>

Fits_AnyObservation(u) ==
    \A s \in u.batch \ {First(u.batch)} : elig[s] = "PENDING"

\* All but the first are seen to be PENDING inside the transaction.  The first
\* may have been judged by another operator since: then the same judgement is
\* accepted again, and its label if it is bound to this very observation,
\* whose identity holds the cutoff.
Fits(u) ==
    /\ \A s \in u.batch \ {First(u.batch)} : elig[s] = "PENDING"
    /\ elig[First(u.batch)] = "SCORE" => obs[First(u.batch)] = {u.cutoff}

\* Observation, eligibility and label of every sample, one transaction.
CommitBatch(o) ==
    LET u == update[o] IN
    /\ u # None
    /\ IF Fits(u)
         THEN /\ obs' = [s \in Sample |->
                            IF s \in u.batch THEN obs[s] \cup {u.cutoff} ELSE obs[s]]
              /\ elig' = [s \in Sample |-> IF s \in u.batch THEN outcome[s] ELSE elig[s]]
              /\ label' = label \cup {s \in u.batch : outcome[s] = "SCORE"}
         ELSE UNCHANGED <<obs, elig, label>>
    /\ update' = [update EXCEPT ![o] = None]
    /\ UNCHANGED <<clock, plan, decision, opp, failure, skip, output, seal,
                   outcome, cycle>>

\* A killed operator: what it had read is lost.
Kill(o) ==
    /\ update[o] # None
    /\ update' = [update EXCEPT ![o] = None]
    /\ UNCHANGED <<clock, tables, outcome, cycle>>

-------------------------------------------------------------------------------
(* The world: days close, and the sources report what became of a sample. *)

Tick ==
    /\ clock < LastCutoff
    /\ clock' = clock + 1
    /\ UNCHANGED <<tables, outcome, cycle, update>>

\* A projection names the accepted output it realizes, after the sample is due.
Report(s, v) ==
    /\ outcome[s] = None
    /\ \E d \in Day : d < clock /\ s \in Pending(d)
    /\ outcome' = [outcome EXCEPT ![s] = v]
    /\ UNCHANGED <<clock, tables, cycle, update>>

CycleStep(p) ==
    \/ \E d \in Day, coverage \in Coverage : DraftPlan(p, d, coverage)
    \/ WritePlan(p)
    \/ \E r \in Proc, coverage \in Coverage : AdoptPlan(p, r, coverage)
    \/ \E s \in Sample, m \in Members : Freeze(p, s, m)
    \/ \E s \in Sample : StageSkip(p, s)
    \/ \E s \in Sample : Unavailable(p, s)
    \/ \E heard \in BOOLEAN : Accept(p, heard)
    \/ Abandon(p)

UpdateStep(o) ==
    \/ \E d \in Day : ReadPending(o, d)
    \/ CommitBatch(o)
    \/ Kill(o)

World == Tick \/ \E s \in Sample, v \in Realized : Report(s, v)

Next == (\E p \in Proc : CycleStep(p)) \/ (\E o \in Operator : UpdateStep(o)) \/ World

Spec == Init /\ [][Next]_vars

\* Days close, sources report in the end, and some operator runs the update
\* again and again to its end.  Nothing is assumed of the cycles.
Fairness ==
    /\ WF_vars(Tick)
    /\ \A s \in Sample : WF_vars(\E v \in Realized : Report(s, v))
    /\ \A d \in Day : SF_vars(\E o \in Operator : ReadPending(o, d))
    /\ SF_vars(\E o \in Operator : CommitBatch(o))

FairSpec == Spec /\ Fairness

-------------------------------------------------------------------------------
(* Correctness. *)

\* Every table holds rows of its own shape.
TypeOK ==
    /\ clock \in 1 .. LastCutoff
    /\ plan \in [Proc -> {None} \cup Plan]
    /\ decision \in [EventSample -> {None, "SELECTED", "OVERLAPPING_WINDOW"}]
    /\ opp \in [Sample -> {None} \cup Members]
    /\ failure \subseteq Sample /\ skip \subseteq Sample /\ label \subseteq Sample
    /\ elig \in [Sample -> Disposition]
    /\ output \in [Proc -> {None} \cup Work]
    /\ seal \in [Day -> Proc \cup {None}]
    /\ outcome \in [Sample -> Realized \cup {None}]
    /\ obs \in [Sample -> SUBSET (1 .. LastCutoff)]
    /\ cycle \in [Proc -> Cycle]
    /\ update \in [Operator -> {None} \cup
         [cutoff : 1 .. LastCutoff, batch : SUBSET Sample]]

\* A sample is scheduled at most once in the life of its track, by whatever
\* plans race for it: no two plans share a sample, and an event is a plan's
\* sample exactly if it was decided SELECTED, so an event once passed over
\* never comes back (the reads of the plan precede its inserts, :312 and :402).
ScheduledOnce ==
    /\ \A r, q \in Planned : r # q => plan[r].slots \cap plan[q].slots = {}
    /\ \A s \in EventSample : decision[s] = "SELECTED" <=> s \in Scheduled

\* A sealed date stands for a whole run: the run planned that date and every
\* sample it was due is closed by a skip or has an eligibility revision, none
\* of them a generation failure (append_accepted_cycle is one transaction, the
\* freezes and skips before it are not).
SealedRunIsWhole ==
    \A d \in Day : seal[d] # None =>
        /\ plan[seal[d]] # None /\ plan[seal[d]].day = d
        /\ output[seal[d]] # None
        /\ \A s \in plan[seal[d]].slots :
             elig[s] \in {"PENDING", "NO_EVALUATION_OBJECT"} \cup Realized

\* What is judged is what the accepted cycle saw: a sample is PENDING or
\* judged only in the run sealed for its date, and the set it is judged on is
\* the one frozen by the very process whose output was accepted, although
\* several processes may run under that graph run id.
JudgedAsFrozen ==
    \A s \in Sample : elig[s] \in {"PENDING"} \cup Realized =>
        \E d \in Day :
            /\ seal[d] # None
            /\ s \in plan[seal[d]].slots
            /\ output[seal[d]].view[s] = opp[s]
            /\ opp[s] \notin {None, {}}

\* A judgement has its companions: a SCORE has one observation and its label,
\* an ABSTAIN an observation and no label, anything else neither, although
\* operators work on what they read before others committed.
JudgementIsDocumented ==
    \A s \in Sample :
        /\ s \in label <=> elig[s] = "SCORE"
        /\ obs[s] # {} <=> elig[s] \in Realized
        /\ elig[s] = "SCORE" => Cardinality(obs[s]) = 1

\* The ledger keeps the promise of SampleLife.
Life ==
    [s \in Sample |->
        IF elig[s] = "NO_EVALUATION_OBJECT" THEN "SKIPPED"
        ELSE IF elig[s] = "OPPORTUNITY_SET_UNAVAILABLE" THEN "UNAVAILABLE"
        ELSE IF elig[s] # None THEN elig[s]
        ELSE IF opp[s] = {} THEN "EMPTY"
        ELSE IF opp[s] # None THEN "FROZEN"
        ELSE IF s \in Scheduled THEN "DUE" ELSE "NONE"]

Promise == INSTANCE SampleLife WITH life <- Life

\* Every sample lives one of the lives of SampleLife: a frozen set is never
\* withdrawn or failed, a final stage is never left, nothing is judged before
\* it is accepted.
KeepsPromise == Promise!Spec

SealedSlots(d) == UNION {plan[r].slots : r \in {q \in Planned : seal[d] = q}}

\* Every sample of a sealed date is judged or closed in the end, whatever the
\* races of the operators, except after two of them have each recorded an
\* ABSTAIN of one sample: from then on the update of that revision raises.
SealedDayMatures ==
    \A d \in Day :
        seal[d] # None ~>
            (Ambiguous(d) \/ \A s \in SealedSlots(d) : elig[s] \in Terminal)

\* A cycle stopped because the sources of a due sample are unavailable leaves
\* the sample closed: its failure is recorded, or its set was frozen before
\* ("Atomically commit the GENERATION_FAILURE terminal for one scheduled
\* slot").
UnavailableIsRecorded ==
    \A p \in Proc : cycle[p].pc = "unavailable" =>
        cycle[p].at \in failure \/ opp[cycle[p].at] # None
===============================================================================
