------------------------ MODULE OutcomeLedger_proofs ------------------------
(***************************************************************************)
(* Theorems about OutcomeLedger, for any number of cycles, operators, days,*)
(* agents, events and candidates.                                          *)
(***************************************************************************)
EXTENDS OutcomeLedger, FiniteSetTheorems, TLAPS

(* The inductive invariant, in parts. *)

\* What a plan decides SELECTED is what it schedules.
SelectsItsSlots(q) ==
    \A s \in EventSample : q.decided[s] = "SELECTED" <=> s \in q.slots

\* A process has no plan of its own before it writes it, works on a run that is
\* planned, and what it has seen and skipped is what the tables hold.
CyclesAreSound ==
    \A p \in Proc :
        /\ cycle[p].pc \in {"idle", "planning"} => plan[p] = None
        /\ cycle[p].pc = "planning" =>
             cycle[p].draft \in Plan /\ SelectsItsSlots(cycle[p].draft)
        /\ cycle[p].pc = "staging" => cycle[p].run \in Planned
        /\ \A s \in Sample : cycle[p].view[s] # None => opp[s] = cycle[p].view[s]
        /\ \A s \in cycle[p].done : elig[s] = "NO_EVALUATION_OBJECT"

\* The eligibility of a sample agrees with the table its terminal is in.
EligibilityIsSound ==
    \A s \in Sample :
        /\ s \in failure <=> elig[s] = "OPPORTUNITY_SET_UNAVAILABLE"
        /\ s \in failure => opp[s] = None
        /\ elig[s] = "NO_EVALUATION_OBJECT" => opp[s] = {}
        /\ elig[s] \in Realized => elig[s] = outcome[s]

\* What an operator has read of its batch stays true but for the judgements
\* others commit.
UpdatesAreSound ==
    \A o \in Operator :
        update[o] # None =>
            \A s \in update[o].batch :
                outcome[s] \in Realized /\ elig[s] \in {"PENDING"} \cup Realized

\* The companions of a judgement, without cardinalities.
Documented ==
    \A s \in Sample :
        /\ s \in label <=> elig[s] = "SCORE"
        /\ obs[s] # {} <=> elig[s] \in Realized
        /\ elig[s] = "SCORE" => \E c \in 1 .. LastCutoff : obs[s] = {c}

Inv ==
    /\ TypeOK /\ CyclesAreSound /\ EligibilityIsSound /\ UpdatesAreSound
    /\ ScheduledOnce /\ SealedRunIsWhole /\ JudgedAsFrozen /\ Documented

-------------------------------------------------------------------------------
LEMMA InitInv == ASSUME Init PROVE Inv
<1>1. TypeOK
  BY LedgerAssumption DEF Init, TypeOK, Cycle, Idle, Disposition, Realized, Terminal
<1>2. Planned = {} /\ Scheduled = {}
  BY DEF Init, Planned, Scheduled
<1>3. CyclesAreSound
  BY DEF Init, CyclesAreSound, Idle
<1>4. EligibilityIsSound /\ UpdatesAreSound
  BY LedgerAssumption
  DEF Init, EligibilityIsSound, UpdatesAreSound, Realized, Terminal
<1>5. ScheduledOnce
  BY <1>2, LedgerAssumption DEF Init, ScheduledOnce
<1>6. SealedRunIsWhole /\ JudgedAsFrozen /\ Documented
  BY LedgerAssumption
  DEF Init, SealedRunIsWhole, JudgedAsFrozen, Documented, Realized, Terminal
<1> QED
  BY <1>1, <1>3, <1>4, <1>5, <1>6 DEF Inv

-------------------------------------------------------------------------------
(* Steps that write no table. *)

LEMMA SameTables ==
  ASSUME Inv, UNCHANGED <<tables, outcome>>
  PROVE  /\ EligibilityIsSound' /\ ScheduledOnce' /\ SealedRunIsWhole'
         /\ JudgedAsFrozen' /\ Documented'
<1> USE DEF Inv, tables
<1>1. EligibilityIsSound' /\ Documented'
  BY DEF EligibilityIsSound, Documented
<1>2. Planned' = Planned /\ Scheduled' = Scheduled
  BY DEF Planned, Scheduled
<1>3. ScheduledOnce'
  BY <1>2 DEF ScheduledOnce
<1>4. SealedRunIsWhole' /\ JudgedAsFrozen'
  BY DEF SealedRunIsWhole, JudgedAsFrozen
<1> QED
  BY <1>1, <1>3, <1>4

\* What is drafted is a plan, and schedules what it selects.
LEMMA DraftIsPlan ==
  ASSUME NEW d \in Day, NEW coverage \in Coverage
  PROVE  LET q == [day |-> d, coverage |-> coverage, slots |-> Slots(d, coverage),
                   decided |-> Decide(coverage)]
         IN  q \in Plan /\ SelectsItsSlots(q)
<1>1. Slots(d, coverage) \in SUBSET Sample
  BY DEF Slots, Sample
<1>2. Decide(coverage) \in [EventSample -> {None, "SELECTED", "OVERLAPPING_WINDOW"}]
  BY DEF Decide
<1>3. ASSUME NEW s \in EventSample
      PROVE  Decide(coverage)[s] = "SELECTED" <=> s \in Slots(d, coverage)
  <2>1. s \notin FixedDue
    BY LedgerAssumption DEF EventSample
  <2>2. s \in Slots(d, coverage) <=> s[2] \in Trigger(s[1], coverage)
    BY <2>1 DEF Slots
  <2> QED
    BY <2>2, LedgerAssumption DEF Decide
<1> QED
  BY <1>1, <1>2, <1>3 DEF Plan, SelectsItsSlots

LEMMA DraftPlanInv ==
  ASSUME Inv, NEW p \in Proc, NEW d \in Day, NEW coverage \in Coverage,
         DraftPlan(p, d, coverage)
  PROVE  Inv'
<1> DEFINE q == [day |-> d, coverage |-> coverage, slots |-> Slots(d, coverage),
                 decided |-> Decide(coverage)]
<1>1. q \in Plan /\ SelectsItsSlots(q)
  BY DraftIsPlan
<1>2. cycle' = [cycle EXCEPT ![p].pc = "planning", ![p].draft = q]
  BY DEF DraftPlan
<1> HIDE DEF q
<1>3. /\ cycle'[p] = [pc |-> "planning", run |-> cycle[p].run, draft |-> q,
                      at |-> cycle[p].at, done |-> cycle[p].done,
                      view |-> cycle[p].view]
      /\ \A r \in Proc \ {p} : cycle'[r] = cycle[r]
      /\ cycle' = [r \in Proc |-> cycle'[r]]
  <2>1. cycle \in [Proc -> Cycle]
    BY DEF Inv, TypeOK
  <2> QED
    BY <1>2, <2>1 DEF Cycle
<1>4. TypeOK'
  <2>1. cycle' \in [Proc -> Cycle]
    BY <1>1, <1>3 DEF Cycle, Inv, TypeOK
  <2> QED
    BY <2>1 DEF Inv, TypeOK, DraftPlan, tables
<1>5. CyclesAreSound'
  BY <1>1, <1>2 DEF Inv, TypeOK, Cycle, CyclesAreSound, DraftPlan, tables, Planned
<1>6. UpdatesAreSound'
  BY DEF Inv, UpdatesAreSound, DraftPlan, tables
<1> QED
  BY <1>4, <1>5, <1>6, SameTables DEF Inv, DraftPlan

LEMMA AdoptPlanInv ==
  ASSUME Inv, NEW p \in Proc, NEW r \in Proc, NEW coverage \in Coverage,
         AdoptPlan(p, r, coverage)
  PROVE  Inv'
<1>1. /\ cycle'[p] = [pc |-> "staging", run |-> r, draft |-> cycle[p].draft,
                      at |-> cycle[p].at, done |-> cycle[p].done,
                      view |-> cycle[p].view]
      /\ \A k \in Proc \ {p} : cycle'[k] = cycle[k]
      /\ cycle' = [k \in Proc |-> cycle'[k]]
  <2>1. cycle \in [Proc -> Cycle]
    BY DEF Inv, TypeOK
  <2> QED
    BY <2>1 DEF Cycle, AdoptPlan
<1>2. TypeOK'
  <2>1. cycle' \in [Proc -> Cycle]
    BY <1>1 DEF Cycle, Inv, TypeOK
  <2> QED
    BY <2>1 DEF Inv, TypeOK, AdoptPlan, tables
<1>3. CyclesAreSound'
  BY DEF Inv, TypeOK, Cycle, CyclesAreSound, AdoptPlan, tables, Planned
<1>4. UpdatesAreSound'
  BY DEF Inv, UpdatesAreSound, AdoptPlan, tables
<1> QED
  BY <1>2, <1>3, <1>4, SameTables DEF Inv, AdoptPlan

LEMMA AbandonInv ==
  ASSUME Inv, NEW p \in Proc, Abandon(p)
  PROVE  Inv'
<1>1. TypeOK'
  BY DEF Inv, TypeOK, Cycle, Abandon, Ended, Idle, tables
<1>2. CyclesAreSound'
  BY DEF Inv, TypeOK, CyclesAreSound, Abandon, Ended, Idle, tables, Planned
<1>3. UpdatesAreSound'
  BY DEF Inv, UpdatesAreSound, Abandon, tables
<1> QED
  BY <1>1, <1>2, <1>3, SameTables DEF Inv, Abandon

LEMMA ReadPendingInv ==
  ASSUME Inv, NEW o \in Operator, NEW d \in Day, ReadPending(o, d)
  PROVE  Inv'
<1> DEFINE batch == {s \in Pending(d) : outcome[s] # None}
<1>1. ASSUME NEW s \in batch
      PROVE  s \in Sample /\ elig[s] = "PENDING" /\ outcome[s] \in Realized
  <2>1. s \in Sample
    BY DEF Inv, TypeOK, Pending, DayOf, Planned, Plan
  <2> QED
    BY <2>1 DEF Inv, TypeOK, Pending
<1>2. update' = [update EXCEPT ![o] = [cutoff |-> clock, batch |-> batch]]
  BY DEF ReadPending
<1> HIDE DEF batch
<1>3. TypeOK'
  BY <1>1, <1>2 DEF Inv, TypeOK, ReadPending, tables
<1>4. UpdatesAreSound'
  BY <1>1, <1>2 DEF Inv, TypeOK, UpdatesAreSound, ReadPending, tables
<1>5. CyclesAreSound'
  BY DEF Inv, CyclesAreSound, ReadPending, tables, Planned
<1> QED
  BY <1>3, <1>4, <1>5, SameTables DEF Inv, ReadPending

LEMMA KillInv ==
  ASSUME Inv, NEW o \in Operator, Kill(o)
  PROVE  Inv'
<1>1. TypeOK'
  BY DEF Inv, TypeOK, Kill, tables
<1>2. UpdatesAreSound'
  BY DEF Inv, TypeOK, UpdatesAreSound, Kill, tables
<1>3. CyclesAreSound'
  BY DEF Inv, CyclesAreSound, Kill, tables, Planned
<1> QED
  BY <1>1, <1>2, <1>3, SameTables DEF Inv, Kill

LEMMA TickInv ==
  ASSUME Inv, Tick
  PROVE  Inv'
<1>1. TypeOK'
  BY LedgerAssumption DEF Inv, TypeOK, Tick, tables
<1>2. UpdatesAreSound' /\ CyclesAreSound'
  BY DEF Inv, UpdatesAreSound, CyclesAreSound, Tick, tables, Planned
<1> QED
  BY <1>1, <1>2, SameTables DEF Inv, Tick

\* A report concerns a sample that is PENDING, so no judgement yet.
LEMMA ReportInv ==
  ASSUME Inv, NEW s \in Sample, NEW v \in Realized, Report(s, v)
  PROVE  Inv'
<1> USE DEF Inv
<1>1. elig[s] = "PENDING" /\ outcome[s] = None
  BY DEF Report, Pending
<1>2. outcome' = [outcome EXCEPT ![s] = v]
  BY DEF Report
<1>3. TypeOK'
  BY <1>2 DEF TypeOK, Report, tables
<1>4. UpdatesAreSound'
  BY <1>1, <1>2, LedgerAssumption
  DEF UpdatesAreSound, TypeOK, Report, tables, Realized, Terminal
<1>5. EligibilityIsSound'
  BY <1>1, <1>2 DEF EligibilityIsSound, TypeOK, Report, tables, Realized
<1>6. CyclesAreSound'
  BY DEF CyclesAreSound, Report, tables, Planned
<1>7. Planned' = Planned /\ Scheduled' = Scheduled
  BY DEF Report, tables, Planned, Scheduled
<1>8. ScheduledOnce' /\ Documented'
  BY <1>7 DEF ScheduledOnce, Documented, Report, tables
<1>9. SealedRunIsWhole' /\ JudgedAsFrozen'
  BY DEF SealedRunIsWhole, JudgedAsFrozen, Report, tables
<1> QED
  BY <1>3, <1>4, <1>5, <1>6, <1>8, <1>9

-------------------------------------------------------------------------------
(* Steps of a cycle that write tables. *)

LEMMA WritePlanInv ==
  ASSUME Inv, NEW p \in Proc, WritePlan(p)
  PROVE  Inv'
<1> DEFINE q == cycle[p].draft
<1>1. /\ q \in Plan /\ q # None /\ SelectsItsSlots(q) /\ plan[p] = None
      /\ Inserts(q) /\ plan' = [plan EXCEPT ![p] = q]
      /\ decision' = [s \in EventSample |->
                        IF q.decided[s] # None THEN q.decided[s] ELSE decision[s]]
  BY LedgerAssumption DEF Inv, CyclesAreSound, WritePlan
<1> HIDE DEF q
<1>2. /\ p \notin Planned /\ Planned' = Planned \cup {p}
      /\ plan'[p] = q /\ \A r \in Planned : plan'[r] = plan[r]
  BY <1>1 DEF Inv, TypeOK, Planned
<1>3. Scheduled' = Scheduled \cup q.slots
  BY <1>2 DEF Scheduled
<1>4. TypeOK'
  <2>1. cycle' \in [Proc -> Cycle]
    <3>1. cycle \in [Proc -> Cycle]
      BY DEF Inv, TypeOK
    <3>2. cycle'[p] = [pc |-> "staging", run |-> p, draft |-> None, at |-> cycle[p].at,
                       done |-> cycle[p].done, view |-> cycle[p].view]
      BY <3>1 DEF Cycle, WritePlan
    <3>3. cycle'[p] \in Cycle
      BY <3>1, <3>2 DEF Cycle
    <3> QED
      BY <3>1, <3>3 DEF WritePlan
  <2>2. plan' \in [Proc -> {None} \cup Plan]
    BY <1>1 DEF Inv, TypeOK
  <2>3. decision' \in [EventSample -> {None, "SELECTED", "OVERLAPPING_WINDOW"}]
    BY <1>1 DEF Inv, TypeOK, Plan
  <2> QED
    BY <2>1, <2>2, <2>3 DEF Inv, TypeOK, WritePlan
<1>5. CyclesAreSound'
  BY <1>1, <1>2 DEF Inv, TypeOK, Cycle, CyclesAreSound, WritePlan
<1>6. EligibilityIsSound' /\ UpdatesAreSound' /\ Documented'
  BY DEF Inv, EligibilityIsSound, UpdatesAreSound, Documented, WritePlan
<1>7. ScheduledOnce'
  <2>1. ASSUME NEW r \in Planned', NEW k \in Planned', r # k
        PROVE  plan'[r].slots \cap plan'[k].slots = {}
    BY <1>1, <1>2, <2>1 DEF Inv, ScheduledOnce, Inserts, Scheduled
  <2>2. ASSUME NEW s \in EventSample
        PROVE  decision'[s] = "SELECTED" <=> s \in Scheduled'
    BY <1>1, <1>3, LedgerAssumption
    DEF Inv, ScheduledOnce, SelectsItsSlots, Inserts, Plan
  <2> QED
    BY <2>1, <2>2 DEF ScheduledOnce
<1>8. SealedRunIsWhole' /\ JudgedAsFrozen'
  <2>1. ASSUME NEW d \in Day, seal[d] # None PROVE plan'[seal[d]] = plan[seal[d]]
    BY <1>2, <2>1 DEF Inv, TypeOK, SealedRunIsWhole, Planned
  <2> QED
    BY <2>1 DEF Inv, SealedRunIsWhole, JudgedAsFrozen, WritePlan
<1> QED
  BY <1>4, <1>5, <1>6, <1>7, <1>8 DEF Inv

\* A sample without a frozen set is open, or a recorded failure.
LEMMA OpenSample ==
  ASSUME Inv, NEW s \in Sample, opp[s] = None
  PROVE  elig[s] \in {None, "OPPORTUNITY_SET_UNAVAILABLE"}
<1>1. elig[s] # "NO_EVALUATION_OBJECT"
  BY LedgerAssumption DEF Inv, EligibilityIsSound, Members
<1>2. elig[s] \notin {"PENDING"} \cup Realized
  BY DEF Inv, JudgedAsFrozen
<1> QED
  BY <1>1, <1>2 DEF Inv, TypeOK, Disposition, Terminal, Realized

LEMMA FreezeInv ==
  ASSUME Inv, NEW p \in Proc, NEW s \in Sample, NEW m \in Members, Freeze(p, s, m)
  PROVE  Inv'
<1>1. /\ s \notin failure /\ opp[s] \in {None, m} /\ m # None
      /\ opp' = [opp EXCEPT ![s] = m]
      /\ \A t \in Sample : opp[t] # None => opp'[t] = opp[t]
  BY LedgerAssumption DEF Inv, TypeOK, Freeze, MayFreeze
<1>2. /\ cycle \in [Proc -> Cycle]
      /\ cycle'[p] = [pc |-> cycle[p].pc, run |-> cycle[p].run, draft |-> cycle[p].draft,
                      at |-> cycle[p].at, done |-> cycle[p].done,
                      view |-> [cycle[p].view EXCEPT ![s] = m]]
      /\ cycle' = [cycle EXCEPT ![p] = cycle'[p]]
  <2>1. cycle \in [Proc -> Cycle]
    BY DEF Inv, TypeOK
  <2> QED
    BY <2>1 DEF Cycle, Freeze
<1>3. TypeOK'
  <2>1. cycle'[p] \in Cycle
    BY <1>2 DEF Cycle
  <2>2. cycle' \in [Proc -> Cycle]
    BY <1>2, <2>1
  <2> QED
    BY <1>1, <2>2 DEF Inv, TypeOK, Freeze
<1>4. CyclesAreSound'
  BY <1>1 DEF Inv, TypeOK, Cycle, CyclesAreSound, Freeze, Planned
<1>5. EligibilityIsSound'
  BY <1>1, LedgerAssumption DEF Inv, EligibilityIsSound, TypeOK, Freeze, Members
<1>6. UpdatesAreSound' /\ Documented'
  BY DEF Inv, UpdatesAreSound, Documented, Freeze
<1>7. Planned' = Planned /\ Scheduled' = Scheduled
  BY DEF Freeze, Planned, Scheduled
<1>8. ScheduledOnce'
  BY <1>7 DEF Inv, ScheduledOnce, Freeze
<1>9. SealedRunIsWhole' /\ JudgedAsFrozen'
  BY <1>1 DEF Inv, SealedRunIsWhole, JudgedAsFrozen, Freeze
<1> QED
  BY <1>3, <1>4, <1>5, <1>6, <1>8, <1>9 DEF Inv

LEMMA StageSkipInv ==
  ASSUME Inv, NEW p \in Proc, NEW s \in Sample, StageSkip(p, s)
  PROVE  Inv'
<1>1. /\ elig[s] \in {None, "NO_EVALUATION_OBJECT"} /\ opp[s] = {} /\ s \notin failure
      /\ elig' = [elig EXCEPT ![s] = "NO_EVALUATION_OBJECT"]
  BY LedgerAssumption
  DEF Inv, CyclesAreSound, EligibilityIsSound, StageSkip, Members, Terminal
<1>2. elig[s] \notin {"PENDING"} \cup Realized
  BY <1>1, LedgerAssumption DEF Realized, Terminal
<1>3. TypeOK'
  <2>1. cycle' \in [Proc -> Cycle]
    <3>1. cycle \in [Proc -> Cycle]
      BY DEF Inv, TypeOK
    <3>2. cycle'[p] = [pc |-> cycle[p].pc, run |-> cycle[p].run, draft |-> cycle[p].draft,
                       at |-> cycle[p].at, done |-> cycle[p].done \cup {s},
                       view |-> cycle[p].view]
      BY <3>1 DEF Cycle, StageSkip
    <3>3. cycle'[p] \in Cycle
      BY <3>1, <3>2 DEF Cycle
    <3> QED
      BY <3>1, <3>3 DEF StageSkip
  <2> QED
    BY <1>1, <2>1 DEF Inv, TypeOK, StageSkip, Disposition, Terminal
<1>4. CyclesAreSound'
  BY <1>1 DEF Inv, TypeOK, Cycle, CyclesAreSound, StageSkip, Planned
<1>5. EligibilityIsSound'
  BY <1>1 DEF Inv, EligibilityIsSound, TypeOK, StageSkip, Realized
<1>6. UpdatesAreSound' /\ Documented'
  BY <1>1, <1>2 DEF Inv, UpdatesAreSound, Documented, TypeOK, StageSkip, Realized
<1>7. Planned' = Planned /\ Scheduled' = Scheduled
  BY DEF StageSkip, Planned, Scheduled
<1>8. ScheduledOnce'
  BY <1>7 DEF Inv, ScheduledOnce, StageSkip
<1>9. SealedRunIsWhole' /\ JudgedAsFrozen'
  BY <1>1 DEF Inv, SealedRunIsWhole, JudgedAsFrozen, TypeOK, StageSkip, Realized
<1> QED
  BY <1>3, <1>4, <1>5, <1>6, <1>8, <1>9 DEF Inv

LEMMA UnavailableInv ==
  ASSUME Inv, NEW p \in Proc, NEW s \in Sample, Unavailable(p, s)
  PROVE  Inv'
<1>1. TypeOK' /\ CyclesAreSound'
  <2>1. cycle \in [Proc -> Cycle] /\ Ended("unavailable", s) \in Cycle
    BY DEF Inv, TypeOK, Cycle, Ended, Idle
  <2>2. cycle' \in [Proc -> Cycle]
    BY <2>1 DEF Unavailable
  <2>3. TypeOK'
    BY <2>2 DEF Inv, TypeOK, Unavailable, Disposition, Terminal
  <2>4. ASSUME NEW t \in Sample, elig[t] = "NO_EVALUATION_OBJECT"
        PROVE  elig'[t] = "NO_EVALUATION_OBJECT"
    BY <2>4, OpenSample, LedgerAssumption DEF Inv, TypeOK, Unavailable, MayFail, Terminal
  <2>5. CyclesAreSound'
    <3>1. \A r \in Proc \ {p} : cycle'[r] = cycle[r]
      BY <2>1 DEF Unavailable
    <3>2. /\ cycle'[p].pc = "unavailable" /\ cycle'[p].done = {}
          /\ cycle'[p].view = [t \in Sample |-> None]
      BY <2>1 DEF Unavailable, Ended, Idle
    <3>3. plan' = plan /\ opp' = opp /\ Planned' = Planned
      BY DEF Unavailable, Planned
    <3>4. ASSUME NEW r \in Proc \ {p}
          PROVE  \A t \in cycle'[r].done : elig'[t] = "NO_EVALUATION_OBJECT"
      BY <2>1, <2>4, <3>1 DEF Inv, CyclesAreSound, Cycle
    <3> QED
      BY <3>1, <3>2, <3>3, <3>4 DEF Inv, CyclesAreSound
  <2> QED
    BY <2>3, <2>5
<1>2. Planned' = Planned /\ Scheduled' = Scheduled
  BY DEF Unavailable, Planned, Scheduled
<1>3. ScheduledOnce'
  BY <1>2 DEF Inv, ScheduledOnce, Unavailable
<1>4. CASE ~MayFail(s)
  <2>1. EligibilityIsSound' /\ UpdatesAreSound' /\ Documented'
    BY <1>4 DEF Inv, EligibilityIsSound, UpdatesAreSound, Documented, Unavailable
  <2>2. SealedRunIsWhole' /\ JudgedAsFrozen'
    BY <1>4 DEF Inv, SealedRunIsWhole, JudgedAsFrozen, Unavailable
  <2> QED
    BY <1>1, <1>3, <2>1, <2>2 DEF Inv
<1>5. CASE MayFail(s)
  <2>1. /\ opp[s] = None /\ failure' = failure \cup {s}
        /\ elig' = [elig EXCEPT ![s] = "OPPORTUNITY_SET_UNAVAILABLE"]
    BY <1>5 DEF Unavailable, MayFail
  <2>2. elig[s] \notin {"PENDING", "NO_EVALUATION_OBJECT"} \cup Realized
    BY <2>1, OpenSample, LedgerAssumption DEF Realized, Terminal
  <2>3. EligibilityIsSound'
    BY <2>1 DEF Inv, EligibilityIsSound, TypeOK, Unavailable, Realized
  <2>4. UpdatesAreSound' /\ Documented'
    BY <2>1, <2>2 DEF Inv, UpdatesAreSound, Documented, TypeOK, Unavailable, Realized
  <2>5. SealedRunIsWhole' /\ JudgedAsFrozen'
    BY <2>1, <2>2 DEF Inv, SealedRunIsWhole, JudgedAsFrozen, TypeOK, Unavailable, Realized
  <2> QED
    BY <1>1, <1>3, <2>3, <2>4, <2>5 DEF Inv
<1> QED
  BY <1>4, <1>5

LEMMA AcceptInv ==
  ASSUME Inv, NEW p \in Proc, NEW heard \in BOOLEAN, Accept(p, heard)
  PROVE  Inv'
<1> DEFINE run == cycle[p].run
           day == plan[run].day
           judged == {s \in Slot(p) : opp[s] # {}}
           work == [by |-> p, view |-> cycle[p].view]
<1>1. /\ cycle[p].pc = "staging" /\ run \in Proc /\ run \in Planned /\ plan[run] \in Plan
      /\ day \in Day /\ Slot(p) = plan[run].slots /\ Slot(p) \subseteq Sample
  BY DEF Inv, CyclesAreSound, TypeOK, Accept, Planned, Plan, Slot
<1>2. /\ \A s \in Slot(p) : Through(p, s) /\ s \notin failure /\ opp[s] # None
      /\ \A s \in judged : elig[s] \in {None, "PENDING"}
      /\ output[run] \in {None, work} /\ seal[day] \in {None, run}
      /\ output' = [output EXCEPT ![run] = work]
      /\ elig' = [s \in Sample |-> IF s \in judged THEN "PENDING" ELSE elig[s]]
      /\ seal' = [seal EXCEPT ![day] = run]
      /\ cycle' = [cycle EXCEPT ![p] = IF heard THEN Ended("accepted", None) ELSE @]
      /\ UNCHANGED <<clock, plan, decision, opp, failure, skip, obs, label,
                     outcome, update>>
  BY DEF Accept
<1>3. work \in Work /\ work # None /\ work.view = cycle[p].view
  BY LedgerAssumption DEF Inv, TypeOK, Cycle, Work
<1> HIDE DEF run, day, work
<1>4. ASSUME NEW s \in Slot(p) PROVE cycle[p].view[s] = opp[s]
  BY <1>1, <1>2 DEF Through, Inv, CyclesAreSound
<1>5. ASSUME NEW s \in Slot(p), s \notin judged
      PROVE  elig[s] = "NO_EVALUATION_OBJECT"
  BY <1>1, <1>2, <1>4, <1>5 DEF Through, Inv, CyclesAreSound
<1>6. judged \subseteq Slot(p)
  OBVIOUS
<1>7. \A s \in judged : opp[s] # {}
  OBVIOUS
<1> HIDE DEF judged
<1>8. TypeOK'
  <2>1. cycle \in [Proc -> Cycle] /\ Ended("accepted", None) \in Cycle
    BY DEF Inv, TypeOK, Cycle, Ended, Idle
  <2>2. cycle' \in [Proc -> Cycle]
    BY <1>2, <2>1
  <2> QED
    BY <1>1, <1>2, <1>3, <2>2 DEF Inv, TypeOK, Disposition
<1>9. ASSUME NEW s \in Sample, elig[s] \notin {None, "PENDING"}
      PROVE  elig'[s] = elig[s]
  BY <1>2, <1>9
<1>10. CyclesAreSound'
  <2>1. cycle \in [Proc -> Cycle]
    BY DEF Inv, TypeOK
  <2>2. \A r \in Proc : \/ cycle'[r] = cycle[r]
                        \/ /\ cycle'[r].pc = "accepted" /\ cycle'[r].done = {}
                           /\ cycle'[r].view = [t \in Sample |-> None]
    BY <1>2, <2>1 DEF Ended, Idle
  <2>3. plan' = plan /\ opp' = opp /\ Planned' = Planned
    BY <1>2 DEF Planned
  <2>4. ASSUME NEW r \in Proc
        PROVE  \A t \in cycle'[r].done : elig'[t] = "NO_EVALUATION_OBJECT"
    BY <1>9, <2>1, <2>2, LedgerAssumption DEF Inv, CyclesAreSound, Cycle, Terminal
  <2> QED
    BY <2>2, <2>3, <2>4 DEF Inv, CyclesAreSound
<1>11. EligibilityIsSound' /\ UpdatesAreSound' /\ Documented'
  <2>1. \A s \in Sample : elig[s] # elig'[s] =>
          elig[s] \in {None, "PENDING"} /\ elig'[s] = "PENDING"
    BY <1>2, <1>9
  <2>2. EligibilityIsSound'
    BY <1>2, <2>1, LedgerAssumption
    DEF Inv, EligibilityIsSound, Realized, Terminal
  <2>3. UpdatesAreSound'
    BY <1>2, <2>1 DEF Inv, TypeOK, UpdatesAreSound
  <2>4. Documented'
    BY <1>2, <2>1, LedgerAssumption DEF Inv, Documented, Realized, Terminal
  <2> QED
    BY <2>2, <2>3, <2>4
<1>12. ScheduledOnce'
  <2>1. Planned' = Planned /\ Scheduled' = Scheduled
    BY <1>2 DEF Planned, Scheduled
  <2> QED
    BY <1>2, <2>1 DEF Inv, ScheduledOnce
<1>13. run # None /\ seal'[day] = run /\ output'[run] = work
  BY <1>1, <1>2, LedgerAssumption DEF Inv, TypeOK
<1>14. ASSUME NEW d \in Day, seal[d] # None
       PROVE  seal[d] \in Proc /\ seal'[d] = seal[d] /\ output'[seal[d]] = output[seal[d]]
  BY <1>1, <1>2, <1>14 DEF Inv, TypeOK, SealedRunIsWhole
<1>15. SealedRunIsWhole'
  <2> SUFFICES ASSUME NEW d \in Day, seal'[d] # None
               PROVE  /\ plan[seal'[d]] # None /\ plan[seal'[d]].day = d
                      /\ output'[seal'[d]] # None
                      /\ \A s \in plan[seal'[d]].slots :
                           elig'[s] \in {"PENDING", "NO_EVALUATION_OBJECT"} \cup Realized
    BY <1>2 DEF SealedRunIsWhole
  <2>1. CASE d = day
    <3>1. seal'[d] = run
      BY <1>13, <2>1
    <3>2. plan[run] # None /\ plan[run].day = d
      BY <1>1, <2>1 DEF Planned, day
    <3>3. \A s \in plan[run].slots : elig'[s] \in {"PENDING", "NO_EVALUATION_OBJECT"}
      BY <1>1, <1>2, <1>5
    <3> QED
      BY <1>3, <1>13, <3>1, <3>2, <3>3
  <2>2. CASE d # day
    <3>1. seal'[d] = seal[d] /\ seal[d] # None
      BY <1>1, <1>2, <2>2 DEF Inv, TypeOK
    <3>2. plan[seal[d]].slots \subseteq Sample
      BY <3>1, <1>14 DEF Inv, TypeOK, SealedRunIsWhole, Plan
    <3>3. \A s \in plan[seal[d]].slots :
             elig'[s] \in {"PENDING", "NO_EVALUATION_OBJECT"} \cup Realized
      BY <1>2, <3>1, <3>2 DEF Inv, SealedRunIsWhole
    <3> QED
      BY <1>14, <3>1, <3>3 DEF Inv, SealedRunIsWhole
  <2> QED
    BY <2>1, <2>2
<1>16. JudgedAsFrozen'
  <2> SUFFICES ASSUME NEW s \in Sample, elig'[s] \in {"PENDING"} \cup Realized
               PROVE  \E d \in Day :
                        /\ seal'[d] # None /\ s \in plan[seal'[d]].slots
                        /\ output'[seal'[d]].view[s] = opp[s] /\ opp[s] \notin {None, {}}
    BY <1>2 DEF JudgedAsFrozen
  <2>1. CASE s \in judged
    BY <1>1, <1>2, <1>3, <1>4, <1>6, <1>7, <1>13, <2>1
  <2>2. CASE s \notin judged
    <3>1. elig[s] \in {"PENDING"} \cup Realized
      BY <1>2, <2>2
    <3>2. PICK d \in Day : /\ seal[d] # None /\ s \in plan[seal[d]].slots
                           /\ output[seal[d]].view[s] = opp[s] /\ opp[s] \notin {None, {}}
      BY <3>1 DEF Inv, JudgedAsFrozen
    <3> QED
      BY <1>14, <3>2
  <2> QED
    BY <2>1, <2>2
<1> QED
  BY <1>8, <1>10, <1>11, <1>12, <1>15, <1>16 DEF Inv

-------------------------------------------------------------------------------
(* The batch of an operator. *)

LEMMA CommitBatchInv ==
  ASSUME Inv, NEW o \in Operator, CommitBatch(o)
  PROVE  Inv'
<1> DEFINE u == update[o]
<1>1. /\ u # None /\ u.batch \subseteq Sample /\ u.cutoff \in 1 .. LastCutoff
      /\ \A s \in u.batch : outcome[s] \in Realized /\ elig[s] \in {"PENDING"} \cup Realized
  BY DEF Inv, TypeOK, UpdatesAreSound, CommitBatch
<1>2. /\ update' = [update EXCEPT ![o] = None]
      /\ UNCHANGED <<clock, plan, decision, opp, failure, skip, output, seal, outcome, cycle>>
  BY DEF CommitBatch
<1>3. Planned' = Planned /\ Scheduled' = Scheduled
  BY <1>2 DEF Planned, Scheduled
<1>4. ScheduledOnce'
  BY <1>2, <1>3 DEF Inv, ScheduledOnce
<1>5. CASE ~Fits(u)
  <2>1. UNCHANGED <<obs, elig, label>>
    BY <1>5 DEF CommitBatch
  <2>2. TypeOK' /\ UpdatesAreSound'
    BY <1>2, <2>1 DEF Inv, TypeOK, UpdatesAreSound
  <2>3. CyclesAreSound' /\ EligibilityIsSound' /\ Documented'
    BY <1>2, <1>3, <2>1 DEF Inv, CyclesAreSound, EligibilityIsSound, Documented
  <2>4. SealedRunIsWhole' /\ JudgedAsFrozen'
    BY <1>2, <2>1 DEF Inv, SealedRunIsWhole, JudgedAsFrozen
  <2> QED
    BY <1>4, <2>2, <2>3, <2>4 DEF Inv
<1>6. CASE Fits(u)
  <2>1. /\ obs' = [s \in Sample |-> IF s \in u.batch THEN obs[s] \cup {u.cutoff} ELSE obs[s]]
        /\ elig' = [s \in Sample |-> IF s \in u.batch THEN outcome[s] ELSE elig[s]]
        /\ label' = label \cup {s \in u.batch : outcome[s] = "SCORE"}
    BY <1>6 DEF CommitBatch
  <2>2. ASSUME NEW s \in u.batch
        PROVE  elig[s] = "PENDING" \/ (elig[s] = outcome[s] /\ s = First(u.batch))
    BY <1>1, <1>6 DEF Fits, Inv, EligibilityIsSound
  <2>3. elig[First(u.batch)] = "SCORE" => obs[First(u.batch)] = {u.cutoff}
    BY <1>6 DEF Fits
  <2> HIDE DEF u
  <2>4. TypeOK'
    <3>1. obs' \in [Sample -> SUBSET (1 .. LastCutoff)]
      BY <1>1, <2>1 DEF Inv, TypeOK
    <3>2. elig' \in [Sample -> Disposition] /\ label' \subseteq Sample
      BY <1>1, <2>1 DEF Inv, TypeOK, Disposition, Realized, Terminal
    <3> QED
      BY <1>2, <3>1, <3>2 DEF Inv, TypeOK
  <2>5. ASSUME NEW s \in Sample, elig'[s] # elig[s]
        PROVE  elig[s] = "PENDING" /\ elig'[s] = outcome[s] /\ outcome[s] \in Realized
    BY <1>1, <2>1, <2>2, <2>5
  <2>6. CyclesAreSound'
    <3>1. ASSUME NEW r \in Proc
          PROVE  \A t \in cycle[r].done : elig'[t] = "NO_EVALUATION_OBJECT"
      BY <2>5 DEF Inv, TypeOK, Cycle, CyclesAreSound
    <3> QED
      BY <1>2, <1>3, <3>1 DEF Inv, CyclesAreSound
  <2>7. EligibilityIsSound'
    BY <1>2, <2>5 DEF Inv, EligibilityIsSound, Realized
  <2>8. UpdatesAreSound'
    BY <1>2, <2>5 DEF Inv, TypeOK, UpdatesAreSound
  <2>9. Documented'
    <3> SUFFICES ASSUME NEW s \in Sample
                 PROVE  /\ s \in label' <=> elig'[s] = "SCORE"
                        /\ obs'[s] # {} <=> elig'[s] \in Realized
                        /\ elig'[s] = "SCORE" => \E c \in 1 .. LastCutoff : obs'[s] = {c}
      BY DEF Documented
    <3>1. CASE s \notin u.batch
      BY <2>1, <3>1 DEF Inv, Documented
    <3>2. CASE s \in u.batch
      <4>1. elig'[s] = outcome[s] /\ obs'[s] = obs[s] \cup {u.cutoff}
        BY <2>1, <3>2
      <4>2. s \in label' <=> elig'[s] = "SCORE"
        BY <1>1, <2>1, <2>2, <3>2, <4>1 DEF Inv, Documented
      <4>3. obs[s] = {} \/ (outcome[s] = "SCORE" => obs[s] = {u.cutoff})
        BY <2>2, <2>3, <3>2 DEF Inv, Documented, Realized
      <4> QED
        BY <1>1, <3>2, <4>1, <4>2, <4>3
    <3> QED
      BY <3>1, <3>2
  <2>10. SealedRunIsWhole'
    <3> SUFFICES ASSUME NEW d \in Day, seal[d] # None, NEW s \in plan[seal[d]].slots
                 PROVE  elig'[s] \in {"PENDING", "NO_EVALUATION_OBJECT"} \cup Realized
      BY <1>2 DEF Inv, SealedRunIsWhole
    <3>1. s \in Sample
      BY DEF Inv, TypeOK, SealedRunIsWhole, Plan
    <3> QED
      BY <2>5, <3>1 DEF Inv, SealedRunIsWhole
  <2>11. JudgedAsFrozen'
    BY <1>2, <2>5 DEF Inv, JudgedAsFrozen
  <2> QED
    BY <1>4, <2>4, <2>6, <2>7, <2>8, <2>9, <2>10, <2>11 DEF Inv
<1> QED
  BY <1>5, <1>6

-------------------------------------------------------------------------------
LEMMA StepInv == ASSUME Inv, [Next]_vars PROVE Inv'
<1>1. CASE UNCHANGED vars
  <2>1. UNCHANGED <<tables, outcome>> /\ UNCHANGED <<clock, cycle, update>>
    BY <1>1 DEF vars
  <2>2. TypeOK' /\ CyclesAreSound' /\ UpdatesAreSound'
    BY <2>1 DEF Inv, TypeOK, CyclesAreSound, UpdatesAreSound, tables, Planned
  <2> QED
    BY <2>1, <2>2, SameTables DEF Inv
<1>2. ASSUME NEW p \in Proc, CycleStep(p) PROVE Inv'
  BY <1>2, DraftPlanInv, WritePlanInv, AdoptPlanInv, FreezeInv, StageSkipInv,
     UnavailableInv, AcceptInv, AbandonInv DEF CycleStep
<1>3. ASSUME NEW o \in Operator, UpdateStep(o) PROVE Inv'
  BY <1>3, ReadPendingInv, CommitBatchInv, KillInv DEF UpdateStep
<1>4. CASE World
  BY <1>4, TickInv, ReportInv DEF World
<1> QED
  BY <1>1, <1>2, <1>3, <1>4 DEF Next

\* The invariant holds in every reachable state.
THEOREM LedgerInvariant == Spec => []Inv
BY InitInv, StepInv, PTL DEF Spec

\* Type correctness of the outcome tables.
THEOREM TypeCorrect == Spec => []TypeOK
<1>1. Inv => TypeOK
  BY DEF Inv
<1> QED
  BY <1>1, LedgerInvariant, PTL

\* However plans race, no sample is scheduled twice and no event that was
\* passed over comes back (prepare_outcome_schedule_plan).
THEOREM EverySampleOnce == Spec => []ScheduledOnce
<1>1. Inv => ScheduledOnce
  BY DEF Inv
<1> QED
  BY <1>1, LedgerInvariant, PTL

\* A date is sealed for a whole run only (append_accepted_scorecard_cycle).
THEOREM SealsAreWhole == Spec => []SealedRunIsWhole
<1>1. Inv => SealedRunIsWhole
  BY DEF Inv
<1> QED
  BY <1>1, LedgerInvariant, PTL

\* What is judged is the set the accepted process froze and worked on.
THEOREM JudgementsAreOfTheFrozen == Spec => []JudgedAsFrozen
<1>1. Inv => JudgedAsFrozen
  BY DEF Inv
<1> QED
  BY <1>1, LedgerInvariant, PTL

\* Every judgement has its observation and its label, and no other sample has
\* one, whatever operators commit on what they read before.
THEOREM JudgementsAreDocumented == Spec => []JudgementIsDocumented
<1>1. ASSUME Inv PROVE JudgementIsDocumented
  <2>1. ASSUME NEW s \in Sample, elig[s] = "SCORE" PROVE Cardinality(obs[s]) = 1
    <3>1. PICK c \in 1 .. LastCutoff : obs[s] = {c}
      BY <1>1, <2>1 DEF Inv, Documented
    <3> QED
      BY <3>1, FS_Singleton
  <2> QED
    BY <1>1, <2>1 DEF Inv, Documented, JudgementIsDocumented
<1> QED
  BY <1>1, LedgerInvariant, PTL

-------------------------------------------------------------------------------
(* The ledger implements SampleLife: every step moves every sample along its *)
(* life or not at all.                                                       *)

LEMMA PromiseInit == ASSUME Init PROVE Promise!Init
<1>1. Scheduled = {}
  BY DEF Init, Scheduled, Planned
<1> QED
  BY <1>1, LedgerAssumption DEF Init, Promise!Init, Life, Members, Terminal

LEMMA LifeIsAStage == ASSUME Inv PROVE Life \in [Sample -> Promise!Stage]
BY DEF Inv, TypeOK, Life, Promise!Stage, Disposition, Terminal, Realized

\* A step is one of SampleLife if every sample stays or moves along its life.
LEMMA EverySampleAdvances ==
  ASSUME Inv, Inv',
         \A s \in Sample : \/ Life'[s] = Life[s]
                           \/ <<Life[s], Life'[s]>> \in Promise!Follows
  PROVE  Promise!Advance
<1>1. Life' \in [Sample -> Promise!Stage]
  <2>1. Inv' => Life' \in [Sample -> Promise!Stage]
    BY DEF Inv, TypeOK, Life, Promise!Stage, Disposition, Terminal, Realized
  <2> QED
    BY <2>1
<1> QED
  BY <1>1 DEF Promise!Advance

LEMMA SameLife ==
  ASSUME UNCHANGED <<elig, opp, plan>> PROVE UNCHANGED Life
<1>1. Scheduled' = Scheduled
  BY DEF Scheduled, Planned
<1> QED
  BY <1>1 DEF Life

\* A plan moves its samples from NONE to DUE.
LEMMA WritePlanAdvances ==
  ASSUME Inv, Inv', NEW p \in Proc, WritePlan(p) PROVE Promise!Advance
<1>1. Scheduled \subseteq Scheduled'
  <2>1. \A r \in Planned : r # p
    BY DEF Inv, CyclesAreSound, WritePlan, Planned
  <2>2. \A r \in Planned : plan'[r] = plan[r] /\ r \in Planned'
    BY <2>1 DEF Inv, TypeOK, WritePlan, Planned
  <2> QED
    BY <2>2 DEF Scheduled
<1>2. elig' = elig /\ opp' = opp
  BY DEF WritePlan
<1>3. ASSUME NEW s \in Sample
      PROVE  Life'[s] = Life[s] \/ (Life[s] = "NONE" /\ Life'[s] = "DUE")
  BY <1>1, <1>2 DEF Life
<1> QED
  BY <1>3, EverySampleAdvances DEF Promise!Follows

\* A frozen set takes its sample from DUE to FROZEN or EMPTY.
LEMMA FreezeAdvances ==
  ASSUME Inv, Inv', NEW p \in Proc, NEW s \in Sample, NEW m \in Members,
         Freeze(p, s, m)
  PROVE  Promise!Advance
<1>1. Scheduled' = Scheduled /\ elig' = elig
  BY DEF Freeze, Scheduled, Planned
<1>2. ASSUME NEW t \in Sample, t # s \/ opp[s] # None PROVE Life'[t] = Life[t]
  <2>1. opp'[t] = opp[t]
    BY <1>2 DEF Inv, TypeOK, Freeze, MayFreeze
  <2> QED
    BY <1>1, <2>1 DEF Life
<1>3. ASSUME opp[s] = None
      PROVE  Life[s] = "DUE" /\ Life'[s] \in {"FROZEN", "EMPTY"}
  <2>1. elig[s] = None
    BY <1>3, OpenSample DEF Inv, EligibilityIsSound, Freeze, MayFreeze
  <2>2. s \in Scheduled
    BY DEF Inv, CyclesAreSound, Freeze, Slot, Scheduled
  <2>3. opp'[s] = m /\ m # None
    BY LedgerAssumption DEF Inv, TypeOK, Freeze
  <2> QED
    BY <1>1, <1>3, <2>1, <2>2, <2>3, LedgerAssumption DEF Life, Members, Terminal
<1>4. \A t \in Sample : Life'[t] = Life[t] \/ <<Life[t], Life'[t]>> \in Promise!Follows
  BY <1>2, <1>3 DEF Promise!Follows
<1> QED
  BY <1>4, EverySampleAdvances

\* A skip, a failure, an acceptance or a judgement changes the eligibility only.
LEMMA StageSkipAdvances ==
  ASSUME Inv, Inv', NEW p \in Proc, NEW s \in Sample, StageSkip(p, s)
  PROVE  Promise!Advance
<1>1. /\ Scheduled' = Scheduled /\ opp' = opp
      /\ opp[s] = {} /\ elig[s] \in {None, "NO_EVALUATION_OBJECT"}
      /\ elig' = [elig EXCEPT ![s] = "NO_EVALUATION_OBJECT"]
  BY LedgerAssumption DEF Inv, CyclesAreSound, StageSkip, Scheduled, Planned, Members
<1>2. ASSUME NEW t \in Sample
      PROVE  Life'[t] = Life[t] \/ <<Life[t], Life'[t]>> = <<"EMPTY", "SKIPPED">>
  BY <1>1, LedgerAssumption DEF Inv, TypeOK, Life, Terminal
<1> QED
  BY <1>2, EverySampleAdvances DEF Promise!Follows

LEMMA UnavailableAdvances ==
  ASSUME Inv, Inv', NEW p \in Proc, NEW s \in Sample, Unavailable(p, s)
  PROVE  Promise!Advance
<1>1. Scheduled' = Scheduled /\ opp' = opp /\ s \in Scheduled
  BY DEF Inv, CyclesAreSound, Unavailable, Scheduled, Planned, Slot
<1>2. ASSUME NEW t \in Sample
      PROVE  Life'[t] = Life[t] \/ <<Life[t], Life'[t]>> = <<"DUE", "UNAVAILABLE">>
  <2>1. CASE elig' = elig
    BY <1>1, <2>1 DEF Life
  <2>2. CASE elig' # elig
    <3>1. /\ opp[s] = None /\ elig[s] \in {None, "OPPORTUNITY_SET_UNAVAILABLE"}
          /\ elig' = [elig EXCEPT ![s] = "OPPORTUNITY_SET_UNAVAILABLE"]
      BY <2>2, OpenSample DEF Unavailable, MayFail
    <3> QED
      BY <1>1, <3>1, LedgerAssumption DEF Inv, TypeOK, Life, Terminal, Members
  <2> QED
    BY <2>1, <2>2
<1> QED
  BY <1>2, EverySampleAdvances DEF Promise!Follows

LEMMA AcceptAdvances ==
  ASSUME Inv, Inv', NEW p \in Proc, NEW heard \in BOOLEAN, Accept(p, heard)
  PROVE  Promise!Advance
<1>1. Scheduled' = Scheduled /\ opp' = opp
  BY DEF Accept, Scheduled, Planned
<1>2. ASSUME NEW t \in Sample, elig'[t] # elig[t]
      PROVE  elig[t] = None /\ elig'[t] = "PENDING" /\ opp[t] \notin {None, {}}
  BY <1>2 DEF Accept
<1>3. ASSUME NEW t \in Sample
      PROVE  Life'[t] = Life[t] \/ <<Life[t], Life'[t]>> = <<"FROZEN", "PENDING">>
  BY <1>1, <1>2, LedgerAssumption DEF Life, Terminal
<1> QED
  BY <1>3, EverySampleAdvances DEF Promise!Follows

LEMMA CommitBatchAdvances ==
  ASSUME Inv, Inv', NEW o \in Operator, CommitBatch(o)
  PROVE  Promise!Advance
<1>1. Scheduled' = Scheduled /\ opp' = opp
  BY DEF CommitBatch, Scheduled, Planned
<1>2. ASSUME NEW t \in Sample, elig'[t] # elig[t]
      PROVE  elig[t] = "PENDING" /\ elig'[t] \in Realized
  BY <1>2 DEF CommitBatch, Inv, TypeOK, UpdatesAreSound, EligibilityIsSound
<1>3. ASSUME NEW t \in Sample
      PROVE  \/ Life'[t] = Life[t]
             \/ Life[t] = "PENDING" /\ Life'[t] \in Realized
  BY <1>1, <1>2, LedgerAssumption DEF Life, Realized, Terminal
<1> QED
  BY <1>3, EverySampleAdvances DEF Promise!Follows, Realized

LEMMA PromiseStep ==
  ASSUME Inv, Inv', [Next]_vars PROVE [Promise!Advance]_Life
<1>1. CASE UNCHANGED vars
  BY <1>1, SameLife DEF vars, tables
<1>2. ASSUME NEW p \in Proc, CycleStep(p) PROVE [Promise!Advance]_Life
  <2>1. CASE \/ \E d \in Day, coverage \in Coverage : DraftPlan(p, d, coverage)
             \/ \E r \in Proc, coverage \in Coverage : AdoptPlan(p, r, coverage)
             \/ Abandon(p)
    BY <2>1, SameLife DEF DraftPlan, AdoptPlan, Abandon, tables
  <2> QED
    BY <1>2, <2>1, WritePlanAdvances, FreezeAdvances, StageSkipAdvances,
       UnavailableAdvances, AcceptAdvances DEF CycleStep
<1>3. ASSUME NEW o \in Operator, UpdateStep(o) PROVE [Promise!Advance]_Life
  <2>1. CASE (\E d \in Day : ReadPending(o, d)) \/ Kill(o)
    BY <2>1, SameLife DEF ReadPending, Kill, tables
  <2> QED
    BY <1>3, <2>1, CommitBatchAdvances DEF UpdateStep
<1>4. CASE World
  BY <1>4, SameLife DEF World, Tick, Report, tables
<1> QED
  BY <1>1, <1>2, <1>3, <1>4 DEF Next

\* Every behaviour of the ledger is one of SampleLife: no sample is judged
\* before it is accepted, no frozen set is withdrawn and no end is left.
THEOREM LedgerKeepsPromise == Spec => KeepsPromise
BY LedgerInvariant, PromiseInit, PromiseStep, PTL DEF Spec, KeepsPromise, Promise!Spec
===============================================================================
