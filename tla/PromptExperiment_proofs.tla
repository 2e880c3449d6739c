------------------------ MODULE PromptExperiment_proofs ------------------------
(***************************************************************************)
(* Theorems about PromptExperiment, for any number of processes and        *)
(* candidates, any partition, any number of attempts and lanes, whatever   *)
(* the runs score and whatever the faults.                                 *)
(***************************************************************************)
EXTENDS PromptExperiment, FiniteSetTheorems, WellFoundedInduction, TLAPS

-----------------------------------------------------------------------------
(* Sums over finite sets.  A fold of the library is a recursive function on  *)
(* the subsets of its set; that it exists, and yields a number, is shown by  *)
(* induction on the number of elements.                                      *)

LEMMA Induction ==
  ASSUME NEW n \in Nat, NEW S, 0 \in S, \A k \in 0..n : k < n /\ k \in S => k + 1 \in S
  PROVE  n \in S
<1> SUFFICES ASSUME (0..n) \ S # {} PROVE FALSE
  OBVIOUS
<1> DEFINE T == (0..n) \ S
           R == OpToRel(<, Nat)
<1>1. T \subseteq Nat /\ T # {}
  OBVIOUS
<1>2. \A x, y \in T : y < x => <<y, x>> \in R
  BY <1>1, SMT DEF OpToRel
<1>3. \E x \in T : \A y \in T : ~(<<y, x>> \in R)
  <2> HIDE DEF T, R
  <2> QED
    BY <1>1, NatLessThanWellFounded, WFMin, Zenon DEF R
<1>4. PICK m \in T : \A y \in T : ~(y < m)
  <2> HIDE DEF T, R
  <2> QED
    BY <1>2, <1>3, Zenon
<1>5. m # 0 /\ m - 1 \in 0..n /\ m - 1 < n /\ (m - 1) + 1 = m
  OBVIOUS
<1>6. m - 1 \in S
  BY <1>4, <1>5
<1> QED
  BY <1>5, <1>6

Any(s) == CHOOSE x \in s : TRUE

\* g sums f over the subsets of S, one element after the other.
Sums(f, S, g) ==
  g = [s \in SUBSET S |-> IF s = {} THEN 0 ELSE f[Any(s)] + g[s \ {Any(s)}]]

LEMMA FoldIsSum ==
  ASSUME NEW f
  PROVE  SumFunction(f) = (CHOOSE g : Sums(f, DOMAIN f, g))[DOMAIN f]
BY DEF SumFunction, SumFunctionOnSet, FoldFunctionOnSet, MapThenFoldSet, Sums, Any

LEMMA RestIsSmaller ==
  ASSUME NEW S, IsFiniteSet(S), NEW s \in SUBSET S, s # {}
  PROVE  /\ Any(s) \in S /\ s \ {Any(s)} \in SUBSET S
         /\ Cardinality(s) \in Nat /\ Cardinality(s \ {Any(s)}) = Cardinality(s) - 1
<1>1. Any(s) \in s
  BY DEF Any
<1>2. IsFiniteSet(s)
  BY FS_Subset
<1> QED
  BY <1>1, <1>2, FS_RemoveElement, FS_CardinalityType

LEMMA SumIsInt ==
  ASSUME NEW S, IsFiniteSet(S), NEW f, \A x \in S : f[x] \in Int
  PROVE  (CHOOSE g : Sums(f, S, g))[S] \in Int
<1> DEFINE Upto(n) == {s \in SUBSET S : Cardinality(s) <= n}
           F(g, s) == IF s = {} THEN 0 ELSE f[Any(s)] + g[s \ {Any(s)}]
           N == Cardinality(S)
           Good == {n \in Nat : \E g \in [Upto(n) -> Int] : \A s \in Upto(n) : g[s] = F(g, s)}
<1>1. N \in Nat /\ \A s \in SUBSET S : Cardinality(s) \in Nat /\ Cardinality(s) <= N
  BY FS_Subset, FS_CardinalityType
<1>2. \A s \in SUBSET S : Cardinality(s) = 0 <=> s = {}
  BY FS_Subset, FS_EmptySet
<1>3. ASSUME NEW n \in Nat, NEW s \in Upto(n), s # {}
      PROVE  f[Any(s)] \in Int /\ s \ {Any(s)} \in Upto(n) /\ n # 0 /\ s \ {Any(s)} \in Upto(n - 1)
  BY <1>3, <1>1, RestIsSmaller
<1>4. 0 \in Good
  <2>1. \A s \in Upto(0) : s = {}
    BY <1>1, <1>2
  <2>2. [s \in Upto(0) |-> 0] \in [Upto(0) -> Int]
    OBVIOUS
  <2> HIDE DEF Upto
  <2> QED
    BY <2>1, <2>2
<1>5. ASSUME NEW n \in Nat, n \in Good PROVE n + 1 \in Good
  <2>1. PICK g \in [Upto(n) -> Int] : \A s \in Upto(n) : g[s] = F(g, s)
    BY <1>5
  <2> DEFINE h == [s \in Upto(n + 1) |-> F(g, s)]
  <2>2. ASSUME NEW s \in Upto(n + 1), s # {}
        PROVE  f[Any(s)] \in Int /\ s \ {Any(s)} \in Upto(n) /\ s \ {Any(s)} \in Upto(n + 1)
    BY <1>3, <2>2
  <2>3. \A s \in Upto(n) : s \in Upto(n + 1)
    BY <1>1
  <2> HIDE DEF Upto
  <2>4. h \in [Upto(n + 1) -> Int]
    BY <2>2
  <2>5. \A s \in Upto(n) : h[s] = g[s]
    BY <2>1, <2>3
  <2>6. ASSUME NEW s \in Upto(n + 1) PROVE h[s] = F(h, s)
    <3>1. h[s] = F(g, s)
      OBVIOUS
    <3>2. s # {} => h[s \ {Any(s)}] = g[s \ {Any(s)}]
      BY <2>2, <2>5
    <3> HIDE DEF h
    <3> QED
      BY <3>1, <3>2
  <2>7. \E x \in [Upto(n + 1) -> Int] : \A s \in Upto(n + 1) : x[s] = F(x, s)
    <3> HIDE DEF h, F
    <3> QED
      BY <2>4, <2>6, Zenon
  <2> HIDE DEF F
  <2> QED
    BY <2>7
<1>6. N \in Good
  <2> HIDE DEF Good
  <2> QED
    BY <1>1, <1>4, <1>5, Induction
<1>7. Upto(N) = SUBSET S
  BY <1>1
<1>8. \E g : Sums(f, S, g)
  <2>1. PICK g \in [SUBSET S -> Int] : \A s \in SUBSET S : g[s] = F(g, s)
    BY <1>6, <1>7
  <2>2. g = [s \in SUBSET S |-> F(g, s)]
    BY <2>1
  <2> QED
    BY <2>2, Zenon DEF Sums
<1> DEFINE c == CHOOSE g : Sums(f, S, g)
<1>9. Sums(f, S, c)
  BY <1>8, Zenon
<1> HIDE DEF c
<1>10. \A s \in SUBSET S : c[s] = F(c, s)
  BY <1>9, Zenon DEF Sums
<1> DEFINE Typed == {n \in Nat : \A s \in Upto(n) : c[s] \in Int}
<1>11. 0 \in Typed
  <2>1. \A s \in Upto(0) : s = {}
    BY <1>1, <1>2
  <2>2. \A s \in Upto(0) : c[s] = 0
    BY <1>10, <2>1
  <2> HIDE DEF Upto
  <2> QED
    BY <2>2
<1>12. ASSUME NEW n \in Nat, n \in Typed PROVE n + 1 \in Typed
  <2>1. ASSUME NEW s \in Upto(n + 1), s # {}
        PROVE  f[Any(s)] \in Int /\ s \ {Any(s)} \in Upto(n)
    BY <1>3, <2>1
  <2>2. \A s \in Upto(n) : c[s] \in Int
    BY <1>12
  <2>3. \A s \in Upto(n + 1) : c[s] = F(c, s)
    BY <1>10
  <2> HIDE DEF Upto
  <2>4. ASSUME NEW s \in Upto(n + 1) PROVE c[s] \in Int
    <3>1. CASE s = {}
      BY <2>3, <3>1
    <3>2. CASE s # {}
      <4>1. c[s] = f[Any(s)] + c[s \ {Any(s)}]
        BY <2>3, <3>2
      <4>2. f[Any(s)] \in Int /\ c[s \ {Any(s)}] \in Int
        BY <2>1, <2>2, <3>2
      <4> QED
        BY <4>1, <4>2
    <3> QED
      BY <3>1, <3>2
  <2> QED
    BY <2>4
<1>13. N \in Typed
  <2> HIDE DEF Typed
  <2> QED
    BY <1>1, <1>11, <1>12, Induction
<1>14. S \in Upto(N)
  BY <1>7
<1> QED
  BY <1>13, <1>14 DEF c

-----------------------------------------------------------------------------

Attempt == 0..MaxAttempts

(* The inductive invariant.  A process may know anything of an experiment:  *)
(* only the type of its record matters, since the store checks the rest.    *)

ProcessesAreTyped == proc \in [Proc -> Process]

\* What is known of one run whatever the others do.
RowIsSound(row) ==
  /\ row \in RunRow
  /\ row.status = "ABSENT" => row.attempt = 0 /\ row.failures = 0
  /\ row.status \in {"RUNNING", "COMPLETE"} =>
       row.retryable = FALSE /\ row.attempt >= 1 /\ row.failures = row.attempt - 1
  /\ row.status = "COMPLETE" => row.score \in Int
  /\ row.status = "FAILED" =>
       /\ row.failures = row.attempt /\ row.attempt >= 1
       /\ (row.retryable = TRUE) <=> (row.attempt < MaxAttempts)

RunsAreSound == runs \in [Run -> RunRow] /\ \A r \in Run : RowIsSound(runs[r])

\* An opened experiment stays so, and is the only one.
OpenIsOpened ==
  /\ exps \in [Candidate -> Experiment]
  /\ \A c \in Candidate :
       /\ exps[c].status \in {"HOLDOUT_RUNNING", "COMPLETE"} => exps[c].opened = TRUE
       /\ exps[c].opened = TRUE => exps[c].status \in {"HOLDOUT_RUNNING", "COMPLETE", "FAILED"}

OneOpened ==
  /\ \A c, d \in Candidate : exps[c].opened = TRUE /\ exps[d].opened = TRUE => c = d
  /\ \A r \in Run : r[2] = "HOLDOUT" /\ runs[r].status # "ABSENT" => exps[r[1]].opened = TRUE

\* A validated experiment has recorded its validation result.
ResultsAreRecorded ==
  \A c \in Candidate : exps[c].status \in Validated => exps[c].delta["VALIDATION"] # None

Inv ==
  /\ ProcessesAreTyped /\ RunsAreSound /\ faults \in 0..MaxFaults
  /\ OpenIsOpened /\ OneOpened /\ EvidenceIsRuns /\ ResultsAreRecorded

\* How a row may change.
Follows(old, new) ==
  /\ new.attempt >= old.attempt
  /\ old.status = "COMPLETE" => new = old
  /\ old.status = "FAILED" /\ old.retryable = FALSE => new = old

-----------------------------------------------------------------------------
LEMMA FirstRecords == NewExperiment \in Experiment /\ Idle \in Process
<1>1. NewExperiment \in Experiment
  BY DEF NewExperiment, Experiment, Status
<1>2. 1 \in Candidate
  BY ExperimentAssumption DEF Candidate
<1> QED
  BY <1>1, <1>2 DEF Idle, Process, Partition

LEMMA InitInv == ASSUME Init PROVE Inv
<1>1. ProcessesAreTyped /\ faults \in 0..MaxFaults
  BY FirstRecords, ExperimentAssumption DEF Init, ProcessesAreTyped
<1>2. RunsAreSound
  BY ExperimentAssumption DEF Init, NewRun, RunsAreSound, RowIsSound, RunRow
<1>3. OpenIsOpened
  <2>1. exps \in [Candidate -> Experiment]
    BY FirstRecords DEF Init
  <2>2. \A c \in Candidate : exps[c].status = "ABSENT" /\ exps[c].opened = FALSE
    BY DEF Init, NewExperiment
  <2> QED
    BY <2>1, <2>2 DEF OpenIsOpened
<1>4. OneOpened
  BY DEF Init, NewExperiment, NewRun, OneOpened
<1>5. EvidenceIsRuns
  BY DEF Init, NewExperiment, EvidenceIsRuns
<1>6. ResultsAreRecorded
  BY DEF Init, NewExperiment, ResultsAreRecorded, Validated
<1> QED
  BY <1>1, <1>2, <1>3, <1>4, <1>5, <1>6 DEF Inv

-----------------------------------------------------------------------------
(* The rows of the runs. *)

LEMMA SameRow == ASSUME NEW row, RowIsSound(row) PROVE Follows(row, row)
BY DEF Follows, RowIsSound, RunRow

LEMMA ClaimedRow ==
  ASSUME RunsAreSound, NEW r \in Run, ~Taken(r), ~Exhausted(r)
  PROVE  /\ RowIsSound(Claimed(r)) /\ Follows(runs[r], Claimed(r))
         /\ Claimed(r).status = "RUNNING"
<1>1. RowIsSound(runs[r])
  BY DEF RunsAreSound
<1>2. runs[r].attempt < MaxAttempts /\ runs[r].status # "COMPLETE"
  BY <1>1, ExperimentAssumption DEF RowIsSound, RunRow, Taken, Exhausted, Done
<1>3. /\ Claimed(r).status = "RUNNING" /\ Claimed(r).attempt = runs[r].attempt + 1
      /\ Claimed(r).failures = runs[r].attempt /\ Claimed(r).retryable = FALSE
      /\ Claimed(r) \in RunRow
  BY <1>1, <1>2, ExperimentAssumption DEF Claimed, NewRun, RowIsSound, RunRow
<1>4. ~(runs[r].status = "FAILED" /\ runs[r].retryable = FALSE)
  BY DEF Taken
<1> QED
  BY <1>1, <1>2, <1>3, <1>4 DEF RowIsSound, RunRow, Follows

LEMMA EndedRow ==
  ASSUME RunsAreSound, NEW r \in Run, Exhausted(r)
  PROVE  /\ RowIsSound(Ended(r)) /\ Follows(runs[r], Ended(r))
         /\ runs[r].status # "ABSENT" /\ runs[r].status # "COMPLETE"
<1>1. RowIsSound(runs[r])
  BY DEF RunsAreSound
<1>2. /\ runs[r].status = "RUNNING" /\ runs[r].attempt = MaxAttempts
      /\ runs[r].failures = MaxAttempts - 1
  BY <1>1, ExperimentAssumption DEF Exhausted, RowIsSound, RunRow
<1>3. /\ Ended(r).status = "FAILED" /\ Ended(r).attempt = MaxAttempts
      /\ Ended(r).failures = MaxAttempts /\ Ended(r).retryable = FALSE
      /\ Ended(r) \in RunRow
  BY <1>2, ExperimentAssumption DEF Ended, RunRow
<1>4. ~(Ended(r).retryable = TRUE) /\ ~(Ended(r).attempt < MaxAttempts)
  BY <1>3, ExperimentAssumption
<1>5. RowIsSound(Ended(r))
  BY <1>3, <1>4, ExperimentAssumption DEF RowIsSound
<1>6. Follows(runs[r], Ended(r))
  BY <1>2, <1>3, ExperimentAssumption DEF Follows
<1> QED
  BY <1>2, <1>5, <1>6

LEMMA SucceededRow ==
  ASSUME RunsAreSound, NEW r \in Run, NEW a \in Attempt, MayPut(r, a), NEW s \in Int
  PROVE  RowIsSound(Succeeded(r, a, s)) /\ Follows(runs[r], Succeeded(r, a, s))
<1>1. RowIsSound(runs[r])
  BY DEF RunsAreSound
<1> QED
  BY <1>1, ExperimentAssumption DEF MayPut, Succeeded, RowIsSound, RunRow, Follows, Attempt

LEMMA TransientRow ==
  ASSUME RunsAreSound, NEW r \in Run, NEW a \in Attempt, MayPut(r, a)
  PROVE  RowIsSound(Transient(r, a)) /\ Follows(runs[r], Transient(r, a))
<1>1. RowIsSound(runs[r])
  BY DEF RunsAreSound
<1> QED
  BY <1>1, ExperimentAssumption DEF MayPut, Transient, RowIsSound, RunRow, Follows, Attempt

LEMMA ExpiredRow ==
  ASSUME RunsAreSound, NEW r \in Run, runs[r].status = "RUNNING"
  PROVE  /\ RowIsSound([runs[r] EXCEPT !.live = FALSE])
         /\ Follows(runs[r], [runs[r] EXCEPT !.live = FALSE])
<1>1. RowIsSound(runs[r])
  BY DEF RunsAreSound
<1> DEFINE new == [runs[r] EXCEPT !.live = FALSE]
<1>2. /\ new.status = "RUNNING" /\ new.attempt = runs[r].attempt
      /\ new.failures = runs[r].failures /\ new.retryable = runs[r].retryable
      /\ new \in RunRow
  BY <1>1 DEF RowIsSound, RunRow
<1> HIDE DEF new
<1>3. RowIsSound(new) /\ Follows(runs[r], new)
  BY <1>1, <1>2 DEF RowIsSound, RunRow, Follows
<1> QED
  BY <1>3 DEF new

\* A run is created by a claim, when its partition is open.
RowSteps ==
  /\ runs' \in [Run -> RunRow]
  /\ \A r \in Run :
       /\ RowIsSound(runs'[r]) /\ Follows(runs[r], runs'[r])
       /\ runs[r].status = "ABSENT" /\ runs'[r].status # "ABSENT" => ClaimOpen(r)

LEMMA OneRow ==
  ASSUME RunsAreSound, NEW s \in Run, NEW row, runs' = [runs EXCEPT ![s] = row],
         RowIsSound(row), Follows(runs[s], row),
         runs[s].status = "ABSENT" => ClaimOpen(s)
  PROVE  RowSteps
<1>1. ASSUME NEW r \in Run PROVE runs'[r] = IF r = s THEN row ELSE runs[r]
  BY DEF RunsAreSound
<1>2. ASSUME NEW r \in Run PROVE RowIsSound(runs[r]) /\ Follows(runs[r], runs[r])
  BY SameRow DEF RunsAreSound
<1>3. row \in RunRow /\ runs' \in [Run -> RunRow]
  BY DEF RowIsSound, RunsAreSound
<1> QED
  BY <1>1, <1>2, <1>3 DEF RowSteps, RunsAreSound

LEMMA NoRow == ASSUME RunsAreSound, runs' = runs PROVE RowSteps
BY SameRow DEF RowSteps, RunsAreSound

LEMMA ClaimSteps == ASSUME Inv, NEW p \in Proc, Claim(p) PROVE RowSteps
<1> USE DEF Inv
<1>1. PICK task \in proc[p].left :
        LET r == task[1]
            wrong == ~ClaimOpen(r) \/ (~Taken(r) /\ task[2] # NextAttempt(runs[r]))
            given == ~wrong /\ ~Taken(r) /\ ~Exhausted(r)
        IN  runs' = IF given THEN [runs EXCEPT ![r] = Claimed(r)]
                    ELSE IF ~wrong /\ ~Taken(r) THEN [runs EXCEPT ![r] = Ended(r)]
                    ELSE runs
  BY DEF Claim
<1> DEFINE r == task[1]
<1>2. r \in Run
  BY DEF ProcessesAreTyped, Process
<1>3. \/ ClaimOpen(r) /\ ~Taken(r) /\ ~Exhausted(r) /\ runs' = [runs EXCEPT ![r] = Claimed(r)]
      \/ ~Taken(r) /\ Exhausted(r) /\ runs' = [runs EXCEPT ![r] = Ended(r)]
      \/ runs' = runs
  BY <1>1
<1> HIDE DEF r
<1>4. CASE ClaimOpen(r) /\ ~Taken(r) /\ ~Exhausted(r) /\ runs' = [runs EXCEPT ![r] = Claimed(r)]
  BY <1>2, <1>4, ClaimedRow, OneRow
<1>5. CASE ~Taken(r) /\ Exhausted(r) /\ runs' = [runs EXCEPT ![r] = Ended(r)]
  BY <1>2, <1>5, EndedRow, OneRow
<1>6. CASE runs' = runs
  BY <1>6, NoRow
<1> QED
  BY <1>3, <1>4, <1>5, <1>6

LEMMA ReportSteps == ASSUME Inv, NEW p \in Proc, Report(p) PROVE RowSteps
<1> USE DEF Inv
<1>0. PICK task \in proc[p].claims :
        \E score \in Score[task[1]] \cup {None} :
          runs' = IF MayPut(task[1], task[2])
                    THEN [runs EXCEPT ![task[1]] =
                            IF score = None THEN Transient(task[1], task[2])
                                            ELSE Succeeded(task[1], task[2], score)]
                    ELSE runs
  BY DEF Report
<1>1. PICK score \in Score[task[1]] \cup {None} :
        runs' = IF MayPut(task[1], task[2])
                  THEN [runs EXCEPT ![task[1]] =
                          IF score = None THEN Transient(task[1], task[2])
                                          ELSE Succeeded(task[1], task[2], score)]
                  ELSE runs
  BY <1>0
<1>2. task[1] \in Run /\ task[2] \in Attempt
  <2>1. proc[p] \in Process
    BY DEF ProcessesAreTyped
  <2>2. proc[p].claims \subseteq Run \X Attempt
    BY <2>1 DEF Process, Attempt
  <2> QED
    BY <2>2
<1>3. score = None \/ score \in Int
  BY <1>2, ScoreAssumption
<1> DEFINE r == task[1] a == task[2]
<1>4. r \in Run /\ a \in Attempt
  BY <1>2
<1>5. \/ MayPut(r, a) /\ score = None /\ runs' = [runs EXCEPT ![r] = Transient(r, a)]
      \/ MayPut(r, a) /\ score \in Int /\ runs' = [runs EXCEPT ![r] = Succeeded(r, a, score)]
      \/ runs' = runs
  BY <1>1, <1>3
<1> HIDE DEF r, a
<1>6. MayPut(r, a) => runs[r].status # "ABSENT"
  BY DEF MayPut
<1>7. CASE MayPut(r, a) /\ score = None /\ runs' = [runs EXCEPT ![r] = Transient(r, a)]
  BY <1>4, <1>6, <1>7, TransientRow, OneRow
<1>8. CASE MayPut(r, a) /\ score \in Int /\ runs' = [runs EXCEPT ![r] = Succeeded(r, a, score)]
  BY <1>4, <1>6, <1>8, SucceededRow, OneRow
<1>9. CASE runs' = runs
  BY <1>9, NoRow
<1> QED
  BY <1>5, <1>7, <1>8, <1>9

LEMMA ExpireSteps == ASSUME Inv, NEW r \in Run, Expire(r) PROVE RowSteps
<1>1. /\ runs[r].status = "RUNNING"
      /\ runs' = [runs EXCEPT ![r] = [runs[r] EXCEPT !.live = FALSE]]
  BY DEF Expire
<1> QED
  BY <1>1, ExpiredRow, OneRow DEF Inv

LEMMA RunsStep == ASSUME Inv, [Next]_vars PROVE RowSteps
<1>1. ASSUME NEW p \in Proc, Step(p) PROVE RowSteps
  <2>1. \/ runs' = runs \/ Claim(p) \/ Report(p)
    BY <1>1 DEF Step, Start, Look, Create, Open, List, Conclude, Finish, Put, store
  <2> QED
    BY <2>1, ClaimSteps, ReportSteps, NoRow DEF Inv
<1>2. ASSUME NEW p \in Proc, Crash(p) PROVE RowSteps
  BY <1>2, NoRow DEF Crash, store, Inv
<1>3. ASSUME NEW c \in Candidate, Request(c) PROVE RowSteps
  BY <1>3, NoRow DEF Request, Inv
<1>4. CASE UNCHANGED vars
  BY <1>4, NoRow DEF vars, Inv
<1> QED
  BY <1>1, <1>2, <1>3, <1>4, ExpireSteps DEF Next

-----------------------------------------------------------------------------
(* The rows of the experiments. *)

\* The deltas of a partition whose runs are all done are a number.
LEMMA DeltaIsInt ==
  ASSUME RunsAreSound, NEW c \in Candidate, NEW part \in Partition,
         \A r \in RunsOf(c, part) : Done(r)
  PROVE  DeltaOf(runs, c, part) \in Int
<1> DEFINE f == [i \in Pair |-> runs[<<c, part, i, "CANDIDATE">>].score
                                  - runs[<<c, part, i, "CHAMPION">>].score]
<1>1. ASSUME NEW i \in Pair, NEW side \in Side
      PROVE  runs[<<c, part, i, side>>].score \in Int
  <2>1. <<c, part, i, side>> \in Run /\ Done(<<c, part, i, side>>)
    BY DEF RunsOf, Run
  <2> QED
    BY <2>1 DEF RunsAreSound, RowIsSound, Done
<1>2. \A i \in Pair : f[i] \in Int
  BY <1>1 DEF Side
<1>3. DOMAIN f = Pair /\ IsFiniteSet(Pair)
  BY ExperimentAssumption
<1>4. DeltaOf(runs, c, part) = SumFunction(f)
  BY DEF DeltaOf
<1> HIDE DEF f
<1> QED
  BY <1>2, <1>3, <1>4, FoldIsSum, SumIsInt

\* What runs are done stays, and so does what was computed from them.
LEMMA EvidenceStays ==
  ASSUME Inv, RowSteps, exps' = exps PROVE EvidenceIsRuns'
<1> SUFFICES ASSUME NEW c \in Candidate
             PROVE  /\ \A r \in exps[c].runIds : Done(r)'
                    /\ \A part \in Partition :
                         exps[c].delta[part] # None =>
                           /\ RunsOf(c, part) \subseteq exps[c].runIds
                           /\ exps[c].delta[part] = DeltaOf(runs', c, part)
  BY DEF EvidenceIsRuns
<1>1. \A r \in exps[c].runIds : r \in Run /\ Done(r)
  BY DEF Inv, OpenIsOpened, EvidenceIsRuns, Experiment
<1>2. \A r \in exps[c].runIds : runs'[r] = runs[r]
  BY <1>1 DEF RowSteps, Follows, Done
<1>3. ASSUME NEW part \in Partition, exps[c].delta[part] # None
      PROVE  /\ RunsOf(c, part) \subseteq exps[c].runIds
             /\ exps[c].delta[part] = DeltaOf(runs', c, part)
  <2>1. /\ RunsOf(c, part) \subseteq exps[c].runIds
        /\ exps[c].delta[part] = DeltaOf(runs, c, part)
    BY <1>3 DEF Inv, EvidenceIsRuns
  <2>2. ASSUME NEW i \in Pair, NEW side \in Side
        PROVE  runs'[<<c, part, i, side>>] = runs[<<c, part, i, side>>]
    BY <1>2, <2>1 DEF RunsOf
  <2>3. DeltaOf(runs', c, part) = DeltaOf(runs, c, part)
    BY <2>2 DEF DeltaOf, Side
  <2> QED
    BY <2>1, <2>3
<1> QED
  BY <1>1, <1>2, <1>3 DEF Done

LEMMA RunsOfRun ==
  ASSUME NEW c \in Candidate, NEW part \in Partition PROVE RunsOf(c, part) \subseteq Run
BY DEF RunsOf, Run

\* What an accepted record says is what the runs say.
LEMMA AcceptedEvidence ==
  ASSUME Inv, NEW c \in Candidate, NEW value, Accepted(c, value)
  PROVE  /\ value.runIds \in SUBSET Run
         /\ \A r \in value.runIds : Done(r)
         /\ \A part \in Partition :
              value.delta[part] # None =>
                /\ RunsOf(c, part) \subseteq value.runIds
                /\ value.delta[part] = DeltaOf(runs, c, part)
<1>1. Closed(c, value)
  BY DEF Accepted
<1>2. value.status \in {"PENDING", "VALIDATION_RUNNING", "FAILED", "VALIDATION_COMPLETE",
                        "HOLDOUT_RUNNING", "COMPLETE"}
  BY DEF Accepted, TRANSITIONS
<1>3. CASE /\ value.status \in {"PENDING", "VALIDATION_RUNNING", "FAILED", "HOLDOUT_RUNNING"}
  <2>1. value.runIds = exps[c].runIds /\ value.delta = exps[c].delta
    BY <1>1, <1>3 DEF Closed
  <2> QED
    BY <2>1 DEF Inv, EvidenceIsRuns, OpenIsOpened, Experiment
<1>4. CASE value.status = "VALIDATION_COMPLETE"
  <2>1. /\ MatrixComplete(value, c, "VALIDATION")
        /\ value.delta = [part \in Partition |->
             IF part = "VALIDATION" THEN DeltaOf(runs, c, part) ELSE None]
    BY <1>1, <1>4 DEF Closed
  <2>2. \A part \in Partition : value.delta[part] # None =>
          part = "VALIDATION" /\ value.delta[part] = DeltaOf(runs, c, part)
    BY <2>1
  <2> QED
    BY <2>1, <2>2, RunsOfRun DEF MatrixComplete, Partition
<1>5. CASE value.status = "COMPLETE"
  <2>1. /\ \A part \in Partition : MatrixComplete(value, c, part)
        /\ value.delta = [part \in Partition |-> DeltaOf(runs, c, part)]
    BY <1>1, <1>5 DEF Closed
  <2> QED
    BY <2>1, RunsOfRun DEF MatrixComplete, Partition
<1> QED
  BY <1>2, <1>3, <1>4, <1>5

\* A record is opened when the store accepts that, and not otherwise.
LEMMA AcceptedOpening ==
  ASSUME Inv, NEW c \in Candidate, NEW value, Accepted(c, value)
  PROVE  \/ /\ value.status = "HOLDOUT_RUNNING"
            /\ \A d \in Candidate : exps[d].status = "VALIDATION_COMPLETE"
         \/ /\ value.status # "HOLDOUT_RUNNING"
            /\ value.opened = exps[c].opened
            /\ value.status = "COMPLETE" => exps[c].opened = TRUE
            /\ exps[c].opened = TRUE => value.status \in {"COMPLETE", "FAILED"}
<1>1. /\ <<exps[c].status, value.status>> \in TRANSITIONS
      /\ value.status # "HOLDOUT_RUNNING" => value.opened = exps[c].opened
      /\ Closed(c, value)
  BY DEF Accepted
<1>2. CASE value.status = "HOLDOUT_RUNNING"
  BY <1>1, <1>2 DEF Closed, HoldoutWinner
<1>3. CASE value.status # "HOLDOUT_RUNNING"
  BY <1>1, <1>3 DEF TRANSITIONS, Inv, OpenIsOpened
<1> QED
  BY <1>2, <1>3

\* A record that is accepted as validated says what the validation was.
LEMMA AcceptedResult ==
  ASSUME Inv, NEW c \in Candidate, NEW value, Accepted(c, value), value.status \in Validated
  PROVE  value.delta["VALIDATION"] # None
<1>1. Closed(c, value) /\ <<exps[c].status, value.status>> \in TRANSITIONS
  BY DEF Accepted
<1>2. "VALIDATION" \in Partition
  BY DEF Partition
<1>3. CASE value.status = "HOLDOUT_RUNNING"
  <2>1. value.delta = exps[c].delta /\ HoldoutWinner(c)
    BY <1>1, <1>3 DEF Closed
  <2>2. exps[c].status \in Validated
    BY <2>1 DEF HoldoutWinner, Validated
  <2> QED
    BY <2>1, <2>2 DEF Inv, ResultsAreRecorded
<1>4. CASE value.status \in {"VALIDATION_COMPLETE", "COMPLETE"}
  <2>1. MatrixComplete(value, c, "VALIDATION") /\ value.delta["VALIDATION"] = DeltaOf(runs, c, "VALIDATION")
    BY <1>1, <1>2, <1>4 DEF Closed
  <2>2. DeltaOf(runs, c, "VALIDATION") \in Int
    BY <1>2, <2>1, DeltaIsInt DEF MatrixComplete, Inv
  <2> QED
    BY <2>1, <2>2, ExperimentAssumption
<1> QED
  BY <1>3, <1>4 DEF Validated

LEMMA StoredIsTyped ==
  ASSUME NEW c \in Candidate, NEW value \in Experiment, exps[c] \in Experiment
  PROVE  Stored(c, value) \in Experiment
<1>1. [value EXCEPT !.opened = @ \/ value.status = "HOLDOUT_RUNNING"] \in Experiment
  BY DEF Experiment
<1> QED
  BY <1>1 DEF Stored

ExpsAreSound == OpenIsOpened /\ OneOpened /\ EvidenceIsRuns /\ ResultsAreRecorded

LEMMA StoredSteps ==
  ASSUME Inv, NEW c \in Candidate, NEW value \in Experiment,
         exps' = [exps EXCEPT ![c] = Stored(c, value)], runs' = runs
  PROVE  ExpsAreSound'
<1> DEFINE new == exps'[c]
<1>1. /\ DOMAIN exps' = Candidate
      /\ \A d \in Candidate \ {c} : exps'[d] = exps[d]
      /\ new = Stored(c, value)
  BY DEF Inv, OpenIsOpened
<1>0. exps' \in [Candidate -> Experiment]
  BY StoredIsTyped DEF Inv, OpenIsOpened
<1>2. CASE new = exps[c]
  <2>1. \A d \in Candidate : exps'[d] = exps[d]
    BY <1>1, <1>2
  <2>2. OpenIsOpened'
    BY <1>0, <2>1 DEF Inv, OpenIsOpened
  <2>3. OneOpened'
    BY <2>1 DEF Inv, OneOpened, Run
  <2>4. EvidenceIsRuns'
    BY <2>1 DEF Inv, EvidenceIsRuns, Done
  <2>5. ResultsAreRecorded'
    BY <2>1 DEF Inv, ResultsAreRecorded
  <2> QED
    BY <2>2, <2>3, <2>4, <2>5 DEF ExpsAreSound
<1>3. CASE /\ Accepted(c, value)
           /\ new = [value EXCEPT !.opened = @ \/ value.status = "HOLDOUT_RUNNING"]
  <2>1. /\ new.status = value.status
        /\ new.runIds = value.runIds /\ new.delta = value.delta
    BY <1>3 DEF Experiment
  <2>2. \/ /\ new.status = "HOLDOUT_RUNNING" /\ new.opened = TRUE
           /\ \A d \in Candidate : exps[d].status = "VALIDATION_COMPLETE"
        \/ /\ new.status # "HOLDOUT_RUNNING" /\ new.opened = exps[c].opened
           /\ new.status = "COMPLETE" => exps[c].opened = TRUE
           /\ exps[c].opened = TRUE => new.status \in {"COMPLETE", "FAILED"}
    <3>1. CASE value.status = "HOLDOUT_RUNNING"
      <4>1. new.opened = TRUE
        BY <1>3, <3>1 DEF Experiment
      <4> QED
        BY <1>3, <2>1, <3>1, <4>1, AcceptedOpening
    <3>2. CASE value.status # "HOLDOUT_RUNNING"
      <4>1. value.opened = exps[c].opened /\ exps[c].opened \in BOOLEAN
        BY <1>3, <3>2, AcceptedOpening DEF Inv, OpenIsOpened, Experiment
      <4>2. new.opened = value.opened
        BY <1>3, <3>2, <4>1 DEF Experiment
      <4>3. /\ value.status = "COMPLETE" => exps[c].opened = TRUE
            /\ exps[c].opened = TRUE => value.status \in {"COMPLETE", "FAILED"}
        BY <1>3, <3>2, AcceptedOpening
      <4>4. new.opened = exps[c].opened
        BY <4>1, <4>2
      <4> HIDE DEF new
      <4> QED
        BY <2>1, <3>2, <4>3, <4>4
    <3> QED
      BY <3>1, <3>2
  <2>3. new.runIds \in SUBSET Run
    BY <1>3, <2>1, AcceptedEvidence
  <2> HIDE DEF new
  <2>4. OpenIsOpened'
    <3>1. ASSUME NEW d \in Candidate
          PROVE  /\ exps'[d].status \in {"HOLDOUT_RUNNING", "COMPLETE"} => exps'[d].opened = TRUE
                 /\ exps'[d].opened = TRUE =>
                      exps'[d].status \in {"HOLDOUT_RUNNING", "COMPLETE", "FAILED"}
      <4>1. CASE d = c
        BY <2>1, <2>2, <2>3, <4>1 DEF Inv, OpenIsOpened, new
      <4>2. CASE d # c
        BY <1>1, <4>2 DEF Inv, OpenIsOpened
      <4> QED
        BY <4>1, <4>2
    <3> QED
      BY <1>0, <3>1 DEF OpenIsOpened
  <2>5. OneOpened'
    <3>1. ASSUME NEW d \in Candidate, exps[d].opened = TRUE PROVE exps'[d].opened = TRUE
      BY <1>1, <2>2, <3>1 DEF Inv, OpenIsOpened, new
    <3>2. ASSUME NEW d \in Candidate, exps'[d].opened = TRUE, exps[d].opened # TRUE
          PROVE  \A e \in Candidate : exps[e].opened # TRUE
      BY <1>1, <2>2, <3>2 DEF Inv, OpenIsOpened, new
    <3>3. ASSUME NEW d \in Candidate, NEW e \in Candidate,
                 exps'[d].opened = TRUE, exps'[e].opened = TRUE
          PROVE  d = e
      <4>1. CASE exps[d].opened = TRUE /\ exps[e].opened = TRUE
        BY <4>1 DEF Inv, OneOpened
      <4>2. CASE exps[d].opened # TRUE \/ exps[e].opened # TRUE
        <5>1. exps[d].opened # TRUE /\ exps[e].opened # TRUE
          BY <3>2, <3>3, <4>2
        <5>2. ASSUME NEW x \in Candidate, exps'[x].opened = TRUE, exps[x].opened # TRUE
              PROVE  x = c
          <6>1. SUFFICES ASSUME x # c PROVE FALSE
            OBVIOUS
          <6>2. exps'[x] = exps[x]
            BY <1>1, <6>1
          <6> QED
            BY <5>2, <6>2
        <5> QED
          BY <3>3, <5>1, <5>2
      <4> QED
        BY <4>1, <4>2
    <3>4. ASSUME NEW r \in Run, r[2] = "HOLDOUT", runs'[r].status # "ABSENT"
          PROVE  exps'[r[1]].opened = TRUE
      <4>1. r[1] \in Candidate
        BY DEF Run
      <4> QED
        BY <3>1, <3>4, <4>1 DEF Inv, OneOpened
    <3> QED
      BY <3>3, <3>4 DEF OneOpened
  <2>6. EvidenceIsRuns'
    <3>1. ASSUME NEW d \in Candidate
          PROVE  /\ \A r \in exps'[d].runIds : Done(r)
                 /\ \A part \in Partition :
                      exps'[d].delta[part] # None =>
                        /\ RunsOf(d, part) \subseteq exps'[d].runIds
                        /\ exps'[d].delta[part] = DeltaOf(runs, d, part)
      <4>1. CASE d = c
        BY <1>3, <2>1, <4>1, AcceptedEvidence DEF new
      <4>2. CASE d # c
        BY <1>1, <4>2 DEF Inv, EvidenceIsRuns
      <4> QED
        BY <4>1, <4>2
    <3> QED
      BY <3>1 DEF EvidenceIsRuns, Done
  <2>7. ResultsAreRecorded'
    <3>1. ASSUME NEW d \in Candidate, exps'[d].status \in Validated
          PROVE  exps'[d].delta["VALIDATION"] # None
      <4>1. CASE d = c
        BY <1>3, <2>1, <3>1, <4>1, AcceptedResult DEF new
      <4>2. CASE d # c
        BY <1>1, <3>1, <4>2 DEF Inv, ResultsAreRecorded
      <4> QED
        BY <4>1, <4>2
    <3> QED
      BY <3>1 DEF ResultsAreRecorded
  <2> QED
    BY <2>4, <2>5, <2>6, <2>7 DEF ExpsAreSound
<1> QED
  BY <1>1, <1>2, <1>3 DEF Stored

LEMMA ExpsStay == ASSUME Inv, RowSteps, exps' = exps PROVE ExpsAreSound'
<1>1. OpenIsOpened'
  BY DEF Inv, OpenIsOpened
<1>2. OneOpened'
  <2>1. ASSUME NEW r \in Run, r[2] = "HOLDOUT", runs'[r].status # "ABSENT"
        PROVE  exps[r[1]].opened = TRUE
    <3>1. r[1] \in Candidate
      BY DEF Run
    <3>2. CASE runs[r].status = "ABSENT"
      <4>1. exps[r[1]].status = "HOLDOUT_RUNNING"
        BY <2>1, <3>2 DEF RowSteps, ClaimOpen
      <4> QED
        BY <3>1, <4>1 DEF Inv, OpenIsOpened
    <3>3. CASE runs[r].status # "ABSENT"
      BY <2>1, <3>3 DEF Inv, OneOpened
    <3> QED
      BY <3>2, <3>3
  <2> QED
    BY <2>1 DEF Inv, OneOpened
<1>3. ResultsAreRecorded'
  BY DEF Inv, ResultsAreRecorded
<1> QED
  BY <1>1, <1>2, <1>3, EvidenceStays DEF ExpsAreSound

LEMMA ExpsStep == ASSUME Inv, [Next]_vars PROVE ExpsAreSound'
<1>1. RowSteps
  BY RunsStep
<1>2. ASSUME NEW p \in Proc, Step(p) PROVE ExpsAreSound'
  <2>1. CASE Create(p) \/ Open(p) \/ Finish(p)
    <3>1. /\ exps' = [exps EXCEPT ![proc[p].of] = Stored(proc[p].of, proc[p].exp)]
          /\ runs' = runs
      BY <2>1 DEF Create, Open, Finish, Put
    <3>2. proc[p].of \in Candidate /\ proc[p].exp \in Experiment
      BY DEF Inv, ProcessesAreTyped, Process
    <3> QED
      BY <3>1, <3>2, StoredSteps
  <2>2. CASE Start(p) \/ Look(p) \/ List(p) \/ Conclude(p)
    <3>1. exps' = exps
      BY <2>2 DEF Start, Look, List, Conclude, store
    <3> QED
      BY <1>1, <3>1, ExpsStay
  <2>3. CASE Claim(p) \/ Report(p)
    <3>1. exps' = exps
      BY <2>3 DEF Claim, Report
    <3> QED
      BY <1>1, <3>1, ExpsStay
  <2> QED
    BY <1>2, <2>1, <2>2, <2>3 DEF Step
<1>3. ASSUME NEW p \in Proc, Crash(p) PROVE ExpsAreSound'
  BY <1>1, <1>3, ExpsStay DEF Crash, store
<1>4. ASSUME NEW r \in Run, Expire(r) PROVE ExpsAreSound'
  BY <1>1, <1>4, ExpsStay DEF Expire
<1>5. ASSUME NEW c \in Candidate, Request(c) PROVE ExpsAreSound'
  <2>1. [exps[c] EXCEPT !.status = "HOLDOUT_RUNNING", !.opened = TRUE] \in Experiment
    BY DEF Inv, OpenIsOpened, Experiment, Status
  <2> QED
    BY <1>5, <2>1, StoredSteps DEF Request
<1>6. CASE UNCHANGED vars
  BY <1>1, <1>6, ExpsStay DEF vars
<1> QED
  BY <1>2, <1>3, <1>4, <1>5, <1>6 DEF Next

-----------------------------------------------------------------------------
(* The processes. *)

LEMMA StopSteps ==
  ASSUME ProcessesAreTyped, NEW p \in Proc, Stop(p) PROVE ProcessesAreTyped'
BY FirstRecords DEF Stop, ProcessesAreTyped

LEMMA GoOnSteps ==
  ASSUME ProcessesAreTyped, NEW p \in Proc, NEW c \in Candidate, NEW part \in Partition,
         GoOn(p, c, part)
  PROVE  ProcessesAreTyped'
<1>1. [Idle EXCEPT !.at = "look", !.of = c, !.part = part] \in Process
  BY FirstRecords DEF Process
<1> QED
  BY <1>1 DEF GoOn, ProcessesAreTyped

LEMMA KnowsSteps ==
  ASSUME ProcessesAreTyped, NEW p \in Proc, NEW at \in {"create", "open", "list", "put"},
         NEW e \in Experiment, Knows(p, at, e)
  PROVE  ProcessesAreTyped'
<1> DEFINE q == [proc[p] EXCEPT !.at = at, !.exp = e]
<1>1. proc[p] \in Process
  BY DEF ProcessesAreTyped
<1>2. q \in Process
  BY <1>1 DEF Process
<1>3. proc' = [proc EXCEPT ![p] = q]
  BY DEF Knows, ProcessesAreTyped
<1> HIDE DEF q
<1> QED
  BY <1>2, <1>3 DEF ProcessesAreTyped

LEMMA AfterValidationSteps ==
  ASSUME ProcessesAreTyped, NEW p \in Proc, AfterValidation(p)
  PROVE  ProcessesAreTyped'
<1>1. proc[p].of \in Candidate
  BY DEF ProcessesAreTyped, Process
<1>2. CASE proc[p].of < Candidates
  <2>1. GoOn(p, proc[p].of + 1, "VALIDATION")
    BY <1>2 DEF AfterValidation
  <2>2. proc[p].of + 1 \in Candidate /\ "VALIDATION" \in Partition
    BY <1>1, <1>2, ExperimentAssumption DEF Candidate, Partition
  <2> QED
    BY <2>1, <2>2, GoOnSteps
<1>3. CASE ~(proc[p].of < Candidates)
  <2>1. \/ \E c \in Candidate : GoOn(p, c, "HOLDOUT")
        \/ Stop(p)
    BY <1>3 DEF AfterValidation
  <2>2. "HOLDOUT" \in Partition
    BY DEF Partition
  <2> QED
    BY <2>1, <2>2, GoOnSteps, StopSteps
<1> QED
  BY <1>2, <1>3

LEMMA LookSteps == ASSUME Inv, NEW p \in Proc, Look(p) PROVE ProcessesAreTyped'
<1> DEFINE e == exps[proc[p].of]
           toOpen == IF proc[p].part = "VALIDATION" THEN "PENDING" ELSE "VALIDATION_COMPLETE"
           opened == IF proc[p].part = "VALIDATION" THEN "VALIDATION_RUNNING"
                                                    ELSE "HOLDOUT_RUNNING"
           started == [e EXCEPT !.status = "PENDING"]
           begun == [e EXCEPT !.status = opened, !.opened = @ \/ proc[p].part = "HOLDOUT"]
<1>1. proc[p].of \in Candidate
  BY DEF Inv, ProcessesAreTyped, Process
<1>2. e \in Experiment
  BY <1>1 DEF Inv, OpenIsOpened
<1>3. started \in Experiment /\ begun \in Experiment
  BY <1>2 DEF Experiment, Status
<1>4. \/ Knows(p, "create", started) \/ Knows(p, "open", begun) \/ Knows(p, "list", e)
      \/ AfterValidation(p) \/ Stop(p)
  BY DEF Look
<1> HIDE DEF started, begun, e
<1> QED
  BY <1>2, <1>3, <1>4, KnowsSteps, AfterValidationSteps, StopSteps DEF Inv

LEMMA PutSteps ==
  ASSUME Inv, NEW p \in Proc, ExpsAreSound', Create(p) \/ Open(p) \/ Finish(p)
  PROVE  ProcessesAreTyped'
<1>1. proc[p].of \in Candidate /\ proc[p].exp \in Experiment
  BY DEF Inv, ProcessesAreTyped, Process
<1>2. exps'[proc[p].of] \in Experiment
  BY <1>1 DEF ExpsAreSound, OpenIsOpened
<1> DEFINE begun == [proc[p].exp EXCEPT !.status = "VALIDATION_RUNNING"]
<1>3. begun \in Experiment
  BY <1>1 DEF Experiment, Status
<1>4. \/ Stop(p) \/ Knows(p, "open", begun) \/ Knows(p, "list", exps'[proc[p].of])
      \/ AfterValidation(p)
  BY DEF Create, Open, Finish
<1> HIDE DEF begun
<1> QED
  BY <1>2, <1>3, <1>4, KnowsSteps, AfterValidationSteps, StopSteps DEF Inv

LEMMA ConcludeSteps == ASSUME Inv, NEW p \in Proc, Conclude(p) PROVE ProcessesAreTyped'
<1> DEFINE c == proc[p].of
           part == proc[p].part
           e == proc[p].exp
           d == DeltaOf(runs, c, part)
           failed == [e EXCEPT !.status = "FAILED"]
           over == [e EXCEPT !.status = IF part = "VALIDATION" THEN "VALIDATION_COMPLETE"
                                                              ELSE "COMPLETE",
                             !.runIds = @ \cup RunsOf(c, part), !.delta[part] = d]
<1>1. c \in Candidate /\ part \in Partition /\ e \in Experiment
  BY DEF Inv, ProcessesAreTyped, Process
<1>2. failed \in Experiment
  BY <1>1 DEF Experiment, Status
<1>3. \/ Stop(p) \/ Knows(p, "put", failed)
      \/ (\A r \in RunsOf(c, part) : Done(r)) /\ Knows(p, "put", over)
  BY DEF Conclude
<1>4. CASE \A r \in RunsOf(c, part) : Done(r)
  <2>1. d \in Int
    BY <1>1, <1>4, DeltaIsInt DEF Inv
  <2>2. RunsOf(c, part) \subseteq Run
    BY <1>1, RunsOfRun
  <2> HIDE DEF d, c, part, e
  <2>3. over \in Experiment
    BY <1>1, <2>1, <2>2 DEF Experiment, Status
  <2> HIDE DEF over, failed
  <2> QED
    BY <1>2, <1>3, <2>3, KnowsSteps, StopSteps DEF Inv
<1> HIDE DEF over, failed
<1> QED
  BY <1>2, <1>3, <1>4, KnowsSteps, StopSteps DEF Inv

\* What is left to claim, and what is claimed, are attempts at runs.
LEMMA ListSteps == ASSUME Inv, NEW p \in Proc, List(p) PROVE ProcessesAreTyped'
<1> DEFINE open == {r \in RunsOf(proc[p].of, proc[p].part) :
                      ~Done(r) /\ ~(runs[r].status = "FAILED" /\ ~runs[r].retryable)}
           tasks == {<<r, NextAttempt(runs[r])>> : r \in open}
<1>1. proc[p] \in Process
  BY DEF Inv, ProcessesAreTyped
<1>2. ASSUME NEW r \in open PROVE r \in Run /\ NextAttempt(runs[r]) \in Attempt
  <2>1. r \in Run
    BY <1>1, RunsOfRun DEF Process
  <2>2. RowIsSound(runs[r]) /\ runs[r].status # "COMPLETE"
    BY <2>1 DEF Inv, RunsAreSound, Done
  <2>3. runs[r].status = "FAILED" => runs[r].retryable = TRUE
    BY <2>2 DEF RowIsSound, RunRow
  <2> QED
    BY <2>1, <2>2, <2>3, ExperimentAssumption DEF NextAttempt, RowIsSound, RunRow, Attempt
<1>3. tasks \in SUBSET (Run \X Attempt)
  BY <1>2
<1>4. proc' = [proc EXCEPT ![p].at = "work", ![p].left = tasks]
  BY DEF List
<1> HIDE DEF tasks
<1>5. [proc[p] EXCEPT !.at = "work", !.left = tasks] \in Process
  BY <1>1, <1>3 DEF Process, Attempt
<1>6. proc' = [proc EXCEPT ![p] = [proc[p] EXCEPT !.at = "work", !.left = tasks]]
  BY <1>4 DEF Inv, ProcessesAreTyped
<1> QED
  BY <1>5, <1>6 DEF Inv, ProcessesAreTyped

LEMMA WorkSteps ==
  ASSUME ProcessesAreTyped, NEW p \in Proc, NEW l, NEW k, NEW error \in BOOLEAN,
         l \in SUBSET (Run \X Attempt), k \in SUBSET (Run \X Attempt),
         \/ proc' = [proc EXCEPT ![p].left = l, ![p].claims = k, ![p].error = error]
         \/ proc' = [proc EXCEPT ![p].claims = k, ![p].error = error]
  PROVE  ProcessesAreTyped'
<1>1. proc[p] \in Process
  BY DEF ProcessesAreTyped
<1> DEFINE q == [proc[p] EXCEPT !.left = l, !.claims = k, !.error = error]
           s == [proc[p] EXCEPT !.claims = k, !.error = error]
<1>2. q \in Process /\ s \in Process
  BY <1>1 DEF Process, Attempt
<1>3. proc' = [proc EXCEPT ![p] = q] \/ proc' = [proc EXCEPT ![p] = s]
  BY DEF ProcessesAreTyped
<1> HIDE DEF q, s
<1> QED
  BY <1>2, <1>3 DEF ProcessesAreTyped

LEMMA LanesSteps ==
  ASSUME Inv, NEW p \in Proc, Claim(p) \/ Report(p) PROVE ProcessesAreTyped'
<1>0. proc[p] \in Process
  BY DEF Inv, ProcessesAreTyped
<1>1. proc[p].left \in SUBSET (Run \X Attempt) /\ proc[p].claims \in SUBSET (Run \X Attempt)
  BY <1>0 DEF Process, Attempt
<1>2. CASE Claim(p)
  <2>1. PICK task \in proc[p].left, given \in BOOLEAN, wrong \in BOOLEAN :
          proc' = [proc EXCEPT ![p].left = @ \ {task},
                               ![p].claims = IF given THEN @ \cup {task} ELSE @,
                               ![p].error = wrong]
    BY <1>2 DEF Claim
  <2> DEFINE l == proc[p].left \ {task}
             k == IF given THEN proc[p].claims \cup {task} ELSE proc[p].claims
  <2>2. l \in SUBSET (Run \X Attempt) /\ k \in SUBSET (Run \X Attempt)
    BY <1>1
  <2>3. proc' = [proc EXCEPT ![p].left = l, ![p].claims = k, ![p].error = wrong]
    BY <2>1
  <2> HIDE DEF l, k
  <2> QED
    BY <2>2, <2>3, WorkSteps DEF Inv
<1>3. CASE Report(p)
  <2>1. PICK task \in proc[p].claims : \E error \in BOOLEAN :
          proc' = [proc EXCEPT ![p].claims = @ \ {task}, ![p].error = error]
    BY <1>3 DEF Report
  <2>2. PICK error \in BOOLEAN : proc' = [proc EXCEPT ![p].claims = @ \ {task}, ![p].error = error]
    BY <2>1
  <2> DEFINE k == proc[p].claims \ {task}
  <2>3. k \in SUBSET (Run \X Attempt)
    BY <1>1
  <2>4. proc' = [proc EXCEPT ![p].claims = k, ![p].error = error]
    BY <2>2
  <2> HIDE DEF k
  <2> QED
    BY <1>1, <2>3, <2>4, WorkSteps DEF Inv
<1> QED
  BY <1>2, <1>3

LEMMA ProcessesStep ==
  ASSUME Inv, [Next]_vars, ExpsAreSound' PROVE ProcessesAreTyped'
<1>1. ASSUME NEW p \in Proc, Step(p) PROVE ProcessesAreTyped'
  <2>1. CASE Start(p)
    <3>1. GoOn(p, 1, "VALIDATION") /\ 1 \in Candidate /\ "VALIDATION" \in Partition
      BY <2>1, ExperimentAssumption DEF Start, Candidate, Partition
    <3> QED
      BY <3>1, GoOnSteps DEF Inv
  <2> QED
    BY <1>1, <2>1, LookSteps, PutSteps, ListSteps, LanesSteps, ConcludeSteps DEF Step
<1>2. ASSUME NEW p \in Proc, Crash(p) PROVE ProcessesAreTyped'
  BY <1>2, StopSteps DEF Crash, Inv
<1>3. CASE proc' = proc
  BY <1>3 DEF Inv, ProcessesAreTyped
<1> QED
  BY <1>1, <1>2, <1>3 DEF Next, Expire, Request, vars

-----------------------------------------------------------------------------
(* The invariant holds, and with it the properties.                         *)

LEMMA Inductive == ASSUME Inv, [Next]_vars PROVE Inv'
<1>1. RunsAreSound'
  BY RunsStep DEF RowSteps, RunsAreSound
<1>2. faults' \in 0..MaxFaults
  <2>1. faults' = faults \/ Fault
    BY DEF Next, Step, Start, Look, Create, Open, Finish, Put, List, Claim, Report, Conclude,
           Crash, Expire, Request, NoFault, vars
  <2> QED
    BY <2>1, ExperimentAssumption DEF Fault, Inv
<1> QED
  BY <1>1, <1>2, ExpsStep, ProcessesStep DEF Inv, ExpsAreSound

\* The invariant, for every instance: records have their form, counters agree,
\* an opened holdout is the only one and recorded evidence is what runs say.
THEOREM Invariance == Spec => []Inv
<1>1. Init => Inv
  BY InitInv
<1>2. Inv /\ [Next]_vars => Inv'
  BY Inductive
<1> QED
  BY <1>1, <1>2, PTL DEF Spec

\* However the processes' steps, kills and lost leases interleave, a family's
\* holdout is opened for one candidate ever (_assert_holdout_winner, claim_run).
THEOREM HoldoutIsSpentOnce == Spec => []OneHoldout
<1>1. Inv => OneHoldout
  BY DEF Inv, OneOpened, OpenIsOpened, OneHoldout, Run
<1> QED
  BY <1>1, Invariance, PTL

\* What an experiment recorded stays what its runs say, also when a result of
\* a lost lease comes in later (put_run, _assert_experiment_transition_closure).
THEOREM EvidenceHolds == Spec => []EvidenceIsRuns
<1>1. Inv => EvidenceIsRuns
  BY DEF Inv
<1> QED
  BY <1>1, Invariance, PTL

\* Attempts and their failures agree for every number of attempts (claim_run).
THEOREM AttemptsAgree == Spec => []AttemptsAreCounted
<1>1. Inv => AttemptsAreCounted
  <2> SUFFICES ASSUME Inv, NEW r \in Run
               PROVE  /\ runs[r].status \in {"RUNNING", "COMPLETE"} =>
                           runs[r].failures = runs[r].attempt - 1
                      /\ runs[r].status = "FAILED" =>
                           /\ runs[r].failures = runs[r].attempt
                           /\ runs[r].retryable <=> runs[r].attempt < MaxAttempts
    BY DEF AttemptsAreCounted
  <2>1. RowIsSound(runs[r])
    BY DEF Inv, RunsAreSound
  <2>2. runs[r].retryable <=> runs[r].retryable = TRUE
    BY <2>1 DEF RowIsSound, RunRow
  <2> QED
    BY <2>1, <2>2 DEF RowIsSound
<1> QED
  BY <1>1, Invariance, PTL

\* Results are final, whatever comes in late (put_run).
THEOREM ResultsStay == Spec => ResultsAreFinal
<1> DEFINE Kept == \A r \in Run :
             /\ runs'[r].attempt >= runs[r].attempt
             /\ Done(r) => runs'[r] = runs[r]
             /\ runs[r].status = "FAILED" /\ ~runs[r].retryable => runs'[r] = runs[r]
<1>1. Inv /\ [Next]_vars => [Kept]_vars
  <2> SUFFICES ASSUME Inv, [Next]_vars, NEW r \in Run
               PROVE  /\ runs'[r].attempt >= runs[r].attempt
                      /\ Done(r) => runs'[r] = runs[r]
                      /\ runs[r].status = "FAILED" /\ ~runs[r].retryable => runs'[r] = runs[r]
    OBVIOUS
  <2>1. RowIsSound(runs[r]) /\ Follows(runs[r], runs'[r])
    BY RunsStep DEF RowSteps, Inv, RunsAreSound
  <2>2. ~runs[r].retryable => runs[r].retryable = FALSE
    BY <2>1 DEF RowIsSound, RunRow
  <2> QED
    BY <2>1, <2>2 DEF Follows, Done
<1> QED
  BY <1>1, Invariance, PTL DEF Spec, ResultsAreFinal

\* Every row has its own shape, whatever the processes know of it.
THEOREM ExperimentTyped == Spec => []TypeOK
<1>1. Inv => TypeOK
  BY DEF Inv, ProcessesAreTyped, RunsAreSound, OpenIsOpened, TypeOK
<1> QED
  BY <1>1, Invariance, PTL

-----------------------------------------------------------------------------
(* The store keeps the budget of the holdout. *)

Delta(c) == exps[c].delta["VALIDATION"]

\* A step leaves the experiments alone or writes one record the store accepts.
LEMMA OneRecord ==
  ASSUME Inv, [Next]_vars, exps' # exps
  PROVE  /\ runs' = runs
         /\ \E c \in Candidate : \E value \in Experiment :
              /\ Accepted(c, value)
              /\ exps' = [exps EXCEPT ![c] =
                   [value EXCEPT !.opened = @ \/ value.status = "HOLDOUT_RUNNING"]]
<1>1. \E c \in Candidate : \E value \in Experiment :
        runs' = runs /\ exps' = [exps EXCEPT ![c] = Stored(c, value)]
  <2>1. ASSUME NEW p \in Proc, Create(p) \/ Open(p) \/ Finish(p)
        PROVE  /\ runs' = runs /\ proc[p].of \in Candidate /\ proc[p].exp \in Experiment
               /\ exps' = [exps EXCEPT ![proc[p].of] = Stored(proc[p].of, proc[p].exp)]
    BY <2>1 DEF Create, Open, Finish, Put, Inv, ProcessesAreTyped, Process
  <2>2. ASSUME NEW c \in Candidate, Request(c)
        PROVE  \E value \in Experiment :
                 runs' = runs /\ exps' = [exps EXCEPT ![c] = Stored(c, value)]
    <3>1. [exps[c] EXCEPT !.status = "HOLDOUT_RUNNING", !.opened = TRUE] \in Experiment
      BY DEF Inv, OpenIsOpened, Experiment, Status
    <3> QED
      BY <2>2, <3>1 DEF Request
  <2>3. \/ \E p \in Proc : Create(p) \/ Open(p) \/ Finish(p)
        \/ \E c \in Candidate : Request(c)
    BY DEF Next, Step, Start, Look, List, Claim, Report, Conclude, Crash, Expire, store, vars
  <2> QED
    BY <2>1, <2>2, <2>3
<1>2. PICK c \in Candidate, value \in Experiment :
        runs' = runs /\ exps' = [exps EXCEPT ![c] = Stored(c, value)]
  BY <1>1
<1>3. Stored(c, value) # exps[c]
  BY <1>2 DEF Inv, OpenIsOpened
<1> QED
  BY <1>2, <1>3 DEF Stored

\* A recorded validation result is what the runs say.
LEMMA RecordedDelta ==
  ASSUME Inv, NEW c \in Candidate, Delta(c) # None
  PROVE  Delta(c) = DeltaOf(runs, c, "VALIDATION") /\ Delta(c) \in Int
<1>1. "VALIDATION" \in Partition
  BY DEF Partition
<1>2. exps[c].delta \in [Partition -> Int \cup {None}]
  BY DEF Inv, OpenIsOpened, Experiment
<1> QED
  BY <1>1, <1>2 DEF Inv, EvidenceIsRuns, Delta

\* The three ways a record that is accepted shows in the budget.
LEMMA RecordInBudget ==
  ASSUME Inv, NEW c \in Candidate, NEW value \in Experiment, Accepted(c, value)
  PROVE  LET d == value.delta["VALIDATION"] IN
         \/ /\ value.status \notin {"FAILED", "HOLDOUT_RUNNING"} /\ exps[c].status # "FAILED"
            /\ value.opened = exps[c].opened
            /\ d = Delta(c) \/ (Delta(c) = None /\ d \in Int)
         \/ /\ value.status = "FAILED" /\ exps[c].status # "FAILED"
            /\ value.opened = exps[c].opened /\ d = Delta(c)
         \/ /\ value.status = "HOLDOUT_RUNNING" /\ d = Delta(c)
            /\ \A k \in Candidate :
                 exps[k].status = "VALIDATION_COMPLETE" /\ exps[k].opened = FALSE
            /\ Eligible(c) /\ \A k \in Candidate : Eligible(k) => Before(c, k)
<1>1. /\ <<exps[c].status, value.status>> \in TRANSITIONS
      /\ value.status # "HOLDOUT_RUNNING" => value.opened = exps[c].opened
      /\ Closed(c, value)
  BY DEF Accepted
<1>2. exps[c].status # "FAILED"
  BY <1>1 DEF TRANSITIONS
<1>3. value.status \in {"PENDING", "VALIDATION_RUNNING", "FAILED", "VALIDATION_COMPLETE",
                        "HOLDOUT_RUNNING", "COMPLETE"}
  BY <1>1 DEF TRANSITIONS
<1>4. CASE value.status \in {"PENDING", "VALIDATION_RUNNING", "FAILED"}
  <2>1. value.delta = exps[c].delta
    BY <1>1, <1>4 DEF Closed
  <2> QED
    BY <1>1, <1>2, <1>4, <2>1 DEF Delta
<1>5. CASE value.status \in {"VALIDATION_COMPLETE", "COMPLETE"}
  <2>1. /\ MatrixComplete(value, c, "VALIDATION")
        /\ value.delta["VALIDATION"] = DeltaOf(runs, c, "VALIDATION")
    BY <1>1, <1>5 DEF Closed, Partition
  <2>2. DeltaOf(runs, c, "VALIDATION") \in Int
    BY <2>1, DeltaIsInt DEF MatrixComplete, Inv, Partition
  <2> QED
    BY <1>1, <1>2, <1>5, <2>1, <2>2, RecordedDelta
<1>6. CASE value.status = "HOLDOUT_RUNNING"
  <2>1. value.delta = exps[c].delta /\ HoldoutWinner(c)
    BY <1>1, <1>6 DEF Closed
  <2>2. ASSUME NEW k \in Candidate
        PROVE  exps[k].status = "VALIDATION_COMPLETE" /\ exps[k].opened = FALSE
    BY <2>1 DEF HoldoutWinner, Inv, OpenIsOpened, Experiment
  <2> QED
    BY <1>6, <2>1, <2>2 DEF HoldoutWinner, Delta
<1> QED
  BY <1>3, <1>4, <1>5, <1>6

\* The budget as the rows of the experiments show it.
budgetDelta == [c \in Candidate |-> Delta(c)]
budgetConsumer == IF Consumers = {} THEN None ELSE CHOOSE c \in Consumers : TRUE
budgetFailed == {c \in Candidate : exps[c].status = "FAILED"}

Abstract == INSTANCE HoldoutBudget WITH
  delta <- budgetDelta, consumer <- budgetConsumer, failed <- budgetFailed

LEMMA BudgetStutters ==
  ASSUME exps' = exps
  PROVE  UNCHANGED <<budgetDelta, budgetConsumer, budgetFailed>>
BY DEF budgetDelta, Delta, budgetConsumer, Consumers, budgetFailed

\* The store writes a record: a result is frozen, a candidate fails, or the
\* holdout is opened.
LEMMA BudgetRecord ==
  ASSUME Inv, runs' = runs, NEW c \in Candidate, NEW value \in Experiment, Accepted(c, value),
         exps' = [exps EXCEPT ![c] =
           [value EXCEPT !.opened = @ \/ value.status = "HOLDOUT_RUNNING"]]
  PROVE  [Abstract!HNext]_<<budgetDelta, budgetConsumer, budgetFailed>>
<1> DEFINE d == value.delta["VALIDATION"]
<1>1. exps \in [Candidate -> Experiment]
  BY DEF Inv, OpenIsOpened
<1>2. /\ exps'[c].status = value.status /\ exps'[c].delta = value.delta
      /\ exps'[c].opened = (value.opened \/ value.status = "HOLDOUT_RUNNING")
      /\ \A k \in Candidate \ {c} : exps'[k] = exps[k]
  BY <1>1 DEF Experiment
<1>3. budgetDelta' = [budgetDelta EXCEPT ![c] = d]
  <2>1. \A k \in Candidate : Delta(k)' = IF k = c THEN d ELSE Delta(k)
    BY <1>2 DEF Delta
  <2> HIDE DEF d
  <2> QED
    BY <2>1 DEF budgetDelta
<1>4. budgetFailed' = IF value.status = "FAILED" THEN budgetFailed \cup {c} ELSE budgetFailed \ {c}
  BY <1>2 DEF budgetFailed
<1>5. value.opened = exps[c].opened /\ value.status # "HOLDOUT_RUNNING" => budgetConsumer' = budgetConsumer
  <2> SUFFICES ASSUME value.opened = exps[c].opened, value.status # "HOLDOUT_RUNNING"
               PROVE  budgetConsumer' = budgetConsumer
    OBVIOUS
  <2>1. exps[c].opened \in BOOLEAN
    BY <1>1 DEF Experiment
  <2>2. \A k \in Candidate : exps'[k].opened <=> exps[k].opened
    BY <1>2, <2>1
  <2>3. Consumers' = Consumers
    BY <2>2 DEF Consumers
  <2> QED
    BY <2>3 DEF budgetConsumer
<1>6. \/ /\ value.status \notin {"FAILED", "HOLDOUT_RUNNING"} /\ exps[c].status # "FAILED"
         /\ value.opened = exps[c].opened
         /\ d = Delta(c) \/ (Delta(c) = None /\ d \in Int)
      \/ /\ value.status = "FAILED" /\ exps[c].status # "FAILED"
         /\ value.opened = exps[c].opened /\ d = Delta(c)
      \/ /\ value.status = "HOLDOUT_RUNNING" /\ d = Delta(c)
         /\ \A k \in Candidate :
              exps[k].status = "VALIDATION_COMPLETE" /\ exps[k].opened = FALSE
         /\ Eligible(c) /\ \A k \in Candidate : Eligible(k) => Before(c, k)
  BY RecordInBudget
<1> HIDE DEF d
<1>7. budgetDelta[c] = Delta(c) /\ [budgetDelta EXCEPT ![c] = Delta(c)] = budgetDelta
  BY DEF budgetDelta
<1>8. budgetDelta'[c] = d
  BY <1>3 DEF budgetDelta
<1>9. CASE /\ value.status \notin {"FAILED", "HOLDOUT_RUNNING"} /\ exps[c].status # "FAILED"
           /\ value.opened = exps[c].opened
           /\ d = Delta(c) \/ (Delta(c) = None /\ d \in Int)
  <2>1. budgetFailed' = budgetFailed /\ c \notin budgetFailed
    BY <1>4, <1>9 DEF budgetFailed
  <2>2. budgetConsumer' = budgetConsumer
    BY <1>5, <1>9
  <2>3. CASE d = Delta(c)
    BY <1>3, <1>7, <2>1, <2>2, <2>3
  <2>4. CASE Delta(c) = None /\ d \in Int
    <3>1. Abstract!Freeze(c)
      BY <1>3, <1>7, <1>8, <2>1, <2>2, <2>4 DEF Abstract!Freeze
    <3> QED
      BY <3>1 DEF Abstract!HNext
  <2> QED
    BY <1>9, <2>3, <2>4
<1>10. CASE /\ value.status = "FAILED" /\ exps[c].status # "FAILED"
            /\ value.opened = exps[c].opened /\ d = Delta(c)
  <2>1. budgetFailed' = budgetFailed \cup {c} /\ c \notin budgetFailed
    BY <1>4, <1>10 DEF budgetFailed
  <2>2. budgetConsumer' = budgetConsumer
    BY <1>5, <1>10
  <2>3. Abstract!Fail(c)
    BY <1>3, <1>7, <1>10, <2>1, <2>2 DEF Abstract!Fail
  <2> QED
    BY <2>3 DEF Abstract!HNext
<1>11. CASE /\ value.status = "HOLDOUT_RUNNING" /\ d = Delta(c)
            /\ \A k \in Candidate :
                 exps[k].status = "VALIDATION_COMPLETE" /\ exps[k].opened = FALSE
            /\ Eligible(c) /\ \A k \in Candidate : Eligible(k) => Before(c, k)
  <2>1. budgetFailed = {} /\ budgetFailed' = budgetFailed
    BY <1>4, <1>11 DEF budgetFailed
  <2>2. Consumers = {} /\ Consumers' = {c}
    BY <1>2, <1>11 DEF Consumers
  <2>3. budgetConsumer = None /\ budgetConsumer' = c
    BY <2>2 DEF budgetConsumer
  <2>4. ASSUME NEW k \in Candidate
        PROVE  /\ budgetDelta[k] = Delta(k) /\ Delta(k) # None
               /\ Delta(k) = DeltaOf(runs, k, "VALIDATION")
    <3>1. Delta(k) # None
      BY <1>11 DEF Inv, ResultsAreRecorded, Validated, Delta
    <3> QED
      BY <3>1, RecordedDelta DEF budgetDelta
  <2>5. \A k \in Candidate : Abstract!Eligible(k) <=> Eligible(k)
    BY <2>4 DEF Abstract!Eligible, Eligible
  <2>6. \A k \in Candidate : Abstract!Better(c, k) <=> Before(c, k)
    BY <2>4 DEF Abstract!Better, Before, Delta
  <2>7. Abstract!OpenHoldout(c)
    BY <1>3, <1>7, <1>11, <2>1, <2>3, <2>4, <2>5, <2>6 DEF Abstract!OpenHoldout
  <2> QED
    BY <2>7 DEF Abstract!HNext
<1> QED
  BY <1>6, <1>9, <1>10, <1>11

\* The store and its clients keep the budget of the holdout, for any number of
\* processes and candidates: results are frozen before it is opened, for the
\* best candidate, once, and not after a failure.
THEOREM ExperimentImplementsBudget == Spec => ImplementsBudget
<1>1. Init => Budget!HInit
  <2> SUFFICES ASSUME Init PROVE Budget!HInit
    OBVIOUS
  <2>1. \A c \in Candidate : exps[c] = NewExperiment /\ "VALIDATION" \in Partition
    BY DEF Init, Partition
  <2>2. \A c \in Candidate : /\ exps[c].delta["VALIDATION"] = None
                             /\ exps[c].opened = FALSE /\ exps[c].status # "FAILED"
    BY <2>1 DEF NewExperiment
  <2> QED
    BY <2>2 DEF Budget!HInit, Consumers
<1>2. Inv /\ [Next]_vars => [Budget!HNext]_Budget!hVars
  <2> SUFFICES ASSUME Inv, [Next]_vars PROVE [Budget!HNext]_Budget!hVars
    OBVIOUS
  <2>1. [Abstract!HNext]_<<budgetDelta, budgetConsumer, budgetFailed>>
    <3>1. CASE exps' = exps
      BY <3>1, BudgetStutters
    <3>2. CASE exps' # exps
      BY <3>2, OneRecord, BudgetRecord
    <3> QED
      BY <3>1, <3>2
  <2> QED
    BY <2>1
    DEF Abstract!HNext, Budget!HNext, Budget!hVars, budgetDelta, Delta, budgetConsumer,
        budgetFailed, Abstract!Freeze, Budget!Freeze, Abstract!OpenHoldout,
        Budget!OpenHoldout, Abstract!Fail, Budget!Fail, Abstract!Eligible,
        Budget!Eligible, Abstract!Better, Budget!Better
<1> QED
  BY <1>1, <1>2, Invariance, PTL DEF Spec, ImplementsBudget, Budget!HSpec
================================================================================
