----------------------------- MODULE DarwinWeights -----------------------------
(***************************************************************************)
(* The usage weights of one rank scope: operators who turn matured scores  *)
(* into batches of weights, and the daily cycles that pin a snapshot of    *)
(* the weights when they start and are accepted on that snapshot only.     *)
(*                                                                         *)
(* SQLite lets one connection write at a time.  A publication reads its    *)
(* evaluation windows before its first write, takes the write lock with    *)
(* it, stamps its receipt by the server's clock and commits later.         *)
(*                                                                         *)
(* Instants are days: now = d until the close of day d, the as_of of its   *)
(* cycle.  A weight is named by the batch that made it, 0 being the cold   *)
(* start; the number itself is left out.  So are AGENT_FAILURE revisions,  *)
(* which nothing in src/ writes, and the 1260 sessions a window may span.  *)
(***************************************************************************)
EXTENDS Integers, Sequences, FiniteSets, FiniteSetsExt

CONSTANTS
    Publisher,    \* operators of the outcome update
    Revision,     \* roster revisions that share the tracks of the scope
    Member,       \* the usage tracks of the scope
    LastDay,      \* bound: the days are 1 .. LastDay
    Asked,        \* bound: the updates operators run, as <<operation, cutoff>>
    Slot,         \* the days that close an update slot
    CycleDay,     \* bound: the days a cycle is run for
    WindowSize,   \* WINDOW_SIZE
    PeerMinimum,  \* PEER_MINIMUMS of the scope; 0 if it is not ranked by peers
    Score,        \* bound: the scores a track may get, in quarters
    MaxLabels,    \* bound on the labels
    MaxBatches,   \* bound on the batches
    None

Day == 1 .. LastDay
Index == 1 .. MaxLabels

\* A batch of weights: previous is what it builds on, moved what it changes.
BatchRecord ==
    [cutoff : Slot, window : [Member -> SUBSET Index], moved : SUBSET Member,
     previous : [Member -> 0 .. MaxBatches], stamp : Day]

\* A refresh or a publication in progress.
JobRecord ==
    [rev : Revision, cutoff : Day, op : {"REFRESH", "PUBLISH"},
     window : [Member -> SUBSET Index], batch : {None} \cup BatchRecord]

ASSUME WeightsAssumption ==
    /\ LastDay \in Nat \ {0} /\ MaxLabels \in Nat /\ MaxBatches \in Nat
    /\ WindowSize \in Nat \ {0} /\ PeerMinimum \in Nat
    /\ Asked \subseteq {"REFRESH", "PUBLISH"} \X Day
    /\ Slot \subseteq Day /\ CycleDay \subseteq Day
    /\ \A m \in Member : Score[m] \subseteq Int
    /\ IsFiniteSet(Member) /\ None \notin Publisher \cup BatchRecord \cup JobRecord

VARIABLES
    now,        \* the day in progress
    label,      \* agent_outcome_labels_v2, by outcome_sequence
    evaluated,  \* darwinian_v2_evaluation_window_checkpoints
    batches,    \* batches published, with their weights, checkpoints and
                \* receipts, in the order of their commits
    lock,       \* who holds the database's write lock
    job,        \* the refreshes and publications in progress
    cycle       \* the daily cycles, by day

vars == <<now, label, evaluated, batches, lock, job, cycle>>

-------------------------------------------------------------------------------
(* Evaluation windows. *)

Eligible(m, c) ==
    {i \in DOMAIN label : label[i].of = m /\ label[i].due <= c /\ label[i].matured <= c}

Later(i, k) == label[i].due < label[k].due \/ (label[i].due = label[k].due /\ i < k)

\* The latest WindowSize scores of m that were due and mature at the cutoff.
Window(m, c) ==
    {i \in Eligible(m, c) :
        Cardinality({k \in Eligible(m, c) : Later(i, k)}) < WindowSize}

\* The tracks whose window is full; only they have a band.
Full(w) == {m \in Member : Cardinality(w[m]) = WindowSize}

Total(w, m) == MapThenSumSet(LAMBDA i : label[i].score, w[m])

SelfBand(w, m) ==
    LET t == Total(w, m) IN
    IF t >= WindowSize THEN "Q1" ELSE IF t >= 0 THEN "Q2"
    ELSE IF t > -WindowSize THEN "Q3" ELSE "Q4"

\* The quartile of the midrank; three peers and one great tie are special.
PeerBand(w, m) ==
    LET n == Cardinality(Full(w))
        above == Cardinality({k \in Full(w) : Total(w, k) > Total(w, m)})
        tied == Cardinality({k \in Full(w) : Total(w, k) = Total(w, m)})
        twice == 2 * above + tied - 1    \* twice the midrank, from zero
    IN  IF tied = n THEN "Q2"
        ELSE IF n = 3 THEN (IF twice = 0 THEN "Q1" ELSE IF twice = 4 THEN "Q4" ELSE "Q2")
        ELSE <<"Q1", "Q2", "Q3", "Q4">>[(twice * 2) \div n + 1]

Band(w, m) ==
    IF m \notin Full(w) \/ Cardinality(Full(w)) < PeerMinimum THEN None
    ELSE IF PeerMinimum = 0 THEN SelfBand(w, m) ELSE PeerBand(w, m)

\* The checkpoints a job writes, one for each track.
Rows(j) ==
    {[of |-> m, cutoff |-> j.cutoff, window |-> j.window[m], rev |-> j.rev,
      band |-> Band(j.window, m)] : m \in Member}

\* A checkpoint is identified by track, cutoff and window, yet it holds the
\* revision and the band too: other ones are refused as a collision.
Collides(j) ==
    \E old \in evaluated, new \in Rows(j) :
        /\ old.of = new.of /\ old.cutoff = new.cutoff /\ old.window = new.window
        /\ old # new

-------------------------------------------------------------------------------
(* Weights. *)

MaxSeq(w) == IF w = {} THEN 0 ELSE Max(w)

\* The batch whose weight of m counts at cutoff c, among those in known: the
\* latest that is effective, and the latest committed of these.
Current(m, c, known) ==
    LET made == {i \in known : m \in batches[i].moved /\ batches[i].cutoff <= c}
        newest(i) == \A k \in made :
                        batches[k].cutoff < batches[i].cutoff
                        \/ (batches[k].cutoff = batches[i].cutoff /\ k <= i)
    IN  IF made = {} THEN 0 ELSE CHOOSE i \in made : newest(i)

Published == DOMAIN batches

Weights_AnyReceipt(d) == [m \in Member |-> Current(m, d, Published)]

\* The scope's weights as of day d: only receipts of that day or before count.
Weights(d) ==
    [m \in Member |-> Current(m, d, {i \in Published : batches[i].stamp <= d})]

Consumed_OldestRow(m) ==
    LET last == {i \in Published : \A k \in Published :
                    batches[k].cutoff < batches[i].cutoff
                    \/ (batches[k].cutoff = batches[i].cutoff /\ k >= i)}
    IN  IF last = {} THEN 0 ELSE MaxSeq(batches[CHOOSE i \in last : TRUE].window[m])

\* The checkpoints of the previous update: those of the latest cutoff.
Consumed(m) ==
    LET last == {i \in Published : \A k \in Published :
                    batches[k].cutoff < batches[i].cutoff
                    \/ (batches[k].cutoff = batches[i].cutoff /\ k <= i)}
    IN  IF last = {} THEN 0 ELSE MaxSeq(batches[CHOOSE i \in last : TRUE].window[m])

\* The weights a publication moves: every track with a full window, if the
\* scope has peers enough and any track a score not consumed before.
Moved(w) ==
    IF Cardinality(Full(w)) >= PeerMinimum /\ \E m \in Member : MaxSeq(w[m]) > Consumed(m)
    THEN Full(w) ELSE {}

\* The event of a job: its slot and its windows.
SameEvent(b, j) == b.cutoff = j.cutoff /\ b.window = j.window

-------------------------------------------------------------------------------
Init ==
    /\ now = 1
    /\ label = <<>> /\ evaluated = {} /\ batches = <<>>
    /\ lock = None
    /\ job = [p \in Publisher |-> None]
    /\ cycle = [d \in CycleDay |-> [pc |-> "idle", seen |-> None]]

\* An outcome update matures one more score, in a transaction of its own.  The
\* source dates it, so it may be mature at a cutoff that is long past.
Mature(m, due, matured, score) ==
    /\ lock = None
    /\ Len(label) < MaxLabels
    /\ due <= matured /\ matured < now
    /\ \A i \in DOMAIN label : <<label[i].of, label[i].due>> # <<m, due>>
    /\ label' = Append(label, [of |-> m, due |-> due, matured |-> matured, score |-> score])
    /\ UNCHANGED <<now, evaluated, batches, lock, job, cycle>>

\* refresh_evaluation_windows reads all windows, outside a transaction when
\* the update had nothing to mature.  Only a slot's close is published at.
Read(p, r, op, c) ==
    /\ job[p] = None
    /\ c <= now
    /\ op = "PUBLISH" => c \in Slot
    /\ job' = [job EXCEPT ![p] =
                 [rev |-> r, cutoff |-> c, op |-> op,
                  window |-> [m \in Member |-> Window(m, c)], batch |-> None]]
    /\ UNCHANGED <<now, label, evaluated, batches, lock, cycle>>

\* The job is at its first write, for which it needs the lock.
AtWrite(p) == job[p] # None /\ lock = None

Leave(p) == job' = [job EXCEPT ![p] = None]

\* A checkpoint collides: the job raises and rolls back.
Collide(p) ==
    /\ AtWrite(p)
    /\ Collides(job[p])
    /\ Leave(p)
    /\ UNCHANGED <<now, label, evaluated, batches, lock, cycle>>

\* A refresh commits its checkpoints.  So does a publication whose event is
\* published already: it answers with that batch.
Refresh(p) ==
    /\ AtWrite(p)
    /\ ~Collides(job[p])
    /\ job[p].op = "PUBLISH" => \E i \in Published : SameEvent(batches[i], job[p])
    /\ evaluated' = evaluated \cup Rows(job[p])
    /\ Leave(p)
    /\ UNCHANGED <<now, label, batches, lock, cycle>>

PreviousAt_InSnapshot(c) == Weights(c)

\* What the batch of a job builds on: the weights at its cutoff, whatever the
\* time of their receipts.
PreviousAt(c) == [m \in Member |-> Current(m, c, Published)]

\* A publication holds the lock: it reads the weights and what was consumed,
\* decides the batch and stamps its receipt.
Prepare(p) ==
    LET j == job[p] IN
    /\ AtWrite(p)
    /\ Len(batches) < MaxBatches
    /\ ~Collides(j)
    /\ j.op = "PUBLISH"
    /\ \A i \in Published : ~SameEvent(batches[i], j)
    /\ lock' = p
    /\ job' = [job EXCEPT ![p].batch =
                 [cutoff |-> j.cutoff, window |-> j.window, moved |-> Moved(j.window),
                  previous |-> PreviousAt(j.cutoff), stamp |-> now]]
    /\ UNCHANGED <<now, label, evaluated, batches, cycle>>

\* Its commit: checkpoints, batch, weights and receipt at once.
Commit(p) ==
    /\ lock = p
    /\ evaluated' = evaluated \cup Rows(job[p])
    /\ batches' = Append(batches, job[p].batch)
    /\ lock' = None
    /\ Leave(p)
    /\ UNCHANGED <<now, label, cycle>>

Die_KeepsLock(p) ==
    /\ job[p] # None
    /\ Leave(p)
    /\ UNCHANGED <<now, label, evaluated, batches, lock, cycle>>

\* The process dies, or times out on the lock; SQLite rolls back.
Die(p) ==
    /\ job[p] # None
    /\ lock' = IF lock = p THEN None ELSE lock
    /\ Leave(p)
    /\ UNCHANGED <<now, label, evaluated, batches, cycle>>

-------------------------------------------------------------------------------
(* Daily cycles. *)

InState(pc) == {d \in CycleDay : cycle[d].pc = pc}
Accepted == InState("accepted")
Running == InState("running")

Snapshot_AnyDay(d) == [weights |-> Weights(d), earlier |-> Accepted \ {d}]

\* get_production_weight_snapshot: weights, and the reliability record, which
\* counts the acceptances of earlier days.
Snapshot(d) == [weights |-> Weights(d), earlier |-> {e \in Accepted : e < d}]

\* prepare_production_variant pins a snapshot for the cycle of day d.
PrepareCycle(d) ==
    /\ lock = None /\ d <= now /\ cycle[d].pc = "idle"
    /\ cycle' = [cycle EXCEPT ![d] = [pc |-> "running", seen |-> Snapshot(d)]]
    /\ UNCHANGED <<now, label, evaluated, batches, lock, job>>

\* append_accepted_cycle: the server's snapshot is computed again, and the
\* cycle is refused if it saw another.
AcceptCycle(d) ==
    /\ lock = None /\ d \in Running
    /\ cycle' = [cycle EXCEPT ![d] =
         [pc |-> IF @.seen = Snapshot(d) THEN "accepted" ELSE "refused", seen |-> None]]
    /\ UNCHANGED <<now, label, evaluated, batches, lock, job>>

Tick ==
    /\ now < LastDay
    /\ now' = now + 1
    /\ UNCHANGED <<label, evaluated, batches, lock, job, cycle>>

Next ==
    \/ Tick
    \/ \E m \in Member, due, matured \in Day : \E s \in Score[m] : Mature(m, due, matured, s)
    \/ \E p \in Publisher :
         \/ \E r \in Revision, q \in Asked : Read(p, r, q[1], q[2])
         \/ Collide(p) \/ Refresh(p) \/ Prepare(p) \/ Commit(p) \/ Die(p)
    \/ \E d \in CycleDay : PrepareCycle(d) \/ AcceptCycle(d)

Spec == Init /\ [][Next]_vars

-------------------------------------------------------------------------------
(* Correctness. *)

SnapshotRecord == [weights : [Member -> 0 .. MaxBatches], earlier : SUBSET CycleDay]

\* Every table holds rows of its own shape, and the lock is held by nobody or
\* by a publication that has decided its batch.
TypeOK ==
    /\ now \in 1 .. LastDay
    /\ label \in Seq([of : Member, due : Day, matured : Day, score : UNION {Score[m] : m \in Member}])
    /\ Len(label) <= MaxLabels
    /\ evaluated \subseteq [of : Member, cutoff : Day, window : SUBSET Index,
                            rev : Revision, band : {"Q1", "Q2", "Q3", "Q4", None}]
    /\ batches \in Seq(BatchRecord) /\ Len(batches) <= MaxBatches
    /\ job \in [Publisher -> {None} \cup JobRecord]
    /\ lock \in Publisher \cup {None}
    /\ \A p \in Publisher : lock = p <=> (job[p] # None /\ job[p].batch # None)
    /\ cycle \in [CycleDay -> [pc : {"idle", "running", "accepted", "refused"},
                             seen : {None} \cup SnapshotRecord]]

\* Two updates of a weight start from the same record only if the second was
\* published for an earlier slot than the first: among updates published in
\* the order of their slots none is lost, whatever two publishers read before
\* they had the lock.
ForksAreBackdated ==
    \A i, k \in Published, m \in Member :
        /\ i < k
        /\ m \in batches[i].moved \cap batches[k].moved
        /\ batches[i].previous[m] = batches[k].previous[m]
        => batches[k].cutoff < batches[i].cutoff

\* Up to batch n, slots are published in order and none on windows older than
\* those of a batch before.
InOrder(n) ==
    \A i, k \in 1 .. n : i < k =>
        /\ batches[i].cutoff <= batches[k].cutoff
        /\ \A m \in Member : MaxSeq(batches[i].window[m]) <= MaxSeq(batches[k].window[m])

\* A batch moves weights only on a score no batch has used before, so a window
\* that changed otherwise, a retry or a second publisher never applies the
\* multiplier of a score again, as long as publications come in order.
ScoreMovesOnce ==
    \A k \in Published :
        batches[k].moved # {} /\ InOrder(k) =>
            \E m \in Member : \E x \in batches[k].window[m] :
                \A i \in 1 .. k - 1 : x \notin batches[i].window[m]

\* A multiplier is applied for new scores only, in whatever order publications
\* come: an update that finds none leaves the weights alone (its disposition is
\* "NO_NEW_OUTCOME").
NoScoreReapplied ==
    \A k \in Published :
        batches[k].moved # {} =>
            \E m \in Member : \E x \in batches[k].window[m] :
                \A i \in 1 .. k - 1 : x \notin batches[i].window[m]

\* The weights as of a closed day are settled: no publication changes them but
\* one that was stamped before the close and is still to commit.
PastIsSettled ==
    [][\A d \in 1 .. now - 1 :
         (\A p \in Publisher : lock = p => job[p].batch.stamp > d)
            => Weights(d)' = Weights(d)]_vars

\* What a running cycle pinned is taken from it by two events only: a batch
\* whose receipt is stamped by the close of its day, or the acceptance of the
\* cycle of an earlier day.
PinIsLostForCause ==
    [][\A d \in Running :
         Snapshot(d)' # Snapshot(d)
            => \/ \E e \in Accepted' \ Accepted : e < d
               \/ /\ Len(batches') > Len(batches)
                  /\ batches'[Len(batches')].stamp <= d
                  /\ batches'[Len(batches')].cutoff <= d]_vars
===============================================================================
