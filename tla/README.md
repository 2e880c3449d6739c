# TLA+ specifications of MOSAIC-CE

MOSAIC-CE is a multi-agent research system for the A-share market: a TypeScript
front end (`mosaic-ts/`) runs a graph of LLM agents and drives a Python sidecar
(`mosaic/`) over line-delimited JSON-RPC. The sidecar keeps data, scores,
experiments and a paper-trading account in SQLite; the front end keeps the
prompt releases in files. What is hard in the system is not its numbers but who
writes what when: operators, daily cycles, optimizer runs and dashboards are
separate processes over the same files and databases, and any of them may be
killed, time out or be retried.

This directory holds TLA+ models of the parts where that matters, TLC runs on
small instances, and proofs checked by TLAPS that hold for every instance. Paths
below are relative to the repository. `PROJECT.json` maps every definition to
the lines it models.

Contents: 1 the system and its components, 2 the modules, 3 the runs,
4 fairness, 5 the proofs, 6 what the models showed about the code, 7 limits,
8 plan.

## 1. The system and its components

```
 operators (CLI) ----> release registry (files + lock)  <---- daily cycle reads the active prompts
 optimizer CLI ----\
 daily cycle -------+--> BridgeClient ==stdin/stdout==> server loop --> handlers --> SQLite stores
 dashboard (TUI) --/      (one sidecar per front-end process)            (shared by all sidecars)
```

Each front-end process owns one sidecar. So everything behind a bridge is
sequential for its own front end and concurrent with all the others: the only
common state is on disk.

### 1.1 Modelled

**Prompt release registry and manager**
(`mosaic-ts/src/autoresearch/release_registry.ts`, `prompt_release_manager.ts`,
`agents/prompts/prompt_release_contract.ts`).
*State*: one manifest per release (`staged`, `canary`, `active`, `rolled_back`),
the active pointer, the canary pointer, an append-only audit, a lock file.
*Operations*: stage, provision a baseline, start a canary, activate, roll back.
*Interactions*: several operators; the manager reads a manifest without the
lock, derives the next one from it and hands it to the registry, which takes the
lock and admits or refuses it. Runtime readers follow the pointers.
*Hard*: the stale read; four files replaced one after another; errors and kills
between them; retries that must repair rather than repeat.
*Correct when*: the pointers name what the manifests say, the active releases are
one chain a rollback can walk back, the audit has a row for exactly what every
release has gone through, a success is a complete one, and nothing that was rolled back is served again.

**Paper-trading account** (`mosaic/paper_trading/engine.py`, `rules.py`,
`mosaic/bridge/handlers/paper.py`), *partly*.
*State*: cash and commissions, quantity and sellable quantity per ticker, the
date of the last T+1 unlock, the trades with their intent keys.
*Operations*: buy, sell, snapshot and other reads, reset; every one passes the
day barrier that makes yesterday's purchases sellable.
*Interactions*: one SQLite file for the sidecars of all front ends; orders carry
an idempotency key and the hash of the snapshot they were sized on.
*Hard*: two look-ups with a price fetch between them; the barrier of a read is
two transactions; retries after the state changed; orders racing on a snapshot;
callers with different dates.
*Correct when*: nobody owes cash or shares, one fill per intent and per
snapshot, a retry gets its fill back, the account is the sum of its trades, and
shares bought on a day are not sold on it.
Left out: users, passwords and the session file; average cost and realised
profit (they decide nothing); the sizing of `suggest_order_from_signal`.

**Daily cycle: execution of the portfolio target**
(`mosaic-ts/src/cli/commands/daily-cycle.ts`), *partly*.
*State*: the action it is at, the snapshot hash it last saw, the report.
*Operations*: snapshot, suggest, order, snapshot again, next action; stop when
stale.
*Interactions*: the account above, through the bridge, while somebody else trades.
*Hard*: the time between freezing a target and filling it; lost answers; reads
that unlock in a second transaction.
*Correct when*: the report is true and nothing is filled on an account that is
not the one the target was frozen on.
The rest of the command (options, the graph run, rendering) is left out.

**JSON-RPC bridge** (`mosaic-ts/src/bridge/client.ts`, `mosaic/bridge/server.py`).
*State*: the pending map, timers and promises of the client, two pipes, the
request the server is at.
*Operations*: start, call, close; line, timer, write-error, spawn-error and exit
events; the server's read, dispatch and respond.
*Hard*: five paths settle a call and may race; the exit event overtakes answers
that are still in the pipe; a request that timed out is executed all the same.
*Correct when*: every promise is settled, once; nobody waits for a dead server; a
request is executed at most once and answered only if it was.

**Prompt optimizer: experiment store and runner**
(`mosaic/scorecard/prompt_optimizer_store.py`,
`mosaic-ts/src/autoresearch/prompt_experiment_runner.ts`,
`prompt_optimizer_shadow_runner.ts`), *partly*.
*State*: the experiments of a family (status, runs, deltas, the opening of the
holdout), the runs (attempt, lease, failures, score), and per process its place
in the plan with what it has read.
*Operations*: put an experiment, claim a run, put a run, list; the plan that
creates, opens, lists, claims, reports, concludes and finishes for each candidate
and then for the holdout of the winner.
*Interactions*: any number of runner processes over one store; every store call
is one `BEGIN IMMEDIATE` transaction, everything between two calls may be stale.
*Hard*: leases that run out while the work goes on; late results; a killed last
attempt; two processes that each finish a partition; retries.
*Correct when*: the holdout is opened once and for the winner, recorded evidence
stays what the runs say, attempts and failures agree, and the family is decided.
Left out: candidates, splits, training projections and decisions, which are
insert-once records checked by their hashes.

**Scorecard and outcome scheduler** (`mosaic/scorecard/outcome_scheduler.py`,
`store.py`, the daily-cycle handlers in `mosaic/bridge/handlers/darwinian.py`),
*partly*.
*State*: per trading day and roster revision a schedule plan with its slots, the
decisions on events, the frozen opportunity sets, failures, stage skips, the
eligibility of each sample (an audit of revisions of which the latest counts),
accepted outputs, the seal of the date, observations and labels.
*Operations*: plan a day, freeze an opportunity set, skip an empty one, record
that one is unavailable, accept and seal a cycle, mature due outcomes.
*Interactions*: daily cycles and operators are processes over one database;
every write is one transaction, what a process read before it may be stale; a
cycle that finds a plan takes over its graph run id.
*Hard*: two cycles for one day; freezes and skips that are committed hours before
the acceptance; an acceptance that is repeated; two operators who judge from the
same reads; a sample that is never judged because the update raises.
*Correct when*: a sample is scheduled once, a sealed day is whole, every sample is
judged on the very set the accepted work was given, a judgement has its
observation and label, and every sample of a sealed day is judged in the end.
Left out: recommendations and their prices, component calibration, the
disposition AGENT_FAILURE (no code under `mosaic/` writes it for a scheduled
production sample), the content of sets and outputs.

**Darwinian weights** (`mosaic/scorecard/darwinian_updates.py`,
`darwinian_v2.py`), *partly*.
*State*: labels in the order of their sequence, window checkpoints, batches of
weights with receipts, and per cycle the snapshot it pinned.
*Operations*: mature a score, refresh the windows, publish a batch, take a
snapshot of the weights as of a day, accept a cycle on its snapshot.
*Interactions*: the labels come from the ledger above; publishers read windows
before they hold SQLite's write lock and everything else after it; a cycle is
accepted hours after it pinned the weights.
*Hard*: publications that rest on older windows than the last one, late scores
for slots long past, receipts that make history visible or not.
*Correct when*: no update is lost, no score moves weights twice, a closed day keeps
its weights, and a cycle loses its snapshot only for a cause.
Left out: the weight as a number (a multiplier of the previous one, clamped),
utilities, the registration of rosters, AGENT_FAILURE and the lookback of 1260
sessions.

### 1.2 Not modelled

| component | state and operations | why not (yet) |
|---|---|---|
| Canary SLO journal (`prompt_release_canary_slo.ts`) | append-only events under a lock file, read again to build the SLO artifact | planned; a crash can leave a partial line and an orphaned lock |
| Knot Gate D authority (`knot_gate_d_*.ts`) | walks the lineage with unlocked reads and authorises or freezes a transition | planned; in ReleaseRegistry it is a refusal before the lock |
| Promotion policy (`prompt_promotion_policy.ts`) | pure gates and series decision over measured deltas | planned as operators |
| Tool capability ledger (`bridge/tool_capabilities.py`) | SQLite: bundles, capabilities, events, tool uses; prepare, issue, call, terminate | planned; 7,000 lines, mostly payload validation |
| Other bridge handlers | none of their own | thin wrappers that validate parameters |
| Daily-cycle graph and agents | graph state of one run | a fixed chain of stages; content is LLM output, the runtime a library |
| Serial LLM gate (`runtime/serial_llm.ts`) | the tail of a promise chain | a dozen lines, its unit tests reach it |
| Component calibration, signals (`mosaic/scorecard/`) | tables of scored signals and calibrations | numeric; insert-once records |
| Data flows, caches, archives (`mosaic/dataflows/`) | vendor responses, files, caches | I/O and formats |
| qlib collectors | - | vendored |
| Backtest | - | a driver of the qlib library |
| Janus, Prism, MiroFish | run tables | numeric weighting, read-only views, simulation |
| Autoresearch git operations | a git repository | calls of git; the mutation loop is retired in the code |
| Report knowledge engine (`mosaic/rke/`) | registries in files | one command writes them; validation of documents |
| Command line and TUI | - | option parsing and rendering |

The last rows are most of the code by lines: `mosaic/rke/` and `mosaic/dataflows/`
are some 145,000 of the 209,000 lines of the
implementation, and have no state that two processes or two steps could get
wrong. The map therefore covers a small share of all lines, and a large one of
the lines that decide who writes what when.

## 2. The modules

| module | what it is |
|---|---|
| `ReleaseLifecycle` | abstract: one atomic step per release operation |
| `ReleaseRegistry` | the four files, the lock and the clients; implements `ReleaseLifecycle` (`Promise`) |
| `PaperBook` | the transactions of the engine as functions from book to book, and what one book must satisfy |
| `PaperAccount` | processes over one `PaperBook` |
| `PaperTarget` | one daily cycle and a stranger over one `PaperBook` |
| `RpcService` | abstract: at most one execution, no answer without one |
| `Bridge` | client, pipes, server; implements `RpcService` (`Service`) |
| `HoldoutBudget` | abstract: what a family promises about its holdout |
| `PromptExperiment` | store and runner processes; implements `HoldoutBudget` (`Budget`) |
| `SampleLife` | abstract: the lives a scheduled sample can have |
| `OutcomeLedger` | daily cycles and operators over the outcome tables; implements `SampleLife` for every sample (`Promise`) |
| `DarwinWeights` | publishers, windows, batches and the cycles that pin the weights |
| `MC...` | the constants of the runs and the symmetry sets |
| `..._proofs` | theorems about the module of that name; `PaperTarget_proofs` takes the lemmas of `PaperAccount_proofs` about one book, `ReleaseRegistry_proofs` those of `ReleaseLifecycle_proofs` about the atomic life cycle |

Definitions whose name ends in `_Something` are not part of a specification:
each is a plausible wrong version of the definition that follows it (a dropped
guard, a missing reset), kept to show that the property beside it would notice.

**ReleaseRegistry.** `manifest`, `pointer`, `canary`, `audit` are the files,
`lock` is `.release.lock` (`"free"`, a client, or `"orphan"` after a kill), and
`job[c]` is what client `c` has read and decided. `Stage`, `Provision`,
`StartCanary`, `Activate`, `Rollback` are the manager's unlocked half; they build
the next manifest from what is there *now*, and `Admit`, later, re-reads
everything under the lock, decides which files must be replaced (`Writes`) and
takes the lock. `WriteManifest`, `WriteCanary`, `WritePointer`, `WriteAudit`
replace one file each, in the order of the code. `IoError` is a throwing write
(the `finally` frees the lock), `Kill` leaves the lock. All timestamps and
measurements an attempt adds are one tag, so the code's JSON equality is equality
of records. Gate D, the SLO rebuild and git checks can only refuse before the
lock: `GiveUp`.

**PaperBook / PaperAccount.** A book is the rows of one user. `Verdict` is the
body of the transaction in the order of its checks (barrier, intent, snapshot,
money or shares) and `Settled` its effect. `Submit` is buy or sell up to its
transaction (first intent look-up, then a price), `Commit` the transaction.
`BeginRead` compares the date in autocommit, `Unlock` is the UPDATE that does not
look again, `Read` takes the snapshot; between any two of them anybody may run.
`Midnight` moves the wall clock, `Given` are the dates callers pass; without one
the barrier uses the clock's date at the moment it looks.

**PaperTarget.** Every read of the run is in three steps, as in PaperAccount:
`BeginRead` compares the date, `Unlock` unlocks without looking again, and then the
rows are read: by `Start`, the snapshot the target is frozen on; by `Look`, the
snapshot after a fill; by `Plan` and then `Size` or `NothingToOrder`, since
`suggest_order_from_signal` passes the barrier twice, by itself and in
`get_account`. `PlanFails` and `LookFails` are the same calls failing at any point.
`Send`, `SendFails` and `SendTimesOut` are the order with its three outcomes (the
last is filled but answered with an error); the barrier of an order is inside its
transaction. `Strange` is any order of somebody else, `StrangeRead` and
`StrangeUnlock` the two halves of the barrier of somebody else's read, the second
of which may come on the next day (`pending`).

**Bridge.** Client actions are Node callbacks and run to their end. A call whose
write finds no pipe becomes `broken` and gets its error later (`WriteError`).
The server is `Take`, `Execute`, `Respond`: a request is executed before its
answer is written, and `Die` may fall between. `Garbage` is a line on stdout that
is no JSON, `Hang` a handler that never returns, `spawn` a command that cannot be
run. `close()` ends stdin and awaits the exit.

**PromptExperiment.** `Stored(c, value)` is `put_experiment`: a repeated record is
answered with the stored one, anything else must be a transition whose evidence
is closed (`Closed`, `MatrixComplete`, `HoldoutWinner`) or is refused. `Claim`,
`Report` and `Expire` are the lease protocol: a claim is for an attempt, and
`MayPut` accepts a result in its lease and for its attempt only. `Look`, `Create`,
`Open`, `List`, `Conclude`, `Finish` are the runner; what a process knows
(`proc[p].exp`, `left`, `claims`) is from the moment it read it. `Request` is any
other client of the bridge that asks for a holdout. Sums of deltas stand for
means: all partitions have the same number of pairs.

**OutcomeLedger.** A sample is an agent with a trading day, or with an event for
the agents that wait for one. `DraftPlan` is what `prepare_outcome_schedule_plan`
reads, `WritePlan` its transaction, refused (`Inserts`) where the tables are
UNIQUE; `AdoptPlan` takes over a plan that is there. `Freeze`, `StageSkip` and
`Unavailable` are transactions of their own; `cycle[p].view` is what the process
was given, and `Accept` puts it, as the work of that process, into `output`
together with the PENDING eligibility and the seal. `ReadPending` is the walk of
`materialize_due_outcomes` up to its first transaction, `CommitBatch` that
transaction; between the two anybody may commit. `Report` is the outcome sources,
which are files outside the program.
Not in the model: the walk's first check of a batch is made in the same step as the
read (both precede the first transaction, and a batch that fails it changes
nothing); sources report only what was accepted and is due, which
is what their validation demands; the members of an opportunity set stand for
all its hashed content; there is one cohort, with one roster revision per day.

**DarwinWeights.** A label's place in `label` is its `outcome_sequence`. `Window`
selects, as the code does, the latest scores that were due and mature at the
cutoff; `Band` ranks full windows among peers or by themselves. `Read` is a job's
reads, `Prepare` the part of a publication under the write lock (weights, what was
consumed, the receipt's time), `Commit` its end. A weight is named by the batch
that made it: `Current(m, c, known)` is the weight of `m` effective at `c` among
the batches `known`, which is all of them when a batch is built and the ones with
a receipt by `d` in the snapshot of day `d`. The maturation a publication begins with
is the action `Mature`, so the block on unresolved outcomes is a publication that
does not happen.
Not in the model: windows of all tracks are read in one step, preparing and
accepting a cycle are one transaction each.

## 3. The runs

Every property is aimed at one of the hazards `PROJECT.json` lists by line.
Bounds that are constants of a module are named there; the others are the sizes
of the sets below. Where a run disables the deadlock check, the system may
really come to rest: a target is finished, all trades of the bound are made, a
closed bridge stays closed, all days are over. In the registry runs nothing
disables it.

| run | instance | what it shows |
|---|---|---|
| `RegistryOperations` | 2 clients, 3 releases, no faults | the registry implements the life cycle; whenever the lock is free the audit has a row for exactly what every release has gone through, among it the activation of a release rolled back since by a rollback prepared before it (which is why the previous state is read again under the lock). Three releases are a base and two rivals for it |
| `RegistryRetries` | 1 client, 2 releases, 2 reasons, I/O errors and kills | a success is complete whatever it is the retry of; after an error or a kill before the audit row the row is missing but never wrong, and agrees with what a retry computes; manifests are monotone and the pointer moves along the lineage; the lock is given back but for a kill |
| `RegistryLostPointer` | 2 clients, 2 releases, I/O errors | *violation*, section 6 |
| `PaperOrders` | 2 processes, 1 ticker, 2 days, 3 trades, 1 reset | no debt, one fill per intent and snapshot, the account is its trades, a retry is replayed. Capital 11 at price 5 and fee 1 pays for one purchase, and for a second only if its commission were forgotten; 3 trades are two purchases and a sale, or a sale between two purchases |
| `PaperRacingReads` | 2 processes, 3 days, 2 trades | *violation*, section 6 |
| `PaperTargetRun` | 3 actions, prices 5 and 20, 2 strange orders or reads, lost answers | the report is true, and nothing is filled on an account that changed before the first fill, while the two halves of every read interleave with the other trader's. Two strange steps are an order before the first snapshot and one after it, or a read and an order it races with |
| `Bridge` | 3 calls, all faults | promises and pending map agree, at most one execution, every call settles, close returns. Three calls are one at the server, one in the pipe and one that finds no pipe |
| `PromptExperiment` | 2 processes, 2 candidates, 1 pair, 2 attempts, 2 faults | one holdout, evidence is what the runs say, results are final, the holdout budget is implemented, the family is decided |
| `OutcomeLedger` | 2 cycles, 2 operators, 2 days, 3 cutoffs, a fixed agent that fails like the live ones, an event agent whose set may be empty, 2 events | samples scheduled once, sealed runs whole, judged as frozen, judgements documented, the lives of `SampleLife`, every sealed day matures |
| `OutcomeUnavailable` | 2 cycles, a macro agent | *violation*, section 6 |
| `DarwinWeights` | 2 publishers, 2 peers, 2 slots, 2 cycles, 3 days, 2 labels, 3 batches | forks are backdated, a score moves weights once, the past is settled, a pin is lost for cause |
| `DarwinReapplied` | the same | *violation*, section 6 |

What the atomic life cycle itself promises (`LiveChain`, `OneTrial`) is proved
and, for what the registry shows of it, a consequence of `ImplementsLifecycle`;
no run repeats it. `LifecycleIsMonotone` and `PointerMovesAlongLineage` are
checked with one client and all faults, and proved for any number of clients;
`SuccessIsComplete`, `RetryAgreesWithAudit` and `AuditIsTrue` do not hold for two
clients and failed writes (section 5), which is why that run has one. The run of
`AuditIsComplete` has no faults: a row that an error has kept back is what
`AuditIsTrue` and `SuccessIsComplete` are about.

What a release has gone through (`Passed`) is told from its manifest: staging unless it is
a provisioned baseline (active or later, without a base), its trial, its
activation, its rollback. Whether a rolled back release had been active its
manifest does not always know (it may have been prepared before the activation),
so that is told by the previous state in the row of the rollback, and
`AuditIsComplete` says that this agrees with the row of the activation. The one row a
release may have in addition is `active` of a baseline: to activate a baseline that
is active repeats nothing but the row.

Notes on `PromptExperiment`. The code allows three attempts; with two there is
already one retryable and one final failure. `Lanes` is 1 because the two
processes interleave their claims as two lanes of one would. Two faults are
enough for a run to fail for good, or for a lease to run out at work and its
result to come in late. The score table lets candidate 1 win (2 against 1), or
miss the gate with candidate 2 the winner; only validation scores of candidates
vary because nothing else decides anything. A tie, and a family without an
eligible candidate, do not occur in this instance: the theorems, not the run,
cover them.

Notes on `OutcomeLedger`. Two events make one trigger and one that is passed
over; the second day lets a plan meet decisions of the day before; the third
cutoff lets two operators judge one sample at different cutoffs, which is the
race the update is exposed to. The event agent may freeze an empty set and may
record failures, the fixed one neither: between them every branch occurs.

Notes on `DarwinWeights`. Windows of one score and a peer minimum of one keep the
instance small: a window changes with each late score, and one full track moves
weights. Bands are still ranked between two peers when both are full. The run asks
for publications only; what a refresh writes, it writes for a publication of an
event that is published already. Three days are two slots with a day after the
second, on which late scores arrive.

Symmetry is used for releases, clients, processes and publishers, and only in
runs without liveness.

## 4. Fairness

- **Registry** (`FairSpec`): a started command goes on (`WF` of `Command(c)`). No
  fairness for asking, errors and kills: no operator has to start anything. The
  lock file is polled by each waiting command, which either gets it or gives up.
- **Bridge** (`FairSpec`): Node delivers events, timers run out, and the server
  goes on as long as its handler returns. None for calls, `close()`, or faults.
- **PromptExperiment** (`FairSpec`): a process goes on and, ended or killed, is
  started again (`WF` of `Step(p)`), which is an assumption about whoever runs the
  plan: every error path of the runner is written to be resumed by starting the
  same plan again, and nothing in the code does that by itself. Time passes for
  leases (`WF` of `Expire`). `FamilyIsDecided` also assumes finitely many kills,
  transient failures and leases lost at work (`MaxFaults`): with infinitely many,
  nothing is ever finished.
- **OutcomeLedger** (`FairSpec`): days close (`WF` of `Tick`), the sources report on
  every due sample in the end (`WF` of `Report`), and operators run the update of
  each day again and again and now and then to its end (`SF` of `ReadPending` and
  `CommitBatch`: a kill or another operator's commit may disable either for a
  while). The code schedules nothing itself: the update is a command someone
  has to repeat. Nothing is assumed of the cycles, so only sealed days mature.
- **PaperAccount**, **PaperTarget**, **DarwinWeights**: no liveness is claimed; an
  order or a publication may simply never be made.

## 5. The proofs

`tlapm` proves every theorem and lemma from the named assumptions about the
constants, for any number of releases, clients, processes, calls, candidates,
days and so on. Every invariant, action property and refinement that a passing run
checks is also a theorem; what only TLC checks is liveness.

The assumptions beyond types and sizes are few: `None` is none of the values it
stands beside (`NoneIsNo...`); `ProceedsCoverFee`, a sale brings in at least its
commission, true of any price above five cents a share; in `PaperTarget` the
actions of one target are about different tickers, and there are a first and a
last day.
Five theorems about the registry and one about the account have a hypothesis of
their own, which is the scope the code's promise has:

| theorem | holds if | and without it |
|---|---|---|
| `RegistryImplementsLifecycle` | nothing fails | half-done operations are no state of the life cycle |
| `AuditComplete` | no write throws (kills are allowed) | the lock is given back with a row missing; only a retry adds it |
| `AuditTrue` | no write throws, or one client at a time | the race of `RegistryLostPointer` also leaves a rollback's row with `canary` next to the row of the activation |
| `RetryAgrees` | one client at a time | TLC refutes it with two, even without faults: a rollback may be prepared from a canary manifest that another client activates before the rollback is admitted, and its row says `active` where a retry computes `canary` |
| `SuccessComplete`, `RollbackMovesThePointer` | no write throws, or one client at a time | the run `RegistryLostPointer` |
| `LoneProcessSettles` | one process, the dates of the clock | the run `PaperRacingReads` |

**ReleaseLifecycle_proofs.** `LiveChain` and `OneTrial`. The invariant `LInv` adds
the types and that a release that does not exist has no base: a provisioned
baseline is then a chain of its own. Acyclicity is stated by sets (no set of
active releases is closed under taking the base) so that no induction is needed.

**ReleaseRegistry_proofs.** First, what holds *whatever fails*: `TypeCorrect` and
three action properties, `LifecycleMonotone`, `PointerAlongLineage`,
`CanaryIsHandedOver`. They are about a single write, long after the decision
behind it was made, so the invariant `LockedInv` says of the client that holds
the lock that every write it has still to do fits the registry as it is now: the
manifest is the admitted predecessor of the next one until it is replaced and is
the next one afterwards, the active pointer is still at the base (or at the
release to be rolled back), the canary pointer still names nobody or the release
itself. The others cannot disturb this because they do not hold the lock, and a
kill keeps it because an orphaned lock has no writer. `FilesInv` adds what the
files say of each other: every manifest is a possible one, the pointer names a
release that was served, and the audit row is the last write of every command.

The refinement counts an operation as done when it is admitted. `effState`,
`effBase`, `effLive`, `effTrial` are the abstract variables in those terms, and
`EffectiveInv` says they satisfy the invariant of the life cycle, which is what
the registry's checks under the lock need in order to imply the guards of the atomic
operations: one lemma per kind of operation shows that an `Admit` of that kind is the
abstract step, and all writes are stutters because they only move a file from
what is pending to what is there. A write that throws would take back what was
counted as done, hence no faults; for the properties that need only the invariant
(`SuccessComplete`) kills may happen, since after one nobody holds the lock again.

The audit is proved in two directions. `AuditInv`: a row speaks of a state its
release is in or has left behind for good (`RowsAreTrue`, `HasLeft`), and whatever
a client has struck off its list is in place; it holds whatever fails. `AccountedInv`:
the row of every state a release has reached is there or owed by the client under
the lock. What a rollback came from is the third part, `RollbackRowsFit`: it is
admitted when nobody owes a row, so its release is then active and has the row of
that, or in canary and has none (`AdmitFrom`); nobody else writes in between,
and afterwards nothing about the release changes any more. `AuditComplete` is the
equivalence of the three, `AuditTrue` one direction of it. For a lone client
`AloneInv` says that nothing changes between what it reads and what it writes
(`Fresh`), that bases, the release under the pointer and whatever has an `active`
row were activated, and that rows agree with manifests; so `AuditTrue` also holds
for it when writes fail.

**PaperAccount_proofs.** `AccountTyped`, `NobodyEverOwes`, `IntentFilledOnce`,
`SnapshotFilledOnce`, `FilledOrderIsReplayed`, from `TypeOK` and `Sound(book)`.
`SnapshotFilledOnce` needs the deepest argument: commissions only grow, each fill
by at least the positive `MinFee`, and every snapshot an order was filled on had
fewer commissions than the account has now; so no later state matches it,
whatever is unlocked in between. It holds between resets: a reset deletes the
trades it speaks of.
`AccountExplained` is about sums over a history of any length. A sum is a recursive
function on an interval (`Sums`), and induction is available for *sets*: a set
that has 0 and with each number the next has all of them (`Induction`). From it
follow that the sum of integers is one, grows by the value appended, and is
monotonic; a fill then appends to three sums what it does to cash, commissions and
holdings.
`LoneProcessSettles` rests on `Settling(b, c)`: on
day `c`, what is sellable of a ticker is no more than what was bought before `c`
less all that was sold. A barrier of a later day keeps it because what is held is
bought less sold (`ExplainedByTrades`), a sale of day `c` because it takes from both
sides.

**PaperTarget_proofs.** `TargetFrozen` and `TargetReportTrue`,
on the lemmas of `PaperAccount_proofs` about the engine's transactions, which are
taken by `INSTANCE`. The invariant is about the time between two looks: while the
run holds a snapshot that a fill has made `Outdated` (fewer commissions than the
account), no order of it is filled again, so a lost answer can only be the last
(`LostIsLast`), and the first trade after the frozen snapshot is the run's own if
it has any (`FirstIsOwn`). The two halves of a read need no part in it: an
unlock changes neither commissions nor trades, whenever it comes. T+1 is not
among the theorems: the race of `PaperRacingReads` needs only one date, and is in
this model too.

**Bridge_proofs.** `BridgeTyped`, `PendingIsExact`, `ExitReleasesAll` and the
refinement `BridgeImplementsService`. The invariant: requests are numbered
(`Numbered`), and sent, taken and executed in that order (`InOrder`, `AtServer`),
so what is in the pipe is later than what was ever executed; whatever is in
stdout or was answered was executed (`Answered`). That is all at-most-once needs.

**PromptExperiment_proofs.** `ExperimentTyped`, `HoldoutIsSpentOnce`,
`EvidenceHolds`, `AttemptsAgree`, `ResultsStay` and the refinement
`ExperimentImplementsBudget`. The invariant: rows of runs are sound by
themselves (`RunsAreSound`), an opened experiment is one that went to the
holdout (`OpenIsOpened`), there is one such and no run of a holdout before it
(`OneOpened`), evidence is what the runs say (`EvidenceIsRuns`, with
`Done` rows never changing), and a validated experiment has recorded a result
(`ResultsAreRecorded`). Of processes it says only that their records have the
right form: a process may believe anything about an experiment, because the store
checks it again. That a recorded delta is an integer rests on the community
fold: it is unfolded to its recursive function over subsets and shown integer
by induction on cardinality.
The refinement has three cases of a store call: recording the last result of a
candidate is `Freeze`, taking the holdout is `OpenHoldout` (and `HoldoutWinner`
is what makes it the best of a complete family: without that guard the proof
fails), recording a failure is `Fail`; all other steps leave the budget alone.

**OutcomeLedger_proofs.** All safety properties of the ledger: `TypeCorrect`,
`EverySampleOnce`, `SealsAreWhole`, `JudgementsAreOfTheFrozen`,
`JudgementsAreDocumented`, and the refinement `LedgerKeepsPromise`. None is
inductive alone. The invariant adds what the processes carry between their
transactions: a draft selects exactly its slots, so that two plans that pass the
UNIQUE constraints cannot share a sample; what a cycle was given is what the table
holds, and what it skipped is closed (`CyclesAreSound`), so that at the
acceptance the view of the process *is* the frozen set; the eligibility of a sample
agrees with the table of its terminal (`EligibilityIsSound`), which keeps a
failure and a set apart; and what an operator read of its batch has stayed true
but for judgements (`UpdatesAreSound`), so that a stale batch either repeats a
judgement or is refused. The refinement has one lemma per action that moves a
sample; all other actions leave `Life` alone (`SameLife`).

**DarwinWeights_proofs.** `WeightsTyped`, `UpdatesAreNotLost`,
`ScoresAreAppliedOnce`, `ThePastIsSettled`, `PinsAreLostForCause`. First, a non-empty
set of batches has a newest one (from the least element of a set of naturals), so
`Current` is what it says it is. The invariant `BatchesAreDecided` then says of every
batch, also the one still under the lock, that it was decided on exactly the batches
before it: it builds on the current weights of its cutoff, and moves weights only
on a score past the windows of the newest. It survives a commit because only the
holder of the lock appends, and later batches change nothing about the earlier
ones. From it, two batches that build on one record cannot be in slot order, and a
batch in order that moves weights has a score no earlier window held. The action
properties follow from `LaterBatchLeaves`: one more batch changes the weights of a
day only if its receipt and its slot are of that day or before.
`WeightsTyped` has one deep part: a band is a band. The peers above a track and
those tied with it are disjoint parts of the full ones, so twice its midrank is
less than twice their number and the quotient below four; the scores compared are
sums over windows, and those are sets of labels only because labels are never taken
away (`WindowsAreKnown`).

**Only model-checked.** Liveness (`LockIsReleased`, `EveryCallSettles`,
`CloseReturns`, `FamilyIsDecided`, `SealedDayMatures`), which is out of the prover's
reach, like ENABLED. The violations of section 6 are found by TLC by nature.

**Only proved.** `LiveChain`, `OneTrial`, `CanaryHandover`, `NobodyWaitsForTheDead`
and `AttemptsAreCounted` hold by theorem and are in no run.

## 6. What the models showed about the code

Four runs end in a violation that the code has:

1. `RegistryLostPointer` (`RollbackMovesPointer`). A rollback prepared from the
   canary manifest is executed after a concurrent activation, and a write fails
   after the manifest was replaced. The retry finds `rolled_back` with
   `activated_at` null, takes the rollback for one of a canary, reports success
   and leaves the active pointer on the rolled-back release
   (`release_registry.ts:334`). `resolveActive` then throws until the files are
   repaired by hand.
2. `PaperRacingReads` (`T1Settlement`). A read compares the unlock date in
   autocommit and unlocks later, without looking again (`engine.py:815`).
   Another process may unlock and buy in between; the late unlock frees what was
   bought the same day. All callers may pass one and the same date, so the daily
   cycle and a stranger can do it to each other as well.
3. `OutcomeUnavailable` (`UnavailableIsRecorded`). A generation failure is refused
   unless it is stamped with the `prepared_at` of the plan
   (`outcome_scheduler.py:1083`), which a daily cycle sets to the close of the day
   (`daily-cycle.ts:390`). The handler of the macro and sector agents stamps it with
   the server's time (`handlers/darwinian.py:753`): when their sources are
   unavailable the failure is never recorded, the sample stays open, and an
   open due sample blocks every publication of its revision.
4. `DarwinReapplied` (`NoScoreReapplied`). What counts as consumed is what the
   checkpoint of the last cutoff holds (`darwinian_updates.py:3402`), not the
   most any held. A publisher that read its windows before a later score was
   published takes it back, and the next slot applies the same score again.
   `ScoreMovesOnce`, which assumes publications in order, is proved.

Observations that no run repeats:

- Paper account: the barrier takes an earlier date for a new day
  (`engine.py:819`), so a daily cycle for an earlier date frees the shares bought
  today; a stranger's trade between a fill and the snapshot after it is adopted
  (`daily-cycle.ts:1457`); a reset forgets the intents (`engine.py:194`), and an
  order retried after it is filled again.
- Registry: a rollback prepared from a canary manifest and admitted after another
  client's activation writes an audit row with the previous state `active`; an
  identical retry computes `canary` and is refused as conflicting with it
  (`release_registry.ts:406`). If a write fails, the retry writes `canary` first,
  and the audit denies the activation it has a row of.
  After a kill between manifest and pointer the base may be rolled
  back, and the half-activated release can then be neither finished nor rolled
  back; a process killed under the lock blocks all later commands until the
  lock file is removed.
- Bridge: `close()` after a failed spawn has been reported awaits an exit that
  never comes.
- Ledger: two operators with different cutoffs can each record an ABSTAIN of one
  sample, since an equal terminal revision is accepted again and the observation's
  identity holds the cutoff; from then on every update of that revision raises
  "scheduled outcome observation authority is ambiguous"
  (`darwinian_updates.py:2372`). `SealedDayMatures` excepts exactly this.
- Weights: a checkpoint's identity is its track, cutoff and window, but its content
  includes revision and band. A second revision that refreshes or publishes
  at a cutoff where a window is unchanged, or a peer whose late score changes the
  others' bands, collides ("immutable record collision"), and the maturation of
  that update is rolled back with it. The weights form a fork when an older slot is
  published after a newer one (`ForksAreBackdated` allows exactly that).
- A cycle's `as_of` is the close of its day. A cycle that starts before its close
  loses its pinned snapshot, and with it all its work, to a publication stamped by
  then, or to the acceptance of an earlier day's cycle (`darwinian_v2.py:1116`);
  a batch stamped before a close and committed after it changes the snapshot of a
  day that has closed.

## 7. Limits of the models

- File replacement (write, fsync, rename) is one atomic step, and SQLite
  transactions are serializable: both are assumed, not modelled.
- Registry readers change nothing and are not modelled. `resolveForRuntime` and the
  lineage walk of Gate D read several files without the lock.
- Timestamps differ between processes, so two attempts at the same transition
  are never equal by accident; measurements are never compared. In DarwinWeights
  an instant is a day, and what is before or after a close within the day is the
  order of the steps.
- Node emits an `error` event on a broken stdin, for which the client registers no
  listener; that the front end may end there is not modelled. Nor is a death of the
  server in the middle of writing an answer.
- Prices, scores and sizes are small integers. Nothing depends on their
  magnitude but on which comparison comes out how; the code's decimals and
  float rounding are not modelled.
- A call of the daily cycle that timed out is modelled, if it is an order, by
  what it does to the account at once; if it is a read, by its failure when the
  server is through with it, for which the next call has to wait.
- Average cost is part of the code's snapshot hash. Without it the model
  accepts at least the orders the code accepts, so the safety results carry over.
- OutcomeLedger and DarwinWeights are not composed: the ledger ends with a label,
  and the weights begin with one. Publications that a ledger with open samples
  blocks are a subset of the ones DarwinWeights has.

## 8. Plan

Done, in this order: ReleaseLifecycle and ReleaseRegistry; PaperBook,
PaperAccount and PaperTarget; RpcService and Bridge; HoldoutBudget and
PromptExperiment; SampleLife and OutcomeLedger; DarwinWeights; their proofs.

Next, models:

1. **ReleaseReaders**: `resolveForRuntime` as four unlocked reads composed with
   ReleaseRegistry (abstract: a reader gets a release that was live or on trial
   during its read), with Gate D's lineage walk as a second kind of reader.
2. **CanaryJournal**: append under a lock file with a crash in the middle, and the
   SLO evidence that an activation rebuilds from it.
3. **ToolCapability**: issue, use, terminate and the finalisation of a run's
   accepted history (abstract: a capability is used only between issue and
   termination and its uses are counted once).
4. **PromotionPolicy**: gates and series decision as operators checked against a
   declarative definition on small grids, joined to PromptExperiment.

New runs will replace some that a later composition covers, so that the whole
project can still be checked in an hour.

Next, proofs: the theorems of the models above, from their first versions on; the
refinement of ReleaseLifecycle with kills and failed writes, for which the life
cycle needs a step that leaves an operation half done; and the runtime reader
against the proved `EffectiveInv`.
