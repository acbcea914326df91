# TLA+ verification of abtars

abtars is a bridge process: it connects chat platforms (Telegram, Discord, a
terminal UI, an HTTP agent API) to coding agents, keeps a kanban board of work
in SQLite, runs scheduled tasks, fans projects out to worker agents, talks to
peer instances and is itself kept alive by a shell watchdog. It is one
single-threaded Node process; almost everything hard in it comes from the
awaits between a durable read and the write that depends on it, from several
actors settling the same row, and from restarts between two writes.

This directory models the part of the program that decides *whether work that
was promised is executed once and ends*: the lease that governs a worker
attempt, the due-time scheduler behind every deadline, the worker swarm of a
project, the supervised workflow run above it, the life of a scheduled-task
occurrence, and a Pi coding run delegated to a peer with the protocol that
keeps the two hosts in agreement. The rest of the program is listed below with
what is planned for it.

Paths below are relative to `src/src/components/` unless they start with
another directory.

Contents

1. Inventory
2. Modules and how they correspond to the code
3. Runs: what is checked, with which bounds, under which fairness
4. Theorems: what is proved, from what, and how
5. What the checks found
6. What is only model-checked, and what is left out of the models
7. Plan

---

## 1. Inventory

### Modelled

| Component | State | Operations | Interacts with | Hard behaviour | What makes it correct |
|---|---|---|---|---|---|
| Executor lease (`executor-lease-store/-reducer/-policy/-reconciler.ts`, `executor-progress*.ts`) | one row per attempt: snapshot JSON (phase, version, liveness, progress and tool-silence deadlines) and the columns the SQL compares | append a fact, evaluate, warn, inspect, cancel, close, recover | attempt row of the supervision store, executor adapters (inspect and cancel promises), wake scheduler | promises that resolve after the row moved on, compare-and-set on a version, restarts, an executor that says nothing or too much | columns mirror JSON; an open lease is always armed, by the hard deadline at the latest; nothing reopens a closed lease |
| Lifecycle wake scheduler (`lifecycle-wake-scheduler.ts`) | sources, one timer, `_running`, `_rescan`, the set of sources being woken | sourceChanged, register, unregister, start, stop, safetyScan, timer, scan passes | every due source (leases, retries, run deadlines, admission), the heartbeat | synchronous re-entry through `wakeDue`, overlapping scans, notifications in the gap before `finally`, listing errors | wakes of one source are serial; a quiet scheduler is armed; every overdue item is woken |
| Worker dispatch and settlement (`reconciler.ts`, `worker-supervision-store.ts`, `worker-supervision-service.ts`; parts of `tasks/kanban-board.ts`, `spin.ts`, `spin-worker-adapter.ts`, `execution-control.ts`, `retry/`) | card rows, attempt rows with reservations and results, token totals, in-process lanes, controls and the pump | kick, pass, claim, start, defer, finish, fail, close lane, lease expiry, cancel, project a verdict, decide and allocate a retry, cascade, boot recovery | lease, retry store, kanban events, executors | an attempt superseded while its lane still runs, capacity sampled before an await, restart between settlement and projection, shared budget | one live attempt per card; done only with accepted evidence; the budget holds; every startable card is taken up |
| Scheduled runs (`tasks/scheduled-run-coordinator.ts`, `task-run-settler.ts`, `task-state-store.ts`, `task-queue.ts`, `task-checker.ts`, `task-service.ts`, `due-sources.ts`, `scheduled-task-runner.ts`, `run-liveness.ts`) | task state, run rows, run history, two cap-1 lanes, coordinator handles | admit, run, cancel, pause, resume, trigger, start, progress, settle, defer, retry, deadline, grace, repair from history, recover | wake scheduler, spin, project workflow, operator commands | five ways to settle the same run, append-then-close in two writes, retry groups across deferrals and restarts, hung adapters | every reserved run settles once; history before close; lanes are freed; at most one retry of a group |
| Workflow runner (`orc-project/orc-workflow-runner.ts`, `-store.ts`, `-ports.ts`, `-model-jobs.ts`, `-settlement.ts`, `-startup.ts`, `-driver.ts`) | run, plan revisions, nodes and dependencies, command ledger with claims, four budgets, deliveries; in the process the model jobs in flight | admit, plan, revise, dispatch, review, repair, retry, deliver, inspect, recover, cancel, interrupt at boot, project onto the root card | workers (their settlement calls the runner in its own transaction), models, channels, peers, incidents | a late proposal, verdict or completion for a run that ended; an attempt nobody can observe; a send that may have gone out; a review that outlives its revision | success is reviewed; no node runs twice or too early; an output is sent at most once; a live run is driven and ends |
| Pi runs (`pi-executor/pi-executor.ts`, `pi-run-store.ts`, `pi-run-service.ts`) | run row with status and generation, one owned process, pending dialog, card | create, claim, start, prompt, ask, reply, complete, cancel, resume, shut down, recover | reconciler, RPC process, origin | a cancel that meets a starting, finishing or dying process; replies whose write fails; shutdown racing completion | every transition has its event; a dialog is answered once; a cancel ends |
| Remote Pi (`pi-executor/pi-remote-outbox-store.ts`, `peer-transport/remote-pi-*.ts`, `boot/phase-pi-executor.ts`) | outbox of sequenced events, command ledger; at the origin the projection, its cursor, the card | append, push, catch up, acknowledge, reduce, project; issue, receive, dispatch, answer, forget a command | Pi runs, peer transport | loss, repetition and reordering of pushes, acknowledgements and commands; a crash between an effect and its stored answer | the origin sees one legal life and catches up; a command takes effect at most once |

How they fit together: the **wake scheduler** arms one timer for the earliest
item of its sources and calls `wakeDue` of the sources that are overdue. The
**lease** source evaluates leases, which may expire an attempt; the **retry**
source wakes a card whose successor attempt may be claimed; the
**run-deadline** and **admission** sources drive scheduled runs. A worker
attempt settled by its executor, by its lease or by recovery wakes its card
(`wakeCard`), and the card's pass projects the verdict or allocates a retry,
which kicks the dispatch **pump**. A scheduled run of an agent uses the same
executors, one of a project becomes a **workflow run**, whose dispatched nodes
are cards of the swarm; the settlement of such a card's attempt moves the node
in the same transaction. A card may be executed by **Pi**, on this host or,
through a delegated run, on a peer.

In the models the components meet at these seams:

* `WorkerSwarm!LeaseExpires`, `CancelRequested` and `CancelResolves` stand for
  what `ExecutorLease` does to an active attempt. Both modules look at the lease
  only where `reconcileChildCard` does, on a card that is neither queued nor
  failed (`Attended`), and `WorkerSwarm` assumes no fairness of it;
* the fairness of a wake in `ScheduledRun` is `EveryDueItemIsWoken` of
  `LifecycleWakeScheduler`;
* the `Wake` of a lease (unsolicited passes over a card) is any wake of
  `WorkerSwarm`;
* `WorkflowRunner!WorkerStarts`, `WorkerEnds`, `AnswerRetry` and `AutoRetry` stand
  for what the claim, the settlement, the retry service and the reconciler of
  `WorkerSwarm` do to one attempt; that it ends once is `TerminalIsFinal` there.
  That it is claimed at all, or ends, is assumed nowhere;
* `RemotePi` EXTENDS `PiRun` and adds the origin; `PiLifecycle` is what the
  two together promise.

### Not modelled yet

Every other part is a row of `components` in `PROJECT.json` with its files and
the reason. In short:

| Component | State and operations | What makes it hard | Properties to state |
|---|---|---|---|
| Project acceptance (`project-acceptance/`) | review attempts, verdicts, repair rounds | a verdict that arrives for an older revision | one verdict per round, no completion without acceptance |
| Supervised Pi runs and coding sessions (`pi-executor/supervised-*.ts`, `pi-coding-session-*.ts`) | settlement through a worker attempt, interactive sessions with claims | two owners of one terminal observation | the attempt and the run agree |
| Peer broker and other outboxes (`peer-transport/peer-ws-broker.ts`, `ws-outbox-store.ts`, `peer-callback-outbox.ts`) | routes, pending requests, queued messages | reconnection, request timeouts | a queued message is sent or expires |
| Peer help (`peer-help/`) | requests, contributions | the same channel | one contribution counted once |
| Self-healing incidents (`sha/`) | incidents by fingerprint, cooldowns, fault counters | admission racing resolution, restart between stages | one active incident per fingerprint, every incident ends |
| Supervisor (`src/src/supervisor/`, `scripts/abtars-watchdog.sh`) | bridge.lock, supervisor state, candidate counters, transition fence | two processes, pid reuse, signals after a stale observation | the validated owner is never signalled, no spawn beside a live bridge, a dead bridge is replaced |
| Session instruction queue (`session-instruction-queue.ts`) | queue per session, leases | an instruction leased while the execution changes | each instruction consumed, failed or expired once |
| Message pipeline, sessions, memory outbox, boot graph, emergency execution, power | see `PROJECT.json` | | |
| Transports, platform adapters, commands, dashboard, configuration, skills, guardrails, scripts | | mostly I/O, text and parsing | none that a state machine would add to |

The hazards of the code, each at its line with the properties that cover it,
are the list `hazards` of `PROJECT.json`.

---

## 2. Modules and how they correspond to the code

General conventions. JavaScript runs one synchronous segment at a time, so an
action is the code between two awaits (or between an event and the first await),
with every call it makes; a SQLite transaction is inside one action. Promises that
are in flight are part of the state. A restart is an action that empties what the
process knew and runs the component's recovery. Payloads, prompts and messages are
left out; a model turn, a script or a subprocess is a nondeterministic outcome.
Operators that stand for a function of the source have its name. Definitions whose
name starts with `Mut`, or ends in a word such as `Stale`, `Again`, `Quiet` or
`Blind`, are mutated forms used for mutation testing only and are referenced by
nothing else.

### `ExecutorLease`

One worker attempt (every statement of the store is keyed by `attempt_id`).
`lease` holds the JSON and, apart from it, the columns `state_version`,
`next_evaluation_at`, `closed_at`; whether the two agree is a property, not an
assumption. `inspections` and `cancelling` are promises in flight. Facts go
through `reduceFact` (liveness, progress, output window, tool operations),
evaluation through `evaluateLease` and `applyInspectionOutcome`, all pure
operators as in the code. Actions: `Claim`, `MarkStartObservable`,
`MarkRunning`, `RequestCancel`, `deferClaimAfterProvenNoStart`,
`SettleByExecutor`, `appendFact`, `EvaluateHealthyOrWarning`,
`PerformInspection`, `SkipInspection` (adapter without `inspect`),
`PerformCancellation`, the four ways an inspection resolves, `ResolveCancel`,
`CrashAndRecover` (agents are process-bound and settled unless a live workflow run
owns them, Pi attempts keep their lease), `Tick`. The card is there as far as
`reconcileChildCard` reads it: a queued card returns before the lease is looked
at, a failed one goes to the retry service (`reconciler.ts:441-457`), so
evaluations are guarded by `Attended`. The card of a Pi attempt stays queued
(`:532`, `:823`), and the lease of a Pi attempt is therefore never evaluated.

### `LifecycleWakeScheduler`

The process-wide scheduler with its sources' durable items as the environment.
`stack` is the call stack of scans: `wakeDue` is called synchronously and may
change durable state, whose notification may start a scan inside the scan. A
scan is `BeginScan`, `Visit` of each source, `WakeSettles`, `EndPass` or
`NextPass`, `Arm`, `Settled`, with `ListingThrows` and `WakeThrows` as its
error paths. `Late` are the sources the reconciler registers after boot.

### `WorkerSwarm`

The worker children of one project. `card` is the board row (status, the
attempt that moved it, hold flag, retry count), `att[c][o]` the attempt rows
with reservation, charge and result, `used` the project's token total; `slot`,
`lanes`, `controls`, `fenced`, `pump` and `woken` die with the process. A pass
of the pump is `BeginPass`, `VisitCard` (the whole synchronous part including
an admission), `CapacityResolves` (after the await of `capacity()`),
`StartSucceeds`, `StartFails` or `StartDeferred` (after the await of `start`),
`EndPass`. Executors end with `FinishSpin`, `FailSpin` and `LaneCloses`, which
may come long after the attempt was superseded; for the cards in `Faulty` the
settlement may throw before it is stored, or the verdict may be unreadable
(`VerdictUnread`), and the card is left as it is. `ReconcileCard` and
`handleSupervisedRetry` are the per-card pass. `LeaseExpires` and the cancel of an
attempt need the card to be `Attended`. A claim is refused once the project's hard
deadline has passed (`root.overdue`, `RootDeadlinePasses`). A retry may wait for a
backoff (`early`). `Crash` is a restart with `startReconciler`.

### `ScheduledRun`

A synchronous call chain of this component touches many tables, so chains are
operators from world to world (a world is the record of the variables) and an
action says which chain runs: `Becomes(settleRunOnce(...))`. `st` is
`task_state`, `row` the run rows, `hist` the run history, `lane` the two lanes
of `CronQueue`, `adapter` what the process executes for a run, `handles` the
coordinator's table. Stored instants are countdowns, decremented by `Tick`; the
cron expression is a choice of the next countdown within `Period`. A crash or a
refused write between the append to the history and the close of the run row is
the `lost` fault of a settlement, bounded with the crashes by `MaxFaults`. Other
faults are an exception in what follows the close (`task-run-settler.ts:228`,
`:237`, `:251`), after which neither `emitTerminal` nor a later settlement, which
answers `duplicate`, frees the lane (`torn`); a cancellation whose write fails and
is acknowledged all the same; a script that cannot be spawned; and an exception of
a job's start, which `processLane` catches. At most one fault happens in a step.
`Listed` are the tasks in the task store; the follow-up agent of a gated script
is made up on the spot and is not one of them.

### `WorkflowRunner`

One supervised run. `wf` holds its rows: state, accepted plan revisions, nodes
`<<revision, label>>` with the worker card they are bound to, dependencies that
were released, commands `<<node, action, ordinal>>`, budgets, deliveries and the
revisions a reviewer accepted. Every applier of the runner is an operator from
`wf` to the next `wf`, since an applier runs in one transaction: `AdmitRevision`,
`SucceedNode`, `FailNode`, `Accept`, `ChangesRequired`, `RejectPlanRound`,
`FailModelJob`, ...; `Commit` writes the result and, when it is terminal, revokes
the model jobs and projects the end onto the root card, as `commitWithProjections`
does. Actions: the three admissions, the drain of each kind of command, what
planner and reviewer may answer and when, the deadlines of their calls, worker
attempts with their joint settlement (`WorkerEnds`), its contained failure
(`HookContained`), a Pi worker's question (`WorkerAsks`) and its answer
(`AnswerRetry`), the reconciler's own retry of a failed attempt whose card the
runner does not manage any more (`AutoRetry`, `RunnerManaged`; the attempt is
marked `nested`), the audit's recovery and inspections, cancel, the startup
barrier (`Restart`, which ends every run of the previous generation) and the
recovery of an unprojected end. A claim is identified by its command: the commands
whose claim outlives the segment that makes it are never released.

### `PiRun`, `PiLifecycle`, `RemotePi`

`PiRun` is one delegated run on its owner: the row, the card, one process per
generation with its phase (launching, probing, prompting, live, closing), the
live map, replies whose write has not returned, and the outbox that every
transition appends to in its own transaction. Starting is three awaits long
(`LaunchOk`, `ProbeOk`, `PromptOk`, each with its failure), and everything else
may happen in between: a cancel, the exit of the child (`ChildDies`), the
shutdown of the host (`StopHost`, `InterruptCommits`, `Exit`), a crash and the
boot recovery.

`RemotePi` adds the origin and the channel. The channel has no state: any event
that is not acknowledged may arrive at any time, so may an acknowledgement of
what was applied, and any command that was issued. A push past a gap starts a
catch-up, which reduces the next event; one event per step. The command ledger
keeps a barrier (`dispatch_started`) between the receipt and the stored answer.

`PiLifecycle` is the abstract specification: a status and a generation that move
along the edges of a run's life. The origin's projection is mapped to it
(`INSTANCE PiLifecycle WITH st <- origin.st, gen <- origin.gen`), and the run
`remote` checks that the composed system implements it.

The MC modules only define values for the constants. The theorems about a
module are in a module of their own that extends it: `ExecutorLeaseProofs`,
`LifecycleWakeProofs`, `WorkerSwarmProofs` (the lineage of attempts),
`WorkerSwarmCapacityProofs` (what attempts share, on top of the lineage),
`ScheduledRunProofs`, `WorkflowRunnerProofs` and `RemotePiProofs` (which is about
`PiRun` and `PiLifecycle` as well). `NumberTheorems` is what three of them need
about least numbers and about sums over finite sets.

---

## 3. Runs

Eleven runs pass and one shows a disagreement between the code and what the
repository says of it (section 5). Every property of a passing run has a mutant
in `PROJECT.json`: a changed form of one mapped definition, such as a plausible
bug would produce, under which TLC finds the property violated.

### `lease`
An agent attempt owned by a live workflow run (process-bound, but left to the
audit by recovery, so that a restart keeps its lease) with facts, evaluations,
late inspections, cancels, deferral, moves of the card and restarts.
* `ColumnsMirrorJson`: whichever of the five writers ran last, columns and JSON
  agree, so no compare-and-set fails for ever.
* `ArmedWithinHardDeadline`: an open lease of an active attempt has a next
  evaluation, not after the hard deadline.
* `LeaseFollowsAttempt`: cancel intent and settlement of attempt and lease
  never part.
* `OutputOnlyIsCapped`: streaming output alone postpones the progress deadline
  by a bounded amount.
* `ClosedAndCancelledAreFinal`: no late promise or fact reopens a lease.
* `HardDeadlineEnds`: an attempt with an open lease is ended by its hard
  deadline, unless from some point on no pass looks at the lease (the card stays
  queued or failed) or the attempt was asked to cancel, after which nothing
  evaluates it and only the cancel ends it. Fair: the clock, a due evaluation of
  an attended lease (the wake scheduler serves it) and the settlement of an
  inspection, one way or another. Nothing is assumed of the executor, of facts, of
  operators, of the card, of the cancel promise or of restarts, and a restart may
  lose the inspection.

Bounds: the policy's times keep the order of `DEFAULT_LOCAL_POLICY` (warning
and grace below liveness, liveness below progress, progress below the hard
deadline), six ticks let all of them elapse in turn, `MaxEnv` = 3 environment
steps are enough for a fact, a late promise and a restart in one behaviour.

### `wake`
`WakesAreSerial`, `QuietMeansArmed` and `EveryDueItemIsWoken` with two sources,
one registered late, two concurrent scans, two passes per scan and two durable
changes, registrations or listing faults. Two scans are what the re-entry can
produce; two items of two sources are what one needs for one to be woken while the
other appears. Fair: the segments of a scan, an expired timer, the heartbeat's
safety scan, the clock; a `wakeDue` promise settles however often other segments
intervene (strong fairness, since a scan may be re-entered in between).

### `swarm_lineage`
One card, three attempts, two lanes, a deferring executor, settlements that are
not stored or not read, lease expiry, a restart, a project that ends.
`OneLiveAttempt`, `ReservationFollowsAttempt`, `RunningHoldsSlot`,
`DoneHasEvidence`, `TerminalIsFinal`, `DoneIsFinal`: three attempts are needed for
the lane of the first to end after the second was superseded too.

### `swarm_budget`
Two cards, each reserving 2 of a cap of 3 tokens and reporting 1 or 3, one of
them managed by a workflow run (which recovery leaves alone) and with settlements
that may fail; a third card whose executor is never available; a project whose
state and deadline may move. `BudgetHeld`: use
plus live reservations exceed the cap only by reported overruns.

### `swarm_served`
Two cards on one slot: `c2` waits for `c1`; each has two attempts, and a retry may
have to wait for its backoff; a start may be refused by the session cap; the
settlement of `c2` may fail or its verdict be unreadable. `SlotIsFree`,
`DependenciesDone` across the awaits of a pass; liveness:
* `PendingIsServed`: a startable card does not stay startable, unless a stranded
  attempt holds the capacity for good (its start was refused, or its turn ended
  without a stored settlement, and no lease of a queued card is evaluated), or its
  backoff ended and nothing has woken the pump since.
* `CardCatchesUp`: the card of a terminal attempt is decided, if its verdict can
  be read.

Fair: the segments of the pump, scheduled passes, backoff and hold timers, the end
of a turn and of its lane. That a turn ends is an assumption about the
environment. No lease is assumed to be evaluated. No restart here (see section 5),
so a projection that a crash interrupts is not covered by `CardCatchesUp`.

### `sched_settles`
A system task, a gated script and its follow-up agent; run, cancel and resume; one
fault: a crash, a lost write, an exception after the close of a row, a refused
spawn, a start that throws. `LaneHoldsLiveRun`: a lane is held by an unfinished
run, or by one whose settlement threw after the close; nothing else that closes a
run, or keeps it from starting, leaves its lane behind. `ClosedHasHistory`,
`FailureReportedOnce` and `EveryRunSettles` for the tasks of the store. Fair: the
clock, the boot after a crash, recovery of each listed task and the wake of a due
run deadline (`EveryDueItemIsWoken`). Nothing is assumed of adapters or operators:
a script may hang for ever.

### `sched_agent`
An agent run as a project with cancel, pause and trigger. `CancelIsHonoured`: a
cancellation that was acknowledged and stored before the run has an outcome is
what the run ends as. The answer alone promises nothing: it is given when the
write failed, too (section 5).
`EveryRunSettles` again, now with the runner's own deadline in play.

### `sched_retry`
Three runs of one agent task with manual runs in between. `OneRetryPerGroup`:
at most two executions share a run group. `SettledStays`: history rows never
change and a closed run never reopens.

Bounds of the `sched_*` runs: every delay is 1 or 2 ticks (`Ceiling` above or
equal to `IdleBudget`, as in the configuration), two runs suffice for a second
occurrence to meet the leftovers of the first, three for the occurrence after a
retry; one fault at any step.

### `wf`
Peer and incident runs; three plans (a single node, a chain of two, an optional
node beside a planning node in a plan that allows a partial result), two
revisions, one retry, one repair, two faults, where a fault is a contained
exception, a question, a nested retry, a refused or ambiguous send, an
unobservable attempt, a cancel or a restart.
* `SuccessIsReviewed`: a run succeeds only on a reviewer's acceptance of its
  latest revision. Three ways past it are in the code and named in the property:
  partial results, a plan replaced by its own planning node while its review was
  blocked, and the refused repair of `wf_verdict`.
* `OneLiveAttempt`: the runner never gives a node two attempts that may both be
  executing. The reconciler does (section 5): of two such attempts one is a nested
  retry of a card the node has left, or of a run that has ended, and never of the
  card by which a live run knows the node.
* `DependenciesSettled`: no attempt before its inputs are there.
* `LiveRunIsDriven`: a live run has a command that the drain or an inspection
  acts on, apart from the named ways in which the code loses the obligation
  (`LostObligation`, section 5).
* `SentAtMostOnce`: an output that was, or may have been, sent is not sent again.
* `TerminalIsFinal`: a run that ended keeps its state, and nothing late starts
  work or a revision for it.

Two revisions are what a repair needs, two faults let a fault meet the recovery
from another, two labels are what a dependency needs.

### `wf_settles`
One plan, every budget one, one fault: `RunSettles`, an admitted run ends and
the root card shows it, unless it waits from some point on for a worker whose
attempt has not ended (`[]WaitsForWorker`). Fair: that something the driver, the
audit or the model calls with their deadlines have to do is done as long as there
is some (one weak fairness over all of it); every planning round, verdict, retry
and correction consumes a budget, which is why that is enough. Nothing is assumed
of workers: an attempt may never be claimed, since an inspection only extends the
claim of a pending one, and a running one may never end. Nor is anything assumed of
what models answer, and `Readmit`, operators and answers to questions are not fair.

### `wf_verdict`
`VerdictIsRespected` is violated; see section 5.

### `remote`
Two generations of one run, one dialog, one command id used again and again for
any of cancel, reply, steer and resume, one fault (shutdown, crash or failed
card projection), at most two events waiting when the owner makes the next one
and three across a boot.
* `FactsAreComplete`: the last fact on its way, or else the origin's projection,
  is the run row. Because of it `recoverMissingEvents` has nothing to repair.
* `EffectsOnce`: a command takes effect at most once and a dialog is answered at
  most once, across repeated deliveries, crashes and failed writes.
* `OriginLifecycle`: the origin's view implements `PiLifecycle`.
* `CatchesUp`: again and again the origin's projection equals the row, and its
  card shows it while no projection to the card has failed.
* `CancelEnds`: a cancel that reached a process ends the run.

Fair: RPC calls return or time out, timers fire, a client closes, the shutdown
step is awaited and the host started again, the drain task pushes at every
heartbeat so that some push and some acknowledgement get through, and the
requester stores the run id it was answered with. Commands, dialogs, progress
and completion are not fair. Two generations are what a resume needs. One
command id is in flight at a time: the ledger treats ids independently, and what
two commands could do to each other passes through the run row, whose changes
between two deliveries of a command the owner's own steps already provide.

Deadlock is checked in the `sched_*` runs and in `remote`. It is off in the
others, where the models stop because their clock, their budget of environment
steps or their work is used up.

---

## 4. Theorems

Proved with TLAPS, for every value of the constants allowed by the `ASSUME` of
the module:

| Module | Theorem | Statement |
|---|---|---|
| `ExecutorLeaseProofs` | `TypeCorrect` | `Spec => []TypeOK` |
| | `ColumnsNeverDrift` | `Spec => []ColumnsMirrorJson` |
| | `LeaseAlwaysArmed` | `Spec => []ArmedWithinHardDeadline` |
| | `LeaseAgreesWithAttempt` | `Spec => []LeaseFollowsAttempt` |
| | `FinalityOfLeases` | `Spec => ClosedAndCancelledAreFinal` |
| | `OutputIsCapped` | `Spec => []OutputOnlyIsCapped` |
| `LifecycleWakeProofs` | `WakesAreSerialHolds` | `Spec => []WakesAreSerial` |
| | `QuietMeansArmedHolds` | `Spec => []QuietMeansArmed` |
| `WorkerSwarmProofs` | `OneLiveAttemptHolds` | `Spec => []OneLiveAttempt`, any number of cards and attempts |
| | `ReservationFollowsAttemptHolds` | `Spec => []ReservationFollowsAttempt` |
| | `DoneHasEvidenceHolds` | `Spec => []DoneHasEvidence` |
| | `TerminalIsFinalHolds` | `Spec => TerminalIsFinal` |
| | `DoneIsFinalHolds` | `Spec => DoneIsFinal` |
| `WorkerSwarmCapacityProofs` | `DependenciesDoneHolds` | `Spec => []DependenciesDone`, any dependency relation |
| | `SlotIsFreeHolds` | `Spec => []SlotIsFree`, any number of slots |
| | `RunningHoldsSlotHolds` | `Spec => []RunningHoldsSlot` |
| | `BudgetHeldHolds` | `Spec => []BudgetHeld`, any cap, reservation and usage |
| `ScheduledRunProofs` | `ClosedHasHistoryHolds` | `Spec => []ClosedHasHistory`, any number of tasks and runs |
| | `LaneHoldsLiveRunHolds` | `Spec => []LaneHoldsLiveRun`, with the settlements that threw named |
| | `FailureReportedOnceHolds` | `Spec => []FailureReportedOnce` |
| | `CancelIsHonouredHolds` | `Spec => []CancelIsHonoured`, of cancellations that were stored |
| | `OneRetryPerGroupHolds` | `Spec => []OneRetryPerGroup` |
| | `SettledStaysHolds` | `Spec => SettledStays` |
| `WorkflowRunnerProofs` | `SentAtMostOnceHolds` | `Spec => []SentAtMostOnce`, any plans, revisions and budgets |
| | `OneLiveAttemptHolds` | `Spec => []OneLiveAttempt`, with nested retries told apart |
| | `DependenciesSettledHolds` | `Spec => []DependenciesSettled` |
| | `TerminalIsFinalHolds` | `Spec => TerminalIsFinal` |
| | `SuccessIsReviewedHolds` | `Spec => []SuccessIsReviewed`, plans without cycles |
| | `LiveRunIsDrivenHolds` | `Spec => []LiveRunIsDriven`, plans without cycles |
| `RemotePiProofs` | `FactsAreCompleteHolds` | `Spec => []FactsAreComplete`, any number of generations, dialogs and commands |
| | `EffectsOnceHolds` | `Spec => []EffectsOnce` |
| | `OriginRefinesLifecycle` | `Spec => OriginLifecycle`, the origin's view implements `PiLifecycle` |

**Lease.** Assumed (`PolicyAssumption`): positive liveness, progress and tool
limits, a warning no longer than the liveness limit, an optional hard deadline.
The inductive invariant is

    IInv == TypeOK /\ ColumnsMirrorJson /\ LeaseFollowsAttempt
            /\ ArmedWithinHardDeadline /\ Fenced /\ lease.grace = NoTime
            /\ PendingHasNoLease /\ AbsentIsEmpty

`Fenced` says that an inspection in flight was started at a version below the
row's, under the same hard deadline: it is what makes a late answer harmless.
`lease.grace = NoTime` is a fact about the code that the proof needs (the grace
of an inspection is never written): with a stored grace `evaluateLease` could
answer without a next instant. One lemma per pure function says what it keeps
and bounds (`ReduceFactFacts`, `EvaluateFacts`, `OutcomeFacts`, `UpdateFacts`,
`CloseFacts`), two step lemmas (`ClosingStep`, `OpenStep`) say what a writer
must establish, and `NextIInv` has one step per action.

`OutputOnlyIsCapped` is inductive beside `IInv`, as a statement about one row
(`Capped`: inside an output window the progress deadline lies at most the cap and
one progress limit after the window's beginning). Only `reduceOutput` renews
progress inside a window, and checks the cap when it does; every other branch of
the reducer leaves deadline and window as they are (`SameWindow`) or closes the
window, which each branch's lemma shows.

**Wake scheduler.** Assumed (`SchedulerAssumption`): positive tolerance, pass
limit and longest timeout. The invariant is

    IInv == Typed /\ WakesAreSerial /\ ArmedWhenClean

`QuietMeansArmed` speaks of a scheduler without any scan. It is not inductive,
because a change of the durable items while a scan runs may leave the timer
wrong for a while; `ArmedWhenClean` says who makes up for it: unless a rescan is
marked or some scan has still to arm the timer, the timer serves every future
item that was listed. A scan that re-enters another one, is yielded or fails on
a listing keeps that, since the last to end finds the mark. `ArmEarliestServes`
is the one fact about the timer, and rests on the least of a set of numbers,
which `NumberTheorems` derives from the library's well-founded order.

**Swarm.** Assumed (`SwarmAssumption`): a finite, non-empty set of cards, at
least one attempt, positive reservations. The invariant is

    Inv == Typed /\ Lineage /\ Lanes /\ DoneHasEvidence

with `Lineage` the two attempt invariants, `RetryRoom` (a promised retry is
within the limit) and `ResultIsTerminal`; `Lanes` says that an unclaimed
attempt has no lane, that the attempt the pump is starting is fresh, and that
a lane whose evidence was accepted has ended its turn (`EvidenceFenced`).
`DoneHasEvidence` is not inductive without the last: a second completion of
the same lane would otherwise complete the card of a successor. Each action has
a lemma that concludes `StepOK == Inv' /\ TerminalKept /\ DoneStays`, from which
the invariants and both action properties follow. The changes of attempts are
reduced to `RowsReplaced`: a step touches latest rows only, and of a terminal
row only the decision.

What attempts share is proved on top of that (`WorkerSwarmCapacityProofs`), as
one more inductive invariant, relative to `Inv`:

    Shared == ... /\ ClaimedUnblocked /\ Room /\ StartIsAlone
              /\ RunningHoldsSlot /\ Booked /\ BudgetHeld

`Room` carries the sample of a pass across its awaits: what the pass may still
start, the start in flight and the occupied slots together never exceed the
capacity, although lanes open and close meanwhile. `StartIsAlone` is what makes
an admitted lane the only running one of its card, and with it
`RunningHoldsSlot`: the close of an older lane finds the slot owned by another
ordinal. `ClaimedUnblocked` says that the card of a claim was unblocked when it
was chosen; it stays so because done is final. `BudgetHeld` is a sum over all
rows of all lineages. A step changes the terms of one row (`SumChange`), but for
a restart, which settles every active attempt at once and moves the reservation
of each into its charge and its overrun (`SumMove`). Those two, in
`NumberTheorems`, come from the recursive definition of the library's
`SumFunctionOnSet` by an induction over a number the module derives from
well-founded order, since the library's own induction theorems cannot be
instantiated.

**Scheduled runs.** Assumed (`ScheduleAssumption`): kinds, ranks and the gate's
follow-up are well-formed, delays and limits are numbers. The invariant is

    IInv == Good(World) /\ Queue(World, {}) /\ Acknowledged
    Good(w) == Shape(w) /\ History(w) /\ Groups(w)

The chains of the model are operators from world to world, and so are the parts of
the invariant. `History` orders the append, the report and the close; `Queue(w,
settling)` says that a lane is held by a live run, by one whose settlement threw
after the close (`torn`), or by one that is being settled, and is used with a
non-empty second argument only inside a chain, between the close of a run and the
release of its lane; `Acknowledged` says that a cancellation that was acknowledged
and stored is still on the row or already in the history. `OneRetryPerGroup`
counts the executions of a group over the whole history and needs the most:
`Groups` bounds them by two, and says for every live run and for every group that
the task state may still continue (through `retrying` or a deferral) how many
ended runs it may find there, namely none for a first attempt and at most one for
a second. A manual run has its group to itself, which is what keeps it from
spending the retry of another. Each chain has a lemma, and whatever it does to the
run rows is one of three moves (change what the groups do not see, close one,
reserve the next), each with a lemma of its own; `Keeps` is what no chain undoes
and gives `SettledStays`.

**Workflow runner.** Assumed (`WorkflowAssumption`): every plan has work, its
dependencies stay within it and have no cycle, as the validation of proposals
enforces (`orc-workflow-runner.ts:369-391`), and no label of a plan is the host's
review, whose id cannot collide with one of a proposal (`:472-476`). The first
four theorems use none of it. Their invariant is

    KInv == IInv /\ Nested(wf, att)
    IInv == Good(wf) /\ Paired(wf, att)

`Good` is about the rows alone: what is freed is settled, what is dispatched is
unblocked, a delivery that is pending has not gone out, the dispatch rounds of a
node are numbered without repetition. `Paired` relates them to the attempts: each
round made one attempt, but for the last one, which may not have made it yet; of
the attempts that are not nested retries only the latest may be executing or be
asked about (`Held`), and then no round is queued behind it. `Nested` says that a
nested retry is never of the card by which a run that has not ended knows the
node: the reconciler makes it only when that is so, and a card the node has left
is never its card again (`NestedMoves`). `OneLiveAttempt` and `SentAtMostOnce`
follow, neither is inductive by itself. Every applier gets a lemma `Applies(w,
v)`: good rows to good rows that extend the old ones. Appliers compose
(`AppliesTrans`), so a handler is proved in the order in which it calls them, and
`Paired` is kept by any step whose rows extend the old ones and whose attempts are
the same.

`SuccessIsReviewed` and `LiveRunIsDriven` are about what a live run owes, and a
run may be left by one applier in a state that only the next makes good. They
need

    JInv == KInv /\ Fit(wf) /\ SeenOnce(wf, att)

`Fit` says of a live run that its revisions are numbered and based on each other,
that the nodes, verdicts and skips of old revisions are what the latest one
inherited (`Sound`), that each running or unblocked node of the latest revision
has a command in hand (`Driven`), each pending delivery likewise (`Sending`), that
a run with a plan has an open node, a running review or an unfinished delivery
(`Pursued`), and one without a plan a planning command, if it was ever queued
(`Planning`); of a run that succeeded, that it was reviewed (`Reviewed`).
`SeenOnce` says that an outcome that was applied closed its node, so that an
inspection which finds it applied leaves nothing behind. Each applier has a lemma
`Fits(w, v)`: its rows are fit again and no node that was closed is open.
`LiveRunIsDriven` then needs that plans have no cycle: the queued work of a
revision has a first node (`FirstQueued`), which is unblocked and has a command,
waits for a running node, which has one, or waits for a node that will not be
freed.

**Remote Pi.** Assumed (`PiAssumption`): at least one generation and dialog, room
for two events that wait. The invariant is

    IInv == PiInv /\ RemoteTyped /\ Story /\ Ledger

`Story` is what makes the refinement inductive: from the origin's projection
through the events it has not applied to the row, each leads to the next by one
step of `PiLifecycle`, and the last describes the row. A step of the owner is
shown to be `Told` (it appends nothing, one fact or two, along the edges of the
lifecycle), and a step of the origin applies the first event that is left,
ignores a repetition, or forgets acknowledged events. `PiInv` has what the edges
need (a generation that is starting has not reached its agent; the abort timer
belongs to a cancelling run) and that a claimed reply takes its dialog off the
row until it returns. `Ledger` is the barrier: a command that has not been
dispatched had no effect. `OriginRefinesLifecycle` is `Init` to `Init` and step
to step or stutter; the fairness of the modules plays no part in it.

---

## 5. What the checks found

**`wf_verdict`** (`VerdictIsRespected`) is expected to fail. A repair revision
gets no review of its own: the review node of the first revision stays running
and reviews the repair. When that re-review refuses it (`changes_required` with
the `review_repair` budget spent, `cannot_assess`, or a verdict that stays
malformed), `submitVerdict` fails the node and evaluates the latest revision
(`orc-workflow-runner.ts:986`), and `evaluateTerminal` looks only at the nodes of
that revision and at reviews still running: all of them succeeded, so the run
ends `succeeded`. The comment at `:2619` says "repair waves must re-review,
never terminally succeed past the verdict"; the integration test of an exhausted
repair (`swarm-acceptance.integration.test.ts:383`) has no repair budget at all,
and so never has a second revision.

Met while modelling, in the models but not kept as runs of their own.

*Nested retries.* The comment at `reconciler.ts:928-930` says of attempts bound to
a live workflow run that the runner decides their retries, "no unbounded nested
retry multiplication". The failure of such an attempt emits `card:failed`, and the
driver drains the runner's commands synchronously (`orc-workflow-driver.ts:85`),
which binds the node to a new card (`orc-workflow-ports.ts:407-424`). The
reconciler's pass over the old card is a microtask (`reconciler.ts:149-150`);
`isCardRunnerManaged` (`orc-workflow-store.ts:426-440`) matches only the card a node
is bound to at that moment, so the pass falls through to the automatic retry, and
the node has two live attempts. The action is `AutoRetry`, and `OneLiveAttempt`
exempts exactly its attempts: without the two `nested` disjuncts it is violated in
the run `wf`. Such an attempt never is of the card by which a live run knows the
node, so its outcome never moves the node; what it costs is the work, the budget
and its effects on the workspace.

*Leases, workers and their settlement:*

* the card of a Pi attempt stays queued (`reconciler.ts:532`, `:823`), and so does
  that of an attempt whose start the session cap refused; a queued card returns
  before its lease is looked at (`:441-457`). The lease of such an attempt is never
  evaluated, whatever its deadlines, and a failed card goes to the retry service
  instead;
* an attempt that was asked to cancel is not evaluated again: when the cancel
  promise is lost, nothing ends it;
* a turn whose settlement threw (`spin.ts:1555-1560`) or whose verdict is
  unreadable (`:1565`, `:1608`) leaves attempt or card as they are until something
  else ends them. With a queued card that is nothing, and the attempt keeps its
  share of the capacity (`Stranded`);
* a candidate refused with `budget_wait` (`worker-supervision-store.ts:1119`) while
  no sibling is running waits for a wake that no one owes it;
* a workflow run whose attempt is never claimed waits for ever: the inspection of a
  pending attempt only extends the claim (`orc-workflow-runner.ts:1355-1358`);
* the answer to a Pi worker's question has no production caller
  (`retry/retry-service.ts:248`; the end-to-end runner
  `src/src/tests/e2e/local-swarm-runner.ts:551-590` is the only one).

*Scheduled runs:*

* an exception after the close of a row and before `emitTerminal`
  (`tasks/task-run-settler.ts:218`, `:263`; the writes between them are not caught)
  leaves the lane held by a closed run, and a second settlement answers
  `duplicate`. Nothing but a restart frees the lane; later occurrences find it
  taken;
* `requestRunTerminal` answers `stale` when its write failed
  (`tasks/task-state-store.ts:836-838`), and `cancel` ignores the answer
  (`tasks/scheduled-run-coordinator.ts:169-172`): the operator is told "requested"
  and the run may end as anything.

*Others in the worker swarm and the scheduled runs:*

* `terminalSettlement` answers `settled` with lifecycle `timed_out` for a
  completion beyond the grace window; `collectAndSettle`
  (`worker-supervision-service.ts:484-504`) looks at the kind only, so `finishSpin`
  (`spin.ts:1536`) completes the card of a timed-out attempt;
* when `start` fails after the attempt was settled and a successor allocated, the
  stale settlement is ignored but `projectAttemptCard` (`reconciler.ts:873`) runs
  all the same and fails the queued card of the successor;
* the follow-up of a gated script has an id that is in no task store
  (`tasks/scheduled-run-coordinator.ts:497`): recovery and the run-deadline source
  iterate stored tasks, so a follow-up interrupted by a restart stays unfinished
  and later follow-ups of that gate are refused;
* the grace granted by an inspection is not persisted
  (`executor-lease-reconciler.ts:161`): the next pass over the card cancels,
  where the policy's tests (`executor-lease-policy.test.ts:95,105`) wait for it;
* a rejected inspection leaves the phase `inspecting`: the callback's
  compare-and-set uses the version from before the phase was written
  (`executor-lease-reconciler.ts:170`); only the hard deadline ends such an
  attempt, and without one it stays;
* `safetyScan` does not look at `_started` (`lifecycle-wake-scheduler.ts:119`),
  so the heartbeat may scan ahead of recovery, against the comment at 51-53;
* a notification between the end of a scan and its `finally` is swallowed
  (`:134`) and waits for the next timer or heartbeat;
* lanes may exceed `capacity().max` between a start and its admission
  (`execution-control.ts:314`, `reconciler.ts:624`): occupancy does not;
* no due source lists `earliest_claim_at` of a pending successor
  (`tasks/due-sources.ts:198`): a retry skipped because of its backoff waits for
  an unrelated kick of the pump;
* a restart between the settlement of an attempt and its projection leaves the
  card `running` until something else wakes it (`reconciler.ts:1156`);
* the exhausted deferral of a manual run counts as a failure of the task
  (`tasks/task-run-settler.ts:484-502`);
* `retry_at` survives its retry, so the admission item of the task is overdue
  for good and the next occurrence waits for the heartbeat
  (`tasks/due-sources.ts:164`);
* `if (won)` tests a non-empty string (`tasks/task-service.ts:153`);
* the settlement of an `unknown` recovery passes no card id
  (`tasks/scheduled-run-coordinator.ts:271`);
* advancing a stale schedule keeps `retrying`, so the next cron occurrence is
  attempt 2 of the old group (still within `OneRetryPerGroup`).

Workflow runner:

* `settlePeerTerminal` reads the host review of the latest revision; after a
  repair that node does not exist, and the settlement of a succeeded peer run
  throws in every audit (`orc-workflow-runner.ts:1620`);
* live runs that nothing drives: a delivery that failed or is unknown; a node
  failed by an inspection, whose dependents are neither skipped nor re-reviewed;
  an admission whose workspace could not be prepared and that is never repeated.
  The audit reports them as ownerless;
* a question of a Pi worker leaves the node running "for the answer-retry"
  (`orc-workflow-settlement.ts:96-103`), but the audit's recovery finds the failed
  attempt and fails the node;
* the initial planning command of an incident's run is left behind by its own
  plan; its proposal is refused as stale after the settlement was claimed, and
  the inspection of the claim then ends the run if it is still live.

Pi runs:

* a cancel while the process has not been spawned commits `cancelling` and then
  throws on the missing client: no timer is set, starting settles nothing, and
  the run stays `cancelling` until the host restarts (`CancelEnds` is stated for
  a cancel that reached a process);
* a card projection that fails is not made up for by the next event when the
  table of allowed moves does not lead there (`boot/phase-pi-executor.ts:189`),
  although `remote-pi-origin-projection.ts:239` expects that;
* a repeated command that overlaps its first dispatch stores `outcome_unknown`,
  which the first one's answer then replaces
  (`remote-pi-control-handler.ts:134`: "so future replays are consistent");
* the handlers look for "no longer active" where the service says "is not
  active": a cancel of a run that is being cancelled answers `INTERNAL_ERROR`;
* a reply is answered with success even if it was not written and its dialog was
  restored; the origin keeps showing the dialog of a run that ended while it was
  waiting (`remote-pi-origin-projection.ts:482-487`).

---

## 6. Only model-checked, and left out

Only model-checked, on the bounds of section 3:

* all liveness properties (`HardDeadlineEnds`, `EveryDueItemIsWoken`,
  `PendingIsServed`, `CardCatchesUp`, `EveryRunSettles`, `RunSettles`, `CatchesUp`,
  `CancelEnds`), since fairness and `ENABLED` are beyond the prover.

Every safety invariant and every other action property of the passing runs is
the statement of a theorem of section 4. `VerdictIsRespected` is false
(section 5).

Abstractions a reader should know:

* *Lease*: one attempt, a discrete clock; reports that only enrich the snapshot
  (usage, labels) are not kept; of the card, whether a pass looks at its lease.
* *Wake scheduler*: sources are sets of due instants; a `wakeDue` may remove any
  of its overdue items; the millisecond tolerance is `RearmTolerance` ticks.
* *Swarm*: one project; the failure class of an attempt and the validity of its
  evidence are chosen; dispatch order, delivery columns, interactive sessions and
  quarantine are left out; a Pi executor appears through its unavailable and
  deferred branches. The release of reservations by a workflow's `cancelRun`
  (`orc-workflow-store.ts:972-1023`) is left out here. The reads of a settlement
  do not fail apart from the verdict's. That turns end is assumed of the
  environment.
* *Scheduled runs*: reminders, the daily cap, what a settlement writes to cards
  (but not that it may throw), report contracts, warnings and edits of the
  catalogue are left out. At most one fault happens in a step: a settlement that
  fails inside the handling of a refused start, after which `processLane`'s catch
  would start the next job beside one that holds the lane
  (`tasks/task-queue.ts:333-346`), is left out. An exception in a callback nobody
  catches, or in recovery, ends the process and is a crash. The evidence a project
  leaves for recovery is chosen; a repair from the history counts the retry delay
  from now rather than from the recorded end.
* *Workflow runner*: one run; a lookup of `isRunnerManagedCard` does not fail;
  instants an inspection cannot compare are a nondeterministic inconclusive
  inspection; `AnswerRetry` allows the answer that only tests give. An outcome is
  applied once (`seen`) in place of the ingress ledger; whether evidence is
  accepted, a proposal valid and a verdict well-formed is chosen.
  `requestInput`/`answerInput`, the breaker policy, `executeDelivery` and
  `CapacityBusy` have no production caller and are left out, and so are the path
  of an inspection for plan and review commands that the driver does not use and
  the review and delivery nodes that validation would allow in a proposal (the
  planning prompt asks for work and synthesis only). A delivery is sent in the
  segment that claims it, so its claim never waits for an inspection.
* *Pi runs and the origin*: one delegated run. The outbox holds the events that
  are not acknowledged; sequence numbers are positions. Workspace claims are held
  with the status and are left out, other runs only delay a dispatch. Status
  queries, the text of a steer, retention, supervised runs and coding sessions are
  left out, and so are the commands of a local operator, whose transitions are
  those of a command from the origin; `checkWallClock`, `compactProgressEvents`,
  `handleInboundEvent`, `getCursor` and `produceResumed` have no production
  caller. The number of progress events is unbounded, `MaxProgress` of them wait
  at a time.

---

## 7. Plan

In this order; each step is a module, its runs, its mutants and, where the
prover reaches, its theorems.

1. **`AttemptLifecycle`**, an abstract specification of one attempt (pending,
   active, terminal once, charged once), and `WorkerSwarm` shown to implement it
   for each card and ordinal; **`RunLifecycle`** likewise for `ScheduledRun`.
2. **`Supervisor`** (`supervisor/reconcile*.ts`, `state.ts` and the watchdog
   loop) with bridge processes that die, restart and reuse pids. Theorem: the
   validated owner is never the target of a signal.
3. Supervised Pi settlement, which joins `PiRun` to `WorkerSwarm`;
   **`ProjectReview`** rounds; **`IncidentCoordinator`** of `sha/`.
4. **`InstructionQueue`** with execution generations; the message pipeline's
   busy guard and completion buffer; the memory outbox.
5. A composition of `LifecycleWakeScheduler` with `ScheduledRun`'s deadline
   source, replacing the fairness assumed of a wake by the scheduler itself.
