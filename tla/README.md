# TLA+ models of agentic-stream

Agentic-stream turns a stream of evidence into Situations, lets bounded
reasoning episodes decide about them, and dispatches the actions that policy
approves.  Everything durable lives in one SQLite database; every change is one
write transaction, and writes are serialised.  What is hard to test is what
happens *between* the transactions: a model call that takes minutes, a provider
call that times out, a process that dies or is displaced while it still holds
results in memory.  These modules model the program transaction by transaction,
with everything a process read earlier and uses later as state of its own.

## The system

| Part | Packages under `src/internal` | Role |
| --- | --- | --- |
| Serving | `control`, `runtime`, `cmd/agentic-stream` | the owner lease, the life of a process, drain and kill of an epoch, the cost ledger |
| Intake | `ingress`, `eventlog`, `replay` | sources append envelopes once, bad ones are quarantined; recorded traces are replayed |
| Stream engine | `engine`, `operators`, `situations` | features per partition, watermarks and timers, versions of Situations |
| Reasoning | `cognition`, `playbook`, `watch`, `episodeledger`, `episodes` | triggers become scheduler items, items become episodes or are answered by rules; watches wake a Situation again |
| Execution | `executor`, `worker`, `evidence`, `draftport` | the worker's stream, the native model loop, bounded evidence calls |
| Governance | `decisions`, `policy`, `approvalledger`, `notify`, `api` | intents pass gates, wait for approvals and become commands; subscribers are told |
| Action plane | `actions`, `interlock`, `authority`, `device`, `plantwire` | leased outbox, last authorization, effect, outcome, reconciliation |

`PROJECT.json` lists every part with what is modelled of it, the source lines of
every definition, and the hazards of the code at their lines.

One thing ties the parts together: every runtime-owned transaction asserts the
**owner lease**.  A runtime process draws a fresh epoch, claims the lease and
recovers what earlier owners left in the same transaction.

## The modules

| Module | Models | Source |
| --- | --- | --- |
| `OwnerFence` | what the lease promises: at most one epoch passes `Assert`, a displaced one never again | `control` |
| `RuntimeOwner` | the lease row, clocks, claims, heartbeat, release, crash; with its proofs | `control`, `runtime` (service) |
| `ServeProcess` | `serve` and `run-live` from opening to closing: source, batches, maintenance, monitor, failures | `cmd`, `runtime` (pipeline) |
| `EpisodeLedger` | scheduler items, admission, episodes, attempts, supersession, drain, kill, reservations, recovery | `episodeledger`, `episodes`, `runtime` (admission), `control` |
| `ActionOutbox` | commands, outbox leases, authorization, effector call, outcomes, reconciliation, interlock | `actions`, `interlock` |
| `EventIntake` | file, live and feed sources, checkpoint, log, quarantine, release and redrive | `ingress`, `eventlog` |
| `SimulatorTrace` | the simulator source: grammar record by record beside batches | `ingress` |
| `EngineRules` | event time, operators, timers, reducers and phases, without transactions | `engine`, `operators`, `situations` |
| `StreamEngine` | the engine's transactions and reads, memory against store, handover, retention | `engine` |
| `TraceReplay` | a replay beside a live runtime: engine pass, episodes, verification, shadow trials | `replay` |
| `Cognition` | trigger rules, windows, queue, capacity, reconsideration, audits | `cognition` |
| `RuleReading`, `RuleRouting`, `RulePromotion` | what a rule reads; rules at work, audits and circuits; drafts, approvals, the playbook file | `playbook` |
| `WatchLedger` | install, expire and fire a watch | `watch` |
| `EvidenceCalls` | reservation, query, completion and recovery of evidence calls | `evidence` |
| `WorkerStream`, `NativeLoop` | the remote worker's event stream; the in-process model/tool loop | `executor`, `worker` |
| `Governance` | Decision to command: gates, approvals, limit, principals | `decisions`, `policy`, `approvalledger` |
| `NotifyLog`, `CostLedger` | the notification log and its streams; reservations against limits | `notify`, `api`; `control` |
| `DeviceAuthority`, `DeviceSession` | who may command a device; the gateway session on top of it | `authority`, `device` |
| `PlantHost`, `PlantConversation` | the plant wire's command side on `DeviceAuthority`; its listening side | `plantwire` |
| `EffectBoundary` | start flags, catalogs, sites, kinds, and the effector a command is routed to | `cmd`, `device`, `plantwire`, `runtime` |
| `MCServing`, `MCIntake`, `MCReasoning`, `MCExecution`, `MCGovernance`, `MCDevices` | instances for TLC | |
| `EpisodeLedgerSteps`, `EpisodeLedgerProofs`, `ActionOutboxProofs`, `StreamEngineProofs`, `WatchLedgerProofs`, `EvidenceCallsProofs`, `GovernanceProofs` | theorems | |

**How they compose.** `RuntimeOwner` implements `OwnerFence` (checked and
proved).  The ledger modules EXTEND `OwnerFence`, so they see every sequence of
takes and lapses the lease can show and nothing of its clock.  `DeviceSession`
and `PlantHost` both EXTEND `DeviceAuthority`: they are two drivers of the same
durable claims, bindings and barriers.  `RuleRouting` and `RulePromotion` share
`RuleReading`.  `StreamEngine` EXTENDS `EngineRules`, whose operators are the
code's pure functions; `TraceReplay` puts a replay session beside a live
runtime.

**How the state corresponds to the code.** A variable is a table, or a field of
a struct that outlives a call.  Table rows are records with the columns the
properties tell apart.  What a loop, a handler or a dispatcher holds between two
transactions is one more variable (`work`, `adm`, `batch`, `desk`), with the
step it has reached.  The main cases:

* `RuntimeOwner`: `leaseEpoch` and `leaseUntil` are the row of `runtime_owner`.
  A claim and a renewal read the clock before they wait for the write lock, so
  each is two actions with any delay in between.
* `EpisodeLedger`: an item, its episode and its reservation share one index.
  `Start` is `ClaimAndRecover` with all of recovery; `Publish` enqueues new
  triggers and coalesces, supersedes and cancels older work; the `Quarantine…`
  actions and `StartAttempt` are the outcomes of a claim, `RecordOutcome`,
  `RecordFailure`, `AbandonAfterExecute` and `RefuseResult` those of recording a
  result.  An execution may take any time and end in any status.
* `ActionOutbox`: `cmd`, `box`, `outcomes` and `ver` are the four ledgers of a
  command; `LeaseExpires` may end a lease at any time; `calls` and `applied`
  record what the outside world saw.  The provider is external: it applies the
  effect at the call or not at all, and returns a plain error only when it did
  not (`ProviderAnswers`).  `CloseOutboxOnly` needs a candidate row whose command
  is settled, which `LedgersAgree` excludes, so it is left out.
* `StreamEngine`: one variable per table the engine writes (`checkpoint`,
  `inbox`, `operators`, `timers`, `situations`, `versions`, ...); `work` is where
  a process is in its run, `active` and `cache` are the Situations and operator
  states it holds in memory.  `changes` counts how often a record changed
  operator state, so that a second application would show.
* `EvidenceCalls`: a call is reserved, queried outside any transaction, and
  committed or failed in a second one, by any of several handlers.
* `Governance`: `batch` holds the intent the loop picked and the clock it read,
  `desk` an approval that was stamped on arrival.
* `DeviceSession`: the session's lock is held for an exchange, and only the
  safe-stop latch is set outside it.  `PlantHost` reaches session state through
  calls the session's loop runs, as the code does.

Operators whose comment begins with "Fault" restate one definition with a
plausible slip.  No specification uses them; they show that each property fails
when the code is changed that way.

## What is checked

The composite instances hold several components.  In a behaviour one of them
moves and the others rest where they begin (the variable `part`), so each
component is explored over its own deployments and interleavings, and every
deployment named in the module's `Settings` is an initial state.

| Run | Properties | Distinct states |
| --- | --- | --- |
| `serving` | `ImplementsFence`, `DisplacedStopsServing`; `StopEnds`, `ApprovedDelivered` | 182,229 |
| `episode_handover` | `AttemptFencing`, `RecoveryComplete`, `OneDecision`, `DecisionGate`, `SettledOnce` | 693,219 |
| `episode_queue` | `OneLiveEpisode`, `EpisodesFinish` | 629,950 |
| `intake` | `CheckpointLosesNothing`, `TraceFaithful`, `MemoryMatchesStore`, `RecordsAccountedOnce`, `VerifiedSawTheSame`, `HeartbeatsFollowSamples` | 1,888,756 |
| `reasoning` | `AllowanceHolds`, `FiredInScope`, `WatchIsFinal`, `QueueDrains`, `RateCapHolds`, `ApprovalsKept` | 1,140,608 |
| `execution` | `OneAnswerPerCall`, `CommittedForCurrentAttempt`, `DecisionFromOneStream`, `CompletedCallsSettled` | 730,377 |
| `governance` | `PublishedUnderAuthority`, `OneQuestionOneAnswer`, `SkipsAreExplained`, `LimitsBalance`, `RowsClose` | 696,963 |
| `devices` | `EffectAtMostOnce`, `LedgersAgree`, `SettledTruthfully`, `SettledIsFinal`, `DeliverySafe`, `VerdictsTruthful`, `ConsentBeforeHardware`, `KeepsToItsFiles` | 1,276,135 |

All of these hold.  In words:

* **serving**: a process that lost the lease never passes its check again and
  stops serving; a process that is told to stop ends, whichever of its loops
  failed; what was approved is delivered, even when a wake-up is lost.
* **episode_handover**, **episode_queue**: a late or displaced result is refused,
  the next owner finds nothing half-done that it does not abandon, an episode has
  one Decision and one settlement, a Situation has one live episode, and every
  episode finishes in an undisturbed process.
* **intake**: a checkpoint passes no line without an outcome; the simulator's
  check, record by record and batch by batch, accepts exactly the well framed
  traces whose events the log admits, and a refused trace leaves whole batches
  only; a record is applied once and in order; memory is what a restart would
  read; a verified replay saw what the live workers saw; a heartbeat follows a
  fresh good sample.
* **reasoning**: while a process serves that is not draining, queued work leaves
  the queue; a rule fires at most its hourly cap whatever the order of event
  times; no approval and no edit of a rule is lost to another write; and a watch
  fires within its allowance and scope.  An edit of the playbook file that falls
  between the digest check and the rename is overwritten: `ApprovalsKept` names
  that window and nothing else as its exception.
* **execution**: a call is put to the provider once and answered from the ledger,
  for the running attempt only; an answer comes of one whole stream, to the
  request as it was bound and within its budgets; every completed model call is
  paid for, and one that completes after the attempt's context ended decides
  nothing.
* **governance**: a command is published only under authority; a question is
  asked and answered once, and an intent waits for nobody only when its request
  was withdrawn for a newer Situation version and announced as withdrawn; a
  subscriber is told of what it was not sent; a limit row is the sum of what
  stands behind it, and one that is created late misses no more than the
  reservations made before it; no outbox row is left behind while a dispatcher
  serves.  A row that is pruned between the bounds check and the row read of one
  page is passed over in silence.  That takes a prune beside a running page,
  under a lapsed lease, and `SkipsAreExplained` exempts just those rows.
* **devices**: an effect is never sent twice, not even when a lease expires or a
  process dies in flight; dispatch reports only what happened; nothing settled is
  reopened; a command crosses the link at most once and doubt keeps the device
  under reconciliation until somebody resolves it; what the host reports is true
  of the device; hardware is commanded only with both consents, and only within
  the routes, bounds and machines of the files the process accepted.

Four more runs end in a violation: each states a sentence of the repository that
the code does not keep to the letter.

* `episode_drain_race`, `DrainRefusesAdmission`: "new episodes are refused at
  admission" (`control/internal/app/epoch.go:64`).  The admission loop reads the
  epoch's state before it polls and not again in the admission transaction, so a
  drain between the two still admits one episode.
* `episode_reopened`, `ClosedIsTerminal`: "Closed reports whether the episode
  lifecycle is terminal" (`episodeledger/internal/domain/status.go:20`).  The
  quarantine of a stale episode asserts no owner and does not look at the
  current attempt; when a displaced process abandons an episode the owner is
  executing and that attempt fails, `RetainForRetry` makes it running again.
  The run sets the re-bind budget to 0, which stands for one already spent.
* `device_clearing`, `ResolvedOnlyWhenSettled`: "the durable store refuses to
  clear while command ledgers remain unresolved"
  (`device/internal/app/session_reconcile.go:12`).  The store counts commands
  whose outcome is recorded as unknown, being reconciled or in manual review.
  A command whose exchange ended untrusted in a process that was displaced is
  still dispatching in the ledger, so the next process clears the barrier over it.
* `plant_barrier`, `AnswersCoverEvents`: "the host has processed every node record
  up to through_seq" (`HSYNC.schema.json:5`).  The barrier looks at the queue; the
  feeder takes an event off the queue before it emits it, so the answer may come
  before the last event does.

A fifth sentence is of the same kind: "Trip blocks every effect for reason"
(`interlock/interlock.go:51`).  An effect that passed its last authorization
before the trip is still sent (for the plant wire, `plantwire`'s effector
authorizes before it writes).  `ActionOutbox` has that behaviour, and its
properties hold with it.

**Bounds.**  Two processes give every handover; a third epoch is an operator
whose claim recovers nothing.

* `serving`: one runtime, one operator, lease 2, clock to 5, so a lease is taken,
  lost and taken again; the process in four deployments (plant feed, socket,
  polled trace, one `run-live` batch) with at most one or two faults.
* `episode_handover`: one item and three attempts allow a failure, a recovery and
  a success of one episode.  `episode_queue`: two items of one Situation
  supersede each other in both orders.  `MaxAttempts` and `MaxRebinds` (3 in the
  code) are smaller so that they are exhausted.  Attempts are interchangeable,
  hence the symmetry set in the safety run.
* `intake`: logs of at most three records of two entities in two partitions, two
  sources and two boots, in six settings that each aim at one thing (boots, the
  phases of a Situation, handover, event time with lateness and skew, retention,
  rules that fail); files of three to five lines that may be rewritten once;
  simulator traces of up to five records with repeated, conflicting and
  inadmissible events, in batches of two; a plant node's records with barriers,
  rebirths and samples that go stale.
* `reasoning`: one watch, two events, clock to 2; up to three versions of two
  Situations with a drain, a failed admission and a restart, two rules with a cap
  of one, two drafts with crashes and edits by hand.
* `execution`: one call id, two fences, two handlers; every envelope of the stream
  with a defect in each field the reader checks, sequence numbers repeated, in
  order and skipped; at most four model calls.
* `governance`: two intents, two principals, two runtimes and an operator; logs of
  two cursors with prunes and corrupted rows; two tenants under one global limit,
  with rows that are created late; two dispatchers of two processes over a valid
  and an invalid command.
* `devices`: three dispatchers, or two and an operator who claims the lease, over a
  valid and an invalid command, with the interlock tripped and released.
  `MaxOutcomes` = 3 allows a dispatch outcome and two reconciliations, and bounds
  only reconciliation, which the code allows without end in manual review.  Two
  lives of the session, two commands, a reboot, and the largest sequence number
  within reach (`top` stands for `math.MaxUint64`).  In one setting of
  the plant host a dispatch may outlast its outbox lease (`Slow`); in the others
  a lease expires only when nobody works on its command.

**Deadlock** is not checked: identifiers and clocks are finite, every process may
have died, and a system without work stops.

**Fairness.**  `RuntimeOwner`: the clock advances, and the heartbeat goroutine of
a process that has not died is scheduled.  `EpisodeLedger`: the loops of an
undisturbed process are scheduled (`runGovernedBatch` runs the admission and the
runner again and again, an execution ends at its deadline); `episode_queue` uses
`UndisturbedSpec`, in which no process dies and no lease ends, because the code
promises no progress otherwise, and says nothing once the last attempt id is
used.  `ActionOutbox`: leases expire with time and the maintenance ticker calls
`DispatchOnce`; `RowsClose` presupposes one dispatcher that stays up, keeps the
lease and has not stopped on an error, since the maintenance loop returns on its
first error.  `Cognition`: the clock, and while a process is up its admission
loop and the end of running episodes; `QueueDrains` says nothing of a draining
or stopped one.  `ServeProcess`: every goroutine that can move is scheduled (weak
fairness of the main, batch, maintenance, monitor and source steps); the batch
lock is handed out fairly to those that keep asking (strong fairness of
`lockBatch`, as Go's mutex does in its starvation mode).  No fairness is assumed
of faults, operators, providers or devices.

## What is proved

TLAPS checks the theorems for all sets of processes, items, commands, calls,
intents, watches and records and for all values of the bounds, from the
assumptions named in the modules: markers are no identifiers, runtimes are
epochs, runners and dispatchers belong to runtimes, bounds are naturals, the
settings and catalogs are well typed.  TLC evaluates those assumptions in the
runs.

**The lease** (`RuntimeOwner`): `TypeCorrect`, `OwnershipCorrect`,
`RuntimeOwnerImplementsFence`.  The inductive invariant is
`TypeOK /\ OwnershipInv`.  A clock reading may be arbitrarily old when its
transaction commits; the row can be trusted nevertheless because a reading is
never ahead of the clock, a process claims once, and the claim transaction ends
with `Assert` on a fresh reading.  Every step is then a take, a lapse or a
stutter of `OwnerFence`.

**The episode ledger** (`EpisodeLedgerSteps`, `EpisodeLedgerProofs`):
`LedgerTypeCorrect`, `AttemptFencingHolds`, `RecoveryCompleteHolds`,
`OneDecisionHolds`, `ReservationHeldHolds`, `OneLiveEpisodeHolds`, and the action
properties `SettledOnceHolds` and `DecisionGateHolds`.  The invariant `IInv` adds
to the checked ones: rows refer to rows that exist (`RowsRecorded`), runners and
loops hold identifiers of recorded rows (`InMemory`), a live episode holds its
reservation (`LiveReserved`), a live episode of a killed epoch has no attempt in
flight (`KilledIdle`).  `ReservationHeld` alone is not inductive: that `Kill`
never releases a reservation an attempt still needs rests on `AttemptFencing`,
and that a late admission or a retry under a killed epoch is harmless rests on
`KilledIdle`.  `BudgetsHoldAlways` says the failed attempts and the re-binds of
an episode stay within their budgets, across restarts and reopened episodes.  It
needs that an episode which may still fail has a failure left in its budget
(`BudgetLeft`), and uses the library's facts about cardinality.

**The outbox** (`ActionOutboxProofs`): `OutboxTypes`, `CalledAtMostOnce`,
`OneStory`, `RecordedAsHappened`, `SettledStaysSettled`.  None of the properties
is inductive: each depends on what a dispatcher holds in memory.  `Safe` adds that
a command has at most one dispatcher at work on it (`OneHolder`), that one which
has not called the effector works on a command nobody called it for
(`UnsentUncalled`, `RowsUnsent`), and that an answer a dispatcher carries is what
happened (`AnswersTrue`).

**The stream engine** (`StreamEngineProofs`): `RecordsOnce` and `RunsKeepUp`.
That each record is applied once and in log order is not inductive: the inbox
row that would tell is pruned, so the code relies on the checkpoint.  `IInv` says
that the applied position is the largest position of a checkpoint
(`AppliedIsLast`), that only records up to it were noted late or set aside
(`NotedIsApplied`), and that a run of the lease's holder stands exactly there
(`OwnerKeepsUp`): nobody else moves it, and by `OwnerFence` a process that lost
the lease never holds it again.  What the operators, reducers and timers compute
does not enter the argument.  TLC checked this invariant on the `intake`
instance before it was proved.

**Evidence calls** (`EvidenceCallsProofs`): `EvidenceInvariance`,
`CallAnsweredOnce`, `CommitsAreCurrent`.  The invariant: a key was queried exactly
when it has a row (`QueriedOnce`), and every reply is the result of a completed
row (`RepliesStored`).

**Governance** (`GovernanceProofs`): `GovernanceInvariance`,
`AskedOnceAnsweredOnce`, `CommandsHaveAuthority`.  The invariant adds that a
stored row keeps the catalog's risk and approval flag (`LedgerTypeOK`), that a
picked intent is still pending while its process owns the lease
(`PickedIsPending`), that an answer names a request that exists
(`AnswersRequest`), and that an open request belongs to an intent that waits
(`RequestsWait`).

**Watches** (`WatchLedgerProofs`): `WatchInvariance`, `AllowanceIsExact`,
`FiresAreInScope`, `InstalledIsFinal`.  A batch fires on rows it listed earlier;
the invariant adds that what a batch holds is in the log (`BatchesInLog`) and
that every fire names an installed watch and a logged event (`FiresKnown`).

### Only model-checked

* Liveness, which the prover cannot do here: `DisplacedStopsServing`, `StopEnds`,
  `ApprovedDelivered`, `EpisodesFinish`, `RowsClose`, `QueueDrains`.
* Properties whose proof needs induction over data: `MemoryMatchesStore` (a fold
  over operators and features computes the same from the cache and from the
  store), `LimitsBalance` and `CompletedCallsSettled` (sums),
  `TraceFaithful` (a whole file against a record by record check).
* `CheckpointLosesNothing`: `EventIntake` reads a file with a RECURSIVE operator,
  which the prover does not support.
* `DeliverySafe`, `DecisionFromOneStream`, `SkipsAreExplained`, `RateCapHolds`, `ApprovalsKept`,
  `VerifiedSawTheSame`, `VerdictsTruthful`, `HeartbeatsFollowSamples`,
  `ConsentBeforeHardware` and `KeepsToItsFiles` have no proof yet.

## What is not modelled

* The compiler of specifications, canonical encoding, schemas, digests, telemetry
  and exports, test support: pure functions over documents, or no state that the
  runtime reads.  Identifier and clock sources are fresh values and ticks.
* SQLite is taken at its word: a transaction is atomic and durable, and writes
  are serialised.  A transaction that fails leaves nothing behind.  In
  `DeviceSession` a storage failure is a step for safe-stop records only.
* Transport: the goroutines of the socket server, the worker's draft call, the
  private evidence socket, provider streams and the OpenAI-compatible adapter,
  frames and their bytes, TLS and gRPC; torn lines of a trace.
* `EpisodeLedger`: the audit rows of rejected results, and a pipeline configured
  without an owner, whose attempts carry no epoch.
* `EngineRules`: mean, rms and slope, which are floating point; expressions are
  sets of feature views, in `Cognition` comparisons of a severity.
* `Governance`: shadow dispatch.  `CostLedger`: the 63-bit range checks.
* `RuleRouting`, `RulePromotion`: how a case is verified against later evidence (a
  case settles with either verdict), and the replay report, which is advice.
* `EffectBoundary`: whether a number is finite; a start that is refused is no
  step.  `DeviceSession` is checked against any caller, `PlantConversation`
  against any record of a node.
* `TraceReplay`: the deterministic baseline's choice of parameters, manifests, run
  directories and the comparison of repeated runs.
