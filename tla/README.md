# Verification of the K-Dense BYOK backend

TLA+ models of the backend under `server/src` of this repository, the TLC
configurations that check them, and proofs checked by TLAPS. Paths below are
relative to `src/`; `PROJECT.json` maps every definition to the lines it stands
for, and lists the hazards, the runs, a mutant of the code for every property,
and the findings.

    tlc -workers 2 -config Scheduler_schedules.cfg MCScheduler.tla
    tlapm ModalJobProofs.tla

## 1. The system

The backend is a Node.js process (`server/src/index.ts`) that serves a web
interface. It has two ways of working for a user: *chat turns*, in which a model
is prompted in an open session, and *workflow runs*, graphs of agent calls, tools,
gates and proofs. Both spend money, and both are watched from tabs that come and
go. Everything durable is files of a project; several backend processes may share
them, and each of them may be stopped or die at any time. Inside a process
JavaScript runs one thread: what happens between two awaits is not interleaved
with anything of the same process, but with everything of the others. Three things
run outside it: the *supervisor*, a detached process that outlives the backend and
runs provider work for it; the *pipeline engine*, vendored, with its own database
of runs; and *Modal*, where remote sandboxes run.

| component | state | operations | hard behaviour | what makes it correct |
|---|---|---|---|---|
| **Run store** `workflows/store.ts`, `run-state.ts` | per run: manifest, append-only event log, lease with a fence, write-once cancellation intent | create, append (owned or unclaimed), acquire / renew / release a lease, request cancellation, reconcile | owners stalled past their lease, deaths between two events, the same event id twice | only the lease holder appends; the log is one tenure after another with one terminal event; recovery finds every dead owner |
| **Controller** `workflows/controller.ts` | pending queue, active runs, abort signals | start, resume, cancel, stop, close, recovery loop | cancellation races with the last node, a shutdown with a resumption, two controllers on one run | every running run settles; cancelled never ends succeeded |
| **DAG runner** `workflows/runner.ts` | outcomes, activations, active lifecycles | start nodes, settle, route, rescue, evaluate gates, repair a history | deaths between any two events; routes recomputed by a later owner | all owners of a run together execute its graph once; rescues are bounded; the run ends |
| **File locks** `project-lifecycle-lock.ts` (copies in `store.ts:752-994`, `budget.ts:1164-1397`) | lock file, recovery lock file | acquire, release, recover a dead owner's lock | read and unlink are two calls; a recoverer dies | exclusion; the living keep their lock; the dead lose it |
| **Scheduler** `scheduling/*.ts`, `api/schedules.ts` | schedule documents, fire log | tick, catch-up, dispatch, run now, stop everything, edits | a tick acts on documents it read several awaits ago; deaths between record, run and cursor; daylight saving | every window is accounted for; pauses and stops hold; due windows are settled |
| **Budget** `workflows/budget.ts`, `cost/ledger.ts` | reservations with leases, compute reservations, ledger rows | reserve, renew, settle, reconcile stale, book | a lease that expires under its work; settlements sent twice, late or above their maximum | ceilings hold at every admission; each reservation is settled once |
| **Pipelines** `api/pipelines.ts` and the engine's run route | admission record, its reservation, the engine's row | admit, dispatch, repeat, replay, reconcile, settle | a dispatch whose answer is lost; record and reservation are two writes | the work starts once and never unrecorded; record and reservation agree; every admission is settled |
| **Supervisor** `workflows/supervisor/*.ts`, `kady-node-executor.ts` | attempts, attached epoch, journal records | attach, detach, delegate, settle, recover, quarantine, quiesce | backend and supervisor die independently; work outlives both | no work of a former owner runs beside the next one's; journal and budget agree; no caller waits for ever |
| **Modal jobs** `modal/*.ts` | jobs, sandboxes, compute reservations | submit, run, cancel, recover, reconcile | cancellation while the worker awaits; deaths between ledger and job | one start, a living sandbox is paid for and looked after, accounts are settled |
| **Chat turns** `api/sessions.ts`, `agent/session-registry.ts`, `agent/run-broker.ts`, `agent/runs-index.ts` | open sessions with pins, claims, handles with their frames, index rows, live spend | post, prepare, prompt, ask, finish, abort, evict, read, subscribe | aborts in every await, evictions of a claimed session, a tab that reads and subscribes while a turn ends | an admission counts a turn's spend once, an abort that the turn could hear holds, tab and index show what became of a turn, a claim is always given up |
| **Watchers** `durability-*.ts`, `compaction-watcher*.ts`, `context-watcher*.ts` | cursors and counters, operation store | observe, act, repair | restarts forget counters; a repair cut short | one action per signal (not modelled) |

How they interact: a route or the scheduler creates a run in the store and hands
it to the controller; the controller pumps it into the runner, which takes the
run's lease, appends through the store and asks the node executors for results;
executors reserve budget and delegate to the supervisor, which settles what the
provider reported; the executor settles what the supervisor did not. A pipeline
node is dispatched to the engine under an admission, and a compute tool submits a
Modal job under a compute reservation. Chat turns reserve nothing, but every
admission counts what they have spent. Cancellation goes the other way: an intent
in the store, which the owner polls, and an abort signal in the process that
happens to own the run; deleting a project quiesces controller, supervisor and
Modal jobs in turn. Every mutation of a run, a definition, a project or a budget
holds one of the file locks. The remaining components are listed in `PROJECT.json`
with the reason they are left out.

## 2. The modules

| module | models | lines |
|---|---|---|
| `WorkflowRun` | one run, its log, lease and intent, and the controllers, runners and recovery loops of several processes | 534 |
| `FencedLog` | abstract: what store and leases promise of a log | 58 |
| `DagRunner` | the scheduling loop and node lifecycles of one run, over several owners | 599 |
| `GraphRun` | abstract: a graph executed once | 46 |
| `FileLock` | the lock protocol, one file-system call per step | 339 |
| `ScheduleWindows` | which windows an expression has, and the two walks over them | 67 |
| `Scheduler` | ticks, requests, stops and deaths over the schedules of a project | 561 |
| `Budget` | the reservations of a project, their leases and ceilings, compute jobs and chat turns that share its limit | 349 |
| `BudgetHold` | abstract: money is held once and a hold is settled once | 36 |
| `PipelineEngine` | the engine's run route, its row and its worker, as the backend and its users meet them: what cancels a run, decides at its gate and resumes it | 293 |
| `PipelineAdmission` | one admission: its record and reservation, two requests, the reconciliation worker | 442 |
| `ModalJob` | the jobs of a project, their tasks, what Modal runs, and who pays | 437 |
| `Supervisor` | backends and supervisors that come and go, the journal, the work, the reservations both settle | 579 |
| `ChatTurn` | registry, turns, broker, aborts, index and tabs of a project | 591 |
| `WorkflowRunProofs` (with `FileLock`), `DagRunnerProofs`, `SchedulerProofs`, `BudgetProofs`, `PipelineAdmissionProofs`, `ModalJobProofs`, `SupervisorProofs`, `ChatTurnProofs` | theorems (section 4) | |
| `MCDagRunner`, `MCScheduler`, `MCBudget` | instances for TLC | |

How they compose. `WorkflowRun` INSTANCEs `FencedLog`, `DagRunner` INSTANCEs
`GraphRun`, and `Budget`, `Supervisor` and `PipelineAdmission` each INSTANCE
`BudgetHold`: the abstract specification is a PROPERTY of a run, a theorem, or both.
`BudgetHold` is the seam between the budget and its callers: Budget shows that the
store keeps the promise, and Supervisor and PipelineAdmission are shown to ask of it
nothing that the promise does not allow, however often they repeat a settlement.
WorkflowRun treats the graph as a single node, DagRunner treats the lease as
something that can be lost; between them they cover the runner. `Scheduler` EXTENDS
`ScheduleWindows`, `PipelineAdmission` EXTENDS `PipelineEngine`. Every lock that
`FileLock` shows to exclude is one atomic action in the modules above it.
`WorkflowRunProofs` EXTENDS both the run store and the lock that guards it, which is
why the specification of the lock is called `LockSpec`, its type invariant
`LockTypeOK`, and so on.

### WorkflowRun

*State.* `run` is the fold of the log (`reduceWorkflowRun`), `log` the events with
the fence they were written under, `lease` the lease file with its remaining life
in ticks, `intent` the cancellation file, `ctl[c]` the volatile state of process
`c`: the phase of its entry, its two abort reasons (controller and runner), the
fence and the sequence number its writer holds.

*Actions.* One per operation of the store, controller or runner between two
awaits: `Start`, `Resume`, `Pump`, `CreateExecutor`, `CheckRunnable`,
`AcquireLease`, `ReadOwnedRun`, `Begin`, the loop (`LoopSchedules`,
`NodeSettles`, `LoopAborts`), `Heartbeat`, `PollCancellation`, `Cancelling`,
`ReleaseLease`, the fallbacks of a failed execution (`PersistCancellation`,
`PersistOutcome`, `PersistSecond`), `Cancel`, `StopRun`, `Reconcile`, `Close`,
`Exit`, `Crash`, `Restart`, and `Tick` for the clock. A store operation runs under
the run's lock and reads again what it compares, so it is one step. A stall is
the clock ticking past a lease whose owner does nothing.

*Left out.* Creating the run, the states waiting, blocked and paused (interviews),
torn writes and their repair, size limits.

### DagRunner

*State.* `log[n][a]` is what the log says of attempt `a` of node `n`; `outcomes`,
`first` and `propagated` are the maps of the owner's memory, which a death erases
and `ReadHistory` and `Propagate` rebuild; `task[n]` is the lifecycle of an active
node.

*Actions.* Each append is a step, so that a death may fall between any two.
Synchronous sequences are not interleaved with each other (`Free`).
`PROJECT.json` maps the reducer's conditions (`AcceptsNodeStarted` and so on) to
`run-state.ts`: an append the reducer refuses raises an error in the model as it
does in the code.

*Abstraction.* What a node returns is a choice: success, failure, for a gate its
answer, for a node with an evidence policy (`Checked`) its verdict, for a lean4 node
without one (`Proofs`) whether the verifier failed it; all three are recorded before
the node's end, by `gate_evaluated` or `evidence_checked` (`Judge`), under an id
without an occurrence. Whether a failure is one the rescue policy covers is a flag
of the failure. Artifacts, sources and usage are left out.

### FileLock

*State.* The two files, and for every process the point of the protocol it has
reached and what it has seen. A file carries the life of the process that created
it (pid, token and inode in the code), whether it has been written, and whether it
is older than the stale limit. A process may die at any point. `usurped` is a
history variable: a process has unlinked, by name, the recovery lock of a living
one. Every process is on one host: the code never
recovers the lock of another host.

### Scheduler and ScheduleWindows

*State.* `doc[s]` is the document (enabled, expression, cursor, last window, last
reason), `fires[s]` the fire log, `started` and `going` the runs, `tick` the
documents a tick has read and the fires it has left, `asked` the runs whose
cancellation has been requested, `flight[c]` what a dispatch
awaits, for the tick and for one "Run now", `stopper` a "Stop everything" that is
cancelling. A record also carries the last instant it speaks for, which the code
has in its text.

*Actions.* `Evaluate` is the whole of `#evaluate` up to its await: the records of
the windows passed over, the decision, and the cursor if nothing is dispatched.
`Post` is the run route, `Settle` what follows the answer. `Die` may cut
`Evaluate` or `Settle` after any of its writes. `RunNow`, `Pause`, `Resume`,
`Edit`, `Delete`, `StopEverything` and `CancelRun` are the routes. A cancellation that
is accepted leaves the run going: it ends in a step of its own (`RunEnds`), or at
once when nobody executes it.

*Abstraction.* `refused` stands for every answer that is not a run. The probe
(`executionBlocker`) and the POST are one step, since the probe changes nothing.
Creating a schedule is in `Init`. A window is an instant and the key it carries; a
fall-back of the clock is two instants with one key. One manual dispatch and one
stop at a time. `KeysGoForward` is what the model assumes of a wall clock: while an
instant of some local time is still to come, so is one of every later local time. A
fall-back repeats what it repeats up to its end, so this holds of every time zone,
except at the end of a model whose last instant lies within the repeated hour.

### Budget and BudgetHold

*State.* `reservation[r]` is a record of the store (absent, active with the time
its lease ends, or ended with the settlement that ended it), `compute[j]` the
reservation file and the ledger row of a Modal job, `booked` what chat turns have
put into the ledger, `now` the clock, `reading` the admission that holds the cost
lock with the ledger rows it has read; `missed` is history: the jobs an admission
found neither booked nor reserved.

*Actions.* `Reserve` (which reconciles expired leases first, also when it then
refuses, checks the identity and the run's ceilings and reads the ledger's rows) and
`Admit` (which reads the reservations and decides); `ReserveComputeBudget` and
`AdmitJob` alike; `Renew`, `Settle`, `ReconcileStale`, `BookComputeCost`,
`ReleaseComputeReservation`, `RecordRun`, `RecoverDeadLock`, `Tick`. The store's
operations exclude each other by the project's cost admission lock; booking and
releasing a job and booking a chat turn take no lock, so another process of the
project does them between the two reads of `projectCostSummary`.
`BudgetHold` keeps of all this that an identity is held once and settled once.

*Left out.* The envelopes a pipeline distributes over its nodes, unreadable
records, the archive of old ones, and that the rows are read session by session and
the reservations file by file: the model reads all rows at the instant of the first,
which misses more.

### PipelineEngine and PipelineAdmission

*State.* The engine's `row` of the run with its dispatch state, the process that
claimed it and whether it has a completion watermark; where each `request` is and
which of them are still waited for (`listening`), the `executor` of each claim and of
a resumption, the decision that is being written at a `gate`; `users` counts what
users have done to the run, and `endings` is history: the terminal states the row has
been in. The backend's durable `record` of the admission, its reservation (`hold`),
the instance that owns its intent (`owner`), and the points its handlers and its
worker have reached (`proc`).

*Actions.* A request is written ahead, in transit, inserted, claimed, answered
(accepted, unclaimed, rejected, failed) or lost, each a step of its own; the handler
asks, adopts, replays, releases or settles according to what it is answered.
`SetupFails`, `RebindRun`, `LaunchFails`, `ExecuteRun`, `PauseRun` and `EndRun` are
the engine's worker: a run that fails before it starts gets a watermark of zero usage
only where the error proves that no provider was reached (`LaunchFails`), and an
execution ends the row only if that is still running. `DecideGate`, `WriteDecision`,
`CancelRun` and `ResumeRun` are its users: a terminal row need not stay as it is.
`BeginSettlement`, `SettleHold` and `FinishSettlement` are the three writes of a
settlement; `StartPass`, `WorkerAdopts` and `ReadRun` the reconciliation worker, whose
every call may fail (`EngineUnreachable`); `LeaseRunsOut` the store's expiry.

*Abstraction.* A lease is no clock here: since only a pass that reaches the run renews
it, it may run out at any time, under a living backend too, and a lapse counts as a
disturbance. A cancellation's read and write are one step, in which the row may have
failed since it was read. Left out: the fresh run that a resume starts without an
admission when nothing was completed, the deletion of terminal rows from the engine's
interface (`api.ts:3873`), a disabled engine, the status "indeterminate" that nothing
writes, and per-node usage.

### ModalJob

*State.* `job` the record, `task` the promise that works for it in this process
(what it awaits, the sandbox it has created, the instance types it has left),
`remote` what Modal has: sandboxes created and alive, and how often a command was
started; `hold` and `ledger` the money.

*Actions.* `Submit`, a step per await of `executeJob` (`EnvironmentReady`,
`SandboxCreated`, `PersistSandbox`, `UndoSandbox`, `StartCommand`, `CommandEnds`,
`OutputsCollected`, their failures, `TerminateSandbox`), the three writes of the
reconciliation (`BookCost`, `ReleaseHold`, `MarkReconciled`), `Cancel`, the
deletion of a project (`CancelProject`, `ProjectCancelled`, `ResumeProject`), death
and `Recover`, `Attach`, and `SaveCredentials`, which recovers again. Every call of
Modal may be lost, and so may its answer.

*Left out.* Batches, retries, reattribution, log synchronisation, file transfer.

### Supervisor

*State.* `sup` is the supervisor process (its owner, the attach it has begun,
whether it drains), `attempt[o]` what it remembers of an operation, `journal[o]` the
operation's durable record, `work[o]` the provider's work, which neither death
ends, `wire` and `reply` what is on its way, `backend` the current backend and
`call[o]` what it does about an operation, `hold[o]` the reservation.

*Actions.* The backend reserves, sends, aborts, gives up, delivers and settles
(`Reserve` ... `SettleCall`); the supervisor receives, starts, journals a
settlement, applies it, records it, and concludes (`Receive` ...
`ConcludeUnpersisted`), each write a step that may fail; `AttachInherited`,
`LaunchFresh`, `Attach`, `Refuses`, `Shutdown`, `QuiesceProject`, `Detach` and their
ends are the life of the pair. `SupervisorDies` also cuts `beginAttempt` between
its two writes; the death of a backend closes its connection, but not at once.

*Left out.* Reloading credentials, the server's connection pools and duplicate
windows, the startup lock, framing, the loss of the control lease by a process
that lives, two backends alive at the same time, several projects. Hosted and
delegated operations are one kind. The rest of a project's deletion
(`projects.ts:250-284`), from the answer to the quiescence to the removal of the
directory, is part of `QuiesceEnds`: a reservation that cannot be found any more
(`Reserved`) is what keeps a late request from starting, and a request that is still
in a socket between the two, of a run that has ended without settling, is not seen.

### ChatTurn

*State.* `live`, `recency`, `object`, `pinned` are the session registry, `claim`
and `handle` the broker's two maps, `turn[t]` the request and its detached owner
with the frames it has published, the money it has spent, the tally of the calls that
ended and what its session's statistics have lost since (`hidden`), `stop[s]` an abort
request and the turns whose agent it awaits, `ledger`, `tracked` and `row` what is
written or reported of a turn, `tab[b]` a tab with its cursor and what it shows.

*Actions.* From one await to the next: `Post`, `PostOpened`, `PreflightFails`,
`Begin`, `PrepareFails`, `Detach` (the owner's look at the abort flag, then `prompt()`
is called), `AgentRuns` (what `prompt()` awaits is there and `isStreaming` flips),
`Spend`, `Compact`, `Ask`, `Answer`, `PromptEnds` (perhaps in the middle of a call),
`Finish`, `Conclude` (the ledger row and the terminal row may fail to be written);
`Abort`, `AbortSession`, `AbortReturns`; `Visit` and `VisitOpened`, another request
that opens a session and may evict others; `ReadState`, `Connect`, `Receive`,
`StreamEnds`, a tab; `Expire`, the retention of a completed handle; `Die` and
`Reconcile`. What runs in one microtask drain (the return of `getSession`, the guard
and the claim) is one step.

*Abstraction.* A frame is its number, money is one unit per model call. The provider
may spend, publish and ask, and ends. A live run reports the growth of its session's
statistics (`Report`), which a compaction lowers; its ledger row has the larger of
that and the tally (`RunCost`). Left out: steering, the POST's own stream, deleting the
project, helper profiles, forks, the reload of a page; a tab asks for events within
their retention, and an active turn is aborted at most once.

## 3. What is checked

Each passing run has, for each property, a mutant of a mapped definition that
breaks it under the run's own configuration (`PROJECT.json`).

| run | instance | states | what it shows |
|---|---|---|---|
| workflow_run_owners | 2 processes, 1 lease tick, 1 resumption, 2 stops among deaths, shutdowns and stalls | 465,758 | the log stays contiguous (`TenuresAreContiguous`), a live owner's writer is at its end (`OwnerIsUpToDate`), an accepted cancellation never ends in success (`CancelledNeverSucceeds`), the whole implements FencedLog (`ImplementsFencedLog`); a running run settles although its owners die (`RunningRunSettles`), and a cancellation stops it (`IntentStopsRun`) |
| file_lock_exclusion | 2 processes, each dies twice, at any point | 98,492 | exclusion, until the recovery lock of a living process is unlinked by another (`ExclusionUntilUsurped`); till then a lock file with a living owner disappears only by that owner's release (`LivingOwnerKeepsLock`); a dead owner's lock is recovered, unless a recoverer died before it wrote its file (`DeadOwnersAreRecovered`) |
| dag_safety | 4 nodes: a rescued one with an evidence policy and outcome routes, a gate that routes, a proof that is rescued, two any-ready merges, two in parallel; 2 deaths or stops | 466,581 | rescues are bounded over all lives and always closed (`RescuesAreSound`), no owner finds a contradictory history (`HistoryIsConsistent`), only a node judged twice makes a run fail on its own log (`OnlyJudgedAgainFail`), all owners together implement GraphRun (`ImplementsGraphRun`), and the run ends unless it was stopped between a decision and the end of its node (`RunEndsUnlessHalfDecided`) |
| scheduler | a cron schedule over a fall-back and a paused interval schedule, one fire per tick, 4 instants, one request, one mishap | 601,570 | every local time whose last instant the cursor has passed is in the fire log (`AuditIsComplete`), overlap skip means one run (`SkipMeansOneRun`), a stop misses no run and pauses hold (`PausesHold`), no due window stays for ever (`DueWindowsAreSettled`) |
| budget_ceilings | 3 reservations of 2 runs, 1 compute job, limit 5, leases of 1 tick, 2 ticks | 724,491 | a run commits no more than its ceilings but for what settlements report above their maximum (`RunCeilingsHold`), nor a project more than its limit but for the jobs an admission missed (`ProjectLimitHolds`); the store implements BudgetHold (`SettlesOnce`) |
| pipeline_settles | 2 requests, 1 worker, 1 disturbance: the death of either process, a user's cancellation, decision or resumption, a lapsed lease | 877,160 | the work starts once and never unrecorded (`DispatchIsSafe`), record and reservation agree (`SettlementsAgree`), nothing is charged but for an ending the run really had (`ChargedRunsHaveEnded`), every reservation is settled without a client asking unless the run is stranded (`AdmissionSettles`) |
| modal_jobs | 1 job, 2 instance types, 3 sandboxes, 2 deaths | 18,519 | the command starts once (`CommandStartsOnce`), a living sandbox is paid for (`LiveSandboxIsPaid`) and has a task (`LiveSandboxHasTask`), a deleted project has nothing left (`DeletionLeavesNothing`), jobs are settled (`JobsAreSettled`) |
| supervisor_recovery | 1 operation, 2 backends, 1 death of the supervisor, 1 failing write | 286,359 | no work of a former owner runs beside the next one's nor behind a closed record (`OwnershipHolds`), journal and budget agree (`UsageIsAccountedFor`), a deleted project is quiet (`DeletedProjectIsQuiet`); no call waits for ever (`CallsEnd`), no start does (`BackendsStart`) |
| chat_turns | 2 turns, 2 sessions, cap 1, 2 objects, 2 frames, 1 tab; 1 death, compaction or unwritten row | 1,118,642 | an admission counts a turn's spend once, and less only after a compaction (`SpendIsSeen`), an abort that the turn could hear holds (`AbortsHold`), tab and index show what became of a turn (`ReadersAreRight`), a claimed session is not disposed (`ClaimedSessionStaysOpen`), every turn gives up its claim and its row (`TurnsSettle`) |

Three runs show a disagreement between the code and what the repository says of
it; `findings` quotes both sides.

| run | property | what happens |
|---|---|---|
| dag_gate_restart | `RunEnds` | a death after `gate_evaluated` leaves a run that no resumption can finish: the gate's second answer is refused under the event id of the first; `evidence_checked` of other nodes is no better |
| pipeline_accepted_work | `NeverReleasesAcceptedWork` | a request is still in transit when the engine is asked for it; "not found" releases the reservation, and the engine then claims the work |
| scheduler_fall_back | `FirstOccurrencesRun` | with two local times in the hour a fall-back repeats, the walk goes from the first 01:00 to the second and passes the first 01:30 without a record; the second 01:30 fires, though `docs/schedules.md` says the first occurrence does |

The type invariant of every module (`TypeOK`, of FileLock `LockTypeOK`) is a
theorem, so no run checks it.

### Bounds

*Processes.* Two processes meet in every race of the store: the owner and the one
that acts behind its back. The lock's two processes each have three lives, so that a
recoverer of a recovery lock may die too; exclusion is proved for any number. *Deaths
and stops.* Two let a recovery be interrupted. One is enough for Supervisor, where
two processes die independently, and for the admission, where the second life only
repeats the first; there `MaxDisturbances` counts lapses of the lease and users'
steps as well, and in ChatTurn `MaxTroubles` counts deaths, compacted turns and
terminal rows that are not written, so that each is met alone. *Lease ticks.* One
tick separates live from expired; a longer lease only adds stuttering ticks.
*Graphs.* Four nodes hold a fan-out, merges, a gate, an evidence policy and a proof,
rescues of the last two and both outcome routes. *Schedules.* Two compete for one
fire. Four instants hold a repeated local hour, a window that expires and one that is
passed over; a limit of one listed window is already exceeded. *Money.* A limit of
five is exceeded by three reservations and a job; the usages are below, at and above
a maximum. *Requests.* Two requests of one admission are the request and its
repetition. *Sandboxes.* Three are the first, the one of the next instance type, and
one after a recovery. *Operations.* Operations meet only in the supervisor's own
steps (attach, drain, death), so one is enough for what a record, an attempt and a
reservation say of each other, and the safety properties are proved for any number;
they also hold for two operations with one backend. *Sessions.* With a cap of one,
two sessions compete for the place, two turns for a claim, and a frame can be read
before, between and after the two requests of a tab. All counters that bound a model
are constants named `Max...`.

`CHECK_DEADLOCK` is off where the system may stop: a run, a job, a turn or an
admission that has ended and of which nobody asks anything, a clock that has
reached its horizon, a backend that is never started again.

### Fairness

*WorkflowRun.* The clock goes on. A process that is up runs its promises to their end
(`Progress`); its interval timers, the heartbeat and the cancellation poll, fire; the
recovery loop (`startRecoveryLoop`, 5 s) starts what is queued and reconciles what is
dead; a dead process is restarted. Users' requests, deaths and stops are never fair.
*DagRunner.* The thread and the executors (which have time limits) go on; a lapsed
lease is reconciled and somebody resumes an interrupted run: without that, the run
legitimately stays interrupted. *FileLock.* A process calls again and runs its
synchronous code; files grow older. *Scheduler.* One weak fairness: the event loop
does not stop while it has something to do, and a process that went down is started
again. Time and requests are not fair. *PipelineAdmission.* The backend is started
again and its reconciliation timer fires; handlers go on; the engine's handlers and
its executions go on, as does a decision that is being written; that the engine
answers the worker is strongly fair, since it is asked again and again and some
answers are lost. Nobody has to send a request, to cancel, to decide or to resume.
*ModalJob.* The backend is started again and every await of a task returns, in time
or with an error (the adapter has time limits). *Supervisor.* Both processes go on, a
backend that is not there is started, work that was cancelled or is past its deadline
ends. *ChatTurn.* What a turn awaits comes back, a prompt ends, forms are answered or
time out, and somebody reads the index: each is weakly fair, a prompt's calls being
finitely many (`MaxFrames`).

### What the properties except

`AuditIsComplete` speaks of the last instant of a local time only: the code passes
first occurrences in a repeated hour without a record, which is the finding of
`scheduler_fall_back`. `AuditIsComplete` and `PausesHold` except a schedule that was
edited between a tick's reading of it and its evaluation: the tick then decides by
the old expression and moves the cursor over windows of the new one.
`SkipMeansOneRun` excepts deaths, manual runs and runs that were created but refused
by the controller, since the code looks up one run only, `lastRunId`. `PausesHold`
takes the stops during which nothing of the schedule is in flight: a window in flight
runs although its schedule was stopped. And a stop asks the runs to end, it does not
wait for them: that a run asked to end does so is `IntentStopsRun` of WorkflowRun.
`RunCeilingsHold` and `ProjectLimitHolds` allow what a settlement reports above its
own maximum, which the code charges. `ProjectLimitHolds` also leaves out the jobs in
`missed`: `projectCostSummary` reads the ledger's rows (`ledger.ts:682`) before the
compute reservations (`:699`), so a job that another process books and releases in
between counts as neither, and the admission may pass the limit by it. Read in the
other order a job would count at least once. `SettlementsAgree` allows the settlement
of an expired lease and of an owner that could not write its record.
`ChargedRunsHaveEnded` speaks of an ending the run has had, which need not be its
last: a row that was read as terminal may be resumed or cancelled before it is
charged, or afterwards. `AdmissionSettles` excepts a restart of the engine, after
which a row that a dead process claimed is claimed by nobody
(`pipelines.ts:700-703`), and a run that nobody works on (`Stranded`): one that waits
at its gate or for a repetition of its request, or was left where its execution broke
off. A reservation that its lease or an owner without a record has charged counts as
settled. `LiveSandboxHasTask` holds until a call of Modal is lost or the backend
dies: a death between the creation of a sandbox and the write of its identity leaks
it until its timeout (`manager.ts:630-640`). `AbortIsAuthoritative` is about aborts
that found a handle, and excepts those the turn could not hear: when
`session.abort()` came after the owner's look (`sessions.ts:1334`) and before its
agent ran, where it does nothing and the turn goes on, or met another object, because
the session had been opened again behind the turn or evicted in the step that opened
it (`session-registry.ts:1059-1061`). `SpendIsSeen` allows an in-flight report to lie
low after a compaction, as `sessions.ts:1350-1353` says it does (`:1386-1389` has it
otherwise); the ledger row then has at least the calls that ended. It leaves out the
turns a death has lost, and a turn whose ledger row could not be written is counted
by nobody. `ledger.ts:607-611` allows a reader to see row and report of one turn
together; there is no await between the two writes, so no admission of this process
does. `TurnsSettle` allows a terminal row that could not be written to stay "running"
as long as its process lives; `listRuns` of the next one then says "interrupted" of a
turn that had ended.

### Seen while modelling, without a run of its own

A start that waited in a queue resumes a run that was interrupted meanwhile
(`runner.ts:1630`). The second shutdown of a run appends nothing, since its event id
was used by the first. Two processes that find the same dead recoverer may both get
the lock: the slower one unlinks the recovery file of the faster one
(`project-lifecycle-lock.ts:279`), which is the case `usurped` that the properties of
FileLock except, and in it the code does lose exclusion. A lock file, or a recovery
file, that was created and not written is never recovered (`:229`). "Stop everything"
does not reach a run whose record is beyond the newest 200. The startup recovery of a
second backend lists the jobs before the reservations (`manager.ts:1088-1096`), and
releases that of a job submitted in between. A Modal job that is terminal when the
backend dies before terminating its sandbox is reconciled but not terminated again
(`manager.ts:1100`), and a failed termination of a sandbox that was just created for
a cancelled job clears its identity (`manager.ts:653-676`). A supervisor that refuses
a shutdown stays `shuttingDown` (`coordinator.ts:1010`). A settlement that the
supervisor has journalled but not applied when it dies is applied by nobody:
`coordinator.ts:515-518` says `recoverPendingSettlements` finishes it after a
restart, and only tests call that. The record is quarantined by the restart, every
attach is then refused, and in the model the reservation stays held. A decision at a
gate writes "failed" over a run that has not ended (`api.ts:3761`,
`db/workflows.ts:788`); the worker may read it, charge the run in full without a
watermark, and the run then resumes unreserved. A run that is cancelled while it is
pending is set running by `executeWorkflow` (`executor.ts:806-820`). A watermark
survives a resumption, since metadata is merged. A run whose working directory or
status cannot be written when it starts stays pending, and its reservation is renewed
for ever. An abort in the preflight of a turn, before its handle, is lost
(`sessions.ts:919`), and so is one between the owner's look and the start of its
agent. Nothing repeats the write of a turn's ledger row or terminal row
(`sessions.ts:1199-1220`). Two cold opens of one session build two objects, and a
session that was just opened is evicted when all others are pinned. Each is a step of
the models or a bound of them, and most are hazards in `PROJECT.json`.

## 4. What is proved

TLAPS proves the following for every value of the constants that the named
assumptions of the modules allow: any number of processes, operations, jobs,
requests, sessions, turns, tabs, deaths and failures.

| theorem | says |
|---|---|
| `TypeCorrect`, `TenuresHold`, `OwnersAreNotSurprised`, `CancellationNeverSucceeds` | the invariants of WorkflowRun |
| `WorkflowRunRefinesFencedLog`, `FencedLogIsContiguous` | the run store implements FencedLog, whose log is contiguous and ends at its first final event |
| `LockTypesHold`, `ExclusionHolds`, `LivingOwnersKeepLocks` | wherever processes die, the lock excludes and no living owner loses it, until a living recoverer's lock has been unlinked by another (`usurped`) |
| `DagRunnerTypes`, `RescuesStaySound`, `HistoryStaysConsistent`, `OnlyJudgedAgainAreRefused` | the invariants of DagRunner: over all owners rescues are bounded and closed, no owner reads a contradictory history, and nothing but a gate, an evidence policy or a proof that is judged twice is refused by the log |
| `RunImplementsGraph` | all owners of a run together implement GraphRun: they execute the graph once |
| `SchedulerTypes`, `FireLogAccountsForEveryWindow`, `SkipLeavesOneRun`, `PausedAndStoppedSchedulesAreQuiet` | the safety properties of the scheduler, for any number of schedules and any expressions (`KeysGoForward`) |
| `WalkIsWalk`, `EvaluationIsSound` | what two of its algorithms compute: the windows between two instants, and what one evaluation records and passes over |
| `BudgetTypeOK`, `BudgetSettlesOnce` | the budget store implements BudgetHold: a hold is settled once |
| `BudgetCeilingsHold`, `BudgetLimitHolds` | at every time, a run's commitments are within its ceilings and a project's within its limit, but for what settlements report above their maximum and, of the limit, the jobs an admission has missed |
| `PipelineTypeOK`, `PipelineDispatchIsSafe`, `PipelineSettlementsAgree`, `PipelineChargedRunsHaveEnded` | the safety properties of an admission |
| `ModalTypeOK`, `ModalStartsOnce`, `ModalSandboxIsPaid`, `ModalSandboxHasTask`, `ModalDeletionLeavesNothing` | the safety properties of Modal jobs |
| `SupervisorTypeOK`, `SupervisorOwnership`, `SupervisorAccounts`, `SupervisorQuiet` | the safety properties of the supervisor |
| `SupervisorSettlesOnce`, `PipelineSettlesOnce` | the reservations that backend and supervisor both settle, and the one an admission's requests, worker and lease settle, implement BudgetHold |
| `ChatTypeOK`, `ChatOneTurn`, `ChatSpendIsSeen`, `ChatAbortsHold`, `ChatReadersAreRight`, `ChatClaimedSessionStaysOpen` | the safety properties of chat turns |

Each proof has the same shape: an inductive invariant `IInv`, one lemma per action
that it is kept, and the properties as its consequences. What the invariants add
to the properties, and why:

*WorkflowRun.* The state of the log alone is not inductive: what an owner may
append depends on its lease, and what the lease allows on what the log says. The
invariant joins them: the status is the fold of the log, a process in an owner's
phase with the fence of a live lease is the only one that can write and is at the
end of the log, and an intent keeps `run_succeeded` out. Contiguity comes by
refinement: each step maps to a grant, a write or a close of FencedLog, or to a
stutter, and FencedLogIsContiguous does the rest.

*FileLock.* The property says nothing of the recoverers, so the invariant adds, as
long as no living recoverer has lost its lock (`Ownership`): who is in the critical
section, or has created the lock, owns the main file (`HolderOwnsFile`); who is
recovering owns the recovery file (`RecovererOwnsFile`); what a recoverer is about
to unlink belongs to a dead life (`StealsTheDead`). And at all times: what a process
has confirmed of a recovery file it is about to unlink is of a dead life
(`TakesFromTheDead`), and no file is of a later life than its process
(`LivesAreBehind`), so that the dead stay dead. A recoverer may die with the
recovery lock in its hands, and whoever recovers that lock may die as well. Nothing
else than `usurped` takes exclusion away, and nothing weaker would do: with it, the
two racing processes do both enter, in the model as in the code.

*DagRunner.* Nothing of the four properties is inductive, since a death erases the
memory that the next event is computed from. The invariant has three layers. The
*log* alone: attempts follow one another, each is closed by one result, and every
attempt but that of the entry was activated by an edge that its source's last result
takes. The *memory*: outcomes, first activations and propagated results are those of
the log wherever the owner has them (`Synced`, `FirstInv`, `PropagatedInv`); the
lemmas about `ReadHistory` and `Propagate` show that a fresh owner gets there from
the log. The *lifecycles*: what the log and the memory say of a node at each point of
its task, and of the run in each phase (`TaskInv`, `PhaseInv`). The graph is acyclic
(`DagRunnerAssumption`; `validateAcyclic`, `validate.ts:1942-1975`, refuses others),
which two lemmas turn into what the runner relies on: a node that was begun has a
first activation that is there (`SomeFirst`), and a run with nothing left to start
and no failure has a terminal node that succeeded (`SomeLast`). For the refinement,
`Results` of GraphRun is what the log says of a node's last attempt once it can not
be rescued: the appends of a final result map to Finish, `EndRun` to Succeed, a
terminal `StopRun` to End, and every other step, deaths and repairs among them,
stutters.

*Scheduler.* What a tick decides, it decides from a document it read several awaits
ago, so the invariant says for each property what that document, the document on disk
and the dispatch in flight have to do with one another. `PausedInv`: the cursor of an
enabled schedule has passed its pauses, and so has the window a tick has asked for,
unless the schedule was edited under the tick (`misread`). `QuietInv`: of a schedule
stopped for good nothing enabled is read or in flight, and while the stop is still
cancelling, a run that is going is on its list or has been asked to end. `SkipInv`:
of a schedule that nobody starts by hand, whatever will decide next, be it a queued
document, the document on disk or the dispatch in flight, knows the one tracked run
that is going as its last; `RunsInv` adds that what was answered or recorded as a run
is one in the store, so that a repeated POST starts nothing. `AuditInv`: while a
dispatch is in flight, every window up to its own is already accounted for but its
own. `FlightInv`, `TickInv` and `TimeInv` are the shape of flights and ticks, and
that nothing is ahead of the clock. Underneath lie lemmas about the algorithms: the
window `nextFire` returns (`NextFireLeads`), the walk of `windowsBetween`, of which
no leading window is missing, and what follows for `Evaluation`: its records are of
windows that are due (`Sound`), and everything it moves the cursor over has a record
or is asked for (`Complete`). The walk is a recursive function; its facts are proved
by taking a least or greatest counterexample, since an induction rule cannot be
instantiated.

*Budget.* Every operation first reconciles expired leases, so one step may settle
several reservations; the refinement maps a step to all of those settlements at
once, each from held to settled by the stale settlement, next to the operation's
own. The ceilings are about sums over sets of reservations. `SumAdds` and its
relatives (what one more element, a changed element, or a larger set does to a sum)
are proved without an induction rule: a finite set that contradicted one would have
a smallest subset that does, by the well-founded order of subsets. The invariant is
that a run's sum, less what settlements have charged above their maximum (its
excess), is within the ceiling; a reservation's commitment never grows but by that
excess, so only the admissions, which compare, have to be looked at. `ChecksStand`
carries what an admission has checked before its two reads to the decision after them:
under the lock nothing else writes a record. For the limit, a job takes no more than
the admission in progress counts for it, unless it is in `missed` from then on.

*PipelineAdmission.* `OneExecution`: an execution that is not the resumed one belongs
to the process whose claim the row bears, and there is one, so that a claim can be
taken over only when no execution is left; a pending row has not reached its
providers. `RecordInv`: an intent is in the record before it is applied, and only
there (`settling` has one, earlier states have none). `ProcInv`: who is about to mark
the record settled finds record and reservation as it left them, and evidence in
anybody's hands is of an ending that the row has had. The last part is what remains
true of the reconciler's snapshot when the row has moved on: `endings` only grows.

*ModalJob.* `JobInv` ties, at every await, the record of a job to its task, its
reservation and its sandboxes. `Held`: an open job has a reservation, and a task
that may still change how it ends has an open job. `Started`: a job without a
recorded sandbox has not started its command, which is why recovery may begin it
again. `Paid`, `Tended` and `Deleted` are the properties with the point the task
has reached.

*Supervisor.* `Journalled` says which record stands behind work and behind an
attempt, and whose the call is; `Watched`, that an attempt which confirmed its
settlement has no work; `Accounted`, how far a settlement has come in the attempt,
the journal and the budget. `Memoryless` and `Fresh` are about the processes: a
supervisor that does not run remembers nothing, nor does the one that was launched
and not yet attached to. `Fresh` is what an attach needs, which makes the
backend the owner of whatever the supervisor remembers.

*ChatTurn.* `Claimed` is the heart: a turn in progress has the claim and the pin of
its session, on an object that serves no other session. From `Progress`, the fact
that a turn which has begun only moves forward, follows that whatever aborts and tabs
remember of a turn remains true. `Paid`: a turn in flight, and no other, is tracked
and has no ledger row yet, and the tally is what was spent or, while a call asks,
less. `Stopped`: a turn that is in its prompt with its abort flag set is unheard, or
its stop has still to reach it or awaits it. `Published` and `Recorded` tie frames
and index row to the turn's point; `Registry` numbers the session objects.

*Only model-checked.* Liveness under fairness, which is out of the prover's reach:
of WorkflowRun, DagRunner, FileLock, Scheduler, PipelineAdmission, ModalJob,
Supervisor and ChatTurn one or two properties each. Every invariant, action property
and refinement of the passing runs is proved.

## 5. What is left

1. Controller queue and project quiescing: several runs and projects, the two
   limits, the order of a deletion (drained means that nothing can run), on top of
   what WorkflowRun, Supervisor and ModalJob promise one by one.
2. The watchers and their operation store; waiting and interviews in WorkflowRun;
   torn writes of the log and their repair; two hosts in FileLock; the batches of
   ModalJob; the envelopes a pipeline distributes over its nodes.

## 6. Not modelled

What a node does once it runs (executors, behaviours, prompts, fusion, Lean) is a
choice of outcomes in DagRunner and of usage in Supervisor. Validation, expansion
and import of definitions are pure functions whose result DagRunner assumes (an
acyclic graph, routes to existing nodes). Provenance, skills, notebook, models,
credentials, LaTeX and the sandbox's files are I/O without shared decisions. Of the
web interface only what a tab makes of a turn's events is modelled, of the vendored
engine only what the backend relies on. `PROJECT.json` gives the reason for each
component.

Most of the repository's lines are of these kinds, or third-party code, which is
why `map` covers a small share of them: the models stand for the files that decide,
`workflows/`, `scheduling/`, `modal/`, `api/sessions.ts`, `api/pipelines.ts` and
their neighbours.
