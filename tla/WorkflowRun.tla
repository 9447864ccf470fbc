----------------------------- MODULE WorkflowRun -----------------------------
(***************************************************************************)
(* One durable workflow run shared by several backend processes.           *)
(*                                                                         *)
(* The run lives in files: an append-only event log whose fold is the run  *)
(* state, a lease with a fence, and a write-once cancellation intent       *)
(* (workflows/store.ts).  Every backend process has a WorkflowRunController *)
(* that starts, resumes, cancels, recovers and shuts the run down          *)
(* (workflows/controller.ts), and a runner that executes the graph under   *)
(* the lease (workflows/runner.ts).  Here the graph is a single node; the  *)
(* routing of larger graphs is the subject of DagRunner.                   *)
(*                                                                         *)
(* A store operation runs under the run's mutation lock, so it is one      *)
(* step.  Between two store operations of one process any other process    *)
(* may act; callbacks of the same process (an HTTP cancel, the heartbeat,  *)
(* the cancellation poll) run only where the code awaits.                  *)
(***************************************************************************)
EXTENDS Naturals, Sequences, FiniteSets

CONSTANTS
  Controllers,   \* backend processes that share the project's files
  LeaseTicks,    \* clock ticks a renewed lease stays live
  MaxResumes,    \* bound: explicit resume requests of the user
  MaxStops       \* bound: crashes, shutdowns and stalls, over all processes

ASSUME LeaseTicksAssumption == LeaseTicks \in Nat \ {0}
ASSUME BoundsAssumption == MaxResumes \in Nat /\ MaxStops \in Nat

NoOwner == "no owner"
ASSUME NoOwnerAssumption == NoOwner \notin Controllers

VARIABLES
  run,      \* the fold of the log: status of the run, status of its node
  log,      \* the events, oldest first
  lease,    \* the lease file; left = ticks until it expires, 0 when released
  intent,   \* does the cancellation file exist?
  ctl,      \* the volatile state of every process
  resumes,  \* explicit resume requests accepted so far
  stops     \* crashes, shutdowns and stalls so far

vars == <<run, log, lease, intent, ctl, resumes, stops>>
durable == <<run, log, lease, intent>>

-----------------------------------------------------------------------------
(* The reducer of the event log (run-state.ts).                            *)

RunStatus  == {"queued", "running", "interrupted",
               "succeeded", "failed", "cancelled"}
NodeStatus == {"absent", "running", "interrupted", "succeeded", "failed"}
EventTypes == {"run_started", "run_resumed", "run_interrupted",
               "run_succeeded", "run_failed", "run_cancelled",
               "node_started", "node_succeeded", "node_failed"}
Terminal   == {"succeeded", "failed", "cancelled"}

RequiredStatus(t) ==
  CASE t = "run_started"   -> {"queued"}
    [] t = "run_resumed"   -> {"interrupted"}
    [] t = "run_cancelled" -> {"queued", "running"}
    [] OTHER               -> {"running"}

Accepts(r, t) ==
  /\ r.status \in RequiredStatus(t)
  /\ t = "run_succeeded" => r.node = "succeeded"
  /\ t = "node_started" => r.node \in {"absent", "interrupted"}
  /\ t \in {"node_succeeded", "node_failed"} => r.node = "running"

StatusAfter(r, t) ==
  CASE t \in {"run_started", "run_resumed"} -> "running"
    [] t = "run_interrupted" -> "interrupted"
    [] t = "run_succeeded"   -> "succeeded"
    [] t = "run_failed"      -> "failed"
    [] t = "run_cancelled"   -> "cancelled"
    [] OTHER                 -> r.status

NodeAfter(r, t) ==
  CASE t = "node_started"   -> "running"
    [] t = "node_succeeded" -> "succeeded"
    [] t = "node_failed"    -> "failed"
    [] /\ t \in {"run_failed", "run_cancelled", "run_interrupted"}
       /\ r.node = "running" -> "interrupted"
    [] OTHER                -> r.node

Reduce(r, t) == [status |-> StatusAfter(r, t), node |-> NodeAfter(r, t)]

-----------------------------------------------------------------------------
(* The store.  An event remembers who wrote it: the lease owner, or a      *)
(* caller without a claim; and, as history, the fence in force.            *)

Live == lease.left > 0

\* Mutant: the owner token and fence are compared, the expiry is not.
HoldsLeaseWithoutClock(c) ==
  /\ lease.owner = c
  /\ lease.fence = ctl[c].fence

HoldsLease(c) ==
  /\ Live
  /\ lease.owner = c
  /\ lease.fence = ctl[c].fence

AppendAs(by, t) ==
  /\ Accepts(run, t)
  /\ run' = Reduce(run, t)
  /\ log' = Append(log, [type |-> t, by |-> by, epoch |-> lease.fence])

\* Mutant: a write without a claim ignores a live lease.
AppendUnclaimedAnyway(t) == AppendAs("nobody", t)

\* A write that presents no claim is refused while a lease is live.  It does
\* not look at the cancellation intent.  Its caller read the state it expects
\* immediately before: a change in between makes the write a no-op.
AppendUnclaimed(t) == ~Live /\ AppendAs("nobody", t)

Cancellable == run.status \notin Terminal \cup {"interrupted"}

\* requestRunCancellation: the intent first; with no live owner also the event.
RequestCancellation ==
  /\ Cancellable
  /\ intent' = TRUE
  /\ AppendUnclaimed("run_cancelled") \/ (Live /\ UNCHANGED <<run, log>>)
  /\ UNCHANGED lease

-----------------------------------------------------------------------------
(* The volatile state of a process: `phase` is where its work on the run   *)
(* stands, `entryAbort` the abort signal of the controller's entry,        *)
(* `runAbort` the abort signal inside the runner, `fence` and `seq` the    *)
(* claim and the last sequence number its event writer knows.              *)

Phases == {"down", "idle", "pending", "create", "check", "acquire", "own",
           "begin", "loop", "exec", "cancelling", "leave", "leaveError",
           "persist", "persistInterrupt", "persistFailure"}
AbortReason == {"none", "user", "shutdown", "lease"}

Process(phase) ==
  [phase |-> phase, closed |-> FALSE, entryAbort |-> "none",
   runAbort |-> "none", fence |-> 0, seq |-> 0]

\* The entry is dropped; what is left of it is whether the controller closed.
Finished(c) == [Process("idle") EXCEPT !.closed = ctl[c].closed]

AtAwait(c) == ctl[c].phase \in {"idle", "pending", "create", "exec"}
Go(c, next) == ctl' = [ctl EXCEPT ![c].phase = next]
Finish(c)   == ctl' = [ctl EXCEPT ![c] = Finished(c)]

\* Aborts reach the runner while it awaits a node; the first reason stays.
First(old, new) == IF old = "none" THEN new ELSE old
Aborted(p, reason) ==
  CASE p.phase = "pending" -> [Process("idle") EXCEPT !.closed = p.closed]
    [] p.phase = "create"  -> [p EXCEPT !.entryAbort = First(@, reason)]
    [] p.phase = "exec"    -> [p EXCEPT !.entryAbort = First(@, reason),
                                        !.runAbort = First(@, reason)]
    [] OTHER               -> p

-----------------------------------------------------------------------------
(* The event writer of the runner.  Event ids are derived from what the    *)
(* event is about; the id of the runner's run_interrupted is the same each *)
(* time, and an id that is in the log already is answered from the log.    *)

Recorded(t) ==
  /\ t = "run_interrupted"
  /\ \E i \in 1..Len(log) : log[i].type = t /\ log[i].by = "owner"

\* Mutant: the owner's append does not look for a cancellation intent.
WriteOkDespiteIntent(c, t) ==
  /\ HoldsLease(c)
  /\ Recorded(t) \/ (ctl[c].seq = Len(log) /\ Accepts(run, t))

WriteOk(c, t) ==
  /\ HoldsLease(c)
  /\ intent => t = "run_cancelled"
  /\ Recorded(t) \/ (ctl[c].seq = Len(log) /\ Accepts(run, t))

WriteRefusedByIntent(c, t) == HoldsLease(c) /\ intent /\ t # "run_cancelled"

Write(c, t, next) ==
  \/ /\ WriteOk(c, t)
     /\ IF Recorded(t)
        THEN Go(c, next) /\ UNCHANGED <<run, log>>
        ELSE /\ AppendAs("owner", t)
             /\ ctl' = [ctl EXCEPT ![c].phase = next, ![c].seq = @ + 1]
     /\ UNCHANGED <<lease, intent>>
  \/ WriteRefusedByIntent(c, t) /\ Go(c, "cancelling") /\ UNCHANGED durable
  \/ /\ ~WriteOk(c, t)
     /\ ~WriteRefusedByIntent(c, t)
     /\ Go(c, "leaveError")
     /\ UNCHANGED durable
-----------------------------------------------------------------------------
(* The controller: admission.                                              *)

\* start: from an API call that created the run, or from recovery.
Start(c) ==
  /\ ctl[c].phase = "idle" /\ ~ctl[c].closed
  /\ run.status = "queued"
  /\ Go(c, "pending")
  /\ UNCHANGED <<durable, resumes, stops>>

\* resume: the explicit control of the user.
Resume(c) ==
  /\ ctl[c].phase = "idle" /\ ~ctl[c].closed
  /\ run.status = "interrupted"
  /\ resumes < MaxResumes
  /\ resumes' = resumes + 1
  /\ Go(c, "pending")
  /\ UNCHANGED <<durable, stops>>

\* pump: the process has room for the run (other runs may hold the room).
Pump(c) ==
  /\ ctl[c].phase = "pending"
  /\ Go(c, "create")
  /\ UNCHANGED <<durable, resumes, stops>>

\* createExecutor answers or throws.
CreateExecutor(c) ==
  /\ ctl[c].phase = "create"
  /\ \/ ctl[c].entryAbort = "none" /\ Go(c, "check")
     \/ Go(c, "persist")
  /\ UNCHANGED <<durable, resumes, stops>>

-----------------------------------------------------------------------------
(* The runner.                                                             *)

Runnable == run.status \in {"queued", "interrupted"}

CheckRunnable(c) ==
  /\ ctl[c].phase = "check"
  /\ Go(c, IF Runnable THEN "acquire" ELSE "persist")
  /\ UNCHANGED <<durable, resumes, stops>>

\* Mutant: an expired lease is taken over with its old fence.
AcquireLeaseKeepsFence(c) ==
  /\ ctl[c].phase = "acquire"
  /\ IF Live
     THEN Go(c, "persist") /\ UNCHANGED lease
     ELSE /\ lease' = [owner |-> c, fence |-> 1, left |-> LeaseTicks]
          /\ ctl' = [ctl EXCEPT ![c].phase = "own", ![c].fence = 1]
  /\ UNCHANGED <<run, log, intent, resumes, stops>>

AcquireLease(c) ==
  /\ ctl[c].phase = "acquire"
  /\ IF Live
     THEN Go(c, "persist") /\ UNCHANGED lease
     ELSE /\ lease' = [owner |-> c, fence |-> lease.fence + 1,
                       left |-> LeaseTicks]
          /\ ctl' = [ctl EXCEPT ![c].phase = "own",
                                ![c].fence = lease.fence + 1]
  /\ UNCHANGED <<run, log, intent, resumes, stops>>

\* Under the lease: look for a cancellation, read the run again.
ReadOwnedRun(c) ==
  /\ ctl[c].phase = "own"
  /\ ctl' = [ctl EXCEPT ![c].phase = IF Runnable THEN "begin" ELSE "leaveError",
                        ![c].runAbort = IF intent THEN "user" ELSE "none",
                        ![c].seq = Len(log)]
  /\ UNCHANGED <<durable, resumes, stops>>

\* The status decides between the two, not the mode the entry was queued with.
Begin(c) ==
  /\ ctl[c].phase = "begin"
  /\ \E t \in {"run_started", "run_resumed"} :
       /\ t = "run_started" <=> run.status = "queued"
       /\ Write(c, t, "loop")
  /\ UNCHANGED <<resumes, stops>>

\* One turn of the scheduling loop.
LoopAborts(c) ==
  /\ ctl[c].phase = "loop"
  /\ \/ /\ \/ ctl[c].runAbort = "lease"
           \/ ctl[c].runAbort = "shutdown" /\ run.status # "running"
        /\ Go(c, "leaveError")
        /\ UNCHANGED durable
     \/ ctl[c].runAbort = "user" /\ Write(c, "run_cancelled", "leave")
     \/ /\ ctl[c].runAbort = "shutdown" /\ run.status = "running"
        /\ Write(c, "run_interrupted", "leave")
  /\ UNCHANGED <<resumes, stops>>

LoopSchedules(c) ==
  /\ ctl[c].phase = "loop" /\ ctl[c].runAbort = "none"
  /\ \/ /\ run.node \in {"absent", "interrupted", "running"}
        /\ Write(c, "node_started", "exec")
     \/ run.node = "succeeded" /\ Write(c, "run_succeeded", "leave")
     \/ run.node = "failed" /\ Write(c, "run_failed", "leave")
  /\ UNCHANGED <<resumes, stops>>

\* The node's executor settles; an aborted execution leaves no event.
NodeSettles(c) ==
  /\ ctl[c].phase = "exec"
  /\ IF ctl[c].runAbort = "none"
     THEN \E t \in {"node_succeeded", "node_failed"} : Write(c, t, "loop")
     ELSE Go(c, "loop") /\ UNCHANGED durable
  /\ UNCHANGED <<resumes, stops>>

\* Heartbeat timer: renew, or learn that the lease is lost.
Heartbeat(c) ==
  /\ ctl[c].phase = "exec" /\ ctl[c].runAbort # "lease"
  /\ IF HoldsLease(c)
     THEN lease' = [lease EXCEPT !.left = LeaseTicks] /\ UNCHANGED ctl
     ELSE ctl' = [ctl EXCEPT ![c].runAbort = "lease"] /\ UNCHANGED lease
  /\ UNCHANGED <<run, log, intent, resumes, stops>>

\* Cancellation poll timer.
PollCancellation(c) ==
  /\ ctl[c].phase = "exec" /\ ctl[c].runAbort = "none"
  /\ intent
  /\ ctl' = [ctl EXCEPT ![c].runAbort = "user"]
  /\ UNCHANGED <<durable, resumes, stops>>

\* The catch clause for CANCEL_REQUESTED.
Cancelling(c) ==
  /\ ctl[c].phase = "cancelling"
  /\ IF run.status = "cancelled"
     THEN Go(c, "leave") /\ UNCHANGED durable
     ELSE Write(c, "run_cancelled", "leave")
  /\ UNCHANGED <<resumes, stops>>

\* The finally clause; a release by a fenced-out owner is ignored.
ReleaseLease(c) ==
  /\ ctl[c].phase \in {"leave", "leaveError"}
  /\ lease' = IF lease.owner = c /\ lease.fence = ctl[c].fence
              THEN [lease EXCEPT !.left = 0] ELSE lease
  /\ IF ctl[c].phase = "leave" THEN Finish(c) ELSE Go(c, "persist")
  /\ UNCHANGED <<run, log, intent, resumes, stops>>
-----------------------------------------------------------------------------
(* The controller, after the runner threw or never ran.                    *)

\* persistControllerAbort for a user's cancellation: ask for it once more.
PersistCancellation(c) ==
  /\ ctl[c].phase = "persist" /\ ctl[c].entryAbort = "user"
  /\ RequestCancellation \/ (~Cancellable /\ UNCHANGED durable)
  /\ Finish(c)
  /\ UNCHANGED <<resumes, stops>>

AfterStart(c) ==
  IF ctl[c].entryAbort = "shutdown" THEN "persistInterrupt" ELSE "persistFailure"

\* persistControllerAbort for a shutdown, and persistUnexpectedFailure: write
\* what happened to the run, unless it is over or has a live owner.
PersistOutcome(c) ==
  /\ ctl[c].phase = "persist" /\ ctl[c].entryAbort # "user"
  /\ \/ AppendUnclaimed("run_interrupted") /\ Finish(c)
     \/ AppendUnclaimed("run_started") /\ Go(c, AfterStart(c))
     \/ /\ ctl[c].entryAbort = "none"
        /\ AppendUnclaimed("run_resumed") /\ Go(c, "persistFailure")
     \/ /\ \/ Live \/ run.status \in Terminal
           \/ ctl[c].entryAbort = "shutdown" /\ run.status = "interrupted"
        /\ Finish(c) /\ UNCHANGED <<run, log>>
  /\ UNCHANGED <<lease, intent, resumes, stops>>

\* Its second event: run_interrupted after an abort, run_failed otherwise.
PersistSecond(c) ==
  /\ ctl[c].phase \in {"persistInterrupt", "persistFailure"}
  /\ LET t == IF ctl[c].phase = "persistFailure" THEN "run_failed"
                                                 ELSE "run_interrupted"
     IN AppendUnclaimed(t) \/ ((Live \/ ~Accepts(run, t)) /\ UNCHANGED <<run, log>>)
  /\ Finish(c)
  /\ UNCHANGED <<lease, intent, resumes, stops>>

-----------------------------------------------------------------------------
(* Requests that reach a process while its work on the run awaits.         *)

\* cancel: the durable intent first, then the abort of the local entry.
Cancel(c) ==
  /\ AtAwait(c)
  /\ RequestCancellation
  /\ ctl' = [ctl EXCEPT ![c] = Aborted(@, "user")]
  /\ UNCHANGED <<resumes, stops>>

\* stopRun of the durability watcher, when nobody owns the run; when somebody
\* does it is Cancel.
StopRun(c) ==
  /\ AtAwait(c)
  /\ AppendUnclaimed("run_cancelled")
  /\ ctl' = [ctl EXCEPT ![c] = Aborted(@, "user")]
  /\ UNCHANGED <<lease, intent, resumes, stops>>

\* Mutant: recovery leaves a run with a cancellation intent to its owner.
ReconcileSkipsCancelled(c) ==
  /\ AtAwait(c) /\ ~ctl[c].closed
  /\ ~intent
  /\ AppendUnclaimed("run_interrupted")
  /\ UNCHANGED <<lease, intent, ctl, resumes, stops>>

\* Mutant: recovery only looks at runs with a running node.
ReconcileOnlyRunningNodes(c) ==
  /\ AtAwait(c) /\ ~ctl[c].closed
  /\ run.node = "running"
  /\ AppendUnclaimed("run_interrupted")
  /\ UNCHANGED <<lease, intent, ctl, resumes, stops>>

\* recoverProjects, its first half: a run nobody owns was interrupted.  (Its
\* second half is Start.)
Reconcile(c) ==
  /\ AtAwait(c) /\ ~ctl[c].closed
  /\ AppendUnclaimed("run_interrupted")
  /\ UNCHANGED <<lease, intent, ctl, resumes, stops>>

\* close: no more admissions, interrupt the active run, drop a pending one.
Close(c) ==
  /\ AtAwait(c) /\ ~ctl[c].closed
  /\ stops < MaxStops
  /\ stops' = stops + 1
  /\ ctl' = [ctl EXCEPT ![c] = [Aborted(@, "shutdown") EXCEPT !.closed = TRUE]]
  /\ UNCHANGED <<durable, resumes>>

\* The closed controller has nothing left to wait for and the process ends.
Exit(c) ==
  /\ ctl[c].phase = "idle" /\ ctl[c].closed
  /\ ctl' = [ctl EXCEPT ![c] = Process("down")]
  /\ UNCHANGED <<durable, resumes, stops>>

\* The process dies anywhere, also when the grace period of close runs out.
Crash(c) ==
  /\ ctl[c].phase # "down"
  /\ stops < MaxStops
  /\ stops' = stops + 1
  /\ ctl' = [ctl EXCEPT ![c] = Process("down")]
  /\ UNCHANGED <<durable, resumes>>

Restart(c) ==
  /\ ctl[c].phase = "down"
  /\ ctl' = [ctl EXCEPT ![c] = Process("idle")]
  /\ UNCHANGED <<durable, resumes, stops>>

\* Time passes.  The last tick of a lease whose owner is still there means that
\* the process stalled past its heartbeats, and counts as a stop.
OwnerIsThere == \E c \in Controllers : HoldsLease(c)

Tick ==
  /\ Live
  /\ lease' = [lease EXCEPT !.left = @ - 1]
  /\ IF lease.left = 1 /\ OwnerIsThere
     THEN stops < MaxStops /\ stops' = stops + 1
     ELSE UNCHANGED stops
  /\ UNCHANGED <<run, log, intent, ctl, resumes>>

-----------------------------------------------------------------------------
Init ==
  /\ run = [status |-> "queued", node |-> "absent"]
  /\ log = <<>>
  /\ lease = [owner |-> NoOwner, fence |-> 0, left |-> 0]
  /\ intent = FALSE
  /\ ctl = [c \in Controllers |-> Process("idle")]
  /\ resumes = 0
  /\ stops = 0

\* What the code does by itself once it is started.
Progress(c) ==
  \/ Pump(c) \/ CreateExecutor(c)
  \/ CheckRunnable(c) \/ AcquireLease(c) \/ ReadOwnedRun(c) \/ Begin(c)
  \/ LoopAborts(c) \/ LoopSchedules(c) \/ NodeSettles(c)
  \/ Cancelling(c) \/ ReleaseLease(c)
  \/ PersistCancellation(c) \/ PersistOutcome(c) \/ PersistSecond(c)
  \/ Exit(c)

Timers(c)  == Heartbeat(c) \/ PollCancellation(c)
Request(c) == Resume(c) \/ Cancel(c) \/ StopRun(c) \/ Close(c)

Next ==
  \/ Tick
  \/ \E c \in Controllers :
       \/ Progress(c) \/ Timers(c) \/ Request(c)
       \/ Start(c) \/ Reconcile(c)
       \/ Crash(c) \/ Restart(c)

\* Processes make progress, clocks advance, timers fire, a stopped backend is
\* started again and its recovery timer keeps firing.  No request is fair.
Fairness ==
  /\ WF_vars(Tick)
  /\ \A c \in Controllers :
       /\ WF_vars(Progress(c)) /\ WF_vars(Heartbeat(c)) /\ WF_vars(PollCancellation(c))
       /\ WF_vars(Start(c)) /\ WF_vars(Reconcile(c)) /\ WF_vars(Restart(c))

Spec == Init /\ [][Next]_vars
FairSpec == Spec /\ Fairness
-----------------------------------------------------------------------------
(* Properties.                                                             *)

ProcessType ==
  [phase : Phases, closed : BOOLEAN, entryAbort : AbortReason,
   runAbort : AbortReason, fence : Nat, seq : Nat]

\* Every variable stays in its type; the log only holds known events.
TypeOK ==
  /\ run \in [status : RunStatus, node : NodeStatus]
  /\ log \in Seq([type : EventTypes, by : {"owner", "nobody"}, epoch : Nat])
  /\ lease \in [owner : Controllers \cup {NoOwner}, fence : Nat, left : Nat]
  /\ intent \in BOOLEAN
  /\ ctl \in [Controllers -> ProcessType]
  /\ resumes \in Nat
  /\ stops \in Nat

Fenced == INSTANCE FencedLog WITH
            epoch <- lease.fence, open <- Live, Types <- EventTypes,
            Final <- {"run_succeeded", "run_failed", "run_cancelled"}

\* The lease file, its clock and the cancellation paths together implement a
\* fenced log: no interleaving writes outside a tenure or after the end.
ImplementsFencedLog == Fenced!Spec

\* The log is divided into tenures.  Fences only grow along it, and once a
\* write without a claim landed in a tenure, its owner never writes again: a
\* process that lost its lease cannot continue behind a recovery's back.
TenuresAreContiguous == Fenced!Contiguous

\* Whatever controllers, runner and recovery write concurrently about the end
\* of a run, the log holds one terminal event and it is the last.
OneTerminalEvent == Fenced!FinalIsLast

\* While its lease is live the sequence number an owner's event writer carries
\* is the end of the log: the writer's compare-and-set can only fail when the
\* lease is lost, which is what the runner reports when it fails.
OwnerIsUpToDate ==
  \A c \in Controllers :
    HoldsLease(c) /\ ctl[c].phase \in {"begin", "loop", "exec", "cancelling"}
      => ctl[c].seq = Len(log)

\* A process that awaits a node and whose lease is live has a durable record
\* that says so: the run and the node are running, or the run was cancelled.
ExecutionIsRecorded ==
  \A c \in Controllers :
    HoldsLease(c) /\ ctl[c].phase = "exec"
      => run.status = "running" /\ run.node = "running"

\* A run with a durable cancellation intent never ends in success, whichever
\* process the intent overtakes.
CancelledNeverSucceeds == intent => run.status # "succeeded"

\* A running run does not stay running for ever because its owner died: it
\* settles, or recovery interrupts it.
RunningRunSettles == run.status = "running" ~> run.status # "running"

\* A cancellation intent stops the run.
IntentStopsRun == intent ~> run.status \notin {"queued", "running"}

=============================================================================
