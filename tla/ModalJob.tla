------------------------------ MODULE ModalJob ------------------------------
(*
Durable jobs in Modal sandboxes (src/server/src/modal/manager.ts and store.ts): the
record of a job, the task that works for it in this process, the sandboxes Modal
runs, the reservation and the ledger row that pay for them (src/server/src/cost/ledger.ts).

A step is what the process does between two awaits; a call of Modal takes effect,
or is lost, in between.  The process may die anywhere, also between two of the file
writes of one step where a recovery reads them.
*)
EXTENDS Naturals

CONSTANTS
    Jobs,           \* jobs of one project that may be submitted
    Instances,      \* how long the chain of instance types of a job is
    MaxSandboxes,   \* bound on the sandboxes created for one job
    MaxDeaths       \* bound on the deaths of the backend

ASSUME ModalAssumption ==
    Instances \in Nat \ {0} /\ MaxSandboxes \in Nat /\ MaxDeaths \in Nat

VARIABLES
    job,            \* the record of each job
    hold,           \* its reservation: none, held, released
    ledger,         \* rows the cost ledger has for it
    task,           \* the task of this process that works for it
    remote,         \* what Modal has for it
    up,             \* is the backend running?
    configured,     \* has it the credentials?
    deleting,       \* how far the deletion of the project is: no, cancelling, done
    deaths,
    lost            \* has a call of Modal, or its answer, ever been lost? (history)

processVars == <<up, configured, deleting, deaths>>
vars == <<job, hold, ledger, task, remote, processVars, lost>>

Terminal == {"succeeded", "failed", "cancelled", "lost"}
NoJob == [state |-> "none", cancel |-> FALSE, sandbox |-> 0, reconciled |-> FALSE]
NoTask == [pc |-> "none", sandbox |-> 0, left |-> 0]
NoRemote == [created |-> 0, alive |-> {}, starts |-> 0]

Sandboxes == 1 .. MaxSandboxes

Records == [state : {"none", "queued", "preparing", "running", "collecting"} \cup Terminal,
            cancel : BOOLEAN, sandbox : {0} \cup Sandboxes, reconciled : BOOLEAN]
Tasks == [pc : {"none", "prepare", "create", "made", "undo", "stage", "wait", "collect",
                "attach", "poll", "ending", "book", "release", "mark"},
          sandbox : {0} \cup Sandboxes, left : 0 .. Instances]
Remotes == [created : {0} \cup Sandboxes, alive : SUBSET Sandboxes, starts : Nat]

TypeOK ==
    /\ job \in [Jobs -> Records]
    /\ hold \in [Jobs -> {"none", "held", "released"}]
    /\ ledger \in [Jobs -> Nat]
    /\ task \in [Jobs -> Tasks]
    /\ remote \in [Jobs -> Remotes]
    /\ up \in BOOLEAN /\ configured \in BOOLEAN /\ lost \in BOOLEAN
    /\ deleting \in {"no", "cancelling", "done"}
    /\ deaths \in 0 .. MaxDeaths

Init ==
    /\ job = [j \in Jobs |-> NoJob]
    /\ hold = [j \in Jobs |-> "none"]
    /\ ledger = [j \in Jobs |-> 0]
    /\ task = [j \in Jobs |-> NoTask]
    /\ remote = [j \in Jobs |-> NoRemote]
    /\ up = TRUE /\ configured = TRUE
    /\ deleting = "no"
    /\ deaths = 0
    /\ lost = FALSE

-----------------------------------------------------------------------------
(* Helpers *)

IsTerminal(j) == job[j].state \in Terminal
Live(j) == job[j].state \notin Terminal \cup {"none"}

At(j, pc) == up /\ task[j].pc = pc
Go(j, pc) == task' = [task EXCEPT ![j].pc = pc]
Become(j, state) == job' = [job EXCEPT ![j].state = state]

\* executeJob up to its first await: the record is set to preparing and the first instance
\* of the chain is tried.
Executing == [pc |-> "prepare", sandbox |-> 0, left |-> Instances]

\* How a job that fails ends: a cancellation that was asked for is what it ends with.
Failure(j) == IF job[j].cancel THEN "cancelled" ELSE "failed"

\* finish() without a sandbox to terminate: the accounts are settled at once.
FinishWithoutSandbox(j, state) ==
    /\ Become(j, state)
    /\ task' = [task EXCEPT ![j] = [NoTask EXCEPT !.pc = "book"]]

\* finish() of a job that has one: terminating it comes first.
FinishWithSandbox(j, state) ==
    /\ Become(j, state)
    /\ Go(j, "ending")

\* A call that terminates a sandbox succeeds, or is lost.
Terminates(j, s) ==
    \/ remote' = [remote EXCEPT ![j].alive = @ \ {s}] /\ UNCHANGED lost
    \/ lost' = TRUE /\ UNCHANGED remote

-----------------------------------------------------------------------------
(* submit *)

Submit(j) ==
    /\ up /\ configured /\ deleting = "no"
    /\ hold[j] = "none"
    /\ hold' = [hold EXCEPT ![j] = "held"]
    /\ Become(j, "preparing")
    /\ task' = [task EXCEPT ![j] = Executing]
    /\ UNCHANGED <<ledger, remote, processVars, lost>>

Dies ==
    /\ up /\ deaths < MaxDeaths
    /\ up' = FALSE
    /\ deaths' = deaths + 1
    /\ deleting' = "no"
    /\ task' = [j \in Jobs |-> NoTask]
    /\ UNCHANGED configured

\* The process dies after the reservation, with or without the record of the job.
SubmitInterrupted(j) ==
    /\ configured /\ deleting = "no"
    /\ hold[j] = "none"
    /\ hold' = [hold EXCEPT ![j] = "held"]
    /\ job' \in {job, [job EXCEPT ![j].state = "queued"]}
    /\ Dies
    /\ UNCHANGED <<ledger, remote, lost>>

BackendDies == Dies /\ UNCHANGED <<job, hold, ledger, remote, lost>>

-----------------------------------------------------------------------------
(* executeJob *)

\* The next instance of the chain, unless the job was cancelled meanwhile or none is left.
NextInstance(j) ==
    IF task[j].left > 1 /\ ~job[j].cancel
    THEN /\ task' = [task EXCEPT ![j] = [pc |-> "prepare", sandbox |-> 0, left |-> @.left - 1]]
         /\ UNCHANGED job
    ELSE FinishWithoutSandbox(j, Failure(j))

EnvironmentReady(j) ==
    /\ At(j, "prepare")
    /\ IF job[j].cancel THEN FinishWithoutSandbox(j, "cancelled")
       ELSE Go(j, "create") /\ UNCHANGED job
    /\ UNCHANGED <<hold, ledger, remote, processVars, lost>>

EnvironmentFails(j) ==
    /\ At(j, "prepare")
    /\ NextInstance(j)
    /\ UNCHANGED <<hold, ledger, remote, processVars, lost>>

\* Modal creates the sandbox; the answer is under way.
SandboxCreated(j) ==
    /\ At(j, "create")
    /\ remote[j].created < MaxSandboxes
    /\ remote' = [remote EXCEPT ![j].created = @ + 1, ![j].alive = @ \cup {remote[j].created + 1}]
    /\ Go(j, "made")
    /\ UNCHANGED <<job, hold, ledger, processVars, lost>>

\* The creation is refused, or its answer is lost.
CreateFails(j) ==
    /\ up /\ task[j].pc \in {"create", "made"}
    /\ NextInstance(j)
    /\ lost' = (lost \/ task[j].pc = "made")
    /\ UNCHANGED <<hold, ledger, remote, processVars>>

\* The answer is recorded, and then a cancellation is looked for.
PersistSandbox(j) ==
    /\ At(j, "made")
    /\ job' = [job EXCEPT ![j].sandbox = remote[j].created]
    /\ task' = [task EXCEPT ![j].pc = IF job[j].cancel THEN "undo" ELSE "stage",
                            ![j].sandbox = remote[j].created]
    /\ UNCHANGED <<hold, ledger, remote, processVars, lost>>

\* The sandbox of a job that was cancelled while it was created is terminated.  If that fails
\* it is given up like one that failed: it may be terminated yet, and its identity is cleared.
UndoSandbox(j) ==
    /\ At(j, "undo")
    /\ \/ /\ remote' = [remote EXCEPT ![j].alive = @ \ {task[j].sandbox}]
          /\ FinishWithSandbox(j, "cancelled")
          /\ UNCHANGED lost
       \/ /\ Terminates(j, task[j].sandbox)
          /\ job' = [job EXCEPT ![j].sandbox = 0, ![j].state = "cancelled"]
          /\ task' = [task EXCEPT ![j] = [NoTask EXCEPT !.pc = "book"]]
    /\ UNCHANGED <<hold, ledger, processVars>>

\* The inputs are staged and the command is started; every await before that looks at the
\* cancellation.
StartCommand(j) ==
    /\ At(j, "stage")
    /\ ~job[j].cancel
    /\ task[j].sandbox \in remote[j].alive
    /\ Become(j, "running")
    /\ remote' = [remote EXCEPT ![j].starts = @ + 1]
    /\ Go(j, "wait")
    /\ UNCHANGED <<hold, ledger, processVars, lost>>

\* The command has ended and its status can be read: the outputs are collected.
CommandEnds(j) ==
    /\ up /\ task[j].pc \in {"wait", "poll"}
    /\ ~job[j].cancel
    /\ task[j].sandbox \in remote[j].alive /\ remote[j].starts > 0
    /\ Become(j, "collecting")
    /\ Go(j, "collect")
    /\ UNCHANGED <<hold, ledger, remote, processVars, lost>>

OutputsCollected(j) ==
    /\ At(j, "collect")
    /\ ~job[j].cancel
    /\ \E state \in {"succeeded", "failed"} : FinishWithSandbox(j, state)
    /\ UNCHANGED <<hold, ledger, remote, processVars, lost>>

\* Mutant: a job that fails is settled without terminating its sandbox.
TaskFailsUnterminated(j) ==
    /\ up /\ task[j].pc \in {"stage", "wait", "collect", "poll"}
    /\ FinishWithoutSandbox(j, Failure(j))
    /\ UNCHANGED <<hold, ledger, remote, processVars, lost>>

\* An await fails, or finds the job cancelled; a recovered sandbox may be found gone.
TaskFails(j) ==
    /\ up /\ task[j].pc \in {"stage", "wait", "collect", "poll"}
    /\ \/ FinishWithSandbox(j, Failure(j))
       \/ task[j].pc = "poll" /\ ~job[j].cancel /\ FinishWithSandbox(j, "lost")
    /\ UNCHANGED <<hold, ledger, remote, processVars, lost>>

\* Mutant: a job whose sandbox cannot be terminated is not settled.
TerminateSandboxOrGiveUp(j) ==
    /\ At(j, "ending")
    /\ \/ /\ remote' = [remote EXCEPT ![j].alive = @ \ {task[j].sandbox}]
          /\ Go(j, "book") /\ UNCHANGED lost
       \/ lost' = TRUE /\ task' = [task EXCEPT ![j] = NoTask] /\ UNCHANGED remote
    /\ UNCHANGED <<job, hold, ledger, processVars>>

\* Terminating the sandbox is tried once; the job is settled whether or not it worked.
TerminateSandbox(j) ==
    /\ At(j, "ending")
    /\ Terminates(j, task[j].sandbox)
    /\ Go(j, "book")
    /\ UNCHANGED <<job, hold, ledger, processVars>>

-----------------------------------------------------------------------------
(* reconcile: the cost is booked, the reservation released, the record marked *)

\* Mutant: a job that was lost is not booked.
BookUnlessLost(j) ==
    ledger' = [ledger EXCEPT ![j] =
                   IF job[j].sandbox # 0 /\ job[j].state # "lost" /\ @ = 0 THEN 1 ELSE @]

\* A job that had a sandbox is booked, once.
Book(j) ==
    ledger' = [ledger EXCEPT ![j] = IF job[j].sandbox # 0 /\ @ = 0 THEN 1 ELSE @]

BookCost(j) ==
    /\ At(j, "book")
    /\ IF job[j].reconciled
       THEN task' = [task EXCEPT ![j] = NoTask] /\ UNCHANGED ledger
       ELSE Book(j) /\ Go(j, "release")
    /\ UNCHANGED <<job, hold, remote, processVars, lost>>

ReleaseHold(j) ==
    /\ At(j, "release")
    /\ hold' = [hold EXCEPT ![j] = "released"]
    /\ Go(j, "mark")
    /\ UNCHANGED <<job, ledger, remote, processVars, lost>>

MarkReconciled(j) ==
    /\ At(j, "mark")
    /\ job' = [job EXCEPT ![j].reconciled = TRUE]
    /\ task' = [task EXCEPT ![j] = NoTask]
    /\ UNCHANGED <<hold, ledger, remote, processVars, lost>>

-----------------------------------------------------------------------------
(* cancel, and the deletion of the project *)

CancelledRecord(j) ==
    [job[j] EXCEPT !.cancel = TRUE, !.state = IF task[j].pc = "none" THEN "cancelled" ELSE @]
\* A job nobody works for is finished here: settled at once, unless it has a sandbox.
CancelledTask(j) ==
    IF task[j].pc = "none" /\ job[j].sandbox = 0 THEN [NoTask EXCEPT !.pc = "book"] ELSE task[j]

Cancel(j) ==
    /\ up /\ Live(j)
    /\ job' = [job EXCEPT ![j] = CancelledRecord(j)]
    /\ task' = [task EXCEPT ![j] = CancelledTask(j)]
    /\ Terminates(j, task[j].sandbox)
    /\ UNCHANGED <<hold, ledger, processVars>>

\* Deleting the project closes admission and cancels every job.
CancelProject ==
    /\ up /\ deleting = "no"
    /\ deleting' = "cancelling"
    /\ job' = [j \in Jobs |-> IF Live(j) THEN CancelledRecord(j) ELSE job[j]]
    /\ task' = [j \in Jobs |-> IF Live(j) THEN CancelledTask(j) ELSE task[j]]
    /\ UNCHANGED <<hold, ledger, remote, up, configured, deaths, lost>>

\* Mutant: the tasks are not waited for.
ProjectCancelledAtOnce ==
    /\ up /\ deleting = "cancelling"
    /\ deleting' = "done"
    /\ UNCHANGED <<job, hold, ledger, task, remote, up, configured, deaths, lost>>

ProjectCancelled ==
    /\ up /\ deleting = "cancelling"
    /\ \A j \in Jobs : task[j].pc = "none"
    /\ deleting' = "done"
    /\ UNCHANGED <<job, hold, ledger, task, remote, up, configured, deaths, lost>>

\* The deletion failed elsewhere: admission is opened again.
ResumeProject ==
    /\ up /\ deleting = "done"
    /\ deleting' = "no"
    /\ UNCHANGED <<job, hold, ledger, task, remote, up, configured, deaths, lost>>

-----------------------------------------------------------------------------
(* recoverProject: when the backend starts, and when credentials are saved *)

\* Mutant: a job is executed again, whether or not it had a sandbox.
RecoveredTaskExecutes(j, credentials) ==
    CASE IsTerminal(j) /\ ~job[j].reconciled -> [NoTask EXCEPT !.pc = "book"]
      [] Live(j) /\ credentials -> Executing
      [] OTHER -> task[j]

\* What is scheduled for a job nobody works for.
RecoveredTask(j, credentials) ==
    CASE IsTerminal(j) /\ ~job[j].reconciled -> [NoTask EXCEPT !.pc = "book"]
      [] Live(j) /\ credentials /\ job[j].sandbox # 0 -> [NoTask EXCEPT !.pc = "attach"]
      [] Live(j) /\ credentials /\ job[j].sandbox = 0 /\ job[j].cancel -> [NoTask EXCEPT !.pc = "book"]
      [] Live(j) /\ credentials /\ job[j].sandbox = 0 /\ ~job[j].cancel -> Executing
      [] OTHER -> task[j]

\* A terminal job whose task is still terminating its sandbox is settled under it.
SettledUnder(j) == task[j].pc = "ending" /\ ~job[j].reconciled
Idle(j) == task[j].pc = "none"

Recover(credentials) ==
    /\ task' = [j \in Jobs |-> IF Idle(j) THEN RecoveredTask(j, credentials) ELSE task[j]]
    /\ job' = [j \in Jobs |->
           CASE SettledUnder(j) -> [job[j] EXCEPT !.reconciled = TRUE]
             [] Idle(j) /\ Live(j) /\ credentials /\ job[j].sandbox = 0 ->
                    [job[j] EXCEPT !.state = IF job[j].cancel THEN "cancelled" ELSE "preparing"]
             [] OTHER -> job[j]]
    /\ ledger' = [j \in Jobs |-> IF SettledUnder(j) /\ ledger[j] = 0 THEN 1 ELSE ledger[j]]
    /\ hold' = [j \in Jobs |-> IF hold[j] = "held" /\ (job[j] = NoJob \/ SettledUnder(j))
                               THEN "released" ELSE hold[j]]
    /\ UNCHANGED <<remote, lost>>

\* Without credentials the recovery of a job that is not over is deferred.
BackendStarts ==
    /\ ~up
    /\ up' = TRUE
    /\ \E credentials \in BOOLEAN : configured' = credentials /\ Recover(credentials)
    /\ UNCHANGED <<deleting, deaths>>

SaveCredentials ==
    /\ up
    /\ configured' = TRUE
    /\ Recover(TRUE)
    /\ UNCHANGED <<up, deleting, deaths>>

\* recoverJob: the sandbox is looked up; one that was cancelled meanwhile is terminated.
Attach(j) ==
    /\ At(j, "attach")
    /\ ~job[j].cancel
    /\ task' = [task EXCEPT ![j].pc = "poll", ![j].sandbox = job[j].sandbox]
    /\ UNCHANGED <<job, hold, ledger, remote, processVars, lost>>

AttachCancelled(j) ==
    /\ At(j, "attach")
    /\ job[j].cancel
    /\ Terminates(j, job[j].sandbox)
    /\ FinishWithoutSandbox(j, "cancelled")
    /\ UNCHANGED <<hold, ledger, processVars>>

AttachFails(j) ==
    /\ At(j, "attach")
    /\ FinishWithoutSandbox(j, IF job[j].cancel THEN "cancelled" ELSE "lost")
    /\ lost' = TRUE
    /\ UNCHANGED <<hold, ledger, remote, processVars>>

\* Modal ends a sandbox at its timeout, or loses it.
SandboxExpires(j) ==
    /\ \E s \in remote[j].alive : remote' = [remote EXCEPT ![j].alive = @ \ {s}]
    /\ UNCHANGED <<job, hold, ledger, task, processVars, lost>>

TaskStep(j) ==
    \/ EnvironmentReady(j) \/ EnvironmentFails(j)
    \/ SandboxCreated(j) \/ CreateFails(j) \/ PersistSandbox(j) \/ UndoSandbox(j)
    \/ StartCommand(j) \/ CommandEnds(j) \/ OutputsCollected(j) \/ TaskFails(j)
    \/ Attach(j) \/ AttachCancelled(j) \/ AttachFails(j)
    \/ TerminateSandbox(j) \/ BookCost(j) \/ ReleaseHold(j) \/ MarkReconciled(j)

Next ==
    \/ \E j \in Jobs : \/ Submit(j) \/ SubmitInterrupted(j)
                       \/ TaskStep(j) \/ Cancel(j) \/ SandboxExpires(j)
    \/ CancelProject \/ ProjectCancelled \/ ResumeProject
    \/ BackendDies \/ BackendStarts \/ SaveCredentials

\* The backend is started again and its event loop runs: every await returns, in time or
\* with an error.
Fairness ==
    /\ WF_vars(BackendStarts)
    /\ \A j \in Jobs : WF_vars(TaskStep(j))

Spec == Init /\ [][Next]_vars /\ Fairness

-----------------------------------------------------------------------------
(* Properties *)

\* However often the backend dies and recovers, the command of a job is started at most once.
CommandStartsOnce == \A j \in Jobs : remote[j].starts <= 1

\* A sandbox the record names is paid for as long as it lives: by the reservation, or by the
\* row that was booked for it.
LiveSandboxIsPaid ==
    \A j \in Jobs : job[j].sandbox \in remote[j].alive => hold[j] = "held" \/ ledger[j] > 0

\* Nobody leaves a sandbox behind: as long as the backend has not died and no call of Modal
\* was lost, a living sandbox has a task that will terminate it.
LiveSandboxHasTask ==
    (deaths = 0 /\ ~lost) =>
        \A j \in Jobs : remote[j].alive # {} =>
            task[j].pc \in {"made", "undo", "stage", "wait", "collect", "ending"}

\* When the deletion of a project goes on to remove its files, no job of it is open and no
\* task waits for Modal: at most the accounts of a job that is over are still settled.
DeletionLeavesNothing ==
    deleting = "done" =>
        \A j \in Jobs : task[j].pc \in {"none", "book", "release", "mark"} /\ ~Live(j)

\* A job that somebody works for is settled, unless the backend dies.
JobsAreSettled ==
    \A j \in Jobs : (task[j].pc # "none") ~> (job[j].reconciled \/ ~up)

=============================================================================
