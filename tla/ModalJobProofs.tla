--------------------------- MODULE ModalJobProofs ---------------------------
(*
What holds of Modal jobs for every set of jobs and any number of instance types, sandboxes
and deaths.  The argument: the record of a job, its task, its reservation and what Modal
has for it are tied together at every await (JobInv), so that whoever takes the job over
after a death knows from the record alone whether its command may have started.
*)
EXTENDS ModalJob, TLAPS

-----------------------------------------------------------------------------
(* The inductive invariant *)

\* A job is open as long as a task may change what it ends with, and an open one is paid for.
Held(j) ==
    /\ hold[j] = "none" => job[j] = NoJob /\ task[j].pc = "none"
    /\ Live(j) => hold[j] = "held"
    /\ task[j].pc \in {"ending", "book", "release", "mark"} => IsTerminal(j)
    /\ task[j].pc \notin {"none", "ending", "book", "release", "mark"} => Live(j)

\* No command was started for a job without a recorded sandbox, nor while its inputs are staged.
Started(j) ==
    /\ remote[j].starts <= 1
    /\ job[j].sandbox = 0 => remote[j].starts = 0
    /\ task[j].pc \in {"prepare", "create", "made"} => job[j].sandbox = 0
    /\ task[j].pc = "made" => remote[j].created # 0
    /\ task[j].pc \in {"undo", "stage"} =>
          remote[j].starts = 0 /\ job[j].sandbox = task[j].sandbox

\* The reservation goes after the row of the ledger has come.
Paid(j) ==
    hold[j] = "released" \/ task[j].pc \in {"release", "mark"}
      => job[j].sandbox = 0 \/ ledger[j] > 0

\* What lives is what the task has just made or works with.
Tended(j) ==
    deaths = 0 /\ ~lost =>
      \A s \in remote[j].alive :
          \/ task[j].pc = "made" /\ s = remote[j].created
          \/ task[j].pc \in {"undo", "stage", "wait", "collect", "ending"} /\ s = task[j].sandbox

\* Once a project is being deleted, a job without a task is over.
Deleted(j) ==
    /\ deleting # "no" => ~Live(j) \/ task[j].pc # "none"
    /\ deleting = "done" => task[j].pc \in {"none", "book", "release", "mark"} /\ ~Live(j)

JobInv(j) == Held(j) /\ Started(j) /\ Paid(j) /\ Tended(j) /\ Deleted(j)

\* A process that is down has no tasks.
Down == ~up => deaths > 0 /\ deleting = "no" /\ \A j \in Jobs : task[j].pc = "none"

IInv == TypeOK /\ Down /\ \A j \in Jobs : JobInv(j)

-----------------------------------------------------------------------------
(* A step that concerns one job *)

Same(k) == /\ job'[k] = job[k] /\ hold'[k] = hold[k] /\ ledger'[k] = ledger[k]
           /\ task'[k] = task[k] /\ remote'[k] = remote[k]

\* A job whose variables a step leaves alone keeps its invariant.
LEMMA JobFrame ==
  ASSUME NEW k \in Jobs, JobInv(k), Same(k), lost => lost',
         deaths' = deaths, deleting' = deleting
  PROVE  JobInv(k)'
BY DEF JobInv, Same, Held, Started, Paid, Tended, Deleted, Live, IsTerminal, Terminal

\* The records and tasks of the model, field by field.
LEMMA Fields ==
  ASSUME TypeOK, NEW j \in Jobs
  PROVE  /\ job[j] \in Records /\ task[j] \in Tasks /\ remote[j] \in Remotes
         /\ hold[j] \in {"none", "held", "released"} /\ ledger[j] \in Nat
BY DEF TypeOK

\* What is shown of every such step.
Kept(j) == /\ TypeOK' /\ JobInv(j)' /\ \A k \in Jobs \ {j} : Same(k)
           /\ (lost => lost') /\ UNCHANGED processVars

-----------------------------------------------------------------------------
(* The steps of a job, from its submission to its last record *)

LEMMA EnvironmentReadyKeeps ==
  ASSUME IInv, NEW j \in Jobs, EnvironmentReady(j)
  PROVE  Kept(j)
<1>0. /\ job[j] \in Records /\ task[j] \in Tasks /\ remote[j] \in Remotes /\ JobInv(j)
      /\ hold[j] \in {"none", "held", "released"} /\ ledger[j] \in Nat /\ TypeOK
  BY Fields DEF IInv
<1>1. /\ [task[j] EXCEPT !.pc = "create"] \in Tasks
      /\ [NoTask EXCEPT !.pc = "book"] \in Tasks
      /\ [job[j] EXCEPT !.state = "cancelled"] \in Records
  BY <1>0, ModalAssumption DEF Records, Tasks, Remotes, Sandboxes, Terminal, NoTask
<1>2. TypeOK'
  BY <1>0, <1>1 DEF TypeOK, processVars, EnvironmentReady, FinishWithoutSandbox, Become, Go, At
<1>3. JobInv(j)'
  BY <1>0
  DEF JobInv, Held, Started, Paid, Tended, Deleted, Live, IsTerminal, Terminal, TypeOK,
      Records, Tasks, Remotes, Sandboxes, processVars, EnvironmentReady, FinishWithoutSandbox,
      Become, Go, At, NoTask
<1>4. \A k \in Jobs \ {j} : Same(k)
  BY <1>0 DEF Same, TypeOK, EnvironmentReady, FinishWithoutSandbox, Become, Go, At, NoTask
<1> QED
  BY <1>2, <1>3, <1>4
  DEF Kept, processVars, EnvironmentReady, FinishWithoutSandbox, Become, Go, At, NoTask

LEMMA EnvironmentFailsKeeps ==
  ASSUME IInv, NEW j \in Jobs, EnvironmentFails(j)
  PROVE  Kept(j)
<1>0. /\ job[j] \in Records /\ task[j] \in Tasks /\ remote[j] \in Remotes /\ JobInv(j)
      /\ hold[j] \in {"none", "held", "released"} /\ ledger[j] \in Nat /\ TypeOK
  BY Fields DEF IInv
<1>1. /\ [NoTask EXCEPT !.pc = "book"] \in Tasks
      /\ [job[j] EXCEPT !.state = "cancelled"] \in Records
      /\ [job[j] EXCEPT !.state = "failed"] \in Records
      /\ task[j].left > 1 => [pc |-> "prepare", sandbox |-> 0, left |-> task[j].left - 1] \in Tasks
  BY <1>0, ModalAssumption DEF Records, Tasks, Remotes, Sandboxes, Terminal, NoTask
<1>2. TypeOK'
  BY <1>0, <1>1
  DEF TypeOK, processVars, EnvironmentFails, NextInstance, FinishWithoutSandbox, Failure,
      Become, Go, At
<1>3. JobInv(j)'
  BY <1>0
  DEF JobInv, Held, Started, Paid, Tended, Deleted, Live, IsTerminal, Terminal, TypeOK,
      Records, Tasks, Remotes, Sandboxes, processVars, EnvironmentFails, NextInstance,
      FinishWithoutSandbox, Failure, Become, Go, At, NoTask
<1>4. \A k \in Jobs \ {j} : Same(k)
  BY <1>0
  DEF Same, TypeOK, EnvironmentFails, NextInstance, FinishWithoutSandbox, Failure, Become, Go,
      At, NoTask
<1> QED
  BY <1>2, <1>3, <1>4
  DEF Kept, processVars, EnvironmentFails, NextInstance, FinishWithoutSandbox, Failure, Become,
      Go, At, NoTask

LEMMA SandboxCreatedKeeps ==
  ASSUME IInv, NEW j \in Jobs, SandboxCreated(j)
  PROVE  Kept(j)
<1>0. /\ job[j] \in Records /\ task[j] \in Tasks /\ remote[j] \in Remotes /\ JobInv(j)
      /\ hold[j] \in {"none", "held", "released"} /\ ledger[j] \in Nat /\ TypeOK
  BY Fields DEF IInv
<1>1. /\ [task[j] EXCEPT !.pc = "made"] \in Tasks
      /\ remote[j].created < MaxSandboxes =>
         [remote[j] EXCEPT !.created = remote[j].created + 1,
                           !.alive = remote[j].alive \cup {remote[j].created + 1}] \in Remotes
  <2>1. [task[j] EXCEPT !.pc = "made"] \in Tasks
    BY <1>0, ModalAssumption DEF Tasks, Sandboxes
  <2>2. ASSUME remote[j].created < MaxSandboxes
        PROVE  [remote[j] EXCEPT !.created = remote[j].created + 1,
                  !.alive = remote[j].alive \cup {remote[j].created + 1}] \in Remotes
    <3>1. /\ remote[j].created \in {0} \cup Sandboxes /\ remote[j].alive \subseteq Sandboxes
          /\ remote[j].starts \in Nat
      BY <1>0 DEF Remotes
    <3>2. remote[j].created + 1 \in Sandboxes
      BY <2>2, <3>1, ModalAssumption DEF Sandboxes
    <3>3. remote[j].alive \cup {remote[j].created + 1} \in SUBSET Sandboxes
      BY <3>1, <3>2
    <3> QED
      BY <1>0, <3>2, <3>3 DEF Remotes
  <2> QED
    BY <2>1, <2>2
<1>2. TypeOK'
  BY <1>0, <1>1 DEF TypeOK, processVars, SandboxCreated, Go, At
<1>3. JobInv(j)'
  BY <1>0
  DEF JobInv, Held, Started, Paid, Tended, Deleted, Live, IsTerminal, Terminal, TypeOK,
      Records, Tasks, Remotes, Sandboxes, processVars, SandboxCreated, Go, At
<1>4. \A k \in Jobs \ {j} : Same(k)
  BY <1>0 DEF Same, TypeOK, SandboxCreated, Go, At
<1> QED
  BY <1>2, <1>3, <1>4 DEF Kept, processVars, SandboxCreated, Go, At

LEMMA CreateFailsKeeps ==
  ASSUME IInv, NEW j \in Jobs, CreateFails(j)
  PROVE  Kept(j)
<1>0. /\ job[j] \in Records /\ task[j] \in Tasks /\ remote[j] \in Remotes /\ JobInv(j)
      /\ hold[j] \in {"none", "held", "released"} /\ ledger[j] \in Nat /\ TypeOK
  BY Fields DEF IInv
<1>1. /\ [NoTask EXCEPT !.pc = "book"] \in Tasks
      /\ [job[j] EXCEPT !.state = "cancelled"] \in Records
      /\ [job[j] EXCEPT !.state = "failed"] \in Records
      /\ task[j].left > 1 => [pc |-> "prepare", sandbox |-> 0, left |-> task[j].left - 1] \in Tasks
  BY <1>0, ModalAssumption DEF Records, Tasks, Remotes, Sandboxes, Terminal, NoTask
<1>2. TypeOK'
  BY <1>0, <1>1
  DEF TypeOK, processVars, CreateFails, NextInstance, FinishWithoutSandbox, Failure, Become,
      Go, At
<1>3. JobInv(j)'
  <2>1. (lost => lost') /\ (task[j].pc = "made" => lost')
    BY DEF CreateFails
  <2>2. /\ task[j].pc \in {"create", "made"}
        /\ UNCHANGED <<hold, ledger, remote, up, configured, deleting, deaths>>
    BY DEF CreateFails, processVars
  <2>3. deaths' = 0 /\ ~lost' => remote[j].alive = {}
    BY <1>0, <2>1, <2>2 DEF JobInv, Tended
  <2>4. CASE task[j].left > 1 /\ ~job[j].cancel
    <3>1. job' = job /\ task'[j].pc = "prepare"
      BY <1>0, <2>4 DEF CreateFails, NextInstance, TypeOK
    <3> QED
      BY <1>0, <2>2, <2>3, <3>1
      DEF JobInv, Held, Started, Paid, Tended, Deleted, Live, IsTerminal, Terminal
  <2>5. CASE ~(task[j].left > 1 /\ ~job[j].cancel)
    <3>1. /\ task'[j].pc = "book" /\ job'[j].state \in {"cancelled", "failed"}
          /\ job'[j].sandbox = job[j].sandbox
      BY <1>0, <2>5
      DEF CreateFails, NextInstance, FinishWithoutSandbox, Failure, Become, NoTask, TypeOK,
          Records
    <3> QED
      BY <1>0, <2>2, <2>3, <3>1
      DEF JobInv, Held, Started, Paid, Tended, Deleted, Live, IsTerminal, Terminal
  <2> QED
    BY <2>4, <2>5
<1>4. \A k \in Jobs \ {j} : Same(k)
  BY <1>0
  DEF Same, TypeOK, CreateFails, NextInstance, FinishWithoutSandbox, Failure, Become, Go, At,
      NoTask
<1> QED
  BY <1>2, <1>3, <1>4
  DEF Kept, processVars, CreateFails, NextInstance, FinishWithoutSandbox, Failure, Become, Go,
      At, NoTask

LEMMA PersistSandboxKeeps ==
  ASSUME IInv, NEW j \in Jobs, PersistSandbox(j)
  PROVE  Kept(j)
<1>0. /\ job[j] \in Records /\ task[j] \in Tasks /\ remote[j] \in Remotes /\ JobInv(j)
      /\ hold[j] \in {"none", "held", "released"} /\ ledger[j] \in Nat /\ TypeOK
  BY Fields DEF IInv
<1>1. /\ [job[j] EXCEPT !.sandbox = remote[j].created] \in Records
      /\ [task[j] EXCEPT !.pc = "stage", !.sandbox = remote[j].created] \in Tasks
      /\ [task[j] EXCEPT !.pc = "undo", !.sandbox = remote[j].created] \in Tasks
  <2>1. [job[j] EXCEPT !.sandbox = remote[j].created] \in Records
    BY <1>0, ModalAssumption DEF Records, Terminal, Remotes
  <2>2. [task[j] EXCEPT !.pc = "stage", !.sandbox = remote[j].created] \in Tasks
    BY <1>0, ModalAssumption DEF Tasks, Remotes
  <2>3. [task[j] EXCEPT !.pc = "undo", !.sandbox = remote[j].created] \in Tasks
    BY <1>0, ModalAssumption DEF Tasks, Remotes
  <2> QED
    BY <2>1, <2>2, <2>3
<1>2. TypeOK'
  <2>1. job' \in [Jobs -> Records] /\ task' \in [Jobs -> Tasks]
    BY <1>0, <1>1 DEF PersistSandbox, TypeOK
  <2> QED
    BY <1>0, <2>1 DEF TypeOK, processVars, PersistSandbox
<1>3. JobInv(j)'
  BY <1>0
  DEF JobInv, Held, Started, Paid, Tended, Deleted, Live, IsTerminal, Terminal, TypeOK,
      Records, Tasks, Remotes, Sandboxes, processVars, PersistSandbox, At
<1>4. \A k \in Jobs \ {j} : Same(k)
  BY <1>0 DEF Same, TypeOK, PersistSandbox
<1> QED
  BY <1>2, <1>3, <1>4 DEF Kept, processVars, PersistSandbox

LEMMA UndoSandboxKeeps ==
  ASSUME IInv, NEW j \in Jobs, UndoSandbox(j)
  PROVE  Kept(j)
<1>0. /\ job[j] \in Records /\ task[j] \in Tasks /\ remote[j] \in Remotes /\ JobInv(j)
      /\ hold[j] \in {"none", "held", "released"} /\ ledger[j] \in Nat /\ TypeOK
  BY Fields DEF IInv
<1>1. /\ [job[j] EXCEPT !.sandbox = 0, !.state = "cancelled"] \in Records
      /\ [job[j] EXCEPT !.state = "cancelled"] \in Records
      /\ [task[j] EXCEPT !.pc = "ending"] \in Tasks
      /\ [NoTask EXCEPT !.pc = "book"] \in Tasks
      /\ [remote[j] EXCEPT !.alive = remote[j].alive \ {task[j].sandbox}] \in Remotes
  <2>1. [job[j] EXCEPT !.sandbox = 0, !.state = "cancelled"] \in Records
    BY <1>0, ModalAssumption DEF Records, Terminal
  <2>2. [job[j] EXCEPT !.state = "cancelled"] \in Records
    BY <1>0, ModalAssumption DEF Records, Terminal
  <2>3. [task[j] EXCEPT !.pc = "ending"] \in Tasks
    BY <1>0, ModalAssumption DEF Tasks
  <2>4. [NoTask EXCEPT !.pc = "book"] \in Tasks
    BY <1>0, ModalAssumption DEF Tasks, NoTask
  <2>5. [remote[j] EXCEPT !.alive = remote[j].alive \ {task[j].sandbox}] \in Remotes
    BY <1>0, ModalAssumption DEF Remotes
  <2> QED
    BY <2>1, <2>2, <2>3, <2>4, <2>5
<1>2. TypeOK'
  <2>1. UNCHANGED processVars /\ lost' \in BOOLEAN
    BY <1>0 DEF UndoSandbox, Terminates, TypeOK
  <2>2. job' \in [Jobs -> Records]
    BY <1>0, <1>1 DEF UndoSandbox, FinishWithSandbox, Become, TypeOK
  <2>3. task' \in [Jobs -> Tasks]
    BY <1>0, <1>1 DEF UndoSandbox, FinishWithSandbox, Go, TypeOK
  <2>4. remote' \in [Jobs -> Remotes]
    BY <1>0, <1>1 DEF UndoSandbox, Terminates, TypeOK
  <2> QED
    BY <1>0, <2>1, <2>2, <2>3, <2>4 DEF TypeOK, processVars, UndoSandbox
<1>3. JobInv(j)'
  <2>1. /\ UNCHANGED <<processVars, hold, ledger>> /\ task[j].pc = "undo"
        /\ remote'[j].starts = remote[j].starts /\ job'[j].state = "cancelled"
        /\ ~lost' => ~lost /\ remote'[j].alive = remote[j].alive \ {task[j].sandbox}
        /\ \/ task'[j].pc = "book" /\ job'[j].sandbox = 0
           \/ task'[j].pc = "ending" /\ job'[j].sandbox = job[j].sandbox
    BY <1>0
    DEF TypeOK, Records, Tasks, Remotes, UndoSandbox, FinishWithSandbox, Terminates, Become, Go,
        At, NoTask
  <2>2. Held(j)' /\ Started(j)'
    BY <1>0, <2>1 DEF JobInv, Held, Started, Live, IsTerminal, Terminal
  <2>3. Paid(j)' /\ Deleted(j)'
    BY <1>0, <2>1 DEF JobInv, Held, Paid, Deleted, Live, Terminal, processVars
  <2>4. Tended(j)'
    BY <1>0, <2>1 DEF JobInv, Tended, processVars
  <2> QED
    BY <2>2, <2>3, <2>4 DEF JobInv
<1>4. \A k \in Jobs \ {j} : Same(k)
  BY <1>0 DEF Same, TypeOK, UndoSandbox, FinishWithSandbox, Terminates, Become, Go, At, NoTask
<1> QED
  BY <1>2, <1>3, <1>4
  DEF Kept, processVars, UndoSandbox, FinishWithSandbox, Terminates, Become, Go, At, NoTask

LEMMA StartCommandKeeps ==
  ASSUME IInv, NEW j \in Jobs, StartCommand(j)
  PROVE  Kept(j)
<1>0. /\ job[j] \in Records /\ task[j] \in Tasks /\ remote[j] \in Remotes /\ JobInv(j)
      /\ hold[j] \in {"none", "held", "released"} /\ ledger[j] \in Nat /\ TypeOK
  BY Fields DEF IInv
<1>1. /\ [job[j] EXCEPT !.state = "running"] \in Records
      /\ [task[j] EXCEPT !.pc = "wait"] \in Tasks
      /\ [remote[j] EXCEPT !.starts = remote[j].starts + 1] \in Remotes
  <2>1. [job[j] EXCEPT !.state = "running"] \in Records
    BY <1>0, ModalAssumption DEF Records, Terminal
  <2>2. [task[j] EXCEPT !.pc = "wait"] \in Tasks
    BY <1>0, ModalAssumption DEF Tasks
  <2>3. [remote[j] EXCEPT !.starts = remote[j].starts + 1] \in Remotes
    BY <1>0, ModalAssumption DEF Remotes
  <2> QED
    BY <2>1, <2>2, <2>3
<1>2. TypeOK'
  BY <1>0, <1>1 DEF TypeOK, processVars, StartCommand, Become, Go, At
<1>3. JobInv(j)'
  BY <1>0
  DEF JobInv, Held, Started, Paid, Tended, Deleted, Live, IsTerminal, Terminal, TypeOK,
      Records, Tasks, Remotes, Sandboxes, processVars, StartCommand, Become, Go, At
<1>4. \A k \in Jobs \ {j} : Same(k)
  BY <1>0 DEF Same, TypeOK, StartCommand, Become, Go, At
<1> QED
  BY <1>2, <1>3, <1>4 DEF Kept, processVars, StartCommand, Become, Go, At

LEMMA CommandEndsKeeps ==
  ASSUME IInv, NEW j \in Jobs, CommandEnds(j)
  PROVE  Kept(j)
<1>0. /\ job[j] \in Records /\ task[j] \in Tasks /\ remote[j] \in Remotes /\ JobInv(j)
      /\ hold[j] \in {"none", "held", "released"} /\ ledger[j] \in Nat /\ TypeOK
  BY Fields DEF IInv
<1>1. /\ [job[j] EXCEPT !.state = "collecting"] \in Records
      /\ [task[j] EXCEPT !.pc = "collect"] \in Tasks
  BY <1>0, ModalAssumption DEF Records, Tasks, Remotes, Sandboxes, Terminal
<1>2. TypeOK'
  BY <1>0, <1>1 DEF TypeOK, processVars, CommandEnds, Become, Go, At
<1>3. JobInv(j)'
  BY <1>0
  DEF JobInv, Held, Started, Paid, Tended, Deleted, Live, IsTerminal, Terminal, TypeOK,
      Records, Tasks, Remotes, Sandboxes, processVars, CommandEnds, Become, Go, At
<1>4. \A k \in Jobs \ {j} : Same(k)
  BY <1>0 DEF Same, TypeOK, CommandEnds, Become, Go, At
<1> QED
  BY <1>2, <1>3, <1>4 DEF Kept, processVars, CommandEnds, Become, Go, At

LEMMA OutputsCollectedKeeps ==
  ASSUME IInv, NEW j \in Jobs, OutputsCollected(j)
  PROVE  Kept(j)
<1>0. /\ job[j] \in Records /\ task[j] \in Tasks /\ remote[j] \in Remotes /\ JobInv(j)
      /\ hold[j] \in {"none", "held", "released"} /\ ledger[j] \in Nat /\ TypeOK
  BY Fields DEF IInv
<1>1. /\ [job[j] EXCEPT !.state = "succeeded"] \in Records
      /\ [job[j] EXCEPT !.state = "failed"] \in Records
      /\ [task[j] EXCEPT !.pc = "ending"] \in Tasks
  BY <1>0, ModalAssumption DEF Records, Tasks, Remotes, Sandboxes, Terminal
<1>2. TypeOK'
  BY <1>0, <1>1 DEF TypeOK, processVars, OutputsCollected, FinishWithSandbox, Become, Go, At
<1>3. JobInv(j)'
  BY <1>0
  DEF JobInv, Held, Started, Paid, Tended, Deleted, Live, IsTerminal, Terminal, TypeOK,
      Records, Tasks, Remotes, Sandboxes, processVars, OutputsCollected, FinishWithSandbox,
      Become, Go, At
<1>4. \A k \in Jobs \ {j} : Same(k)
  BY <1>0 DEF Same, TypeOK, OutputsCollected, FinishWithSandbox, Become, Go, At
<1> QED
  BY <1>2, <1>3, <1>4 DEF Kept, processVars, OutputsCollected, FinishWithSandbox, Become, Go, At

LEMMA TaskFailsKeeps ==
  ASSUME IInv, NEW j \in Jobs, TaskFails(j)
  PROVE  Kept(j)
<1>0. /\ job[j] \in Records /\ task[j] \in Tasks /\ remote[j] \in Remotes /\ JobInv(j)
      /\ hold[j] \in {"none", "held", "released"} /\ ledger[j] \in Nat /\ TypeOK
  BY Fields DEF IInv
<1>1. /\ [job[j] EXCEPT !.state = "cancelled"] \in Records
      /\ [job[j] EXCEPT !.state = "failed"] \in Records
      /\ [job[j] EXCEPT !.state = "lost"] \in Records
      /\ [task[j] EXCEPT !.pc = "ending"] \in Tasks
  BY <1>0, ModalAssumption DEF Records, Tasks, Remotes, Sandboxes, Terminal
<1>2. TypeOK'
  BY <1>0, <1>1 DEF TypeOK, processVars, TaskFails, FinishWithSandbox, Failure, Become, Go, At
<1>3. JobInv(j)'
  BY <1>0
  DEF JobInv, Held, Started, Paid, Tended, Deleted, Live, IsTerminal, Terminal, TypeOK,
      Records, Tasks, Remotes, Sandboxes, processVars, TaskFails, FinishWithSandbox, Failure,
      Become, Go, At
<1>4. \A k \in Jobs \ {j} : Same(k)
  BY <1>0 DEF Same, TypeOK, TaskFails, FinishWithSandbox, Failure, Become, Go, At
<1> QED
  BY <1>2, <1>3, <1>4 DEF Kept, processVars, TaskFails, FinishWithSandbox, Failure, Become, Go, At

LEMMA AttachKeeps ==
  ASSUME IInv, NEW j \in Jobs, Attach(j)
  PROVE  Kept(j)
<1>0. /\ job[j] \in Records /\ task[j] \in Tasks /\ remote[j] \in Remotes /\ JobInv(j)
      /\ hold[j] \in {"none", "held", "released"} /\ ledger[j] \in Nat /\ TypeOK
  BY Fields DEF IInv
<1>1. /\ [task[j] EXCEPT !.pc = "poll", !.sandbox = job[j].sandbox] \in Tasks
  BY <1>0, ModalAssumption DEF Records, Tasks, Remotes, Sandboxes, Terminal
<1>2. TypeOK'
  BY <1>0, <1>1 DEF TypeOK, processVars, Attach, At
<1>3. JobInv(j)'
  BY <1>0
  DEF JobInv, Held, Started, Paid, Tended, Deleted, Live, IsTerminal, Terminal, TypeOK,
      Records, Tasks, Remotes, Sandboxes, processVars, Attach, At
<1>4. \A k \in Jobs \ {j} : Same(k)
  BY <1>0 DEF Same, TypeOK, Attach, At
<1> QED
  BY <1>2, <1>3, <1>4 DEF Kept, processVars, Attach, At

LEMMA AttachCancelledKeeps ==
  ASSUME IInv, NEW j \in Jobs, AttachCancelled(j)
  PROVE  Kept(j)
<1>0. /\ job[j] \in Records /\ task[j] \in Tasks /\ remote[j] \in Remotes /\ JobInv(j)
      /\ hold[j] \in {"none", "held", "released"} /\ ledger[j] \in Nat /\ TypeOK
  BY Fields DEF IInv
<1>1. /\ [job[j] EXCEPT !.state = "cancelled"] \in Records
      /\ [NoTask EXCEPT !.pc = "book"] \in Tasks
      /\ [remote[j] EXCEPT !.alive = remote[j].alive \ {job[j].sandbox}] \in Remotes
  BY <1>0, ModalAssumption DEF Records, Tasks, Remotes, Sandboxes, Terminal, NoTask
<1>2. TypeOK'
  BY <1>0, <1>1
  DEF TypeOK, processVars, AttachCancelled, Terminates, FinishWithoutSandbox, Become, At
<1>3. JobInv(j)'
  <2>1. /\ task[j].pc = "attach"
        /\ UNCHANGED <<hold, ledger, up, configured, deleting, deaths>>
    BY DEF AttachCancelled, At, processVars
  <2>2. /\ task'[j].pc = "book" /\ job'[j].state = "cancelled" /\ job'[j].sandbox = job[j].sandbox
    BY <1>0 DEF AttachCancelled, FinishWithoutSandbox, Become, NoTask, TypeOK, Records
  <2>3. /\ remote'[j].alive \subseteq remote[j].alive /\ remote'[j].starts = remote[j].starts
        /\ remote'[j].created = remote[j].created /\ (lost => lost')
    BY <1>0 DEF AttachCancelled, Terminates, TypeOK, Remotes
  <2> QED
    BY <1>0, <2>1, <2>2, <2>3
    DEF JobInv, Held, Started, Paid, Tended, Deleted, Live, IsTerminal, Terminal
<1>4. \A k \in Jobs \ {j} : Same(k)
  BY <1>0 DEF Same, TypeOK, AttachCancelled, Terminates, FinishWithoutSandbox, Become, At, NoTask
<1> QED
  BY <1>2, <1>3, <1>4
  DEF Kept, processVars, AttachCancelled, Terminates, FinishWithoutSandbox, Become, At, NoTask

LEMMA AttachFailsKeeps ==
  ASSUME IInv, NEW j \in Jobs, AttachFails(j)
  PROVE  Kept(j)
<1>0. /\ job[j] \in Records /\ task[j] \in Tasks /\ remote[j] \in Remotes /\ JobInv(j)
      /\ hold[j] \in {"none", "held", "released"} /\ ledger[j] \in Nat /\ TypeOK
  BY Fields DEF IInv
<1>1. /\ [job[j] EXCEPT !.state = "cancelled"] \in Records
      /\ [job[j] EXCEPT !.state = "lost"] \in Records
      /\ [NoTask EXCEPT !.pc = "book"] \in Tasks
  BY <1>0, ModalAssumption DEF Records, Tasks, Remotes, Sandboxes, Terminal, NoTask
<1>2. TypeOK'
  BY <1>0, <1>1 DEF TypeOK, processVars, AttachFails, FinishWithoutSandbox, Become, At
<1>3. JobInv(j)'
  BY <1>0
  DEF JobInv, Held, Started, Paid, Tended, Deleted, Live, IsTerminal, Terminal, TypeOK,
      Records, Tasks, Remotes, Sandboxes, processVars, AttachFails, FinishWithoutSandbox,
      Become, At, NoTask
<1>4. \A k \in Jobs \ {j} : Same(k)
  BY <1>0 DEF Same, TypeOK, AttachFails, FinishWithoutSandbox, Become, At, NoTask
<1> QED
  BY <1>2, <1>3, <1>4 DEF Kept, processVars, AttachFails, FinishWithoutSandbox, Become, At, NoTask

LEMMA TerminateSandboxKeeps ==
  ASSUME IInv, NEW j \in Jobs, TerminateSandbox(j)
  PROVE  Kept(j)
<1>0. /\ job[j] \in Records /\ task[j] \in Tasks /\ remote[j] \in Remotes /\ JobInv(j)
      /\ hold[j] \in {"none", "held", "released"} /\ ledger[j] \in Nat /\ TypeOK
  BY Fields DEF IInv
<1>1. /\ [task[j] EXCEPT !.pc = "book"] \in Tasks
      /\ [remote[j] EXCEPT !.alive = remote[j].alive \ {task[j].sandbox}] \in Remotes
  BY <1>0, ModalAssumption DEF Records, Tasks, Remotes, Sandboxes, Terminal
<1>2. TypeOK'
  BY <1>0, <1>1 DEF TypeOK, processVars, TerminateSandbox, Terminates, Go, At
<1>3. JobInv(j)'
  <2>1. /\ UNCHANGED <<processVars, job, hold, ledger>> /\ task[j].pc = "ending"
        /\ task'[j].pc = "book" /\ remote'[j].starts = remote[j].starts
        /\ ~lost' => ~lost /\ remote'[j].alive = remote[j].alive \ {task[j].sandbox}
    BY <1>0 DEF TypeOK, Tasks, Remotes, TerminateSandbox, Terminates, Go, At
  <2>2. Held(j)' /\ Started(j)' /\ Paid(j)' /\ Deleted(j)'
    BY <1>0, <2>1 DEF JobInv, Held, Started, Paid, Deleted, Live, IsTerminal, processVars
  <2>3. Tended(j)'
    BY <1>0, <2>1 DEF JobInv, Tended, processVars
  <2> QED
    BY <2>2, <2>3 DEF JobInv
<1>4. \A k \in Jobs \ {j} : Same(k)
  BY <1>0 DEF Same, TypeOK, TerminateSandbox, Terminates, Go, At
<1> QED
  BY <1>2, <1>3, <1>4 DEF Kept, processVars, TerminateSandbox, Terminates, Go, At

LEMMA BookCostKeeps ==
  ASSUME IInv, NEW j \in Jobs, BookCost(j)
  PROVE  Kept(j)
<1>0. /\ job[j] \in Records /\ task[j] \in Tasks /\ remote[j] \in Remotes /\ JobInv(j)
      /\ hold[j] \in {"none", "held", "released"} /\ ledger[j] \in Nat /\ TypeOK
  BY Fields DEF IInv
<1>1. /\ [task[j] EXCEPT !.pc = "release"] \in Tasks
      /\ NoTask \in Tasks
  BY <1>0, ModalAssumption DEF Records, Tasks, Remotes, Sandboxes, Terminal, NoTask
<1>2. TypeOK'
  BY <1>0, <1>1 DEF TypeOK, processVars, BookCost, Book, Go, At
<1>3. JobInv(j)'
  BY <1>0
  DEF JobInv, Held, Started, Paid, Tended, Deleted, Live, IsTerminal, Terminal, TypeOK,
      Records, Tasks, Remotes, Sandboxes, processVars, BookCost, Book, Go, At, NoTask
<1>4. \A k \in Jobs \ {j} : Same(k)
  BY <1>0 DEF Same, TypeOK, BookCost, Book, Go, At, NoTask
<1> QED
  BY <1>2, <1>3, <1>4 DEF Kept, processVars, BookCost, Book, Go, At, NoTask

LEMMA ReleaseHoldKeeps ==
  ASSUME IInv, NEW j \in Jobs, ReleaseHold(j)
  PROVE  Kept(j)
<1>0. /\ job[j] \in Records /\ task[j] \in Tasks /\ remote[j] \in Remotes /\ JobInv(j)
      /\ hold[j] \in {"none", "held", "released"} /\ ledger[j] \in Nat /\ TypeOK
  BY Fields DEF IInv
<1>1. /\ [task[j] EXCEPT !.pc = "mark"] \in Tasks
  BY <1>0, ModalAssumption DEF Records, Tasks, Remotes, Sandboxes, Terminal
<1>2. TypeOK'
  BY <1>0, <1>1 DEF TypeOK, processVars, ReleaseHold, Go, At
<1>3. JobInv(j)'
  BY <1>0
  DEF JobInv, Held, Started, Paid, Tended, Deleted, Live, IsTerminal, Terminal, TypeOK,
      Records, Tasks, Remotes, Sandboxes, processVars, ReleaseHold, Go, At
<1>4. \A k \in Jobs \ {j} : Same(k)
  BY <1>0 DEF Same, TypeOK, ReleaseHold, Go, At
<1> QED
  BY <1>2, <1>3, <1>4 DEF Kept, processVars, ReleaseHold, Go, At

LEMMA MarkReconciledKeeps ==
  ASSUME IInv, NEW j \in Jobs, MarkReconciled(j)
  PROVE  Kept(j)
<1>0. /\ job[j] \in Records /\ task[j] \in Tasks /\ remote[j] \in Remotes /\ JobInv(j)
      /\ hold[j] \in {"none", "held", "released"} /\ ledger[j] \in Nat /\ TypeOK
  BY Fields DEF IInv
<1>1. /\ NoTask \in Tasks
      /\ [job[j] EXCEPT !.reconciled = TRUE] \in Records
  <2>1. NoTask \in Tasks
    BY <1>0, ModalAssumption DEF Tasks, NoTask
  <2>2. [job[j] EXCEPT !.reconciled = TRUE] \in Records
    BY <1>0, ModalAssumption DEF Records, Terminal
  <2> QED
    BY <2>1, <2>2
<1>2. TypeOK'
  BY <1>0, <1>1 DEF TypeOK, processVars, MarkReconciled, Go, At
<1>3. JobInv(j)'
  BY <1>0
  DEF JobInv, Held, Started, Paid, Tended, Deleted, Live, IsTerminal, Terminal, TypeOK,
      Records, Tasks, Remotes, Sandboxes, processVars, MarkReconciled, Go, At, NoTask
<1>4. \A k \in Jobs \ {j} : Same(k)
  BY <1>0 DEF Same, TypeOK, MarkReconciled, Go, At, NoTask
<1> QED
  BY <1>2, <1>3, <1>4 DEF Kept, processVars, MarkReconciled, Go, At, NoTask

LEMMA SubmitKeeps ==
  ASSUME IInv, NEW j \in Jobs, Submit(j)
  PROVE  Kept(j)
<1>0. /\ job[j] \in Records /\ task[j] \in Tasks /\ remote[j] \in Remotes /\ JobInv(j)
      /\ hold[j] \in {"none", "held", "released"} /\ ledger[j] \in Nat /\ TypeOK
  BY Fields DEF IInv
<1>1. /\ [job[j] EXCEPT !.state = "preparing"] \in Records
      /\ Executing \in Tasks
  BY <1>0, ModalAssumption DEF Records, Tasks, Remotes, Sandboxes, Terminal, NoTask, Executing
<1>2. TypeOK'
  BY <1>0, <1>1 DEF TypeOK, processVars, Submit, Become
<1>3. JobInv(j)'
  BY <1>0
  DEF JobInv, Held, Started, Paid, Tended, Deleted, Live, IsTerminal, Terminal, TypeOK,
      Records, Tasks, Remotes, Sandboxes, processVars, Submit, Executing, Become, NoTask,
      NoJob
<1>4. \A k \in Jobs \ {j} : Same(k)
  BY <1>0 DEF Same, TypeOK, Submit, Executing, Become, NoTask, NoJob
<1> QED
  BY <1>2, <1>3, <1>4 DEF Kept, processVars, Submit, Executing, Become, NoTask, NoJob

LEMMA SandboxExpiresKeeps ==
  ASSUME IInv, NEW j \in Jobs, SandboxExpires(j)
  PROVE  Kept(j)
<1>0. /\ job[j] \in Records /\ task[j] \in Tasks /\ remote[j] \in Remotes /\ JobInv(j)
      /\ hold[j] \in {"none", "held", "released"} /\ ledger[j] \in Nat /\ TypeOK
  BY Fields DEF IInv
<1>1. /\ \A s \in remote[j].alive : [remote[j] EXCEPT !.alive = remote[j].alive \ {s}] \in Remotes
  BY <1>0, ModalAssumption DEF Records, Tasks, Remotes, Sandboxes, Terminal
<1>2. TypeOK'
  BY <1>0, <1>1 DEF TypeOK, processVars, SandboxExpires
<1>3. JobInv(j)'
  BY <1>0
  DEF JobInv, Held, Started, Paid, Tended, Deleted, Live, IsTerminal, Terminal, TypeOK,
      Records, Tasks, Remotes, Sandboxes, processVars, SandboxExpires
<1>4. \A k \in Jobs \ {j} : Same(k)
  BY <1>0 DEF Same, TypeOK, SandboxExpires
<1> QED
  BY <1>2, <1>3, <1>4 DEF Kept, processVars, SandboxExpires

LEMMA CancelKeeps ==
  ASSUME IInv, NEW j \in Jobs, Cancel(j)
  PROVE  Kept(j)
<1>0. /\ job[j] \in Records /\ task[j] \in Tasks /\ remote[j] \in Remotes /\ JobInv(j)
      /\ hold[j] \in {"none", "held", "released"} /\ ledger[j] \in Nat /\ TypeOK
  BY Fields DEF IInv
<1>1. /\ CancelledRecord(j) \in Records
      /\ CancelledTask(j) \in Tasks
      /\ [remote[j] EXCEPT !.alive = remote[j].alive \ {task[j].sandbox}] \in Remotes
  <2>1. CancelledRecord(j) \in Records
    BY <1>0, ModalAssumption DEF Records, Terminal, CancelledRecord
  <2>2. CancelledTask(j) \in Tasks
    BY <1>0, ModalAssumption DEF Tasks, CancelledTask, NoTask
  <2>3. [remote[j] EXCEPT !.alive = remote[j].alive \ {task[j].sandbox}] \in Remotes
    BY <1>0, ModalAssumption DEF Remotes
  <2> QED
    BY <2>1, <2>2, <2>3
<1>2. TypeOK'
  BY <1>0, <1>1 DEF TypeOK, processVars, Cancel, Terminates
<1>3. JobInv(j)'
  <2>1. Live(j) /\ UNCHANGED <<hold, ledger, up, configured, deleting, deaths>>
    BY DEF Cancel, processVars
  <2>2. /\ job'[j].sandbox = job[j].sandbox
        /\ job'[j].state = IF task[j].pc = "none" THEN "cancelled" ELSE job[j].state
    BY <1>0 DEF Cancel, CancelledRecord, TypeOK, Records
  <2>3. \/ task[j].pc = "none" /\ task'[j].pc \in {"none", "book"}
        \/ task[j].pc # "none" /\ task'[j] = task[j]
    BY <1>0 DEF Cancel, CancelledTask, NoTask, TypeOK
  <2>4. /\ remote'[j].alive \subseteq remote[j].alive /\ remote'[j].starts = remote[j].starts
        /\ remote'[j].created = remote[j].created /\ (lost => lost')
    BY <1>0 DEF Cancel, Terminates, TypeOK, Remotes
  <2>5. CASE task[j].pc = "none"
    BY <1>0, <2>1, <2>2, <2>3, <2>4, <2>5
    DEF JobInv, Held, Started, Paid, Tended, Deleted, Live, IsTerminal, Terminal
  <2>6. CASE task[j].pc # "none"
    BY <1>0, <2>1, <2>2, <2>3, <2>4, <2>6
    DEF JobInv, Held, Started, Paid, Tended, Deleted, Live, IsTerminal, Terminal
  <2> QED
    BY <2>5, <2>6
<1>4. \A k \in Jobs \ {j} : Same(k)
  BY <1>0 DEF Same, TypeOK, Cancel, CancelledRecord, CancelledTask, Terminates, NoTask
<1> QED
  BY <1>2, <1>3, <1>4
  DEF Kept, processVars, Cancel, CancelledRecord, CancelledTask, Terminates, NoTask

-----------------------------------------------------------------------------
(* The steps that concern every job *)

\* A death leaves no task, and the records as they are.
LEMMA DeathKeeps ==
  ASSUME IInv, BackendDies \/ \E j \in Jobs : SubmitInterrupted(j)
  PROVE  IInv'
<1>0. TypeOK /\ NoTask \in Tasks /\ deaths \in Nat
  BY ModalAssumption DEF IInv, TypeOK, NoTask, Tasks
<1>1. /\ up' = FALSE /\ deaths' = deaths + 1 /\ deaths < MaxDeaths /\ deleting' = "no"
      /\ task' = [j \in Jobs |-> NoTask] /\ UNCHANGED <<ledger, remote, configured, lost>>
  BY DEF BackendDies, SubmitInterrupted, Dies
<1>2. job' \in [Jobs -> Records] /\ hold' \in [Jobs -> {"none", "held", "released"}]
  <2>1. CASE BackendDies
    BY <1>0, <2>1 DEF BackendDies, TypeOK
  <2>2. ASSUME NEW j \in Jobs, SubmitInterrupted(j)
        PROVE  job' \in [Jobs -> Records] /\ hold' \in [Jobs -> {"none", "held", "released"}]
    <3>1. [job[j] EXCEPT !.state = "queued"] \in Records
      BY <1>0 DEF TypeOK, Records
    <3> QED
      BY <1>0, <2>2, <3>1 DEF SubmitInterrupted, TypeOK
  <2> QED
    BY <2>1, <2>2
<1>3. TypeOK'
  <2>1. deaths' \in 0 .. MaxDeaths
    BY <1>0, <1>1, ModalAssumption DEF TypeOK
  <2>2. up' \in BOOLEAN /\ configured' \in BOOLEAN /\ lost' \in BOOLEAN
    BY <1>0, <1>1 DEF TypeOK
  <2> QED
    BY <1>0, <1>1, <1>2, <2>1, <2>2 DEF TypeOK
<1>4. ASSUME NEW k \in Jobs PROVE JobInv(k)'
  <2>1. /\ JobInv(k) /\ job[k] \in Records /\ remote[k] \in Remotes
        /\ task'[k].pc = "none" /\ ledger'[k] = ledger[k] /\ remote'[k] = remote[k]
    BY <1>0, <1>1 DEF IInv, TypeOK, NoTask
  <2>2. \/ hold'[k] = hold[k] /\ job'[k] = job[k]
        \/ /\ hold[k] = "none" /\ hold'[k] = "held" /\ job'[k].sandbox = job[k].sandbox
    <3>1. CASE BackendDies
      BY <3>1 DEF BackendDies
    <3>2. ASSUME NEW j \in Jobs, SubmitInterrupted(j)
          PROVE  \/ hold'[k] = hold[k] /\ job'[k] = job[k]
                 \/ /\ hold[k] = "none" /\ hold'[k] = "held" /\ job'[k].sandbox = job[k].sandbox
      BY <1>0, <2>1, <3>2 DEF SubmitInterrupted, TypeOK, Records
    <3> QED
      BY <3>1, <3>2
  <2>3. deaths' # 0 /\ deleting' = "no"
    BY <1>0, <1>1
  <2> QED
    BY <2>1, <2>2, <2>3
    DEF JobInv, Held, Started, Paid, Tended, Deleted, Live, IsTerminal, Terminal
<1>5. Down'
  BY <1>0, <1>1 DEF Down, NoTask
<1> QED
  BY <1>3, <1>4, <1>5 DEF IInv

\* A recovery gives a task to the jobs that have none.
LEMMA RecoverKeeps ==
  ASSUME IInv, NEW credentials \in BOOLEAN, Recover(credentials),
         up' = TRUE, configured' \in BOOLEAN, UNCHANGED <<deleting, deaths>>
  PROVE  IInv'
<1>0. TypeOK /\ Executing \in Tasks /\ [NoTask EXCEPT !.pc = "book"] \in Tasks
      /\ [NoTask EXCEPT !.pc = "attach"] \in Tasks
  BY ModalAssumption DEF IInv, TypeOK, NoTask, Executing, Tasks
<1>1. ASSUME NEW k \in Jobs
      PROVE  /\ job'[k] \in Records /\ task'[k] \in Tasks /\ ledger'[k] \in Nat
             /\ hold'[k] \in {"none", "held", "released"}
             /\ JobInv(k)'
  <2>0. /\ JobInv(k) /\ job[k] \in Records /\ remote[k] \in Remotes /\ task[k] \in Tasks
        /\ ledger[k] \in Nat /\ hold[k] \in {"none", "held", "released"}
        /\ UNCHANGED <<remote, lost, deaths, deleting>>
    BY <1>0 DEF IInv, TypeOK, Recover
  <2>1. CASE Idle(k) /\ ~Live(k)
    <3>1. job'[k] = job[k] /\ ledger'[k] = ledger[k]
      BY <2>1 DEF Recover, Idle, SettledUnder
    <3>2. /\ task'[k] \in Tasks /\ task'[k].pc \in {"none", "book"}
          /\ task'[k].pc = "book" => IsTerminal(k)
      BY <1>0, <2>0, <2>1 DEF Recover, Idle, RecoveredTask, NoTask
    <3>3. hold'[k] = hold[k] \/ (hold[k] = "held" /\ hold'[k] = "released" /\ job[k] = NoJob)
      BY <2>1 DEF Recover, Idle, SettledUnder
    <3>4. hold[k] = "none" => task'[k].pc # "book"
      BY <2>0, <3>2 DEF JobInv, Held, IsTerminal, NoJob, Terminal
    <3> QED
      BY <2>0, <2>1, <3>1, <3>2, <3>3, <3>4
      DEF JobInv, Held, Started, Paid, Tended, Deleted, Live, IsTerminal, Terminal, NoJob, Idle
  <2>2. CASE Idle(k) /\ Live(k)
    <3>1. hold'[k] = hold[k] /\ hold[k] = "held" /\ ledger'[k] = ledger[k] /\ job[k] # NoJob
      BY <2>0, <2>2 DEF Recover, Idle, SettledUnder, JobInv, Held, Live, NoJob
    <3>2. deleting = "no"
      BY <2>0, <2>2 DEF JobInv, Deleted, Idle, IInv, TypeOK
    <3>3. CASE ~credentials
      <4>1. job'[k] = job[k] /\ task'[k] = task[k]
        BY <2>2, <3>3 DEF Recover, Idle, SettledUnder, RecoveredTask, Live, IsTerminal
      <4> QED
        BY <2>0, <3>1, <4>1, JobFrame DEF Same
    <3>4. CASE credentials /\ job[k].sandbox # 0
      <4>1. job'[k] = job[k] /\ task'[k] = [NoTask EXCEPT !.pc = "attach"]
        BY <2>2, <3>4 DEF Recover, Idle, SettledUnder, RecoveredTask, Live, IsTerminal
      <4> QED
        BY <1>0, <2>0, <2>2, <3>1, <3>2, <4>1
        DEF JobInv, Held, Started, Paid, Tended, Deleted, Live, IsTerminal, Terminal, NoTask, Idle
    <3>5. CASE credentials /\ job[k].sandbox = 0 /\ job[k].cancel
      <4>1. /\ job'[k] = [job[k] EXCEPT !.state = "cancelled"]
            /\ task'[k] = [NoTask EXCEPT !.pc = "book"]
        BY <2>2, <3>5 DEF Recover, Idle, SettledUnder, RecoveredTask, Live, IsTerminal
      <4>2. /\ job'[k] \in Records /\ job'[k].state = "cancelled" /\ job'[k].sandbox = 0
        BY <2>0, <3>5, <4>1 DEF Records, Terminal
      <4> QED
        BY <1>0, <2>0, <2>2, <3>1, <3>2, <4>1, <4>2
        DEF JobInv, Held, Started, Paid, Tended, Deleted, Live, IsTerminal, Terminal, NoTask, Idle
    <3>6. CASE credentials /\ job[k].sandbox = 0 /\ ~job[k].cancel
      <4>1. /\ job'[k] = [job[k] EXCEPT !.state = "preparing"] /\ task'[k] = Executing
        BY <2>2, <3>6 DEF Recover, Idle, SettledUnder, RecoveredTask, Live, IsTerminal
      <4>2. /\ job'[k] \in Records /\ job'[k].state = "preparing" /\ job'[k].sandbox = 0
        BY <2>0, <3>6, <4>1 DEF Records, Terminal
      <4> QED
        BY <1>0, <2>0, <2>2, <3>1, <3>2, <4>1, <4>2
        DEF JobInv, Held, Started, Paid, Tended, Deleted, Live, IsTerminal, Terminal, Executing, Idle
    <3> QED
      BY <3>3, <3>4, <3>5, <3>6
  <2>3. CASE SettledUnder(k)
    <3>1. /\ task'[k] = task[k] /\ job'[k] = [job[k] EXCEPT !.reconciled = TRUE]
          /\ ledger'[k] = (IF ledger[k] = 0 THEN 1 ELSE ledger[k])
          /\ hold'[k] = IF hold[k] = "held" THEN "released" ELSE hold[k]
      BY <2>3 DEF Recover, Idle, SettledUnder
    <3>2. /\ job'[k] \in Records /\ job'[k].state = job[k].state /\ job'[k].sandbox = job[k].sandbox
      BY <2>0, <3>1 DEF Records
    <3>3. task[k].pc = "ending" /\ IsTerminal(k) /\ hold[k] # "none" /\ ledger'[k] > 0
      BY <2>0, <2>3, <3>1 DEF SettledUnder, JobInv, Held
    <3> QED
      BY <2>0, <3>1, <3>2, <3>3
      DEF JobInv, Held, Started, Paid, Tended, Deleted, Live, IsTerminal, Terminal
  <2>4. CASE ~Idle(k) /\ ~SettledUnder(k)
    <3>1. job[k] # NoJob
      BY <2>0, <2>4 DEF JobInv, Held, Live, IsTerminal, Idle, NoJob, Terminal
    <3>2. Same(k)
      BY <2>0, <2>4, <3>1 DEF Recover, Same
    <3> QED
      BY <2>0, <3>2, JobFrame DEF Same
  <2> QED
    BY <2>1, <2>2, <2>3, <2>4
<1>2. TypeOK'
  BY <1>0, <1>1 DEF TypeOK, Recover
<1>3. Down'
  BY DEF Down
<1> QED
  BY <1>1, <1>2, <1>3 DEF IInv

\* Deleting the project cancels the open jobs.
LEMMA CancelProjectKeeps ==
  ASSUME IInv, CancelProject
  PROVE  IInv'
<1>0. TypeOK /\ [NoTask EXCEPT !.pc = "book"] \in Tasks
  BY ModalAssumption DEF IInv, TypeOK, NoTask, Tasks
<1>1. ASSUME NEW k \in Jobs
      PROVE  job'[k] \in Records /\ task'[k] \in Tasks /\ JobInv(k)'
  <2>0. /\ JobInv(k) /\ job[k] \in Records /\ remote[k] \in Remotes /\ task[k] \in Tasks
        /\ UNCHANGED <<hold, ledger, remote, deaths, lost>> /\ deleting' = "cancelling"
    BY <1>0 DEF IInv, TypeOK, CancelProject
  <2>1. CASE ~Live(k)
    <3>1. job'[k] = job[k] /\ task'[k] = task[k]
      BY <2>1 DEF CancelProject
    <3> QED
      BY <2>0, <2>1, <3>1 DEF JobInv, Held, Started, Paid, Tended, Deleted, Live, IsTerminal
  <2>2. CASE Live(k) /\ task[k].pc = "none"
    <3>1. /\ job'[k] = [job[k] EXCEPT !.cancel = TRUE, !.state = "cancelled"]
          /\ task'[k] = IF job[k].sandbox = 0 THEN [NoTask EXCEPT !.pc = "book"] ELSE task[k]
      BY <2>2 DEF CancelProject, CancelledRecord, CancelledTask
    <3>2. job'[k] \in Records /\ job'[k].state = "cancelled" /\ job'[k].sandbox = job[k].sandbox
      BY <2>0, <3>1 DEF Records, Terminal
    <3>3. task'[k] \in Tasks /\ task'[k].pc \in {"none", "book"}
      BY <1>0, <2>0, <2>2, <3>1 DEF NoTask
    <3> QED
      BY <2>0, <2>2, <3>2, <3>3
      DEF JobInv, Held, Started, Paid, Tended, Deleted, Live, IsTerminal, Terminal
  <2>3. CASE Live(k) /\ task[k].pc # "none"
    <3>1. /\ job'[k] = [job[k] EXCEPT !.cancel = TRUE, !.state = job[k].state]
          /\ task'[k] = task[k]
      BY <2>3 DEF CancelProject, CancelledRecord, CancelledTask
    <3>2. job'[k] \in Records /\ job'[k].state = job[k].state /\ job'[k].sandbox = job[k].sandbox
      BY <2>0, <3>1 DEF Records
    <3> QED
      BY <2>0, <2>3, <3>1, <3>2
      DEF JobInv, Held, Started, Paid, Tended, Deleted, Live, IsTerminal, Terminal
  <2> QED
    BY <2>1, <2>2, <2>3
<1>2. TypeOK'
  BY <1>0, <1>1 DEF TypeOK, CancelProject
<1>3. Down'
  BY DEF Down, CancelProject
<1> QED
  BY <1>1, <1>2, <1>3 DEF IInv

\* The other steps of a deletion change nothing of a job.
LEMMA DeletionKeeps ==
  ASSUME IInv, ProjectCancelled \/ ResumeProject
  PROVE  IInv'
<1>1. /\ UNCHANGED <<job, hold, ledger, task, remote, up, configured, deaths, lost>> /\ up
      /\ deleting' \in {"no", "done"}
      /\ deleting' = "done" => deleting # "no" /\ \A k \in Jobs : task[k].pc = "none"
  BY DEF ProjectCancelled, ResumeProject
<1>2. TypeOK'
  BY <1>1 DEF IInv, TypeOK
<1>3. ASSUME NEW k \in Jobs PROVE JobInv(k)'
  BY <1>1 DEF IInv, JobInv, Held, Started, Paid, Tended, Deleted, Live, IsTerminal
<1>4. Down'
  BY <1>1 DEF Down
<1> QED
  BY <1>2, <1>3, <1>4 DEF IInv

-----------------------------------------------------------------------------
(* The invariant holds, and what follows from it *)

LEMMA InvInit == Init => IInv
<1> SUFFICES ASSUME Init PROVE IInv
  OBVIOUS
<1>1. NoJob \in Records /\ NoTask \in Tasks /\ NoRemote \in Remotes
  BY ModalAssumption DEF NoJob, Records, NoTask, Tasks, NoRemote, Remotes
<1>2. TypeOK
  <2>1. deaths \in 0 .. MaxDeaths
    BY ModalAssumption DEF Init
  <2>2. up \in BOOLEAN /\ configured \in BOOLEAN /\ lost \in BOOLEAN
    BY DEF Init
  <2> QED
    BY <1>1, <2>1, <2>2 DEF Init, TypeOK
<1>3. ASSUME NEW k \in Jobs PROVE JobInv(k)
  BY DEF Init, NoJob, NoTask, NoRemote, JobInv, Held, Started, Paid, Tended, Deleted, Live,
         IsTerminal, Terminal
<1> QED
  BY <1>2, <1>3 DEF IInv, Down, Init

LEMMA InvStep == IInv /\ [Next]_vars => IInv'
<1> SUFFICES ASSUME IInv, [Next]_vars PROVE IInv'
  OBVIOUS
<1>1. ASSUME NEW j \in Jobs, Kept(j), up \/ UNCHANGED task PROVE IInv'
  <2>1. ASSUME NEW k \in Jobs \ {j} PROVE JobInv(k)'
    BY <1>1, JobFrame DEF Kept, processVars, IInv
  <2>2. Down'
    <3>1. up' = up /\ deaths' = deaths /\ deleting' = deleting
      BY <1>1 DEF Kept, processVars
    <3> QED
      BY <1>1, <3>1 DEF Down, IInv
  <2> QED
    BY <1>1, <2>1, <2>2 DEF IInv, Kept
<1>2. ASSUME NEW j \in Jobs, TaskStep(j) \/ Submit(j) \/ Cancel(j) \/ SandboxExpires(j)
      PROVE  IInv'
  <2>1. up \/ UNCHANGED task
    BY <1>2
    DEF TaskStep, At, EnvironmentReady, EnvironmentFails, SandboxCreated, CreateFails,
        PersistSandbox, UndoSandbox, StartCommand, CommandEnds, OutputsCollected, TaskFails, Attach,
        AttachCancelled, AttachFails, TerminateSandbox, BookCost, ReleaseHold, MarkReconciled,
        Submit, Cancel, SandboxExpires
  <2> QED
    BY <1>1, <1>2, <2>1, EnvironmentReadyKeeps, EnvironmentFailsKeeps, SandboxCreatedKeeps,
       CreateFailsKeeps, PersistSandboxKeeps, UndoSandboxKeeps, StartCommandKeeps, CommandEndsKeeps,
       OutputsCollectedKeeps, TaskFailsKeeps, AttachKeeps, AttachCancelledKeeps, AttachFailsKeeps,
       TerminateSandboxKeeps, BookCostKeeps, ReleaseHoldKeeps, MarkReconciledKeeps, SubmitKeeps,
       SandboxExpiresKeeps, CancelKeeps DEF TaskStep
<1>3. CASE BackendDies \/ \E j \in Jobs : SubmitInterrupted(j)
  BY <1>3, DeathKeeps
<1>4. CASE BackendStarts \/ SaveCredentials
  <2>1. PICK c \in BOOLEAN : Recover(c) /\ configured' \in BOOLEAN
    BY <1>4 DEF BackendStarts, SaveCredentials
  <2>2. up' = TRUE /\ UNCHANGED <<deleting, deaths>>
    BY <1>4 DEF BackendStarts, SaveCredentials, IInv, TypeOK
  <2> QED
    BY <2>1, <2>2, RecoverKeeps
<1>5. CASE CancelProject
  BY <1>5, CancelProjectKeeps
<1>6. CASE ProjectCancelled \/ ResumeProject
  BY <1>6, DeletionKeeps
<1>7. CASE UNCHANGED vars
  <2>1. ASSUME NEW k \in Jobs PROVE JobInv(k)'
    BY <1>7, JobFrame DEF vars, processVars, Same, IInv
  <2> QED
    BY <1>7, <2>1 DEF IInv, TypeOK, Down, vars, processVars
<1> QED
  BY <1>2, <1>3, <1>4, <1>5, <1>6, <1>7 DEF Next

LEMMA InvAlways == Spec => []IInv
BY InvInit, InvStep, PTL DEF Spec

\* Every variable keeps its type.
THEOREM ModalTypeOK == Spec => []TypeOK
<1>1. IInv => TypeOK
  BY DEF IInv
<1> QED
  BY <1>1, InvAlways, PTL

\* However often a job is recovered, its command is started at most once (manager.ts,
\* executeJob and recoverJob).
THEOREM ModalStartsOnce == Spec => []CommandStartsOnce
<1>1. IInv => CommandStartsOnce
  BY DEF IInv, JobInv, Started, CommandStartsOnce
<1> QED
  BY <1>1, InvAlways, PTL

\* A living sandbox that is on record is paid for, by the reservation or by its row (manager.ts,
\* reconcile; cost/ledger.ts).
THEOREM ModalSandboxIsPaid == Spec => []LiveSandboxIsPaid
<1>1. IInv => LiveSandboxIsPaid
  <2> SUFFICES ASSUME IInv, NEW j \in Jobs, job[j].sandbox \in remote[j].alive
               PROVE  hold[j] = "held" \/ ledger[j] > 0
    BY DEF LiveSandboxIsPaid
  <2>1. JobInv(j) /\ remote[j] \in Remotes /\ hold[j] \in {"none", "held", "released"}
    BY Fields DEF IInv
  <2>2. job[j].sandbox # 0
    BY <2>1 DEF Remotes, Sandboxes
  <2> QED
    BY <2>1, <2>2 DEF JobInv, Held, Paid, NoJob
<1> QED
  BY <1>1, InvAlways, PTL

\* While nothing is lost and nothing dies, a living sandbox has a task that ends it (manager.ts,
\* executeJob and finish).
THEOREM ModalSandboxHasTask == Spec => []LiveSandboxHasTask
<1>1. IInv => LiveSandboxHasTask
  BY DEF IInv, JobInv, Tended, LiveSandboxHasTask
<1> QED
  BY <1>1, InvAlways, PTL

\* When a project's files are removed, none of its jobs is open (manager.ts, cancelProject).
THEOREM ModalDeletionLeavesNothing == Spec => []DeletionLeavesNothing
<1>1. IInv => DeletionLeavesNothing
  BY DEF IInv, JobInv, Deleted, DeletionLeavesNothing
<1> QED
  BY <1>1, InvAlways, PTL
=============================================================================
