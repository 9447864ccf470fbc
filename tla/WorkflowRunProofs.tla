-------------------------- MODULE WorkflowRunProofs --------------------------
(* Theorems about WorkflowRun and the locks that its mutations hold         *)
(* (FileLock), for every set of processes, every lease duration and all     *)
(* bounds.                                                                  *)
EXTENDS WorkflowRun, FileLock, SequenceTheorems, TLAPS

-----------------------------------------------------------------------------
(* Types.                                                                   *)

CtlType == ctl \in [Controllers -> ProcessType]
LogEvent == [type : EventTypes, by : {"owner", "nobody"}, epoch : Nat]

LEMMA ProcessHasType ==
  ASSUME NEW p \in {"down", "idle"}
  PROVE  Process(p) \in ProcessType
BY DEF Process, ProcessType, Phases, AbortReason

LEMMA GoHasType ==
  ASSUME CtlType, NEW c \in Controllers, NEW next \in Phases, Go(c, next)
  PROVE  CtlType'
BY DEF CtlType, Go, ProcessType

LEMMA FinishHasType ==
  ASSUME CtlType, NEW c \in Controllers, Finish(c)
  PROVE  CtlType'
BY ProcessHasType DEF CtlType, Finish, Finished, ProcessType

LEMMA AbortedHasType ==
  ASSUME NEW p \in ProcessType, NEW reason \in AbortReason
  PROVE  Aborted(p, reason) \in ProcessType
<1>1. First(p.entryAbort, reason) \in AbortReason /\ First(p.runAbort, reason) \in AbortReason
  BY DEF First, ProcessType
<1>2. Process("idle") \in ProcessType
  BY ProcessHasType
<1> QED
  BY <1>1, <1>2 DEF Aborted, ProcessType

LEMMA AppendHasType ==
  ASSUME TypeOK, NEW t \in EventTypes, NEW by \in {"owner", "nobody"},
         AppendAs(by, t)
  PROVE  /\ run' \in [status : RunStatus, node : NodeStatus]
         /\ log' \in Seq(LogEvent)
<1>1. [type |-> t, by |-> by, epoch |-> lease.fence] \in LogEvent
  BY DEF LogEvent, TypeOK
<1>2. log' \in Seq(LogEvent)
  BY <1>1 DEF AppendAs, TypeOK, LogEvent
<1>3. StatusAfter(run, t) \in RunStatus
  BY DEF TypeOK, StatusAfter, RunStatus, EventTypes
<1>4. NodeAfter(run, t) \in NodeStatus
  BY DEF TypeOK, NodeAfter, NodeStatus, EventTypes
<1> QED
  BY <1>2, <1>3, <1>4 DEF AppendAs, Reduce

\* The parts of the state a step of the store may change, as TypeOK sees them.
StoreType ==
  /\ run \in [status : RunStatus, node : NodeStatus]
  /\ log \in Seq(LogEvent)

LEMMA WriteHasType ==
  ASSUME TypeOK, NEW c \in Controllers, NEW t \in EventTypes,
         NEW next \in Phases, Write(c, t, next)
  PROVE  CtlType' /\ StoreType' /\ UNCHANGED <<lease, intent>>
<1>1. CtlType /\ StoreType
  BY DEF TypeOK, CtlType, StoreType, LogEvent
<1>2. CASE Go(c, next) /\ UNCHANGED durable
  BY <1>1, <1>2, GoHasType DEF durable, StoreType
<1>3. CASE AppendAs("owner", t)
           /\ ctl' = [ctl EXCEPT ![c].phase = next, ![c].seq = @ + 1]
           /\ UNCHANGED <<lease, intent>>
  <2>1. CtlType'
    BY <1>1, <1>3 DEF CtlType, ProcessType
  <2> QED
    BY <2>1, <1>3, AppendHasType DEF StoreType
<1>4. CASE Go(c, "cancelling") /\ UNCHANGED durable
  BY <1>1, <1>4, GoHasType DEF durable, StoreType, Phases
<1>5. CASE Go(c, "leaveError") /\ UNCHANGED durable
  BY <1>1, <1>5, GoHasType DEF durable, StoreType, Phases
<1> QED
  BY <1>2, <1>3, <1>4, <1>5 DEF Write, durable

LEMMA UnclaimedHasType ==
  ASSUME TypeOK, NEW t \in EventTypes, AppendUnclaimed(t)
  PROVE  StoreType'
BY AppendHasType DEF AppendUnclaimed, StoreType

\* Every variable keeps its type (TypeOK), whatever the processes do.
LEMMA TypeOKIsInductive == TypeOK /\ [Next]_vars => TypeOK'
<1> SUFFICES ASSUME TypeOK, [Next]_vars
             PROVE  TypeOK'
  OBVIOUS
<1> USE DEF CtlType, StoreType, LogEvent
<1>0. CtlType /\ StoreType
  BY DEF TypeOK
<1>1. CASE UNCHANGED vars
  BY <1>1 DEF vars, TypeOK
<1>2. CASE Tick
  BY <1>2 DEF Tick, Live, TypeOK
<1>3. ASSUME NEW c \in Controllers, Progress(c)
      PROVE  TypeOK'
  <2>1. CASE Pump(c) \/ CreateExecutor(c) \/ CheckRunnable(c)
    <3>1. CtlType' /\ UNCHANGED <<run, log, lease, intent, resumes, stops>>
      BY <1>0, <2>1, GoHasType
      DEF Pump, CreateExecutor, CheckRunnable, Phases, durable
    <3> QED BY <3>1 DEF TypeOK
  <2>2. CASE AcquireLease(c)
    <3>0. "own" \in Phases /\ "persist" \in Phases /\ lease.fence + 1 \in Nat
      BY DEF Phases, TypeOK
    <3>1. CtlType'
      <4>1. CASE Live
        BY <1>0, <2>2, <3>0, <4>1, GoHasType DEF AcquireLease
      <4>2. CASE ~Live
        <5>1. ctl' = [ctl EXCEPT ![c].phase = "own", ![c].fence = lease.fence + 1]
          BY <2>2, <4>2 DEF AcquireLease
        <5>2. ctl[c] \in ProcessType
          BY <1>0
        <5>3. ctl'[c] = [ctl[c] EXCEPT !.phase = "own", !.fence = lease.fence + 1]
          BY <1>0, <5>1
        <5>4. ctl'[c] \in ProcessType
          BY <5>2, <5>3, <3>0 DEF ProcessType
        <5> QED BY <1>0, <5>1, <5>4
      <4> QED BY <4>1, <4>2
    <3>2. lease' \in [owner : Controllers \cup {NoOwner}, fence : Nat, left : Nat]
      BY <2>2, LeaseTicksAssumption DEF AcquireLease, TypeOK
    <3> QED BY <2>2, <3>1, <3>2 DEF AcquireLease, TypeOK
  <2>3. CASE ReadOwnedRun(c)
    <3>1. Len(log) \in Nat /\ ctl[c] \in ProcessType
      BY <1>0
    <3>2. PICK p \in Phases, a \in AbortReason :
            ctl' = [ctl EXCEPT ![c].phase = p, ![c].runAbort = a, ![c].seq = Len(log)]
      <4>1. {"begin", "leaveError"} \subseteq Phases /\ {"user", "none"} \subseteq AbortReason
        BY DEF Phases, AbortReason
      <4> QED BY <2>3, <4>1 DEF ReadOwnedRun
    <3>3. [ctl[c] EXCEPT !.phase = p, !.runAbort = a, !.seq = Len(log)] \in ProcessType
      BY <3>1 DEF ProcessType
    <3>4. CtlType'
      BY <1>0, <3>2, <3>3
    <3> QED BY <2>3, <3>4 DEF ReadOwnedRun, TypeOK, durable
  <2>4. CASE Begin(c) \/ LoopSchedules(c) \/ NodeSettles(c) \/ LoopAborts(c) \/ Cancelling(c)
    <3>1. UNCHANGED <<resumes, stops>>
      BY <2>4 DEF Begin, LoopSchedules, NodeSettles, LoopAborts, Cancelling
    <3>2. \/ \E t \in EventTypes, next \in Phases : Write(c, t, next)
          \/ \E next \in Phases : Go(c, next) /\ UNCHANGED durable
      BY <2>4 DEF Begin, LoopSchedules, NodeSettles, LoopAborts, Cancelling,
                  EventTypes, Phases
    <3>3. CtlType' /\ StoreType' /\ UNCHANGED <<lease, intent>>
      BY <1>0, <3>2, WriteHasType, GoHasType DEF durable
    <3> QED BY <3>1, <3>3 DEF TypeOK
  <2>5. CASE ReleaseLease(c)
    <3>1. CtlType'
      BY <1>0, <2>5, GoHasType, FinishHasType DEF ReleaseLease, Phases
    <3>2. lease' \in [owner : Controllers \cup {NoOwner}, fence : Nat, left : Nat]
      BY <2>5 DEF ReleaseLease, TypeOK
    <3> QED BY <2>5, <3>1, <3>2 DEF ReleaseLease, TypeOK
  <2>6. CASE PersistCancellation(c)
    <3>1. CtlType'
      BY <1>0, <2>6, FinishHasType DEF PersistCancellation
    <3>2. StoreType' /\ intent' \in BOOLEAN /\ lease' = lease
      BY <1>0, <2>6, UnclaimedHasType
      DEF PersistCancellation, RequestCancellation, EventTypes, durable, TypeOK
    <3> QED BY <2>6, <3>1, <3>2 DEF PersistCancellation, TypeOK
  <2>7. CASE PersistOutcome(c)
    <3>1. CtlType'
      BY <1>0, <2>7, FinishHasType, GoHasType DEF PersistOutcome, AfterStart, Phases
    <3>2. StoreType'
      BY <1>0, <2>7, UnclaimedHasType DEF PersistOutcome, EventTypes
    <3> QED BY <2>7, <3>1, <3>2 DEF PersistOutcome, TypeOK
  <2>8. CASE PersistSecond(c)
    <3>1. CtlType'
      BY <1>0, <2>8, FinishHasType DEF PersistSecond
    <3>2. StoreType'
      BY <1>0, <2>8, UnclaimedHasType DEF PersistSecond, EventTypes
    <3> QED BY <2>8, <3>1, <3>2 DEF PersistSecond, TypeOK
  <2>9. CASE Exit(c)
    <3>1. CtlType'
      BY <1>0, <2>9, ProcessHasType DEF Exit
    <3> QED BY <2>9, <3>1 DEF Exit, TypeOK, durable
  <2> QED
    BY <1>3, <2>1, <2>2, <2>3, <2>4, <2>5, <2>6, <2>7, <2>8, <2>9 DEF Progress
<1>4. ASSUME NEW c \in Controllers, Timers(c)
      PROVE  TypeOK'
  <2>1. CASE Heartbeat(c)
    <3>0. "lease" \in AbortReason
      BY DEF AbortReason
    <3>1. CtlType'
      BY <1>0, <2>1, <3>0 DEF Heartbeat, ProcessType
    <3>2. lease' \in [owner : Controllers \cup {NoOwner}, fence : Nat, left : Nat]
      BY <2>1, LeaseTicksAssumption DEF Heartbeat, TypeOK
    <3> QED BY <2>1, <3>1, <3>2 DEF Heartbeat, TypeOK
  <2>2. CASE PollCancellation(c)
    <3>1. CtlType'
      BY <1>0, <2>2 DEF PollCancellation, ProcessType, AbortReason
    <3> QED BY <2>2, <3>1 DEF PollCancellation, TypeOK, durable
  <2> QED BY <1>4, <2>1, <2>2 DEF Timers
<1>5. ASSUME NEW c \in Controllers, Request(c)
      PROVE  TypeOK'
  <2>0. ctl[c] \in ProcessType
    BY <1>0
  <2>1. CASE Resume(c)
    <3>1. CtlType'
      BY <1>0, <2>1, GoHasType DEF Resume, Phases
    <3> QED BY <2>1, <3>1 DEF Resume, TypeOK, durable
  <2>2. CASE Cancel(c)
    <3>1. CtlType'
      BY <1>0, <2>0, <2>2, AbortedHasType DEF Cancel, AbortReason
    <3>2. StoreType' /\ intent' \in BOOLEAN /\ lease' = lease
      BY <1>0, <2>2, UnclaimedHasType DEF Cancel, RequestCancellation, EventTypes
    <3> QED BY <2>2, <3>1, <3>2 DEF Cancel, TypeOK
  <2>3. CASE StopRun(c)
    <3>1. CtlType'
      BY <1>0, <2>0, <2>3, AbortedHasType DEF StopRun, AbortReason
    <3>2. StoreType'
      BY <2>3, UnclaimedHasType DEF StopRun, EventTypes
    <3> QED BY <2>3, <3>1, <3>2 DEF StopRun, TypeOK
  <2>4. CASE Close(c)
    <3>1. Aborted(ctl[c], "shutdown") \in ProcessType
      BY <2>0, AbortedHasType DEF AbortReason
    <3>2. CtlType'
      BY <1>0, <2>4, <3>1 DEF Close, ProcessType
    <3> QED BY <2>4, <3>2 DEF Close, TypeOK, durable
  <2> QED BY <1>5, <2>1, <2>2, <2>3, <2>4 DEF Request
<1>6. ASSUME NEW c \in Controllers, Start(c) \/ Reconcile(c)
      PROVE  TypeOK'
  <2>1. CASE Start(c)
    <3>1. CtlType'
      BY <1>0, <2>1, GoHasType DEF Start, Phases
    <3> QED BY <2>1, <3>1 DEF Start, TypeOK, durable
  <2>2. CASE Reconcile(c)
    <3>1. StoreType'
      BY <2>2, UnclaimedHasType DEF Reconcile, EventTypes
    <3> QED BY <2>2, <3>1 DEF Reconcile, TypeOK
  <2> QED BY <1>6, <2>1, <2>2
<1>7. ASSUME NEW c \in Controllers, Crash(c) \/ Restart(c)
      PROVE  TypeOK'
  <2>1. CtlType'
    BY <1>0, <1>7, ProcessHasType DEF Crash, Restart
  <2> QED BY <1>7, <2>1 DEF Crash, Restart, TypeOK, durable
<1> QED
  BY <1>1, <1>2, <1>3, <1>4, <1>5, <1>6, <1>7 DEF Next

\* TypeOK holds for any number of processes and any bounds.
THEOREM TypeCorrect == Spec => []TypeOK
<1>1. Init => TypeOK
  <2> SUFFICES ASSUME Init
               PROVE  TypeOK
    OBVIOUS
  <2>1. log \in Seq([type : EventTypes, by : {"owner", "nobody"}, epoch : Nat])
    BY EmptySeq DEF Init
  <2>2. ctl \in [Controllers -> ProcessType]
    BY ProcessHasType DEF Init
  <2>3. run \in [status : RunStatus, node : NodeStatus]
    BY DEF Init, RunStatus, NodeStatus
  <2> QED
    BY <2>1, <2>2, <2>3 DEF Init, TypeOK
<1> QED
  BY <1>1, TypeOKIsInductive, PTL DEF Spec

-----------------------------------------------------------------------------
(* What a step does to the durable files.                                   *)

\* The intent file is written once, and only about a run that is not over.
IntentStep == intent' = intent \/ (intent' = TRUE /\ Cancellable)

OwnerAppends ==
  /\ \E c \in Controllers, t \in EventTypes : WriteOk(c, t) /\ AppendAs("owner", t)
  /\ UNCHANGED <<lease, intent>>

OutsiderAppends ==
  /\ \E t \in EventTypes \ {"run_succeeded"} : AppendUnclaimed(t)
  /\ lease' = lease
  /\ IntentStep

LeaseGranted ==
  /\ ~Live
  /\ lease'.fence = lease.fence + 1 /\ lease'.left = LeaseTicks
  /\ UNCHANGED <<run, log, intent>>

LeaseAges ==
  /\ lease'.fence = lease.fence
  /\ lease'.left \in Nat /\ (Live' => Live)
  /\ UNCHANGED <<run, log, intent>>

NoAppend == UNCHANGED <<run, log, lease>> /\ IntentStep

\* A write of the runner reaches the log only under its lease (Write).
LEMMA WriteKind ==
  ASSUME NEW c \in Controllers, NEW t \in EventTypes, NEW next, Write(c, t, next)
  PROVE  OwnerAppends \/ NoAppend
BY DEF Write, OwnerAppends, NoAppend, IntentStep, durable

\* Every step appends under a lease, appends without a claim, grants a lease,
\* lets one age, or leaves log and lease alone.
LEMMA StepKinds ==
  ASSUME TypeOK, [Next]_vars
  PROVE  OwnerAppends \/ OutsiderAppends \/ LeaseGranted \/ LeaseAges \/ NoAppend
<1>1. CASE UNCHANGED vars
  BY <1>1 DEF vars, NoAppend, IntentStep
<1>2. CASE Tick
  BY <1>2 DEF Tick, Live, LeaseAges, TypeOK
<1>3. ASSUME NEW c \in Controllers, Progress(c)
      PROVE  OwnerAppends \/ OutsiderAppends \/ LeaseGranted \/ LeaseAges \/ NoAppend
  <2>1. CASE Pump(c) \/ CreateExecutor(c) \/ CheckRunnable(c) \/ ReadOwnedRun(c) \/ Exit(c)
    BY <2>1 DEF Pump, CreateExecutor, CheckRunnable, ReadOwnedRun, Exit, durable,
                NoAppend, IntentStep
  <2>2. CASE AcquireLease(c)
    BY <2>2 DEF AcquireLease, LeaseGranted, NoAppend, IntentStep
  <2>3. CASE Begin(c) \/ LoopSchedules(c) \/ NodeSettles(c) \/ LoopAborts(c) \/ Cancelling(c)
    <3>1. \/ \E t \in EventTypes, next \in Phases : Write(c, t, next)
          \/ UNCHANGED durable
      BY <2>3 DEF Begin, LoopSchedules, NodeSettles, LoopAborts, Cancelling,
                  EventTypes, Phases
    <3> QED BY <3>1, WriteKind DEF NoAppend, IntentStep, durable
  <2>4. CASE ReleaseLease(c)
    BY <2>4 DEF ReleaseLease, LeaseAges, Live, TypeOK
  <2>5. CASE PersistCancellation(c)
    BY <2>5 DEF PersistCancellation, RequestCancellation, OutsiderAppends,
                EventTypes, NoAppend, IntentStep, durable
  <2>6. CASE PersistOutcome(c)
    BY <2>6 DEF PersistOutcome, OutsiderAppends, EventTypes, NoAppend, IntentStep
  <2>7. CASE PersistSecond(c)
    BY <2>7 DEF PersistSecond, OutsiderAppends, EventTypes, NoAppend, IntentStep
  <2> QED
    BY <1>3, <2>1, <2>2, <2>3, <2>4, <2>5, <2>6, <2>7 DEF Progress
<1>4. ASSUME NEW c \in Controllers, Timers(c)
      PROVE  LeaseAges \/ NoAppend
  <2>1. CASE Heartbeat(c)
    BY <2>1, LeaseTicksAssumption
    DEF Heartbeat, HoldsLease, Live, LeaseAges, NoAppend, IntentStep, TypeOK
  <2>2. CASE PollCancellation(c)
    BY <2>2 DEF PollCancellation, NoAppend, IntentStep, durable
  <2> QED BY <1>4, <2>1, <2>2 DEF Timers
<1>5. ASSUME NEW c \in Controllers, Request(c)
      PROVE  OutsiderAppends \/ NoAppend
  <2>1. CASE Resume(c) \/ Close(c)
    BY <2>1 DEF Resume, Close, NoAppend, IntentStep, durable
  <2>2. CASE Cancel(c)
    BY <2>2 DEF Cancel, RequestCancellation, OutsiderAppends, EventTypes,
                NoAppend, IntentStep
  <2>3. CASE StopRun(c)
    BY <2>3 DEF StopRun, OutsiderAppends, EventTypes, IntentStep
  <2> QED BY <1>5, <2>1, <2>2, <2>3 DEF Request
<1>6. ASSUME NEW c \in Controllers,
             Start(c) \/ Reconcile(c) \/ Crash(c) \/ Restart(c)
      PROVE  OutsiderAppends \/ NoAppend
  BY <1>6 DEF Start, Reconcile, Crash, Restart, OutsiderAppends, EventTypes,
              NoAppend, IntentStep, durable
<1> QED
  BY <1>1, <1>2, <1>3, <1>4, <1>5, <1>6 DEF Next

-----------------------------------------------------------------------------
(* Cancellation.                                                            *)

\* A cancelled run never succeeds: the intent is only written about a run that
\* is not over, and from then on no owner can write run_succeeded.
THEOREM CancellationNeverSucceeds == Spec => []CancelledNeverSucceeds
<1>1. Init => CancelledNeverSucceeds
  BY DEF Init, CancelledNeverSucceeds
<1>2. TypeOK /\ CancelledNeverSucceeds /\ [Next]_vars => CancelledNeverSucceeds'
  <2> SUFFICES ASSUME TypeOK, CancelledNeverSucceeds, [Next]_vars
               PROVE  CancelledNeverSucceeds'
    OBVIOUS
  <2>1. CASE OwnerAppends
    <3>1. PICK c \in Controllers, t \in EventTypes : WriteOk(c, t) /\ AppendAs("owner", t)
      BY <2>1 DEF OwnerAppends
    <3>2. intent => run'.status = "cancelled"
      BY <3>1 DEF WriteOk, AppendAs, Reduce, StatusAfter
    <3> QED BY <2>1, <3>2 DEF OwnerAppends, CancelledNeverSucceeds
  <2>2. CASE OutsiderAppends
    <3>1. PICK t \in EventTypes \ {"run_succeeded"} : AppendUnclaimed(t)
      BY <2>2 DEF OutsiderAppends
    <3>2. run.status # "succeeded"
      BY <3>1 DEF AppendUnclaimed, AppendAs, Accepts, RequiredStatus
    <3>3. run'.status # "succeeded"
      BY <3>1, <3>2 DEF AppendUnclaimed, AppendAs, Reduce, StatusAfter
    <3> QED BY <3>3 DEF CancelledNeverSucceeds
  <2>3. CASE LeaseGranted \/ LeaseAges
    BY <2>3 DEF LeaseGranted, LeaseAges, CancelledNeverSucceeds
  <2>4. CASE NoAppend
    BY <2>4 DEF NoAppend, IntentStep, Cancellable, Terminal, CancelledNeverSucceeds
  <2> QED BY <2>1, <2>2, <2>3, <2>4, StepKinds
<1> QED
  BY <1>1, <1>2, TypeCorrect, PTL DEF Spec

-----------------------------------------------------------------------------
(* The log is a fenced log.                                                 *)

\* The run is over exactly when the last event of its log is terminal.
LogEnd == Fenced!Ended <=> run.status \in Terminal

LEMMA AppendEnds ==
  ASSUME TypeOK, LogEnd, NEW t \in EventTypes, NEW by \in {"owner", "nobody"},
         AppendAs(by, t)
  PROVE  ~Fenced!Ended /\ LogEnd'
<1>1. run.status \notin Terminal
  BY DEF AppendAs, Accepts, RequiredStatus, Terminal, EventTypes
<1>2. run'.status \in Terminal
        <=> t \in {"run_succeeded", "run_failed", "run_cancelled"}
  BY <1>1 DEF AppendAs, Reduce, StatusAfter, Terminal, EventTypes
<1>3. log' # <<>> /\ log'[Len(log')].type = t
  <2>1. log \in Seq(LogEvent) /\ [type |-> t, by |-> by, epoch |-> lease.fence] \in LogEvent
    BY DEF TypeOK, LogEvent
  <2>2. log' = Append(log, [type |-> t, by |-> by, epoch |-> lease.fence])
    BY DEF AppendAs
  <2>3. /\ Len(log') = Len(log) + 1 /\ Len(log) \in Nat
        /\ log'[Len(log) + 1] = [type |-> t, by |-> by, epoch |-> lease.fence]
    BY <2>1, <2>2
  <2> QED BY <2>3
<1> QED
  BY <1>1, <1>2, <1>3 DEF LogEnd, Fenced!Ended

LEMMA LogEndHolds == Spec => []LogEnd
<1>1. Init => LogEnd
  BY DEF Init, LogEnd, Fenced!Ended, Terminal
<1>2. TypeOK /\ LogEnd /\ [Next]_vars => LogEnd'
  <2> SUFFICES ASSUME TypeOK, LogEnd, [Next]_vars
               PROVE  LogEnd'
    OBVIOUS
  <2>1. CASE OwnerAppends \/ OutsiderAppends
    BY <2>1, AppendEnds DEF OwnerAppends, OutsiderAppends, AppendUnclaimed
  <2>2. CASE LeaseGranted \/ LeaseAges \/ NoAppend
    BY <2>2 DEF LeaseGranted, LeaseAges, NoAppend, LogEnd, Fenced!Ended
  <2> QED BY <2>1, <2>2, StepKinds
<1> QED
  BY <1>1, <1>2, TypeCorrect, PTL DEF Spec

LEMMA StepsOfAFencedLog ==
  ASSUME TypeOK, LogEnd, [Next]_vars
  PROVE  [Fenced!Next]_(Fenced!vars)
<1>1. CASE OwnerAppends
  <2>1. PICK c \in Controllers, t \in EventTypes : WriteOk(c, t) /\ AppendAs("owner", t)
    BY <1>1 DEF OwnerAppends
  <2>2. Live /\ lease' = lease /\ Live' = Live
    BY <1>1, <2>1 DEF OwnerAppends, WriteOk, HoldsLease, Live
  <2>3. ~Fenced!Ended
    BY <2>1, AppendEnds
  <2> QED
    BY <2>1, <2>2, <2>3 DEF AppendAs, Fenced!Next, Fenced!OwnerWrites, Fenced!Write
<1>2. CASE OutsiderAppends
  <2>1. PICK t \in EventTypes : AppendUnclaimed(t)
    BY <1>2 DEF OutsiderAppends
  <2>2. ~Live /\ lease' = lease /\ Live' = Live
    BY <1>2, <2>1 DEF OutsiderAppends, AppendUnclaimed, Live
  <2>3. ~Fenced!Ended
    BY <2>1, AppendEnds DEF AppendUnclaimed
  <2> QED
    BY <2>1, <2>2, <2>3
    DEF AppendUnclaimed, AppendAs, Fenced!Next, Fenced!OutsiderWrites, Fenced!Write
<1>3. CASE LeaseGranted
  BY <1>3, LeaseTicksAssumption DEF LeaseGranted, Live, Fenced!Next, Fenced!Grant
<1>4. CASE LeaseAges
  <2>1. Live \in BOOLEAN /\ Live' \in BOOLEAN
    BY DEF Live
  <2> QED
    BY <1>4, <2>1 DEF LeaseAges, Fenced!Next, Fenced!Close, Fenced!vars
<1>5. CASE NoAppend
  BY <1>5 DEF NoAppend, Live, Fenced!vars
<1> QED
  BY <1>1, <1>2, <1>3, <1>4, <1>5, StepKinds

\* Leases, fences, the clock and the unclaimed writes of controllers and
\* recovery implement the fenced log (ImplementsFencedLog).
THEOREM WorkflowRunRefinesFencedLog == Spec => ImplementsFencedLog
<1>1. Init => Fenced!Init
  BY DEF Init, Fenced!Init, Live
<1> QED
  BY <1>1, StepsOfAFencedLog, TypeCorrect, LogEndHolds, PTL
  DEF Spec, Fenced!Spec, ImplementsFencedLog

-----------------------------------------------------------------------------
(* What the fenced log promises.                                            *)

FencedLogType == log \in Seq(LogEvent) /\ lease.fence \in Nat

\* Nothing was written in a tenure that is still to come, and an open
\* tenure holds nothing but its owner's events.
TenureInv ==
  \A i \in 1..Len(log) :
    /\ log[i].epoch <= lease.fence
    /\ Live /\ log[i].epoch = lease.fence => log[i].by = "owner"

TenureOrder == FencedLogType /\ TenureInv /\ Fenced!Contiguous /\ Fenced!FinalIsLast

\* A write extends the log by one event of the current tenure and keeps what
\* was there (appendRunEventLocked).
LEMMA WriteExtends ==
  ASSUME FencedLogType, NEW by \in {"owner", "nobody"}, Fenced!Write(by)
  PROVE  /\ log' \in Seq(LogEvent)
         /\ Len(log') = Len(log) + 1
         /\ \A i \in 1..Len(log) : log'[i] = log[i]
         /\ log'[Len(log) + 1].by = by
         /\ log'[Len(log) + 1].epoch = lease.fence
<1>1. PICK t \in EventTypes : log' = Append(log, [type |-> t, by |-> by, epoch |-> lease.fence])
  BY DEF Fenced!Write
<1>2. [type |-> t, by |-> by, epoch |-> lease.fence] \in LogEvent
  BY DEF FencedLogType, LogEvent
<1> QED
  BY <1>1, <1>2 DEF FencedLogType

\* A write keeps the invariant when an open tenure is written by its owner
\* only and a closed one by others only (OwnerWrites, OutsiderWrites of FencedLog).
LEMMA WritePreserves ==
  ASSUME TenureOrder, NEW by \in {"owner", "nobody"}, Fenced!Write(by),
         Live <=> by = "owner"
  PROVE  TenureOrder'
<1> DEFINE n == Len(log) + 1
<1>1. FencedLogType
  BY DEF TenureOrder
<1>2. /\ log' \in Seq(LogEvent) /\ Len(log') = n
      /\ \A i \in 1..Len(log) : log'[i] = log[i]
      /\ log'[n].by = by /\ log'[n].epoch = lease.fence
  BY <1>1, WriteExtends
<1>3. lease'.fence = lease.fence /\ Live' = Live /\ ~Fenced!Ended
  BY DEF Fenced!Write
<1>4. Len(log) \in Nat
  BY <1>1 DEF FencedLogType
<1>5. \A i \in 1..n : i \in 1..Len(log) \/ i = n
  BY <1>4
<1>6. FencedLogType'
  BY <1>1, <1>2, <1>3 DEF FencedLogType
<1>7. TenureInv'
  <2> SUFFICES ASSUME NEW i \in 1..n
               PROVE  /\ log'[i].epoch <= lease.fence
                      /\ Live /\ log'[i].epoch = lease.fence => log'[i].by = "owner"
    BY <1>2, <1>3 DEF TenureInv
  <2>1. CASE i \in 1..Len(log)
    BY <2>1, <1>2 DEF TenureOrder, TenureInv
  <2>2. CASE i = n
    BY <2>2, <1>1, <1>2 DEF FencedLogType
  <2> QED BY <2>1, <2>2, <1>5
<1>8. Fenced!Contiguous'
  <2> SUFFICES ASSUME NEW i \in 1..n, NEW j \in 1..n, i < j
               PROVE  /\ log'[i].epoch <= log'[j].epoch
                      /\ log'[i].epoch = log'[j].epoch /\ log'[i].by = "nobody"
                           => log'[j].by = "nobody"
    BY <1>2 DEF Fenced!Contiguous
  <2>1. CASE j \in 1..Len(log)
    <3>1. i \in 1..Len(log)
      BY <2>1, <1>4
    <3> QED BY <2>1, <3>1, <1>2 DEF TenureOrder, Fenced!Contiguous
  <2>2. CASE j = n
    <3>1. i \in 1..Len(log)
      BY <2>2, <1>4
    <3>2. log'[i] = log[i] /\ log[i].epoch <= lease.fence
      BY <3>1, <1>2 DEF TenureOrder, TenureInv
    <3>3. CASE by = "owner"
      BY <2>2, <3>1, <3>2, <3>3, <1>2 DEF TenureOrder, TenureInv
    <3>4. CASE by = "nobody"
      BY <2>2, <3>2, <3>4, <1>2
    <3> QED BY <3>3, <3>4
  <2> QED BY <2>1, <2>2, <1>5
<1>9. Fenced!FinalIsLast'
  <2> SUFFICES ASSUME NEW i \in 1..n, log'[i].type \in {"run_succeeded", "run_failed", "run_cancelled"}
               PROVE  i = n
    BY <1>2 DEF Fenced!FinalIsLast
  <2>1. CASE i \in 1..Len(log)
    <3>1. log[i].type \in {"run_succeeded", "run_failed", "run_cancelled"}
      BY <2>1, <1>2
    <3>2. i = Len(log)
      BY <2>1, <3>1 DEF TenureOrder, Fenced!FinalIsLast
    <3>3. log # <<>>
      BY <2>1, <1>4
    <3> QED BY <3>1, <3>2, <3>3, <1>3 DEF Fenced!Ended
  <2> QED BY <2>1, <1>5
<1> QED
  BY <1>6, <1>7, <1>8, <1>9 DEF TenureOrder

\* Every reachable fenced log is in this order.
LEMMA FencedLogInvariant == Fenced!Spec => []TenureOrder
<1>1. Fenced!Init => TenureOrder
  <2> SUFFICES ASSUME Fenced!Init
               PROVE  TenureOrder
    OBVIOUS
  <2>1. FencedLogType
    BY EmptySeq DEF Fenced!Init, FencedLogType
  <2>2. 1..Len(log) = {}
    BY DEF Fenced!Init
  <2> QED
    BY <2>1, <2>2 DEF TenureOrder, TenureInv, Fenced!Contiguous, Fenced!FinalIsLast
<1>2. TenureOrder /\ [Fenced!Next]_(Fenced!vars) => TenureOrder'
  <2> SUFFICES ASSUME TenureOrder, [Fenced!Next]_(Fenced!vars)
               PROVE  TenureOrder'
    OBVIOUS
  <2>1. CASE Fenced!Grant
    <3>1. FencedLogType' /\ Fenced!Contiguous' /\ Fenced!FinalIsLast'
      BY <2>1 DEF Fenced!Grant, TenureOrder, FencedLogType, Fenced!Contiguous, Fenced!FinalIsLast
    <3>2. TenureInv'
      <4> SUFFICES ASSUME NEW i \in 1..Len(log)
                   PROVE  log[i].epoch <= lease.fence + 1 /\ log[i].epoch # lease.fence + 1
        BY <2>1 DEF Fenced!Grant, TenureInv
      <4>1. log[i] \in LogEvent /\ lease.fence \in Nat
        BY DEF TenureOrder, FencedLogType
      <4>2. log[i].epoch <= lease.fence
        BY DEF TenureOrder, TenureInv
      <4>3. log[i].epoch \in Nat
        BY <4>1 DEF LogEvent
      <4> QED BY <4>1, <4>2, <4>3
    <3> QED BY <3>1, <3>2 DEF TenureOrder
  <2>2. CASE Fenced!OwnerWrites
    BY <2>2, WritePreserves DEF Fenced!OwnerWrites
  <2>3. CASE Fenced!OutsiderWrites
    BY <2>3, WritePreserves DEF Fenced!OutsiderWrites
  <2>4. CASE Fenced!Close
    BY <2>4 DEF Fenced!Close, TenureOrder, FencedLogType, TenureInv, Fenced!Contiguous, Fenced!FinalIsLast
  <2>5. CASE UNCHANGED Fenced!vars
    BY <2>5 DEF Fenced!vars, TenureOrder, FencedLogType, TenureInv, Fenced!Contiguous, Fenced!FinalIsLast
  <2> QED
    BY <2>1, <2>2, <2>3, <2>4, <2>5 DEF Fenced!Next
<1> QED
  BY <1>1, <1>2, PTL DEF Fenced!Spec

\* Whoever writes a fenced log, for all sets of writers and all numbers: its tenures never
\* interleave and its final event is its last (what a reader of a run's history relies on).
THEOREM FencedLogIsContiguous == Fenced!Spec => [](TenuresAreContiguous /\ OneTerminalEvent)
<1>1. TenureOrder => TenuresAreContiguous /\ OneTerminalEvent
  BY DEF TenureOrder, TenuresAreContiguous, OneTerminalEvent
<1> QED
  BY <1>1, FencedLogInvariant, PTL

\* Hence tenures never interleave in the log, and its terminal event is its last
\* (TenuresAreContiguous, OneTerminalEvent).
THEOREM TenuresHold == Spec => [](TenuresAreContiguous /\ OneTerminalEvent)
BY WorkflowRunRefinesFencedLog, FencedLogIsContiguous, PTL DEF ImplementsFencedLog

-----------------------------------------------------------------------------
(* The live owner is never surprised.                                       *)

Working == {"begin", "loop", "exec", "cancelling"}

OwnerInv == OwnerIsUpToDate /\ ExecutionIsRecorded

\* A step that neither extends the log nor lets a process into the phases in
\* which it writes keeps the invariant.
Steady ==
  /\ UNCHANGED <<run, log>>
  /\ lease'.owner = lease.owner /\ lease'.fence = lease.fence /\ (Live' => Live)
  /\ \A d \in Controllers :
       ctl'[d].phase \in Working =>
         /\ ctl[d].phase \in Working
         /\ ctl'[d].fence = ctl[d].fence /\ ctl'[d].seq = ctl[d].seq
         /\ ctl'[d].phase = "exec" => ctl[d].phase = "exec"

LEMMA SteadyKeepsOwnerInv ==
  ASSUME OwnerInv, Steady
  PROVE  OwnerInv'
<1> USE DEF OwnerInv, OwnerIsUpToDate, ExecutionIsRecorded, HoldsLease, Steady, Working
<1>1. OwnerIsUpToDate'
  OBVIOUS
<1>2. ExecutionIsRecorded'
  OBVIOUS
<1> QED BY <1>1, <1>2

\* An unclaimed write finds no live lease and leaves none.
LEMMA UnclaimedKeepsOwnerInv ==
  ASSUME NEW t \in EventTypes, AppendUnclaimed(t), lease' = lease
  PROVE  OwnerInv'
BY DEF AppendUnclaimed, OwnerInv, OwnerIsUpToDate, ExecutionIsRecorded, HoldsLease, Live

LEMMA GoIsSteady ==
  ASSUME CtlType, NEW c \in Controllers, NEW next \in Phases, Go(c, next),
         UNCHANGED durable,
         next \in Working => ctl[c].phase \in Working /\ next # "exec"
  PROVE  Steady
<1>1. \A d \in Controllers : d # c => ctl'[d] = ctl[d]
  BY DEF Go, CtlType
<1>2. /\ ctl'[c].phase = next /\ ctl'[c].fence = ctl[c].fence
      /\ ctl'[c].seq = ctl[c].seq
  BY DEF Go, CtlType, ProcessType
<1> QED
  BY <1>1, <1>2 DEF Steady, durable, Live

\* A process that is replaced as a whole and is not working.
LEMMA ParkedIsSteady ==
  ASSUME CtlType, NEW c \in Controllers, NEW p, p.phase \notin Working,
         ctl' = [ctl EXCEPT ![c] = p],
         UNCHANGED <<run, log>>,
         lease'.owner = lease.owner, lease'.fence = lease.fence, Live' => Live
  PROVE  Steady
BY DEF Steady, CtlType

LEMMA WriteKeepsOwnerInv ==
  ASSUME TypeOK, OwnerInv, NEW c \in Controllers, NEW t \in EventTypes,
         NEW next \in Phases, Write(c, t, next),
         ctl[c].phase \in Working, next = "exec" => t = "node_started"
  PROVE  OwnerInv'
<1>0. CtlType
  BY DEF TypeOK, CtlType
<1>1. CASE Recorded(t) /\ Go(c, next) /\ UNCHANGED durable
  <2>1. next # "exec"
    BY <1>1 DEF Recorded
  <2> QED BY <1>0, <1>1, <2>1, GoIsSteady, SteadyKeepsOwnerInv
<1>2. CASE /\ WriteOk(c, t) /\ ~Recorded(t) /\ AppendAs("owner", t)
           /\ ctl' = [ctl EXCEPT ![c].phase = next, ![c].seq = @ + 1]
           /\ UNCHANGED <<lease, intent>>
  <2>1. lease.owner = c /\ ctl[c].seq = Len(log) /\ Accepts(run, t)
    BY <1>2 DEF WriteOk, HoldsLease
  <2>2. Len(log') = Len(log) + 1
    BY <1>2 DEF AppendAs, TypeOK
  <2>3. ctl'[c].phase = next /\ ctl'[c].seq = Len(log')
    BY <1>0, <1>2, <2>1, <2>2 DEF CtlType, ProcessType
  <2>4. next = "exec" => run'.status = "running" /\ run'.node = "running"
    BY <1>2, <2>1 DEF AppendAs, Accepts, RequiredStatus, Reduce, StatusAfter, NodeAfter
  <2>5. \A d \in Controllers : HoldsLease(d)' => d = c
    BY <1>2, <2>1 DEF HoldsLease
  <2> QED
    BY <2>3, <2>4, <2>5 DEF OwnerInv, OwnerIsUpToDate, ExecutionIsRecorded
<1>3. CASE \E p \in {"cancelling", "leaveError"} : Go(c, p) /\ UNCHANGED durable
  BY <1>0, <1>3, GoIsSteady, SteadyKeepsOwnerInv DEF Phases
<1> QED
  BY <1>1, <1>2, <1>3 DEF Write, durable

LEMMA OwnerInvIsInductive == TypeOK /\ OwnerInv /\ [Next]_vars => OwnerInv'
<1> SUFFICES ASSUME TypeOK, OwnerInv, [Next]_vars
             PROVE  OwnerInv'
  OBVIOUS
<1>0. CtlType
  BY DEF TypeOK, CtlType
<1>1. CASE UNCHANGED vars
  BY <1>1, SteadyKeepsOwnerInv DEF vars, Steady, Live
<1>2. CASE Tick
  BY <1>2, SteadyKeepsOwnerInv DEF Tick, Steady, Live, TypeOK
<1>3. ASSUME NEW c \in Controllers, Progress(c)
      PROVE  OwnerInv'
  <2>1. CASE Pump(c) \/ CreateExecutor(c) \/ CheckRunnable(c)
    BY <1>0, <2>1, GoIsSteady, SteadyKeepsOwnerInv
    DEF Pump, CreateExecutor, CheckRunnable, Phases, Working
  <2>2. CASE AcquireLease(c)
    <3>1. CASE Live
      <4>1. Go(c, "persist") /\ UNCHANGED durable
        BY <2>2, <3>1 DEF AcquireLease, durable
      <4> QED BY <1>0, <4>1, GoIsSteady, SteadyKeepsOwnerInv DEF Phases, Working
    <3>2. CASE ~Live
      <4>1. lease'.owner = c /\ ctl'[c].phase = "own"
        BY <1>0, <2>2, <3>2 DEF AcquireLease, CtlType, ProcessType
      <4> QED BY <4>1 DEF OwnerInv, OwnerIsUpToDate, ExecutionIsRecorded, HoldsLease
    <3> QED BY <3>1, <3>2
  <2>3. CASE ReadOwnedRun(c)
    <3>1. ctl'[c].seq = Len(log) /\ ctl'[c].phase # "exec"
      BY <1>0, <2>3 DEF ReadOwnedRun, CtlType, ProcessType
    <3>2. \A d \in Controllers : d # c => ctl'[d] = ctl[d]
      BY <1>0, <2>3 DEF ReadOwnedRun, CtlType
    <3> QED
      BY <2>3, <3>1, <3>2
      DEF ReadOwnedRun, durable, OwnerInv, OwnerIsUpToDate, ExecutionIsRecorded,
          HoldsLease, Live
  <2>4. CASE Begin(c) \/ LoopSchedules(c) \/ NodeSettles(c) \/ LoopAborts(c) \/ Cancelling(c)
    <3>1. ctl[c].phase \in Working
      BY <2>4 DEF Begin, LoopSchedules, NodeSettles, LoopAborts, Cancelling, Working
    <3>2. \/ \E t \in EventTypes, next \in Phases :
               Write(c, t, next) /\ (next = "exec" => t = "node_started")
          \/ \E next \in Phases \ {"exec"} : Go(c, next) /\ UNCHANGED durable
      BY <2>4 DEF Begin, LoopSchedules, NodeSettles, LoopAborts, Cancelling,
                  EventTypes, Phases
    <3> QED
      BY <1>0, <3>1, <3>2, WriteKeepsOwnerInv, GoIsSteady, SteadyKeepsOwnerInv
  <2>5. CASE ReleaseLease(c)
    <3>1. \E p : p.phase \notin Working /\ ctl' = [ctl EXCEPT ![c] = p]
      BY <1>0, <2>5
      DEF ReleaseLease, Finish, Finished, Go, Process, Working, CtlType, ProcessType
    <3>2. /\ UNCHANGED <<run, log>> /\ lease'.owner = lease.owner
          /\ lease'.fence = lease.fence /\ (Live' => Live)
      BY <2>5 DEF ReleaseLease, Live, TypeOK
    <3> QED BY <1>0, <3>1, <3>2, ParkedIsSteady, SteadyKeepsOwnerInv
  <2>6. CASE PersistCancellation(c) \/ PersistOutcome(c) \/ PersistSecond(c)
    <3>1. \E p : p.phase \notin Working /\ ctl' = [ctl EXCEPT ![c] = p]
      BY <1>0, <2>6
      DEF PersistCancellation, PersistOutcome, PersistSecond, AfterStart, Finish,
          Finished, Go, Process, Working, CtlType, ProcessType
    <3>2. /\ lease' = lease
          /\ \/ \E t \in EventTypes : AppendUnclaimed(t)
             \/ UNCHANGED <<run, log>>
      BY <2>6 DEF PersistCancellation, PersistOutcome, PersistSecond,
                  RequestCancellation, EventTypes, durable
    <3> QED
      BY <1>0, <3>1, <3>2, UnclaimedKeepsOwnerInv, ParkedIsSteady,
         SteadyKeepsOwnerInv DEF Live
  <2>7. CASE Exit(c)
    BY <1>0, <2>7, ParkedIsSteady, SteadyKeepsOwnerInv
    DEF Exit, Process, Working, durable, Live
  <2> QED
    BY <1>3, <2>1, <2>2, <2>3, <2>4, <2>5, <2>6, <2>7 DEF Progress
<1>4. ASSUME NEW c \in Controllers, Timers(c)
      PROVE  OwnerInv'
  <2>1. /\ UNCHANGED <<run, log>> /\ lease'.owner = lease.owner
        /\ lease'.fence = lease.fence /\ (Live' => Live)
    BY <1>4 DEF Timers, Heartbeat, PollCancellation, HoldsLease, Live, TypeOK, durable
  <2>2. ctl' = ctl \/ \E reason \in AbortReason : ctl' = [ctl EXCEPT ![c].runAbort = reason]
    BY <1>4 DEF Timers, Heartbeat, PollCancellation, AbortReason
  <2>3. \A d \in Controllers :
          /\ ctl'[d].phase = ctl[d].phase /\ ctl'[d].fence = ctl[d].fence
          /\ ctl'[d].seq = ctl[d].seq
    BY <1>0, <2>2 DEF CtlType, ProcessType
  <2>4. Steady
    BY <2>1, <2>3 DEF Steady
  <2> QED BY <2>4, SteadyKeepsOwnerInv
<1>5. ASSUME NEW c \in Controllers, Request(c)
      PROVE  OwnerInv'
  <2>1. \A reason \in AbortReason :
          LET p == Aborted(ctl[c], reason)
          IN p.phase \in Working => /\ p.phase = ctl[c].phase
                                    /\ p.fence = ctl[c].fence
                                    /\ p.seq = ctl[c].seq
    BY <1>0 DEF Aborted, First, Process, Working, CtlType, ProcessType
  <2>2. CASE Resume(c)
    BY <1>0, <2>2, GoIsSteady, SteadyKeepsOwnerInv DEF Resume, Phases, Working
  <2>3. CASE Cancel(c) \/ StopRun(c)
    <3>1. lease' = lease
      BY <2>3 DEF Cancel, StopRun, RequestCancellation
    <3>2. CASE \E t \in EventTypes : AppendUnclaimed(t)
      BY <3>1, <3>2, UnclaimedKeepsOwnerInv
    <3>3. CASE UNCHANGED <<run, log>> /\ ctl' = [ctl EXCEPT ![c] = Aborted(@, "user")]
      <4>1. ctl'[c] = Aborted(ctl[c], "user") /\ \A d \in Controllers : d # c => ctl'[d] = ctl[d]
        BY <1>0, <3>3 DEF CtlType
      <4> QED
        BY <2>1, <3>1, <3>3, <4>1, SteadyKeepsOwnerInv DEF Steady, Live, AbortReason
    <3> QED
      BY <2>3, <3>2, <3>3 DEF Cancel, StopRun, RequestCancellation, EventTypes
  <2>4. CASE Close(c)
    <3>1. Aborted(ctl[c], "shutdown") \in ProcessType
      BY <1>0, AbortedHasType DEF CtlType, AbortReason
    <3>2. /\ ctl'[c] = [Aborted(ctl[c], "shutdown") EXCEPT !.closed = TRUE]
          /\ \A d \in Controllers : d # c => ctl'[d] = ctl[d]
      BY <1>0, <2>4 DEF Close, CtlType
    <3>3. LET p == Aborted(ctl[c], "shutdown")
          IN ctl'[c].phase = p.phase /\ ctl'[c].fence = p.fence /\ ctl'[c].seq = p.seq
      BY <3>1, <3>2 DEF ProcessType
    <3> QED
      BY <2>1, <2>4, <3>2, <3>3, SteadyKeepsOwnerInv
      DEF Close, Steady, Live, AbortReason, durable
  <2> QED BY <1>5, <2>2, <2>3, <2>4 DEF Request
<1>6. ASSUME NEW c \in Controllers,
             Start(c) \/ Reconcile(c) \/ Crash(c) \/ Restart(c)
      PROVE  OwnerInv'
  <2>1. CASE Start(c)
    BY <1>0, <2>1, GoIsSteady, SteadyKeepsOwnerInv DEF Start, Phases, Working
  <2>2. CASE Reconcile(c)
    BY <2>2, UnclaimedKeepsOwnerInv DEF Reconcile, EventTypes
  <2>3. CASE Crash(c) \/ Restart(c)
    BY <1>0, <2>3, ParkedIsSteady, SteadyKeepsOwnerInv
    DEF Crash, Restart, Process, Working, durable, Live
  <2> QED BY <1>6, <2>1, <2>2, <2>3
<1> QED
  BY <1>1, <1>2, <1>3, <1>4, <1>5, <1>6 DEF Next

\* While its lease is live an owner knows the end of the log, and what it
\* executes is what the log says it executes (OwnerIsUpToDate,
\* ExecutionIsRecorded).
THEOREM OwnersAreNotSurprised == Spec => [](OwnerIsUpToDate /\ ExecutionIsRecorded)
<1>1. Init => OwnerInv
  BY DEF Init, OwnerInv, OwnerIsUpToDate, ExecutionIsRecorded, HoldsLease, Live
<1>2. OwnerInv => OwnerIsUpToDate /\ ExecutionIsRecorded
  BY DEF OwnerInv
<1> QED
  BY <1>1, <1>2, OwnerInvIsInductive, TypeCorrect, PTL DEF Spec

-----------------------------------------------------------------------------
(* The locks of the store.  Every mutation of a run or of a definition, and *)
(* of a project, holds one.  What follows holds for every set of processes  *)
(* and every number of deaths, anywhere in the protocol.  As long as no     *)
(* living recoverer has lost its recovery lock (usurped), that lock         *)
(* excludes recoverers, and what a recoverer has confirmed to be dead stays *)
(* the lock file until it unlinks it.                                       *)

(* A process between creating the lock file and unlinking it owns the file. *)
HolderOwnsFile ==
    \A p \in Proc : pc[p] \in Holding =>
        /\ main.proc = p /\ main.life = life[p]
        /\ pc[p] # "write" => main.written

(* The same of the recovery lock, which may also be of a dead recoverer. *)
RecovererOwnsFile ==
    \A p \in Proc : pc[p] \in Recovering =>
        /\ recovery.proc = p /\ recovery.life = life[p]
        /\ pc[p] # "rwrite" => recovery.written

(* What is about to be unlinked by a recoverer is a dead owner's file. *)
StealsTheDead == \A p \in Proc : pc[p] = "steal" => Dead(main)

(* Who is about to unlink a recovery file has seen one whose owner is dead. *)
TakesFromTheDead ==
    \A p \in Proc : pc[p] = "rsteal" => Dead(rseen[p]) /\ rseen[p].life <= life[rseen[p].proc]

(* No file comes from a life that has not begun. *)
LivesAreBehind ==
    /\ main # NoFile => main.life <= life[main.proc]
    /\ recovery # NoFile => recovery.life <= life[recovery.proc]

Ownership == HolderOwnsFile /\ RecovererOwnsFile /\ StealsTheDead

LockInv == LockTypeOK /\ TakesFromTheDead /\ LivesAreBehind /\ (~usurped => Ownership)

-----------------------------------------------------------------------------

(* A process's own lock is a lock of its current life. *)
LEMMA MyLockIsTyped ==
  ASSUME NEW p \in Proc, LockTypeOK
  PROVE  /\ MyLock(p) \in File
         /\ MyLock(p) # NoFile
         /\ MyLock(p).proc = p
         /\ MyLock(p).life = life[p]
  BY FileLockAssumption DEF LockTypeOK, MyLock, Lock, File, NoFile

(* A file that carries a process's identity is a lock of that process. *)
LEMMA OwnedFileIsLock ==
  ASSUME NEW p \in Proc, NEW f \in File, f.proc = p
  PROVE  f \in Lock /\ f # NoFile
  BY FileLockAssumption DEF File, Lock, NoFile

(* Writing its contents leaves a lock file its owner's. *)
LEMMA WrittenFileIsTyped ==
  ASSUME NEW f \in File, f # NoFile
  PROVE  LET g == [f EXCEPT !.written = TRUE] IN
         g \in File /\ g # NoFile /\ g.proc = f.proc /\ g.life = f.life /\ g.written
<1>1. f \in Lock
  BY DEF File
<1> QED
  BY <1>1, FileLockAssumption DEF File, Lock, NoFile

(* Growing old leaves a lock file its owner's. *)
LEMMA AgedFileIsTyped ==
  ASSUME NEW f \in File, f # NoFile
  PROVE  LET g == [f EXCEPT !.old = TRUE] IN
         g \in File /\ g # NoFile /\ g.proc = f.proc /\ g.life = f.life /\ g.written = f.written
<1>1. f \in Lock
  BY DEF File
<1> QED
  BY <1>1, FileLockAssumption DEF File, Lock, NoFile

(* The locals have their types when they go out of scope. *)
LEMMA LocalsAreTyped ==
  ASSUME NEW p \in Proc, LockTypeOK, ClearLocals(p)
  PROVE  /\ seen' \in [Proc -> File]
         /\ rseen' \in [Proc -> File]
         /\ again' \in [Proc -> BOOLEAN]
         /\ recovered' \in [Proc -> Results]
<1>1. NoFile \in File
  BY DEF File
<1> QED
  BY <1>1 DEF LockTypeOK, ClearLocals, Results

(* Every control point a step goes to is one of the protocol. *)
LEMMA PointsAreTyped ==
  ASSUME NEW p \in Proc, NEW point \in Points, LockTypeOK, Goto(p, point)
  PROVE  pc' \in [Proc -> Points]
  BY DEF LockTypeOK, Goto

(* Each step keeps the types. *)
LEMMA StepKeepsTypes ==
  ASSUME LockTypeOK, [LockNext]_lockVars
  PROVE  LockTypeOK'
<1> USE DEF LockTypeOK
<1>p. /\ {"idle", "create", "observe", "rcreate", "robserve", "rconfirm", "rsteal"} \subseteq Points
      /\ {"write", "critical", "release", "unlink"} \subseteq Points
      /\ {"rwrite", "confirm", "steal", "rrelease", "runlink"} \subseteq Points
  BY DEF Points, Holding, Recovering
<1>f. NoFile \in File
  BY DEF File
<1>1. ASSUME NEW p \in Proc, RequestLock(p)
      PROVE  LockTypeOK'
  BY <1>1, <1>p, PointsAreTyped DEF RequestLock
<1>2. ASSUME NEW p \in Proc, Create(p)
      PROVE  LockTypeOK'
  BY <1>2, <1>p, MyLockIsTyped, PointsAreTyped DEF Create
<1>3. ASSUME NEW p \in Proc, WriteOwner(p)
      PROVE  LockTypeOK'
  BY <1>3, <1>p, MyLockIsTyped, OwnedFileIsLock, WrittenFileIsTyped, PointsAreTyped DEF WriteOwner, SameLock
<1>4. ASSUME NEW p \in Proc, Leave(p)
      PROVE  LockTypeOK'
  BY <1>4, <1>p, PointsAreTyped DEF Leave
<1>5. ASSUME NEW p \in Proc, Release(p)
      PROVE  LockTypeOK'
  BY <1>5, <1>p, PointsAreTyped DEF Release
<1>6. ASSUME NEW p \in Proc, Unlink(p)
      PROVE  LockTypeOK'
  BY <1>6, <1>p, <1>f, PointsAreTyped DEF Unlink
<1>7. ASSUME NEW p \in Proc, Observe(p)
      PROVE  LockTypeOK'
  BY <1>7, <1>p, LocalsAreTyped, PointsAreTyped DEF Observe, RetryOrGiveUp, Throw
<1>8. ASSUME NEW p \in Proc, CreateRecovery(p)
      PROVE  LockTypeOK'
  BY <1>8, <1>p, MyLockIsTyped, PointsAreTyped DEF CreateRecovery
<1>9. ASSUME NEW p \in Proc, WriteRecoveryOwner(p)
      PROVE  LockTypeOK'
  BY <1>9, <1>p, MyLockIsTyped, OwnedFileIsLock, WrittenFileIsTyped, PointsAreTyped DEF WriteRecoveryOwner, SameLock
<1>10. ASSUME NEW p \in Proc, ObserveRecovery(p)
      PROVE  LockTypeOK'
  BY <1>10, <1>p, LocalsAreTyped, PointsAreTyped DEF ObserveRecovery, RetryOrGiveUp, Throw
<1>11. ASSUME NEW p \in Proc, ConfirmRecovery(p)
      PROVE  LockTypeOK'
  BY <1>11, <1>p, LocalsAreTyped, PointsAreTyped DEF ConfirmRecovery, RetryOrGiveUp, Throw
<1>12. ASSUME NEW p \in Proc, StealRecovery(p)
      PROVE  LockTypeOK'
  BY <1>12, <1>p, <1>f, LocalsAreTyped, PointsAreTyped DEF StealRecovery, RetryOrGiveUp, Throw, Dead
<1>13. ASSUME NEW p \in Proc, Confirm(p)
      PROVE  LockTypeOK'
  BY <1>13, <1>p, PointsAreTyped DEF Confirm, Results
<1>14. ASSUME NEW p \in Proc, Steal(p)
      PROVE  LockTypeOK'
  BY <1>14, <1>p, <1>f, PointsAreTyped DEF Steal, Results
<1>15. ASSUME NEW p \in Proc, ReleaseRecovery(p)
      PROVE  LockTypeOK'
  BY <1>15, <1>p, LocalsAreTyped, PointsAreTyped DEF ReleaseRecovery, RetryOrGiveUp, Throw
<1>16. ASSUME NEW p \in Proc, UnlinkRecovery(p)
      PROVE  LockTypeOK'
  BY <1>16, <1>p, <1>f, LocalsAreTyped, PointsAreTyped DEF UnlinkRecovery, RetryOrGiveUp, Throw
<1>17. ASSUME NEW p \in Proc, Death(p)
      PROVE  LockTypeOK'
  BY <1>17, <1>p, LocalsAreTyped, FileLockAssumption, PointsAreTyped DEF Death
<1>18. ASSUME Age
      PROVE  LockTypeOK'
  BY <1>18, AgedFileIsTyped DEF Age
<1>19. CASE UNCHANGED lockVars
  BY <1>19 DEF lockVars
<1> QED
  BY <1>1, <1>2, <1>3, <1>4, <1>5, <1>6, <1>7, <1>8, <1>9, <1>10, <1>11, <1>12, <1>13, <1>14, <1>15, <1>16, <1>17, <1>18, <1>19 DEF LockNext, Step

LEMMA InitialTypes == LockInit => LockTypeOK
<1> SUFFICES ASSUME LockInit PROVE LockTypeOK
  OBVIOUS
<1>1. 1 \in 1..(MaxCrashes + 1)
  BY FileLockAssumption
<1>2. NoFile \in File /\ "idle" \in Points /\ "no" \in Results
  BY DEF File, Points, Results
<1>3. usurped \in BOOLEAN
  BY DEF LockInit
<1> QED
  BY <1>1, <1>2, <1>3 DEF LockInit, LockTypeOK

(* Every variable keeps its type. *)
THEOREM LockTypesHold == LockSpec => []LockTypeOK
<1>1. LockInit => LockTypeOK
  BY InitialTypes
<1>2. LockTypeOK /\ [LockNext]_lockVars => LockTypeOK'
  BY StepKeepsTypes
<1> QED
  BY <1>1, <1>2, PTL DEF LockSpec

(* No step undoes a usurpation. *)
LEMMA UsurpedStays ==
  ASSUME LockTypeOK, [LockNext]_lockVars, usurped
  PROVE  usurped'
<1> QED
  BY DEF LockTypeOK, LockNext, lockVars, RequestLock, Step, Create, WriteOwner, Leave, Release,
         Unlink, Observe, CreateRecovery, WriteRecoveryOwner, ObserveRecovery, ConfirmRecovery,
         StealRecovery, Confirm, Steal, ReleaseRecovery, UnlinkRecovery, Death, Age

(* A file of a life that has ended stays one. *)
LEMMA LivesGoOn ==
  ASSUME LockTypeOK, LivesAreBehind, [LockNext]_lockVars
  PROVE  LivesAreBehind' /\ \A p \in Proc : life[p] <= life'[p]
<1>o. \A f \in File : f # NoFile => f.proc \in Proc /\ f.life \in 1..(MaxCrashes + 1)
  BY DEF File, Lock
<1>l. \A p \in Proc : life[p] \in Nat
  BY FileLockAssumption DEF LockTypeOK
<1>1. \A p \in Proc : life[p] <= life'[p]
  <2>1. ASSUME NEW p \in Proc, Death(p)
        PROVE  \A q \in Proc : life[q] <= life'[q]
    BY <2>1, <1>l DEF Death, LockTypeOK
  <2>2. CASE UNCHANGED life
    BY <2>2, <1>l
  <2> QED
    BY <2>1, <2>2
    DEF LockNext, lockVars, RequestLock, Step, Create, WriteOwner, Leave, Release,
        Unlink, Observe, CreateRecovery, WriteRecoveryOwner, ObserveRecovery, ConfirmRecovery,
        StealRecovery, Confirm, Steal, ReleaseRecovery, UnlinkRecovery, Age
<1>2. \A p \in Proc : life'[p] \in Nat
  BY StepKeepsTypes, FileLockAssumption DEF LockTypeOK
<1>3. \/ main' \in {main, NoFile}
      \/ main # NoFile /\ main'.proc = main.proc /\ main'.life = main.life
      \/ \E p \in Proc : main' = MyLock(p) /\ UNCHANGED life
  <2>1. ASSUME NEW p \in Proc, WriteOwner(p)
        PROVE  main' = main \/ (main # NoFile /\ main'.proc = main.proc /\ main'.life = main.life)
    BY <2>1, MyLockIsTyped, OwnedFileIsLock, WrittenFileIsTyped DEF WriteOwner, SameLock, LockTypeOK
  <2>2. ASSUME Age
        PROVE  main' = main \/ (main # NoFile /\ main'.proc = main.proc /\ main'.life = main.life)
    BY <2>2, AgedFileIsTyped DEF Age, LockTypeOK
  <2> QED
    BY <2>1, <2>2
    DEF LockNext, lockVars, RequestLock, Step, Create, Leave, Release,
        Unlink, Observe, CreateRecovery, WriteRecoveryOwner, ObserveRecovery, ConfirmRecovery,
        StealRecovery, Confirm, Steal, ReleaseRecovery, UnlinkRecovery, Death
<1>4. \/ recovery' \in {recovery, NoFile}
      \/ recovery # NoFile /\ recovery'.proc = recovery.proc /\ recovery'.life = recovery.life
      \/ \E p \in Proc : recovery' = MyLock(p) /\ UNCHANGED life
  <2>1. ASSUME NEW p \in Proc, WriteRecoveryOwner(p)
        PROVE  \/ recovery' = recovery
               \/ recovery # NoFile /\ recovery'.proc = recovery.proc /\ recovery'.life = recovery.life
    BY <2>1, MyLockIsTyped, OwnedFileIsLock, WrittenFileIsTyped
    DEF WriteRecoveryOwner, SameLock, LockTypeOK
  <2>2. ASSUME Age
        PROVE  \/ recovery' = recovery
               \/ recovery # NoFile /\ recovery'.proc = recovery.proc /\ recovery'.life = recovery.life
    BY <2>2, AgedFileIsTyped DEF Age, LockTypeOK
  <2> QED
    BY <2>1, <2>2
    DEF LockNext, lockVars, RequestLock, Step, Create, WriteOwner, Leave, Release,
        Unlink, Observe, CreateRecovery, ObserveRecovery, ConfirmRecovery,
        StealRecovery, Confirm, Steal, ReleaseRecovery, UnlinkRecovery, Death
<1>5. main' # NoFile => main'.life <= life'[main'.proc]
  <2>1. CASE main' \in {main, NoFile} \/ (main # NoFile /\ main'.proc = main.proc /\ main'.life = main.life)
    <3>1. SUFFICES ASSUME main' # NoFile
                   PROVE  main'.life <= life'[main'.proc]
      OBVIOUS
    <3>2. /\ main # NoFile /\ main'.proc = main.proc /\ main'.life = main.life
          /\ main.proc \in Proc /\ main.life \in Nat
      BY <2>1, <3>1, <1>o, FileLockAssumption DEF LockTypeOK
    <3>3. main.life <= life[main.proc] /\ life[main.proc] <= life'[main.proc]
      BY <3>2, <1>1 DEF LivesAreBehind
    <3> QED
      BY <3>2, <3>3, <1>l, <1>2
  <2>2. ASSUME NEW p \in Proc, main' = MyLock(p), UNCHANGED life
        PROVE  main'.life <= life'[main'.proc]
    BY <2>2, <1>l, MyLockIsTyped
  <2> QED
    BY <1>3, <2>1, <2>2
<1>6. recovery' # NoFile => recovery'.life <= life'[recovery'.proc]
  <2>1. CASE \/ recovery' \in {recovery, NoFile}
             \/ recovery # NoFile /\ recovery'.proc = recovery.proc /\ recovery'.life = recovery.life
    <3>1. SUFFICES ASSUME recovery' # NoFile
                   PROVE  recovery'.life <= life'[recovery'.proc]
      OBVIOUS
    <3>2. /\ recovery # NoFile /\ recovery'.proc = recovery.proc /\ recovery'.life = recovery.life
          /\ recovery.proc \in Proc /\ recovery.life \in Nat
      BY <2>1, <3>1, <1>o, FileLockAssumption DEF LockTypeOK
    <3>3. recovery.life <= life[recovery.proc] /\ life[recovery.proc] <= life'[recovery.proc]
      BY <3>2, <1>1 DEF LivesAreBehind
    <3> QED
      BY <3>2, <3>3, <1>l, <1>2
  <2>2. ASSUME NEW p \in Proc, recovery' = MyLock(p), UNCHANGED life
        PROVE  recovery'.life <= life'[recovery'.proc]
    BY <2>2, <1>l, MyLockIsTyped
  <2> QED
    BY <1>4, <2>1, <2>2
<1> QED
  BY <1>1, <1>5, <1>6 DEF LivesAreBehind

(* What a process has seen of a dead recoverer is still of a dead one when it unlinks. *)
LEMMA SeenDeadStaysDead ==
  ASSUME LockInv, [LockNext]_lockVars
  PROVE  TakesFromTheDead'
<1> SUFFICES ASSUME NEW p \in Proc, pc'[p] = "rsteal"
             PROVE  Dead(rseen[p])' /\ rseen'[p].life <= life'[rseen'[p].proc]
  BY DEF TakesFromTheDead
<1>t. LockTypeOK /\ LockTypeOK' /\ LivesAreBehind /\ \A q \in Proc : life[q] <= life'[q]
  BY StepKeepsTypes, LivesGoOn DEF LockInv
<1>o. \A f \in File : f # NoFile => f.proc \in Proc /\ f.life \in Nat
  BY FileLockAssumption DEF File, Lock
<1>l. \A q \in Proc : life[q] \in Nat /\ life'[q] \in Nat
  BY <1>t, FileLockAssumption DEF LockTypeOK
<1>1. CASE pc[p] = "rsteal" /\ rseen'[p] = rseen[p]
  <2>1. rseen[p] # NoFile /\ rseen[p].life # life[rseen[p].proc] /\ rseen[p].life <= life[rseen[p].proc]
    BY <1>1 DEF LockInv, TakesFromTheDead, Dead
  <2>2. rseen[p].proc \in Proc /\ rseen[p].life \in Nat
    BY <2>1, <1>t, <1>o DEF LockTypeOK
  <2>3. life[rseen[p].proc] <= life'[rseen[p].proc]
    BY <2>2, <1>t
  <2> QED
    BY <1>1, <2>1, <2>2, <2>3, <1>l DEF Dead
<1>2. CASE ConfirmRecovery(p) /\ Confirms(recovery, rseen[p])
  <2>1. /\ recovery # NoFile /\ rseen[p].proc = recovery.proc /\ rseen[p].life = recovery.life
        /\ recovery.life # life[recovery.proc] /\ UNCHANGED <<rseen, life>>
    BY <1>2 DEF ConfirmRecovery, Confirms, SameLock, Stale, Dead, Malformed
  <2>2. recovery.proc \in Proc /\ recovery.life <= life[recovery.proc]
    BY <2>1, <1>t, <1>o DEF LockTypeOK, LivesAreBehind
  <2>3. rseen[p] # NoFile
    BY <2>1, <2>2, FileLockAssumption DEF NoFile
  <2> QED
    BY <2>1, <2>2, <2>3 DEF Dead
<1>3. \/ pc[p] = "rsteal" /\ rseen'[p] = rseen[p]
      \/ ConfirmRecovery(p) /\ Confirms(recovery, rseen[p])
  <2>1. ASSUME NEW q \in Proc, q # p, RequestLock(q) \/ Step(q) \/ Death(q)
        PROVE  pc'[p] = pc[p] /\ rseen'[p] = rseen[p]
    BY <2>1, <1>t
    DEF LockTypeOK, RequestLock, Step, Create, WriteOwner, Leave, Release,
        Unlink, Observe, CreateRecovery, WriteRecoveryOwner, ObserveRecovery, ConfirmRecovery,
        StealRecovery, Confirm, Steal, ReleaseRecovery, UnlinkRecovery, Death,
        Goto, ClearLocals, RetryOrGiveUp, Throw
  <2>2. CASE UNCHANGED <<pc, rseen>>
    BY <2>2
  <2>3. ASSUME Step(p)
        PROVE  ConfirmRecovery(p) /\ Confirms(recovery, rseen[p])
    BY <2>3, <1>t
    DEF LockTypeOK, Step, Create, WriteOwner, Leave, Release,
        Unlink, Observe, CreateRecovery, WriteRecoveryOwner, ObserveRecovery, ConfirmRecovery,
        StealRecovery, Confirm, Steal, ReleaseRecovery, UnlinkRecovery,
        Goto, ClearLocals, RetryOrGiveUp, Throw
  <2>4. ~RequestLock(p) /\ ~Death(p)
    BY <1>t DEF LockTypeOK, RequestLock, Death, Goto
  <2> QED
    BY <2>1, <2>2, <2>3, <2>4 DEF LockNext, lockVars, Age
<1> QED
  BY <1>1, <1>2, <1>3

(* A step that only moves a process, neither into nor out of an ownership. *)
LEMMA QuietMoveKeepsOwnership ==
  ASSUME LockTypeOK, Ownership, NEW p \in Proc, NEW point \in Points, Goto(p, point),
         UNCHANGED <<main, recovery, life>>,
         point \notin {"steal", "write", "rwrite"},
         point \in Holding => pc[p] \in Holding /\ main.written,
         point \in Recovering => recovery.written,
         point \in Recovering => pc[p] \in Recovering
  PROVE  Ownership'
<1>1. pc' = [pc EXCEPT ![p] = point] /\ pc \in [Proc -> Points]
  BY DEF Goto, LockTypeOK
<1>2. HolderOwnsFile'
  BY <1>1 DEF Ownership, HolderOwnsFile
<1>3. RecovererOwnsFile'
  BY <1>1 DEF Ownership, RecovererOwnsFile
<1>4. StealsTheDead'
  BY <1>1 DEF Ownership, StealsTheDead, Dead
<1> QED
  BY <1>2, <1>3, <1>4 DEF Ownership

(* Each step keeps the ownership of the two files. *)
LEMMA StepKeepsOwnership ==
  ASSUME LockTypeOK, TakesFromTheDead, LivesAreBehind, Ownership, [LockNext]_lockVars, ~usurped'
  PROVE  Ownership'
<1>t. LockTypeOK /\ LockTypeOK'
  BY StepKeepsTypes
<1>p. \A point \in {"idle", "create", "observe", "rcreate", "robserve", "rconfirm", "rsteal"} :
         point \in Points /\ point \notin Holding /\ point \notin Recovering
  BY DEF Points, Holding, Recovering
<1>f. NoFile.proc \notin Proc
  BY FileLockAssumption DEF NoFile
<1>o. \A f \in File : f # NoFile => f.proc \in Proc /\ f.life \in 1..(MaxCrashes + 1)
  BY DEF File, Lock
<1>1. ASSUME NEW p \in Proc, RequestLock(p)
      PROVE  Ownership'
  BY <1>1, <1>p, QuietMoveKeepsOwnership DEF RequestLock
<1>2. ASSUME NEW p \in Proc, Create(p)
      PROVE  Ownership'
  BY <1>2, MyLockIsTyped, <1>t, <1>f, <1>o, FileLockAssumption
  DEF Create, Ownership, LockTypeOK, Goto, HolderOwnsFile, RecovererOwnsFile,
      StealsTheDead, LivesAreBehind, Holding, Recovering, Dead
<1>3. ASSUME NEW p \in Proc, WriteOwner(p)
      PROVE  Ownership'
  BY <1>3, MyLockIsTyped, OwnedFileIsLock, WrittenFileIsTyped, <1>t, <1>f, <1>o, FileLockAssumption
  DEF WriteOwner, SameLock, Ownership, LockTypeOK, Goto, HolderOwnsFile, RecovererOwnsFile,
      StealsTheDead, LivesAreBehind, Holding, Recovering, Dead
<1>4. ASSUME NEW p \in Proc, Leave(p)
      PROVE  Ownership'
  BY <1>4, <1>p, QuietMoveKeepsOwnership
  DEF Leave, Ownership, HolderOwnsFile, Holding, Recovering, Points
<1>5. ASSUME NEW p \in Proc, Release(p)
      PROVE  Ownership'
  BY <1>5, <1>p, QuietMoveKeepsOwnership
  DEF Release, Ownership, HolderOwnsFile, Holding, Recovering, Points
<1>6. ASSUME NEW p \in Proc, Unlink(p)
      PROVE  Ownership'
  BY <1>6, <1>t, <1>f, <1>o, FileLockAssumption
  DEF Unlink, Ownership, LockTypeOK, Goto, HolderOwnsFile, RecovererOwnsFile,
      StealsTheDead, LivesAreBehind, Holding, Recovering, Dead
<1>7. ASSUME NEW p \in Proc, Observe(p)
      PROVE  Ownership'
  BY <1>7, <1>p, QuietMoveKeepsOwnership DEF Observe, RetryOrGiveUp, Throw
<1>8. ASSUME NEW p \in Proc, CreateRecovery(p)
      PROVE  Ownership'
  BY <1>8, MyLockIsTyped, <1>t, <1>f, <1>o, FileLockAssumption
  DEF CreateRecovery, Ownership, LockTypeOK, Goto, HolderOwnsFile, RecovererOwnsFile,
      StealsTheDead, LivesAreBehind, Holding, Recovering, Dead
<1>9. ASSUME NEW p \in Proc, WriteRecoveryOwner(p)
      PROVE  Ownership'
  BY <1>9, MyLockIsTyped, OwnedFileIsLock, WrittenFileIsTyped, <1>t, <1>f, <1>o, FileLockAssumption
  DEF WriteRecoveryOwner, SameLock, Ownership, LockTypeOK, Goto, HolderOwnsFile, RecovererOwnsFile,
      StealsTheDead, LivesAreBehind, Holding, Recovering, Dead
<1>10. ASSUME NEW p \in Proc, ObserveRecovery(p)
      PROVE  Ownership'
  BY <1>10, <1>p, QuietMoveKeepsOwnership DEF ObserveRecovery, RetryOrGiveUp, Throw
<1>11. ASSUME NEW p \in Proc, ConfirmRecovery(p)
      PROVE  Ownership'
  BY <1>11, <1>p, QuietMoveKeepsOwnership DEF ConfirmRecovery, RetryOrGiveUp, Throw
<1>12. ASSUME NEW p \in Proc, StealRecovery(p)
      PROVE  Ownership'
  <2>1. /\ recovery' = NoFile /\ UNCHANGED <<main, life>> /\ pc[p] = "rsteal"
        /\ \E point \in {"create", "idle", "rcreate"} : Goto(p, point)
    BY <1>12 DEF StealRecovery, RetryOrGiveUp
  <2>2. \A q \in Proc : pc[q] \notin Recovering
    <3> SUFFICES ASSUME NEW q \in Proc, pc[q] \in Recovering
                 PROVE  FALSE
      OBVIOUS
    <3>1. recovery.proc = q /\ recovery.life = life[q] /\ recovery # NoFile
      BY <1>f DEF Ownership, RecovererOwnsFile
    <3>2. ~Dead(recovery)
      BY <3>1 DEF Dead
    <3>3. SameLock(recovery, rseen[p])
      BY <1>12, <3>1, <3>2 DEF StealRecovery
    <3>4. Dead(rseen[p])
      BY <2>1 DEF TakesFromTheDead
    <3> QED
      BY <3>1, <3>3, <3>4 DEF SameLock, Dead
  <2> QED
    BY <2>1, <2>2, <1>t
    DEF Ownership, LockTypeOK, Goto, HolderOwnsFile, RecovererOwnsFile, StealsTheDead,
        Holding, Recovering, Dead
<1>13. ASSUME NEW p \in Proc, Confirm(p)
      PROVE  Ownership'
  BY <1>13, <1>t, <1>f, <1>o, FileLockAssumption
  DEF Confirm, Confirms, Stale, Ownership, LockTypeOK, Goto, HolderOwnsFile, RecovererOwnsFile,
      StealsTheDead, LivesAreBehind, Holding, Recovering, Dead
<1>14. ASSUME NEW p \in Proc, Steal(p)
      PROVE  Ownership'
  BY <1>14, <1>t, <1>f, <1>o, FileLockAssumption
  DEF Steal, Ownership, LockTypeOK, Goto, HolderOwnsFile, RecovererOwnsFile,
      StealsTheDead, LivesAreBehind, Holding, Recovering, Dead
<1>15. ASSUME NEW p \in Proc, ReleaseRecovery(p)
      PROVE  Ownership'
  <2>1. pc[p] = "rrelease" /\ UNCHANGED <<main, recovery, life>>
    BY <1>15 DEF ReleaseRecovery
  <2>2. recovery.written /\ SameLock(recovery, MyLock(p))
    BY <2>1, <1>t, MyLockIsTyped DEF Ownership, RecovererOwnsFile, Recovering, SameLock
  <2>3. Goto(p, "runlink")
    BY <1>15, <2>2 DEF ReleaseRecovery
  <2> QED
    BY <2>1, <2>2, <2>3, QuietMoveKeepsOwnership DEF Points, Holding, Recovering
<1>16. ASSUME NEW p \in Proc, UnlinkRecovery(p)
      PROVE  Ownership'
  BY <1>16, <1>t, <1>f, <1>o, FileLockAssumption
  DEF UnlinkRecovery, RetryOrGiveUp, Throw, Ownership, LockTypeOK, Goto, HolderOwnsFile, RecovererOwnsFile,
      StealsTheDead, LivesAreBehind, Holding, Recovering, Dead
<1>17. ASSUME NEW p \in Proc, Death(p)
      PROVE  Ownership'
  BY <1>17, <1>t, <1>f, <1>o, FileLockAssumption
  DEF Death, Ownership, LockTypeOK, Goto, HolderOwnsFile, RecovererOwnsFile,
      StealsTheDead, LivesAreBehind, Holding, Recovering, Dead
<1>18. ASSUME Age
      PROVE  Ownership'
  <2>1. UNCHANGED <<pc, life>>
    BY <1>18 DEF Age
  <2>2. /\ main'.proc = main.proc /\ main'.life = main.life /\ main'.written = main.written
        /\ main' = NoFile <=> main = NoFile
    BY <1>18, <1>t, AgedFileIsTyped DEF Age, LockTypeOK
  <2>3. /\ recovery'.proc = recovery.proc /\ recovery'.life = recovery.life
        /\ recovery'.written = recovery.written
    BY <1>18, <1>t, AgedFileIsTyped DEF Age, LockTypeOK
  <2>4. HolderOwnsFile' /\ StealsTheDead'
    BY <2>1, <2>2 DEF Ownership, HolderOwnsFile, StealsTheDead, Dead
  <2>5. RecovererOwnsFile'
    BY <2>1, <2>3 DEF Ownership, RecovererOwnsFile
  <2> QED
    BY <2>4, <2>5 DEF Ownership
<1>19. CASE UNCHANGED lockVars
  BY <1>19
  DEF lockVars, Ownership, HolderOwnsFile, RecovererOwnsFile, StealsTheDead, Dead
<1> QED
  BY <1>1, <1>2, <1>3, <1>4, <1>5, <1>6, <1>7, <1>8, <1>9, <1>10, <1>11, <1>12, <1>13, <1>14, <1>15, <1>16, <1>17, <1>18, <1>19 DEF LockNext, Step

(* Each step keeps the strengthening. *)
LEMMA StepKeepsLockInv ==
  ASSUME LockInv, [LockNext]_lockVars
  PROVE  LockInv'
<1>1. LockTypeOK' /\ LivesAreBehind' /\ TakesFromTheDead'
  BY StepKeepsTypes, LivesGoOn, SeenDeadStaysDead DEF LockInv
<1>2. ~usurped' => Ownership'
  BY UsurpedStays, StepKeepsOwnership DEF LockInv
<1> QED
  BY <1>1, <1>2 DEF LockInv

LEMMA InitialOwnership == LockInit => LockInv
<1> SUFFICES ASSUME LockInit PROVE LockInv
  OBVIOUS
<1>1. LockTypeOK
  BY InitialTypes
<1> QED
  BY <1>1 DEF LockInit, LockInv, Ownership, HolderOwnsFile, RecovererOwnsFile, StealsTheDead,
     TakesFromTheDead, LivesAreBehind, Holding, Recovering

(* At most one process is in its critical section, however many processes  *)
(* there are, however often and wherever they die, until one of them has   *)
(* unlinked the recovery lock of a living recoverer.                       *)
THEOREM ExclusionHolds == LockSpec => []ExclusionUntilUsurped
<1>1. LockInit => LockInv
  BY InitialOwnership
<1>2. LockInv /\ [LockNext]_lockVars => LockInv'
  BY StepKeepsLockInv
<1>3. LockInv => ExclusionUntilUsurped
  BY DEF LockInv, Ownership, HolderOwnsFile, Holding, ExclusionUntilUsurped
<1> QED
  BY <1>1, <1>2, <1>3, PTL DEF LockSpec

(* Until then, too, a living owner loses its lock file only by unlinking it. *)
THEOREM LivingOwnersKeepLocks == LockSpec => LivingOwnerKeepsLock
<1>1. ASSUME LockInv, ~usurped, [LockNext]_lockVars, NEW p \in Proc,
             main.proc = p, main.life = life[p], main' = NoFile
      PROVE  pc[p] = "unlink" /\ pc'[p] = "idle"
  <2>t. LockTypeOK /\ main # NoFile /\ HolderOwnsFile /\ StealsTheDead
    BY <1>1, FileLockAssumption DEF LockInv, Ownership, NoFile
  <2>1. main' # main
    BY <1>1, <2>t
  <2>2. ASSUME NEW q \in Proc, Create(q)
        PROVE  FALSE
    BY <2>2, <2>t, <1>1, MyLockIsTyped DEF Create
  <2>3. ASSUME NEW q \in Proc, WriteOwner(q)
        PROVE  FALSE
    BY <2>3, <2>t, <1>1, WrittenFileIsTyped DEF WriteOwner, LockTypeOK
  <2>4. ASSUME NEW q \in Proc, Steal(q)
        PROVE  FALSE
    BY <2>4, <1>1, <2>t DEF Steal, StealsTheDead, Dead
  <2>5. ASSUME Age
        PROVE  FALSE
    BY <2>5, <2>t, <1>1, AgedFileIsTyped DEF Age, LockTypeOK
  <2>6. PICK q \in Proc : Unlink(q)
    BY <1>1, <2>1, <2>2, <2>3, <2>4, <2>5
    DEF LockNext, lockVars, RequestLock, Step, Leave, Release, Observe, CreateRecovery, WriteRecoveryOwner,
        ObserveRecovery, ConfirmRecovery, StealRecovery, Confirm, ReleaseRecovery,
        UnlinkRecovery, Death
  <2>7. q = p
    BY <2>6, <1>1, <2>t DEF Unlink, HolderOwnsFile, Holding
  <2> QED
    BY <2>6, <2>7, <2>t DEF Unlink, Goto, LockTypeOK
<1>2. LockInv /\ [LockNext]_lockVars =>
        [~usurped => \A p \in Proc : main.proc = p /\ main.life = life[p] /\ main' = NoFile
                                        => pc[p] = "unlink" /\ pc'[p] = "idle"]_lockVars
  BY <1>1
<1>3. LockInit => LockInv
  BY InitialOwnership
<1>4. LockInv /\ [LockNext]_lockVars => LockInv'
  BY StepKeepsLockInv
<1> QED
  BY <1>2, <1>3, <1>4, PTL DEF LockSpec, LivingOwnerKeepsLock

=============================================================================
