-------------------------- MODULE SupervisorProofs --------------------------
(*
What holds of the supervisor for every set of operations and every number of backends,
deaths and failures.  The argument: an operation's record, its attempt, its work, its
reservation and its call are tied together (OperationInv) by every step of it, and the
processes' own steps only forget what the supervisor remembers, or take it over once
nothing works unwatched (LifecycleKeepsInv).
*)
EXTENDS Supervisor, TLAPS

USE DEF None

-----------------------------------------------------------------------------
(* The inductive invariant: what holds of each operation at every step. *)

\* Work has a record; a live attempt has an open one and is the owner's; and work that no
\* attempt watches is under quarantine as long as there is a supervisor to know of it.
Journalled(o) ==
    /\ hold[o] = NoHold => journal[o].state = None
    /\ journal[o].state \in {None, "prepared"} => work[o] = None /\ attempt[o] = NoAttempt
    /\ work[o] = "running" => journal[o].state \in {"running", "quarantined"}
    /\ work[o] = "running" /\ attempt[o].pc = None /\ sup.up =>
          journal[o].state = "quarantined" \/ attempt[o].retained
    /\ attempt[o].pc # None =>
          journal[o].state = "running" /\ ~attempt[o].retained /\ call[o].by = sup.owner
    /\ sup.leased /\ work[o] = "running" => call[o].by = sup.owner

\* What an attempt knows of its work.
Watched(o) ==
    /\ attempt[o].pc \in {"opening", "refused"} => work[o] = None /\ attempt[o].settlement = None
    /\ attempt[o].pc = "working" /\ attempt[o].settlement # None /\ ~attempt[o].unconfirmed =>
          work[o] # "running"

\* How far a settlement has come, in the attempt, in the journal and in the budget.
Accounted(o) ==
    /\ journal[o].state \in {None, "prepared"} =>
          journal[o].pending = None /\ journal[o].settled = None
    /\ attempt[o].settlement = None => attempt[o].persist = None
    /\ attempt[o].settlement = None /\ attempt[o].pc # None =>
          journal[o].pending = None /\ journal[o].settled = None
    /\ attempt[o].persist \in {"applying", "recording", "durable"} =>
          attempt[o].settlement # None /\ journal[o].pending = attempt[o].settlement
    /\ attempt[o].persist \in {"recording", "durable"} => hold[o] = SettledBy(attempt[o].settlement)
    /\ attempt[o].persist = "durable" => journal[o].settled = attempt[o].settlement
    /\ journal[o].settled # None => hold[o] = SettledBy(journal[o].settled)
    /\ journal[o].state = "terminal" =>
          journal[o].settled = journal[o].pending /\ attempt[o].persist \in {None, "durable"}
    /\ call[o].pc = "settling" => call[o].settle # None

OperationInv(o) == Journalled(o) /\ Watched(o) /\ Accounted(o)

\* A supervisor that does not run remembers nothing.
Memoryless == ~sup.up => sup = NotRunning /\ attempt = [o \in Operations |-> NoAttempt]

\* Nor does the one that a backend launched and has not been attached to yet.
Fresh ==
    backend.state = "attaching" /\ sup.up =>
        /\ sup.attaching = backend.n /\ ~sup.leased /\ sup.draining = None
        /\ attempt = [o \in Operations |-> NoAttempt]

IInv ==
    /\ TypeOK /\ Memoryless /\ Fresh /\ DeletedProjectIsQuiet
    /\ \A o \in Operations : OperationInv(o)

-----------------------------------------------------------------------------
(* Records and their updates *)

\* The range of the fields that the steps of the supervisor rewrite.
LEMMA AttemptUpdate ==
  ASSUME NEW a \in Attempts,
         NEW pc \in {None, "opening", "working", "refused"},
         NEW s \in Settlements \cup {None},
         NEW p \in {None, "applying", "recording", "durable", "failed"},
         NEW b \in BOOLEAN
  PROVE  /\ [a EXCEPT !.pc = pc] \in Attempts
         /\ [a EXCEPT !.persist = p] \in Attempts
         /\ [a EXCEPT !.aborted = b] \in Attempts
         /\ [a EXCEPT !.persist = p, !.unconfirmed = b] \in Attempts
         /\ [a EXCEPT !.pc = pc, !.retained = b] \in Attempts
         /\ [a EXCEPT !.settlement = s, !.persist = p, !.unconfirmed = b] \in Attempts
         /\ NoAttempt \in Attempts
BY DEF Attempts, NoAttempt

LEMMA RecordUpdate ==
  ASSUME NEW j \in Records,
         NEW st \in {None, "prepared", "running", "quarantined", "terminal"},
         NEW s \in Settlements \cup {None}
  PROVE  /\ [j EXCEPT !.state = st] \in Records
         /\ [j EXCEPT !.pending = s] \in Records
         /\ [j EXCEPT !.settled = s] \in Records
         /\ NoRecord \in Records
BY DEF Records, NoRecord

\* Only settlements are settled with.
LEMMA SettlementOfType ==
  ASSUME TypeOK, NEW o \in Operations
  PROVE  SettlementOf(o) \in Settlements
BY DEF TypeOK, SettlementOf, Settlements

LEMMA AbortingType ==
  ASSUME attempt \in [Operations -> Attempts], NEW S
  PROVE  Aborting(S) \in [Operations -> Attempts]
BY AttemptUpdate DEF Aborting

LEMMA RecoverStartupType ==
  ASSUME journal \in [Operations -> Records]
  PROVE  RecoverStartup \in [Operations -> Records]
<1>1. ASSUME NEW o \in Operations PROVE RecoverStartup[o] \in Records
  <2>1. journal[o] \in Records
    OBVIOUS
  <2> QED
    BY <2>1, RecordUpdate DEF RecoverStartup
<1> QED
  BY <1>1 DEF RecoverStartup

LEMMA NotRunningType == NotRunning \in Processes
BY SupervisorAssumption DEF NotRunning, Processes, Numbers

\* What the end of the supervisor's process leaves.
LEMMA ProcessEndsType ==
  ASSUME TypeOK, ProcessEnds
  PROVE  /\ sup' \in Processes
         /\ attempt' \in [Operations -> Attempts]
         /\ wire' \in [request : SUBSET Operations, cancel : SUBSET Operations]
         /\ reply' \in [Operations -> Settlements \cup {None, "bare", "lost"}]
<1>1. NoAttempt \in Attempts
  BY DEF NoAttempt, Attempts
<1> QED
  BY <1>1, NotRunningType DEF TypeOK, ProcessEnds

-----------------------------------------------------------------------------
(* Types *)

LEMMA ProcessUpdate ==
  ASSUME NEW p \in Processes, NEW n \in Numbers
  PROVE  /\ [p EXCEPT !.attaching = n] \in Processes
         /\ [p EXCEPT !.attaching = 0] \in Processes
         /\ [p EXCEPT !.attaching = 0, !.owner = n, !.leased = TRUE] \in Processes
         /\ [p EXCEPT !.leased = FALSE] \in Processes
         /\ [NotRunning EXCEPT !.up = TRUE, !.attaching = n] \in Processes
<1>1. 0 \in Numbers
  BY SupervisorAssumption DEF Numbers
<1> QED
  BY <1>1 DEF Processes, NotRunning

LEMMA BootType ==
  ASSUME TypeOK, StartBackend \/ Lifecycle \/ Shutdown \/ QuiesceProject
  PROVE  TypeOK'
<1> USE SupervisorAssumption
<1>1. CASE StartBackend
  <2>1. backend.n \in Numbers /\ (backend.n < MaxBackends => backend.n + 1 \in Numbers)
    BY DEF TypeOK, Backends, Numbers
  <2>2. [backend EXCEPT !.state = "starting"] \in Backends
    BY DEF TypeOK, Backends, Booting
  <2>3. backend.n < MaxBackends => [backend EXCEPT !.n = @ + 1, !.state = "starting"] \in Backends
    BY <2>1, <2>2 DEF TypeOK, Backends, Booting
  <2> QED
    BY <1>1, <2>2, <2>3 DEF TypeOK, StartBackend
<1>2. CASE AttachInherited
  BY <1>2 DEF TypeOK, AttachInherited, Backends, Processes, Numbers, Booting, Attached
<1>3. CASE LaunchFresh
  <2>1. journal' \in [Operations -> Records]
    BY <1>3, RecoverStartupType DEF TypeOK, LaunchFresh
  <2>2. backend.n \in Numbers /\ [backend EXCEPT !.state = "attaching"] \in Backends
    BY DEF TypeOK, Backends, Booting
  <2> QED
    BY <1>3, <2>1, <2>2, ProcessUpdate DEF TypeOK, LaunchFresh
<1>4. CASE Attach
  <2>1. sup' \in Processes
    <3>1. sup.attaching \in Numbers
      BY DEF TypeOK, Processes
    <3> QED
      BY <1>4, <3>1, ProcessUpdate DEF TypeOK, Attach
  <2>2. backend' \in Backends
    BY <1>4 DEF TypeOK, Attach, Backends, Attached
  <2> QED
    BY <1>4, <2>1, <2>2 DEF TypeOK, Attach
<1>5. CASE AttachRefused
  <2>1. sup' \in Processes
    BY <1>5, NotRunningType DEF TypeOK, AttachRefused, Processes, Numbers
  <2>2. backend' \in Backends
    BY <1>5 DEF TypeOK, AttachRefused, Backends
  <2> QED
    BY <1>5, <2>1, <2>2 DEF TypeOK, AttachRefused
<1>6. CASE BootBreaks \/ DrainBreaks \/ ExitBackend
  BY <1>6 DEF TypeOK, BootBreaks, DrainBreaks, ExitBackend, Backends, Attached
<1>7. CASE ShutdownEnds
  <2>1. backend' \in Backends
    BY <1>7 DEF TypeOK, ShutdownEnds, Backends, Booting, Attached
  <2>2. sup' \in Processes /\ attempt' \in [Operations -> Attempts]
        /\ wire' \in [request : SUBSET Operations, cancel : SUBSET Operations]
        /\ reply' \in [Operations -> Settlements \cup {None, "bare", "lost"}]
    <3>1. CASE Uncertain
      BY <1>7, <3>1 DEF TypeOK, ShutdownEnds, Processes
    <3>2. CASE ~Uncertain
      BY <1>7, <3>2, ProcessEndsType DEF ShutdownEnds
    <3> QED
      BY <3>1, <3>2
  <2> QED
    BY <1>7, <2>1, <2>2 DEF TypeOK, ShutdownEnds
<1>8. CASE QuiesceEnds
  BY <1>8 DEF TypeOK, QuiesceEnds, Backends, Processes, Attached, Quiesced, Uncertain
<1>9. CASE Detach
  <2>1. sup' \in Processes
    BY <1>9 DEF TypeOK, Detach, Processes
  <2> QED
    BY <1>9, <2>1, AbortingType DEF TypeOK, Detach
<1>10. CASE Shutdown
  <2>1. sup' \in Processes /\ backend' \in Backends
    BY <1>10 DEF TypeOK, Shutdown, Processes, Backends, Attached
  <2> QED
    BY <1>10, <2>1, AbortingType DEF TypeOK, Shutdown
<1>11. CASE QuiesceProject
  <2>1. sup' \in Processes /\ backend' \in Backends
    BY <1>11 DEF TypeOK, QuiesceProject, Processes, Backends, Attached
  <2> QED
    BY <1>11, <2>1, AbortingType DEF TypeOK, QuiesceProject
<1> QED
  BY <1>1, <1>2, <1>3, <1>4, <1>5, <1>6, <1>7, <1>8, <1>9, <1>10, <1>11 DEF Lifecycle

LEMMA BackendType ==
  ASSUME TypeOK, NEW o \in Operations, Accounted(o),
         Reserve(o) \/ Send(o) \/ Abort(o) \/ GiveUp(o) \/ Deliver(o) \/ SettleCall(o) \/ Expire(o)
  PROVE  TypeOK'
<1> USE SupervisorAssumption
<1>0. call[o] \in Calls /\ hold[o] \in {NoHold, Held} \cup {SettledBy(s) : s \in Settlements}
  BY DEF TypeOK
<1>1. CASE Reserve(o)
  <2>1. backend.n \in Numbers
    BY DEF TypeOK, Backends
  <2>2. [pc |-> "reserved", by |-> backend.n, settle |-> None] \in Calls
    BY <2>1 DEF Calls
  <2> QED
    BY <1>1, <2>2 DEF TypeOK, Reserve
<1>2. CASE Send(o)
  <2>1. call' \in [Operations -> Calls]
    <3>1. [call[o] EXCEPT !.pc = "waiting"] \in Calls
      BY <1>0 DEF Calls
    <3>2. \A s \in Settlements : [call[o] EXCEPT !.pc = "settling", !.settle = s] \in Calls
      BY <1>0 DEF Calls
    <3> QED
      BY <1>2, <3>1, <3>2 DEF TypeOK, Send, Settlements
  <2> QED
    BY <1>2, <2>1 DEF TypeOK, Send
<1>3. CASE Abort(o)
  <2>1. [call[o] EXCEPT !.pc = "aborting"] \in Calls
    BY <1>0 DEF Calls
  <2> QED
    BY <1>3, <2>1 DEF TypeOK, Abort
<1>4. CASE GiveUp(o)
  <2>1. [call[o] EXCEPT !.pc = "settling", !.settle = "aborted"] \in Calls
    BY <1>0 DEF Calls, Settlements
  <2> QED
    BY <1>4, <2>1 DEF TypeOK, GiveUp
<1>5. CASE Deliver(o)
  <2>1. [call[o] EXCEPT !.pc = "settling", !.settle = SettlementOf(o)] \in Calls
    BY <1>0, SettlementOfType DEF Calls
  <2> QED
    BY <1>5, <2>1 DEF TypeOK, Deliver
<1>6. CASE SettleCall(o)
  <2>1. [call[o] EXCEPT !.pc = "done"] \in Calls /\ [call[o] EXCEPT !.pc = "failed"] \in Calls
    BY <1>0 DEF Calls
  <2>2. failures' \in 0 .. MaxFailures
    BY <1>6 DEF TypeOK, SettleCall, Fails, Works
  <2>3. call[o].settle \in Settlements
    BY <1>0, <1>6 DEF Calls, Accounted, SettleCall
  <2> QED
    BY <1>6, <2>1, <2>2, <2>3 DEF TypeOK, SettleCall
<1>7. CASE Expire(o)
  BY <1>7 DEF TypeOK, Expire, Settlements
<1> QED
  BY <1>1, <1>2, <1>3, <1>4, <1>5, <1>6, <1>7

LEMMA FailsType ==
  ASSUME TypeOK, Fails \/ Works
  PROVE  failures' \in 0 .. MaxFailures
BY SupervisorAssumption DEF TypeOK, Fails, Works

LEMMA RetainType ==
  ASSUME TypeOK, NEW o \in Operations, NEW written \in SUBSET {"running", "quarantined"},
         Retain(o, written)
  PROVE  /\ attempt' \in [Operations -> Attempts]
         /\ journal' \in [Operations -> Records]
         /\ reply' \in [Operations -> Settlements \cup {None, "bare", "lost"}]
<1>1. attempt[o] \in Attempts /\ journal[o] \in Records
  BY DEF TypeOK
<1>2. [attempt[o] EXCEPT !.pc = None, !.retained = TRUE] \in Attempts
  BY <1>1 DEF Attempts
<1>3. \A state \in written : [journal[o] EXCEPT !.state = state] \in Records
  BY <1>1 DEF Records
<1> QED
  BY <1>2, <1>3 DEF TypeOK, Retain

LEMMA SupervisorType ==
  ASSUME TypeOK, NEW o \in Operations, Accounted(o), SupervisorStep(o)
  PROVE  TypeOK'
<1>0. /\ attempt[o] \in Attempts /\ journal[o] \in Records /\ work[o] \in {None, "running", "ended"}
      /\ attempt[o].settlement \in Settlements \cup {None}
  BY DEF TypeOK, Attempts
<1>1. CASE Receive(o)
  <2>1. [NoAttempt EXCEPT !.pc = "opening"] \in Attempts
    BY DEF NoAttempt, Attempts
  <2>2. \A s \in {None, "prepared", "running", "terminal"} : [journal[o] EXCEPT !.state = s] \in Records
    BY <1>0 DEF Records
  <2>3. attempt' \in [Operations -> Attempts]
    BY <1>1, <2>1 DEF TypeOK, Receive
  <2>4. journal' \in [Operations -> Records]
    BY <1>1, <2>2 DEF TypeOK, Receive
  <2>5. wire' \in [request : SUBSET Operations, cancel : SUBSET Operations]
    BY <1>1 DEF TypeOK, Receive
  <2>6. reply' \in [Operations -> Settlements \cup {None, "bare", "lost"}]
    BY <1>1 DEF TypeOK, Receive
  <2>7. failures' \in 0 .. MaxFailures
    BY <1>1, FailsType DEF Receive
  <2> QED
    BY <1>1, <2>3, <2>4, <2>5, <2>6, <2>7 DEF TypeOK, Receive
<1>2. CASE CancelMessage(o)
  BY <1>2, AbortingType DEF TypeOK, CancelMessage
<1>3. CASE StartWork(o)
  <2>1. [attempt[o] EXCEPT !.pc = "working"] \in Attempts
    BY <1>0 DEF Attempts
  <2> QED
    BY <1>3, <2>1 DEF TypeOK, StartWork
<1>4. CASE StartFails(o)
  <2>1. [attempt[o] EXCEPT !.pc = "refused"] \in Attempts
    BY <1>0 DEF Attempts
  <2> QED
    BY <1>4, <2>1 DEF TypeOK, StartFails
<1>5. CASE PrepareSettlement(o)
  <2> DEFINE s == IF work[o] = "ended" THEN "usage" ELSE "failed"
             settled(p) == [attempt[o] EXCEPT !.settlement = s, !.persist = p,
                                              !.unconfirmed = (work[o] = "running")]
  <2>1. s \in Settlements
    BY DEF Settlements
  <2> HIDE DEF s
  <2>2. settled("applying") \in Attempts /\ settled("failed") \in Attempts
    BY <1>0, <2>1 DEF Attempts
  <2>3. [journal[o] EXCEPT !.pending = s] \in Records
    BY <1>0, <2>1 DEF Records
  <2>4. /\ \/ journal' = [journal EXCEPT ![o].pending = s]
           \/ journal' = journal
        /\ \/ attempt' = [attempt EXCEPT ![o] = settled("applying")]
           \/ attempt' = [attempt EXCEPT ![o] = settled("failed")]
    BY <1>5 DEF PrepareSettlement, s
  <2> HIDE DEF settled
  <2>5. attempt' \in [Operations -> Attempts] /\ journal' \in [Operations -> Records]
    BY <2>2, <2>3, <2>4 DEF TypeOK
  <2>6. failures' \in 0 .. MaxFailures
    BY <1>5, FailsType DEF PrepareSettlement
  <2> QED
    BY <1>5, <2>5, <2>6 DEF TypeOK, PrepareSettlement
<1>6. CASE ApplySettlement(o)
  <2>1. attempt[o].settlement \in Settlements
    BY <1>0, <1>6 DEF ApplySettlement, Accounted
  <2>2. \A p \in {"recording", "failed"} : [attempt[o] EXCEPT !.persist = p] \in Attempts
    BY <1>0 DEF Attempts
  <2>3. failures' \in 0 .. MaxFailures
    BY <1>6, FailsType DEF ApplySettlement
  <2>4. attempt' \in [Operations -> Attempts]
    BY <1>6, <2>2 DEF TypeOK, ApplySettlement
  <2> QED
    BY <1>6, <2>1, <2>3, <2>4 DEF TypeOK, ApplySettlement
<1>7. CASE RecordSettlement(o)
  <2>1. [journal[o] EXCEPT !.settled = attempt[o].settlement] \in Records
    BY <1>0 DEF Records
  <2>2. \A p \in {"durable", "failed"} : [attempt[o] EXCEPT !.persist = p] \in Attempts
    BY <1>0 DEF Attempts
  <2>3. failures' \in 0 .. MaxFailures
    BY <1>7, FailsType DEF RecordSettlement
  <2>4. attempt' \in [Operations -> Attempts]
    BY <1>7, <2>2 DEF TypeOK, RecordSettlement
  <2>5. journal' \in [Operations -> Records]
    BY <1>7, <2>1 DEF TypeOK, RecordSettlement
  <2> QED
    BY <1>7, <2>3, <2>4, <2>5 DEF TypeOK, RecordSettlement
<1>8. CASE RetrySettlement(o)
  <2>1. [journal[o] EXCEPT !.pending = attempt[o].settlement] \in Records
    BY <1>0 DEF Records
  <2>2. [attempt[o] EXCEPT !.persist = "applying", !.unconfirmed = FALSE] \in Attempts
    BY <1>0 DEF Attempts
  <2> QED
    BY <1>8, <2>1, <2>2 DEF TypeOK, RetrySettlement
<1>9. CASE ConcludeTerminal(o)
  <2>1. failures' \in 0 .. MaxFailures
    BY <1>9, FailsType DEF ConcludeTerminal
  <2>2. CASE Retain(o, {"running", "quarantined"})
    BY <1>9, <2>1, <2>2, RetainType DEF TypeOK, ConcludeTerminal
  <2>3. CASE /\ journal' = [journal EXCEPT ![o].state = "terminal"]
             /\ attempt' = [attempt EXCEPT ![o].pc = None]
             /\ reply' = [reply EXCEPT ![o] = IF attempt[o].settlement = None THEN "bare"
                                              ELSE attempt[o].settlement]
    <3>1. [journal[o] EXCEPT !.state = "terminal"] \in Records
      BY <1>0 DEF Records
    <3>2. [attempt[o] EXCEPT !.pc = None] \in Attempts
      BY <1>0 DEF Attempts
    <3> QED
      BY <1>0, <1>9, <2>1, <2>3, <3>1, <3>2 DEF TypeOK, ConcludeTerminal
  <2> QED
    BY <1>9, <2>2, <2>3 DEF ConcludeTerminal
<1>10. CASE ConcludeUnpersisted(o)
  <2>1. failures' \in 0 .. MaxFailures
    BY <1>10, FailsType DEF ConcludeUnpersisted
  <2>2. PICK written \in SUBSET {"running", "quarantined"} : Retain(o, written)
    BY <1>10 DEF ConcludeUnpersisted
  <2> QED
    BY <1>10, <2>1, <2>2, RetainType DEF TypeOK, ConcludeUnpersisted
<1> QED
  BY <1>1, <1>2, <1>3, <1>4, <1>5, <1>6, <1>7, <1>8, <1>9, <1>10 DEF SupervisorStep

LEMMA DeathType ==
  ASSUME TypeOK, SupervisorDies \/ BackendDies
  PROVE  TypeOK'
<1>1. CASE SupervisorDies
  <2>1. deaths' \in 0 .. MaxDeaths
    BY <1>1, SupervisorAssumption DEF TypeOK, SupervisorDies
  <2>2. \A o \in Operations : [journal[o] EXCEPT !.state = "prepared"] \in Records
    BY DEF TypeOK, Records
  <2>3. journal' \in [Operations -> Records]
    BY <1>1, <2>2 DEF TypeOK, SupervisorDies
  <2> QED
    BY <1>1, <2>1, <2>3, ProcessEndsType DEF TypeOK, SupervisorDies
<1>2. CASE BackendDies
  <2>1. backend' \in Backends
    BY <1>2 DEF TypeOK, BackendDies, Backends
  <2>2. \A o \in Operations : [call[o] EXCEPT !.pc = "gone"] \in Calls
    BY DEF TypeOK, Calls
  <2> QED
    BY <1>2, <2>1, <2>2 DEF TypeOK, BackendDies
<1> QED
  BY <1>1, <1>2

LEMMA TypeStep ==
  ASSUME TypeOK, \A o \in Operations : Accounted(o), [Next]_vars
  PROVE  TypeOK'
<1>1. CASE UNCHANGED vars
  BY <1>1 DEF vars, TypeOK
<1>2. ASSUME NEW o \in Operations, WorkEnds(o) PROVE TypeOK'
  BY <1>2 DEF TypeOK, WorkEnds
<1> QED
  BY <1>1, <1>2, BootType, BackendType, SupervisorType, DeathType DEF Next

-----------------------------------------------------------------------------
(* The operations' invariant *)

\* It speaks of one operation and of who owns the supervisor.
LEMMA OperationFrame ==
  ASSUME NEW o \in Operations, OperationInv(o),
         attempt'[o] = attempt[o], journal'[o] = journal[o], work'[o] = work[o],
         hold'[o] = hold[o], call'[o] = call[o],
         sup'.up = sup.up, sup'.owner = sup.owner, sup'.leased = sup.leased
  PROVE  OperationInv(o)'
BY DEF OperationInv, Journalled, Watched, Accounted

\* Aborting an attempt does not change what it knows.
LEMMA AbortingFrame ==
  ASSUME NEW o \in Operations, OperationInv(o), TypeOK, NEW S, attempt' = Aborting(S),
         journal'[o] = journal[o], work'[o] = work[o], hold'[o] = hold[o], call'[o] = call[o],
         sup'.up = sup.up, sup'.owner = sup.owner, sup'.leased => sup.leased,
         S \subseteq Active
  PROVE  OperationInv(o)'
<1>1. attempt[o] \in Attempts
  BY DEF TypeOK
<1>2. /\ attempt'[o].pc = attempt[o].pc /\ attempt'[o].settlement = attempt[o].settlement
      /\ attempt'[o].persist = attempt[o].persist /\ attempt'[o].unconfirmed = attempt[o].unconfirmed
      /\ attempt'[o].retained = attempt[o].retained
  BY <1>1 DEF Aborting, Attempts
<1>3. attempt[o] = NoAttempt => attempt'[o] = NoAttempt
  BY DEF Aborting, Active, NoAttempt
<1> QED
  BY <1>2, <1>3 DEF OperationInv, Journalled, Watched, Accounted

\* What becomes of an operation when the supervisor's process ends.
LEMMA EndFrame ==
  ASSUME NEW o \in Operations, OperationInv(o), ProcessEnds,
         work'[o] = work[o], hold'[o] = hold[o], call'[o] = call[o],
         \/ journal'[o] = journal[o]
         \/ journal[o].state = None /\ journal'[o] = [journal[o] EXCEPT !.state = "prepared"]
            /\ journal[o] \in Records /\ hold[o] # NoHold
  PROVE  OperationInv(o)'
<1>1. attempt'[o] = NoAttempt /\ sup' = NotRunning
  BY DEF ProcessEnds
<1>2. NoAttempt.pc = None /\ NoAttempt.settlement = None /\ NoAttempt.persist = None
      /\ NoAttempt.retained = FALSE /\ NotRunning.up = FALSE /\ NotRunning.leased = FALSE
  BY DEF NoAttempt, NotRunning
<1>3. CASE journal'[o] = journal[o]
  BY <1>1, <1>2, <1>3 DEF OperationInv, Journalled, Watched, Accounted
<1>4. CASE /\ journal[o].state = None /\ journal'[o] = [journal[o] EXCEPT !.state = "prepared"]
           /\ journal[o] \in Records /\ hold[o] # NoHold
  <2>1. /\ journal'[o].state = "prepared" /\ journal'[o].pending = journal[o].pending
        /\ journal'[o].settled = journal[o].settled
    BY <1>4 DEF Records
  <2> QED
    BY <1>1, <1>2, <1>4, <2>1 DEF OperationInv, Journalled, Watched, Accounted
<1> QED
  BY <1>3, <1>4

LEMMA BackendKeepsInv ==
  ASSUME IInv, NEW p \in Operations, NEW o \in Operations,
         Reserve(p) \/ Send(p) \/ Abort(p) \/ GiveUp(p) \/ Deliver(p) \/ SettleCall(p) \/ Expire(p)
  PROVE  OperationInv(o)'
<1>0. OperationInv(o) /\ TypeOK
  BY DEF IInv
<1>1. UNCHANGED <<sup, attempt, journal, work>>
  BY DEF Reserve, Send, Abort, GiveUp, Deliver, SettleCall, Expire
<1>2. CASE o # p
  <2>1. call'[o] = call[o] /\ hold'[o] = hold[o]
    BY <1>0, <1>2 DEF Reserve, Send, Abort, GiveUp, Deliver, SettleCall, Expire, TypeOK
  <2> QED
    BY <1>0, <1>1, <2>1, OperationFrame
<1>3. CASE o = p /\ Reserve(p)
  <2>1. /\ journal[o].state = None /\ attempt[o] = NoAttempt /\ work[o] = None
        /\ journal[o].settled = None /\ journal[o].pending = None
    BY <1>0, <1>3 DEF Reserve, OperationInv, Journalled, Accounted
  <2>2. call'[o].pc = "reserved"
    BY <1>0, <1>3 DEF Reserve, TypeOK
  <2>3. NoAttempt.pc = None /\ NoAttempt.persist = None /\ NoAttempt.settlement = None
    BY DEF NoAttempt
  <2> QED
    BY <1>1, <2>1, <2>2, <2>3 DEF OperationInv, Journalled, Watched, Accounted
<1>4. CASE o = p /\ (Send(p) \/ Abort(p) \/ GiveUp(p) \/ Deliver(p))
  <2>1. SettlementOf(o) # None
    BY <1>0, SettlementOfType DEF Settlements
  <2>2. call[o] \in Calls
    BY <1>0 DEF TypeOK
  <2>3. call'[o].by = call[o].by /\ (call'[o].pc = "settling" => call'[o].settle # None)
    <3>0. call[o].pc = "settling" => call[o].settle # None
      BY <1>0 DEF OperationInv, Accounted
    <3>1. CASE Send(p)
      <4>1. \/ call' = [call EXCEPT ![o].pc = "waiting"]
            \/ \E s \in {"failed", "aborted"} :
                   call' = [call EXCEPT ![o] = [@ EXCEPT !.pc = "settling", !.settle = s]]
        BY <1>4, <3>1 DEF Send
      <4>2. CASE call' = [call EXCEPT ![o].pc = "waiting"]
        BY <1>0, <4>2, <2>2 DEF TypeOK, Calls
      <4>3. ASSUME NEW s \in {"failed", "aborted"},
                   call' = [call EXCEPT ![o] = [@ EXCEPT !.pc = "settling", !.settle = s]]
            PROVE  call'[o].by = call[o].by /\ call'[o].settle # None
        BY <1>0, <4>3, <2>2 DEF TypeOK, Calls
      <4> QED
        BY <4>1, <4>2, <4>3
    <3>2. CASE Abort(p)
      BY <1>0, <1>4, <3>2, <2>2 DEF Abort, TypeOK, Calls
    <3>3. CASE GiveUp(p)
      BY <1>0, <1>4, <3>3, <2>2 DEF GiveUp, TypeOK, Calls
    <3>4. CASE Deliver(p)
      BY <1>0, <1>4, <3>0, <3>4, <2>1, <2>2 DEF Deliver, TypeOK, Calls
    <3> QED
      BY <1>4, <3>1, <3>2, <3>3, <3>4
  <2>4. hold' = hold
    BY <1>4 DEF Send, Abort, GiveUp, Deliver
  <2> QED
    BY <1>0, <1>1, <2>3, <2>4 DEF OperationInv, Journalled, Watched, Accounted
<1>5. CASE o = p /\ (SettleCall(p) \/ Expire(p))
  <2>1. call[o] \in Calls
    BY <1>0 DEF TypeOK
  <2>2. call'[o].by = call[o].by /\ (call'[o].pc = "settling" => call'[o].settle # None)
    BY <1>0, <1>5, <2>1 DEF SettleCall, Expire, TypeOK, Calls, OperationInv, Accounted
  <2>3. /\ \/ hold'[o] = hold[o]
           \/ hold[o] = Held /\ hold'[o] # NoHold
        /\ hold'[o] = NoHold => hold[o] = NoHold
    BY <1>0, <1>5 DEF SettleCall, Expire, TypeOK, Accepts, Held, SettledBy, NoHold
  <2>4. hold[o] = Held => /\ journal[o].settled = None
                          /\ attempt[o].persist \notin {"recording", "durable"}
    BY <1>0 DEF OperationInv, Accounted, Held, SettledBy
  <2> QED
    BY <1>0, <1>1, <2>2, <2>3, <2>4 DEF OperationInv, Journalled, Watched, Accounted
<1> QED
  BY <1>2, <1>3, <1>4, <1>5

\* What the supervisor does about an operation does not touch another one.
LEMMA SupervisorFrame ==
  ASSUME TypeOK, NEW p \in Operations, NEW o \in Operations, o # p, SupervisorStep(p)
  PROVE  /\ attempt'[o] = attempt[o] /\ journal'[o] = journal[o] /\ work'[o] = work[o]
         /\ hold'[o] = hold[o]
<1> USE DEF TypeOK
<1>1. CASE Receive(p) \/ StartWork(p) \/ StartFails(p) \/ RetrySettlement(p)
  BY <1>1 DEF Receive, StartWork, StartFails, RetrySettlement
<1>2. CASE CancelMessage(p)
  BY <1>2 DEF CancelMessage, Aborting
<1>3. CASE PrepareSettlement(p)
  BY <1>3 DEF PrepareSettlement
<1>4. CASE ApplySettlement(p) \/ RecordSettlement(p)
  BY <1>4 DEF ApplySettlement, RecordSettlement
<1>5. CASE ConcludeTerminal(p) \/ ConcludeUnpersisted(p)
  BY <1>5 DEF ConcludeTerminal, ConcludeUnpersisted, Retain
<1> QED
  BY <1>1, <1>2, <1>3, <1>4, <1>5 DEF SupervisorStep

LEMMA ReceiveKeepsInv ==
  ASSUME IInv, NEW o \in Operations, Receive(o)
  PROVE  OperationInv(o)'
<1>0. OperationInv(o) /\ TypeOK /\ journal[o] \in Records
  BY DEF IInv, TypeOK
<1>1. UNCHANGED <<sup, work, call, hold>>
  BY DEF Receive
<1>2. NoAttempt.pc = None /\ NoAttempt.persist = None /\ NoAttempt.settlement = None
      /\ NoAttempt.retained = FALSE
  BY DEF NoAttempt
<1>3. CASE Admissible(o) /\ journal' = [journal EXCEPT ![o].state = "running"]
           /\ attempt' = [attempt EXCEPT ![o] = [NoAttempt EXCEPT !.pc = "opening"]]
  <2>1. /\ journal[o].state = None /\ hold[o] = Held /\ sup.owner = call[o].by
        /\ journal[o].pending = None /\ journal[o].settled = None /\ work[o] = None
    BY <1>0, <1>3 DEF Admissible, Reserved, MayCommand, OperationInv, Journalled, Accounted
  <2>2. /\ journal'[o].state = "running" /\ journal'[o].pending = None /\ journal'[o].settled = None
    BY <1>0, <1>3, <2>1 DEF TypeOK, Records
  <2>3. /\ attempt'[o].pc = "opening" /\ attempt'[o].persist = None
        /\ attempt'[o].settlement = None /\ ~attempt'[o].retained
    BY <1>0, <1>3 DEF TypeOK, NoAttempt
  <2>4. Held # NoHold
    BY DEF Held, NoHold
  <2> QED
    BY <1>0, <1>1, <2>1, <2>2, <2>3, <2>4 DEF OperationInv, Journalled, Watched, Accounted
<1>4. ASSUME Admissible(o), attempt' = attempt, NEW state \in {None, "prepared", "terminal"},
             journal' = [journal EXCEPT ![o].state = state]
      PROVE  OperationInv(o)'
  <2>1. /\ journal[o].state = None /\ hold[o] = Held /\ attempt[o] = NoAttempt
        /\ journal[o].pending = None /\ journal[o].settled = None /\ work[o] = None
    BY <1>0, <1>4 DEF Admissible, Reserved, OperationInv, Journalled, Accounted
  <2>2. /\ journal'[o].state = state /\ journal'[o].pending = None /\ journal'[o].settled = None
    BY <1>0, <1>4, <2>1 DEF TypeOK, Records
  <2>3. Held # NoHold
    BY DEF Held, NoHold
  <2> QED
    BY <1>0, <1>1, <1>2, <1>4, <2>1, <2>2, <2>3 DEF OperationInv, Journalled, Watched, Accounted
<1>5. CASE UNCHANGED <<journal, attempt>>
  BY <1>0, <1>1, <1>5, OperationFrame
<1> QED
  BY <1>3, <1>4, <1>5 DEF Receive

\* The steps between the start of the work and the durable settlement.
LEMMA SettlingKeepsInv ==
  ASSUME IInv, NEW o \in Operations,
         \/ StartWork(o) \/ StartFails(o) \/ PrepareSettlement(o) \/ ApplySettlement(o)
         \/ RecordSettlement(o) \/ RetrySettlement(o)
  PROVE  OperationInv(o)'
<1>0. OperationInv(o) /\ TypeOK /\ journal[o] \in Records /\ attempt[o] \in Attempts
  BY DEF IInv, TypeOK
<1>1. sup' = sup /\ call' = call
  BY DEF StartWork, StartFails, PrepareSettlement, ApplySettlement, RecordSettlement, RetrySettlement
<1>2. CASE StartWork(o)
  <2>1. /\ attempt'[o].pc = "working" /\ attempt'[o].settlement = attempt[o].settlement
        /\ attempt'[o].persist = attempt[o].persist /\ attempt'[o].retained = attempt[o].retained
        /\ work'[o] = "running" /\ attempt[o].pc = "opening" /\ UNCHANGED <<journal, hold>>
    BY <1>0, <1>2 DEF StartWork, TypeOK, Attempts
  <2> QED
    BY <1>0, <1>1, <2>1 DEF OperationInv, Journalled, Watched, Accounted
<1>3. CASE StartFails(o)
  <2>1. /\ attempt'[o].pc = "refused" /\ attempt'[o].settlement = attempt[o].settlement
        /\ attempt'[o].persist = attempt[o].persist /\ attempt'[o].retained = attempt[o].retained
        /\ attempt[o].pc = "opening" /\ UNCHANGED <<journal, hold, work>>
    BY <1>0, <1>3 DEF StartFails, TypeOK, Attempts
  <2> QED
    BY <1>0, <1>1, <2>1 DEF OperationInv, Journalled, Watched, Accounted
<1>4. CASE PrepareSettlement(o)
  <2> DEFINE s == IF work[o] = "ended" THEN "usage" ELSE "failed"
             settled(p) == [attempt[o] EXCEPT !.settlement = s, !.persist = p,
                                              !.unconfirmed = (work[o] = "running")]
  <2>1. s # None /\ UNCHANGED <<work, hold>> /\ attempt[o].pc = "working" /\ attempt[o].settlement = None
    BY <1>4 DEF PrepareSettlement
  <2>2. \/ /\ journal' = [journal EXCEPT ![o].pending = s]
           /\ attempt' = [attempt EXCEPT ![o] = settled("applying")]
        \/ /\ journal' = journal
           /\ attempt' = [attempt EXCEPT ![o] = settled("failed")]
    BY <1>4 DEF PrepareSettlement
  <2> HIDE DEF s
  <2>3. /\ attempt'[o].pc = "working" /\ attempt'[o].settlement = s
        /\ attempt'[o].persist \in {"applying", "failed"} /\ attempt'[o].retained = attempt[o].retained
        /\ attempt'[o].unconfirmed = (work[o] = "running")
        /\ journal'[o].state = journal[o].state /\ journal'[o].settled = journal[o].settled
        /\ attempt'[o].persist = "applying" => journal'[o].pending = s
    <3>1. \A q : /\ settled(q).pc = attempt[o].pc /\ settled(q).settlement = s /\ settled(q).persist = q
                 /\ settled(q).retained = attempt[o].retained
                 /\ settled(q).unconfirmed = (work[o] = "running")
      BY <1>0 DEF Attempts
    <3> HIDE DEF settled
    <3>2. CASE /\ journal' = [journal EXCEPT ![o].pending = s]
               /\ attempt' = [attempt EXCEPT ![o] = settled("applying")]
      <4>1. attempt'[o] = settled("applying")
        BY <1>0, <3>2 DEF TypeOK
      <4>2. /\ journal'[o].state = journal[o].state /\ journal'[o].settled = journal[o].settled
            /\ journal'[o].pending = s
        BY <1>0, <3>2 DEF TypeOK, Records
      <4> QED
        BY <2>1, <3>1, <4>1, <4>2
    <3>3. CASE journal' = journal /\ attempt' = [attempt EXCEPT ![o] = settled("failed")]
      <4>1. attempt'[o] = settled("failed")
        BY <1>0, <3>3 DEF TypeOK
      <4> QED
        BY <2>1, <3>1, <3>3, <4>1
    <3> QED
      BY <2>2, <3>2, <3>3
  <2> QED
    BY <1>0, <1>1, <2>1, <2>3 DEF OperationInv, Journalled, Watched, Accounted
<1>5. CASE ApplySettlement(o)
  <2>1. /\ attempt'[o].pc = attempt[o].pc /\ attempt'[o].settlement = attempt[o].settlement
        /\ attempt'[o].retained = attempt[o].retained /\ attempt'[o].unconfirmed = attempt[o].unconfirmed
        /\ attempt'[o].persist \in {"recording", "failed"} /\ attempt[o].persist = "applying"
        /\ UNCHANGED <<journal, work>>
    BY <1>0, <1>5 DEF ApplySettlement, TypeOK, Attempts
  <2>2. \/ /\ hold'[o] = SettledBy(attempt[o].settlement) /\ attempt'[o].persist = "recording"
           /\ hold[o] \in {Held, SettledBy(attempt[o].settlement)}
        \/ hold'[o] = hold[o] /\ attempt'[o].persist = "failed"
    BY <1>0, <1>5 DEF ApplySettlement, TypeOK, Attempts, Accepts
  <2>3. /\ \A s : Held # SettledBy(s) /\ NoHold # SettledBy(s)
        /\ Held # NoHold
    BY DEF Held, NoHold, SettledBy
  <2>4. \A s, t : SettledBy(s) = SettledBy(t) => s = t
    <3> TAKE s, t
    <3>1. SettledBy(s).by = s /\ SettledBy(t).by = t
      BY DEF SettledBy
    <3> QED
      BY <3>1
  <2>5. attempt[o].persist # None
    BY <2>1
  <2>6. journal[o].state \notin {None, "prepared"}
    BY <1>0, <2>5 DEF OperationInv, Journalled, NoAttempt
  <2> QED
    BY <1>0, <1>1, <2>1, <2>2, <2>3, <2>4, <2>6 DEF OperationInv, Journalled, Watched, Accounted
<1>6. CASE RecordSettlement(o)
  <2>1. /\ attempt'[o].pc = attempt[o].pc /\ attempt'[o].settlement = attempt[o].settlement
        /\ attempt'[o].retained = attempt[o].retained /\ attempt'[o].unconfirmed = attempt[o].unconfirmed
        /\ attempt[o].persist = "recording" /\ UNCHANGED <<work, hold>>
        /\ journal'[o].state = journal[o].state /\ journal'[o].pending = journal[o].pending
    BY <1>0, <1>6 DEF RecordSettlement, TypeOK, Attempts, Records
  <2>2. \/ attempt'[o].persist = "durable" /\ journal'[o].settled = attempt[o].settlement
        \/ attempt'[o].persist = "failed" /\ journal'[o].settled = journal[o].settled
    BY <1>0, <1>6 DEF RecordSettlement, TypeOK, Attempts, Records
  <2>3. journal[o].state \notin {None, "prepared"}
    BY <1>0, <2>1 DEF OperationInv, Journalled, NoAttempt
  <2> QED
    BY <1>0, <1>1, <2>1, <2>2, <2>3 DEF OperationInv, Journalled, Watched, Accounted
<1>7. CASE RetrySettlement(o)
  <2>1. /\ attempt'[o].pc = None /\ attempt'[o].settlement = attempt[o].settlement
        /\ attempt'[o].retained = attempt[o].retained /\ attempt'[o].persist = "applying"
        /\ attempt[o].persist = "failed" /\ attempt[o].pc = None /\ UNCHANGED <<work, hold>>
        /\ journal'[o].state = journal[o].state /\ journal'[o].settled = journal[o].settled
        /\ journal'[o].pending = attempt[o].settlement
    BY <1>0, <1>7 DEF RetrySettlement, TypeOK, Attempts, Records
  <2>2. journal[o].state \notin {None, "prepared", "terminal"} /\ attempt[o].settlement # None
    BY <1>0, <2>1 DEF OperationInv, Journalled, Accounted, NoAttempt
  <2> QED
    BY <1>0, <1>1, <2>1, <2>2 DEF OperationInv, Journalled, Watched, Accounted
<1> QED
  BY <1>2, <1>3, <1>4, <1>5, <1>6, <1>7

\* An operation is closed, or its ownership kept.
LEMMA ConcludeKeepsInv ==
  ASSUME IInv, NEW o \in Operations, ConcludeTerminal(o) \/ ConcludeUnpersisted(o)
  PROVE  OperationInv(o)'
<1>0. OperationInv(o) /\ TypeOK /\ journal[o] \in Records /\ attempt[o] \in Attempts
  BY DEF IInv, TypeOK
<1>1. UNCHANGED <<sup, call, hold, work>> /\ attempt[o].pc \in {"working", "refused"}
  BY DEF ConcludeTerminal, ConcludeUnpersisted
<1>2. ASSUME NEW written \in SUBSET {"running", "quarantined"}, Retain(o, written)
      PROVE  OperationInv(o)'
  <2>1. /\ attempt'[o].pc = None /\ attempt'[o].retained /\ attempt'[o].settlement = attempt[o].settlement
        /\ attempt'[o].persist = attempt[o].persist
    BY <1>0, <1>2 DEF Retain, TypeOK, Attempts
  <2>2. /\ journal'[o].state \in {"running", "quarantined"} /\ journal'[o].pending = journal[o].pending
        /\ journal'[o].settled = journal[o].settled
    BY <1>0, <1>2 DEF Retain, TypeOK, Records
  <2>3. journal[o].state = "running"
    BY <1>0, <1>1 DEF OperationInv, Journalled
  <2> QED
    BY <1>0, <1>1, <2>1, <2>2, <2>3 DEF OperationInv, Journalled, Watched, Accounted
<1>3. CASE /\ MayTerminate(o) /\ journal' = [journal EXCEPT ![o].state = "terminal"]
           /\ attempt' = [attempt EXCEPT ![o].pc = None]
  <2>1. /\ attempt'[o].pc = None /\ attempt'[o].retained = attempt[o].retained
        /\ attempt'[o].settlement = attempt[o].settlement /\ attempt'[o].persist = attempt[o].persist
    BY <1>0, <1>3 DEF TypeOK, Attempts
  <2>2. /\ journal'[o].state = "terminal" /\ journal'[o].pending = journal[o].pending
        /\ journal'[o].settled = journal[o].settled
    BY <1>0, <1>3 DEF TypeOK, Records
  <2>3. journal[o].state = "running" /\ work[o] \in {None, "running", "ended"}
    BY <1>0, <1>1 DEF OperationInv, Journalled, TypeOK
  <2>4. /\ work[o] # "running" /\ journal[o].settled = journal[o].pending
        /\ attempt[o].persist \in {None, "durable"}
    BY <1>0, <1>1, <1>3 DEF MayTerminate, OperationInv, Watched, Accounted
  <2> QED
    BY <1>0, <1>1, <2>1, <2>2, <2>3, <2>4 DEF OperationInv, Journalled, Watched, Accounted
<1> QED
  BY <1>2, <1>3 DEF ConcludeTerminal, ConcludeUnpersisted

LEMMA SupervisorKeepsInv ==
  ASSUME IInv, NEW p \in Operations, NEW o \in Operations, SupervisorStep(p)
  PROVE  OperationInv(o)'
<1>0. OperationInv(o) /\ TypeOK
  BY DEF IInv
<1>1. UNCHANGED <<sup, call>>
  BY DEF SupervisorStep, Receive, CancelMessage, StartWork, StartFails, PrepareSettlement,
         ApplySettlement, RecordSettlement, RetrySettlement, ConcludeTerminal, ConcludeUnpersisted
<1>2. CASE o # p
  BY <1>0, <1>1, <1>2, SupervisorFrame, OperationFrame
<1>3. CASE CancelMessage(p)
  <2>1. /\ attempt' = attempt \/ (attempt' = Aborting({p}) /\ {p} \subseteq Active)
        /\ UNCHANGED <<journal, work, hold>>
    BY <1>3 DEF CancelMessage
  <2>2. UNCHANGED <<journal, work, hold>>
    BY <1>3 DEF CancelMessage
  <2> QED
    BY <1>0, <1>1, <2>1, <2>2, OperationFrame, AbortingFrame
<1> QED
  BY <1>2, <1>3, ReceiveKeepsInv, SettlingKeepsInv, ConcludeKeepsInv DEF SupervisorStep

\* The steps of processes that start, stop and die.
LEMMA LifecycleKeepsInv ==
  ASSUME IInv, NEW o \in Operations,
         \/ StartBackend \/ Lifecycle \/ Shutdown \/ QuiesceProject
         \/ SupervisorDies \/ BackendDies \/ \E p \in Operations : WorkEnds(p)
  PROVE  OperationInv(o)'
<1>0. /\ OperationInv(o) /\ TypeOK /\ Memoryless /\ Fresh
      /\ journal[o] \in Records /\ attempt[o] \in Attempts /\ sup \in Processes
  BY DEF IInv, TypeOK
<1>1. NoAttempt.pc = None /\ NoAttempt.persist = None /\ NoAttempt.settlement = None
      /\ NoAttempt.retained = FALSE
  BY DEF NoAttempt
<1>2. CASE StartBackend \/ BootBreaks \/ DrainBreaks \/ ExitBackend
  BY <1>0, <1>2, OperationFrame DEF StartBackend, BootBreaks, DrainBreaks, ExitBackend
<1>3. CASE AttachInherited
  <2>1. sup'.up = sup.up /\ sup'.owner = sup.owner /\ sup'.leased = sup.leased
    BY <1>0, <1>3 DEF AttachInherited, Processes
  <2> QED
    BY <1>0, <1>3, <2>1, OperationFrame DEF AttachInherited
<1>4. CASE LaunchFresh
  <2>1. attempt[o] = NoAttempt /\ UNCHANGED <<attempt, work, hold, call>>
    BY <1>0, <1>4 DEF LaunchFresh, Memoryless
  <2>2. ~sup'.leased
    BY <1>4 DEF LaunchFresh, NotRunning
  <2>3. /\ journal'[o].pending = journal[o].pending /\ journal'[o].settled = journal[o].settled
        /\ journal'[o].state = CASE journal[o].state = "prepared" -> "terminal"
                                 [] journal[o].state = "running" -> "quarantined"
                                 [] OTHER -> journal[o].state
    BY <1>0, <1>4 DEF LaunchFresh, RecoverStartup, Records
  <2> QED
    BY <1>0, <1>1, <2>1, <2>2, <2>3 DEF OperationInv, Journalled, Watched, Accounted
<1>5. CASE Attach
  <2>1. /\ attempt[o].pc = None /\ journal[o].state # "quarantined" /\ ~attempt[o].retained /\ sup.up
    BY <1>5 DEF Attach, Active, Uncertain
  <2>2. work[o] # "running"
    BY <1>0, <2>1 DEF OperationInv, Journalled
  <2> QED
    BY <1>0, <1>5, <2>1, <2>2 DEF Attach, OperationInv, Journalled, Watched, Accounted
<1>6. CASE AttachRefused
  <2>1. UNCHANGED <<attempt, journal, work, hold, call>>
    BY <1>6 DEF AttachRefused
  <2>2. CASE sup' = [sup EXCEPT !.attaching = 0]
    <3>1. sup'.up = sup.up /\ sup'.owner = sup.owner /\ sup'.leased = sup.leased
      BY <1>0, <2>2 DEF Processes
    <3> QED
      BY <1>0, <2>1, <3>1, OperationFrame
  <2>3. CASE sup' = NotRunning /\ backend.state = "attaching"
    <3>1. attempt[o] = NoAttempt
      BY <1>0, <1>6, <2>3 DEF Fresh, AttachRefused
    <3>2. ~sup'.up /\ ~sup'.leased
      BY <2>3 DEF NotRunning
    <3> QED
      BY <1>0, <1>1, <2>1, <3>1, <3>2 DEF OperationInv, Journalled, Watched, Accounted
  <2> QED
    BY <1>6, <2>2, <2>3 DEF AttachRefused
<1>7. CASE ShutdownEnds
  <2>1. CASE Uncertain
    <3>1. sup'.up = sup.up /\ sup'.owner = sup.owner /\ sup'.leased = sup.leased
      BY <1>0, <1>7, <2>1 DEF ShutdownEnds, Processes
    <3> QED
      BY <1>0, <1>7, <2>1, <3>1, OperationFrame DEF ShutdownEnds
  <2>2. CASE ~Uncertain
    BY <1>0, <1>7, <2>2, EndFrame DEF ShutdownEnds
  <2> QED
    BY <2>1, <2>2
<1>8. CASE QuiesceEnds
  <2>1. sup'.up = sup.up /\ sup'.owner = sup.owner /\ sup'.leased = sup.leased
    BY <1>0, <1>8 DEF QuiesceEnds, Processes
  <2> QED
    BY <1>0, <1>8, <2>1, OperationFrame DEF QuiesceEnds
<1>9. CASE Detach \/ Shutdown \/ QuiesceProject
  <2>1. sup'.up = sup.up /\ sup'.owner = sup.owner /\ (sup'.leased => sup.leased)
    BY <1>0, <1>9 DEF Detach, Shutdown, QuiesceProject, Processes
  <2>2. attempt' = Aborting(Active) /\ UNCHANGED <<journal, work, hold, call>>
    BY <1>9 DEF Detach, Shutdown, QuiesceProject
  <2> QED
    BY <1>0, <2>1, <2>2, AbortingFrame
<1>10. CASE SupervisorDies
  <2>1. \/ journal'[o] = journal[o]
        \/ journal[o].state = None /\ journal'[o] = [journal[o] EXCEPT !.state = "prepared"]
           /\ hold[o] # NoHold
    <3>1. Held # NoHold
      BY DEF Held, NoHold
    <3> QED
      BY <1>0, <1>10, <3>1 DEF SupervisorDies, Admissible, Reserved, TypeOK
  <2> QED
    BY <1>0, <1>10, <2>1, EndFrame DEF SupervisorDies
<1>11. CASE BackendDies
  <2>1. call[o] \in Calls
    BY <1>0 DEF TypeOK
  <2>2. call'[o].by = call[o].by /\ (call'[o] = call[o] \/ call'[o].pc = "gone")
    BY <1>11, <2>1 DEF BackendDies, Calls
  <2> QED
    BY <1>0, <1>11, <2>2 DEF BackendDies, OperationInv, Journalled, Watched, Accounted
<1>12. ASSUME NEW p \in Operations, WorkEnds(p) PROVE OperationInv(o)'
  <2>1. CASE o = p
    <3>1. work'[o] = "ended" /\ work[o] = "running" /\ UNCHANGED <<sup, attempt, journal, hold, call>>
      BY <1>0, <1>12, <2>1 DEF WorkEnds, TypeOK
    <3> QED
      BY <1>0, <1>1, <3>1 DEF OperationInv, Journalled, Watched, Accounted
  <2>2. CASE o # p
    BY <1>0, <1>12, <2>2, OperationFrame DEF WorkEnds, TypeOK
  <2> QED
    BY <2>1, <2>2
<1> QED
  BY <1>2, <1>3, <1>4, <1>5, <1>6, <1>7, <1>8, <1>9, <1>10, <1>11, <1>12 DEF Lifecycle

-----------------------------------------------------------------------------
(* The supervisor's process *)

\* Without a supervisor, or before it is attached to, no step of an operation touches what it
\* remembers.
LEMMA IdleFrame ==
  ASSUME TypeOK, attempt = [o \in Operations |-> NoAttempt], ~sup.up \/ ~sup.leased,
         NEW p \in Operations,
         \/ Reserve(p) \/ Send(p) \/ Abort(p) \/ GiveUp(p) \/ Deliver(p) \/ SettleCall(p)
         \/ Expire(p) \/ SupervisorStep(p) \/ WorkEnds(p)
  PROVE  UNCHANGED <<backend, sup, attempt>>
<1>1. attempt[p].pc = None /\ attempt[p].persist = None
  BY DEF NoAttempt
<1>2. ~MayCommand(call[p].by)
  BY DEF MayCommand
<1>3. CASE SupervisorStep(p)
  BY <1>1, <1>2, <1>3
  DEF SupervisorStep, Receive, Admissible, Reserved, CancelMessage, StartWork, StartFails, PrepareSettlement,
      ApplySettlement, RecordSettlement, RetrySettlement, ConcludeTerminal, ConcludeUnpersisted
<1> QED
  BY <1>3 DEF Reserve, Send, Abort, GiveUp, Deliver, SettleCall, Expire, WorkEnds

LEMMA OperationStepsKeepProcess ==
  ASSUME NEW p \in Operations,
         \/ Reserve(p) \/ Send(p) \/ Abort(p) \/ GiveUp(p) \/ Deliver(p) \/ SettleCall(p)
         \/ Expire(p) \/ SupervisorStep(p) \/ WorkEnds(p)
  PROVE  UNCHANGED <<backend, sup>>
BY DEF Reserve, Send, Abort, GiveUp, Deliver, SettleCall, Expire, WorkEnds, SupervisorStep,
       Receive, CancelMessage, StartWork, StartFails, PrepareSettlement, ApplySettlement,
       RecordSettlement, RetrySettlement, ConcludeTerminal, ConcludeUnpersisted

LEMMA MemorylessStep ==
  ASSUME IInv, [Next]_vars
  PROVE  Memoryless'
<1>0. TypeOK /\ Memoryless /\ Fresh /\ sup \in Processes
  BY DEF IInv, TypeOK
<1>1. CASE UNCHANGED vars
  BY <1>0, <1>1 DEF vars, Memoryless
<1>2. ASSUME NEW p \in Operations,
             \/ Reserve(p) \/ Send(p) \/ Abort(p) \/ GiveUp(p) \/ Deliver(p) \/ SettleCall(p)
             \/ Expire(p) \/ SupervisorStep(p) \/ WorkEnds(p)
      PROVE  Memoryless'
  BY <1>0, <1>2, IdleFrame, OperationStepsKeepProcess DEF Memoryless
<1>3. CASE StartBackend \/ BootBreaks \/ DrainBreaks \/ ExitBackend \/ BackendDies
  BY <1>0, <1>3 DEF Memoryless, StartBackend, BootBreaks, DrainBreaks, ExitBackend, BackendDies
<1>4. CASE AttachInherited \/ LaunchFresh \/ Attach \/ Shutdown \/ QuiesceProject \/ Detach
  <2>1. sup'.up
    BY <1>0, <1>4 DEF AttachInherited, LaunchFresh, Attach, Shutdown, QuiesceProject, Detach,
                      MayCommand, Processes, NotRunning
  <2> QED
    BY <2>1 DEF Memoryless
<1>5. CASE AttachRefused
  BY <1>0, <1>5 DEF AttachRefused, Memoryless, Fresh, Processes
<1>6. CASE QuiesceEnds \/ (ShutdownEnds /\ Uncertain)
  <2>1. sup.draining # None /\ sup' = [sup EXCEPT !.draining = None]
    BY <1>6 DEF QuiesceEnds, ShutdownEnds
  <2>2. sup.up
    BY <1>0, <2>1 DEF Memoryless, NotRunning
  <2> QED
    BY <1>0, <2>1, <2>2 DEF Memoryless, Processes
<1>7. CASE (ShutdownEnds /\ ~Uncertain) \/ SupervisorDies
  BY <1>7 DEF ShutdownEnds, SupervisorDies, ProcessEnds, Memoryless
<1> QED
  BY <1>1, <1>2, <1>3, <1>4, <1>5, <1>6, <1>7 DEF Next, Lifecycle

LEMMA FreshStep ==
  ASSUME IInv, [Next]_vars
  PROVE  Fresh'
<1>0. TypeOK /\ Memoryless /\ Fresh /\ sup \in Processes /\ backend \in Backends
  BY DEF IInv, TypeOK
<1>1. CASE UNCHANGED vars
  BY <1>0, <1>1 DEF vars, Fresh
<1>2. ASSUME NEW p \in Operations,
             \/ Reserve(p) \/ Send(p) \/ Abort(p) \/ GiveUp(p) \/ Deliver(p) \/ SettleCall(p)
             \/ Expire(p) \/ SupervisorStep(p) \/ WorkEnds(p)
      PROVE  Fresh'
  BY <1>0, <1>2, IdleFrame, OperationStepsKeepProcess DEF Fresh
<1>3. CASE StartBackend \/ BootBreaks \/ DrainBreaks \/ ExitBackend \/ BackendDies
           \/ AttachInherited \/ QuiesceProject \/ Shutdown
  <2>1. backend'.state # "attaching"
    BY <1>0, <1>3 DEF StartBackend, BootBreaks, DrainBreaks, ExitBackend, BackendDies,
                      AttachInherited, QuiesceProject, Shutdown, Backends
  <2> QED
    BY <2>1 DEF Fresh
<1>4. CASE LaunchFresh
  <2>1. attempt' = [o \in Operations |-> NoAttempt]
    BY <1>0, <1>4 DEF LaunchFresh, Memoryless
  <2>2. /\ sup'.attaching = backend.n /\ ~sup'.leased /\ sup'.draining = None
        /\ backend'.n = backend.n
    BY <1>0, <1>4 DEF LaunchFresh, NotRunning, Backends
  <2> QED
    BY <2>1, <2>2 DEF Fresh
<1>5. CASE Attach \/ AttachRefused
  <2>1. backend'.state # "attaching"
    <3>1. backend.state = "attaching" => Asks(sup.attaching)
      BY <1>0, <1>5 DEF Fresh, Asks, Attach, AttachRefused
    <3> QED
      BY <1>0, <1>5, <3>1 DEF Attach, AttachRefused, Backends
  <2> QED
    BY <2>1 DEF Fresh
<1>6. CASE Detach \/ ShutdownEnds \/ QuiesceEnds
  <2>1. sup.up
    BY <1>0, <1>6 DEF Detach, ShutdownEnds, QuiesceEnds, Memoryless, NotRunning
  <2>2. backend.state # "attaching"
    BY <1>0, <1>6, <2>1 DEF Fresh, Detach, ShutdownEnds, QuiesceEnds
  <2>3. backend'.state # "attaching"
    BY <1>0, <1>6, <2>2 DEF Detach, ShutdownEnds, QuiesceEnds, Backends
  <2> QED
    BY <2>3 DEF Fresh
<1>7. CASE SupervisorDies
  BY <1>7 DEF SupervisorDies, ProcessEnds, NotRunning, Fresh
<1> QED
  BY <1>1, <1>2, <1>3, <1>4, <1>5, <1>6, <1>7 DEF Next, Lifecycle

-----------------------------------------------------------------------------
(* The deleted project *)

LEMMA QuietStep ==
  ASSUME IInv, [Next]_vars
  PROVE  DeletedProjectIsQuiet'
<1>0. /\ TypeOK /\ Memoryless /\ DeletedProjectIsQuiet
      /\ \A o \in Operations : OperationInv(o)
  BY DEF IInv
<1>1. SUFFICES ASSUME NEW o \in Operations, backend'.deleted
               PROVE  work'[o] # "running" /\ attempt'[o].pc = None
  BY DEF DeletedProjectIsQuiet
<1>2. CASE QuiesceEnds
  <2>1. sup.up
    BY <1>0, <1>2 DEF QuiesceEnds, Memoryless, NotRunning
  <2>2. attempt[o].pc = None /\ UNCHANGED <<attempt, work>>
    BY <1>2 DEF QuiesceEnds, Active
  <2>3. CASE backend.deleted
    BY <1>0, <2>2, <2>3 DEF DeletedProjectIsQuiet
  <2>4. CASE ~Uncertain
    BY <1>0, <2>1, <2>2, <2>4 DEF Uncertain, OperationInv, Journalled
  <2> QED
    BY <1>0, <1>1, <1>2, <2>3, <2>4 DEF QuiesceEnds, Quiesced, TypeOK, Backends
<1>3. CASE ~QuiesceEnds
  <2>1. backend.deleted
    <3>1. \A b \in Backends : \A st, n : [b EXCEPT !.state = st].deleted = b.deleted
                                         /\ [b EXCEPT !.n = n, !.state = st].deleted = b.deleted
      BY DEF Backends
    <3>2. backend \in Backends
      BY <1>0 DEF TypeOK
    <3>3. CASE UNCHANGED backend
      BY <1>1, <3>3
    <3>4. CASE \E st, n : \/ backend' = [backend EXCEPT !.state = st]
                          \/ backend' = [backend EXCEPT !.n = n, !.state = st]
      BY <1>1, <3>1, <3>2, <3>4
    <3>5. CASE StartBackend
      BY <3>4, <3>5 DEF StartBackend
    <3>6. CASE AttachInherited \/ LaunchFresh \/ BootBreaks \/ DrainBreaks \/ ExitBackend
      BY <3>4, <3>6 DEF AttachInherited, LaunchFresh, BootBreaks, DrainBreaks, ExitBackend
    <3>7. CASE Attach \/ AttachRefused
      BY <3>3, <3>4, <3>7 DEF Attach, AttachRefused
    <3>8. CASE ShutdownEnds
      BY <3>4, <3>8 DEF ShutdownEnds
    <3>9. CASE Shutdown \/ QuiesceProject \/ BackendDies
      BY <3>3, <3>4, <3>9 DEF Shutdown, QuiesceProject, BackendDies
    <3>10. CASE Detach \/ SupervisorDies \/ UNCHANGED vars
      BY <3>3, <3>10 DEF Detach, SupervisorDies, vars
    <3> QED
      BY <1>3, <3>3, <3>5, <3>6, <3>7, <3>8, <3>9, <3>10, OperationStepsKeepProcess
      DEF Next, Lifecycle
  <2>2. work[o] # "running" /\ attempt[o].pc = None /\ attempt[o] \in Attempts
    BY <1>0, <2>1 DEF DeletedProjectIsQuiet, TypeOK
  <2>3. ASSUME NEW S, attempt' = Aborting(S), work' = work
        PROVE  work'[o] # "running" /\ attempt'[o].pc = None
    BY <2>2, <2>3 DEF Aborting, Attempts
  <2>4. CASE Shutdown \/ QuiesceProject \/ Detach
    BY <2>3, <2>4 DEF Shutdown, QuiesceProject, Detach
  <2>5. CASE ShutdownEnds \/ SupervisorDies
    BY <2>2, <2>5 DEF ShutdownEnds, SupervisorDies, ProcessEnds, NoAttempt
  <2>6. CASE UNCHANGED <<attempt, work>>
    BY <2>2, <2>6
  <2>7. ASSUME NEW p \in Operations, SupervisorStep(p)
        PROVE  work'[o] # "running" /\ attempt'[o].pc = None
    <3>1. CASE o # p
      BY <1>0, <2>2, <2>7, <3>1, SupervisorFrame
    <3>2. CASE o = p /\ RetrySettlement(o)
      BY <1>0, <2>2, <3>2 DEF RetrySettlement, TypeOK, Attempts
    <3>3. CASE o = p /\ ApplySettlement(o)
      BY <1>0, <2>2, <3>3 DEF ApplySettlement, TypeOK, Attempts
    <3>4. CASE o = p /\ RecordSettlement(o)
      BY <1>0, <2>2, <3>4 DEF RecordSettlement, TypeOK, Attempts
    <3>5. CASE Receive(p)
      BY <2>1, <2>2, <3>5 DEF Receive, Admissible, Reserved
    <3>6. CASE CancelMessage(p)
      BY <2>2, <2>3, <3>6 DEF CancelMessage
    <3> QED
      BY <2>2, <2>7, <3>1, <3>2, <3>3, <3>4, <3>5, <3>6
      DEF SupervisorStep, StartWork, StartFails, PrepareSettlement, ConcludeTerminal,
          ConcludeUnpersisted
  <2>8. ASSUME NEW p \in Operations, WorkEnds(p)
        PROVE  work'[o] # "running" /\ attempt'[o].pc = None
    BY <1>0, <2>2, <2>8 DEF WorkEnds, TypeOK
  <2>9. CASE StartBackend \/ AttachInherited \/ LaunchFresh \/ Attach \/ AttachRefused
             \/ BootBreaks \/ DrainBreaks \/ ExitBackend \/ BackendDies \/ UNCHANGED vars
    BY <2>6, <2>9 DEF StartBackend, AttachInherited, LaunchFresh, Attach, AttachRefused,
                      BootBreaks, DrainBreaks, ExitBackend, BackendDies, vars
  <2>10. ASSUME NEW p \in Operations,
                \/ Reserve(p) \/ Send(p) \/ Abort(p) \/ GiveUp(p) \/ Deliver(p)
                \/ SettleCall(p) \/ Expire(p)
         PROVE  work'[o] # "running" /\ attempt'[o].pc = None
    BY <2>6, <2>10 DEF Reserve, Send, Abort, GiveUp, Deliver, SettleCall, Expire
  <2> QED
    BY <1>3, <2>4, <2>5, <2>7, <2>8, <2>9, <2>10 DEF Next, Lifecycle
<1> QED
  BY <1>2, <1>3

-----------------------------------------------------------------------------
(* The invariant holds, and what follows from it *)

LEMMA InvInit == Init => IInv
<1> SUFFICES ASSUME Init PROVE IInv
  OBVIOUS
<1>1. TypeOK
  <2>1. backend \in Backends
    BY SupervisorAssumption DEF Init, Backends, Numbers
  <2>2. NoAttempt \in Attempts /\ NoRecord \in Records
    BY DEF NoAttempt, Attempts, NoRecord, Records
  <2>3. NoCall \in Calls
    BY SupervisorAssumption DEF NoCall, Calls, Numbers
  <2> QED
    BY <2>1, <2>2, <2>3, NotRunningType, SupervisorAssumption DEF Init, TypeOK
<1>2. Memoryless /\ Fresh /\ DeletedProjectIsQuiet
  BY DEF Init, Memoryless, Fresh, DeletedProjectIsQuiet
<1>3. \A o \in Operations : OperationInv(o)
  BY DEF Init, OperationInv, Journalled, Watched, Accounted, NoAttempt, NoRecord, NoCall, NotRunning
<1> QED
  BY <1>1, <1>2, <1>3 DEF IInv

LEMMA InvStep == IInv /\ [Next]_vars => IInv'
<1> SUFFICES ASSUME IInv, [Next]_vars PROVE IInv'
  OBVIOUS
<1>1. TypeOK'
  BY TypeStep DEF IInv, OperationInv
<1>2. ASSUME NEW o \in Operations PROVE OperationInv(o)'
  <2>1. CASE UNCHANGED vars
    BY <2>1, OperationFrame DEF vars, IInv
  <2> QED
    BY <2>1, BackendKeepsInv, SupervisorKeepsInv, LifecycleKeepsInv DEF Next
<1> QED
  BY <1>1, <1>2, MemorylessStep, FreshStep, QuietStep DEF IInv

LEMMA InvAlways == Spec => []IInv
BY InvInit, InvStep, PTL DEF Spec

\* Every variable keeps its type.
THEOREM SupervisorTypeOK == Spec => []TypeOK
<1>1. IInv => TypeOK
  BY DEF IInv
<1> QED
  BY <1>1, InvAlways, PTL

\* No provider work runs for another backend than the one with the control lease, and none
\* behind a record that is closed, whatever dies, fails to be written or arrives late
\* (coordinator.ts, journal.ts).
THEOREM SupervisorOwnership == Spec => []OwnershipHolds
<1>1. IInv => OwnershipHolds
  BY DEF IInv, OperationInv, Journalled, OwnershipHolds, OnlyTheOwnerWorks, TerminalIsProof
<1> QED
  BY <1>1, InvAlways, PTL

\* What the journal records as settled is what the budget charged, and no record is closed on
\* a settlement that was reported and not applied.
THEOREM SupervisorAccounts == Spec => []UsageIsAccountedFor
<1>1. IInv => UsageIsAccountedFor
  BY DEF IInv, OperationInv, Accounted, UsageIsAccountedFor
<1> QED
  BY <1>1, InvAlways, PTL

\* Nothing works for a project that was deleted.
THEOREM SupervisorQuiet == Spec => []DeletedProjectIsQuiet
<1>1. IInv => DeletedProjectIsQuiet
  BY DEF IInv
<1> QED
  BY <1>1, InvAlways, PTL

-----------------------------------------------------------------------------
(* The reservations of the operations are used as the budget store promises *)

LEMMA HoldStep == IInv /\ IInv' /\ [Next]_vars => [Hold!Next]_hold
<1> SUFFICES ASSUME IInv, IInv', [Next]_vars PROVE Hold!Next \/ hold' = hold
  OBVIOUS
<1>0. TypeOK /\ \A o \in Operations : Accounted(o)
  BY DEF IInv, OperationInv
<1>1. hold' \in [Operations -> Hold!Holds]
  BY DEF IInv, TypeOK, Hold!Holds, Hold!None, Hold!Held, Hold!SettledBy, NoHold, Held, SettledBy
<1>2. ASSUME NEW p \in Operations, NEW h, hold' = [hold EXCEPT ![p] = h],
             h = hold[p] \/ Hold!Move(hold[p], h)
      PROVE  Hold!Next
  <2>1. \A r \in Operations : hold'[r] = hold[r] \/ Hold!Move(hold[r], hold'[r])
    BY <1>0, <1>2 DEF TypeOK
  <2> QED
    BY <1>1, <2>1 DEF Hold!Next
<1>3. ASSUME NEW p \in Operations, NEW s \in Settlements, Accepts(p, s)
      PROVE  SettledBy(s) = hold[p] \/ Hold!Move(hold[p], SettledBy(s))
  BY <1>3 DEF Accepts, Hold!Move, Hold!Held, Hold!SettledBy, Held, SettledBy
<1>4. ASSUME NEW p \in Operations, Reserve(p) PROVE Hold!Next
  BY <1>2, <1>4 DEF Reserve, Hold!Move, Hold!None, Hold!Held, NoHold, Held
<1>5. ASSUME NEW p \in Operations, SettleCall(p) PROVE Hold!Next \/ hold' = hold
  <2>1. call[p].settle \in Settlements
    BY <1>0, <1>5 DEF TypeOK, Calls, Accounted, SettleCall
  <2> QED
    BY <1>2, <1>3, <1>5, <2>1 DEF SettleCall
<1>6. ASSUME NEW p \in Operations, Expire(p) PROVE Hold!Next
  <2>1. Accepts(p, "stale") /\ "stale" \in Settlements
    BY <1>6 DEF Expire, Accepts, Settlements
  <2> QED
    BY <1>2, <1>3, <1>6, <2>1 DEF Expire
<1>7. ASSUME NEW p \in Operations, ApplySettlement(p) PROVE Hold!Next \/ hold' = hold
  <2>1. attempt[p].settlement \in Settlements
    BY <1>0, <1>7 DEF TypeOK, Attempts, Accounted, ApplySettlement
  <2> QED
    BY <1>2, <1>3, <1>7, <2>1 DEF ApplySettlement
<1>8. CASE StartBackend \/ Lifecycle \/ Shutdown \/ QuiesceProject \/ SupervisorDies \/ BackendDies
           \/ UNCHANGED vars
  BY <1>8 DEF StartBackend, Lifecycle, AttachInherited, LaunchFresh, Attach, AttachRefused,
              BootBreaks, ShutdownEnds, QuiesceEnds, DrainBreaks, ExitBackend, Detach, Shutdown,
              QuiesceProject, SupervisorDies, BackendDies, vars
<1>9. ASSUME NEW p \in Operations,
             \/ Send(p) \/ Abort(p) \/ GiveUp(p) \/ Deliver(p) \/ WorkEnds(p)
             \/ SupervisorStep(p) /\ ~ApplySettlement(p)
      PROVE  hold' = hold
  BY <1>9 DEF Send, Abort, GiveUp, Deliver, WorkEnds, SupervisorStep, Receive, CancelMessage,
              StartWork, StartFails, PrepareSettlement, RecordSettlement, RetrySettlement,
              ConcludeTerminal, ConcludeUnpersisted
<1> QED
  BY <1>4, <1>5, <1>6, <1>7, <1>8, <1>9 DEF Next

\* Two processes settle each reservation, again after a failure or a death: it is settled once,
\* and never by something else.
THEOREM SupervisorSettlesOnce == Spec => SettlesOnce
<1>1. Init => Hold!Init
  BY DEF Init, Hold!Init, Hold!None, NoHold
<1> QED
  BY <1>1, InvAlways, HoldStep, PTL DEF Spec, SettlesOnce, Hold!Spec
=============================================================================
