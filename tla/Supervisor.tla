----------------------------- MODULE Supervisor -----------------------------
(*
The workflow supervisor (src/server/src/workflows/supervisor): a detached process that
runs provider work for the backend, its durable journal, the backend that attaches to
it, and the budget reservation both of them settle.

  - The backend reserves, dispatches, cancels, settles what it is answered, or settles
    by itself when it is not; it may die, and the next one drains the supervisor it
    inherits, shuts it down and launches a fresh one.
  - The supervisor journals an operation before its work starts and a settlement before
    it is applied; it may die between any two writes.  Work may outlive it.

A step is what one process does between two awaits.  The operations are of one project;
an operation's identity is reserved, and so dispatched, once (Budget.tla).
*)
EXTENDS Naturals

CONSTANTS
    Operations,     \* provider operations the backends may dispatch
    MaxBackends,    \* bound on the backends that get to run
    MaxDeaths,      \* bound on the deaths of the supervisor
    MaxFailures     \* bound on the writes and settlements that fail

ASSUME SupervisorAssumption ==
    MaxBackends \in Nat \ {0} /\ MaxDeaths \in Nat /\ MaxFailures \in Nat

VARIABLES
    backend,        \* the current backend: its number and what it is doing
    sup,            \* the supervisor process
    attempt,        \* what the supervisor process remembers of each operation
    journal,        \* the durable record of each operation
    work,           \* the provider's work
    wire,           \* requests and cancellations on their way to the supervisor
    reply,          \* answers on their way back
    call,           \* what the backend is doing about each operation
    hold,           \* the reservations
    deaths, failures

vars == <<backend, sup, attempt, journal, work, wire, reply, call, hold, deaths, failures>>

None == "none"

(* How a reservation can end: by the usage the provider reported; by a failure or an abort
without usage, charged in full; or by its lease, charged in full too. *)
Settlements == {"usage", "failed", "aborted", "stale"}

NoHold == [state |-> "none"]
Held == [state |-> "held"]
SettledBy(s) == [state |-> "settled", by |-> s]

NoAttempt == [pc |-> None, settlement |-> None, persist |-> None,
              aborted |-> FALSE, unconfirmed |-> FALSE, retained |-> FALSE]
NoRecord == [state |-> None, pending |-> None, settled |-> None]
NoCall == [pc |-> None, by |-> 0, settle |-> None]
NotRunning == [up |-> FALSE, owner |-> 0, leased |-> FALSE, attaching |-> 0,
               stopping |-> FALSE, draining |-> None]

Numbers == 0 .. MaxBackends
Booting == {"starting", "inheriting", "attaching"}     \* it has no control lease yet
Attached == {"up", "closing", "deleting", "replacing"}  \* it holds one, or believes so
Calling == {"reserved", "waiting", "aborting", "settling"}

Backends == [n : Numbers, deleted : BOOLEAN,
             state : {"down", "failed", "exiting"} \cup Booting \cup Attached]
Processes == [up : BOOLEAN, owner : Numbers, leased : BOOLEAN, attaching : Numbers,
              stopping : BOOLEAN, draining : {None, "shutdown", "quiesce"}]
Attempts == [pc : {None, "opening", "working", "refused"},
             settlement : Settlements \cup {None},
             persist : {None, "applying", "recording", "durable", "failed"},
             aborted : BOOLEAN, unconfirmed : BOOLEAN, retained : BOOLEAN]
Records == [state : {None, "prepared", "running", "quarantined", "terminal"},
            pending : Settlements \cup {None}, settled : Settlements \cup {None}]
Calls == [pc : {None, "reserved", "waiting", "aborting", "settling", "done", "failed", "gone"},
          by : Numbers, settle : Settlements \cup {None}]

TypeOK ==
    /\ backend \in Backends /\ sup \in Processes
    /\ attempt \in [Operations -> Attempts]
    /\ journal \in [Operations -> Records]
    /\ work \in [Operations -> {None, "running", "ended"}]
    /\ wire \in [request : SUBSET Operations, cancel : SUBSET Operations]
    /\ reply \in [Operations -> Settlements \cup {None, "bare", "lost"}]
    /\ call \in [Operations -> Calls]
    /\ hold \in [Operations -> {NoHold, Held} \cup {SettledBy(s) : s \in Settlements}]
    /\ deaths \in 0 .. MaxDeaths /\ failures \in 0 .. MaxFailures

Init ==
    /\ backend = [n |-> 0, state |-> "down", deleted |-> FALSE]
    /\ sup = NotRunning
    /\ attempt = [o \in Operations |-> NoAttempt]
    /\ journal = [o \in Operations |-> NoRecord]
    /\ work = [o \in Operations |-> None]
    /\ wire = [request |-> {}, cancel |-> {}]
    /\ reply = [o \in Operations |-> None]
    /\ call = [o \in Operations |-> NoCall]
    /\ hold = [o \in Operations |-> NoHold]
    /\ deaths = 0 /\ failures = 0

Fails == failures < MaxFailures /\ failures' = failures + 1
Works == UNCHANGED failures

-----------------------------------------------------------------------------
(* The supervisor's tables *)

Active == {o \in Operations : attempt[o].pc # None}

\* Ownership nobody can prove to have ended, in the journal or in memory.
Uncertain == \E o \in Operations : journal[o].state = "quarantined" \/ attempt[o].retained

\* requireEpoch
MayCommand(n) == sup.up /\ sup.leased /\ sup.owner = n /\ ~sup.stopping

Aborting(attempts) ==
    [o \in Operations |-> IF o \in attempts THEN [attempt[o] EXCEPT !.aborted = TRUE] ELSE attempt[o]]

\* What a starting supervisor makes of the journal; pending settlements are only listed.
RecoverStartup ==
    [o \in Operations |->
        CASE journal[o].state = "prepared" -> [journal[o] EXCEPT !.state = "terminal"]
          [] journal[o].state = "running"  -> [journal[o] EXCEPT !.state = "quarantined"]
          [] OTHER -> journal[o]]

\* Mutant: whoever waits for an answer does not notice.
ProcessEndsUnnoticed ==
    /\ sup' = NotRunning
    /\ attempt' = [o \in Operations |-> NoAttempt]
    /\ wire' = [request |-> {}, cancel |-> {}]
    /\ UNCHANGED reply

\* The supervisor process is gone with its memory and its connections; an answer it has sent
\* may still arrive.
ProcessEnds ==
    /\ sup' = NotRunning
    /\ attempt' = [o \in Operations |-> NoAttempt]
    /\ wire' = [request |-> {}, cancel |-> {}]
    /\ \E arrives \in BOOLEAN :
          reply' = [o \in Operations |->
                        IF reply[o] # None /\ arrives THEN reply[o]
                        ELSE IF call[o].pc \in {"waiting", "aborting"} THEN "lost" ELSE None]

-----------------------------------------------------------------------------
(* A backend starts *)

\* A backend that could not start has owned nothing, so the next one may use its number.
StartBackend ==
    /\ \/ backend.state = "down" /\ backend.n < MaxBackends
          /\ backend' = [backend EXCEPT !.n = @ + 1, !.state = "starting"]
       \/ backend.state = "failed"
          /\ backend' = [backend EXCEPT !.state = "starting"]
    /\ UNCHANGED <<sup, attempt, journal, work, wire, reply, call, hold, deaths, failures>>

\* ensureWorkflowSupervisor: an inherited supervisor is attached to only to be shut down.
AttachInherited ==
    /\ backend.state = "starting" /\ sup.up
    /\ sup' = [sup EXCEPT !.attaching = backend.n]
    /\ backend' = [backend EXCEPT !.state = "inheriting"]
    /\ UNCHANGED <<attempt, journal, work, wire, reply, call, hold, deaths, failures>>

LaunchFresh ==
    /\ backend.state = "starting" /\ ~sup.up
    /\ sup' = [NotRunning EXCEPT !.up = TRUE, !.attaching = backend.n]
    /\ journal' = RecoverStartup
    /\ backend' = [backend EXCEPT !.state = "attaching"]
    /\ UNCHANGED <<attempt, work, wire, reply, call, hold, deaths, failures>>

Asks(n) == backend.n = n /\ backend.state \in {"inheriting", "attaching"}

\* Mutant: the previous owner's attempts are aborted but not waited for.
AttachUndrained ==
    /\ sup.up /\ sup.attaching # 0
    /\ ~sup.stopping /\ ~sup.leased
    /\ ~Uncertain
    /\ sup' = [sup EXCEPT !.attaching = 0, !.owner = sup.attaching, !.leased = TRUE]
    /\ backend' = IF Asks(sup.attaching)
                  THEN [backend EXCEPT !.state = IF @ = "inheriting" THEN "replacing" ELSE "up"]
                  ELSE backend
    /\ UNCHANGED <<attempt, journal, work, wire, reply, call, hold, deaths, failures>>

\* attach() waits, without a limit, for what the previous owner left to end.
Attach ==
    /\ sup.up /\ sup.attaching # 0
    /\ ~sup.stopping /\ ~sup.leased
    /\ Active = {} /\ ~Uncertain
    /\ sup' = [sup EXCEPT !.attaching = 0, !.owner = sup.attaching, !.leased = TRUE]
    /\ backend' = IF Asks(sup.attaching)
                  THEN [backend EXCEPT !.state = IF @ = "inheriting" THEN "replacing" ELSE "up"]
                  ELSE backend
    /\ UNCHANGED <<attempt, journal, work, wire, reply, call, hold, deaths, failures>>

\* Mutant: ownership that is uncertain is waited for as well.
RefusesBusyOnly == sup.stopping \/ sup.leased

Refuses == sup.stopping \/ sup.leased \/ (Active = {} /\ Uncertain)

\* A refused bootstrap terminates the supervisor it launched, never one it inherited.
AttachRefused ==
    /\ sup.up /\ sup.attaching # 0 /\ Refuses
    /\ sup' = IF Asks(sup.attaching) /\ backend.state = "attaching" THEN NotRunning
              ELSE [sup EXCEPT !.attaching = 0]
    /\ backend' = IF Asks(sup.attaching) THEN [backend EXCEPT !.state = "failed"] ELSE backend
    /\ UNCHANGED <<attempt, journal, work, wire, reply, call, hold, deaths, failures>>

\* The supervisor a bootstrap talks to has died.
BootBreaks ==
    /\ backend.state \in {"inheriting", "attaching", "replacing"} /\ ~sup.up
    /\ backend' = [backend EXCEPT !.state = "failed"]
    /\ UNCHANGED <<sup, attempt, journal, work, wire, reply, call, hold, deaths, failures>>

-----------------------------------------------------------------------------
(* Draining: the owner shuts the supervisor down, or quiesces the project *)

\* Asked by a backend that closes, or by one that replaces what it inherited.
Shutdown ==
    /\ \/ backend.state = "up" /\ backend' = [backend EXCEPT !.state = "closing"]
       \/ backend.state = "replacing" /\ UNCHANGED backend
    /\ MayCommand(backend.n) /\ sup.draining = None
    /\ sup' = [sup EXCEPT !.stopping = TRUE, !.draining = "shutdown"]
    /\ attempt' = Aborting(Active)
    /\ UNCHANGED <<journal, work, wire, reply, call, hold, deaths, failures>>

\* The project is deleted once its runs have ended; what their callers gave up on has not.
QuiesceProject ==
    /\ backend.state = "up" /\ ~backend.deleted
    /\ \A o \in Operations : call[o].pc \notin Calling
    /\ MayCommand(backend.n) /\ sup.draining = None
    /\ backend' = [backend EXCEPT !.state = "deleting"]
    /\ sup' = [sup EXCEPT !.draining = "quiesce"]
    /\ attempt' = Aborting(Active)
    /\ UNCHANGED <<journal, work, wire, reply, call, hold, deaths, failures>>

\* The supervisor exits, or refuses and stays, still shutting down.
ShutdownEnds ==
    /\ sup.draining = "shutdown" /\ Active = {}
    /\ IF Uncertain
       THEN /\ sup' = [sup EXCEPT !.draining = None]
            /\ backend' = [backend EXCEPT !.state = CASE @ = "closing"   -> "up"
                                                      [] @ = "replacing" -> "failed"
                                                      [] OTHER -> @]
            /\ UNCHANGED <<attempt, wire, reply>>
       ELSE /\ ProcessEnds
            /\ backend' = [backend EXCEPT !.state = CASE @ = "closing"   -> "exiting"
                                                      [] @ = "replacing" -> "starting"
                                                      [] OTHER -> @]
    /\ UNCHANGED <<journal, work, call, hold, deaths, failures>>

\* Mutant: the deletion goes on although ownership is uncertain.
QuiescedRegardless == TRUE

Quiesced == ~Uncertain

QuiesceEnds ==
    /\ sup.draining = "quiesce" /\ Active = {}
    /\ sup' = [sup EXCEPT !.draining = None]
    /\ backend' = IF backend.state = "deleting"
                  THEN [backend EXCEPT !.state = "up", !.deleted = Quiesced]
                  ELSE backend
    /\ UNCHANGED <<attempt, journal, work, wire, reply, call, hold, deaths, failures>>

\* The supervisor died under the request.
DrainBreaks ==
    /\ backend.state \in {"closing", "deleting"} /\ ~sup.up
    /\ backend' = [backend EXCEPT !.state = "up"]
    /\ UNCHANGED <<sup, attempt, journal, work, wire, reply, call, hold, deaths, failures>>

\* A backend that closes waits for its runs.
ExitBackend ==
    /\ backend.state = "exiting"
    /\ \A o \in Operations : call[o].pc \notin Calling
    /\ backend' = [backend EXCEPT !.state = "down"]
    /\ UNCHANGED <<sup, attempt, journal, work, wire, reply, call, hold, deaths, failures>>

\* The control connection has closed: what it owned is aborted.
Detach ==
    /\ sup.up /\ sup.leased
    /\ ~(backend.n = sup.owner /\ backend.state \in Attached)
    /\ sup' = [sup EXCEPT !.leased = FALSE]
    /\ attempt' = Aborting(Active)
    /\ UNCHANGED <<backend, journal, work, wire, reply, call, hold, deaths, failures>>

-----------------------------------------------------------------------------
(* The backend's side of an operation *)

Runs == backend.state \in Attached \cup {"exiting"}
Mine(o) == Runs /\ call[o].by = backend.n

Reserve(o) ==
    /\ backend.state = "up" /\ ~backend.deleted
    /\ hold[o] = NoHold
    /\ hold' = [hold EXCEPT ![o] = Held]
    /\ call' = [call EXCEPT ![o] = [pc |-> "reserved", by |-> backend.n, settle |-> None]]
    /\ UNCHANGED <<backend, sup, attempt, journal, work, wire, reply, deaths, failures>>

\* Without a lease nothing is sent; an operation aborted before it is sent is not either.
Send(o) ==
    /\ Mine(o) /\ call[o].pc = "reserved"
    /\ \/ /\ sup.up
          /\ wire' = [wire EXCEPT !.request = @ \cup {o}]
          /\ call' = [call EXCEPT ![o].pc = "waiting"]
       \/ /\ \E s \in {"failed", "aborted"} :
                 call' = [call EXCEPT ![o] = [@ EXCEPT !.pc = "settling", !.settle = s]]
          /\ UNCHANGED wire
    /\ UNCHANGED <<backend, sup, attempt, journal, work, reply, hold, deaths, failures>>

\* The run is cancelled or the node times out: the cancellation has a connection of its own,
\* so that the answer can still come.
Abort(o) ==
    /\ Mine(o) /\ call[o].pc = "waiting"
    /\ call' = [call EXCEPT ![o].pc = "aborting"]
    /\ wire' = [wire EXCEPT !.cancel = @ \cup {o}]
    /\ UNCHANGED <<backend, sup, attempt, journal, work, reply, hold, deaths, failures>>

\* Waiting for the answer has a limit; the closing socket cancels once more.
GiveUp(o) ==
    /\ Mine(o) /\ call[o].pc = "aborting"
    /\ call' = [call EXCEPT ![o] = [@ EXCEPT !.pc = "settling", !.settle = "aborted"]]
    /\ wire' = [wire EXCEPT !.cancel = @ \cup {o}]
    /\ UNCHANGED <<backend, sup, attempt, journal, work, reply, hold, deaths, failures>>

SettlementOf(o) ==
    CASE reply[o] \in Settlements -> reply[o]
      [] call[o].pc = "aborting"  -> "aborted"
      [] OTHER -> "failed"

\* An answer's settlement is repeated; an answer without one, or a lost connection, is settled
\* by the backend itself.
Deliver(o) ==
    /\ reply[o] # None
    /\ reply' = [reply EXCEPT ![o] = None]
    /\ call' = IF Mine(o) /\ call[o].pc \in {"waiting", "aborting"}
               THEN [call EXCEPT ![o] = [@ EXCEPT !.pc = "settling", !.settle = SettlementOf(o)]]
               ELSE call
    /\ UNCHANGED <<backend, sup, attempt, journal, work, wire, hold, deaths, failures>>

\* What the budget store makes of a settlement: it repeats one, and refuses another.
Accepts(o, s) == hold[o] \in {Held, SettledBy(s)}

SettleCall(o) ==
    /\ Mine(o) /\ call[o].pc = "settling"
    /\ \/ /\ Accepts(o, call[o].settle) /\ Works
          /\ hold' = [hold EXCEPT ![o] = SettledBy(call[o].settle)]
          /\ call' = [call EXCEPT ![o].pc = "done"]
       \/ /\ Fails \/ (~Accepts(o, call[o].settle) /\ Works)
          /\ call' = [call EXCEPT ![o].pc = "failed"]
          /\ UNCHANGED hold
    /\ UNCHANGED <<backend, sup, attempt, journal, work, wire, reply, deaths>>

\* The lease ran out, and a backend that starts or admits other work reconciles it.
Expire(o) ==
    /\ backend.state = "up" /\ hold[o] = Held
    /\ hold' = [hold EXCEPT ![o] = SettledBy("stale")]
    /\ UNCHANGED <<backend, sup, attempt, journal, work, wire, reply, call, deaths, failures>>

-----------------------------------------------------------------------------
(* The supervisor's side of an operation *)

\* validateBudgetEnvelope: the reservation is found and active.  A project that has been
\* deleted has taken its reservations with it.
Reserved(o) == hold[o] = Held /\ ~backend.deleted

Admissible(o) ==
    /\ Reserved(o)
    /\ MayCommand(call[o].by) /\ sup.draining = None /\ ~Uncertain
    /\ journal[o].state = None

\* beginAttempt: the record is prepared and claimed in one step.  When the claim cannot be
\* written the record is closed as never started, if that can be written.
Receive(o) ==
    /\ sup.up /\ o \in wire.request
    /\ wire' = [wire EXCEPT !.request = @ \ {o}]
    /\ \/ /\ Admissible(o) /\ Works
          /\ journal' = [journal EXCEPT ![o].state = "running"]
          /\ attempt' = [attempt EXCEPT ![o] = [NoAttempt EXCEPT !.pc = "opening"]]
          /\ UNCHANGED reply
       \/ /\ Admissible(o) /\ Fails
          /\ \E state \in {None, "prepared", "terminal"} :
                 journal' = [journal EXCEPT ![o].state = state]
          /\ reply' = [reply EXCEPT ![o] = "bare"]
          /\ UNCHANGED attempt
       \/ /\ ~Admissible(o) /\ Works
          /\ reply' = [reply EXCEPT ![o] = "bare"]
          /\ UNCHANGED <<journal, attempt>>
    /\ UNCHANGED <<backend, sup, work, call, hold, deaths>>

\* cancelMessage; one that comes before its request, or from a stale epoch, finds nothing.
CancelMessage(o) ==
    /\ sup.up /\ o \in wire.cancel
    /\ wire' = [wire EXCEPT !.cancel = @ \ {o}]
    /\ attempt' = IF MayCommand(call[o].by) /\ o \in Active THEN Aborting({o}) ELSE attempt
    /\ UNCHANGED <<backend, sup, journal, work, reply, call, hold, deaths, failures>>

\* The session is there and the work starts, unless the attempt was aborted meanwhile.
StartWork(o) ==
    /\ attempt[o].pc = "opening" /\ ~attempt[o].aborted
    /\ attempt' = [attempt EXCEPT ![o].pc = "working"]
    /\ work' = [work EXCEPT ![o] = "running"]
    /\ UNCHANGED <<backend, sup, journal, wire, reply, call, hold, deaths, failures>>

\* No session, or no host that takes the work: there is nothing to settle.
StartFails(o) ==
    /\ attempt[o].pc = "opening"
    /\ attempt' = [attempt EXCEPT ![o].pc = "refused"]
    /\ UNCHANGED <<backend, sup, journal, work, wire, reply, call, hold, deaths, failures>>

WorkEnds(o) ==
    /\ work[o] = "running"
    /\ work' = [work EXCEPT ![o] = "ended"]
    /\ UNCHANGED <<backend, sup, attempt, journal, wire, reply, call, hold, deaths, failures>>

\* reconcileUsage: the provider's terminal response has its usage; work that was cancelled, or
\* whose deadline passed, and does not acknowledge it is settled without.  The settlement is
\* journalled before it is applied.
PrepareSettlement(o) ==
    /\ attempt[o].pc = "working" /\ attempt[o].settlement = None
    /\ LET s == IF work[o] = "ended" THEN "usage" ELSE "failed"
           settled(p) == [attempt[o] EXCEPT !.settlement = s, !.persist = p,
                                            !.unconfirmed = (work[o] = "running")]
       IN  \/ /\ Works
              /\ journal' = [journal EXCEPT ![o].pending = s]
              /\ attempt' = [attempt EXCEPT ![o] = settled("applying")]
           \/ /\ Fails
              /\ attempt' = [attempt EXCEPT ![o] = settled("failed")]
              /\ UNCHANGED journal
    /\ UNCHANGED <<backend, sup, work, wire, reply, call, hold, deaths>>

\* applyPreparedSettlement, up to the budget store's answer ...
ApplySettlement(o) ==
    /\ attempt[o].persist = "applying"
    /\ LET s == attempt[o].settlement
       IN  \/ /\ Accepts(o, s) /\ Works
              /\ hold' = [hold EXCEPT ![o] = SettledBy(s)]
              /\ attempt' = [attempt EXCEPT ![o].persist = "recording"]
           \/ /\ Fails \/ (~Accepts(o, s) /\ Works)
              /\ attempt' = [attempt EXCEPT ![o].persist = "failed"]
              /\ UNCHANGED hold
    /\ UNCHANGED <<backend, sup, journal, work, wire, reply, call, deaths>>

\* ... and from there on.
RecordSettlement(o) ==
    /\ attempt[o].persist = "recording"
    /\ \/ /\ Works
          /\ journal' = [journal EXCEPT ![o].settled = attempt[o].settlement]
          /\ attempt' = [attempt EXCEPT ![o].persist = "durable"]
       \/ /\ Fails
          /\ attempt' = [attempt EXCEPT ![o].persist = "failed"]
          /\ UNCHANGED journal
    /\ UNCHANGED <<backend, sup, work, wire, reply, call, hold, deaths>>

\* The host keeps a child that did not acknowledge; when it does, late, a settlement that
\* could not be persisted is tried again.
RetrySettlement(o) ==
    /\ attempt[o].pc = None /\ attempt[o].unconfirmed /\ work[o] = "ended"
    /\ attempt[o].persist = "failed"
    /\ attempt' = [attempt EXCEPT ![o] = [@ EXCEPT !.persist = "applying", !.unconfirmed = FALSE]]
    /\ journal' = [journal EXCEPT ![o].pending = attempt[o].settlement]
    /\ UNCHANGED <<backend, sup, work, wire, reply, call, hold, deaths, failures>>

\* retainQuarantine: ownership is kept in memory whether or not the journal could be written.
Retain(o, written) ==
    /\ attempt' = [attempt EXCEPT ![o] = [@ EXCEPT !.pc = None, !.retained = TRUE]]
    /\ reply' = [reply EXCEPT ![o] = "bare"]
    /\ \E state \in written : journal' = [journal EXCEPT ![o].state = state]

\* Mutant: a settlement that could not be persisted does not keep the operation open.
MayTerminateUnpersisted(o) ==
    \/ attempt[o].pc = "refused"
    \/ /\ attempt[o].persist \in {"durable", "failed"}
       /\ attempt[o].unconfirmed => work[o] = "ended"

\* The operation failed before any work, or its settlement is durable and its work has ended;
\* a host with an unacknowledged child is disposed of first, which waits for the child.
MayTerminate(o) ==
    \/ attempt[o].pc = "refused"
    \/ attempt[o].persist = "durable" /\ (attempt[o].unconfirmed => work[o] = "ended")

ConcludeTerminal(o) ==
    /\ attempt[o].pc \in {"working", "refused"} /\ MayTerminate(o)
    /\ \/ /\ Works
          /\ journal' = [journal EXCEPT ![o].state = "terminal"]
          /\ attempt' = [attempt EXCEPT ![o].pc = None]
          /\ reply' = [reply EXCEPT ![o] = IF attempt[o].settlement = None THEN "bare"
                                          ELSE attempt[o].settlement]
       \/ Fails /\ Retain(o, {"running", "quarantined"})
    /\ UNCHANGED <<backend, sup, work, wire, call, hold, deaths>>

\* Persisting the settlement failed, or takes longer than the host waits for it.
ConcludeUnpersisted(o) ==
    /\ attempt[o].pc = "working" /\ attempt[o].persist \in {"applying", "recording", "failed"}
    /\ \/ Works /\ Retain(o, {"quarantined"})
       \/ Fails /\ Retain(o, {"running"})
    /\ UNCHANGED <<backend, sup, work, wire, call, hold, deaths>>

-----------------------------------------------------------------------------
(* Deaths *)

\* It may die between the two writes of beginAttempt.
SupervisorDies ==
    /\ sup.up /\ deaths < MaxDeaths /\ deaths' = deaths + 1
    /\ \/ UNCHANGED journal
       \/ \E o \in wire.request : Admissible(o) /\ journal' = [journal EXCEPT ![o].state = "prepared"]
    /\ ProcessEnds
    /\ UNCHANGED <<backend, work, call, hold, failures>>

BackendDies ==
    /\ backend.state \notin {"down", "failed"}
    /\ backend' = [backend EXCEPT !.state = "down"]
    /\ call' = [o \in Operations |->
                   IF call[o].pc \in Calling THEN [call[o] EXCEPT !.pc = "gone"] ELSE call[o]]
    /\ UNCHANGED <<sup, attempt, journal, work, wire, reply, hold, deaths, failures>>

-----------------------------------------------------------------------------
SupervisorStep(o) ==
    \/ Receive(o) \/ CancelMessage(o) \/ StartWork(o) \/ StartFails(o)
    \/ PrepareSettlement(o) \/ ApplySettlement(o) \/ RecordSettlement(o) \/ RetrySettlement(o)
    \/ ConcludeTerminal(o) \/ ConcludeUnpersisted(o)

Lifecycle ==
    \/ AttachInherited \/ LaunchFresh \/ Attach \/ AttachRefused \/ BootBreaks
    \/ ShutdownEnds \/ QuiesceEnds \/ DrainBreaks \/ ExitBackend \/ Detach

Next ==
    \/ StartBackend \/ Shutdown \/ QuiesceProject \/ Lifecycle
    \/ \E o \in Operations : \/ Reserve(o) \/ Send(o) \/ Abort(o) \/ GiveUp(o)
                              \/ Deliver(o) \/ SettleCall(o) \/ Expire(o)
                              \/ SupervisorStep(o) \/ WorkEnds(o)
    \/ SupervisorDies \/ BackendDies

\* A process that runs keeps making its steps.  The user starts a backend that is not there.
\* Work that was cancelled, or is past its deadline, ends, sooner or later.
Fairness ==
    /\ WF_vars(StartBackend) /\ WF_vars(Lifecycle)
    /\ WF_vars(Shutdown /\ backend.state = "replacing")
    /\ \A o \in Operations :
          /\ WF_vars(Send(o)) /\ WF_vars(Deliver(o)) /\ WF_vars(SettleCall(o))
          /\ WF_vars(GiveUp(o)) /\ WF_vars(SupervisorStep(o)) /\ WF_vars(WorkEnds(o))

Spec == Init /\ [][Next]_vars /\ Fairness

-----------------------------------------------------------------------------
(* Properties *)

\* While a backend holds the control lease, no provider work of another backend is running:
\* neither what an inherited supervisor left nor what a dead one did.
OnlyTheOwnerWorks ==
    \A o \in Operations : (sup.leased /\ work[o] = "running") => call[o].by = sup.owner

\* A terminal record is proof: the work has ended, and nothing will start it.
TerminalIsProof ==
    \A o \in Operations : journal[o].state = "terminal" =>
        work[o] # "running" /\ attempt[o].pc = None

\* Nothing works that nobody could answer for: neither for a backend that is gone, nor behind
\* a record that is closed.
OwnershipHolds == OnlyTheOwnerWorks /\ TerminalIsProof

\* The journal and the budget agree: what is recorded as settled is what the reservation was
\* charged, and no operation is closed on a settlement that was reported and not applied.
UsageIsAccountedFor ==
    \A o \in Operations :
        /\ journal[o].settled # None => hold[o] = SettledBy(journal[o].settled)
        /\ journal[o].state = "terminal" => journal[o].settled = journal[o].pending

\* A project is deleted only when nothing works for it, also nothing its runs gave up on.
DeletedProjectIsQuiet ==
    backend.deleted => \A o \in Operations : work[o] # "running" /\ attempt[o].pc = None

Hold == INSTANCE BudgetHold WITH Reservations <- Operations

\* Two processes settle each reservation, each of them possibly again: it is settled once.
SettlesOnce == Hold!Spec

\* As long as its backend lives, every reservation ends: by the settlement of the supervisor,
\* by the backend's own when there is none, or the run is told that it could not be settled.
CallsEnd ==
    \A o \in Operations :
        hold[o] = Held ~> (hold[o] # Held \/ call[o].pc \in {"failed", "gone"})

\* A backend that starts is admitted or refused: nobody waits for somebody who waits for it.
BackendsStart == backend.state \in Booting \cup {"replacing"} ~> backend.state \in {"up", "failed", "down"}
=============================================================================
