------------------------- MODULE PipelineAdmission -------------------------
(*
The admission of one pipeline run: a budget reservation, a durable record that
tells how far the dispatch got, the requests that may repeat it, and the worker
that reconciles it with the engine (src/server/src/api/pipelines.ts and the
admission records of src/server/src/workflows/budget.ts).

Each hold of the project's admission lock is one step.  Between two of them, and
wherever the code awaits the engine, every other process may act, the backend may
die and the reservation's lease may run out.
*)
EXTENDS PipelineEngine

VARIABLES
    hold,       \* the reservation, as BudgetHold sees it
    owner,      \* the instance named in the reservation's durable intent
    record,     \* the admission record
    proc,       \* the requests' handlers and the worker of this instance
    instance,   \* PIPELINE_ADMISSION_OWNER_INSTANCE_ID
    up          \* is the backend running?

backendVars == <<hold, owner, record, proc, instance, up>>
vars == <<engineVars, backendVars>>

Worker == 0
Procs == Calls \cup {Worker}

\* How a reservation can end: with no usage, with the usage a watermark proves, or with the
\* whole reserved amount: for a run without a watermark, for an admission whose record could
\* not be written, for a lease that ran out.
Settlements == [status : {"completed", "failed", "aborted", "stale"},
                usage  : {"zero", "observed", "full", "unowned", "lease"}]
Zero  == [status |-> "failed", usage |-> "zero"]
Unowned == [status |-> "failed", usage |-> "unowned"]
Stale == [status |-> "stale", usage |-> "lease"]

Untouched == [state |-> "none"]
Held == [state |-> "held"]
SettledBy(s) == [state |-> "settled", by |-> s]

NoIntent == [status |-> "none", usage |-> "zero"]
NoRecord == [status |-> "none", run |-> FALSE, intent |-> NoIntent]
RecordStatus == {"none", "intent", "dispatching", "dispatched", "settling", "settled"}

\* A handler at rest has not been called, or has answered.
Answers == {"-", "not-found", "unclaimed", "replay", "claimed", "unknown"}
AtRest(pc) == [pc |-> pc, seen |-> "none", answer |-> "-", intent |-> NoIntent]

Holds == {Untouched, Held} \cup {SettledBy(s) : s \in Settlements}
Records == [status : RecordStatus, run : BOOLEAN, intent : Settlements \cup {NoIntent}]
Points == {"idle", "reserve", "persist", "unowned", "recheck", "sent", "doubt", "confirm",
           "lookup", "query", "getrun", "reconcile", "begin", "complete", "finish", "done"}
Processes == [pc : Points, seen : RecordStatus, answer : Answers,
              intent : Settlements \cup {NoIntent}]

TypeOK ==
    /\ EngineTypeOK
    /\ hold \in Holds
    /\ owner \in Nat
    /\ record \in Records
    /\ proc \in [Procs -> Processes]
    /\ instance \in Nat
    /\ up \in BOOLEAN

Init ==
    /\ EngineInit
    /\ hold = Untouched
    /\ owner = 0
    /\ record = NoRecord
    /\ proc = [p \in Procs |-> AtRest("idle")]
    /\ instance = 1
    /\ up = TRUE

-----------------------------------------------------------------------------
(* Helpers *)

\* Where a handler is when it has nothing left to do.
End(p) == AtRest(IF p = Worker THEN "idle" ELSE "done")
At(p, pc) == up /\ proc[p].pc = pc

\* Requests are numbered in the order in which they arrive.
Arrives(c) == At(c, "idle") /\ \A d \in Calls : d < c => proc[d].pc # "idle"

Continue(p, state) == proc' = [proc EXCEPT ![p] = state]
Go(p, pc) == Continue(p, AtRest(pc))
Leave(p) == Continue(p, End(p))
Ask(p, pc, seen) == Continue(p, [AtRest(pc) EXCEPT !.seen = seen])
SettleWith(p, s) == Continue(p, [AtRest("begin") EXCEPT !.intent = s])
ReconcileWith(p, s) == Continue(p, [AtRest("reconcile") EXCEPT !.intent = s])

\* updatePipelineAdmission: only these transitions are written, any other one throws.
MayBecome(status) ==
    \/ record.status = status
    \/ record.status = "intent" /\ status = "dispatching"
    \/ record.status = "dispatching" /\ status = "dispatched"
    \/ record.status = "settling" /\ status = "settled"

\* A claimed engine run is recorded; a record that has moved on refuses it.
Dispatched ==
    record' = IF MayBecome("dispatched") THEN [record EXCEPT !.status = "dispatched", !.run = TRUE]
              ELSE record

-----------------------------------------------------------------------------
(* POST /pipelines/:name/run, from the lookup of the admission on *)

\* The branches on an existing record.
FindAdmission(c) ==
    /\ Arrives(c)
    /\ CASE record.status = "none" -> Go(c, "reserve")
         [] record.status = "settling" -> Go(c, "complete")
         [] record.status = "settled" -> Leave(c)
         [] record.status \in {"dispatching", "dispatched"} ->
                Ask(c, "lookup", record.status)
         [] record.status = "intent" ->
                \/ owner = instance /\ Leave(c)
                \/ owner # instance /\ SettleWith(c, Zero)      \* the revision has changed
                \/ owner # instance /\ Go(c, "recheck")
    /\ UNCHANGED <<engineVars, hold, owner, record, instance, up>>

\* The reservation carries the admission's intent; an identity already used is refused,
\* and so is one that does not fit the limit.
ReserveNodeBudgets(c) ==
    /\ At(c, "reserve")
    /\ \/ /\ hold = Untouched
          /\ hold' = Held
          /\ owner' = instance
          /\ Go(c, "persist")
       \/ Leave(c) /\ UNCHANGED <<hold, owner>>
    /\ UNCHANGED <<engineVars, record, instance, up>>

PersistAdmission(c) ==
    /\ At(c, "persist")
    /\ \/ record = NoRecord /\ hold = Held
          /\ record' = [NoRecord EXCEPT !.status = "intent"]
          /\ Go(c, "recheck")
       \/ record # NoRecord /\ Go(c, "recheck") /\ UNCHANGED record
       \/ Go(c, "unowned") /\ UNCHANGED record      \* the write failed
    /\ UNCHANGED <<engineVars, hold, owner, instance, up>>

\* Ownership could not be persisted: the reservation is charged in full.
SettleUnowned(c) ==
    /\ At(c, "unowned")
    /\ hold' = IF hold = Held THEN SettledBy(Unowned) ELSE hold
    /\ Leave(c)
    /\ UNCHANGED <<engineVars, owner, record, instance, up>>

\* The definition is read again; then the dispatch is written down and the request leaves.
\* Whatever fails here releases the reservation, since nothing was sent.
Dispatch(c) ==
    /\ At(c, "recheck")
    /\ \/ SettleWith(c, Zero) /\ UNCHANGED <<record, request, listening>>
       \/ /\ MayBecome("dispatching")
          /\ record' = [record EXCEPT !.status = "dispatching"]
          /\ request' = [request EXCEPT ![c] = "sent"] /\ listening' = listening \cup {c}
          /\ Go(c, "sent")
    /\ UNCHANGED <<row, executor, gate, process, starts, users, endings>>
    /\ UNCHANGED <<hold, owner, instance, up>>

\* The engine's answer, or the loss of it at any moment.  An invocation that the engine says
\* it did not accept is released.
ReceiveAnswer(c) ==
    /\ At(c, "sent")
    /\ \/ /\ request[c] = "accepted"
          /\ Dispatched
          /\ Leave(c)
       \/ request[c] = "unclaimed" /\ Go(c, "confirm") /\ UNCHANGED record
       \/ request[c] = "rejected" /\ SettleWith(c, Zero) /\ UNCHANGED record
       \/ Go(c, "doubt") /\ UNCHANGED record
    /\ HangUp({c})
    /\ UNCHANGED <<row, executor, gate, process, starts, users, endings>>
    /\ UNCHANGED <<hold, owner, instance, up>>

\* Mutant: no row is taken for a claimed one.
QueryFindsNoClaim == IF Found THEN "unclaimed" ELSE "not-found"

\* GET /api/workflows/runs?projectId&admissionId, read in the engine's database.
QueryAnswers ==
    CASE ~Found -> "not-found"
      [] Claimed -> "claimed"
      [] NeedsReplay -> "replay"
      [] OTHER -> "unclaimed"

\* Only a record that was found dispatching is released for the lack of a run.
MayRelease(p) == IF proc[p].seen = "dispatching" THEN {"not-found"} ELSE {}

\* The answers on which a handler, or the worker, goes on; after any other one, or none, the
\* request ends in 503 and the pass goes to the next admission, with the reservation retained.
ActsOn(p) ==
    CASE proc[p].pc = "doubt" -> {"claimed", "not-found"}
      [] proc[p].pc = "confirm" -> {"claimed"}
      [] proc[p].pc = "lookup" -> {"claimed", "replay"} \cup MayRelease(p)
      [] proc[p].pc = "query" -> {"claimed"} \cup MayRelease(p)

\* The query of the handler or of the worker is answered; the answer is acted on later.
Asking(p) == /\ up /\ proc[p].pc \in {"doubt", "confirm", "lookup", "query"}
             /\ proc[p].answer = "-"
EngineAnswers(p) ==
    /\ Asking(p)
    /\ IF QueryAnswers \in ActsOn(p) THEN proc' = [proc EXCEPT ![p].answer = QueryAnswers]
       ELSE Leave(p)
    /\ UNCHANGED <<engineVars, hold, owner, record, instance, up>>
EngineUnreachable(p) ==
    /\ Asking(p) \/ At(p, "getrun")
    /\ Leave(p)
    /\ UNCHANGED <<engineVars, hold, owner, record, instance, up>>

Answered(p, pcs, answer) == up /\ proc[p].pc \in pcs /\ proc[p].answer = answer

\* A claimed run is the run of this admission.
Adopt(c) ==
    /\ Answered(c, {"doubt", "confirm", "lookup"}, "claimed")
    /\ Dispatched
    /\ Leave(c)
    /\ UNCHANGED <<engineVars, hold, owner, instance, up>>

\* A row nobody claimed is dispatched again with the same key.
Replay(c) ==
    /\ Answered(c, {"lookup"}, "replay")
    /\ Go(c, "recheck")
    /\ UNCHANGED <<engineVars, hold, owner, record, instance, up>>

\* A run the engine does not have releases the reservation.
Release(p) ==
    /\ Answered(p, {"doubt", "lookup", "query"}, "not-found")
    /\ SettleWith(p, Zero)
    /\ UNCHANGED <<engineVars, hold, owner, record, instance, up>>

-----------------------------------------------------------------------------
(* Settlement: an intent is written, applied to the reservation, and marked applied *)

\* Another intent that is already written is kept, and this one is refused.
BeginSettlement(p) ==
    /\ At(p, "begin")
    /\ CASE record.status = "settled" -> Leave(p) /\ UNCHANGED record
         [] record.status = "settling" ->
                /\ IF record.intent = proc[p].intent THEN Go(p, "complete") ELSE Leave(p)
                /\ UNCHANGED record
         [] record.status = "none" -> Leave(p) /\ UNCHANGED record
         [] OTHER ->
                /\ record' = [record EXCEPT !.status = "settling", !.intent = proc[p].intent]
                /\ Go(p, "complete")
    /\ UNCHANGED <<engineVars, hold, owner, instance, up>>

\* Mutant: the record is marked settled although the reservation refused the settlement.
SettleHoldIgnoresConflict(p) ==
    /\ At(p, "complete")
    /\ hold' = IF hold = Held THEN SettledBy(record.intent) ELSE hold
    /\ IF record.status = "settling" THEN Go(p, "finish") ELSE Leave(p)
    /\ UNCHANGED <<engineVars, owner, record, instance, up>>

\* The reservation answers a repeated settlement and refuses a different one.
SettleHold(p) ==
    /\ At(p, "complete")
    /\ LET settled == SettledBy(record.intent)
       IN  IF record.status = "settling" /\ hold \in {Held, settled}
           THEN hold' = settled /\ Go(p, "finish")
           ELSE Leave(p) /\ UNCHANGED hold
    /\ UNCHANGED <<engineVars, owner, record, instance, up>>

FinishSettlement(p) ==
    /\ At(p, "finish")
    /\ record' = IF MayBecome("settled") THEN [record EXCEPT !.status = "settled"] ELSE record
    /\ Leave(p)
    /\ UNCHANGED <<engineVars, hold, owner, instance, up>>

-----------------------------------------------------------------------------
(* PipelineReconciliationWorker.runOnce, one admission *)

\* A reservation without a record gets the one its intent describes; then the record is
\* read once and acted on.
StartPass ==
    /\ At(Worker, "idle")
    /\ hold # Untouched
    /\ LET found == IF record # NoRecord THEN record
                    ELSE [NoRecord EXCEPT !.status = IF hold = Held THEN "intent" ELSE "settled"]
       IN  /\ record' = found
           /\ CASE found.status = "settling" -> Go(Worker, "complete")
                [] found.status = "intent" /\ owner # instance -> SettleWith(Worker, Zero)
                [] found.status \in {"dispatching", "dispatched"} ->
                       IF found.run THEN Go(Worker, "getrun") ELSE Ask(Worker, "query", found.status)
                [] OTHER -> UNCHANGED proc
    /\ UNCHANGED <<engineVars, hold, owner, instance, up>>

\* A claimed run is recorded and asked for; a record that has moved on ends the pass.
WorkerAdopts ==
    /\ Answered(Worker, {"query"}, "claimed")
    /\ Dispatched
    /\ IF MayBecome("dispatched") THEN Go(Worker, "getrun") ELSE Leave(Worker)
    /\ UNCHANGED <<engineVars, hold, owner, instance, up>>

\* What a terminal run is settled with: its watermark, or the whole reserved amount.
Evidence(ending) ==
    [status |-> CASE ending.status = "completed" -> "completed"
                  [] ending.status = "cancelled" -> "aborted"
                  [] OTHER -> "failed",
     usage  |-> IF ending.usage = "observed" THEN "observed" ELSE "full"]

\* Mutant: a run that is still going is settled too.
ReadRunAnyStatus(p) ==
    /\ At(p, "getrun")
    /\ ReconcileWith(p, Evidence(row))
    /\ UNCHANGED <<engineVars, hold, owner, record, instance, up>>

\* The snapshot of the run is read in the engine; only a terminal one is settled.
ReadRun(p) ==
    /\ At(p, "getrun")
    /\ IF row.status \in TerminalRow
       THEN ReconcileWith(p, Evidence(row))
       ELSE Leave(p)
    /\ UNCHANGED <<engineVars, hold, owner, record, instance, up>>

\* POST /pipelines/runs/:runId/reconcile-cost: any client may ask for it.
ReconcileCost(c) ==
    /\ Arrives(c)
    /\ row.status \in TerminalRow
    /\ ReconcileWith(c, Evidence(row))
    /\ UNCHANGED <<engineVars, hold, owner, record, instance, up>>

\* Without a watermark a client's reconciliation retains the reservation; the worker's does not.
ReconcileSnapshot(p) ==
    /\ At(p, "reconcile")
    /\ record' = IF record.status \in {"intent", "dispatching", "dispatched"}
                 THEN [record EXCEPT !.status = "dispatched", !.run = TRUE] ELSE record
    /\ IF p # Worker /\ proc[p].intent.usage = "full" THEN Leave(p)
       ELSE SettleWith(p, proc[p].intent)
    /\ UNCHANGED <<engineVars, hold, owner, instance, up>>

-----------------------------------------------------------------------------
(* The backend's deaths, and the lease *)

\* What nobody has to do, and what the bound counts.
Disturbances ==
    (instance - 1) + (process - 1) + (IF up THEN 0 ELSE 1) + users
    + (IF hold = SettledBy(Stale) THEN 1 ELSE 0)
Disturb == Disturbances < MaxDisturbances

\* Handlers and worker are gone; the requests they sent are not.
BackendStops ==
    /\ up /\ Disturb
    /\ up' = FALSE
    /\ proc' = [p \in Procs |-> IF p = Worker \/ proc[p].pc = "idle" THEN AtRest("idle")
                                ELSE AtRest("done")]
    /\ HangUp(listening)
    /\ UNCHANGED <<row, executor, gate, process, starts, users, endings>>
    /\ UNCHANGED <<hold, owner, record, instance>>

BackendStarts ==
    /\ ~up
    /\ up' = TRUE
    /\ instance' = instance + 1
    /\ UNCHANGED <<engineVars, hold, owner, record, proc>>

\* Only a pass that gets as far as the run renews the lease.  After a backend that was away, or
\* an engine that answered none of the passes for as long, the next admission reconciles the
\* reservation at its maximum.
LeaseRunsOut ==
    /\ hold = Held /\ Disturb
    /\ hold' = SettledBy(Stale)
    /\ UNCHANGED <<engineVars, owner, record, proc, instance, up>>

HandlerStep(c) ==
    \/ ReserveNodeBudgets(c) \/ PersistAdmission(c) \/ SettleUnowned(c)
    \/ Dispatch(c) \/ ReceiveAnswer(c) \/ Adopt(c) \/ Replay(c)

SharedStep(p) ==
    \/ EngineAnswers(p) \/ EngineUnreachable(p) \/ Release(p)
    \/ BeginSettlement(p) \/ SettleHold(p) \/ FinishSettlement(p)
    \/ ReadRun(p) \/ ReconcileSnapshot(p)

WorkerStep == StartPass \/ WorkerAdopts

BackendStep ==
    \/ \E c \in Calls : FindAdmission(c) \/ ReconcileCost(c) \/ HandlerStep(c)
    \/ \E p \in Procs : SharedStep(p)
    \/ WorkerStep
    \/ BackendStops \/ BackendStarts \/ LeaseRunsOut

Next ==
    \/ BackendStep
    \/ (EngineStep \/ ((UserStep \/ EngineRestart) /\ Disturb)) /\ UNCHANGED backendVars

\* The backend is started again, its timer fires, handlers go on where an await returned;
\* the engine does the same and can be reached again and again.  Nobody has to send a
\* request, to cancel or resume a run, and nothing has to die.
Fairness ==
    /\ WF_vars(BackendStarts \/ WorkerStep \/ SharedStep(Worker))
    /\ SF_vars(EngineAnswers(Worker) \/ ReadRun(Worker))
    /\ WF_vars(\E c \in Calls : HandlerStep(c) \/ SharedStep(c))
    /\ WF_vars(UNCHANGED backendVars /\ EngineStep)

Spec == Init /\ [][Next]_vars /\ Fairness

-----------------------------------------------------------------------------
(* Properties *)

EverSent == \E c \in Calls : request[c] # "unsent"

\* A request leaves only when the record already says so: after a death, an admission
\* found at its intent was never dispatched and may be released without asking anybody.
DispatchIsWrittenAhead == EverSent => record.status \notin {"none", "intent"}

\* The engine starts the work of an admission at most once, and never for a request that the
\* record does not know of.
DispatchIsSafe == WorkStartsOnce /\ DispatchIsWrittenAhead

\* Record and reservation tell the same story: a record is marked settled only with the
\* settlement the reservation really has, and what a settlement the record did not write
\* ended is the lease's or the owner's that could not persist it.
SettlementsAgree ==
    /\ (record.status = "settled" /\ record.intent # NoIntent) => hold = SettledBy(record.intent)
    /\ hold.state = "settled" =>
           \/ record.status \in {"settling", "settled"} /\ hold.by = record.intent
           \/ hold.by \in {Unowned, Stale}

\* What a run is charged, by its usage or in full for the lack of a watermark, is an ending it
\* really had: at one moment the row was terminal with just that status and that watermark.
\* It need not be its last, since a run is cancelled, failed and resumed after it was read.
ChargedRunsHaveEnded ==
    (hold.state = "settled" /\ hold.by.usage \in {"observed", "full"}) =>
        \E ending \in endings : hold.by = Evidence(ending)

\* The requests of an admission, its reconciliation and its lease settle the same reservation,
\* each of them possibly again: it is held once and settled once.
Reservation ==
    INSTANCE BudgetHold WITH Reservations <- {"admission"}, hold <- [r \in {"admission"} |-> hold]
AdmissionSettlesOnce == Reservation!Spec

\* The record of every reservation is settled in the end without any client asking for it,
\* unless the engine restarts or leaves a run that nobody works on, or the reservation was
\* charged by its lease or by an owner that could not write the record.
AdmissionSettles ==
    hold = Held ~> (record.status = "settled" \/ hold \in {SettledBy(Stale), SettledBy(Unowned)}
                    \/ process > 1 \/ Stranded)

\* The engine has accepted the work: a claim is durable, or was.
Accepted == Claimed \/ row.dispatch = "dispatching"

\* pipelines.ts:1139-1140: "The already-fsynced `dispatching` mapping proves uncertainty. Never
\* release its reservation after the engine has accepted work."
NeverReleasesAcceptedWork ==
    [][(hold = Held /\ hold' = SettledBy(Zero)) => ~Accepted]_vars
=============================================================================
