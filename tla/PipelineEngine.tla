--------------------------- MODULE PipelineEngine ---------------------------
(*
The pipeline engine as the backend uses it: the route that accepts a run for an
admission, the durable row that makes the admission idempotent, and the
execution behind it (src/server/vendor/pipeline-engine).

One admission key is modelled: the engine has at most one row for it.  Several
requests may carry the key, because the backend repeats a request whose answer
it lost.  A request is in transit until the handler writes the row; the handler
claims the row for the process it runs in, hands it to the background worker and
marks it queued, while the worker goes its own way.

Users of the engine cancel a run, decide at the gate where it pauses and resume
it after it failed: a row that is terminal need not stay so.
*)
EXTENDS Naturals

CONSTANTS
    Calls,              \* requests that may be sent, each at most once
    MaxDisturbances     \* bound on deaths, users' steps and lapses of the lease together

ASSUME EngineAssumption == Calls \subseteq Nat \ {0} /\ MaxDisturbances \in Nat

VARIABLES
    request,    \* where each request is
    listening,  \* the requests whose sender still waits for the answer
    row,        \* the row of remote_agent_workflow_runs
    executor,   \* the executions: the one of each request's claim, and the resumed one
    gate,       \* is a decision on the paused run being written?
    process,    \* KADY_DISPATCH_PROCESS_ID: which process this is
    starts,     \* how often a dispatched execution reached its providers
    users,      \* how often users have interfered with the run
    endings     \* history: the terminal states that the row has been in

engineVars == <<request, listening, row, executor, gate, process, starts, users, endings>>

Resumption == 0
Executions == Calls \cup {Resumption}

RequestStates ==
    {"unsent", "sent",          \* not sent; in transit
     "inserted", "claimed",     \* its handler has found or written the row; has claimed it
     "accepted", "unclaimed",   \* answered: accepted, with or without a durable claim
     "rejected",                \* answered with accepted: false
     "failed",                  \* answered with an error, or its connection was lost
     "over"}                    \* over, and nobody waits for its answer

InEngine == {"sent", "inserted", "claimed"}

TerminalRow == {"completed", "failed", "cancelled"}
NoRow == [status |-> "absent", dispatch |-> "none", by |-> 0, usage |-> "none"]

Rows == [status   : {"absent", "pending", "running", "paused"} \cup TerminalRow,
         dispatch : {"none", "pre_dispatch", "dispatching", "queued", "running", "failed"},
         by       : Nat,
         usage    : {"none", "observed"}]   \* its completion watermark
Endings == [status : TerminalRow, usage : {"none", "observed"}]

EngineTypeOK ==
    /\ request \in [Calls -> RequestStates]
    /\ listening \in SUBSET Calls
    /\ row \in Rows
    /\ executor \in [Executions -> {"none", "waiting", "rebound", "executing"}]
    /\ gate \in BOOLEAN
    /\ process \in Nat \ {0}
    /\ starts \in Nat
    /\ users \in Nat
    /\ endings \in SUBSET Endings

EngineInit ==
    /\ request = [c \in Calls |-> "unsent"]
    /\ listening = {}
    /\ row = NoRow
    /\ executor = [e \in Executions |-> "none"]
    /\ gate = FALSE
    /\ process = 1
    /\ starts = 0
    /\ users = 0
    /\ endings = {}

Proceeds(c, state) == request' = [request EXCEPT ![c] = state] /\ UNCHANGED listening
Answer(c, state) == Proceeds(c, IF c \in listening THEN state ELSE "over")
Executor(e, state) == executor' = [executor EXCEPT ![e] = state]

\* The sender stops waiting: what has only an answer left to give is over.
HangUp(calls) ==
    /\ listening' = listening \ calls
    /\ request' = [c \in Calls |->
                      IF \/ c \notin calls \/ request[c] \in {"unsent", "sent", "inserted"}
                         \/ request[c] = "claimed" /\ row.dispatch = "dispatching"
                      THEN request[c] ELSE "over"]

\* The row is written; a terminal one is remembered with the watermark it has.
Write(r) ==
    /\ row' = r
    /\ endings' = IF r.status \in TerminalRow
                  THEN endings \cup {[status |-> r.status, usage |-> r.usage]} ELSE endings
KeepRow == UNCHANGED <<row, endings>>

\* What a handler that does not dispatch answers: the row's dispatch state as it is.
AnswerFromRow(c) ==
    Answer(c, IF row.dispatch \in {"queued", "running"} THEN "accepted" ELSE "unclaimed")

\* The row is written, or the one of an earlier request is found; a run that is no longer
\* pending is answered at once.
InsertRow(c) ==
    /\ request[c] = "sent"
    /\ \/ /\ row = NoRow
          /\ Write([status |-> "pending", dispatch |-> "pre_dispatch", by |-> 0, usage |-> "none"])
          /\ Proceeds(c, "inserted")
       \/ /\ row.status = "pending"
          /\ Proceeds(c, "inserted")
          /\ KeepRow
       \/ /\ row.status \notin {"absent", "pending"}
          /\ AnswerFromRow(c)
          /\ KeepRow
    /\ UNCHANGED <<executor, gate, process, starts, users>>

\* The request never arrives, is refused (a repeated one too, if the row's run has moved to
\* another directory), or its handler fails before it has claimed the row.
RefuseRequest(c) ==
    /\ \/ request[c] = "sent" /\ Answer(c, "failed")
       \/ request[c] = "sent" /\ Answer(c, "rejected")
       \/ request[c] = "inserted" /\ Answer(c, "failed")
    /\ KeepRow
    /\ UNCHANGED <<executor, gate, process, starts, users>>

\* Mutant: a claim that another process made, or this one, is taken over.
ClaimableAlways == row.status = "pending"

\* A row nobody claimed, or one an earlier process claimed and did not finish.
Claimable ==
    /\ row.status = "pending"
    /\ \/ row.dispatch = "pre_dispatch"
       \/ row.dispatch \in {"dispatching", "queued", "running"} /\ row.by # process

\* A run that was bound to its own working directory no longer has the one the claim asks for.
ClaimDispatch(c) ==
    /\ request[c] = "inserted"
    /\ \/ /\ Claimable
          /\ Write([row EXCEPT !.dispatch = "dispatching", !.by = process])
          /\ Executor(c, "waiting")
          /\ Proceeds(c, "claimed")
       \/ /\ ~Claimable \/ row.dispatch = "running"
          /\ AnswerFromRow(c)
          /\ KeepRow /\ UNCHANGED executor
    /\ UNCHANGED <<gate, process, starts, users>>

\* The handler returns; by now the worker may have moved the row on.
MarkQueued(c) ==
    /\ request[c] = "claimed"
    /\ \/ /\ row.dispatch = "dispatching"
          /\ Write([row EXCEPT !.dispatch = "queued"])
          /\ Answer(c, "accepted")
       \/ /\ row.dispatch # "dispatching"
          /\ Answer(c, IF row.dispatch = "running" \/ row.status \in {"completed", "failed"}
                       THEN "accepted" ELSE "failed")
          /\ KeepRow
    /\ UNCHANGED <<executor, gate, process, starts, users>>

\* The worker's set-up fails before the row is bound to it: a pending row ends with a
\* watermark of zero usage, unless that cannot be written.
SetupFails(c) ==
    /\ executor[c] = "waiting"
    /\ Executor(c, "none")
    /\ \/ /\ row.status = "pending"
          /\ Write([row EXCEPT !.status = "failed", !.dispatch = "failed", !.usage = "observed"])
       \/ KeepRow
    /\ UNCHANGED <<request, listening, gate, process, starts, users>>

\* The worker binds the row to its conversation and its working directory.  A handler that has
\* not marked it queued yet has only its answer left to give.
RebindRun(c) ==
    /\ executor[c] = "waiting"
    /\ Executor(c, "rebound")
    /\ Write([row EXCEPT !.dispatch = "running"])
    /\ Proceeds(c, IF c \in listening THEN request[c] ELSE "over")
    /\ UNCHANGED <<gate, process, starts, users>>

\* The execution fails before it reaches a provider.  A pending row ends, with a watermark only
\* if the error proves that no provider was reached; one whose directory is in use is cancelled;
\* after other failures the row stays as it is, since only a running one can be marked failed.
LaunchFails(c) ==
    /\ executor[c] = "rebound"
    /\ Executor(c, "none")
    /\ \/ /\ row.status = "pending" /\ row.dispatch = "running"
          /\ \E u \in {row.usage, "observed"} :
                 Write([row EXCEPT !.status = "failed", !.dispatch = "failed", !.usage = u])
       \/ Write([row EXCEPT !.status = "cancelled"])
       \/ KeepRow
    /\ UNCHANGED <<request, listening, gate, process, starts, users>>

\* The row is set running whatever it was: a cancellation in the meantime is overwritten.
ExecuteRun(c) ==
    /\ executor[c] = "rebound"
    /\ Executor(c, "executing")
    /\ Write([row EXCEPT !.status = "running"])
    /\ starts' = starts + 1
    /\ UNCHANGED <<request, listening, gate, process, users>>

\* An approval node, or a loop that asks, pauses the run; the execution goes on with what
\* else is in that layer of the graph.
PauseRun(e) ==
    /\ executor[e] = "executing" /\ row.status = "running"
    /\ Write([row EXCEPT !.status = "paused"])
    /\ UNCHANGED <<request, listening, executor, gate, process, starts, users>>

\* The execution is over.  It ends the row only if that is still running, with or without the
\* watermark of every admitted node, and an earlier watermark stays; the write may fail.
EndRun(e) ==
    /\ executor[e] = "executing"
    /\ Executor(e, "none")
    /\ \/ /\ row.status = "running"
          /\ \E s \in {"completed", "failed"}, u \in {row.usage, "observed"} :
                 Write([row EXCEPT !.status = s, !.usage = u])
       \/ KeepRow
    /\ UNCHANGED <<request, listening, gate, process, starts, users>>

-----------------------------------------------------------------------------
(* What users do to a run *)

\* A decision is taken on a paused run ...
DecideGate ==
    /\ row.status = "paused" /\ ~gate
    /\ gate' = TRUE /\ users' = users + 1
    /\ KeepRow
    /\ UNCHANGED <<request, listening, executor, process, starts>>

\* ... and written, whatever the row has become since: a run is made resumable by failing it.
WriteDecision ==
    /\ gate
    /\ gate' = FALSE
    /\ Write([row EXCEPT !.status = "failed"])
    /\ UNCHANGED <<request, listening, executor, process, starts, users>>

\* The row is cancelled at once; an execution notices later, or never.
CancelRun ==
    /\ row.status \notin {"absent", "completed", "cancelled"}
    /\ Write([row EXCEPT !.status = "cancelled"])
    /\ users' = users + 1
    /\ UNCHANGED <<request, listening, executor, gate, process, starts>>

\* A run that failed or waits at a gate, or one whose execution died, is executed again from
\* the nodes it has completed.
ResumeRun ==
    /\ starts > 0 /\ executor[Resumption] = "none"
    /\ \/ row.status \in {"failed", "paused"}
       \/ row.status = "running" /\ \A e \in Executions : executor[e] = "none"
    /\ Write([row EXCEPT !.status = "running"])
    /\ Executor(Resumption, "executing")
    /\ users' = users + 1
    /\ UNCHANGED <<request, listening, gate, process, starts>>

UserStep == DecideGate \/ CancelRun \/ ResumeRun

\* The engine dies and is started again: its handlers and its executions are gone, the row and
\* the requests still in transit are not.
EngineRestart ==
    /\ process' = process + 1
    /\ executor' = [e \in Executions |-> "none"]
    /\ gate' = FALSE
    /\ request' = [c \in Calls |-> IF request[c] \notin {"inserted", "claimed"} THEN request[c]
                                   ELSE IF c \in listening THEN "failed" ELSE "over"]
    /\ KeepRow
    /\ UNCHANGED <<listening, starts, users>>

EngineStep ==
    \/ \E c \in Calls :
        \/ InsertRow(c) \/ RefuseRequest(c) \/ ClaimDispatch(c) \/ MarkQueued(c)
        \/ SetupFails(c) \/ RebindRun(c) \/ LaunchFails(c) \/ ExecuteRun(c)
    \/ \E e \in Executions : PauseRun(e) \/ EndRun(e)
    \/ WriteDecision

-----------------------------------------------------------------------------

\* What the admission query finds: a row is claimed when nobody can be waiting to dispatch it.
Found == row # NoRow
Claimed ==
    \/ row.status \in TerminalRow \cup {"running", "paused"}
    \/ row.status = "pending" /\ row.dispatch \in {"queued", "running"}
NeedsReplay == row.status = "pending" /\ row.dispatch = "pre_dispatch"

\* Nobody is at work on a run that has not ended: it waits at its gate, for its request to be
\* repeated, or it was left where an execution broke off.
Stranded ==
    /\ row.status \in {"pending", "running", "paused"}
    /\ \A c \in Calls : request[c] \notin InEngine
    /\ \A e \in Executions : executor[e] = "none"

\* Whoever repeats a request, cancels or resumes the run and whenever the engine restarts, a
\* dispatch reaches its providers at most once.
WorkStartsOnce == starts <= 1
=============================================================================
