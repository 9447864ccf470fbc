----------------------------- MODULE DagRunner ------------------------------
(***************************************************************************)
(* runWorkflowDag: one owner executes the graph of one run, dies or is     *)
(* stopped at any point, and a later owner continues from the event log.   *)
(*                                                                         *)
(* Durable state is what the reducer folds from the log (log, status).     *)
(* The rest is the memory of the owning process.  JavaScript runs one      *)
(* thread: what a lifecycle or the main loop does between two awaits is a  *)
(* sequence of appends that nothing but the death of the process cuts      *)
(* short, so a step is one append and Free says that no sequence is under  *)
(* way.  The owner's lease and its loss are the subject of WorkflowRun.    *)
(***************************************************************************)
EXTENDS Integers, FiniteSets

CONSTANTS
    Nodes,          \* node numbers, in the order of graph.nodes
    Entry,          \* graph.entryNodeId
    Edges,          \* records [from, to, condition]
    Terminals,      \* nodes marked terminal
    Gates,          \* nodes of kind evidence-gate
    Checked,        \* other nodes with an enabled evidence policy
    Proofs,         \* lean4 nodes without one
    OnUnsupported,  \* OnUnsupported[n]: "route", "rescue" or "fail", by n's gate or policy
    MaxParallelism, \* graph.limits.maxParallelism
    RescueLimit,    \* RescueLimit[n]: least of maxAttempts, maxRetries of graph and node
    MaxInterrupts   \* bound: deaths and stops of the owner

VARIABLES
    log,            \* log[n][a]: what the log says of attempt a of node n
    status,         \* status of the run
    loop,           \* where the main loop is
    task,           \* task[n]: the lifecycle of node n, if active
    outcomes,       \* outcomes[n]: the settled outcome of node n, or NoOutcome
    first,          \* first[n]: the edge of the first activation of n, or NoEdge
    propagated,     \* nodes whose outcome has activated its routes
    abort,          \* what the abort signal says: "no", "interrupt", "cancel", "error"
    failure,        \* why the main loop fails the run, or "none"
    stopped,        \* whether the log has a run_interrupted of the runner
    interrupts      \* deaths and stops so far

memory == <<outcomes, first, propagated>>
ending == <<abort, failure, stopped, interrupts>>
vars   == <<log, status, loop, task, memory, ending>>

(* One more than any node may have. *)
Attempts   == 1..(2 + CHOOSE m \in {RescueLimit[n] : n \in Nodes} :
                        \A n \in Nodes : RescueLimit[n] <= m)
Conditions == {"success", "failure", "evidence-supported", "evidence-unsupported"}
Ended      == {"succeeded", "failed", "cancelled"}

(* The nodes whose result is judged before it counts: gate_evaluated of a   *)
(* gate, evidence_checked of the others; a proof only if it failed.         *)
Judged     == Gates \cup Checked \cup Proofs

ASSUME DagRunnerAssumption ==
    /\ Nodes \subseteq Nat \ {0} /\ IsFiniteSet(Nodes) /\ Entry \in Nodes
    /\ Terminals \subseteq Nodes /\ Judged \subseteq Nodes
    /\ Gates \cap Checked = {} /\ Proofs \cap (Gates \cup Checked) = {}
    /\ Edges \subseteq [from : Nodes, to : Nodes, condition : Conditions \cup {"always"}]
    /\ \A e \in Edges : e.to # Entry /\ e.from \notin Terminals
    /\ \E rank \in [Nodes -> 1..Cardinality(Nodes)] :  \* validateAcyclic
         \A e \in Edges : rank[e.from] < rank[e.to]
    /\ OnUnsupported \in [Gates \cup Checked -> {"route", "rescue", "fail"}]
    /\ MaxParallelism \in Nat \ {0}
    /\ RescueLimit \in [Nodes -> Nat]
    /\ MaxInterrupts \in Nat

-----------------------------------------------------------------------------
(* The log. *)

(* branchId: the edge that activated a node, or entry. *)
NoEdge    == [from |-> 0, to |-> 0, condition |-> "none"]
EntryEdge == [from |-> 0, to |-> Entry, condition |-> "entry"]

NoAttempt == [status |-> "none", via |-> NoEdge, condition |-> "none", retryable |-> FALSE,
              rescue |-> "none", decision |-> "none"]

Attempt == [status : {"none", "running", "interrupted", "succeeded", "failed"},
            via : Edges \cup {EntryEdge, NoEdge}, condition : Conditions \cup {"none"},
            retryable : BOOLEAN, rescue : {"none", "started", "finished"},
            decision : {"none", "supported", "unsupported"}]

(* interruptRunningExecutions *)
Interrupted(entries) ==
    [n \in Nodes |-> [a \in Attempts |->
        IF entries[n][a].status = "running"
          THEN [entries[n][a] EXCEPT !.status = "interrupted"] ELSE entries[n][a]]]

(* The reducer's rules for the events of a node, as guards of an append. *)
AcceptsNodeStarted(n, a, via) ==
    \/ log[n][a].status = "interrupted" /\ log[n][a].via = via
    \/ /\ log[n][a].status = "none"
       /\ a > 1 => log[n][a].rescue = "started" /\ log[n][a].via = via

AcceptsRescueStarted(n, a) ==
    /\ a > 1
    /\ log[n][a].rescue = "none" /\ log[n][a].status = "none"
    /\ log[n][a - 1].status = "failed"

MayRoute(n) == n \in Gates \cup Checked /\ OnUnsupported[n] = "route"

AcceptsNodeSucceeded(n, a, c) ==
    /\ log[n][a].status = "running"
    /\ n \in Gates \cup Checked =>
         \/ /\ log[n][a].decision = "supported"
            /\ c = IF n \in Gates \/ MayRoute(n) THEN "evidence-supported" ELSE "success"
         \/ /\ log[n][a].decision = "unsupported" /\ c = "evidence-unsupported"
            /\ MayRoute(n)
    /\ n \in Proofs => log[n][a].decision = "none"

(* unsupported: the error has the code of unsupported evidence, or of a proof *)
(* that failed.  Only the decision that was recorded can be failed with.      *)
AcceptsNodeFailed(n, a, unsupported) ==
    /\ log[n][a].status = "running"
    /\ n \in Judged =>
         \/ log[n][a].decision = "none" /\ (unsupported => n \in Proofs)
         \/ log[n][a].decision = "unsupported" /\ unsupported /\ ~MayRoute(n)

AcceptsRescueFinished(n, a) ==
    log[n][a].rescue = "started" /\ log[n][a].status \in {"succeeded", "failed"}

AcceptsRunSucceeded ==
    /\ \E n \in Nodes, a \in Attempts : log[n][a].status = "succeeded"
    /\ \A n \in Nodes, a \in Attempts : log[n][a].status \notin {"running", "interrupted"}

Record(n, a, entry) == log' = [log EXCEPT ![n][a] = entry]

-----------------------------------------------------------------------------
(* Outcomes and routes. *)

NoOutcome == [status |-> "none", attempt |-> 0, condition |-> "none", retryable |-> FALSE,
              via |-> NoEdge]

Outcome(n, a) == [status |-> log[n][a].status, attempt |-> a, condition |-> log[n][a].condition,
                  retryable |-> log[n][a].retryable, via |-> log[n][a].via]

(* Mutant: the last attempt that ended, as if interrupted ones had not begun. *)
LastAttemptEnded(n) == {a \in Attempts : /\ log[n][a].status \in {"succeeded", "failed"}
                                         /\ \A b \in Attempts : b > a => log[n][b].status = "none"}

(* outcomesFromHistory: the last attempt that ended or was interrupted. *)
LastAttempt(n) == {a \in Attempts : /\ log[n][a].status \in {"succeeded", "failed", "interrupted"}
                                    /\ \A b \in Attempts : b > a => log[n][b].status = "none"}

OutcomeFromHistory(n) ==
    IF LastAttempt(n) = {} THEN NoOutcome ELSE Outcome(n, CHOOSE a \in LastAttempt(n) : TRUE)

(* Mutant: counts the rescues that are left wrongly. *)
CanRescueOnceMore(n, outcome) ==
    outcome.status = "failed" /\ outcome.retryable /\ outcome.attempt - 1 <= RescueLimit[n]

CanRescue(n, outcome) ==
    outcome.status = "failed" /\ outcome.retryable /\ outcome.attempt - 1 < RescueLimit[n]

(* selectRoutes *)
SelectRoutes(n, condition) ==
    LET outgoing == {e \in Edges : e.from = n}
        always   == {e \in outgoing : e.condition = "always"}
    IN  IF always # {} THEN always ELSE {e \in outgoing : e.condition = condition}

Final(n) ==
    /\ outcomes[n].status \in {"succeeded", "failed"}
    /\ ~CanRescue(n, outcomes[n])

-----------------------------------------------------------------------------
(* The tasks: executeNodeLifecycle. *)

NoTask == [phase |-> "idle", attempt |-> 0, rescue |-> FALSE, via |-> NoEdge]

Phases == {"idle", "rescuing", "starting", "executing", "decided", "succeeding",
           "unsupported", "failing", "finishing", "completed", "cancelled", "rejected"}

Settled(n) == task[n].phase \in {"completed", "cancelled", "rejected"}
Active     == {n \in Nodes : task[n].phase # "idle"}
Free       == \A n \in Nodes : task[n].phase \in {"idle", "executing"} \/ Settled(n)

Init ==
    /\ log = [n \in Nodes |-> [a \in Attempts |-> NoAttempt]]
    /\ status = "running"
    /\ loop = "propagate"
    /\ task = [n \in Nodes |-> NoTask]
    /\ outcomes = [n \in Nodes |-> NoOutcome]
    /\ first = [n \in Nodes |-> IF n = Entry THEN EntryEdge ELSE NoEdge]
    /\ propagated = {}
    /\ abort = "no"
    /\ failure = "none"
    /\ stopped = FALSE
    /\ interrupts = 0

Goto(n, phase) == task' = [task EXCEPT ![n].phase = phase]

(* An append of the lifecycle; one that the reducer refuses rejects it.    *)
Append(n, accepted, entry, then) ==
    IF accepted THEN Record(n, task[n].attempt, entry) /\ then
                ELSE Goto(n, "rejected") /\ UNCHANGED log

(* Mutant: an attempt begun again takes the first activation of this life. *)
NewTaskReactivated(n) ==
    LET o == outcomes[n]
    IN  [phase   |-> IF o.status = "failed" THEN "rescuing" ELSE "starting",
         attempt |-> IF o.status = "none" THEN 1
                     ELSE IF o.status = "failed" THEN o.attempt + 1 ELSE o.attempt,
         rescue  |-> o.status = "failed" \/ o.attempt > 1,
         via     |-> first[n]]

(* What a task begins with: the first attempt, the interrupted one again,  *)
(* or the attempt after a failed one.                                      *)
NewTask(n) ==
    LET o == outcomes[n]
        attempt == CASE o.status = "failed" -> o.attempt + 1
                     [] o.status = "interrupted" -> o.attempt
                     [] OTHER -> 1
    IN  [phase   |-> IF o.status = "failed" THEN "rescuing" ELSE "starting",
         attempt |-> attempt,
         rescue  |-> o.status = "failed" \/ attempt > 1,
         via     |-> IF o.status = "none" THEN first[n] ELSE o.via]

(* rescue_started; an equal event of an earlier life is answered from the log. *)
StartRescue(n) ==
    LET a == task[n].attempt
        recorded == log[n][a].rescue # "none" /\ log[n][a].via = task[n].via
    IN  /\ task[n].phase = "rescuing"
        /\ \/ recorded /\ Goto(n, "starting") /\ UNCHANGED log
           \/ /\ ~recorded
              /\ Append(n, AcceptsRescueStarted(n, a),
                        [log[n][a] EXCEPT !.rescue = "started", !.via = task[n].via],
                        Goto(n, "starting"))
        /\ UNCHANGED <<status, loop, memory, ending>>

(* node_started, a new occurrence for every start; then the executor is called. *)
StartNode(n) ==
    LET a == task[n].attempt IN
    /\ task[n].phase = "starting"
    /\ Append(n, AcceptsNodeStarted(n, a, task[n].via),
              [log[n][a] EXCEPT !.status = "running", !.via = task[n].via],
              Goto(n, "executing"))
    /\ UNCHANGED <<status, loop, memory, ending>>

(* The executor of a node that is not judged resolves, or proves; or any    *)
(* executor rejects, that of a proof perhaps by a code of the verifier.     *)
(* What it does after an abort is dropped.                                  *)
ExecutorSettles(n) ==
    /\ task[n].phase = "executing"
    /\ Free /\ loop \in {"waiting", "draining"}
    /\ \/ abort # "no" /\ Goto(n, "cancelled")
       \/ abort = "no" /\ n \notin Gates \cup Checked /\ Goto(n, "succeeding")
       \/ abort = "no" /\ n \in Proofs /\ Goto(n, "unsupported")
       \/ abort = "no" /\ Goto(n, "failing")
    /\ UNCHANGED <<log, status, loop, memory, ending>>

(* The executor of a judged node resolves: gate_evaluated, evidence_checked. *)
(* Neither id has an occurrence.  A decision that the log already holds is   *)
(* answered from there if it is the same to the last word; another one is    *)
(* refused, and the refusal is caught as a failure.                          *)
Judge(n, d) ==
    LET a == task[n].attempt IN
    /\ task[n].phase = "executing" /\ n \in Judged
    /\ n \in Proofs => d = "unsupported"
    /\ Free /\ loop = "waiting" /\ abort = "no"
    /\ \/ /\ log[n][a].decision = "none"
          /\ Record(n, a, [log[n][a] EXCEPT !.decision = d])
          /\ Goto(n, "decided")
       \/ log[n][a].decision = d /\ Goto(n, "decided") /\ UNCHANGED log
       \/ log[n][a].decision # "none" /\ Goto(n, "failing") /\ UNCHANGED log
    /\ UNCHANGED <<status, loop, memory, ending>>

(* After the decision: the route, or EVIDENCE_UNSUPPORTED, or a proof's code. *)
FollowDecision(n) ==
    /\ task[n].phase = "decided"
    /\ IF log[n][task[n].attempt].decision = "unsupported" /\ ~MayRoute(n)
         THEN Goto(n, "unsupported") ELSE Goto(n, "succeeding")
    /\ UNCHANGED <<log, status, loop, memory, ending>>

(* The attempt is over: the lifecycle returns, or goes on to the next one. *)
NextAttempt(n) ==
    task' = [task EXCEPT ![n].phase = "rescuing", ![n].attempt = @ + 1,
                         ![n].rescue = TRUE]

EndAttempt(n, entry) ==
    IF CanRescue(n, [status |-> entry.status, retryable |-> entry.retryable,
                     attempt |-> task[n].attempt])
      THEN NextAttempt(n) ELSE Goto(n, "completed")

AfterResult(n, entry) ==
    IF task[n].rescue THEN Goto(n, "finishing") ELSE EndAttempt(n, entry)

(* node_succeeded; a refused append is caught as a failure. *)
RouteCondition(n, a) ==
    CASE n \notin Gates /\ ~MayRoute(n) -> "success"
      [] log[n][a].decision = "unsupported" -> "evidence-unsupported"
      [] OTHER -> "evidence-supported"

NodeSucceeds(n) ==
    LET a     == task[n].attempt
        entry == [log[n][a] EXCEPT !.status = "succeeded", !.condition = RouteCondition(n, a)]
    IN  /\ task[n].phase = "succeeding"
        /\ IF AcceptsNodeSucceeded(n, a, RouteCondition(n, a))
             THEN Record(n, a, entry) /\ AfterResult(n, entry)
             ELSE Goto(n, "failing") /\ UNCHANGED log
        /\ UNCHANGED <<status, loop, memory, ending>>

(* node_failed; whether an error is retryable and triggers the policy is    *)
(* the executor's choice; that unsupported evidence may, its node's.        *)
NodeFails(n, retryable) ==
    LET a     == task[n].attempt
        entry == [log[n][a] EXCEPT !.status = "failed", !.condition = "failure",
                                   !.retryable = retryable]
        unsupported == task[n].phase = "unsupported"
    IN  /\ task[n].phase \in {"failing", "unsupported"}
        /\ unsupported /\ retryable /\ n \notin Proofs => OnUnsupported[n] = "rescue"
        /\ Append(n, AcceptsNodeFailed(n, a, unsupported), entry, AfterResult(n, entry))
        /\ UNCHANGED <<status, loop, memory, ending>>

(* rescue_finished *)
FinishRescue(n) ==
    LET a == task[n].attempt IN
    /\ task[n].phase = "finishing"
    /\ Append(n, AcceptsRescueFinished(n, a), [log[n][a] EXCEPT !.rescue = "finished"],
              EndAttempt(n, log[n][a]))
    /\ UNCHANGED <<status, loop, memory, ending>>

-----------------------------------------------------------------------------
(* The main loop: runWorkflowDag. *)

(* An aborted signal stops the loop at its top. *)
NoticeAbort ==
    /\ loop = "propagate" /\ abort # "no"
    /\ loop' = "draining"
    /\ UNCHANGED <<log, status, task, memory, ending>>

(* Fail the run when what is active has stopped. *)
GiveUp(code) ==
    /\ failure' = code
    /\ abort' = "error"
    /\ loop' = "draining"

(* Mutant: a failed node activates nothing. *)
PropagatesSuccess(n) ==
    first[n] # NoEdge /\ n \notin propagated /\ outcomes[n].status = "succeeded"

(* propagateCompletedNodes, for one of the nodes it visits. *)
Propagates(n) == first[n] # NoEdge /\ n \notin propagated /\ Final(n)

Propagate(n) ==
    LET routes == SelectRoutes(n, outcomes[n].condition)
        from(m) == {e \in routes : e.to = m}
    IN  /\ loop = "propagate" /\ abort = "no"
        /\ Propagates(n)
        /\ IF routes # {} \/ (n \in Terminals /\ outcomes[n].status = "succeeded")
             THEN /\ propagated' = propagated \cup {n}
                  /\ first' = [m \in Nodes |-> IF first[m] = NoEdge /\ from(m) # {}
                                                 THEN CHOOSE e \in from(m) : TRUE ELSE first[m]]
                  /\ UNCHANGED <<loop, abort, failure>>
             ELSE GiveUp("UNHANDLED_NODE_OUTCOME") /\ UNCHANGED <<propagated, first>>
        /\ UNCHANGED <<log, status, task, outcomes, stopped, interrupts>>

(* Nothing is left to propagate. *)
CheckHistory ==
    /\ loop = "propagate" /\ abort = "no"
    /\ \A n \in Nodes : ~Propagates(n)
    /\ IF \E n \in Nodes : outcomes[n].status # "none" /\ first[n] = NoEdge
         THEN GiveUp("CORRUPT_RUNNER_HISTORY")
         ELSE loop' = "scheduling" /\ UNCHANGED <<abort, failure>>
    /\ UNCHANGED <<log, status, task, memory, stopped, interrupts>>

(* Mutant: any node without a result may start. *)
StartableUnactivated == {n \in Nodes : n \notin propagated \cup Active /\ ~Final(n)}

Startable == {n \in Nodes : first[n] # NoEdge /\ n \notin propagated \cup Active /\ ~Final(n)}

(* Start the next node in graph order, up to maxParallelism. *)
Schedule(n) ==
    /\ loop = "scheduling" /\ Free
    /\ Cardinality(Active) < MaxParallelism
    /\ n \in Startable /\ \A m \in Startable : n <= m
    /\ task' = [task EXCEPT ![n] = NewTask(n)]
    /\ UNCHANGED <<log, status, loop, memory, ending>>

Wait ==
    /\ loop = "scheduling" /\ Free
    /\ Cardinality(Active) >= MaxParallelism \/ Startable = {}
    /\ Active # {}
    /\ loop' = "waiting"
    /\ UNCHANGED <<log, status, task, memory, ending>>

(* Nothing is active: run_succeeded, or WORKFLOW_DEADLOCK. *)
EndRun ==
    /\ loop = "scheduling" /\ Free
    /\ Startable = {} /\ Active = {}
    /\ IF {n \in Nodes : first[n] # NoEdge} \subseteq propagated
         THEN IF AcceptsRunSucceeded
                THEN status' = "succeeded" /\ loop' = "over" /\ UNCHANGED <<abort, failure>>
                ELSE GiveUp("UNEXPECTED") /\ UNCHANGED status
         ELSE GiveUp("WORKFLOW_DEADLOCK") /\ UNCHANGED status
    /\ UNCHANGED <<log, task, memory, stopped, interrupts>>

(* Promise.race: one settled lifecycle; an error stops the run. *)
Reap(n) ==
    /\ loop = "waiting" /\ Free
    /\ Settled(n)
    /\ task' = [task EXCEPT ![n] = NoTask]
    /\ \/ /\ task[n].phase = "completed"
          /\ outcomes' = [outcomes EXCEPT ![n] = Outcome(n, task[n].attempt)]
          /\ loop' = "propagate" /\ UNCHANGED <<abort, failure>>
       \/ /\ task[n].phase = "cancelled"
          /\ loop' = "propagate" /\ UNCHANGED <<outcomes, abort, failure>>
       \/ /\ task[n].phase = "rejected" /\ abort = "no"
          /\ GiveUp("UNEXPECTED") /\ UNCHANGED outcomes
       \/ /\ task[n].phase = "rejected" /\ abort # "no"
          /\ loop' = "draining" /\ UNCHANGED <<outcomes, abort, failure>>
    /\ UNCHANGED <<log, status, first, propagated, stopped, interrupts>>

(* Everything active has settled: the event that stops the run.  What the  *)
(* runner throws, its controller persists as an interruption.  The id of   *)
(* the runner's own run_interrupted is one per run: a second one for the   *)
(* same reason is answered from the log and changes nothing; for another   *)
(* reason it is refused, and the controller interrupts the run.            *)
StopRun ==
    /\ loop = "draining"
    /\ \A n \in Active : Settled(n)
    /\ loop' = "over"
    /\ \/ /\ status' = CASE failure \notin {"none", "UNEXPECTED"} -> "failed"
                          [] abort = "cancel" -> "cancelled"
                          [] OTHER -> "interrupted"
          /\ log' = Interrupted(log)
       \/ abort = "interrupt" /\ stopped /\ UNCHANGED <<log, status>>
    /\ stopped' = (stopped \/ abort = "interrupt")
    /\ UNCHANGED <<task, memory, abort, failure, interrupts>>

(* The user cancels, the server shuts down. *)
Abort(reason) ==
    /\ loop = "waiting" /\ Free
    /\ abort = "no" /\ abort' = reason
    /\ reason = "interrupt" => interrupts < MaxInterrupts
    /\ interrupts' = interrupts + (IF reason = "interrupt" THEN 1 ELSE 0)
    /\ UNCHANGED <<log, status, loop, task, memory, failure, stopped>>

-----------------------------------------------------------------------------
(* Death and resumption. *)

(* The process dies between two appends; its memory is gone. *)
Die ==
    /\ status = "running" /\ loop # "over"
    /\ interrupts < MaxInterrupts
    /\ interrupts' = interrupts + 1
    /\ loop' = "over"
    /\ UNCHANGED <<log, status, task, memory, abort, failure, stopped>>

(* reconcileInterruptedRuns *)
Reconcile ==
    /\ loop = "over" /\ status = "running"
    /\ status' = "interrupted"
    /\ log' = Interrupted(log)
    /\ UNCHANGED <<loop, task, memory, ending>>

(* run_resumed by a new owner. *)
Resume ==
    /\ status = "interrupted"
    /\ status' = "running"
    /\ loop' = "repair"
    /\ task' = [n \in Nodes |-> NoTask]
    /\ outcomes' = [n \in Nodes |-> NoOutcome]
    /\ first' = [n \in Nodes |-> IF n = Entry THEN EntryEdge ELSE NoEdge]
    /\ propagated' = {}
    /\ abort' = "no"
    /\ failure' = "none"
    /\ UNCHANGED <<log, stopped, interrupts>>

(* repairCompletedRescueEvents *)
Unfinished(n, a) == log[n][a].rescue = "started" /\ log[n][a].status \in {"succeeded", "failed"}

Repair(n, a) ==
    /\ loop = "repair"
    /\ Unfinished(n, a)
    /\ Record(n, a, [log[n][a] EXCEPT !.rescue = "finished"])
    /\ UNCHANGED <<status, loop, task, memory, ending>>

ReadHistory ==
    /\ loop = "repair"
    /\ \A n \in Nodes, a \in Attempts : ~Unfinished(n, a)
    /\ outcomes' = [n \in Nodes |-> OutcomeFromHistory(n)]
    /\ loop' = "propagate"
    /\ UNCHANGED <<log, status, task, first, propagated, ending>>

-----------------------------------------------------------------------------

Lifecycle(n) ==
    \/ StartRescue(n) \/ StartNode(n) \/ FollowDecision(n) \/ NodeSucceeds(n)
    \/ \E retryable \in BOOLEAN : NodeFails(n, retryable)
    \/ FinishRescue(n)

Executor(n) ==
    \/ ExecutorSettles(n)
    \/ \E d \in {"supported", "unsupported"} : Judge(n, d)

MainLoop ==
    \/ NoticeAbort \/ CheckHistory \/ Wait \/ EndRun \/ StopRun \/ ReadHistory
    \/ \E n \in Nodes : Propagate(n) \/ Schedule(n) \/ Reap(n)
    \/ \E n \in Nodes, a \in Attempts : Repair(n, a)

(* A process that is gone does not step: its tasks belong to loop "over". *)
Up == loop # "over"

Next ==
    \/ Up /\ \E n \in Nodes : Lifecycle(n) \/ Executor(n)
    \/ MainLoop
    \/ \E reason \in {"interrupt", "cancel"} : Abort(reason)
    \/ Die \/ Reconcile \/ Resume

Spec == Init /\ [][Next]_vars

(* The thread runs, executors settle within their limits, a lapsed lease is *)
(* reconciled, and somebody resumes the run.                                *)
Fairness ==
    /\ \A n \in Nodes : WF_vars(Up /\ Lifecycle(n)) /\ WF_vars(Up /\ Executor(n))
    /\ WF_vars(MainLoop)
    /\ WF_vars(Reconcile) /\ WF_vars(Resume)

FairSpec == Spec /\ Fairness

-----------------------------------------------------------------------------

(* Every variable keeps its type. *)
TypeOK ==
    /\ log \in [Nodes -> [Attempts -> Attempt]]
    /\ status \in {"running", "interrupted"} \cup Ended
    /\ loop \in {"repair", "propagate", "scheduling", "waiting", "draining", "over"}
    /\ task \in [Nodes -> [phase : Phases, attempt : Nat, rescue : BOOLEAN,
                           via : Edges \cup {EntryEdge, NoEdge}]]
    /\ outcomes \in [Nodes -> [status : {"none", "succeeded", "failed", "interrupted"},
                               attempt : Nat, condition : Conditions \cup {"none"},
                               retryable : BOOLEAN, via : Edges \cup {EntryEdge, NoEdge}]]
    /\ first \in [Nodes -> Edges \cup {EntryEdge, NoEdge}]
    /\ propagated \subseteq Nodes
    /\ abort \in {"no", "interrupt", "cancel", "error"}
    /\ failure \in {"none", "UNHANDLED_NODE_OUTCOME", "CORRUPT_RUNNER_HISTORY",
                    "WORKFLOW_DEADLOCK", "UNEXPECTED"}
    /\ stopped \in BOOLEAN
    /\ interrupts \in 0..MaxInterrupts

(* The result of a node that no later attempt can change, as the log has it. *)
FinalAttempts(n) == {a \in Attempts : CanRescue(n, Outcome(n, a)) = FALSE
                                      /\ log[n][a].status \in {"succeeded", "failed"}}

Routes(n, r) == {e.to : e \in SelectRoutes(n, r)}

Result(n) == IF FinalAttempts(n) = {} THEN "none"
             ELSE log[n][CHOOSE a \in FinalAttempts(n) : TRUE].condition

Run == CASE status = "succeeded" -> "succeeded"
         [] status \in {"failed", "cancelled"} -> "ended"
         [] OTHER -> "open"

Graph == INSTANCE GraphRun WITH
    Results <- Conditions, result <- [n \in Nodes |-> Result(n)], run <- Run

(* The log of a run, over all its owners, is one execution of the graph:   *)
(* "runs once on the first activated inbound edge" (dag-workflows.md:49-51)*)
(* for every node, and success only when all that was reached is handled.  *)
ImplementsGraphRun == Graph!Spec

(* Resuming does not give a node more attempts than its rescue policy.     *)
RescuesAreBounded ==
    \A n \in Nodes, a \in Attempts : log[n][a] # NoAttempt => a <= RescueLimit[n] + 1

(* A run never succeeds with a rescue whose end is not in the log.         *)
RescuesAreClosed ==
    status = "succeeded" => \A n \in Nodes, a \in Attempts : log[n][a].rescue # "started"

(* Over all lives of a run, no node gets more attempts than its policy      *)
(* allows, and a rescue that has a result is finished before the run ends.  *)
RescuesAreSound == RescuesAreBounded /\ RescuesAreClosed

(* The runner's own consistency checks never fail: what a new owner finds  *)
(* in the log is a path it can activate again, and it never runs dry.      *)
HistoryIsConsistent == failure \notin {"CORRUPT_RUNNER_HISTORY", "WORKFLOW_DEADLOCK"}

\* An attempt that has its decision in the log and not its end.
HalfDecided ==
    \E n \in Judged, a \in Attempts :
       log[n][a].decision # "none" /\ log[n][a].status \in {"running", "interrupted"}

(* The reducer accepts every event the runner appends, whatever order the   *)
(* deaths of its owners have left behind, but for those of a node that is   *)
(* judged again, be it a gate, a node with an evidence policy or a proof,   *)
(* after the decision of the same attempt is in the log.                    *)
OnlyJudgedAgainFail ==
    /\ failure = "UNEXPECTED" => HalfDecided
    /\ \A n \in Nodes : task[n].phase = "rejected" =>
         n \in Judged /\ log[n][task[n].attempt].decision # "none"

(* A run that is resumed whenever it is interrupted ends.                  *)
RunEnds == <>(status \in Ended)

(* It ends, whatever deaths, rescues and routes it meets, unless an owner   *)
(* died or was stopped between a decision and the end of the judged node.   *)
RunEndsUnlessHalfDecided == RunEnds \/ <>[]HalfDecided

=============================================================================
