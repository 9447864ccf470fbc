------------------------------- MODULE Budget -------------------------------
(*
The budget store of one project (src/server/src/workflows/budget.ts) and the
compute reservations that share its limit (src/server/src/cost/ledger.ts).

Every operation of the store reads and writes its records inside one hold of
the project's cost admission lock (FileLock.tla).  An admission is two actions
under that lock: projectCostSummary() reads the ledger rows before it reads the
reservations, and neither booking a cost nor releasing a compute reservation
takes the lock, so another process does either in between.

Money, tokens and model calls are small numbers.  A record keeps what the
admission decisions read of it: its status, when its lease expires, and the
settlement that ended it.
*)
EXTENDS Integers, FiniteSets, Functions

CONSTANTS
    Reservations,   \* identities under which work is reserved
    Runs,           \* workflow runs the reservations belong to
    Request,        \* of each reservation: [run, cost, tokens, calls, initial]
    Ceiling,        \* of each run: [cost, tokens, calls]
    Limit,          \* the project's spend limit; 0 is "unlimited"
    Usages,         \* usages a settlement may report: [cost, tokens]
    Lease,          \* how long a lease lasts
    Jobs,           \* remote compute jobs
    JobAmount,      \* of each job: the worst case it reserves
    JobCosts,       \* what a job may turn out to cost
    MaxTime,        \* bound on the clock
    MaxBooked       \* bound on what chat turns spend

VARIABLES
    now,            \* the clock, Date.now()
    reservation,    \* the project's reservation records
    booked,         \* what chat turns have put in the cost ledger
    compute,        \* of each job: [state, cost], its reservation file and ledger row
    reading,        \* the admission that holds the cost lock, and the rows it has read
    missed          \* jobs an admission counted neither by row nor by reservation (history)

vars == <<now, reservation, booked, compute, reading, missed>>

Terminal == {"completed", "failed", "aborted", "timed-out", "stale"}

\* A settlement without usage charges the reserved maximum.
Unobserved == [cost |-> -1, tokens |-> -1]

Settlements == [status : Terminal, usage : Usages \cup {Unobserved}]

\* The caller of settle() cannot ask for "stale": only the reconciliation does.
Requestable == {s \in Settlements : s.status # "stale"}

StaleSettlement == [status |-> "stale", usage |-> Unobserved]

Absent == [status |-> "absent"]

Records ==
    {Absent}
        \cup [status : {"active"}, expiresAt : 0 .. MaxTime + Lease]
        \cup [status : Terminal, settlement : Settlements]

JobRecords == [state : {"none", "held", "booked", "released"}, cost : JobCosts \cup {0}]

\* An admission in progress: for whom, at what time, and what it has read of the ledger.
Idle == [kind |-> "idle"]

Reading(kind, ids) ==
    [kind : {kind}, id : ids, at : 0 .. MaxTime, rows : SUBSET Jobs, chat : 0 .. MaxBooked]

Readings == {Idle} \cup Reading("workflow", Reservations) \cup Reading("compute", Jobs)

ASSUME BudgetAssumption ==
    /\ Lease \in Nat /\ MaxTime \in Nat /\ MaxBooked \in Nat /\ Limit \in Nat
    /\ IsFiniteSet(Reservations) /\ IsFiniteSet(Jobs)
    /\ Request \in [Reservations ->
                      [run : Runs, cost : Nat, tokens : Nat, calls : Nat, initial : Nat]]
    /\ Ceiling \in [Runs -> [cost : Nat, tokens : Nat, calls : Nat]]
    /\ Usages \subseteq [cost : Nat, tokens : Nat]
    /\ JobAmount \in [Jobs -> Nat] /\ JobCosts \subseteq Nat
    /\ \A r \in Reservations : /\ Request[r].cost <= Ceiling[Request[r].run].cost
                               /\ Request[r].tokens <= Ceiling[Request[r].run].tokens
                               /\ Request[r].calls <= Ceiling[Request[r].run].calls
                               /\ Request[r].initial <= Request[r].cost
    \* Modal ends a sandbox at its timeout, which is what the reservation paid for.
    /\ \A j \in Jobs : \A c \in JobCosts : c <= JobAmount[j]

TypeOK ==
    /\ now \in 0 .. MaxTime
    /\ reservation \in [Reservations -> Records]
    /\ booked \in 0 .. MaxBooked
    /\ compute \in [Jobs -> JobRecords]
    /\ reading \in Readings
    /\ missed \subseteq Jobs

Init ==
    /\ now = 0
    /\ reservation = [r \in Reservations |-> Absent]
    /\ booked = 0
    /\ compute = [j \in Jobs |-> [state |-> "none", cost |-> 0]]
    /\ reading = Idle
    /\ missed = {}

-----------------------------------------------------------------------------
(* What the records commit *)

Present(records) == {r \in Reservations : records[r].status # "absent"}
Active(records) == {r \in Reservations : records[r].status = "active"}
OfRun(records, run) == {r \in Present(records) : Request[r].run = run}

\* What a reservation withholds: the part of its maximum not yet spent when it was made.
ReservedCost(r) == Request[r].cost - Request[r].initial

Max0(n) == IF n < 0 THEN 0 ELSE n

\* What a settled reservation is charged, in money and in tokens.
ChargedCost(r, s) ==
    IF s.usage = Unobserved THEN ReservedCost(r) ELSE Max0(s.usage.cost - Request[r].initial)
ChargedTokens(r, s) ==
    IF s.usage = Unobserved THEN Request[r].tokens ELSE s.usage.tokens

\* What one record takes of its run's ceilings.
CostOf(records, r) ==
    IF records[r].status = "active" THEN Request[r].cost
    ELSE ChargedCost(r, records[r].settlement)
TokensOf(records, r) ==
    IF records[r].status = "active" THEN Request[r].tokens
    ELSE ChargedTokens(r, records[r].settlement)

RunCommitment(records, run) ==
    LET mine == OfRun(records, run)
    IN  [cost   |-> SumFunction([r \in mine |-> CostOf(records, r)]),
         tokens |-> SumFunction([r \in mine |-> TokensOf(records, r)]),
         calls  |-> SumFunction([r \in mine |-> Request[r].calls])]

\* What one record takes of its project's limit: a reservation, or what was charged.
TakesOf(records, r) ==
    IF records[r].status = "active" THEN ReservedCost(r)
    ELSE ChargedCost(r, records[r].settlement)

\* What the records of a project take of its limit.
WorkflowCommitment(records) ==
    SumFunction([r \in Present(records) |-> TakesOf(records, r)])

\* The jobs whose cost is in the ledger.
Rows == {j \in Jobs : compute[j].state \in {"booked", "released"}}

\* What an admission counts for a job: its row, if it was there when the rows were read,
\* and its reservation, if it is there now.
JobCommitment(j) ==
    (IF j \in reading.rows THEN compute[j].cost ELSE 0)
        + (IF compute[j].state \in {"held", "booked"} THEN JobAmount[j] ELSE 0)

ComputeCommitment == SumFunction([j \in Jobs |-> JobCommitment(j)])

\* The jobs an admission does not see: booked and released between its two reads.
Unseen == {j \in Jobs : compute[j].state = "released"} \ reading.rows

\* Mutant: compute jobs are left out of what the project has committed.
CommittedWithoutCompute == WorkflowCommitment(reservation) + reading.chat

Committed == WorkflowCommitment(reservation) + ComputeCommitment + reading.chat

-----------------------------------------------------------------------------
(* The operations *)

\* Every active lease that has run out is settled at its unobserved maximum.
Expired(r) == reservation[r].status = "active" /\ reservation[r].expiresAt <= now

StaleRecord == [status |-> "stale", settlement |-> StaleSettlement]
ReconcileExpiredReservations ==
    [r \in Reservations |-> IF Expired(r) THEN StaleRecord ELSE reservation[r]]

\* Mutant: only the reservations that are still active count against the run.
FitsRunActiveOnly(records, r) ==
    LET run  == Request[r].run
        held == OfRun(records, run) \cap Active(records)
    IN  SumFunction([x \in held |-> Request[x].cost]) + Request[r].cost <= Ceiling[run].cost

FitsRun(records, r) ==
    LET run == Request[r].run
        c   == RunCommitment(records, run)
    IN  /\ c.cost + Request[r].cost <= Ceiling[run].cost
        /\ c.tokens + Request[r].tokens <= Ceiling[run].tokens
        /\ c.calls + Request[r].calls <= Ceiling[run].calls

FitsProject(amount) == Limit = 0 \/ Committed + amount <= Limit

\* projectCostSummary() begins: the rows of the ledger are read.
ReadRows(kind, id) ==
    [kind |-> kind, id |-> id, at |-> now, rows |-> Rows, chat |-> booked]

\* An identity is admitted once, however its reservation ended; a refusal keeps the
\* reconciliation it began with.
Reserve(r) ==
    LET records == ReconcileExpiredReservations
    IN  /\ reading = Idle
        /\ reservation' = records
        /\ reading' = IF records[r] = Absent /\ FitsRun(records, r)
                      THEN ReadRows("workflow", r) ELSE Idle
        /\ UNCHANGED <<now, booked, compute, missed>>

\* projectCostSummary() goes on to the reservations, and the admission is decided.
Admit(r) ==
    /\ reading.kind = "workflow" /\ reading.id = r
    /\ reservation' =
         IF FitsProject(ReservedCost(r))
         THEN [reservation EXCEPT ![r] = [status |-> "active", expiresAt |-> reading.at + Lease]]
         ELSE reservation
    /\ missed' = IF FitsProject(ReservedCost(r)) THEN missed \cup Unseen ELSE missed
    /\ reading' = Idle
    /\ UNCHANGED <<now, booked, compute>>

\* Mutant: a settlement overwrites the one that was recorded.
SettleOverwrites(r, s) ==
    /\ reading = Idle
    /\ reservation[r].status # "absent"
    /\ reservation' = [reservation EXCEPT ![r] = [status |-> s.status, settlement |-> s]]
    /\ UNCHANGED <<now, booked, compute, reading, missed>>

\* A repeated settlement is answered from the record, a different one is refused, and so is
\* a usage below what was spent when the work began: none of them writes.  A lease that has
\* run out but was not reconciled settles normally.
Settle(r, s) ==
    /\ reading = Idle
    /\ reservation[r].status = "active"
    /\ s.usage = Unobserved \/ s.usage.cost >= Request[r].initial
    /\ reservation' = [reservation EXCEPT ![r] = [status |-> s.status, settlement |-> s]]
    /\ UNCHANGED <<now, booked, compute, reading, missed>>

Renew(r) ==
    /\ reading = Idle
    /\ reservation[r].status = "active"
    /\ reservation' = [reservation EXCEPT ![r].expiresAt = now + Lease]
    /\ UNCHANGED <<now, booked, compute, reading, missed>>

ReconcileStale ==
    /\ reading = Idle
    /\ reservation' = ReconcileExpiredReservations
    /\ UNCHANGED <<now, booked, compute, reading, missed>>

ReserveComputeBudget(j) ==
    /\ reading = Idle
    /\ compute[j].state = "none"
    /\ reading' = ReadRows("compute", j)
    /\ UNCHANGED <<now, reservation, booked, compute, missed>>

AdmitJob(j) ==
    /\ reading.kind = "compute" /\ reading.id = j
    /\ compute' = IF FitsProject(JobAmount[j])
                  THEN [compute EXCEPT ![j].state = "held"] ELSE compute
    /\ missed' = IF FitsProject(JobAmount[j]) THEN missed \cup Unseen ELSE missed
    /\ reading' = Idle
    /\ UNCHANGED <<now, reservation, booked>>

\* The holder of the lock dies between the two reads: the next one takes the lock from it.
RecoverDeadLock ==
    /\ reading # Idle
    /\ reading' = Idle
    /\ UNCHANGED <<now, reservation, booked, compute, missed>>

\* The manager's reconcile() books the cost and then removes the reservation; a job that
\* has had no sandbox is not booked.
BookComputeCost(j, cost) ==
    /\ compute[j].state = "held"
    /\ compute' = [compute EXCEPT ![j] = [state |-> "booked", cost |-> cost]]
    /\ UNCHANGED <<now, reservation, booked, reading, missed>>

ReleaseComputeReservation(j) ==
    /\ compute[j].state \in {"held", "booked"}
    /\ compute' = [compute EXCEPT ![j].state = "released"]
    /\ UNCHANGED <<now, reservation, booked, reading, missed>>

\* A chat turn reserves nothing and books what it cost when it ends (ChatTurn.tla).
RecordRun ==
    /\ booked < MaxBooked
    /\ booked' = booked + 1
    /\ UNCHANGED <<now, reservation, compute, reading, missed>>

Tick ==
    /\ now < MaxTime
    /\ now' = now + 1
    /\ UNCHANGED <<reservation, booked, compute, reading, missed>>

Next ==
    \/ \E r \in Reservations : \/ Reserve(r)
                               \/ Admit(r)
                               \/ \E s \in Requestable : Settle(r, s)
                               \/ Renew(r)
    \/ ReconcileStale
    \/ \E j \in Jobs : \/ ReserveComputeBudget(j)
                       \/ AdmitJob(j)
                       \/ \E c \in JobCosts : BookComputeCost(j, c)
                       \/ ReleaseComputeReservation(j)
    \/ RecoverDeadLock
    \/ RecordRun
    \/ Tick

Spec == Init /\ [][Next]_vars

-----------------------------------------------------------------------------
(* Properties *)

\* What a settlement reports above the maximum that was reserved for it.
OverCost(r) ==
    IF reservation[r].status \in {"absent", "active"} THEN 0
    ELSE Max0(ChargedCost(r, reservation[r].settlement) - ReservedCost(r))
OverTokens(r) ==
    IF reservation[r].status \in {"absent", "active"} THEN 0
    ELSE Max0(ChargedTokens(r, reservation[r].settlement) - Request[r].tokens)

\* What a run has committed is within its ceilings.
CeilingsHold(run) ==
    LET c    == RunCommitment(reservation, run)
        mine == OfRun(reservation, run)
    IN  /\ c.cost <= Ceiling[run].cost + SumFunction([r \in mine |-> OverCost(r)])
        /\ c.tokens <= Ceiling[run].tokens + SumFunction([r \in mine |-> OverTokens(r)])
        /\ c.calls <= Ceiling[run].calls

\* Whatever is reserved, renewed, settled and reconciled in whatever order by however many
\* processes, a run never commits more than its ceilings, except for what a settlement
\* reports above its own maximum; its model calls never do.
RunCeilingsHold == \A run \in Runs : CeilingsHold(run)

\* What a job takes of the limit, once: its hold, then its cost.  A job that an admission
\* missed is not in its account, nor in this one.
JobExposure(j) ==
    IF j \in missed THEN 0
    ELSE IF compute[j].state = "held" THEN JobAmount[j] ELSE compute[j].cost

\* Workflow reservations and compute jobs, which are admitted by different code, together
\* never take more than the project's limit, whatever is booked, released and spent while
\* an admission is between its two reads, with two exceptions: what settlements report
\* above their maximum, and the jobs that were booked and released between the two reads.
ProjectLimitHolds ==
    Limit > 0 =>
        WorkflowCommitment(reservation) + SumFunction([j \in Jobs |-> JobExposure(j)])
            <= Limit + SumFunction([r \in Present(reservation) |-> OverCost(r)])

\* The settlement that ended a reservation, or that it is held, or that it was never made.
HoldOf(record) ==
    CASE record.status = "absent" -> [state |-> "none"]
      [] record.status = "active" -> [state |-> "held"]
      [] OTHER -> [state |-> "settled", by |-> record.settlement]

Hold == INSTANCE BudgetHold WITH hold <- [r \in Reservations |-> HoldOf(reservation[r])]

\* An identity is admitted once and settled once: a settlement sent late, twice or after
\* the lease was reconciled never replaces the one that was recorded.
SettlesOnce == Hold!Spec
=============================================================================
