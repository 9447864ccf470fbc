----------------------------- MODULE BudgetHold -----------------------------
(*
What the budget store promises its callers, whatever process of the project
they live in: money is held at most once for an identity, a hold is settled at
most once, and a settlement is never replaced by another one.

Budget.tla (the store itself), Supervisor.tla and PipelineAdmission.tla (callers,
with the retries and the deaths of their processes) are each proved to implement
this module.
*)

CONSTANTS Reservations,  \* identities of the reservations
          Settlements    \* how a hold can end

VARIABLE hold            \* of each reservation: None, Held, or settled by something

None == [state |-> "none"]
Held == [state |-> "held"]
SettledBy(s) == [state |-> "settled", by |-> s]

Holds == {None, Held} \cup {SettledBy(s) : s \in Settlements}

Init == hold = [r \in Reservations |-> None]

\* The moves of one reservation: it is admitted, or it is settled.
Move(from, to) ==
    \/ from = None /\ to = Held
    \/ from = Held /\ \E s \in Settlements : to = SettledBy(s)

\* One step may settle several reservations (the reconciliation of expired leases).
Next ==
    /\ hold' \in [Reservations -> Holds]
    /\ \A r \in Reservations : hold'[r] = hold[r] \/ Move(hold[r], hold'[r])

Spec == Init /\ [][Next]_hold
=============================================================================
