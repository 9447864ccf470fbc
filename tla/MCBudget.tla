------------------------------ MODULE MCBudget ------------------------------
(* A small project: three reservations of two runs, one compute job, limit 5. *)
EXTENDS Budget, TLC

MCRequest ==
    "a" :> [run |-> "r1", cost |-> 2, tokens |-> 1, calls |-> 1, initial |-> 1]
        @@ "b" :> [run |-> "r1", cost |-> 2, tokens |-> 2, calls |-> 1, initial |-> 0]
        @@ "c" :> [run |-> "r2", cost |-> 3, tokens |-> 1, calls |-> 2, initial |-> 0]

MCCeiling ==
    "r1" :> [cost |-> 3, tokens |-> 3, calls |-> 2]
        @@ "r2" :> [cost |-> 3, tokens |-> 1, calls |-> 2]

MCJobAmount == "j" :> 2

MCUsages == {[cost |-> 0, tokens |-> 0], [cost |-> 1, tokens |-> 1], [cost |-> 4, tokens |-> 4]}
=============================================================================
