---------------------------- MODULE MCDagRunner ----------------------------
(* Instances of DagRunner for TLC: small graphs the validator accepts.      *)
EXTENDS DagRunner

E(m, c, n) == [from |-> m, to |-> n, condition |-> c]

(* A node with an evidence policy, outcome routes and a rescue; on success   *)
(* it fans out to a gate, which routes, and a proof, which is rescued.  Both *)
(* lead to the end.  Nodes 3 and 4 are any-ready merges.                     *)
MergeEdges == {E(1, "success", 2), E(1, "success", 3), E(1, "failure", 3),
               E(2, "evidence-supported", 4), E(2, "evidence-unsupported", 3),
               E(3, "success", 4)}
MergePolicies == [n \in {1, 2} |-> IF n = 2 THEN "route" ELSE "rescue"]
TwoRescued == [n \in Nodes |-> IF n \in {1, 3} THEN 1 ELSE 0]

(* A gate that is rescued, alone in its way.                                *)
RescueEdges == {E(1, "always", 2), E(2, "evidence-supported", 3)}
RescuedGate == [n \in {2} |-> "rescue"]
GateRescued == [n \in Nodes |-> IF n = 2 THEN 1 ELSE 0]
=============================================================================
