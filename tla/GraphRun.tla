------------------------------ MODULE GraphRun ------------------------------
(***************************************************************************)
(* What executing a workflow graph promises, whatever happens to the       *)
(* process that executes it: a node gets one result, once, and only when   *)
(* an edge chosen by the result of another node leads to it (any-ready     *)
(* merge); the run succeeds only when every node reached has a result and  *)
(* every result was handled.                                               *)
(***************************************************************************)
CONSTANTS
    Nodes,          \* the nodes of the graph
    Entry,          \* its entry node
    Terminals,      \* its terminal nodes
    Results,        \* the route conditions a node can end with
    Routes(_, _)    \* Routes(n, r): the nodes that result r of node n leads to

VARIABLES
    result,         \* result[n]: the result of node n, or "none"
    run             \* "open", "succeeded" or "ended"

Reached(n) == n = Entry \/ \E m \in Nodes : result[m] # "none" /\ n \in Routes(m, result[m])

(* A result leads somewhere, or is the success of a terminal node. *)
Handled(n) == Routes(n, result[n]) # {} \/ (n \in Terminals /\ result[n] # "failure")

Init == result = [n \in Nodes |-> "none"] /\ run = "open"

Finish(n, r) ==
    /\ run = "open"
    /\ result[n] = "none"
    /\ Reached(n)
    /\ result' = [result EXCEPT ![n] = r]
    /\ UNCHANGED run

Succeed ==
    /\ run = "open"
    /\ \A n \in Nodes : Reached(n) => result[n] # "none" /\ Handled(n)
    /\ run' = "succeeded"
    /\ UNCHANGED result

End == run = "open" /\ run' = "ended" /\ UNCHANGED result

Next == Succeed \/ End \/ \E n \in Nodes, r \in Results : Finish(n, r)

Spec == Init /\ [][Next]_<<result, run>>

=============================================================================
