-------------------------- MODULE DagRunnerProofs --------------------------
(***************************************************************************)
(* Proofs about DagRunner: its invariants, and that the log of a run, over *)
(* all its owners, implements GraphRun.                                    *)
(*                                                                         *)
(* The inductive invariant has three layers.  The log: the attempts of a   *)
(* node follow one another, and every one that has begun names the edge    *)
(* that activated it, whose source has in the log the final result that    *)
(* chose it.  The memory of the owner: it says of an idle node what the    *)
(* log says (Synced), and what it has activated follows from what it has   *)
(* propagated.  The lifecycles: each is in the phase that the entry of its *)
(* attempt allows.  Repair and ReadHistory give the second layer back to a *)
(* new owner from the first alone; that the graph has no cycle is what     *)
(* lets the walk from the entry find every node that has begun.            *)
(***************************************************************************)
EXTENDS DagRunner, FiniteSetTheorems, TLAPS

-----------------------------------------------------------------------------
(* The inductive invariant                                                   *)

(* What an entry of the log is, by itself: an attempt that is a rescue says so, and a *)
(* rescue ends after its attempt.                                                      *)
Begun(n, a) == log[n][a].status # "none" \/ log[n][a].rescue # "none"
HasEnded(n, a) == log[n][a].status \in {"succeeded", "failed"}

EntryShape(n, a) ==
    /\ Begun(n, a) => a <= RescueLimit[n] + 1
    /\ ~Begun(n, a) => log[n][a] = NoAttempt
    /\ log[n][a].rescue # "none" => a > 1
    /\ log[n][a].status # "none" /\ a > 1 => log[n][a].rescue # "none"
    /\ log[n][a].rescue = "finished" => HasEnded(n, a)
    /\ log[n][a].status = "failed" => log[n][a].condition = "failure"
    /\ log[n][a].status = "succeeded" => log[n][a].condition \in Conditions \ {"failure"}

(* The attempts of a node follow one another: one begins when the one before has failed, *)
(* may be rescued, and has its own rescue closed.                                        *)
MayFollow(n, a) == CanRescue(n, Outcome(n, a)) /\ log[n][a].rescue # "started"

AttemptOrder(n) ==
    \A a, b \in Attempts :
        a < b /\ Begun(n, b) => MayFollow(n, a) /\ log[n][a].via = log[n][b].via

HistoryInv == \A n \in Nodes : AttemptOrder(n) /\ \A a \in Attempts : EntryShape(n, a)

(* An edge was chosen by the final result of its source, which no task works on. *)
Gave(e) ==
    /\ e \in Edges
    /\ task[e.from].phase = "idle"
    /\ \E a \in FinalAttempts(e.from) : e \in SelectRoutes(e.from, log[e.from][a].condition)

Activates(e, n) ==
    \/ n = Entry /\ e = EntryEdge
    \/ e.to = n /\ Gave(e)

ViaInv == \A n \in Nodes, a \in Attempts : Begun(n, a) => Activates(log[n][a].via, n)

(* What the log holds of the attempt a lifecycle is in, phase by phase. *)
InExecution == {"executing", "decided", "succeeding", "unsupported", "failing",
                "cancelled", "rejected"}

PhaseInv(n, a) ==
    LET phase == task[n].phase
        entry == log[n][a]
    IN  /\ phase = "rescuing" => a > 1 /\ entry.status = "none"
        /\ phase = "starting" => \/ entry.status = "none" /\ (a > 1 => entry.rescue = "started")
                                 \/ entry.status = "interrupted"
        /\ phase \in InExecution => entry.status = "running"
        /\ phase \in {"decided", "rejected"} => n \in Judged /\ entry.decision # "none"
        /\ phase = "succeeding" /\ n \in Gates \cup Checked =>
               \/ entry.decision = "supported"
               \/ entry.decision = "unsupported" /\ MayRoute(n)
        /\ phase = "unsupported" =>
               \/ n \in Proofs
               \/ n \in Judged /\ entry.decision = "unsupported" /\ ~MayRoute(n)
        /\ phase = "cancelled" => abort # "no"
        /\ phase = "finishing" => a > 1 /\ HasEnded(n, a) /\ entry.rescue = "started"
        /\ phase = "completed" => /\ HasEnded(n, a) /\ entry.rescue # "started"
                                  /\ ~CanRescue(n, Outcome(n, a))

TaskInv(n) ==
    LET a == task[n].attempt
    IN  /\ a \in 1..(RescueLimit[n] + 1)
        /\ task[n].rescue <=> a > 1
        /\ \A b \in Attempts : b > a => ~Begun(n, b)
        /\ a > 1 => MayFollow(n, a - 1)
        /\ Activates(task[n].via, n)
        /\ \A b \in Attempts : Begun(n, b) => log[n][b].via = task[n].via
        /\ PhaseInv(n, a)

TasksInv == Up => \A n \in Active : TaskInv(n)

(* What the owner remembers of a node is what the log says of it. *)
Remembers(n, a) ==
    /\ outcomes[n] = Outcome(n, a)
    /\ log[n][a].status \in {"succeeded", "failed", "interrupted"}
    /\ HasEnded(n, a) => log[n][a].rescue # "started"
    /\ \A b \in Attempts : b > a => log[n][b].status = "none"

Synced(n) ==
    \/ outcomes[n] = NoOutcome /\ \A a \in Attempts : ~Begun(n, a)
    \/ \E a \in Attempts : Remembers(n, a)

SyncInv ==
    loop \in {"propagate", "scheduling", "waiting"} /\ abort = "no" =>
        \A n \in Nodes \ Active : Synced(n)

(* Activation in memory follows the results in memory. *)
FirstInv ==
    /\ first[Entry] = EntryEdge
    /\ \A n \in Nodes : first[n] # NoEdge =>
         \/ n = Entry /\ first[n] = EntryEdge
         \/ /\ first[n] \in Edges /\ first[n].to = n /\ first[n].from \in propagated
            /\ first[n] \in SelectRoutes(first[n].from, outcomes[first[n].from].condition)

PropagatedInv ==
    /\ \A n \in propagated :
         LET routes == SelectRoutes(n, outcomes[n].condition)
         IN  /\ Final(n) /\ n \notin Active /\ first[n] # NoEdge
             /\ routes # {} \/ (n \in Terminals /\ outcomes[n].status = "succeeded")
             /\ \A e \in routes : first[e.to] # NoEdge
    /\ \A n \in Active : ~Final(n)

(* What holds at each place of the main loop. *)
NothingRuns == \A n \in Nodes, a \in Attempts : log[n][a].status # "running"

LoopInv ==
    /\ Up => status = "running"
    /\ status = "interrupted" \/ loop = "repair" => NothingRuns
    /\ loop = "repair" =>
         /\ Active = {} /\ propagated = {}
         /\ first = [n \in Nodes |-> IF n = Entry THEN EntryEdge ELSE NoEdge]
    /\ loop = "scheduling" =>
         /\ abort = "no"
         /\ \A n \in Nodes : ~Propagates(n) /\ (outcomes[n].status # "none" => first[n] # NoEdge)

\* The attempt a task is in has its decision in the log.
Judgement(n) == \E a \in Attempts : a = task[n].attempt /\ log[n][a].decision # "none"

(* A judged node that has its decision and not its end, and that no task works on. *)
FailureInv ==
    /\ failure \in {"none", "UNHANDLED_NODE_OUTCOME", "UNEXPECTED"}
    /\ failure # "none" => loop \in {"draining", "over"}
    /\ \A n \in Nodes : task[n].phase = "rejected" => n \in Judged /\ Judgement(n)
    /\ failure = "UNEXPECTED" =>
         \E n \in Judged, a \in Attempts : /\ log[n][a].decision # "none"
                                          /\ log[n][a].status \in {"running", "interrupted"}
                                          /\ n \notin Active

IInv == /\ TypeOK /\ HistoryInv /\ ViaInv /\ TasksInv /\ SyncInv
        /\ FirstInv /\ PropagatedInv /\ LoopInv /\ FailureInv /\ RescuesAreClosed
-----------------------------------------------------------------------------
(* Numbers                                                                   *)

\* A set of natural numbers that is not empty has a least member.
LEMMA LeastNat ==
  ASSUME NEW S, S \subseteq Nat, S # {}
  PROVE  \E x \in S : \A y \in S : x <= y
<1> DEFINE T == {1..x : x \in S}
<1>1. T \subseteq FiniteSubsetsOf(Nat) /\ T # {}
  <2>1. \A x \in S : 1..x \in SUBSET Nat /\ IsFiniteSet(1..x)
    BY FS_Interval
  <2> QED
    BY <2>1 DEF FiniteSubsetsOf
<1>2. \E t \in T : \A u \in T : ~ (<<u, t>> \in StrictSubsetOrdering(Nat))
  <2> HIDE DEF T
  <2> QED
    BY <1>1, FS_StrictSubsetOrderingWellFounded, WFMin, Zenon
<1>3. PICK x \in S : \A u \in T : ~ (<<u, 1..x>> \in StrictSubsetOrdering(Nat))
  BY <1>2
<1>4. ASSUME NEW y \in S, y < x PROVE FALSE
  <2>1. 1..y \in T /\ 1..x \in T /\ x \in Nat /\ y \in Nat
    OBVIOUS
  <2>2. 1..y \subseteq 1..x /\ x \in 1..x /\ x \notin 1..y
    BY <1>4, <2>1
  <2>3. 1..y \in FiniteSubsetsOf(Nat) /\ 1..x \in FiniteSubsetsOf(Nat) /\ 1..y # 1..x
    BY <1>1, <2>1, <2>2
  <2>4. <<1..y, 1..x>> \in StrictSubsetOrdering(Nat)
    BY <2>2, <2>3 DEF StrictSubsetOrdering, FiniteSubsetsOf
  <2> QED
    BY <1>3, <2>1, <2>4
<1>5. \A y \in S : x \in Nat /\ y \in Nat
  OBVIOUS
<1> QED
  BY <1>4, <1>5

\* And one that is bounded has a greatest.
LEMMA GreatestNat ==
  ASSUME NEW S, S \subseteq Nat, S # {}, NEW k \in Nat, \A x \in S : x <= k
  PROVE  \E x \in S : \A y \in S : y <= x
<1> DEFINE T == {k - x : x \in S}
<1>1. T \subseteq Nat /\ T # {}
  <2>1. \A x \in S : x \in Nat /\ x <= k
    OBVIOUS
  <2>2. \A x \in S : k - x \in Nat
    BY <2>1
  <2> QED
    BY <2>2
<1>2. PICK t \in T : \A y \in T : t <= y
  <2> HIDE DEF T
  <2> QED
    BY <1>1, LeastNat
<1>3. PICK x \in S : t = k - x
  OBVIOUS
<1>4. ASSUME NEW y \in S PROVE y <= x
  <2>1. k - x <= k - y
    BY <1>2, <1>3
  <2>2. x \in Nat /\ y \in Nat
    OBVIOUS
  <2> QED
    BY <2>1, <2>2
<1> QED
  BY <1>4

\* A finite set of numbers is bounded.
LEMMA FiniteIsBounded ==
  ASSUME NEW S, IsFiniteSet(S), NEW f, \A x \in S : f[x] \in Nat
  PROVE  \E k \in Nat : \A x \in S : f[x] <= k
<1> DEFINE Bounded(s) == \E k \in Nat : \A x \in s : f[x] <= k
           Bad == {s \in FiniteSubsetsOf(S) : ~Bounded(s)}
<1>1. SUFFICES ASSUME Bad # {} PROVE FALSE
  BY DEF FiniteSubsetsOf
<1>2. PICK s \in Bad : \A t \in Bad : ~ (<<t, s>> \in StrictSubsetOrdering(S))
  <2>1. Bad \subseteq FiniteSubsetsOf(S)
    OBVIOUS
  <2> HIDE DEF Bad
  <2> QED
    BY <1>1, <2>1, FS_StrictSubsetOrderingWellFounded, WFMin, Zenon
<1>3. s \in SUBSET S /\ IsFiniteSet(s) /\ ~Bounded(s)
  BY DEF FiniteSubsetsOf
<1>4. PICK e \in s : TRUE
  <2>1. Bounded({})
    OBVIOUS
  <2> HIDE DEF Bounded
  <2> QED
    BY <1>3, <2>1
<1> DEFINE r == s \ {e}
<1>5. r \in FiniteSubsetsOf(S) /\ <<r, s>> \in StrictSubsetOrdering(S)
  BY <1>3, <1>4, FS_RemoveElement DEF FiniteSubsetsOf, StrictSubsetOrdering
<1>6. Bounded(r)
  <2>1. r \notin Bad
    BY <1>2, <1>5
  <2> HIDE DEF Bounded, r
  <2> QED
    BY <1>5, <2>1
<1>7. PICK k \in Nat : \A x \in r : f[x] <= k
  BY <1>6
<1>8. f[e] \in Nat /\ \A x \in s : x \in r \/ x = e
  BY <1>3, <1>4
<1>9. Bounded(s)
  <2>1. CASE f[e] <= k
    BY <1>7, <1>8, <2>1
  <2>2. CASE k < f[e]
    <3>1. \A x \in s : f[x] \in Nat
      BY <1>3
    <3>2. \A x \in s : f[x] <= f[e]
      BY <1>7, <1>8, <2>2, <3>1
    <3> QED
      BY <1>8, <3>2
  <2> QED
    BY <1>7, <1>8, <2>1, <2>2
<1> QED
  BY <1>3, <1>9

-----------------------------------------------------------------------------
(* Attempts and graphs                                                       *)

LEMMA NodesHaveEntry ==
  /\ Entry \in Nodes /\ IsFiniteSet(Nodes)
  /\ \A n \in Nodes : RescueLimit[n] \in Nat
  /\ \A e \in Edges : e.from \in Nodes /\ e.to \in Nodes /\ e.to # Entry
BY DagRunnerAssumption DEF DagRunnerAssumption

\* There is an attempt for every rescue any node may have, and they are numbered from 1.
LEMMA AttemptNumbers ==
  /\ Attempts \subseteq Nat \ {0}
  /\ \A a \in Attempts : \A b \in 1..a : b \in Attempts
  /\ \A n \in Nodes : \A a \in 1..(RescueLimit[n] + 1) : a \in Attempts
  /\ \E k \in Nat : Attempts = 1..k
<1> DEFINE L == {RescueLimit[n] : n \in Nodes}
           top == CHOOSE m \in L : \A n \in Nodes : RescueLimit[n] <= m
<1>1. \E m \in L : \A n \in Nodes : RescueLimit[n] <= m
  <2>1. L \subseteq Nat /\ L # {}
    BY NodesHaveEntry
  <2>2. PICK k \in Nat : \A n \in Nodes : RescueLimit[n] <= k
    BY NodesHaveEntry, FiniteIsBounded
  <2>3. \A m \in L : m <= k
    BY <2>2
  <2>4. PICK m \in L : \A y \in L : y <= m
    <3> HIDE DEF L
    <3> QED
      BY <2>1, <2>3, GreatestNat
  <2> QED
    BY <2>4
<1>2. top \in L /\ \A n \in Nodes : RescueLimit[n] <= top
  <2> HIDE DEF L
  <2> QED
    BY <1>1
<1>3. top \in Nat
  BY <1>2, NodesHaveEntry
<1>4. Attempts = 1..(2 + top)
  BY DEF Attempts
<1> HIDE DEF L, top
<1>5. \A n \in Nodes : RescueLimit[n] \in Nat
  BY NodesHaveEntry
<1> QED
  BY <1>2, <1>3, <1>4, <1>5

LEMMA EdgesAscend ==
  \E rank : /\ \A n \in Nodes : rank[n] \in Nat /\ rank[n] <= Cardinality(Nodes)
            /\ \A e \in Edges : rank[e.from] < rank[e.to]
<1>1. PICK rank \in [Nodes -> 1..Cardinality(Nodes)] : \A e \in Edges : rank[e.from] < rank[e.to]
  BY DagRunnerAssumption DEF DagRunnerAssumption
<1>2. Cardinality(Nodes) \in Nat
  BY NodesHaveEntry, FS_CardinalityType
<1>3. \A n \in Nodes : rank[n] \in Nat /\ rank[n] <= Cardinality(Nodes)
  BY <1>1, <1>2
<1> QED
  BY <1>1, <1>3

\* The graph has no cycle: some node of any set has no edge from the set to it, and some
\* node has none from it to the set.
LEMMA SomeFirst ==
  ASSUME NEW X \in SUBSET Nodes, X # {}
  PROVE  \E n \in X : \A e \in Edges : e.to = n => e.from \notin X
<1>1. PICK rank : /\ \A n \in Nodes : rank[n] \in Nat /\ rank[n] <= Cardinality(Nodes)
                  /\ \A e \in Edges : rank[e.from] < rank[e.to]
  BY EdgesAscend
<1> DEFINE T == {rank[n] : n \in X}
<1>2. T \subseteq Nat /\ T # {}
  <2>1. \A n \in X : rank[n] \in Nat
    BY <1>1
  <2> QED
    BY <2>1
<1>3. PICK t \in T : \A u \in T : t <= u
  <2> HIDE DEF T
  <2> QED
    BY <1>2, LeastNat
<1>4. PICK n \in X : t = rank[n]
  OBVIOUS
<1>5. ASSUME NEW e \in Edges, e.to = n, e.from \in X PROVE FALSE
  <2>1. rank[e.from] < rank[n] /\ rank[n] <= rank[e.from] /\ rank[n] \in Nat /\ rank[e.from] \in Nat
    BY <1>1, <1>3, <1>4, <1>5
  <2> QED
    BY <2>1
<1> QED
  BY <1>5

LEMMA SomeLast ==
  ASSUME NEW X \in SUBSET Nodes, X # {}
  PROVE  \E n \in X : \A e \in Edges : e.from = n => e.to \notin X
<1>1. PICK rank : /\ \A n \in Nodes : rank[n] \in Nat /\ rank[n] <= Cardinality(Nodes)
                  /\ \A e \in Edges : rank[e.from] < rank[e.to]
  BY EdgesAscend
<1> DEFINE T == {rank[n] : n \in X}
<1>2. T \subseteq Nat /\ T # {} /\ Cardinality(Nodes) \in Nat /\ \A t \in T : t <= Cardinality(Nodes)
  <2>1. \A n \in X : rank[n] \in Nat /\ rank[n] <= Cardinality(Nodes)
    BY <1>1
  <2>2. Cardinality(Nodes) \in Nat
    BY NodesHaveEntry, FS_CardinalityType
  <2> QED
    BY <2>1, <2>2
<1>3. PICK t \in T : \A u \in T : u <= t
  <2> HIDE DEF T
  <2> QED
    BY <1>2, GreatestNat
<1>4. PICK n \in X : t = rank[n]
  OBVIOUS
<1>5. ASSUME NEW e \in Edges, e.from = n, e.to \in X PROVE FALSE
  <2>1. rank[n] < rank[e.to] /\ rank[e.to] <= rank[n] /\ rank[n] \in Nat /\ rank[e.to] \in Nat
    BY <1>1, <1>3, <1>4, <1>5
  <2> QED
    BY <2>1
<1> QED
  BY <1>5

-----------------------------------------------------------------------------
(* What the log says of a node                                               *)

LEMMA EntryTypes ==
  ASSUME TypeOK, NEW n \in Nodes, NEW a \in Attempts
  PROVE  log[n][a] \in Attempt
BY DEF TypeOK

\* The final attempt of a node is its only final one, and the last that has begun.
LEMMA FinalIsLast ==
  ASSUME HistoryInv, NEW n \in Nodes, NEW a \in FinalAttempts(n), NEW b \in Attempts,
         Begun(n, b)
  PROVE  b <= a
<1>1. a \in Attempts /\ ~CanRescue(n, Outcome(n, a))
  BY DEF FinalAttempts
<1>2. ~(a < b)
  BY <1>1 DEF HistoryInv, AttemptOrder, MayFollow
<1>3. a \in Nat /\ b \in Nat
  BY <1>1, AttemptNumbers
<1> QED
  BY <1>2, <1>3

LEMMA FinalIsUnique ==
  ASSUME HistoryInv, NEW n \in Nodes, NEW a \in FinalAttempts(n), NEW b \in FinalAttempts(n)
  PROVE  a = b
<1>1. a \in Attempts /\ b \in Attempts /\ Begun(n, a) /\ Begun(n, b)
  BY DEF FinalAttempts, Begun
<1>2. a \in Nat /\ b \in Nat
  BY <1>1, AttemptNumbers
<1> QED
  BY <1>1, <1>2, FinalIsLast

\* A synchronised memory and the log agree on which nodes are final, and how.
LEMMA FinalInLog ==
  ASSUME TypeOK, HistoryInv, NEW n \in Nodes, Synced(n)
  PROVE  /\ Final(n) => \E a \in FinalAttempts(n) : outcomes[n] = Outcome(n, a)
         /\ \A a \in FinalAttempts(n) : Final(n) /\ outcomes[n] = Outcome(n, a)
<1>1. ASSUME Final(n) PROVE \E a \in FinalAttempts(n) : outcomes[n] = Outcome(n, a)
  <2>1. outcomes[n].status # "none"
    BY <1>1 DEF Final
  <2>2. PICK a \in Attempts : Remembers(n, a)
    BY <2>1 DEF Synced, NoOutcome
  <2>3. a \in FinalAttempts(n)
    BY <1>1, <2>2 DEF Final, Remembers, FinalAttempts, Outcome
  <2> QED
    BY <2>2, <2>3 DEF Remembers
<1>2. ASSUME NEW a \in FinalAttempts(n) PROVE Final(n) /\ outcomes[n] = Outcome(n, a)
  <2>1. /\ a \in Attempts /\ Begun(n, a) /\ log[n][a].status \in {"succeeded", "failed"}
        /\ ~CanRescue(n, Outcome(n, a))
    BY DEF FinalAttempts, Begun
  <2>2. PICK c \in Attempts : Remembers(n, c)
    BY <2>1 DEF Synced
  <2>3. Begun(n, c) /\ ~(c < a)
    BY <2>1, <2>2 DEF Remembers, Begun
  <2>4. c <= a /\ c \in Nat /\ a \in Nat
    BY <2>1, <2>3, FinalIsLast, AttemptNumbers
  <2>5. c = a
    BY <2>3, <2>4
  <2> QED
    BY <2>1, <2>2, <2>5 DEF Remembers, Final, Outcome
<1> QED
  BY <1>1, <1>2

-----------------------------------------------------------------------------
(* The steps of a lifecycle                                                  *)

\* A step of the lifecycle of n writes at most the entry of its attempt.
Advances(n) ==
    LET a == task[n].attempt
    IN  /\ \A m \in Nodes, b \in Attempts : m # n \/ b # a => log'[m][b] = log[m][b]
        /\ \A m \in Nodes \ {n} : task'[m] = task[m]
        /\ task'[n].phase # "idle"
        /\ task'[n].via = task[n].via
        /\ UNCHANGED <<status, loop, memory, ending>>
        /\ \A b \in Attempts : b = a => /\ Begun(n, b)' => log'[n][b].via = task[n].via
                                       /\ EntryShape(n, b)'

LEMMA ActivationStays ==
  ASSUME NEW n \in Active, Advances(n), NEW m \in Nodes, NEW e, Activates(e, m)
  PROVE  Activates(e, m)'
<1>1. CASE m = Entry /\ e = EntryEdge
  BY <1>1 DEF Activates
<1>2. CASE e.to = m /\ Gave(e)
  <2>1. e \in Edges /\ e.from \in Nodes /\ e.from # n /\ task'[e.from] = task[e.from]
    BY <1>2, NodesHaveEntry DEF Gave, Active, Advances
  <2>2. \A b \in Attempts : log'[e.from][b] = log[e.from][b]
    BY <2>1 DEF Advances
  <2>3. PICK a \in FinalAttempts(e.from) : e \in SelectRoutes(e.from, log[e.from][a].condition)
    BY <1>2 DEF Gave
  <2>4. a \in FinalAttempts(e.from)' /\ log'[e.from][a] = log[e.from][a]
    BY <2>2, <2>3 DEF FinalAttempts, CanRescue, Outcome
  <2> QED
    BY <1>2, <2>1, <2>3, <2>4 DEF Activates, Gave
<1> QED
  BY <1>1, <1>2 DEF Activates

\* Nothing has begun before the attempt a lifecycle is in that may not be followed.
LEMMA EarlierAttempts ==
  ASSUME HistoryInv, NEW n \in Nodes, TaskInv(n), NEW b \in Attempts, b < task[n].attempt
  PROVE  MayFollow(n, b) /\ log[n][b].via = task[n].via
<1> DEFINE a == task[n].attempt
<1>1. a \in 1..(RescueLimit[n] + 1) /\ b \in Nat \ {0} /\ RescueLimit[n] \in Nat
  BY AttemptNumbers, NodesHaveEntry DEF TaskInv
<1>2. a > 1 /\ a - 1 \in 1..(RescueLimit[n] + 1) /\ a \in Nat
  BY <1>1
<1>3. a - 1 \in Attempts
  BY <1>2, AttemptNumbers
<1>4. MayFollow(n, a - 1)
  BY <1>2 DEF TaskInv
<1>5. Begun(n, a - 1)
  BY <1>4 DEF MayFollow, CanRescue, Outcome, Begun
<1>6. log[n][a - 1].via = task[n].via
  BY <1>3, <1>5 DEF TaskInv
<1>7. CASE b = a - 1
  BY <1>4, <1>6, <1>7
<1>8. CASE b < a - 1
  BY <1>3, <1>5, <1>6, <1>8 DEF HistoryInv, AttemptOrder
<1> QED
  BY <1>1, <1>2, <1>7, <1>8

LEMMA AdvanceKeepsHistory ==
  ASSUME HistoryInv, NEW n \in Nodes, TaskInv(n), Advances(n)
  PROVE  HistoryInv'
<1> DEFINE a == task[n].attempt
<1>1. ASSUME NEW m \in Nodes, NEW b \in Attempts PROVE EntryShape(m, b)'
  <2>1. CASE m = n /\ b = a
    BY <2>1 DEF Advances
  <2>2. CASE m # n \/ b # a
    <3>1. log'[m][b] = log[m][b]
      BY <2>2 DEF Advances
    <3>2. EntryShape(m, b)
      BY DEF HistoryInv
    <3> QED
      BY <3>1, <3>2 DEF EntryShape, Begun, HasEnded
  <2> QED
    BY <2>1, <2>2
<1>2. ASSUME NEW m \in Nodes, NEW b \in Attempts, NEW c \in Attempts, b < c, Begun(m, c)'
      PROVE  MayFollow(m, b)' /\ log'[m][b].via = log'[m][c].via
  <2>1. CASE m # n \/ (b # a /\ c # a)
    <3>1. log'[m][b] = log[m][b] /\ log'[m][c] = log[m][c]
      BY <2>1 DEF Advances
    <3>2. Begun(m, c)
      BY <1>2, <3>1 DEF Begun
    <3>3. MayFollow(m, b) /\ log[m][b].via = log[m][c].via
      BY <1>2, <3>2 DEF HistoryInv, AttemptOrder
    <3> QED
      BY <3>1, <3>3 DEF MayFollow, CanRescue, Outcome
  <2>2. CASE m = n /\ c = a
    <3>1. b # a
      BY <1>2, <2>2, AttemptNumbers
    <3>2. log'[n][b] = log[n][b]
      BY <3>1 DEF Advances
    <3>3. MayFollow(n, b) /\ log[n][b].via = task[n].via
      BY <1>2, <2>2, EarlierAttempts
    <3>4. log'[n][c].via = task[n].via
      BY <1>2, <2>2 DEF Advances
    <3>5. MayFollow(n, b)'
      BY <3>2, <3>3 DEF MayFollow, CanRescue, Outcome
    <3> QED
      BY <2>2, <3>2, <3>3, <3>4, <3>5
  <2>3. CASE m = n /\ b = a
    <3>1. c # a
      BY <1>2, <2>3, AttemptNumbers
    <3>2. log'[n][c] = log[n][c] /\ ~Begun(n, c)
      BY <1>2, <2>3, <3>1 DEF Advances, TaskInv
    <3> QED
      BY <1>2, <2>3, <3>2 DEF Begun
  <2> QED
    BY <2>1, <2>2, <2>3
<1> QED
  BY <1>1, <1>2 DEF HistoryInv, AttemptOrder

\* A lifecycle whose own task is in order leaves everything in order.
LEMMA AdvanceKeepsInvariant ==
  ASSUME IInv, TypeOK', Up, NEW n \in Active, Advances(n), TaskInv(n)'
  PROVE  IInv'
<1> DEFINE a == task[n].attempt
<1>1. n \in Nodes /\ TaskInv(n) /\ HistoryInv
  BY DEF Active, IInv, TasksInv
<1>2. /\ UNCHANGED <<status, loop, outcomes, first, propagated, abort, failure, stopped, interrupts>>
      /\ task'[n].phase # "idle" /\ \A m \in Nodes \ {n} : task'[m] = task[m]
  BY DEF Advances, memory, ending
<1>3. Active' = Active
  BY <1>1, <1>2 DEF Active
<1>4. \A m \in Nodes \ {n}, b \in Attempts : log'[m][b] = log[m][b]
  BY DEF Advances
<1>5. HistoryInv'
  BY <1>1, AdvanceKeepsHistory
<1>6. ViaInv'
  <2> SUFFICES ASSUME NEW m \in Nodes, NEW b \in Attempts, Begun(m, b)'
               PROVE  Activates(log[m][b].via, m)'
    BY DEF ViaInv
  <2>1. CASE m = n /\ b = a
    <3>1. log'[m][b].via = task[n].via /\ Activates(task[n].via, n)
      BY <1>1, <2>1 DEF Advances, TaskInv
    <3>2. Activates(task[n].via, n)'
      BY <2>1 DEF TaskInv
    <3>3. task'[n].via = task[n].via
      BY DEF Advances
    <3> QED
      BY <2>1, <3>1, <3>2, <3>3
  <2>2. CASE m # n \/ b # a
    <3>1. log'[m][b] = log[m][b]
      BY <2>2 DEF Advances
    <3>2. Activates(log[m][b].via, m)
      BY <3>1 DEF Begun, ViaInv, IInv
    <3> DEFINE e == log[m][b].via
    <3>3. Activates(e, m)
      BY <3>2
    <3>4. e' = e
      BY <3>1
    <3> HIDE DEF e
    <3>5. Activates(e, m)'
      BY <3>3, <3>4, ActivationStays
    <3> QED
      BY <3>5 DEF e
  <2> QED
    BY <2>1, <2>2
<1>7. TasksInv'
  <2> SUFFICES ASSUME NEW m \in Active, m # n
               PROVE  TaskInv(m)'
    BY <1>3 DEF TasksInv
  <2>1. m \in Nodes /\ TaskInv(m)
    BY DEF Active, IInv, TasksInv
  <2>2. task'[m] = task[m] /\ abort' = abort /\ \A b \in Attempts : log'[m][b] = log[m][b]
    BY <1>2, <1>4, <2>1
  <2>3. Activates(task[m].via, m)'
    <3> DEFINE e == task[m].via
    <3>1. Activates(e, m) /\ e' = e
      BY <2>1, <2>2 DEF TaskInv
    <3> HIDE DEF e
    <3>2. Activates(e, m)'
      BY <2>1, <3>1, ActivationStays
    <3> QED
      BY <3>2 DEF e
  <2>4. task[m].attempt \in Attempts /\ (task[m].attempt > 1 => task[m].attempt - 1 \in Attempts)
    <3>1. task[m].attempt \in 1..(RescueLimit[m] + 1) /\ RescueLimit[m] \in Nat
      BY <2>1, NodesHaveEntry DEF TaskInv
    <3>2. task[m].attempt > 1 => task[m].attempt - 1 \in 1..(RescueLimit[m] + 1)
      BY <3>1
    <3> QED
      BY <2>1, <3>1, <3>2, AttemptNumbers
  <2>5. PhaseInv(m, task[m].attempt)'
    BY <2>1, <2>2, <2>4 DEF TaskInv, PhaseInv, HasEnded, CanRescue, Outcome
  <2>6. task[m].attempt > 1 => MayFollow(m, task[m].attempt - 1)'
    BY <2>1, <2>2, <2>4 DEF TaskInv, MayFollow, CanRescue, Outcome
  <2> QED
    BY <2>1, <2>2, <2>3, <2>5, <2>6 DEF TaskInv, Begun
<1>8. SyncInv'
  <2> SUFFICES ASSUME loop \in {"propagate", "scheduling", "waiting"}, abort = "no",
                      NEW m \in Nodes \ Active
               PROVE  Synced(m)'
    BY <1>2, <1>3 DEF SyncInv
  <2>1. Synced(m) /\ m # n
    BY DEF IInv, SyncInv
  <2>2. outcomes'[m] = outcomes[m] /\ \A b \in Attempts : log'[m][b] = log[m][b]
    BY <1>2, <1>4, <2>1
  <2>3. CASE outcomes[m] = NoOutcome /\ \A b \in Attempts : ~Begun(m, b)
    BY <2>2, <2>3 DEF Synced, Begun
  <2>4. ASSUME NEW b \in Attempts, Remembers(m, b) PROVE Remembers(m, b)'
    BY <2>2, <2>4 DEF Remembers, HasEnded, Outcome
  <2> QED
    BY <2>1, <2>3, <2>4 DEF Synced
<1>9. FirstInv' /\ PropagatedInv'
  BY <1>2, <1>3 DEF IInv, FirstInv, PropagatedInv, Final
<1>10. LoopInv'
  <2>1. status = "running" /\ loop # "repair"
    BY DEF IInv, LoopInv, Up
  <2> QED
    BY <1>2, <2>1 DEF IInv, LoopInv, Up, Propagates, Final
<1>11. FailureInv'
  <2>1. ASSUME NEW m \in Nodes, task'[m].phase = "rejected"
        PROVE  m \in Judged /\ Judgement(m)'
    <3>1. CASE m = n
      <4>1. task'[n].attempt \in 1..(RescueLimit[n] + 1)
        BY DEF TaskInv
      <4>2. task'[n].attempt \in Attempts
        BY <4>1, AttemptNumbers DEF Active
      <4> QED
        BY <2>1, <3>1, <4>2 DEF TaskInv, PhaseInv, Judgement
    <3>2. CASE m # n
      <4>1. m \in Judged /\ Judgement(m) /\ task'[m] = task[m]
        BY <1>2, <2>1, <3>2 DEF IInv, FailureInv
      <4>2. \A b \in Attempts : log'[m][b] = log[m][b]
        BY <1>4, <3>2
      <4> QED
        BY <4>1, <4>2 DEF Judgement
    <3> QED
      BY <3>1, <3>2
  <2>2. ASSUME failure = "UNEXPECTED"
        PROVE  \E m \in Judged, b \in Attempts :
                  /\ log'[m][b].decision # "none"
                  /\ log'[m][b].status \in {"running", "interrupted"}
                  /\ m \notin Active
    <3>1. PICK m \in Judged, b \in Attempts : /\ log[m][b].decision # "none"
                                            /\ log[m][b].status \in {"running", "interrupted"}
                                            /\ m \notin Active
      BY <2>2 DEF IInv, FailureInv
    <3>2. m \in Nodes /\ m # n
      BY <3>1, DagRunnerAssumption DEF DagRunnerAssumption
    <3> QED
      BY <1>4, <3>1, <3>2
  <2> QED
    BY <1>2, <1>3, <2>1, <2>2 DEF IInv, FailureInv
<1>12. RescuesAreClosed'
  BY <1>2 DEF IInv, LoopInv, Up, RescuesAreClosed
<1> QED
  BY <1>5, <1>6, <1>7, <1>8, <1>9, <1>10, <1>11, <1>12 DEF IInv

-----------------------------------------------------------------------------
(* Each step of a lifecycle keeps its task in order                          *)

\* What is written to the entry of an attempt.
LEMMA Recording ==
  ASSUME TypeOK, NEW n \in Nodes, NEW a \in Attempts, NEW entry \in Attempt,
         Record(n, a, entry)
  PROVE  /\ log' \in [Nodes -> [Attempts -> Attempt]]
         /\ log'[n][a] = entry
         /\ \A m \in Nodes, b \in Attempts : m # n \/ b # a => log'[m][b] = log[m][b]
<1> HIDE DEF Attempt
<1>1. /\ log \in [Nodes -> [Attempts -> Attempt]]
      /\ log' = [log EXCEPT ![n][a] = entry]
  BY DEF TypeOK, Record
<1> QED
  BY <1>1

LEMMA TaskTypes ==
  ASSUME TypeOK, NEW n \in Nodes, TaskInv(n)
  PROVE  /\ task[n].attempt \in Attempts /\ task[n].attempt \in Nat \ {0}
         /\ task[n].attempt <= RescueLimit[n] + 1 /\ RescueLimit[n] \in Nat
         /\ task[n].attempt > 1 => task[n].attempt - 1 \in Attempts
         /\ log[n][task[n].attempt] \in Attempt
         /\ task[n] \in [phase : Phases, attempt : Nat, rescue : BOOLEAN,
                         via : Edges \cup {EntryEdge, NoEdge}]
         /\ task \in [Nodes -> [phase : Phases, attempt : Nat, rescue : BOOLEAN,
                                via : Edges \cup {EntryEdge, NoEdge}]]
<1>1. task[n].attempt \in 1..(RescueLimit[n] + 1) /\ RescueLimit[n] \in Nat
  BY NodesHaveEntry DEF TaskInv
<1>2. task[n].attempt > 1 => task[n].attempt - 1 \in 1..(RescueLimit[n] + 1)
  BY <1>1
<1>3. task[n].attempt \in Attempts
  BY <1>1, AttemptNumbers
<1> QED
  BY <1>1, <1>2, <1>3, AttemptNumbers, EntryTypes DEF TypeOK

\* A step that stays in its attempt.
Stays(n, phase) ==
    /\ task'[n].phase = phase /\ task'[n].attempt = task[n].attempt
    /\ task'[n].rescue = task[n].rescue

LEMMA TaskStays ==
  ASSUME IInv, Up, NEW n \in Active, Advances(n), NEW phase, Stays(n, phase),
         \A a \in Attempts : a = task[n].attempt => PhaseInv(n, a)'
  PROVE  TaskInv(n)'
<1>1. n \in Nodes /\ TaskInv(n) /\ TypeOK
  BY DEF Active, IInv, TasksInv
<1>0. PICK a \in Attempts : a = task[n].attempt
  BY <1>1, TaskTypes
<1>2. a \in Attempts /\ (a > 1 => a - 1 \in Attempts /\ a - 1 # a) /\ a \in Nat
  BY <1>0, <1>1, TaskTypes
<1>3. /\ task'[n].attempt = a /\ task'[n].rescue = task[n].rescue /\ task'[n].via = task[n].via
      /\ \A b \in Attempts : b # a => log'[n][b] = log[n][b]
  BY <1>0, <1>1 DEF Advances, Stays
<1>4. Activates(task[n].via, n)'
  <2> DEFINE e == task[n].via
  <2>1. Activates(e, n) /\ e' = e
    BY <1>0, <1>1, <1>3 DEF TaskInv
  <2> HIDE DEF e
  <2>2. Activates(e, n)'
    BY <1>1, <2>1, ActivationStays
  <2> QED
    BY <2>2 DEF e
<1>5. a > 1 => MayFollow(n, a - 1)'
  BY <1>0, <1>1, <1>2, <1>3 DEF TaskInv, MayFollow, CanRescue, Outcome
<1>6. \A b \in Attempts : b > a => ~Begun(n, b)'
  BY <1>0, <1>1, <1>2, <1>3 DEF TaskInv, Begun
<1>7. \A b \in Attempts : Begun(n, b)' => log'[n][b].via = task[n].via
  BY <1>0, <1>1, <1>2, <1>3 DEF TaskInv, Begun, Advances
<1>8. PhaseInv(n, a)'
  BY <1>0, <1>2, <1>3
<1>9. /\ task'[n].attempt \in 1..(RescueLimit[n] + 1)
      /\ task'[n].rescue <=> task'[n].attempt > 1
  BY <1>0, <1>1, <1>3 DEF TaskInv
<1> QED
  BY <1>3, <1>4, <1>5, <1>6, <1>7, <1>8, <1>9 DEF TaskInv

\* A step to the next attempt.
LEMMA TaskContinues ==
  ASSUME IInv, Up, NEW n \in Active, Advances(n), NextAttempt(n),
         \A a \in Attempts : a = task[n].attempt => MayFollow(n, a)'
  PROVE  TaskInv(n)'
<1>1. n \in Nodes /\ TaskInv(n) /\ TypeOK
  BY DEF Active, IInv, TasksInv
<1>0. PICK a \in Attempts : a = task[n].attempt
  BY <1>1, TaskTypes
<1>2. a \in Attempts /\ a \in Nat \ {0} /\ RescueLimit[n] \in Nat
  BY <1>0, <1>1, TaskTypes
<1>3. /\ task'[n].attempt = a + 1 /\ task'[n].rescue = TRUE /\ task'[n].via = task[n].via
      /\ task'[n].phase = "rescuing"
      /\ \A b \in Attempts : b # a => log'[n][b] = log[n][b]
  BY <1>0, <1>1, TaskTypes DEF Advances, NextAttempt
<1>4. Activates(task[n].via, n)'
  <2> DEFINE e == task[n].via
  <2>1. Activates(e, n) /\ e' = e
    BY <1>0, <1>1, <1>3 DEF TaskInv
  <2> HIDE DEF e
  <2>2. Activates(e, n)'
    BY <1>1, <2>1, ActivationStays
  <2> QED
    BY <2>2 DEF e
<1>5. MayFollow(n, a)'
  BY <1>0, <1>2, <1>3
<1>6. a + 1 <= RescueLimit[n] + 1
  <2>1. a - 1 < RescueLimit[n]
    BY <1>5 DEF MayFollow, CanRescue, Outcome
  <2> QED
    BY <1>0, <1>2, <2>1
<1>7. \A b \in Attempts : b > a => ~Begun(n, b)'
  <2>1. \A b \in Attempts : b > a => b # a /\ ~Begun(n, b)
    BY <1>0, <1>1, <1>2, AttemptNumbers DEF TaskInv
  <2> QED
    BY <1>1, <1>3, <2>1 DEF Begun
<1>8. \A b \in Attempts : Begun(n, b)' => log'[n][b].via = task[n].via
  <2>1. \A b \in Attempts : b = a => (Begun(n, b)' => log'[n][b].via = task[n].via)
    BY <1>0 DEF Advances
  <2>2. \A b \in Attempts : b # a => (Begun(n, b)' => log'[n][b].via = task[n].via)
    BY <1>1, <1>3 DEF TaskInv, Begun
  <2> QED
    BY <2>1, <2>2
<1>9. a + 1 \in 1..(RescueLimit[n] + 1) /\ a + 1 \in Attempts /\ a + 1 > 1 /\ (a + 1) - 1 = a
  BY <1>1, <1>2, <1>6, AttemptNumbers
<1>10. PhaseInv(n, a + 1)'
  <2>1. ~Begun(n, a + 1)'
    BY <1>2, <1>7, <1>9
  <2> QED
    BY <1>2, <1>3, <1>9, <2>1 DEF PhaseInv, InExecution, Begun
<1>11. \A b \in Attempts : b > a + 1 => ~Begun(n, b)'
  BY <1>2, <1>7, AttemptNumbers
<1>12. MayFollow(n, (a + 1) - 1)'
  BY <1>5, <1>9
<1> DEFINE k == a + 1
<1>13. /\ k \in 1..(RescueLimit[n] + 1) /\ k > 1 /\ PhaseInv(n, k)' /\ MayFollow(n, k - 1)'
       /\ \A b \in Attempts : b > k => ~Begun(n, b)'
       /\ task'[n].attempt = k
  BY <1>3, <1>9, <1>10, <1>11, <1>12
<1>14. (Activates(task[n].via, n))' /\ \A b \in Attempts : Begun(n, b)' => log'[n][b].via = task'[n].via
  BY <1>3, <1>4, <1>8
<1> HIDE DEF k
<1> QED
  BY <1>3, <1>13, <1>14 DEF TaskInv

-----------------------------------------------------------------------------
(* A move to another phase of the attempt, with or without an append, and one to the     *)
(* next attempt, keep the types and touch nothing else.                                  *)
LEMMA Moving ==
  ASSUME IInv, Up, NEW n \in Active, NEW phase \in Phases \ {"idle"}, Goto(n, phase),
         UNCHANGED <<log, status, loop, memory, ending>>
  PROVE  TypeOK' /\ Advances(n) /\ Stays(n, phase)
<1>1. n \in Nodes /\ TaskInv(n) /\ TypeOK /\ HistoryInv
  BY DEF Active, IInv, TasksInv
<1>2. /\ task' \in [Nodes -> [phase : Phases, attempt : Nat, rescue : BOOLEAN,
                             via : Edges \cup {EntryEdge, NoEdge}]]
      /\ \A m \in Nodes \ {n} : task'[m] = task[m]
      /\ task'[n].via = task[n].via /\ Stays(n, phase)
  BY <1>1, TaskTypes DEF Goto, Stays
<1>3. TypeOK'
  BY <1>1, <1>2 DEF TypeOK, memory, ending
<1>4. \A b \in Attempts : EntryShape(n, b)' /\ (Begun(n, b)' => log'[n][b].via = task[n].via)
  BY <1>1 DEF HistoryInv, TaskInv, EntryShape, Begun, HasEnded
<1>5. Advances(n)
  BY <1>1, <1>2, <1>4 DEF Advances, Stays
<1> QED
  BY <1>2, <1>3, <1>5

LEMMA Writing ==
  ASSUME IInv, Up, NEW n \in Active, NEW phase \in Phases \ {"idle"}, Goto(n, phase),
         NEW a \in Attempts, a = task[n].attempt, NEW entry \in Attempt, Record(n, a, entry),
         EntryShape(n, a)', entry.via = task[n].via,
         UNCHANGED <<status, loop, memory, ending>>
  PROVE  TypeOK' /\ Advances(n) /\ Stays(n, phase)
<1> HIDE DEF Attempt
<1>1. n \in Nodes /\ TaskInv(n) /\ TypeOK /\ HistoryInv
  BY DEF Active, IInv, TasksInv
<1>2. /\ task' \in [Nodes -> [phase : Phases, attempt : Nat, rescue : BOOLEAN,
                             via : Edges \cup {EntryEdge, NoEdge}]]
      /\ \A m \in Nodes \ {n} : task'[m] = task[m]
      /\ task'[n].via = task[n].via /\ Stays(n, phase)
  BY <1>1, TaskTypes DEF Goto, Stays
<1>3. /\ log' \in [Nodes -> [Attempts -> Attempt]] /\ log'[n][a] = entry
      /\ \A m \in Nodes, b \in Attempts : m # n \/ b # a => log'[m][b] = log[m][b]
  BY <1>1, Recording
<1>4. TypeOK'
  BY <1>1, <1>2, <1>3 DEF TypeOK, memory, ending
<1>5. Advances(n)
  BY <1>1, <1>2, <1>3 DEF Advances, Stays
<1> QED
  BY <1>2, <1>4, <1>5

LEMMA Continuing ==
  ASSUME IInv, Up, NEW n \in Active, NextAttempt(n),
         NEW a \in Attempts, a = task[n].attempt, NEW entry \in Attempt, Record(n, a, entry),
         EntryShape(n, a)', entry.via = task[n].via,
         UNCHANGED <<status, loop, memory, ending>>
  PROVE  TypeOK' /\ Advances(n)
<1> HIDE DEF Attempt
<1>1. n \in Nodes /\ TaskInv(n) /\ TypeOK /\ HistoryInv
  BY DEF Active, IInv, TasksInv
<1>2. /\ task' \in [Nodes -> [phase : Phases, attempt : Nat, rescue : BOOLEAN,
                             via : Edges \cup {EntryEdge, NoEdge}]]
      /\ \A m \in Nodes \ {n} : task'[m] = task[m]
      /\ task'[n].via = task[n].via /\ task'[n].phase = "rescuing"
  BY <1>1, TaskTypes DEF NextAttempt, Phases
<1>3. /\ log' \in [Nodes -> [Attempts -> Attempt]] /\ log'[n][a] = entry
      /\ \A m \in Nodes, b \in Attempts : m # n \/ b # a => log'[m][b] = log[m][b]
  BY <1>1, Recording
<1>4. TypeOK'
  BY <1>1, <1>2, <1>3 DEF TypeOK, memory, ending
<1>5. Advances(n)
  BY <1>1, <1>2, <1>3 DEF Advances
<1> QED
  BY <1>4, <1>5

\* What a lifecycle knows of its attempt.
LEMMA InAttempt ==
  ASSUME IInv, Up, NEW n \in Nodes, task[n].phase # "idle"
  PROVE  /\ n \in Active /\ TypeOK /\ HistoryInv /\ TaskInv(n)
         /\ \E a \in Attempts :
              /\ a = task[n].attempt /\ a \in Nat \ {0} /\ a <= RescueLimit[n] + 1
              /\ log[n][a] \in Attempt /\ PhaseInv(n, a) /\ EntryShape(n, a)
              /\ task[n].rescue <=> a > 1
              /\ a > 1 => MayFollow(n, a - 1) /\ log[n][a - 1].status = "failed"
              /\ task[n].via \in Edges \cup {EntryEdge, NoEdge}
              /\ Begun(n, a) => log[n][a].via = task[n].via
<1>1. n \in Active /\ TypeOK /\ HistoryInv /\ TaskInv(n)
  BY DEF Active, IInv, TasksInv
<1>2. PICK a \in Attempts : a = task[n].attempt
  BY <1>1, TaskTypes
<1>3. /\ a \in Nat \ {0} /\ a <= RescueLimit[n] + 1 /\ log[n][a] \in Attempt
      /\ task[n].via \in Edges \cup {EntryEdge, NoEdge}
  BY <1>1, <1>2, TaskTypes
<1>4. EntryShape(n, a)
  BY <1>1 DEF HistoryInv
<1>5. /\ PhaseInv(n, a) /\ (task[n].rescue <=> a > 1) /\ (a > 1 => MayFollow(n, a - 1))
      /\ Begun(n, a) => log[n][a].via = task[n].via
  BY <1>1, <1>2 DEF TaskInv
<1>6. a > 1 => log[n][a - 1].status = "failed"
  BY <1>5 DEF MayFollow, CanRescue, Outcome
<1> QED
  BY <1>1, <1>2, <1>3, <1>4, <1>5, <1>6

LEMMA StartRescueKeeps ==
  ASSUME IInv, Up, NEW n \in Nodes, StartRescue(n)
  PROVE  IInv'
<1> HIDE DEF Attempt
<1>1. task[n].phase = "rescuing" /\ UNCHANGED <<status, loop, memory, ending>>
  BY DEF StartRescue
<1>2. n \in Active /\ TypeOK /\ HistoryInv /\ TaskInv(n)
  BY <1>1, InAttempt
<1>3. PICK a \in Attempts :
         /\ a = task[n].attempt /\ a \in Nat \ {0} /\ a <= RescueLimit[n] + 1
         /\ log[n][a] \in Attempt /\ PhaseInv(n, a) /\ EntryShape(n, a)
         /\ task[n].rescue <=> a > 1
         /\ a > 1 => MayFollow(n, a - 1) /\ log[n][a - 1].status = "failed"
         /\ task[n].via \in Edges \cup {EntryEdge, NoEdge}
         /\ Begun(n, a) => log[n][a].via = task[n].via
  BY <1>1, InAttempt
<1>4. a > 1 /\ log[n][a].status = "none"
  BY <1>1, <1>3 DEF PhaseInv
<1> DEFINE entry == [log[n][a] EXCEPT !.rescue = "started", !.via = task[n].via]
<1>5. CASE log[n][a].rescue # "none"
  <2>1. log[n][a].rescue = "started" /\ log[n][a].via = task[n].via
    BY <1>3, <1>4, <1>5 DEF EntryShape, Begun, HasEnded, Attempt
  <2>2. Goto(n, "starting") /\ UNCHANGED log
    BY <1>3, <1>5, <2>1 DEF StartRescue
  <2>3. TypeOK' /\ Advances(n) /\ Stays(n, "starting")
    BY <1>1, <1>2, <2>2, Moving DEF Phases
  <2>4. PhaseInv(n, a)'
    BY <1>4, <2>1, <2>2, <2>3 DEF PhaseInv, Stays, InExecution
  <2>5. TaskInv(n)'
    BY <1>2, <1>3, <2>3, <2>4, TaskStays
  <2> QED
    BY <1>2, <2>3, <2>5, AdvanceKeepsInvariant
<1>6. CASE log[n][a].rescue = "none"
  <2>1. AcceptsRescueStarted(n, a)
    BY <1>3, <1>4, <1>6 DEF AcceptsRescueStarted
  <2>2. Goto(n, "starting") /\ Record(n, a, entry)
    BY <1>3, <1>6, <2>1 DEF StartRescue, Append
  <2>3. entry \in Attempt /\ entry.via = task[n].via
    BY <1>3 DEF Attempt
  <2>4. log'[n][a] = entry
    <3> HIDE DEF entry
    <3> QED
      BY <1>2, <2>2, <2>3, Recording
  <2>5. EntryShape(n, a)'
    BY <1>3, <1>4, <2>4 DEF EntryShape, Begun, HasEnded, Attempt
  <2>6. TypeOK' /\ Advances(n) /\ Stays(n, "starting")
    <3> HIDE DEF entry
    <3> QED
      BY <1>1, <1>2, <1>3, <2>2, <2>3, <2>5, Writing DEF Phases
  <2>7. PhaseInv(n, a)'
    BY <1>3, <1>4, <2>4, <2>6 DEF PhaseInv, Stays, InExecution, Attempt
  <2>8. TaskInv(n)'
    BY <1>2, <1>3, <2>6, <2>7, TaskStays
  <2> QED
    BY <1>2, <2>6, <2>8, AdvanceKeepsInvariant
<1> QED
  BY <1>5, <1>6

LEMMA StartNodeKeeps ==
  ASSUME IInv, Up, NEW n \in Nodes, StartNode(n)
  PROVE  IInv'
<1> HIDE DEF Attempt
<1>1. task[n].phase = "starting" /\ UNCHANGED <<status, loop, memory, ending>>
  BY DEF StartNode
<1>2. n \in Active /\ TypeOK /\ HistoryInv /\ TaskInv(n)
  BY <1>1, InAttempt
<1>3. PICK a \in Attempts :
         /\ a = task[n].attempt /\ a \in Nat \ {0} /\ a <= RescueLimit[n] + 1
         /\ log[n][a] \in Attempt /\ PhaseInv(n, a) /\ EntryShape(n, a)
         /\ task[n].rescue <=> a > 1
         /\ a > 1 => MayFollow(n, a - 1) /\ log[n][a - 1].status = "failed"
         /\ task[n].via \in Edges \cup {EntryEdge, NoEdge}
         /\ Begun(n, a) => log[n][a].via = task[n].via
  BY <1>1, InAttempt
<1>4. \/ log[n][a].status = "none" /\ (a > 1 => log[n][a].rescue = "started")
      \/ log[n][a].status = "interrupted"
  BY <1>1, <1>3 DEF PhaseInv
<1> DEFINE entry == [log[n][a] EXCEPT !.status = "running", !.via = task[n].via]
<1>5. AcceptsNodeStarted(n, a, task[n].via)
  BY <1>3, <1>4 DEF AcceptsNodeStarted, Begun
<1>6. Goto(n, "executing") /\ Record(n, a, entry)
  BY <1>3, <1>5 DEF StartNode, Append
<1>7. entry \in Attempt /\ entry.via = task[n].via /\ entry.status = "running"
      /\ entry.rescue = log[n][a].rescue
  BY <1>3 DEF Attempt
<1>8. log'[n][a] = entry
  <2> HIDE DEF entry
  <2> QED
    BY <1>2, <1>6, <1>7, Recording
<1>9. EntryShape(n, a)'
  <2>1. log[n][a].rescue # "finished"
    BY <1>3, <1>4 DEF EntryShape, HasEnded
  <2>2. a > 1 <=> log[n][a].rescue # "none"
    BY <1>3, <1>4 DEF EntryShape
  <2> HIDE DEF entry
  <2> QED
    BY <1>3, <1>7, <1>8, <2>1, <2>2 DEF EntryShape, Begun, HasEnded
<1> HIDE DEF entry
<1>10. TypeOK' /\ Advances(n) /\ Stays(n, "executing")
  BY <1>1, <1>2, <1>3, <1>6, <1>7, <1>9, Writing DEF Phases
<1>11. PhaseInv(n, a)'
  BY <1>7, <1>8, <1>10 DEF PhaseInv, Stays, InExecution
<1>12. TaskInv(n)'
  BY <1>2, <1>3, <1>10, <1>11, TaskStays
<1> QED
  BY <1>2, <1>10, <1>12, AdvanceKeepsInvariant

LEMMA ExecutorSettlesKeeps ==
  ASSUME IInv, Up, NEW n \in Nodes, ExecutorSettles(n)
  PROVE  IInv'
<1>1. task[n].phase = "executing" /\ UNCHANGED <<log, status, loop, memory, ending>>
  BY DEF ExecutorSettles
<1>2. n \in Active /\ TypeOK /\ HistoryInv /\ TaskInv(n)
  BY <1>1, InAttempt
<1>3. PICK a \in Attempts : a = task[n].attempt /\ PhaseInv(n, a)
  BY <1>1, InAttempt
<1>4. PICK phase \in {"cancelled", "succeeding", "unsupported", "failing"} :
         /\ Goto(n, phase)
         /\ phase = "cancelled" => abort # "no"
         /\ phase = "succeeding" => n \notin Gates \cup Checked
         /\ phase = "unsupported" => n \in Proofs
  BY DEF ExecutorSettles
<1>5. TypeOK' /\ Advances(n) /\ Stays(n, phase)
  BY <1>1, <1>2, <1>4, Moving DEF Phases
<1>6. PhaseInv(n, a)'
  BY <1>1, <1>3, <1>4, <1>5 DEF PhaseInv, Stays, InExecution, ending
<1>7. TaskInv(n)'
  BY <1>2, <1>3, <1>5, <1>6, TaskStays
<1> QED
  BY <1>2, <1>5, <1>7, AdvanceKeepsInvariant

LEMMA JudgeKeeps ==
  ASSUME IInv, Up, NEW n \in Nodes, NEW d \in {"supported", "unsupported"}, Judge(n, d)
  PROVE  IInv'
<1> HIDE DEF Attempt
<1>1. /\ task[n].phase = "executing" /\ n \in Judged
      /\ UNCHANGED <<status, loop, memory, ending>>
  BY DEF Judge
<1>2. n \in Active /\ TypeOK /\ HistoryInv /\ TaskInv(n)
  BY <1>1, InAttempt
<1>3. PICK a \in Attempts :
         /\ a = task[n].attempt /\ a \in Nat \ {0} /\ a <= RescueLimit[n] + 1
         /\ log[n][a] \in Attempt /\ PhaseInv(n, a) /\ EntryShape(n, a)
         /\ task[n].rescue <=> a > 1
         /\ a > 1 => MayFollow(n, a - 1) /\ log[n][a - 1].status = "failed"
         /\ task[n].via \in Edges \cup {EntryEdge, NoEdge}
         /\ Begun(n, a) => log[n][a].via = task[n].via
  BY <1>1, InAttempt
<1>4. log[n][a].status = "running"
  BY <1>1, <1>3 DEF PhaseInv, InExecution
<1> DEFINE entry == [log[n][a] EXCEPT !.decision = d]
<1>5. CASE Record(n, a, entry) /\ Goto(n, "decided")
  <2>1. entry \in Attempt /\ entry.via = task[n].via
    BY <1>3, <1>4 DEF Attempt, Begun
  <2>2. log'[n][a] = entry
    <3> HIDE DEF entry
    <3> QED
      BY <1>2, <1>5, <2>1, Recording
  <2>3. EntryShape(n, a)'
    BY <1>3, <1>4, <2>2 DEF EntryShape, Begun, HasEnded, Attempt
  <2>4. TypeOK' /\ Advances(n) /\ Stays(n, "decided")
    <3> HIDE DEF entry
    <3> QED
      BY <1>1, <1>2, <1>3, <1>5, <2>1, <2>3, Writing DEF Phases
  <2>5. PhaseInv(n, a)'
    BY <1>1, <1>3, <1>4, <2>2, <2>4 DEF PhaseInv, Stays, InExecution, Attempt
  <2>6. TaskInv(n)'
    BY <1>2, <1>3, <2>4, <2>5, TaskStays
  <2> QED
    BY <1>2, <2>4, <2>6, AdvanceKeepsInvariant
<1>6. ASSUME NEW phase \in {"decided", "failing"}, log[n][a].decision # "none",
             Goto(n, phase), UNCHANGED log
      PROVE  IInv'
  <2>1. TypeOK' /\ Advances(n) /\ Stays(n, phase)
    BY <1>1, <1>2, <1>6, Moving DEF Phases
  <2>2. PhaseInv(n, a)'
    BY <1>1, <1>4, <1>6, <2>1 DEF PhaseInv, Stays, InExecution
  <2>3. TaskInv(n)'
    BY <1>2, <1>3, <2>1, <2>2, TaskStays
  <2> QED
    BY <1>2, <2>1, <2>3, AdvanceKeepsInvariant
<1> HIDE DEF entry
<1>7. \/ Record(n, a, entry) /\ Goto(n, "decided")
      \/ log[n][a].decision = d /\ Goto(n, "decided") /\ UNCHANGED log
      \/ log[n][a].decision # "none" /\ Goto(n, "failing") /\ UNCHANGED log
  BY <1>3 DEF Judge, entry
<1> QED
  BY <1>5, <1>6, <1>7

LEMMA FollowDecisionKeeps ==
  ASSUME IInv, Up, NEW n \in Nodes, FollowDecision(n)
  PROVE  IInv'
<1>1. task[n].phase = "decided" /\ UNCHANGED <<log, status, loop, memory, ending>>
  BY DEF FollowDecision
<1>2. n \in Active /\ TypeOK /\ HistoryInv /\ TaskInv(n)
  BY <1>1, InAttempt
<1>3. PICK a \in Attempts : a = task[n].attempt /\ PhaseInv(n, a) /\ log[n][a] \in Attempt
  BY <1>1, InAttempt
<1>4. PICK phase \in {"unsupported", "succeeding"} :
         /\ Goto(n, phase)
         /\ phase = "unsupported" <=> (log[n][a].decision = "unsupported" /\ ~MayRoute(n))
  BY <1>3 DEF FollowDecision
<1>5. TypeOK' /\ Advances(n) /\ Stays(n, phase)
  BY <1>1, <1>2, <1>4, Moving DEF Phases
<1>6. log[n][a].decision \in {"none", "supported", "unsupported"}
  BY <1>3 DEF Attempt
<1>7. PhaseInv(n, a)'
  BY <1>1, <1>3, <1>4, <1>5, <1>6 DEF PhaseInv, Stays, InExecution
<1>8. TaskInv(n)'
  BY <1>2, <1>3, <1>5, <1>7, TaskStays
<1> QED
  BY <1>2, <1>5, <1>8, AdvanceKeepsInvariant

\* The end of an attempt that has no rescue left to close.
LEMMA EndAttemptKeeps ==
  ASSUME IInv, Up, NEW n \in Active, NEW a \in Attempts, a = task[n].attempt,
         NEW entry \in Attempt, Record(n, a, entry), entry.via = task[n].via,
         entry.status \in {"succeeded", "failed"}, entry.rescue # "started",
         EntryShape(n, a)', NEW result, result.status = entry.status,
         result.retryable = entry.retryable, EndAttempt(n, result),
         UNCHANGED <<status, loop, memory, ending>>
  PROVE  IInv'
<1> HIDE DEF Attempt
<1>1. n \in Nodes /\ TypeOK
  BY DEF Active, IInv
<1>2. log'[n][a] = entry
  BY <1>1, Recording
<1>3. CanRescue(n, [status |-> result.status, retryable |-> result.retryable,
                    attempt |-> task[n].attempt]) <=> CanRescue(n, Outcome(n, a))'
  BY <1>2 DEF CanRescue, Outcome
<1>4. CASE CanRescue(n, Outcome(n, a))'
  <2>1. NextAttempt(n)
    BY <1>3, <1>4 DEF EndAttempt
  <2>2. TypeOK' /\ Advances(n)
    BY <2>1, Continuing
  <2>3. MayFollow(n, a)'
    BY <1>2, <1>4 DEF MayFollow
  <2>4. TaskInv(n)'
    BY <2>1, <2>2, <2>3, TaskContinues
  <2> QED
    BY <2>2, <2>4, AdvanceKeepsInvariant
<1>5. CASE ~CanRescue(n, Outcome(n, a))'
  <2>1. Goto(n, "completed")
    BY <1>3, <1>5 DEF EndAttempt
  <2>2. TypeOK' /\ Advances(n) /\ Stays(n, "completed")
    BY <2>1, Writing DEF Phases
  <2>3. PhaseInv(n, a)'
    BY <1>2, <1>5, <2>2 DEF PhaseInv, Stays, InExecution, HasEnded
  <2>4. TaskInv(n)'
    BY <2>2, <2>3, TaskStays
  <2> QED
    BY <2>2, <2>4, AdvanceKeepsInvariant
<1> QED
  BY <1>4, <1>5

\* The result of an attempt; a rescue has still to be closed.
LEMMA AfterResultKeeps ==
  ASSUME IInv, Up, NEW n \in Active, NEW a \in Attempts, a = task[n].attempt,
         log[n][a].status = "running",
         NEW entry \in Attempt, Record(n, a, entry), entry.via = task[n].via,
         entry.rescue = log[n][a].rescue,
         \/ entry.status = "succeeded" /\ entry.condition \in Conditions \ {"failure"}
         \/ entry.status = "failed" /\ entry.condition = "failure",
         AfterResult(n, entry), UNCHANGED <<status, loop, memory, ending>>
  PROVE  IInv'
<1> HIDE DEF Attempt, Conditions
<1>0. n \in Nodes /\ task[n].phase # "idle"
  BY DEF Active
<1>1. /\ TypeOK /\ EntryShape(n, a) /\ (task[n].rescue <=> a > 1)
      /\ a \in Nat \ {0} /\ a <= RescueLimit[n] + 1 /\ log[n][a] \in Attempt
  BY <1>0, InAttempt
<1>2. log'[n][a] = entry
  BY <1>0, <1>1, Recording
<1>3. /\ a > 1 => log[n][a].rescue = "started"
      /\ ~(a > 1) => log[n][a].rescue = "none"
  <2>1. log[n][a].rescue \in {"none", "started", "finished"}
    BY <1>1 DEF Attempt
  <2>2. log[n][a].rescue # "finished"
    BY <1>1 DEF EntryShape, HasEnded
  <2> QED
    BY <1>1, <2>1, <2>2 DEF EntryShape
<1>4. EntryShape(n, a)'
  BY <1>1, <1>2, <1>3 DEF EntryShape, Begun, HasEnded
<1>5. CASE task[n].rescue
  <2>1. Goto(n, "finishing")
    BY <1>5 DEF AfterResult
  <2>2. TypeOK' /\ Advances(n) /\ Stays(n, "finishing")
    BY <1>4, <2>1, Writing DEF Phases
  <2>3. PhaseInv(n, a)'
    BY <1>1, <1>2, <1>3, <1>5, <2>2 DEF PhaseInv, Stays, InExecution, HasEnded
  <2>4. TaskInv(n)'
    BY <2>2, <2>3, TaskStays
  <2> QED
    BY <2>2, <2>4, AdvanceKeepsInvariant
<1>6. CASE ~task[n].rescue
  <2>1. EndAttempt(n, entry)
    BY <1>6 DEF AfterResult
  <2>2. entry.rescue # "started" /\ entry.status \in {"succeeded", "failed"}
    BY <1>1, <1>3, <1>6
  <2> QED
    BY <1>4, <2>1, <2>2, EndAttemptKeeps
<1> QED
  BY <1>5, <1>6

LEMMA NodeSucceedsKeeps ==
  ASSUME IInv, Up, NEW n \in Nodes, NodeSucceeds(n)
  PROVE  IInv'
<1> HIDE DEF Attempt
<1>1. task[n].phase = "succeeding" /\ UNCHANGED <<status, loop, memory, ending>>
  BY DEF NodeSucceeds
<1>2. n \in Active /\ TypeOK /\ HistoryInv /\ TaskInv(n)
  BY <1>1, InAttempt
<1>3. PICK a \in Attempts :
         /\ a = task[n].attempt /\ log[n][a] \in Attempt /\ PhaseInv(n, a)
         /\ Begun(n, a) => log[n][a].via = task[n].via
  BY <1>1, InAttempt
<1> DEFINE c == RouteCondition(n, a)
           entry == [log[n][a] EXCEPT !.status = "succeeded", !.condition = c]
<1>4. log[n][a].status = "running"
  BY <1>1, <1>3 DEF PhaseInv, InExecution
<1>5. CASE ~AcceptsNodeSucceeded(n, a, c)
  <2>1. Goto(n, "failing") /\ UNCHANGED log
    BY <1>3, <1>5 DEF NodeSucceeds
  <2>2. TypeOK' /\ Advances(n) /\ Stays(n, "failing")
    BY <1>1, <1>2, <2>1, Moving DEF Phases
  <2>3. PhaseInv(n, a)'
    BY <1>4, <2>1, <2>2 DEF PhaseInv, Stays, InExecution
  <2>4. TaskInv(n)'
    BY <1>2, <1>3, <2>2, <2>3, TaskStays
  <2> QED
    BY <1>2, <2>2, <2>4, AdvanceKeepsInvariant
<1>6. c \in Conditions \ {"failure"}
  BY DEF RouteCondition, Conditions
<1>7. ASSUME AcceptsNodeSucceeded(n, a, c)
      PROVE  Record(n, a, entry) /\ AfterResult(n, entry)
  BY <1>3, <1>7 DEF NodeSucceeds
<1>8. /\ entry \in Attempt /\ entry.via = task[n].via /\ entry.rescue = log[n][a].rescue
      /\ entry.status = "succeeded" /\ entry.condition = c
  <2> HIDE DEF c
  <2> QED
    BY <1>3, <1>4, <1>6 DEF Attempt, Begun
<1> HIDE DEF entry, c
<1>9. CASE AcceptsNodeSucceeded(n, a, c)
  BY <1>1, <1>2, <1>3, <1>4, <1>6, <1>7, <1>8, <1>9, AfterResultKeeps
<1> QED
  BY <1>5, <1>9

LEMMA NodeFailsKeeps ==
  ASSUME IInv, Up, NEW n \in Nodes, NEW retryable \in BOOLEAN, NodeFails(n, retryable)
  PROVE  IInv'
<1> HIDE DEF Attempt
<1>1. /\ task[n].phase \in {"failing", "unsupported"}
      /\ UNCHANGED <<status, loop, memory, ending>>
  BY DEF NodeFails
<1>2. n \in Active /\ TypeOK /\ HistoryInv /\ TaskInv(n)
  BY <1>1, InAttempt
<1>3. PICK a \in Attempts :
         /\ a = task[n].attempt /\ log[n][a] \in Attempt /\ PhaseInv(n, a)
         /\ Begun(n, a) => log[n][a].via = task[n].via
  BY <1>1, InAttempt
<1> DEFINE unsupported == task[n].phase = "unsupported"
           entry == [log[n][a] EXCEPT !.status = "failed", !.condition = "failure",
                                      !.retryable = retryable]
<1>4. log[n][a].status = "running"
  BY <1>1, <1>3 DEF PhaseInv, InExecution
<1>5. CASE AcceptsNodeFailed(n, a, unsupported)
  <2>1. Record(n, a, entry) /\ AfterResult(n, entry)
    BY <1>3, <1>5 DEF NodeFails, Append
  <2>2. /\ entry \in Attempt /\ entry.via = task[n].via /\ entry.rescue = log[n][a].rescue
        /\ entry.status = "failed" /\ entry.condition = "failure"
    BY <1>3, <1>4 DEF Attempt, Begun, Conditions
  <2> HIDE DEF entry, unsupported
  <2> QED
    BY <1>1, <1>2, <1>3, <1>4, <2>1, <2>2, AfterResultKeeps
<1>6. CASE ~AcceptsNodeFailed(n, a, unsupported)
  <2>1. Goto(n, "rejected") /\ UNCHANGED log
    BY <1>3, <1>6 DEF NodeFails, Append
  <2>2. n \in Judged /\ log[n][a].decision # "none"
    BY <1>1, <1>3, <1>4, <1>6 DEF AcceptsNodeFailed, PhaseInv
  <2>3. TypeOK' /\ Advances(n) /\ Stays(n, "rejected")
    BY <1>1, <1>2, <2>1, Moving DEF Phases
  <2>4. PhaseInv(n, a)'
    BY <1>4, <2>1, <2>2, <2>3 DEF PhaseInv, Stays, InExecution
  <2>5. TaskInv(n)'
    BY <1>2, <1>3, <2>3, <2>4, TaskStays
  <2> QED
    BY <1>2, <2>3, <2>5, AdvanceKeepsInvariant
<1> QED
  BY <1>5, <1>6

LEMMA FinishRescueKeeps ==
  ASSUME IInv, Up, NEW n \in Nodes, FinishRescue(n)
  PROVE  IInv'
<1> HIDE DEF Attempt
<1>1. task[n].phase = "finishing" /\ UNCHANGED <<status, loop, memory, ending>>
  BY DEF FinishRescue
<1>2. n \in Active /\ TypeOK /\ HistoryInv /\ TaskInv(n)
  BY <1>1, InAttempt
<1>3. PICK a \in Attempts :
         /\ a = task[n].attempt /\ log[n][a] \in Attempt /\ PhaseInv(n, a) /\ EntryShape(n, a)
         /\ Begun(n, a) => log[n][a].via = task[n].via
  BY <1>1, InAttempt
<1> DEFINE entry == [log[n][a] EXCEPT !.rescue = "finished"]
<1>4. a > 1 /\ HasEnded(n, a) /\ log[n][a].rescue = "started"
  BY <1>1, <1>3 DEF PhaseInv
<1>5. Record(n, a, entry) /\ EndAttempt(n, log[n][a])
  BY <1>3, <1>4 DEF FinishRescue, Append, AcceptsRescueFinished, HasEnded
<1>6. /\ entry \in Attempt /\ entry.via = task[n].via /\ entry.rescue = "finished"
      /\ entry.status = log[n][a].status /\ entry.retryable = log[n][a].retryable
      /\ entry.condition = log[n][a].condition
  BY <1>3, <1>4 DEF Attempt, Begun
<1> HIDE DEF entry
<1>7. log'[n][a] = entry
  BY <1>2, <1>5, <1>6, Recording
<1>8. EntryShape(n, a)'
  BY <1>3, <1>4, <1>6, <1>7 DEF EntryShape, Begun, HasEnded
<1>9. entry.status \in {"succeeded", "failed"} /\ entry.rescue # "started"
  BY <1>4, <1>6 DEF HasEnded
<1> QED
  BY <1>1, <1>2, <1>3, <1>5, <1>6, <1>8, <1>9, EndAttemptKeeps

-----------------------------------------------------------------------------
(* The main loop                                                             *)

\* A step that changes neither the log nor the tasks nor what is remembered.
LEMMA LoopStep ==
  ASSUME IInv, UNCHANGED <<log, task, memory>>, Up' => Up, abort # "no" => abort' # "no"
  PROVE  /\ HistoryInv' /\ ViaInv' /\ TasksInv' /\ FirstInv' /\ PropagatedInv'
         /\ \A n \in Nodes : Synced(n) => Synced(n)'
         /\ Active' = Active
<1>1. UNCHANGED <<log, task, outcomes, first, propagated>>
  BY DEF memory
<1>2. HistoryInv'
  BY <1>1 DEF IInv, HistoryInv, EntryShape, AttemptOrder, MayFollow, CanRescue, Outcome, Begun, HasEnded
<1>3. ASSUME NEW n \in Nodes, NEW e, Activates(e, n) PROVE Activates(e, n)'
  BY <1>1, <1>3 DEF Activates, Gave, FinalAttempts, CanRescue, Outcome
<1>4. ViaInv'
  <2> SUFFICES ASSUME NEW n \in Nodes, NEW a \in Attempts, Begun(n, a)
               PROVE  Activates(log[n][a].via, n)'
    BY <1>1 DEF ViaInv, Begun
  <2> DEFINE e == log[n][a].via
  <2>1. Activates(e, n) /\ e' = e
    BY <1>1 DEF IInv, ViaInv
  <2> HIDE DEF e
  <2>2. Activates(e, n)'
    BY <1>3, <2>1
  <2> QED
    BY <2>2 DEF e
<1>5. Active' = Active
  BY <1>1 DEF Active
<1>6. TasksInv'
  <2> SUFFICES ASSUME Up, NEW n \in Active
               PROVE  TaskInv(n)'
    BY <1>5 DEF TasksInv
  <2>1. n \in Nodes /\ TaskInv(n)
    BY DEF IInv, TasksInv, Active
  <2> DEFINE e == task[n].via
  <2>2. Activates(e, n) /\ e' = e
    BY <1>1, <2>1 DEF TaskInv
  <2>3. Activates(e, n)'
    <3> HIDE DEF e
    <3> QED
      BY <1>3, <2>1, <2>2
  <2>4. PhaseInv(n, task[n].attempt)'
    BY <1>1, <2>1 DEF TaskInv, PhaseInv, HasEnded, CanRescue, Outcome
  <2>5. task[n].attempt > 1 => MayFollow(n, task[n].attempt - 1)'
    BY <1>1, <2>1 DEF TaskInv, MayFollow, CanRescue, Outcome
  <2> QED
    BY <1>1, <2>1, <2>3, <2>4, <2>5 DEF TaskInv, Begun
<1>7. FirstInv' /\ PropagatedInv'
  BY <1>1, <1>5 DEF IInv, FirstInv, PropagatedInv, Final
<1>8. ASSUME NEW n \in Nodes, Synced(n) PROVE Synced(n)'
  BY <1>1, <1>8 DEF Synced, Remembers, HasEnded, Outcome, Begun
<1> QED
  BY <1>2, <1>4, <1>5, <1>6, <1>7, <1>8

LEMMA NoticeAbortKeeps ==
  ASSUME IInv, NoticeAbort
  PROVE  IInv'
<1>1. /\ UNCHANGED <<log, task, memory, status, ending>> /\ Up /\ Up' /\ loop' = "draining"
      /\ abort' = abort /\ failure' = failure
  BY DEF NoticeAbort, Up, ending
<1>2. TypeOK'
  BY <1>1 DEF IInv, TypeOK, memory, ending
<1>3. /\ HistoryInv' /\ ViaInv' /\ TasksInv' /\ FirstInv' /\ PropagatedInv' /\ Active' = Active
  BY <1>1, LoopStep
<1>4. SyncInv' /\ LoopInv' /\ FailureInv' /\ RescuesAreClosed'
  BY <1>1, <1>3 DEF IInv, SyncInv, LoopInv, FailureInv, Judgement, RescuesAreClosed, Up, ending
<1> QED
  BY <1>2, <1>3, <1>4 DEF IInv

LEMMA WaitKeeps ==
  ASSUME IInv, Wait
  PROVE  IInv'
<1>1. /\ UNCHANGED <<log, task, memory, status, ending>> /\ Up /\ Up' /\ loop' = "waiting"
      /\ abort' = abort /\ failure' = failure /\ loop = "scheduling"
  BY DEF Wait, Up, ending
<1>2. TypeOK'
  BY <1>1 DEF IInv, TypeOK, memory, ending
<1>3. /\ HistoryInv' /\ ViaInv' /\ TasksInv' /\ FirstInv' /\ PropagatedInv' /\ Active' = Active
      /\ \A n \in Nodes : Synced(n) => Synced(n)'
  BY <1>1, LoopStep
<1>4. SyncInv'
  BY <1>1, <1>3 DEF IInv, SyncInv
<1>5. LoopInv' /\ FailureInv' /\ RescuesAreClosed'
  BY <1>1, <1>3 DEF IInv, LoopInv, FailureInv, Judgement, RescuesAreClosed, Up, ending
<1> QED
  BY <1>2, <1>3, <1>4, <1>5 DEF IInv

LEMMA AbortKeeps ==
  ASSUME IInv, NEW reason \in {"interrupt", "cancel"}, Abort(reason)
  PROVE  IInv'
<1>1. /\ UNCHANGED <<log, status, loop, task, memory, failure, stopped>> /\ Up /\ Up'
      /\ abort = "no" /\ abort' = reason /\ loop = "waiting"
  BY DEF Abort, Up
<1>2. interrupts' \in 0..MaxInterrupts
  <2>1. interrupts \in 0..MaxInterrupts /\ MaxInterrupts \in Nat
    BY DagRunnerAssumption DEF IInv, TypeOK, DagRunnerAssumption
  <2>2. /\ reason = "interrupt" => interrupts < MaxInterrupts
        /\ interrupts' = interrupts + (IF reason = "interrupt" THEN 1 ELSE 0)
    BY DEF Abort
  <2> QED
    BY <2>1, <2>2
<1>3. TypeOK'
  BY <1>1, <1>2 DEF IInv, TypeOK, memory
<1>4. /\ HistoryInv' /\ ViaInv' /\ TasksInv' /\ FirstInv' /\ PropagatedInv' /\ Active' = Active
  BY <1>1, LoopStep
<1>5. SyncInv' /\ LoopInv' /\ FailureInv' /\ RescuesAreClosed'
  BY <1>1, <1>4 DEF IInv, SyncInv, LoopInv, FailureInv, Judgement, RescuesAreClosed, Up
<1> QED
  BY <1>3, <1>4, <1>5 DEF IInv

LEMMA DieKeeps ==
  ASSUME IInv, Die
  PROVE  IInv'
<1>1. /\ UNCHANGED <<log, status, task, memory, abort, failure, stopped>> /\ Up /\ ~Up'
      /\ status = "running" /\ loop' = "over" /\ interrupts' = interrupts + 1
      /\ interrupts < MaxInterrupts
  BY DEF Die, Up
<1>2. interrupts' \in 0..MaxInterrupts
  <2>1. interrupts \in 0..MaxInterrupts /\ MaxInterrupts \in Nat
    BY DagRunnerAssumption DEF IInv, TypeOK, DagRunnerAssumption
  <2> QED
    BY <1>1, <2>1
<1>3. TypeOK'
  BY <1>1, <1>2 DEF IInv, TypeOK, memory
<1>4. /\ HistoryInv' /\ ViaInv' /\ TasksInv' /\ FirstInv' /\ PropagatedInv' /\ Active' = Active
  BY <1>1, LoopStep
<1>5. SyncInv' /\ LoopInv' /\ FailureInv' /\ RescuesAreClosed'
  BY <1>1, <1>4 DEF IInv, SyncInv, LoopInv, FailureInv, Judgement, RescuesAreClosed, Up
<1> QED
  BY <1>3, <1>4, <1>5 DEF IInv

\* What has a result in memory was activated: the edge that the log gives for it leads
\* from a node whose result, in the log, chose it.
LEMMA PathsAreFound ==
  ASSUME IInv, loop = "propagate", abort = "no", \A n \in Nodes : ~Propagates(n)
  PROVE  \A n \in Nodes : outcomes[n].status # "none" => first[n] # NoEdge
<1> DEFINE X == {n \in Nodes : outcomes[n].status # "none" /\ first[n] = NoEdge}
<1>1. SUFFICES ASSUME X # {} PROVE FALSE
  OBVIOUS
<1>2. PICK m \in X : \A e \in Edges : e.to = m => e.from \notin X
  <2> HIDE DEF X
  <2>1. X \in SUBSET Nodes
    BY DEF X
  <2> QED
    BY <1>1, <2>1, SomeFirst
<1>3. m \in Nodes /\ outcomes[m].status # "none" /\ first[m] = NoEdge
  OBVIOUS
<1>4. \E e : Activates(e, m)
  <2>1. CASE m \in Active
    BY <2>1 DEF IInv, TasksInv, TaskInv, Up
  <2>2. CASE m \notin Active
    <3>1. Synced(m) /\ outcomes[m] # NoOutcome
      BY <1>3, <2>2 DEF IInv, SyncInv, NoOutcome
    <3>2. PICK a \in Attempts : Remembers(m, a)
      BY <3>1 DEF Synced
    <3>3. Begun(m, a)
      BY <3>2 DEF Remembers, Begun
    <3> QED
      BY <1>3, <3>3 DEF IInv, ViaInv
  <2> QED
    BY <2>1, <2>2
<1>5. PICK e : Activates(e, m)
  BY <1>4
<1>6. m # Entry
  <2>1. EntryEdge # NoEdge
    BY DEF EntryEdge, NoEdge
  <2> QED
    BY <1>3, <2>1 DEF IInv, FirstInv
<1>7. e.to = m /\ Gave(e)
  BY <1>5, <1>6 DEF Activates
<1>8. /\ e \in Edges /\ e.from \in Nodes /\ e.from \notin Active
  BY <1>7, NodesHaveEntry DEF Gave, Active
<1>9. PICK a \in FinalAttempts(e.from) : e \in SelectRoutes(e.from, log[e.from][a].condition)
  BY <1>7 DEF Gave
<1>10. Final(e.from) /\ outcomes[e.from] = Outcome(e.from, a)
  <2>1. Synced(e.from)
    BY <1>8 DEF IInv, SyncInv
  <2> QED
    BY <1>8, <1>9, <2>1, FinalInLog DEF IInv
<1>11. first[e.from] # NoEdge
  <2>1. e.from \notin X
    BY <1>2, <1>7, <1>8
  <2> QED
    BY <1>8, <1>10, <2>1 DEF Final
<1>12. e.from \in propagated
  BY <1>8, <1>10, <1>11 DEF Propagates
<1>13. first[m] # NoEdge
  BY <1>7, <1>9, <1>10, <1>12 DEF IInv, PropagatedInv, Outcome
<1> QED
  BY <1>3, <1>13

LEMMA CheckHistoryKeeps ==
  ASSUME IInv, CheckHistory
  PROVE  IInv'
<1>1. /\ loop = "propagate" /\ abort = "no" /\ \A n \in Nodes : ~Propagates(n)
      /\ UNCHANGED <<log, status, task, memory, stopped, interrupts>> /\ Up
  BY DEF CheckHistory, Up
<1>2. \A n \in Nodes : outcomes[n].status # "none" => first[n] # NoEdge
  BY <1>1, PathsAreFound
<1>3. loop' = "scheduling" /\ UNCHANGED <<abort, failure>>
  BY <1>2 DEF CheckHistory
<1>4. TypeOK'
  BY <1>1, <1>3 DEF IInv, TypeOK, memory
<1>5. /\ HistoryInv' /\ ViaInv' /\ TasksInv' /\ FirstInv' /\ PropagatedInv' /\ Active' = Active
      /\ \A n \in Nodes : Synced(n) => Synced(n)'
  BY <1>1, <1>3, LoopStep
<1>6. SyncInv'
  BY <1>1, <1>3, <1>5 DEF IInv, SyncInv
<1>7. LoopInv'
  <2>1. \A n \in Nodes : ~Propagates(n)' /\ (outcomes'[n].status # "none" => first'[n] # NoEdge)
    BY <1>1, <1>2 DEF Propagates, Final, memory
  <2> QED
    BY <1>1, <1>3, <2>1 DEF IInv, LoopInv, Up
<1>8. FailureInv' /\ RescuesAreClosed'
  BY <1>1, <1>3, <1>5 DEF IInv, FailureInv, Judgement, RescuesAreClosed
<1> QED
  BY <1>4, <1>5, <1>6, <1>7, <1>8 DEF IInv

LEMMA EdgesAreReal ==
  ASSUME NEW e \in Edges
  PROVE  /\ e # NoEdge /\ e # EntryEdge /\ e.from \in Nodes /\ e.to \in Nodes
         /\ e.to # Entry /\ EntryEdge # NoEdge
<1>1. e.from \in Nodes /\ e.to \in Nodes /\ e.to # Entry
  BY NodesHaveEntry
<1>2. e.from # 0
  BY <1>1, DagRunnerAssumption DEF DagRunnerAssumption
<1> QED
  BY <1>1, <1>2 DEF NoEdge, EntryEdge

LEMMA PropagateKeeps ==
  ASSUME IInv, NEW n \in Nodes, Propagate(n)
  PROVE  IInv'
<1> DEFINE routes == SelectRoutes(n, outcomes[n].condition)
           from(m) == {e \in routes : e.to = m}
           handled == routes # {} \/ (n \in Terminals /\ outcomes[n].status = "succeeded")
<1>1. /\ loop = "propagate" /\ abort = "no" /\ Propagates(n)
      /\ UNCHANGED <<log, status, task, outcomes, stopped, interrupts>> /\ Up
  BY DEF Propagate, Up
<1>2. n \notin Active /\ Final(n) /\ first[n] # NoEdge /\ n \notin propagated
  BY <1>1 DEF IInv, PropagatedInv, Propagates
<1>3. \A e \in routes : e \in Edges /\ e.from = n
  BY DEF SelectRoutes
<1>4. CASE ~handled
  <2>1. GiveUp("UNHANDLED_NODE_OUTCOME") /\ UNCHANGED <<propagated, first>>
    BY <1>4 DEF Propagate
  <2>2. /\ UNCHANGED <<log, task, memory, status>> /\ loop' = "draining" /\ abort' = "error"
        /\ failure' = "UNHANDLED_NODE_OUTCOME" /\ Up'
    BY <1>1, <2>1 DEF GiveUp, memory, Up
  <2>3. TypeOK'
    BY <1>1, <2>2 DEF IInv, TypeOK, memory
  <2>4. /\ HistoryInv' /\ ViaInv' /\ TasksInv' /\ FirstInv' /\ PropagatedInv' /\ Active' = Active
    BY <1>1, <2>2, LoopStep
  <2>5. SyncInv' /\ LoopInv' /\ FailureInv' /\ RescuesAreClosed'
    BY <1>1, <2>2, <2>4 DEF IInv, SyncInv, LoopInv, FailureInv, Judgement, RescuesAreClosed, Up
  <2> QED
    BY <2>3, <2>4, <2>5 DEF IInv
<1>5. CASE handled
  <2>1. /\ propagated' = propagated \cup {n}
        /\ first' = [m \in Nodes |-> IF first[m] = NoEdge /\ from(m) # {}
                                       THEN CHOOSE e \in from(m) : TRUE ELSE first[m]]
        /\ UNCHANGED <<loop, abort, failure>>
    BY <1>5 DEF Propagate
  <2>2. ASSUME NEW m \in Nodes
        PROVE  \/ first'[m] = first[m] /\ (first[m] # NoEdge \/ from(m) = {})
               \/ /\ first[m] = NoEdge /\ first'[m] \in routes /\ first'[m].to = m
                  /\ first'[m] \in Edges /\ first'[m].from = n /\ first'[m] # NoEdge
    <3>1. CASE first[m] = NoEdge /\ from(m) # {}
      <4>1. first'[m] = CHOOSE e \in from(m) : TRUE
        BY <2>1, <3>1
      <4>2. first'[m] \in from(m)
        <5> HIDE DEF from
        <5> QED
          BY <3>1, <4>1
      <4>3. first'[m] \in routes /\ first'[m].to = m
        BY <4>2
      <4> HIDE DEF routes, from
      <4>4. first'[m] \in Edges /\ first'[m].from = n
        BY <1>3, <4>3
      <4> QED
        BY <3>1, <4>3, <4>4, EdgesAreReal
    <3>2. CASE ~(first[m] = NoEdge /\ from(m) # {})
      BY <2>1, <3>2
    <3> QED
      BY <3>1, <3>2
  <2> HIDE DEF from
  <2>3. TypeOK'
    <3>1. \A m \in Nodes : first'[m] \in Edges \cup {EntryEdge, NoEdge}
      BY <2>2 DEF IInv, TypeOK
    <3>2. first' = [m \in Nodes |-> first'[m]]
      BY <2>1
    <3>3. first' \in [Nodes -> Edges \cup {EntryEdge, NoEdge}]
      BY <3>1, <3>2
    <3> QED
      BY <1>1, <2>1, <3>3 DEF IInv, TypeOK
  <2>4. HistoryInv'
    BY <1>1 DEF IInv, HistoryInv, EntryShape, AttemptOrder, MayFollow, CanRescue, Outcome, Begun, HasEnded
  <2>5. Active' = Active
    BY <1>1 DEF Active
  <2>6. ASSUME NEW m \in Nodes, NEW e, Activates(e, m) PROVE Activates(e, m)'
    BY <1>1, <2>6 DEF Activates, Gave, FinalAttempts, CanRescue, Outcome
  <2>7. ViaInv'
    <3> SUFFICES ASSUME NEW m \in Nodes, NEW a \in Attempts, Begun(m, a)
                 PROVE  Activates(log[m][a].via, m)'
      BY <1>1 DEF ViaInv, Begun
    <3> DEFINE e == log[m][a].via
    <3>1. Activates(e, m) /\ e' = e
      BY <1>1 DEF IInv, ViaInv
    <3> HIDE DEF e
    <3>2. Activates(e, m)'
      BY <2>6, <3>1
    <3> QED
      BY <3>2 DEF e
  <2>8. TasksInv'
    <3> SUFFICES ASSUME NEW m \in Active
                 PROVE  TaskInv(m)'
      BY <2>5 DEF TasksInv
    <3>1. m \in Nodes /\ TaskInv(m)
      BY <1>1 DEF IInv, TasksInv, Active
    <3> DEFINE e == task[m].via
    <3>2. Activates(e, m) /\ e' = e
      BY <1>1, <3>1 DEF TaskInv
    <3>3. Activates(e, m)'
      <4> HIDE DEF e
      <4> QED
        BY <2>6, <3>1, <3>2
    <3>4. PhaseInv(m, task[m].attempt)'
      BY <1>1, <2>1, <3>1 DEF TaskInv, PhaseInv, HasEnded, CanRescue, Outcome
    <3>5. task[m].attempt > 1 => MayFollow(m, task[m].attempt - 1)'
      BY <1>1, <3>1 DEF TaskInv, MayFollow, CanRescue, Outcome
    <3> QED
      BY <1>1, <3>1, <3>3, <3>4, <3>5 DEF TaskInv, Begun
  <2>9. SyncInv'
    <3>1. \A m \in Nodes : Synced(m) => Synced(m)'
      BY <1>1 DEF Synced, Remembers, HasEnded, Outcome, Begun
    <3> QED
      BY <1>1, <2>1, <2>5, <3>1 DEF IInv, SyncInv
  <2>10. FirstInv'
    <3>1. first'[Entry] = EntryEdge
      BY <2>2, NodesHaveEntry, EdgesAreReal DEF IInv, FirstInv
    <3>2. ASSUME NEW m \in Nodes, first'[m] # NoEdge
          PROVE  \/ m = Entry /\ first'[m] = EntryEdge
                 \/ /\ first'[m] \in Edges /\ first'[m].to = m /\ first'[m].from \in propagated'
                    /\ first'[m] \in SelectRoutes(first'[m].from, outcomes[first'[m].from].condition)
      <4>1. CASE first'[m] = first[m] /\ first[m] # NoEdge
        BY <2>1, <4>1 DEF IInv, FirstInv
      <4>2. CASE /\ first'[m] \in routes /\ first'[m].to = m
                 /\ first'[m] \in Edges /\ first'[m].from = n
        BY <2>1, <4>2
      <4> QED
        BY <2>2, <3>2, <4>1, <4>2
    <3> QED
      BY <1>1, <3>1, <3>2 DEF FirstInv
  <2>11. PropagatedInv'
    <3>1. ASSUME NEW m \in propagated'
          PROVE  /\ Final(m) /\ m \notin Active /\ first'[m] # NoEdge
                 /\ \/ SelectRoutes(m, outcomes[m].condition) # {}
                    \/ m \in Terminals /\ outcomes[m].status = "succeeded"
                 /\ \A e \in SelectRoutes(m, outcomes[m].condition) : first'[e.to] # NoEdge
      <4>1. \A k \in Nodes : first[k] # NoEdge => first'[k] # NoEdge
        BY <2>2
      <4>2. CASE m \in propagated
        <5>1. /\ Final(m) /\ m \notin Active /\ first[m] # NoEdge /\ m \in Nodes
              /\ \/ SelectRoutes(m, outcomes[m].condition) # {}
                 \/ m \in Terminals /\ outcomes[m].status = "succeeded"
              /\ \A e \in SelectRoutes(m, outcomes[m].condition) : first[e.to] # NoEdge
          BY <4>2 DEF IInv, PropagatedInv, TypeOK
        <5>2. \A e \in SelectRoutes(m, outcomes[m].condition) : e.to \in Nodes
          BY NodesHaveEntry DEF SelectRoutes
        <5> QED
          BY <4>1, <5>1, <5>2
      <4>3. CASE m = n
        <5>1. ASSUME NEW e \in routes PROVE first'[e.to] # NoEdge
          <6>1. e.to \in Nodes /\ e \in from(e.to)
            BY <1>3, NodesHaveEntry DEF from
          <6> QED
            BY <2>2, <6>1
        <5> QED
          BY <1>2, <1>5, <4>1, <4>3, <5>1
      <4> QED
        BY <2>1, <4>2, <4>3
    <3>2. \A m \in Nodes : Final(m)' <=> Final(m)
      BY <1>1 DEF Final
    <3>3. propagated' \subseteq Nodes /\ Active \subseteq Nodes
      BY <2>3 DEF TypeOK, Active
    <3>4. outcomes' = outcomes /\ \A m \in Active : ~Final(m)
      BY <1>1 DEF IInv, PropagatedInv
    <3> QED
      BY <2>5, <3>1, <3>2, <3>3, <3>4 DEF PropagatedInv
  <2>12. LoopInv' /\ FailureInv' /\ RescuesAreClosed'
    BY <1>1, <2>1, <2>5 DEF IInv, LoopInv, FailureInv, Judgement, RescuesAreClosed, Up
  <2> QED
    BY <2>3, <2>4, <2>7, <2>8, <2>9, <2>10, <2>11, <2>12 DEF IInv
<1> QED
  BY <1>4, <1>5

\* What a node that may be started begins with fits what the log says of it.
LEMMA NewTaskIsInOrder ==
  ASSUME IInv, loop = "scheduling", NEW n \in Startable
  PROVE  /\ NewTask(n).phase \in {"rescuing", "starting"}
         /\ NewTask(n).attempt \in 1..(RescueLimit[n] + 1)
         /\ NewTask(n).rescue <=> NewTask(n).attempt > 1
         /\ \A b \in Attempts : b > NewTask(n).attempt => ~Begun(n, b)
         /\ NewTask(n).attempt > 1 => MayFollow(n, NewTask(n).attempt - 1)
         /\ Activates(NewTask(n).via, n)
         /\ \A b \in Attempts : Begun(n, b) => log[n][b].via = NewTask(n).via
         /\ \A a \in Attempts : a = NewTask(n).attempt =>
              /\ NewTask(n).phase = "rescuing" => a > 1 /\ log[n][a].status = "none"
              /\ NewTask(n).phase = "starting" =>
                    \/ log[n][a].status = "none" /\ (a > 1 => log[n][a].rescue = "started")
                    \/ log[n][a].status = "interrupted"
         /\ FinalAttempts(n) = {} /\ NewTask(n).rescue \in BOOLEAN
<1>1. /\ n \in Nodes /\ first[n] # NoEdge /\ n \notin propagated /\ n \notin Active /\ ~Final(n)
      /\ TypeOK /\ HistoryInv /\ abort = "no" /\ RescueLimit[n] \in Nat
  BY NodesHaveEntry DEF Startable, IInv, LoopInv
<1>2. Synced(n)
  BY <1>1 DEF IInv, SyncInv
<1>3. FinalAttempts(n) = {}
  BY <1>1, <1>2, FinalInLog
<1>4. CASE outcomes[n] = NoOutcome /\ \A a \in Attempts : ~Begun(n, a)
  <2>1. /\ NewTask(n).phase = "starting" /\ NewTask(n).attempt = 1
        /\ NewTask(n).rescue \in BOOLEAN /\ ~NewTask(n).rescue /\ NewTask(n).via = first[n]
    <3>1. outcomes[n].status = "none"
      BY <1>4 DEF NoOutcome
    <3>2. NewTask(n).phase = "starting" /\ NewTask(n).attempt = 1 /\ NewTask(n).via = first[n]
      BY <3>1 DEF NewTask
    <3>3. /\ NewTask(n).rescue \in BOOLEAN
          /\ NewTask(n).rescue <=> (outcomes[n].status = "failed" \/ NewTask(n).attempt > 1)
      BY DEF NewTask
    <3> QED
      BY <3>1, <3>2, <3>3
  <2>2. Activates(first[n], n)
    <3>1. CASE n = Entry /\ first[n] = EntryEdge
      BY <3>1 DEF Activates
    <3> DEFINE e == first[n]
    <3>2. CASE /\ e \in Edges /\ e.to = n /\ e.from \in propagated
               /\ e \in SelectRoutes(e.from, outcomes[e.from].condition)
      <4>1. Final(e.from) /\ e.from \notin Active /\ e.from \in Nodes
        BY <3>2, NodesHaveEntry DEF IInv, PropagatedInv
      <4>2. Synced(e.from)
        BY <1>1, <4>1 DEF IInv, SyncInv
      <4>3. PICK a \in FinalAttempts(e.from) : outcomes[e.from] = Outcome(e.from, a)
        BY <1>1, <4>1, <4>2, FinalInLog
      <4>4. task[e.from].phase = "idle"
        BY <4>1 DEF Active
      <4>5. outcomes[e.from].condition = log[e.from][a].condition
        BY <4>3 DEF Outcome
      <4> HIDE DEF e
      <4>6. Gave(e)
        BY <3>2, <4>3, <4>4, <4>5 DEF Gave
      <4> QED
        BY <3>2, <4>6 DEF Activates, e
    <3> QED
      BY <1>1, <3>1, <3>2 DEF IInv, FirstInv
  <2>3. \A b \in Attempts : b = 1 => log[n][b].status = "none"
    BY <1>4 DEF Begun
  <2>4. 1 \in 1..(RescueLimit[n] + 1) /\ ~(1 > 1)
    BY <1>1
  <2> QED
    BY <1>3, <1>4, <2>1, <2>2, <2>3, <2>4
<1>5. ASSUME NEW a \in Attempts, Remembers(n, a) 
      PROVE  /\ NewTask(n).phase \in {"rescuing", "starting"}
             /\ NewTask(n).attempt \in 1..(RescueLimit[n] + 1)
             /\ NewTask(n).rescue <=> NewTask(n).attempt > 1
             /\ \A b \in Attempts : b > NewTask(n).attempt => ~Begun(n, b)
             /\ NewTask(n).attempt > 1 => MayFollow(n, NewTask(n).attempt - 1)
             /\ Activates(NewTask(n).via, n)
             /\ \A b \in Attempts : Begun(n, b) => log[n][b].via = NewTask(n).via
             /\ \A b \in Attempts : b = NewTask(n).attempt =>
                  /\ NewTask(n).phase = "rescuing" => b > 1 /\ log[n][b].status = "none"
                  /\ NewTask(n).phase = "starting" =>
                        \/ log[n][b].status = "none" /\ (b > 1 => log[n][b].rescue = "started")
                        \/ log[n][b].status = "interrupted"
             /\ NewTask(n).rescue \in BOOLEAN
  <2>1. /\ a \in Nat \ {0} /\ Begun(n, a) /\ a <= RescueLimit[n] + 1
        /\ outcomes[n].status = log[n][a].status /\ outcomes[n].via = log[n][a].via
        /\ outcomes[n].attempt = a
    BY <1>1, <1>5, AttemptNumbers DEF Remembers, Begun, HistoryInv, EntryShape, Outcome
  <2>2. Activates(log[n][a].via, n)
    BY <1>1, <2>1 DEF IInv, ViaInv
  <2>3. ASSUME NEW b \in Attempts, Begun(n, b) PROVE log[n][b].via = log[n][a].via
    <3>1. b \in Nat
      BY AttemptNumbers
    <3>2. CASE b < a
      BY <1>1, <2>1, <3>2 DEF HistoryInv, AttemptOrder
    <3>3. CASE a < b
      BY <1>1, <2>3, <3>3 DEF HistoryInv, AttemptOrder
    <3> QED
      BY <2>1, <3>1, <3>2, <3>3
  <2>4. CASE log[n][a].status = "interrupted"
    <3>1. /\ NewTask(n).phase = "starting" /\ NewTask(n).attempt = a
          /\ NewTask(n).rescue \in BOOLEAN /\ (NewTask(n).rescue <=> a > 1)
          /\ NewTask(n).via = log[n][a].via
      BY <2>1, <2>4 DEF NewTask
    <3>2. ASSUME NEW b \in Attempts, b > a, Begun(n, b) PROVE FALSE
      <4>1. MayFollow(n, a)
        BY <1>1, <2>1, <3>2, AttemptNumbers DEF HistoryInv, AttemptOrder
      <4> QED
        BY <2>4, <4>1 DEF MayFollow, CanRescue, Outcome
    <3>3. a > 1 => MayFollow(n, a - 1)
      <4>1. a > 1 => a - 1 \in 1..a /\ a - 1 < a
        BY <2>1
      <4> QED
        BY <1>1, <2>1, <4>1, AttemptNumbers DEF HistoryInv, AttemptOrder
    <3>4. a \in 1..(RescueLimit[n] + 1)
      BY <1>1, <2>1
    <3> QED
      BY <2>2, <2>3, <2>4, <3>1, <3>2, <3>3, <3>4
  <2>5. CASE log[n][a].status = "failed"
    <3>1. CanRescue(n, outcomes[n]) /\ CanRescue(n, Outcome(n, a)) /\ a - 1 < RescueLimit[n]
      BY <1>1, <1>5, <2>1, <2>5 DEF Final, Remembers, CanRescue
    <3> DEFINE k == a + 1
    <3>2. NewTask(n) = [phase |-> "rescuing", attempt |-> k, rescue |-> TRUE, via |-> log[n][a].via]
      BY <2>1, <2>5 DEF NewTask
    <3>3. k \in 1..(RescueLimit[n] + 1) /\ k > 1 /\ k - 1 = a /\ k > a
      BY <1>1, <2>1, <3>1
    <3>4. k \in Attempts /\ log[n][k].status = "none"
      BY <1>1, <1>5, <3>3, AttemptNumbers DEF Remembers
    <3>5. ASSUME NEW b \in Attempts, b > k, Begun(n, b) PROVE FALSE
      <4>1. k < b
        BY <3>3, <3>5, AttemptNumbers
      <4>2. MayFollow(n, k)
        BY <1>1, <3>4, <3>5, <4>1 DEF HistoryInv, AttemptOrder
      <4> QED
        BY <3>4, <4>2 DEF MayFollow, CanRescue, Outcome
    <3>6. MayFollow(n, a)
      BY <1>5, <2>5, <3>1 DEF MayFollow, Remembers, HasEnded
    <3> HIDE DEF k
    <3> QED
      BY <2>2, <2>3, <3>2, <3>3, <3>4, <3>5, <3>6
  <2>6. log[n][a].status # "succeeded"
    BY <1>1, <2>1 DEF Final, CanRescue
  <2> QED
    BY <1>5, <2>4, <2>5, <2>6 DEF Remembers
<1> QED
  BY <1>2, <1>3, <1>4, <1>5 DEF Synced

\* A task that begins or ends, of a node without a final result or with one, leaves every
\* activation, and every other task, as it was.
LEMMA TaskChange ==
  ASSUME IInv, Up, NEW n \in Nodes, UNCHANGED log, abort # "no" => abort' # "no",
         \A m \in Nodes \ {n} : task'[m] = task[m],
         FinalAttempts(n) # {} => task'[n].phase = "idle"
  PROVE  /\ HistoryInv' /\ ViaInv'
         /\ \A m \in Active \ {n} : TaskInv(m)'
         /\ \A m \in Nodes : \A e : Activates(e, m) => Activates(e, m)'
<1>1. HistoryInv'
  BY DEF IInv, HistoryInv, EntryShape, AttemptOrder, MayFollow, CanRescue, Outcome, Begun, HasEnded
<1>2. ASSUME NEW m \in Nodes, NEW e, Activates(e, m) PROVE Activates(e, m)'
  <2>1. CASE m = Entry /\ e = EntryEdge
    BY <2>1 DEF Activates
  <2>2. CASE e.to = m /\ Gave(e)
    <3>1. e \in Edges /\ e.from \in Nodes /\ task[e.from].phase = "idle"
      BY <2>2, NodesHaveEntry DEF Gave
    <3>2. PICK a \in FinalAttempts(e.from) : e \in SelectRoutes(e.from, log[e.from][a].condition)
      BY <2>2 DEF Gave
    <3>3. a \in FinalAttempts(e.from)' /\ log'[e.from][a] = log[e.from][a]
      BY <3>2 DEF FinalAttempts, CanRescue, Outcome
    <3>4. task'[e.from].phase = "idle"
      BY <3>1, <3>2
    <3> QED
      BY <2>2, <3>1, <3>2, <3>3, <3>4 DEF Activates, Gave
  <2> QED
    BY <1>2, <2>1, <2>2 DEF Activates
<1>3. ViaInv'
  <2> SUFFICES ASSUME NEW m \in Nodes, NEW a \in Attempts, Begun(m, a)
               PROVE  Activates(log[m][a].via, m)'
    BY DEF ViaInv, Begun
  <2> DEFINE e == log[m][a].via
  <2>1. Activates(e, m) /\ e' = e
    BY DEF IInv, ViaInv
  <2> HIDE DEF e
  <2>2. Activates(e, m)'
    BY <1>2, <2>1
  <2> QED
    BY <2>2 DEF e
<1>4. ASSUME NEW m \in Active, m # n PROVE TaskInv(m)'
  <2>1. m \in Nodes /\ TaskInv(m) /\ task'[m] = task[m]
    BY <1>4 DEF IInv, TasksInv, Active
  <2> DEFINE e == task[m].via
  <2>2. Activates(e, m) /\ e' = e
    BY <2>1 DEF TaskInv
  <2>3. Activates(e, m)'
    <3> HIDE DEF e
    <3> QED
      BY <1>2, <2>1, <2>2
  <2>4. PhaseInv(m, task[m].attempt)'
    BY <2>1 DEF TaskInv, PhaseInv, HasEnded, CanRescue, Outcome
  <2>5. task[m].attempt > 1 => MayFollow(m, task[m].attempt - 1)'
    BY <2>1 DEF TaskInv, MayFollow, CanRescue, Outcome
  <2> QED
    BY <2>1, <2>3, <2>4, <2>5 DEF TaskInv, Begun
<1> QED
  BY <1>1, <1>2, <1>3, <1>4

LEMMA ScheduleKeeps ==
  ASSUME IInv, NEW n \in Nodes, Schedule(n)
  PROVE  IInv'
<1>1. /\ loop = "scheduling" /\ n \in Startable /\ task' = [task EXCEPT ![n] = NewTask(n)]
      /\ UNCHANGED <<log, status, loop, memory, ending>> /\ Up
  BY DEF Schedule, Up
<1>2. /\ n \notin Active /\ n \notin propagated /\ ~Final(n) /\ TypeOK /\ abort = "no"
      /\ task \in [Nodes -> [phase : Phases, attempt : Nat, rescue : BOOLEAN,
                             via : Edges \cup {EntryEdge, NoEdge}]]
  BY <1>1 DEF Startable, IInv, TypeOK, LoopInv
<1> DEFINE new == NewTask(n)
<1>3. /\ new.phase \in {"rescuing", "starting"}
      /\ new.attempt \in 1..(RescueLimit[n] + 1)
      /\ new.rescue <=> new.attempt > 1
      /\ \A b \in Attempts : b > new.attempt => ~Begun(n, b)
      /\ new.attempt > 1 => MayFollow(n, new.attempt - 1)
      /\ Activates(new.via, n)
      /\ \A b \in Attempts : Begun(n, b) => log[n][b].via = new.via
      /\ \A a \in Attempts : a = new.attempt =>
           /\ new.phase = "rescuing" => a > 1 /\ log[n][a].status = "none"
           /\ new.phase = "starting" =>
                 \/ log[n][a].status = "none" /\ (a > 1 => log[n][a].rescue = "started")
                 \/ log[n][a].status = "interrupted"
      /\ FinalAttempts(n) = {} /\ new.rescue \in BOOLEAN
  BY <1>1, NewTaskIsInOrder
<1>4. task'[n] = new /\ \A m \in Nodes \ {n} : task'[m] = task[m]
  BY <1>1, <1>2
<1>5. new \in [phase : Phases, attempt : Nat, rescue : BOOLEAN,
               via : Edges \cup {EntryEdge, NoEdge}]
  <2>1. new = [phase |-> new.phase, attempt |-> new.attempt, rescue |-> new.rescue, via |-> new.via]
    BY DEF NewTask
  <2>2. new.phase \in Phases /\ new.attempt \in Nat
    BY <1>3, NodesHaveEntry DEF Phases
  <2>3. new.via \in Edges \cup {EntryEdge, NoEdge}
    BY <1>3 DEF Activates, Gave
  <2> HIDE DEF new
  <2> QED
    BY <1>3, <2>1, <2>2, <2>3
<1> HIDE DEF new
<1>6. TypeOK'
  <2>1. task' \in [Nodes -> [phase : Phases, attempt : Nat, rescue : BOOLEAN,
                             via : Edges \cup {EntryEdge, NoEdge}]]
    BY <1>1, <1>2, <1>5 DEF new
  <2> QED
    BY <1>1, <1>2, <2>1 DEF TypeOK, memory, ending
<1>7. /\ HistoryInv' /\ ViaInv'
      /\ \A m \in Active \ {n} : TaskInv(m)'
      /\ \A m \in Nodes : \A e : Activates(e, m) => Activates(e, m)'
  <2>1. UNCHANGED log /\ (abort # "no" => abort' # "no")
    BY <1>1 DEF ending
  <2> QED
    BY <1>1, <1>3, <1>4, <2>1, TaskChange
<1>8. Active' = Active \cup {n}
  BY <1>2, <1>3, <1>4 DEF Active
<1>9. TaskInv(n)'
  <2>1. PICK a \in Attempts : a = new.attempt
    BY <1>3, AttemptNumbers
  <2>2. PICK e : e = new.via
    OBVIOUS
  <2>3. Activates(e, n)'
    BY <1>3, <1>7, <2>2
  <2>4. PhaseInv(n, a)'
    BY <1>1, <1>3, <1>4, <2>1 DEF PhaseInv, InExecution
  <2>5. a > 1 => MayFollow(n, a - 1)'
    BY <1>1, <1>3, <2>1 DEF MayFollow, CanRescue, Outcome
  <2>6. \A b \in Attempts : /\ b > a => ~Begun(n, b)'
                            /\ Begun(n, b)' => log'[n][b].via = e
    BY <1>1, <1>3, <2>1, <2>2 DEF Begun
  <2>7. /\ task'[n].attempt = a /\ task'[n].via = e /\ a \in 1..(RescueLimit[n] + 1)
        /\ task'[n].rescue <=> a > 1
    BY <1>3, <1>4, <2>1, <2>2
  <2> QED
    BY <2>3, <2>4, <2>5, <2>6, <2>7 DEF TaskInv
<1>10. TasksInv'
  BY <1>7, <1>8, <1>9 DEF TasksInv
<1>11. SyncInv'
  <2>1. \A m \in Nodes : Synced(m) => Synced(m)'
    BY <1>1 DEF Synced, Remembers, HasEnded, Outcome, Begun, memory
  <2> QED
    BY <1>1, <1>2, <1>8, <2>1 DEF IInv, SyncInv
<1>12. FirstInv' /\ PropagatedInv'
  BY <1>1, <1>2, <1>8 DEF IInv, FirstInv, PropagatedInv, Final, memory
<1>13. LoopInv'
  BY <1>1 DEF IInv, LoopInv, Up, Propagates, Final, memory, ending
<1>14. FailureInv'
  <2>1. failure = "none" /\ failure' = "none"
    BY <1>1 DEF IInv, FailureInv, ending
  <2> QED
    BY <1>1, <1>3, <1>4, <2>1 DEF IInv, FailureInv, Judgement
<1>15. RescuesAreClosed'
  BY <1>1 DEF IInv, LoopInv, RescuesAreClosed
<1> QED
  BY <1>6, <1>7, <1>10, <1>11, <1>12, <1>13, <1>14, <1>15 DEF IInv

\* When nothing is active and nothing may be started, all that was activated has
\* propagated, and the log has a success and no attempt under way.
LEMMA NothingIsLeft ==
  ASSUME IInv, loop = "scheduling", Startable = {}, Active = {}
  PROVE  /\ {n \in Nodes : first[n] # NoEdge} \subseteq propagated
         /\ AcceptsRunSucceeded
         /\ \A n \in Nodes, a \in Attempts : log[n][a].rescue # "started"
<1>1. /\ TypeOK /\ HistoryInv /\ abort = "no" /\ \A n \in Nodes : Synced(n)
      /\ \A n \in Nodes : ~Propagates(n) /\ (outcomes[n].status # "none" => first[n] # NoEdge)
  BY DEF IInv, SyncInv, LoopInv
<1>2. \A n \in Nodes : first[n] # NoEdge => n \in propagated
  BY <1>1 DEF Startable, Propagates
<1>3. \E n \in Nodes, a \in Attempts : log[n][a].status = "succeeded"
  <2>1. propagated \in SUBSET Nodes /\ Entry \in propagated
    <3>1. first[Entry] # NoEdge
      BY DEF IInv, FirstInv, EntryEdge, NoEdge
    <3> QED
      BY <1>1, <1>2, <3>1, NodesHaveEntry DEF TypeOK
  <2>2. PICK n \in propagated : \A e \in Edges : e.from = n => e.to \notin propagated
    BY <2>1, SomeLast
  <2>3. SelectRoutes(n, outcomes[n].condition) = {}
    <3> SUFFICES ASSUME NEW e \in SelectRoutes(n, outcomes[n].condition) PROVE FALSE
      OBVIOUS
    <3>1. e \in Edges /\ e.from = n /\ e.to \in Nodes
      BY NodesHaveEntry DEF SelectRoutes
    <3>2. first[e.to] # NoEdge
      BY DEF IInv, PropagatedInv
    <3> QED
      BY <1>2, <2>2, <3>1, <3>2
  <2>4. outcomes[n].status = "succeeded" /\ n \in Nodes
    BY <2>1, <2>3 DEF IInv, PropagatedInv
  <2>5. PICK a \in Attempts : Remembers(n, a)
    BY <1>1, <2>4 DEF Synced, NoOutcome
  <2> QED
    BY <2>4, <2>5 DEF Remembers, Outcome
<1>4. ASSUME NEW n \in Nodes, NEW a \in Attempts
      PROVE  log[n][a].status \notin {"running", "interrupted"} /\ log[n][a].rescue # "started"
  <2>1. CASE ~Begun(n, a)
    BY <2>1 DEF Begun
  <2>2. CASE Begun(n, a)
    <3>1. PICK c \in Attempts : Remembers(n, c)
      BY <1>1, <2>2 DEF Synced
    <3>2. outcomes[n].status # "none" /\ n \in propagated
      BY <1>1, <1>2, <3>1 DEF Remembers, Outcome
    <3>3. Final(n)
      BY <3>2 DEF IInv, PropagatedInv
    <3>4. c \in FinalAttempts(n)
      BY <3>1, <3>3 DEF Final, Remembers, FinalAttempts, Outcome
    <3>5. a <= c /\ a \in Nat /\ c \in Nat
      BY <1>1, <2>2, <3>4, FinalIsLast, AttemptNumbers
    <3>6. CASE a = c
      BY <3>1, <3>4, <3>6 DEF Remembers, FinalAttempts, HasEnded
    <3>7. CASE a < c
      <4>1. Begun(n, c)
        BY <3>1 DEF Remembers, Begun
      <4>2. MayFollow(n, a)
        BY <1>1, <3>7, <4>1 DEF HistoryInv, AttemptOrder
      <4> QED
        BY <4>2 DEF MayFollow, CanRescue, Outcome
    <3> QED
      BY <3>5, <3>6, <3>7
  <2> QED
    BY <2>1, <2>2
<1> QED
  BY <1>2, <1>3, <1>4 DEF AcceptsRunSucceeded

LEMMA EndRunKeeps ==
  ASSUME IInv, EndRun
  PROVE  IInv'
<1>1. /\ loop = "scheduling" /\ Startable = {} /\ Active = {} /\ Up
      /\ UNCHANGED <<log, task, memory, stopped, interrupts>>
  BY DEF EndRun, Up
<1>2. /\ {n \in Nodes : first[n] # NoEdge} \subseteq propagated
      /\ AcceptsRunSucceeded
      /\ \A n \in Nodes, a \in Attempts : log[n][a].rescue # "started"
  BY <1>1, NothingIsLeft
<1>3. status' = "succeeded" /\ loop' = "over" /\ UNCHANGED <<abort, failure>> /\ ~Up'
  BY <1>2 DEF EndRun, Up
<1>4. TypeOK'
  BY <1>1, <1>3 DEF IInv, TypeOK, memory, Ended
<1>5. /\ HistoryInv' /\ ViaInv' /\ TasksInv' /\ FirstInv' /\ PropagatedInv' /\ Active' = Active
  BY <1>1, <1>3, LoopStep
<1>6. SyncInv' /\ LoopInv' /\ FailureInv'
  BY <1>1, <1>3, <1>5 DEF IInv, SyncInv, LoopInv, FailureInv, Judgement, Up
<1>7. RescuesAreClosed'
  BY <1>1, <1>2 DEF RescuesAreClosed
<1> QED
  BY <1>4, <1>5, <1>6, <1>7 DEF IInv

LEMMA ReapKeeps ==
  ASSUME IInv, NEW n \in Nodes, Reap(n)
  PROVE  IInv'
<1>1. /\ loop = "waiting" /\ Settled(n) /\ task' = [task EXCEPT ![n] = NoTask] /\ Up
      /\ UNCHANGED <<log, status, first, propagated, stopped, interrupts>>
  BY DEF Reap, Up
<1>2. n \in Active /\ TaskInv(n) /\ TypeOK /\ HistoryInv
  BY <1>1 DEF Settled, Active, IInv, TasksInv
<1>3. PICK a \in Attempts : a = task[n].attempt /\ PhaseInv(n, a) /\ a \in Nat
  BY <1>2, TaskTypes DEF TaskInv
<1>4. /\ \A b \in Attempts : b > a => ~Begun(n, b)
      /\ task[n].phase = "rejected" => n \in Judged
  BY <1>2, <1>3 DEF TaskInv, IInv, FailureInv
<1>5. task'[n] = NoTask /\ task'[n].phase = "idle" /\ \A m \in Nodes \ {n} : task'[m] = task[m]
  BY <1>1, <1>2 DEF TypeOK, NoTask
<1>6. Active' = Active \ {n}
  BY <1>2, <1>5 DEF Active
<1>7. \/ /\ task[n].phase = "completed" /\ outcomes' = [outcomes EXCEPT ![n] = Outcome(n, a)]
         /\ loop' = "propagate" /\ UNCHANGED <<abort, failure>>
      \/ /\ task[n].phase = "cancelled" /\ loop' = "propagate"
         /\ UNCHANGED <<outcomes, abort, failure>>
      \/ /\ task[n].phase = "rejected" /\ UNCHANGED outcomes /\ loop' = "draining"
         /\ failure' = "UNEXPECTED" /\ abort' = "error" 
      \/ /\ task[n].phase = "rejected" /\ loop' = "draining" /\ UNCHANGED <<outcomes, abort, failure>>
  BY <1>3 DEF Reap, GiveUp
<1>8. abort # "no" => abort' # "no"
  BY <1>7
<1>9. /\ HistoryInv' /\ ViaInv'
      /\ \A m \in Active \ {n} : TaskInv(m)'
  <2>1. UNCHANGED log
    BY <1>1
  <2> QED
    BY <1>1, <1>5, <1>8, <2>1, TaskChange
<1>10. TasksInv'
  BY <1>6, <1>9 DEF TasksInv
<1>11. \A m \in Nodes \ {n} : outcomes'[m] = outcomes[m]
  BY <1>2, <1>7 DEF TypeOK
<1>12. TypeOK'
  <2>1. task' \in [Nodes -> [phase : Phases, attempt : Nat, rescue : BOOLEAN,
                             via : Edges \cup {EntryEdge, NoEdge}]]
    <3>1. NoTask \in [phase : Phases, attempt : Nat, rescue : BOOLEAN,
                      via : Edges \cup {EntryEdge, NoEdge}]
      BY DEF NoTask, Phases
    <3> HIDE DEF NoTask
    <3> QED
      BY <1>1, <1>2, <3>1 DEF TypeOK
  <2>2. outcomes' \in [Nodes -> [status : {"none", "succeeded", "failed", "interrupted"},
                               attempt : Nat, condition : Conditions \cup {"none"},
                               retryable : BOOLEAN, via : Edges \cup {EntryEdge, NoEdge}]]
    <3>1. CASE outcomes' = outcomes
      BY <1>2, <3>1 DEF TypeOK
    <3>2. CASE /\ task[n].phase = "completed"
               /\ outcomes' = [outcomes EXCEPT ![n] = Outcome(n, a)]
      <4>1. HasEnded(n, a) /\ log[n][a] \in Attempt
        BY <1>2, <1>3, <3>2, EntryTypes DEF PhaseInv
      <4>2. Outcome(n, a) \in [status : {"none", "succeeded", "failed", "interrupted"},
                               attempt : Nat, condition : Conditions \cup {"none"},
                               retryable : BOOLEAN, via : Edges \cup {EntryEdge, NoEdge}]
        BY <1>3, <4>1 DEF Outcome, HasEnded, Attempt
      <4> QED
        BY <1>2, <3>2, <4>2 DEF TypeOK
    <3> QED
      BY <1>7, <3>1, <3>2
  <2> QED
    BY <1>1, <1>2, <1>7, <2>1, <2>2 DEF TypeOK
<1>13. SyncInv'
  <2> SUFFICES ASSUME loop' # "draining", abort' = "no", NEW m \in Nodes \ Active'
               PROVE  Synced(m)'
    BY DEF SyncInv
  <2>1. CASE m # n
    <3>1. Synced(m)
      BY <1>1, <1>6, <1>8, <2>1 DEF IInv, SyncInv
    <3> QED
      BY <1>1, <1>11, <2>1, <3>1 DEF Synced, Remembers, HasEnded, Outcome, Begun
  <2>2. CASE m = n
    <3>1. CASE task[n].phase = "completed"
      <4>1. outcomes'[n] = Outcome(n, a)
        BY <1>2, <1>7, <3>1 DEF TypeOK
      <4>2. HasEnded(n, a) /\ log[n][a].rescue # "started"
        BY <1>3, <3>1 DEF PhaseInv
      <4>3. Remembers(n, a)'
        BY <1>1, <1>4, <4>1, <4>2 DEF Remembers, HasEnded, Outcome, Begun
      <4> QED
        BY <2>2, <4>3 DEF Synced
    <3>2. CASE task[n].phase = "cancelled"
      BY <1>3, <1>7, <3>2 DEF PhaseInv
    <3>3. CASE task[n].phase = "rejected"
      BY <1>7, <3>3
    <3> QED
      BY <1>1, <3>1, <3>2, <3>3 DEF Settled
  <2> QED
    BY <2>1, <2>2
<1>14. FirstInv'
  <2>1. n \notin propagated
    BY <1>2 DEF IInv, PropagatedInv
  <2>2. \A m \in propagated : m \in Nodes \ {n}
    BY <1>2, <2>1 DEF TypeOK
  <2>3. \A m \in propagated : outcomes'[m] = outcomes[m]
    BY <1>11, <2>2
  <2> QED
    BY <1>1, <2>3 DEF IInv, FirstInv
<1>15. PropagatedInv'
  <2>1. \A m \in propagated : m \in Nodes \ {n}
    BY <1>2 DEF IInv, PropagatedInv, TypeOK
  <2>2. \A m \in Nodes \ {n} : outcomes'[m] = outcomes[m] /\ (Final(m)' <=> Final(m))
    BY <1>11 DEF Final
  <2>3. Active' \subseteq Nodes \ {n} /\ Active' \subseteq Active
    BY <1>6 DEF Active
  <2> QED
    BY <1>1, <2>1, <2>2, <2>3 DEF IInv, PropagatedInv
<1>16. LoopInv'
  BY <1>1, <1>7 DEF IInv, LoopInv, Up
<1>17. FailureInv'
  <2>1. \A m \in Nodes : task'[m].phase = "rejected" => m \in Judged /\ Judgement(m)'
    BY <1>1, <1>5 DEF IInv, FailureInv, Judgement
  <2>2. CASE failure' = failure
    <3>1. failure = "none"
      BY <1>1 DEF IInv, FailureInv
    <3> QED
      BY <2>1, <2>2, <3>1 DEF FailureInv
  <2>3. CASE task[n].phase = "rejected" /\ failure' = "UNEXPECTED" /\ loop' = "draining"
    <3>1. log[n][a].decision # "none" /\ log[n][a].status = "running" /\ n \in Judged
      BY <1>3, <2>3 DEF PhaseInv, InExecution
    <3>2. n \notin Active'
      BY <1>6
    <3> QED
      BY <1>1, <2>1, <2>3, <3>1, <3>2 DEF FailureInv
  <2> QED
    BY <1>7, <2>2, <2>3
<1>18. RescuesAreClosed'
  BY <1>1 DEF IInv, LoopInv, RescuesAreClosed, Up
<1> QED
  BY <1>9, <1>10, <1>12, <1>13, <1>14, <1>15, <1>16, <1>17, <1>18 DEF IInv

-----------------------------------------------------------------------------
(* Ends, deaths and resumptions                                              *)

\* A final attempt stays final while its status and its retryability stay.
LEMMA FinalStays ==
  ASSUME NEW n, NEW c \in FinalAttempts(n), log'[n][c].status = log[n][c].status,
         log'[n][c].retryable = log[n][c].retryable
  PROVE  c \in FinalAttempts(n)'
<1>1. /\ c \in Attempts /\ log[n][c].status \in {"succeeded", "failed"}
      /\ ~CanRescue(n, Outcome(n, c))
  BY DEF FinalAttempts
<1>2. ~CanRescue(n, Outcome(n, c))'
  BY <1>1 DEF CanRescue, Outcome
<1> QED
  BY <1>1, <1>2 DEF FinalAttempts

\* What an interruption of the run changes of an entry.
LEMMA InterruptedEntries ==
  ASSUME TypeOK, log' = Interrupted(log)
  PROVE  /\ log' \in [Nodes -> [Attempts -> Attempt]]
         /\ \A n \in Nodes, a \in Attempts :
              /\ log[n][a].status = "running" => log'[n][a].status = "interrupted"
              /\ log[n][a].status # "running" => log'[n][a] = log[n][a]
              /\ log'[n][a].via = log[n][a].via /\ log'[n][a].rescue = log[n][a].rescue
              /\ log'[n][a].retryable = log[n][a].retryable
              /\ log'[n][a].condition = log[n][a].condition
              /\ log'[n][a].decision = log[n][a].decision
<1> DEFINE new(n, a) == IF log[n][a].status = "running"
                          THEN [log[n][a] EXCEPT !.status = "interrupted"] ELSE log[n][a]
<1>1. log' = [n \in Nodes |-> [a \in Attempts |-> new(n, a)]]
  BY DEF Interrupted
<1>2. ASSUME NEW n \in Nodes, NEW a \in Attempts
      PROVE  /\ new(n, a) \in Attempt
             /\ log[n][a].status = "running" => new(n, a).status = "interrupted"
             /\ log[n][a].status # "running" => new(n, a) = log[n][a]
             /\ new(n, a).via = log[n][a].via /\ new(n, a).rescue = log[n][a].rescue
             /\ new(n, a).retryable = log[n][a].retryable
             /\ new(n, a).condition = log[n][a].condition
             /\ new(n, a).decision = log[n][a].decision
  BY EntryTypes DEF Attempt
<1> HIDE DEF new, Attempt
<1>3. \A n \in Nodes, a \in Attempts : log'[n][a] = new(n, a)
  BY <1>1
<1>4. log' \in [Nodes -> [Attempts -> Attempt]]
  BY <1>1, <1>2
<1> QED
  BY <1>2, <1>3, <1>4

LEMMA InterruptionKeeps ==
  ASSUME IInv, log' = Interrupted(log), UNCHANGED <<task, memory>>, loop' = "over",
         status' \in {"interrupted", "failed", "cancelled"}, UNCHANGED <<abort, failure>>,
         stopped' \in BOOLEAN, UNCHANGED interrupts
  PROVE  IInv'
<1> HIDE DEF Attempt
<1>1. /\ log' \in [Nodes -> [Attempts -> Attempt]]
      /\ \A n \in Nodes, a \in Attempts :
              /\ log[n][a].status = "running" => log'[n][a].status = "interrupted"
              /\ log[n][a].status # "running" => log'[n][a] = log[n][a]
              /\ log'[n][a].via = log[n][a].via /\ log'[n][a].rescue = log[n][a].rescue
              /\ log'[n][a].retryable = log[n][a].retryable
              /\ log'[n][a].condition = log[n][a].condition
              /\ log'[n][a].decision = log[n][a].decision
  BY InterruptedEntries DEF IInv
<1>2. TypeOK'
  BY <1>1 DEF IInv, TypeOK, memory, Ended
<1>3. Active' = Active /\ ~Up'
  BY DEF Active, Up
<1>4. HistoryInv'
  <2>1. ASSUME NEW n \in Nodes, NEW a \in Attempts PROVE EntryShape(n, a)'
    <3>1. EntryShape(n, a)
      BY DEF IInv, HistoryInv
    <3>2. CASE log[n][a].status = "running"
      BY <1>1, <3>1, <3>2 DEF EntryShape, Begun, HasEnded
    <3>3. CASE log[n][a].status # "running"
      <4>1. log'[n][a] = log[n][a]
        BY <1>1, <3>3
      <4> QED
        BY <3>1, <4>1 DEF EntryShape, Begun, HasEnded
    <3> QED
      BY <3>2, <3>3
  <2>2. ASSUME NEW n \in Nodes, NEW a \in Attempts, NEW b \in Attempts, a < b, Begun(n, b)'
        PROVE  MayFollow(n, a)' /\ log'[n][a].via = log'[n][b].via
    <3>1. Begun(n, b)
      BY <1>1, <2>2 DEF Begun
    <3>2. MayFollow(n, a) /\ log[n][a].via = log[n][b].via
      BY <2>2, <3>1 DEF IInv, HistoryInv, AttemptOrder
    <3>3. log'[n][a] = log[n][a]
      BY <1>1, <3>2 DEF MayFollow, CanRescue, Outcome
    <3> QED
      BY <1>1, <3>2, <3>3 DEF MayFollow, CanRescue, Outcome
  <2> QED
    BY <2>1, <2>2 DEF HistoryInv, AttemptOrder
<1>5. ViaInv'
  <2> SUFFICES ASSUME NEW n \in Nodes, NEW a \in Attempts, Begun(n, a)'
               PROVE  Activates(log[n][a].via, n)'
    BY DEF ViaInv
  <2> DEFINE e == log[n][a].via
  <2>1. Begun(n, a)
    BY <1>1 DEF Begun
  <2>2. Activates(e, n) /\ e' = e
    BY <1>1, <2>1 DEF IInv, ViaInv
  <2> HIDE DEF e
  <2>3. Activates(e, n)'
    <3>1. CASE n = Entry /\ e = EntryEdge
      BY <2>2, <3>1 DEF Activates
    <3>2. CASE e.to = n /\ Gave(e)
      <4>1. e \in Edges /\ e.from \in Nodes /\ task[e.from].phase = "idle"
        BY <3>2, NodesHaveEntry DEF Gave
      <4>2. PICK c \in FinalAttempts(e.from) : e \in SelectRoutes(e.from, log[e.from][c].condition)
        BY <3>2 DEF Gave
      <4>3. log'[e.from][c] = log[e.from][c]
        BY <1>1, <4>1, <4>2 DEF FinalAttempts
      <4>4. c \in FinalAttempts(e.from)'
        BY <2>2, <4>2, <4>3, FinalStays
      <4> QED
        BY <2>2, <3>2, <4>1, <4>2, <4>3, <4>4 DEF Activates, Gave
    <3> QED
      BY <2>2, <3>1, <3>2 DEF Activates
  <2> QED
    BY <2>3 DEF e
<1>6. TasksInv' /\ SyncInv' /\ RescuesAreClosed'
  BY <1>3 DEF TasksInv, SyncInv, RescuesAreClosed
<1>7. FirstInv' /\ PropagatedInv'
  BY <1>3 DEF IInv, FirstInv, PropagatedInv, Final, memory
<1>8. LoopInv'
  <2>1. NothingRuns'
    BY <1>1 DEF NothingRuns
  <2> QED
    BY <1>3, <2>1 DEF LoopInv
<1>9. FailureInv'
  <2>1. ASSUME failure = "UNEXPECTED"
        PROVE  \E n \in Judged, a \in Attempts :
                  /\ log'[n][a].decision # "none"
                  /\ log'[n][a].status \in {"running", "interrupted"}
                  /\ n \notin Active
    <3>1. PICK n \in Judged, a \in Attempts : /\ log[n][a].decision # "none"
                                            /\ log[n][a].status \in {"running", "interrupted"}
                                            /\ n \notin Active
      BY <2>1 DEF IInv, FailureInv
    <3>2. n \in Nodes
      BY DagRunnerAssumption DEF DagRunnerAssumption
    <3> QED
      BY <1>1, <3>1, <3>2
  <2>2. \A n \in Nodes : task[n].phase = "rejected" => n \in Judged /\ Judgement(n)'
    BY <1>1 DEF IInv, FailureInv, Judgement
  <2> QED
    BY <1>3, <2>1, <2>2 DEF IInv, FailureInv
<1> QED
  BY <1>2, <1>4, <1>5, <1>6, <1>7, <1>8, <1>9 DEF IInv

LEMMA StopRunKeeps ==
  ASSUME IInv, StopRun
  PROVE  IInv'
<1>1. /\ loop = "draining" /\ loop' = "over" /\ Up /\ ~Up'
      /\ UNCHANGED <<task, memory, abort, failure, interrupts>>
      /\ status = "running" /\ stopped' \in BOOLEAN
  BY DEF StopRun, Up, IInv, LoopInv
<1>2. CASE /\ status' \in {"interrupted", "failed", "cancelled"} /\ log' = Interrupted(log)
  BY <1>1, <1>2, InterruptionKeeps
<1>3. CASE UNCHANGED <<log, status>>
  <2>1. TypeOK'
    BY <1>1, <1>3 DEF IInv, TypeOK, memory
  <2>2. /\ HistoryInv' /\ ViaInv' /\ TasksInv' /\ FirstInv' /\ PropagatedInv' /\ Active' = Active
    BY <1>1, <1>3, LoopStep
  <2>3. SyncInv' /\ LoopInv' /\ FailureInv' /\ RescuesAreClosed'
    BY <1>1, <1>3, <2>2 DEF IInv, SyncInv, LoopInv, FailureInv, Judgement, RescuesAreClosed, Up
  <2> QED
    BY <2>1, <2>2, <2>3 DEF IInv
<1> QED
  BY <1>2, <1>3 DEF StopRun

LEMMA ReconcileKeeps ==
  ASSUME IInv, Reconcile
  PROVE  IInv'
<1>1. /\ UNCHANGED <<task, memory, abort, failure, interrupts>> /\ loop' = "over"
      /\ status' = "interrupted" /\ log' = Interrupted(log) /\ stopped' = stopped
  BY DEF Reconcile, ending
<1>2. stopped' \in BOOLEAN
  BY <1>1 DEF IInv, TypeOK
<1> QED
  BY <1>1, <1>2, InterruptionKeeps

LEMMA ResumeKeeps ==
  ASSUME IInv, Resume
  PROVE  IInv'
<1>1. /\ status = "interrupted" /\ status' = "running" /\ loop' = "repair"
      /\ task' = [n \in Nodes |-> NoTask] /\ outcomes' = [n \in Nodes |-> NoOutcome]
      /\ first' = [n \in Nodes |-> IF n = Entry THEN EntryEdge ELSE NoEdge]
      /\ propagated' = {} /\ abort' = "no" /\ failure' = "none"
      /\ UNCHANGED <<log, stopped, interrupts>>
  BY DEF Resume
<1>2. TypeOK'
  <2>1. NoTask \in [phase : Phases, attempt : Nat, rescue : BOOLEAN,
                    via : Edges \cup {EntryEdge, NoEdge}]
    BY DEF NoTask, Phases
  <2>2. NoOutcome \in [status : {"none", "succeeded", "failed", "interrupted"},
                       attempt : Nat, condition : Conditions \cup {"none"},
                       retryable : BOOLEAN, via : Edges \cup {EntryEdge, NoEdge}]
    BY DEF NoOutcome
  <2> HIDE DEF NoTask, NoOutcome
  <2> QED
    BY <1>1, <2>1, <2>2 DEF IInv, TypeOK
<1>3. Active' = {} /\ \A n \in Nodes : task'[n].phase = "idle"
  BY <1>1 DEF Active, NoTask
<1>4. HistoryInv'
  BY <1>1 DEF IInv, HistoryInv, EntryShape, AttemptOrder, MayFollow, CanRescue, Outcome, Begun, HasEnded
<1>5. ViaInv'
  <2> SUFFICES ASSUME NEW n \in Nodes, NEW a \in Attempts, Begun(n, a)
               PROVE  Activates(log[n][a].via, n)'
    BY <1>1 DEF ViaInv, Begun
  <2> DEFINE e == log[n][a].via
  <2>1. Activates(e, n) /\ e' = e
    BY <1>1 DEF IInv, ViaInv
  <2> HIDE DEF e
  <2>2. Activates(e, n)'
    BY <1>1, <1>3, <2>1, NodesHaveEntry DEF Activates, Gave, FinalAttempts, CanRescue, Outcome
  <2> QED
    BY <2>2 DEF e
<1>6. TasksInv' /\ SyncInv' /\ PropagatedInv'
  BY <1>1, <1>3 DEF TasksInv, SyncInv, PropagatedInv
<1>7. FirstInv'
  BY <1>1, NodesHaveEntry DEF FirstInv
<1>8. LoopInv'
  BY <1>1, <1>3 DEF IInv, LoopInv, NothingRuns
<1>9. FailureInv' /\ RescuesAreClosed'
  BY <1>1, <1>3 DEF FailureInv, RescuesAreClosed
<1> QED
  BY <1>2, <1>4, <1>5, <1>6, <1>7, <1>8, <1>9 DEF IInv

LEMMA RepairKeeps ==
  ASSUME IInv, NEW n \in Nodes, NEW a \in Attempts, Repair(n, a)
  PROVE  IInv'
<1> DEFINE entry == [log[n][a] EXCEPT !.rescue = "finished"]
<1>1. /\ loop = "repair" /\ Unfinished(n, a) /\ Record(n, a, entry)
      /\ UNCHANGED <<status, loop, task, memory, ending>> /\ Up
  BY DEF Repair, Up
<1>2. /\ log[n][a].rescue = "started" /\ HasEnded(n, a)
      /\ TypeOK /\ Active = {} /\ NothingRuns /\ status = "running"
  BY <1>1 DEF Unfinished, HasEnded, IInv, LoopInv
<1>3. /\ entry \in Attempt /\ entry.via = log[n][a].via /\ entry.rescue = "finished"
      /\ entry.status = log[n][a].status /\ entry.retryable = log[n][a].retryable
      /\ entry.condition = log[n][a].condition
  BY <1>2, EntryTypes DEF Attempt
<1> HIDE DEF entry
<1>4. /\ log' \in [Nodes -> [Attempts -> Attempt]] /\ log'[n][a] = entry
      /\ \A m \in Nodes, b \in Attempts : m # n \/ b # a => log'[m][b] = log[m][b]
  BY <1>1, <1>2, <1>3, Recording
<1>5. \A m \in Nodes, b \in Attempts :
         /\ log'[m][b].status = log[m][b].status /\ log'[m][b].via = log[m][b].via
         /\ log'[m][b].retryable = log[m][b].retryable
         /\ log'[m][b].condition = log[m][b].condition
         /\ (Begun(m, b)' <=> Begun(m, b)) /\ (HasEnded(m, b)' <=> HasEnded(m, b))
         /\ CanRescue(m, Outcome(m, b)) <=> CanRescue(m, Outcome(m, b))'
         /\ log'[m][b].rescue # "started" \/ log'[m][b].rescue = log[m][b].rescue
  <2> TAKE m \in Nodes, b \in Attempts
  <2>1. CASE m = n /\ b = a
    BY <1>2, <1>3, <1>4, <2>1 DEF Begun, HasEnded, CanRescue, Outcome
  <2>2. CASE m # n \/ b # a
    BY <1>4, <2>2 DEF Begun, HasEnded, CanRescue, Outcome
  <2> QED
    BY <2>1, <2>2
<1>6. TypeOK'
  BY <1>1, <1>2, <1>4 DEF TypeOK, memory, ending
<1>7. HistoryInv'
  <2>1. ASSUME NEW m \in Nodes, NEW b \in Attempts PROVE EntryShape(m, b)'
    <3>1. EntryShape(m, b)
      BY DEF IInv, HistoryInv
    <3>2. CASE m = n /\ b = a
      BY <1>2, <1>3, <1>4, <3>1, <3>2 DEF EntryShape, Begun, HasEnded
    <3>3. CASE m # n \/ b # a
      BY <1>4, <3>1, <3>3 DEF EntryShape, Begun, HasEnded
    <3> QED
      BY <3>2, <3>3
  <2>2. \A m \in Nodes, b \in Attempts : MayFollow(m, b) => MayFollow(m, b)'
    BY <1>5 DEF MayFollow
  <2>3. \A m \in Nodes : AttemptOrder(m)'
    BY <1>5, <2>2 DEF IInv, HistoryInv, AttemptOrder
  <2> QED
    BY <2>1, <2>3 DEF HistoryInv
<1>8. ViaInv'
  <2> SUFFICES ASSUME NEW m \in Nodes, NEW b \in Attempts, Begun(m, b)
               PROVE  Activates(log[m][b].via, m)'
    BY <1>5 DEF ViaInv
  <2> DEFINE e == log[m][b].via
  <2>1. Activates(e, m) /\ e' = e
    BY <1>5 DEF IInv, ViaInv
  <2> HIDE DEF e
  <2>2. Activates(e, m)'
    <3>1. CASE m = Entry /\ e = EntryEdge
      BY <2>1, <3>1 DEF Activates
    <3>2. CASE e.to = m /\ Gave(e)
      <4>1. e \in Edges /\ e.from \in Nodes /\ task'[e.from].phase = "idle"
        BY <1>1, <3>2, NodesHaveEntry DEF Gave
      <4>2. PICK c \in FinalAttempts(e.from) : e \in SelectRoutes(e.from, log[e.from][c].condition)
        BY <3>2 DEF Gave
      <4>3. c \in FinalAttempts(e.from)' /\ log'[e.from][c].condition = log[e.from][c].condition
        <5>1. c \in Attempts
          BY <4>2 DEF FinalAttempts
        <5> QED
          BY <1>5, <2>1, <4>1, <4>2, <5>1, FinalStays
      <4> QED
        BY <2>1, <3>2, <4>1, <4>2, <4>3 DEF Activates, Gave
    <3> QED
      BY <2>1, <3>1, <3>2 DEF Activates
  <2> QED
    BY <2>2 DEF e
<1>9. Active' = {}
  BY <1>1, <1>2 DEF Active
<1>10. TasksInv' /\ SyncInv' /\ RescuesAreClosed'
  BY <1>1, <1>2, <1>9 DEF TasksInv, SyncInv, RescuesAreClosed
<1>11. FirstInv' /\ PropagatedInv'
  BY <1>1, <1>2, <1>9 DEF IInv, FirstInv, PropagatedInv, Final, memory
<1>12. LoopInv'
  <2>1. NothingRuns'
    BY <1>2, <1>5 DEF NothingRuns
  <2> QED
    BY <1>1, <1>2, <1>9, <2>1 DEF IInv, LoopInv, memory, ending, Up
<1>13. FailureInv'
  BY <1>1, <1>2, <1>9 DEF IInv, FailureInv, Active, ending
<1> QED
  BY <1>6, <1>7, <1>8, <1>10, <1>11, <1>12, <1>13 DEF IInv

\* What a new owner reads from the log of a node.
LEMMA HistoryIsRead ==
  ASSUME TypeOK, HistoryInv, NothingRuns, NEW n \in Nodes
  PROVE  \/ OutcomeFromHistory(n) = NoOutcome /\ \A a \in Attempts : ~Begun(n, a)
         \/ \E a \in LastAttempt(n) : OutcomeFromHistory(n) = Outcome(n, a)
<1>1. CASE LastAttempt(n) # {}
  BY <1>1 DEF OutcomeFromHistory
<1>2. CASE LastAttempt(n) = {}
  <2>1. ASSUME NEW b \in Attempts, Begun(n, b) PROVE FALSE
    <3> DEFINE S == {a \in Attempts : log[n][a].status # "none"}
    <3>1. S # {}
      <4>1. CASE log[n][b].status # "none"
        BY <4>1
      <4>2. CASE log[n][b].status = "none"
        <5>1. b > 1 /\ b \in Nat
          BY <2>1, <4>2, AttemptNumbers DEF HistoryInv, EntryShape, Begun
        <5>2. b - 1 \in 1..b /\ b - 1 < b
          BY <5>1
        <5>3. b - 1 \in Attempts
          BY <5>2, AttemptNumbers
        <5>4. MayFollow(n, b - 1)
          BY <2>1, <5>2, <5>3 DEF HistoryInv, AttemptOrder
        <5>5. log[n][b - 1].status = "failed"
          BY <5>4 DEF MayFollow, CanRescue, Outcome
        <5> QED
          BY <5>3, <5>5
      <4> QED
        BY <4>1, <4>2
    <3>2. PICK k \in Nat : Attempts = 1..k
      BY AttemptNumbers
    <3>3. S \subseteq Nat /\ \A a \in S : a <= k
      BY <3>2
    <3>4. PICK a \in S : \A c \in S : c <= a
      <4> HIDE DEF S
      <4> QED
        BY <3>1, <3>3, GreatestNat
    <3>5. a \in Attempts /\ log[n][a].status \in {"succeeded", "failed", "interrupted"}
      <4>1. a \in Attempts /\ log[n][a].status # "none" /\ log[n][a] \in Attempt
        BY EntryTypes
      <4> QED
        BY <4>1 DEF NothingRuns, Attempt
    <3>6. \A c \in Attempts : c > a => log[n][c].status = "none"
      <4> TAKE c \in Attempts
      <4>1. c \in Nat /\ a \in Nat
        BY <3>5, AttemptNumbers
      <4>2. c \in S => c <= a
        BY <3>4
      <4> QED
        BY <4>1, <4>2
    <3>7. a \in LastAttempt(n)
      BY <3>5, <3>6 DEF LastAttempt
    <3> QED
      BY <1>2, <3>7
  <2> QED
    BY <1>2, <2>1 DEF OutcomeFromHistory
<1> QED
  BY <1>1, <1>2

LEMMA ReadHistoryKeeps ==
  ASSUME IInv, ReadHistory
  PROVE  IInv'
<1>1. /\ loop = "repair" /\ \A n \in Nodes, a \in Attempts : ~Unfinished(n, a)
      /\ outcomes' = [n \in Nodes |-> OutcomeFromHistory(n)] /\ loop' = "propagate"
      /\ UNCHANGED <<log, status, task, first, propagated, ending>> /\ Up
  BY DEF ReadHistory, Up
<1>2. /\ Active = {} /\ propagated = {} /\ NothingRuns /\ TypeOK /\ HistoryInv /\ status = "running"
      /\ first = [n \in Nodes |-> IF n = Entry THEN EntryEdge ELSE NoEdge]
  BY <1>1 DEF IInv, LoopInv
<1>3. ASSUME NEW n \in Nodes
      PROVE  \/ outcomes'[n] = NoOutcome /\ \A a \in Attempts : ~Begun(n, a)
             \/ \E a \in LastAttempt(n) : outcomes'[n] = Outcome(n, a)
  <2>1. outcomes'[n] = OutcomeFromHistory(n)
    BY <1>1
  <2> QED
    BY <1>2, <2>1, HistoryIsRead
<1>4. TypeOK'
  <2> DEFINE T == [status : {"none", "succeeded", "failed", "interrupted"},
                   attempt : Nat, condition : Conditions \cup {"none"},
                   retryable : BOOLEAN, via : Edges \cup {EntryEdge, NoEdge}]
  <2>1. NoOutcome \in T
    BY DEF NoOutcome
  <2>2. ASSUME NEW n \in Nodes, NEW a \in LastAttempt(n) PROVE Outcome(n, a) \in T
    <3>1. /\ a \in Attempts /\ log[n][a].status \in {"succeeded", "failed", "interrupted"}
          /\ log[n][a] \in Attempt /\ a \in Nat
      BY <1>2, EntryTypes, AttemptNumbers DEF LastAttempt
    <3> QED
      BY <3>1 DEF Outcome, Attempt
  <2> HIDE DEF T
  <2>3. \A n \in Nodes : outcomes'[n] \in T
    BY <1>3, <2>1, <2>2
  <2>4. outcomes' \in [Nodes -> T]
    BY <1>1, <2>3
  <2> QED
    BY <1>1, <1>2, <2>4 DEF TypeOK, ending, T
<1>5. Active' = {}
  BY <1>1, <1>2 DEF Active
<1>6. HistoryInv'
  BY <1>1 DEF IInv, HistoryInv, EntryShape, AttemptOrder, MayFollow, CanRescue, Outcome, Begun, HasEnded
<1>7. ViaInv'
  <2> SUFFICES ASSUME NEW n \in Nodes, NEW a \in Attempts, Begun(n, a)
               PROVE  Activates(log[n][a].via, n)'
    BY <1>1 DEF ViaInv, Begun
  <2> DEFINE e == log[n][a].via
  <2>1. Activates(e, n) /\ e' = e
    BY <1>1 DEF IInv, ViaInv
  <2> HIDE DEF e
  <2>2. Activates(e, n)'
    BY <1>1, <2>1 DEF Activates, Gave, FinalAttempts, CanRescue, Outcome
  <2> QED
    BY <2>2 DEF e
<1>8. TasksInv' /\ RescuesAreClosed'
  BY <1>1, <1>2, <1>5 DEF TasksInv, RescuesAreClosed
<1>9. SyncInv'
  <2>1. ASSUME NEW n \in Nodes, NEW a \in LastAttempt(n), outcomes'[n] = Outcome(n, a)
        PROVE  a \in Attempts /\ Remembers(n, a)'
    BY <1>1, <2>1 DEF LastAttempt, Remembers, Unfinished, HasEnded, Outcome
  <2>2. \A n \in Nodes : Synced(n)'
    BY <1>1, <1>3, <2>1 DEF Synced, Begun
  <2> QED
    BY <2>2 DEF SyncInv
<1>10. FirstInv' /\ PropagatedInv'
  BY <1>1, <1>2, <1>5, NodesHaveEntry DEF FirstInv, PropagatedInv
<1>11. LoopInv'
  BY <1>1, <1>2 DEF LoopInv
<1>12. FailureInv'
  BY <1>1 DEF IInv, FailureInv, Judgement, ending
<1> QED
  BY <1>4, <1>6, <1>7, <1>8, <1>9, <1>10, <1>11, <1>12 DEF IInv

-----------------------------------------------------------------------------
(* The invariant                                                             *)

LEMMA InitHolds == Init => IInv
<1> SUFFICES ASSUME Init PROVE IInv
  OBVIOUS
<1>1. /\ \A n \in Nodes, a \in Attempts : log[n][a] = NoAttempt
      /\ \A n \in Nodes : task[n] = NoTask /\ outcomes[n] = NoOutcome
      /\ Active = {} /\ propagated = {} /\ failure = "none" /\ status = "running"
      /\ loop = "propagate" /\ first = [n \in Nodes |-> IF n = Entry THEN EntryEdge ELSE NoEdge]
  BY DEF Init, Active, NoTask
<1>2. TypeOK
  <2>1. NoTask \in [phase : Phases, attempt : Nat, rescue : BOOLEAN,
                    via : Edges \cup {EntryEdge, NoEdge}]
    BY DEF NoTask, Phases
  <2>2. NoOutcome \in [status : {"none", "succeeded", "failed", "interrupted"},
                       attempt : Nat, condition : Conditions \cup {"none"},
                       retryable : BOOLEAN, via : Edges \cup {EntryEdge, NoEdge}]
    BY DEF NoOutcome
  <2>3. NoAttempt \in Attempt
    BY DEF NoAttempt, Attempt
  <2>4. 0 \in 0..MaxInterrupts
    BY DagRunnerAssumption DEF DagRunnerAssumption
  <2> HIDE DEF NoTask, NoOutcome, NoAttempt
  <2> QED
    BY <2>1, <2>2, <2>3, <2>4 DEF Init, TypeOK
<1>3. \A n \in Nodes, a \in Attempts :
         ~Begun(n, a) /\ log[n][a].status = "none" /\ log[n][a].rescue = "none"
  BY <1>1 DEF Begun, NoAttempt
<1>4. HistoryInv /\ ViaInv
  BY <1>1, <1>3 DEF HistoryInv, ViaInv, AttemptOrder, EntryShape
<1>5. TasksInv /\ PropagatedInv /\ FailureInv /\ RescuesAreClosed
  <2>1. \A n \in Nodes : task[n].phase # "rejected"
    BY <1>1 DEF NoTask
  <2> QED
    BY <1>1, <2>1 DEF TasksInv, PropagatedInv, FailureInv, RescuesAreClosed
<1>6. SyncInv
  BY <1>1, <1>3 DEF SyncInv, Synced
<1>7. FirstInv
  BY <1>1, NodesHaveEntry DEF FirstInv
<1>8. LoopInv
  BY <1>1 DEF LoopInv
<1> QED
  BY <1>2, <1>4, <1>5, <1>6, <1>7, <1>8 DEF IInv

LEMMA StutterHolds == IInv /\ UNCHANGED vars => IInv'
<1> SUFFICES ASSUME IInv, UNCHANGED vars PROVE IInv'
  OBVIOUS
<1>1. UNCHANGED <<log, status, loop, task, memory, ending>>
  BY DEF vars
<1>2. TypeOK'
  BY <1>1 DEF IInv, TypeOK, memory, ending
<1>3. /\ HistoryInv' /\ ViaInv' /\ TasksInv' /\ FirstInv' /\ PropagatedInv' /\ Active' = Active
      /\ \A n \in Nodes : Synced(n) => Synced(n)'
  BY <1>1, LoopStep DEF Up, ending
<1>4. SyncInv'
  BY <1>1, <1>3 DEF IInv, SyncInv, ending
<1>5. LoopInv'
  BY <1>1, <1>3 DEF IInv, LoopInv, NothingRuns, Up, Propagates, Final, memory, ending
<1>6. FailureInv' /\ RescuesAreClosed'
  BY <1>1, <1>3 DEF IInv, FailureInv, Judgement, RescuesAreClosed, ending
<1> QED
  BY <1>2, <1>3, <1>4, <1>5, <1>6 DEF IInv

LEMMA StepHolds == IInv /\ Next => IInv'
<1> SUFFICES ASSUME IInv, Next PROVE IInv'
  OBVIOUS
<1>1. CASE Up /\ \E n \in Nodes : Lifecycle(n) \/ Executor(n)
  <2> PICK n \in Nodes : Lifecycle(n) \/ Executor(n)
    BY <1>1
  <2>1. CASE StartRescue(n)
    BY <1>1, <2>1, StartRescueKeeps
  <2>2. CASE StartNode(n)
    BY <1>1, <2>2, StartNodeKeeps
  <2>3. CASE FollowDecision(n)
    BY <1>1, <2>3, FollowDecisionKeeps
  <2>4. CASE NodeSucceeds(n)
    BY <1>1, <2>4, NodeSucceedsKeeps
  <2>5. CASE \E retryable \in BOOLEAN : NodeFails(n, retryable)
    BY <1>1, <2>5, NodeFailsKeeps
  <2>6. CASE FinishRescue(n)
    BY <1>1, <2>6, FinishRescueKeeps
  <2>7. CASE ExecutorSettles(n)
    BY <1>1, <2>7, ExecutorSettlesKeeps
  <2>8. CASE \E d \in {"supported", "unsupported"} : Judge(n, d)
    BY <1>1, <2>8, JudgeKeeps
  <2> QED
    BY <2>1, <2>2, <2>3, <2>4, <2>5, <2>6, <2>7, <2>8 DEF Lifecycle, Executor
<1>2. CASE MainLoop
  <2>1. CASE NoticeAbort
    BY <2>1, NoticeAbortKeeps
  <2>2. CASE CheckHistory
    BY <2>2, CheckHistoryKeeps
  <2>3. CASE Wait
    BY <2>3, WaitKeeps
  <2>4. CASE EndRun
    BY <2>4, EndRunKeeps
  <2>5. CASE StopRun
    BY <2>5, StopRunKeeps
  <2>6. CASE ReadHistory
    BY <2>6, ReadHistoryKeeps
  <2>7. CASE \E n \in Nodes : Propagate(n)
    BY <2>7, PropagateKeeps
  <2>8. CASE \E n \in Nodes : Schedule(n)
    BY <2>8, ScheduleKeeps
  <2>9. CASE \E n \in Nodes : Reap(n)
    BY <2>9, ReapKeeps
  <2>10. CASE \E n \in Nodes, a \in Attempts : Repair(n, a)
    BY <2>10, RepairKeeps
  <2> QED
    BY <1>2, <2>1, <2>2, <2>3, <2>4, <2>5, <2>6, <2>7, <2>8, <2>9, <2>10 DEF MainLoop
<1>3. CASE \E reason \in {"interrupt", "cancel"} : Abort(reason)
  BY <1>3, AbortKeeps
<1>4. CASE Die
  BY <1>4, DieKeeps
<1>5. CASE Reconcile
  BY <1>5, ReconcileKeeps
<1>6. CASE Resume
  BY <1>6, ResumeKeeps
<1> QED
  BY <1>1, <1>2, <1>3, <1>4, <1>5, <1>6 DEF Next

LEMMA InvariantHolds == Spec => []IInv
<1>1. IInv /\ [Next]_vars => IInv'
  BY StepHolds, StutterHolds
<1> QED
  BY InitHolds, <1>1, PTL DEF Spec

\* Every variable of the runner keeps its type.
THEOREM DagRunnerTypes == Spec => []TypeOK
<1>1. IInv => TypeOK
  BY DEF IInv
<1> QED
  BY InvariantHolds, <1>1, PTL

\* Over all the lives of a run, no node begins more attempts than its policy allows, and a
\* run that succeeded has closed every rescue it began.
THEOREM RescuesStaySound == Spec => []RescuesAreSound
<1>1. IInv => RescuesAreSound
  <2> SUFFICES ASSUME IInv PROVE RescuesAreSound
    OBVIOUS
  <2>1. \A n \in Nodes, a \in Attempts : log[n][a] # NoAttempt => a <= RescueLimit[n] + 1
    BY DEF IInv, HistoryInv, EntryShape
  <2> QED
    BY <2>1 DEF IInv, RescuesAreSound, RescuesAreBounded
<1> QED
  BY InvariantHolds, <1>1, PTL

\* What a new owner finds in the log is a path it can activate again, whatever deaths its
\* predecessors met and wherever; and a run with nothing active left to do has succeeded.
THEOREM HistoryStaysConsistent == Spec => []HistoryIsConsistent
<1>1. IInv => HistoryIsConsistent
  BY DEF IInv, FailureInv, HistoryIsConsistent
<1> QED
  BY InvariantHolds, <1>1, PTL

\* The reducer refuses none of the events that a runner appends, over all its lives, but
\* for those of a gate, of a node with an evidence policy or of a proof that is judged
\* again after the decision of the same attempt is in the log.
THEOREM OnlyJudgedAgainAreRefused == Spec => []OnlyJudgedAgainFail
<1>1. IInv => OnlyJudgedAgainFail
  BY DEF IInv, FailureInv, Judgement, OnlyJudgedAgainFail, HalfDecided
<1> QED
  BY InvariantHolds, <1>1, PTL

-----------------------------------------------------------------------------
(* A run implements the execution of its graph                               *)

LEMMA ResultOf ==
  ASSUME IInv, NEW n \in Nodes
  PROVE  /\ FinalAttempts(n) = {} => Result(n) = "none"
         /\ \A a \in FinalAttempts(n) : Result(n) = log[n][a].condition
         /\ FinalAttempts(n) # {} => Result(n) \in Conditions
<1>1. FinalAttempts(n) = {} => Result(n) = "none"
  BY DEF Result
<1>2. ASSUME NEW a \in FinalAttempts(n)
      PROVE  Result(n) = log[n][a].condition /\ Result(n) \in Conditions
  <2>1. (CHOOSE b \in FinalAttempts(n) : TRUE) = a
    BY FinalIsUnique DEF IInv
  <2>2. Result(n) = log[n][a].condition
    BY <2>1 DEF Result
  <2>3. a \in Attempts /\ log[n][a].status \in {"succeeded", "failed"}
    BY DEF FinalAttempts
  <2>4. log[n][a].condition \in Conditions
    BY <2>3 DEF IInv, HistoryInv, EntryShape, Conditions
  <2> QED
    BY <2>2, <2>4
<1> QED
  BY <1>1, <1>2

\* An activation leads from a node that has, in the log, the result that chose it.
LEMMA ActivatedIsReached ==
  ASSUME IInv, NEW n \in Nodes, NEW e, Activates(e, n)
  PROVE  Graph!Reached(n)
<1>1. CASE n = Entry
  BY <1>1 DEF Graph!Reached
<1>2. CASE e.to = n /\ Gave(e)
  <2>1. e \in Edges /\ e.from \in Nodes
    BY <1>2, NodesHaveEntry DEF Gave
  <2>2. PICK a \in FinalAttempts(e.from) : e \in SelectRoutes(e.from, log[e.from][a].condition)
    BY <1>2 DEF Gave
  <2>3. Result(e.from) = log[e.from][a].condition /\ Result(e.from) \in Conditions
    BY <2>1, <2>2, ResultOf
  <2>4. Result(e.from) # "none" /\ n \in Routes(e.from, Result(e.from))
    BY <1>2, <2>2, <2>3 DEF Routes, Conditions
  <2> QED
    BY <2>1, <2>4 DEF Graph!Reached
<1> QED
  BY <1>1, <1>2 DEF Activates

\* A step that leaves every ended attempt as it is, and ends none, changes no result.
SameEntry(n, a) ==
    /\ HasEnded(n, a)' <=> HasEnded(n, a)
    /\ HasEnded(n, a) => /\ log'[n][a].status = log[n][a].status
                         /\ log'[n][a].condition = log[n][a].condition
                         /\ log'[n][a].retryable = log[n][a].retryable

LEMMA SameResult ==
  ASSUME IInv, IInv', NEW n \in Nodes, \A a \in Attempts : SameEntry(n, a)
  PROVE  Result(n)' = Result(n)
<1>1. ASSUME NEW a \in FinalAttempts(n)
      PROVE  a \in FinalAttempts(n)' /\ log'[n][a].condition = log[n][a].condition
  <2>1. a \in Attempts /\ HasEnded(n, a)
    BY DEF FinalAttempts, HasEnded
  <2>2. /\ log'[n][a].status = log[n][a].status /\ log'[n][a].condition = log[n][a].condition
        /\ log'[n][a].retryable = log[n][a].retryable
    BY <2>1 DEF SameEntry
  <2> QED
    BY <2>2, FinalStays
<1>2. ASSUME NEW a \in FinalAttempts(n)' PROVE a \in FinalAttempts(n)
  <2>1. /\ a \in Attempts /\ log'[n][a].status \in {"succeeded", "failed"}
        /\ ~CanRescue(n, Outcome(n, a))'
    BY DEF FinalAttempts
  <2>2. HasEnded(n, a)
    BY <2>1 DEF SameEntry, HasEnded
  <2>3. /\ log'[n][a].status = log[n][a].status /\ log'[n][a].retryable = log[n][a].retryable
    BY <2>1, <2>2 DEF SameEntry
  <2>4. ~CanRescue(n, Outcome(n, a))
    BY <2>1, <2>3 DEF CanRescue, Outcome
  <2> QED
    BY <2>1, <2>2, <2>4 DEF FinalAttempts, HasEnded
<1>3. CASE FinalAttempts(n) = {}
  <2>1. FinalAttempts(n)' = {}
    BY <1>2, <1>3
  <2> QED
    BY <1>3, <2>1 DEF Result
<1>4. CASE FinalAttempts(n) # {}
  <2>1. PICK a \in FinalAttempts(n) : TRUE
    BY <1>4
  <2>2. a \in FinalAttempts(n)' /\ log'[n][a].condition = log[n][a].condition
    BY <1>1, <2>1
  <2>3. Result(n) = log[n][a].condition
    BY <2>1, ResultOf
  <2>4. (CHOOSE b \in FinalAttempts(n)' : TRUE) = a
    <3>1. FinalAttempts(n)' = FinalAttempts(n)
      BY <1>1, <1>2
    <3>2. \A b \in FinalAttempts(n) : b = a
      BY <2>1, FinalIsUnique DEF IInv
    <3> QED
      BY <2>1, <3>1, <3>2
  <2>5. Result(n)' = log'[n][a].condition
    BY <2>2, <2>4 DEF Result
  <2> QED
    BY <2>2, <2>3, <2>5
<1> QED
  BY <1>3, <1>4

\* What the graph sees of the run.
GraphView == <<[n \in Nodes |-> Result(n)], Run>>

LEMMA SameView ==
  ASSUME IInv, IInv', \A n \in Nodes, a \in Attempts : SameEntry(n, a), Run' = Run
  PROVE  UNCHANGED GraphView
<1>1. \A n \in Nodes : Result(n)' = Result(n)
  BY SameResult
<1> QED
  BY <1>1 DEF GraphView

LEMMA UnchangedView ==
  ASSUME IInv, IInv', UNCHANGED log, Run' = Run
  PROVE  UNCHANGED GraphView
<1>1. \A n \in Nodes, a \in Attempts : SameEntry(n, a)
  BY DEF SameEntry, HasEnded
<1> QED
  BY <1>1, SameView

\* The end of an attempt gives its node the result that the graph asks for, unless the
\* node may be rescued.
LEMMA AttemptGivesResult ==
  ASSUME IInv, IInv', Up, NEW n \in Active, NEW a \in Attempts, a = task[n].attempt,
         log[n][a].status = "running", NEW entry \in Attempt, Record(n, a, entry),
         UNCHANGED status
  PROVE  Graph!Next \/ UNCHANGED GraphView
<1> HIDE DEF Attempt
<1>1. n \in Nodes /\ TypeOK /\ HistoryInv /\ TaskInv(n) /\ status = "running"
  BY DEF Active, IInv, TasksInv, LoopInv
<1>2. log'[n][a] = entry /\ \A m \in Nodes, b \in Attempts : m # n \/ b # a => log'[m][b] = log[m][b]
  BY <1>1, Recording
<1>3. FinalAttempts(n) = {}
  <2> SUFFICES ASSUME NEW b \in FinalAttempts(n) PROVE FALSE
    OBVIOUS
  <2>1. b \in Attempts /\ log[n][b].status \in {"succeeded", "failed"}
    BY DEF FinalAttempts
  <2>2. Begun(n, b) /\ Begun(n, a) /\ b # a
    BY <2>1 DEF Begun
  <2>3. a <= b /\ a \in Nat /\ b \in Nat
    BY <1>1, <2>1, <2>2, FinalIsLast, AttemptNumbers
  <2>4. ~(b > a)
    BY <1>1, <2>1, <2>2 DEF TaskInv
  <2> QED
    BY <2>2, <2>3, <2>4
<1>4. \A m \in Nodes \ {n} : Result(m)' = Result(m)
  <2> TAKE m \in Nodes \ {n}
  <2>1. \A b \in Attempts : SameEntry(m, b)
    BY <1>2 DEF SameEntry, HasEnded
  <2> QED
    BY <2>1, SameResult
<1>5. FinalAttempts(n)' \subseteq {a}
  <2> SUFFICES ASSUME NEW b \in FinalAttempts(n)', b # a PROVE FALSE
    OBVIOUS
  <2>1. /\ b \in Attempts /\ log'[n][b].status \in {"succeeded", "failed"}
        /\ ~CanRescue(n, Outcome(n, b))'
    BY DEF FinalAttempts
  <2>2. log'[n][b] = log[n][b]
    BY <1>1, <1>2, <2>1
  <2>3. ~CanRescue(n, Outcome(n, b))
    BY <2>1, <2>2 DEF CanRescue, Outcome
  <2>4. b \in FinalAttempts(n)
    BY <2>1, <2>2, <2>3 DEF FinalAttempts
  <2> QED
    BY <1>3, <2>4
<1>6. Run = "open" /\ Run' = Run
  BY <1>1 DEF Run
<1>7. Result(n) = "none"
  BY <1>1, <1>3, ResultOf
<1>8. CASE FinalAttempts(n)' = {}
  <2>1. Result(n)' = "none"
    BY <1>8 DEF Result
  <2>2. \A m \in Nodes : Result(m)' = Result(m)
    BY <1>4, <1>7, <2>1
  <2> QED
    BY <1>6, <2>2 DEF GraphView
<1>9. CASE FinalAttempts(n)' # {}
  <2>1. FinalAttempts(n)' = {a}
    BY <1>5, <1>9
  <2>2. Result(n)' = log'[n][a].condition
    BY <2>1 DEF Result
  <2>3. log'[n][a].status \in {"succeeded", "failed"}
    BY <2>1 DEF FinalAttempts
  <2>4. Result(n)' \in Conditions
    BY <1>1, <2>2, <2>3 DEF IInv, HistoryInv, EntryShape, Conditions
  <2>5. Graph!Reached(n)
    BY <1>1, ActivatedIsReached DEF TaskInv
  <2>6. PICK r \in Conditions : Result(n)' = r
    BY <2>4
  <2>7. [m \in Nodes |-> Result(m)]' = [[m \in Nodes |-> Result(m)] EXCEPT ![n] = r]
    BY <1>1, <1>4, <2>6
  <2>8. Graph!Finish(n, r)
    BY <1>1, <1>6, <1>7, <2>5, <2>7 DEF Graph!Finish
  <2> QED
    BY <1>1, <2>8 DEF Graph!Next
<1> QED
  BY <1>8, <1>9

\* The run succeeds when every node reached has a result, and every result was handled.
LEMMA EndRunSucceeds ==
  ASSUME IInv, IInv', EndRun
  PROVE  Graph!Next
<1>1. /\ loop = "scheduling" /\ Startable = {} /\ Active = {} /\ Up
      /\ UNCHANGED <<log, task, memory>>
  BY DEF EndRun, Up
<1>2. /\ \A n \in Nodes : first[n] # NoEdge => n \in propagated
      /\ AcceptsRunSucceeded
  BY <1>1, NothingIsLeft
<1>3. status' = "succeeded" /\ status = "running"
  BY <1>1, <1>2 DEF EndRun, IInv, LoopInv
<1>4. TypeOK /\ HistoryInv /\ abort = "no" /\ \A n \in Nodes : Synced(n)
  BY <1>1 DEF IInv, SyncInv, LoopInv
<1>5. ASSUME NEW n \in propagated
      PROVE  /\ n \in Nodes /\ Result(n) = outcomes[n].condition /\ Result(n) \in Conditions
             /\ outcomes[n].status = "succeeded" => Result(n) # "failure"
  <2>1. n \in Nodes /\ Final(n)
    BY <1>4 DEF IInv, PropagatedInv, TypeOK
  <2>2. PICK a \in FinalAttempts(n) : outcomes[n] = Outcome(n, a)
    BY <1>4, <2>1, FinalInLog
  <2>3. Result(n) = log[n][a].condition /\ Result(n) \in Conditions
    BY <2>1, <2>2, ResultOf
  <2>4. a \in Attempts
    BY DEF FinalAttempts
  <2>5. log[n][a].status = "succeeded" => log[n][a].condition # "failure"
    BY <1>4, <2>1, <2>4 DEF HistoryInv, EntryShape
  <2> QED
    BY <2>1, <2>2, <2>3, <2>5 DEF Outcome
<1>6. ASSUME NEW m \in Nodes, Result(m) # "none" PROVE m \in propagated
  <2>1. PICK a \in FinalAttempts(m) : TRUE
    BY <1>6, ResultOf
  <2>2. Final(m)
    BY <1>4, <2>1, FinalInLog
  <2>3. first[m] # NoEdge
    BY <1>1, <2>2 DEF Final, IInv, LoopInv
  <2> QED
    BY <1>2, <2>3
<1>7. ASSUME NEW n \in Nodes, Graph!Reached(n) PROVE n \in propagated
  <2>1. CASE n = Entry
    BY <1>2, <2>1 DEF IInv, FirstInv, EntryEdge, NoEdge
  <2>2. ASSUME NEW m \in Nodes, Result(m) # "none", n \in Routes(m, Result(m)) PROVE n \in propagated
    <3>1. m \in propagated /\ Result(m) = outcomes[m].condition
      BY <1>5, <1>6, <2>2
    <3>2. PICK e \in SelectRoutes(m, outcomes[m].condition) : e.to = n
      BY <2>2, <3>1 DEF Routes
    <3>3. first[e.to] # NoEdge
      BY <3>1, <3>2 DEF IInv, PropagatedInv
    <3> QED
      BY <1>2, <3>2, <3>3
  <2> QED
    BY <1>7, <2>1, <2>2 DEF Graph!Reached
<1>8. ASSUME NEW n \in propagated PROVE Graph!Handled(n)
  <2>1. \/ SelectRoutes(n, outcomes[n].condition) # {}
        \/ n \in Terminals /\ outcomes[n].status = "succeeded"
    BY DEF IInv, PropagatedInv
  <2>2. n \in Nodes /\ Result(n) = outcomes[n].condition
        /\ (outcomes[n].status = "succeeded" => Result(n) # "failure")
    BY <1>5
  <2>3. CASE SelectRoutes(n, outcomes[n].condition) # {}
    <3>1. Routes(n, Result(n)) # {}
      BY <2>2, <2>3 DEF Routes
    <3> QED
      BY <2>2, <3>1 DEF Graph!Handled
  <2>4. CASE n \in Terminals /\ outcomes[n].status = "succeeded"
    BY <2>2, <2>4 DEF Graph!Handled
  <2> QED
    BY <2>1, <2>3, <2>4
<1>9. \A n \in Nodes : Graph!Reached(n) => Result(n) # "none" /\ Graph!Handled(n)
  BY <1>5, <1>7, <1>8 DEF Conditions
<1>10. [n \in Nodes |-> Result(n)]' = [n \in Nodes |-> Result(n)]
  <2>1. \A n \in Nodes, a \in Attempts : SameEntry(n, a)
    BY <1>1 DEF SameEntry, HasEnded
  <2>2. \A n \in Nodes : Result(n)' = Result(n)
    BY <2>1, SameResult
  <2> QED
    BY <2>2
<1>11. Run = "open" /\ Run' = "succeeded"
  BY <1>3 DEF Run
<1>12. Graph!Succeed
  BY <1>9, <1>10, <1>11 DEF Graph!Succeed
<1> QED
  BY <1>12 DEF Graph!Next

\* An append to an entry that is neither ended nor ends by it, or that keeps its result.
LEMMA AppendKeepsView ==
  ASSUME IInv, IInv', NEW n \in Nodes, NEW a \in Attempts, NEW entry \in Attempt,
         Record(n, a, entry), UNCHANGED status,
         \/ log[n][a].status \notin {"succeeded", "failed"} /\ entry.status \notin {"succeeded", "failed"}
         \/ /\ entry.status = log[n][a].status /\ entry.condition = log[n][a].condition
            /\ entry.retryable = log[n][a].retryable
  PROVE  UNCHANGED GraphView
<1> HIDE DEF Attempt
<1>1. log'[n][a] = entry /\ \A m \in Nodes, b \in Attempts : m # n \/ b # a => log'[m][b] = log[m][b]
  BY Recording DEF IInv
<1>2. ASSUME NEW m \in Nodes, NEW b \in Attempts PROVE SameEntry(m, b)
  <2>1. CASE m = n /\ b = a
    BY <1>1, <2>1 DEF SameEntry, HasEnded
  <2>2. CASE m # n \/ b # a
    BY <1>1, <2>2 DEF SameEntry, HasEnded
  <2> QED
    BY <2>1, <2>2
<1>3. Run' = Run
  BY DEF Run
<1> QED
  BY <1>2, <1>3, SameView

LEMMA LifecycleIsGraphStep ==
  ASSUME IInv, IInv', Up, NEW n \in Nodes, Lifecycle(n) \/ Executor(n)
  PROVE  Graph!Next \/ UNCHANGED GraphView
<1> HIDE DEF Attempt
<1>1. task[n].phase # "idle" /\ UNCHANGED status
  BY DEF Lifecycle, Executor, StartRescue, StartNode, FollowDecision, NodeSucceeds, NodeFails,
         FinishRescue, ExecutorSettles, Judge
<1>2. Run' = Run
  BY <1>1 DEF Run
<1>3. n \in Active
  BY <1>1 DEF Active
<1>4. PICK a \in Attempts :
         /\ a = task[n].attempt /\ log[n][a] \in Attempt /\ PhaseInv(n, a)
         /\ task[n].via \in Edges \cup {EntryEdge, NoEdge}
  BY <1>1, InAttempt
<1>5. CASE UNCHANGED log
  BY <1>2, <1>5, UnchangedView
<1>6. CASE StartRescue(n)
  <2> DEFINE entry == [log[n][a] EXCEPT !.rescue = "started", !.via = task[n].via]
  <2>1. log[n][a].status = "none"
    BY <1>4, <1>6 DEF StartRescue, PhaseInv
  <2>2. UNCHANGED log \/ Record(n, a, entry)
    BY <1>4, <1>6 DEF StartRescue, Append
  <2>3. entry \in Attempt /\ entry.status = log[n][a].status
    BY <1>4 DEF Attempt
  <2> HIDE DEF entry
  <2> QED
    BY <1>1, <1>5, <2>1, <2>2, <2>3, AppendKeepsView
<1>7. CASE StartNode(n)
  <2> DEFINE entry == [log[n][a] EXCEPT !.status = "running", !.via = task[n].via]
  <2>1. log[n][a].status \in {"none", "interrupted"}
    BY <1>4, <1>7 DEF StartNode, PhaseInv
  <2>2. UNCHANGED log \/ Record(n, a, entry)
    BY <1>4, <1>7 DEF StartNode, Append
  <2>3. entry \in Attempt /\ entry.status = "running"
    BY <1>4 DEF Attempt
  <2> HIDE DEF entry
  <2> QED
    BY <1>1, <1>5, <2>1, <2>2, <2>3, AppendKeepsView
<1>8. CASE FollowDecision(n) \/ ExecutorSettles(n)
  BY <1>5, <1>8 DEF FollowDecision, ExecutorSettles
<1>9. ASSUME NEW d \in {"supported", "unsupported"}, Judge(n, d)
      PROVE  UNCHANGED GraphView
  <2> DEFINE entry == [log[n][a] EXCEPT !.decision = d]
  <2>1. UNCHANGED log \/ Record(n, a, entry)
    BY <1>4, <1>9 DEF Judge
  <2>2. /\ entry \in Attempt /\ entry.status = log[n][a].status
        /\ entry.condition = log[n][a].condition /\ entry.retryable = log[n][a].retryable
    BY <1>4 DEF Attempt
  <2> HIDE DEF entry
  <2> QED
    BY <1>1, <1>2, <2>1, <2>2, AppendKeepsView, UnchangedView
<1>10. CASE NodeSucceeds(n)
  <2> DEFINE c == RouteCondition(n, a)
             entry == [log[n][a] EXCEPT !.status = "succeeded", !.condition = c]
  <2>1. log[n][a].status = "running"
    BY <1>4, <1>10 DEF NodeSucceeds, PhaseInv, InExecution
  <2>2. UNCHANGED log \/ Record(n, a, entry)
    BY <1>4, <1>10 DEF NodeSucceeds
  <2>3. c \in Conditions
    BY DEF RouteCondition, Conditions
  <2>4. entry \in Attempt
    <3> HIDE DEF c
    <3> QED
      BY <1>4, <2>3 DEF Attempt
  <2> HIDE DEF entry, c
  <2> QED
    BY <1>1, <1>3, <1>4, <1>5, <2>1, <2>2, <2>4, AttemptGivesResult
<1>11. ASSUME NEW retryable \in BOOLEAN, NodeFails(n, retryable)
       PROVE  Graph!Next \/ UNCHANGED GraphView
  <2> DEFINE entry == [log[n][a] EXCEPT !.status = "failed", !.condition = "failure",
                                        !.retryable = retryable]
  <2>1. log[n][a].status = "running"
    BY <1>4, <1>11 DEF NodeFails, PhaseInv, InExecution
  <2>2. UNCHANGED log \/ Record(n, a, entry)
    BY <1>4, <1>11 DEF NodeFails, Append
  <2>3. entry \in Attempt
    BY <1>4 DEF Attempt, Conditions
  <2> HIDE DEF entry
  <2> QED
    BY <1>1, <1>3, <1>4, <1>5, <2>1, <2>2, <2>3, AttemptGivesResult
<1>12. CASE FinishRescue(n)
  <2> DEFINE entry == [log[n][a] EXCEPT !.rescue = "finished"]
  <2>1. UNCHANGED log \/ Record(n, a, entry)
    BY <1>4, <1>12 DEF FinishRescue, Append
  <2>2. /\ entry \in Attempt /\ entry.status = log[n][a].status
        /\ entry.condition = log[n][a].condition /\ entry.retryable = log[n][a].retryable
    BY <1>4 DEF Attempt
  <2> HIDE DEF entry
  <2> QED
    BY <1>1, <1>5, <2>1, <2>2, AppendKeepsView
<1> QED
  BY <1>6, <1>7, <1>8, <1>9, <1>10, <1>11, <1>12 DEF Lifecycle, Executor

\* The interruption of what runs changes no result.
LEMMA InterruptionKeepsResults ==
  ASSUME IInv, IInv', log' = Interrupted(log)
  PROVE  \A n \in Nodes : Result(n)' = Result(n)
<1>1. \A n \in Nodes, a \in Attempts : SameEntry(n, a)
  BY InterruptedEntries DEF IInv, SameEntry, HasEnded
<1> QED
  BY <1>1, SameResult

LEMMA StepIsGraphStep ==
  ASSUME IInv, IInv', [Next]_vars
  PROVE  Graph!Next \/ UNCHANGED GraphView
<1>1. CASE Up /\ \E n \in Nodes : Lifecycle(n) \/ Executor(n)
  BY <1>1, LifecycleIsGraphStep
<1>2. CASE UNCHANGED <<log, status>>
  BY <1>2, UnchangedView DEF Run
<1>3. CASE EndRun
  BY <1>3, EndRunSucceeds
<1>4. CASE StopRun
  <2>1. loop = "draining" /\ status = "running"
    BY <1>4 DEF StopRun, IInv, LoopInv, Up
  <2>2. CASE status' \in {"interrupted", "failed", "cancelled"} /\ log' = Interrupted(log)
    <3>1. \A n \in Nodes : Result(n)' = Result(n)
      BY <2>2, InterruptionKeepsResults
    <3>2. [n \in Nodes |-> Result(n)]' = [n \in Nodes |-> Result(n)]
      BY <3>1
    <3>3. CASE status' = "interrupted"
      BY <2>1, <3>2, <3>3 DEF GraphView, Run
    <3>4. CASE status' \in {"failed", "cancelled"}
      BY <2>1, <3>2, <3>4 DEF Graph!Next, Graph!End, Run
    <3> QED
      BY <2>2, <3>3, <3>4
  <2> QED
    BY <1>2, <1>4, <2>2 DEF StopRun
<1>5. CASE Reconcile
  <2>1. \A n \in Nodes : Result(n)' = Result(n)
    BY <1>5, InterruptionKeepsResults DEF Reconcile
  <2>2. [n \in Nodes |-> Result(n)]' = [n \in Nodes |-> Result(n)]
    BY <2>1
  <2> QED
    BY <1>5, <2>2 DEF Reconcile, GraphView, Run
<1>6. CASE Resume
  <2>1. UNCHANGED log /\ Run' = Run
    BY <1>6 DEF Resume, Run
  <2> QED
    BY <2>1, UnchangedView
<1>7. ASSUME NEW n \in Nodes, NEW a \in Attempts, Repair(n, a)
      PROVE  UNCHANGED GraphView
  <2> DEFINE entry == [log[n][a] EXCEPT !.rescue = "finished"]
  <2>1. Record(n, a, entry) /\ UNCHANGED status
    BY <1>7 DEF Repair
  <2>2. /\ entry \in Attempt /\ entry.status = log[n][a].status
        /\ entry.condition = log[n][a].condition /\ entry.retryable = log[n][a].retryable
    BY EntryTypes DEF Attempt, IInv
  <2> HIDE DEF entry
  <2> QED
    BY <2>1, <2>2, AppendKeepsView
<1>8. CASE \/ NoticeAbort \/ CheckHistory \/ Wait \/ ReadHistory \/ Die
           \/ \E n \in Nodes : Propagate(n) \/ Schedule(n) \/ Reap(n)
           \/ \E reason \in {"interrupt", "cancel"} : Abort(reason)
  BY <1>2, <1>8 DEF NoticeAbort, CheckHistory, Wait, ReadHistory, Die, Propagate, Schedule, Reap, Abort
<1>9. CASE UNCHANGED vars
  BY <1>2, <1>9 DEF vars
<1> QED
  BY <1>1, <1>3, <1>4, <1>5, <1>6, <1>7, <1>8, <1>9 DEF Next, MainLoop

\* The log of a run, over all its owners and whatever their deaths, is one execution of
\* its graph: every node gets at most one result, after an edge chosen by the result of
\* another leads to it, and the run succeeds only when all that was reached is handled.
THEOREM RunImplementsGraph == Spec => ImplementsGraphRun
<1>1. Init => Graph!Init
  <2> SUFFICES ASSUME Init PROVE Graph!Init
    OBVIOUS
  <2>1. \A n \in Nodes : FinalAttempts(n) = {}
    BY DEF Init, FinalAttempts, NoAttempt
  <2>2. \A n \in Nodes : Result(n) = "none"
    BY <2>1 DEF Result
  <2>3. Run = "open"
    BY DEF Init, Run
  <2> QED
    BY <2>2, <2>3 DEF Graph!Init
<1>2. IInv /\ IInv' /\ [Next]_vars => [Graph!Next]_<<[n \in Nodes |-> Result(n)], Run>>
  BY StepIsGraphStep DEF GraphView
<1> QED
  BY InvariantHolds, <1>1, <1>2, PTL DEF Spec, ImplementsGraphRun, Graph!Spec

=============================================================================
