---------------------------- MODULE BudgetProofs ----------------------------
(* For all reservations, ceilings, limits and usages: the store's records keep *)
(* their shape, and it keeps the promises of BudgetHold.                       *)
EXTENDS Budget, FiniteSetTheorems, TLAPS

-----------------------------------------------------------------------------
(* Sums over finite sets                                                      *)

Pick(s) == CHOOSE x \in s : TRUE
SumRule(w, S, g) ==
  g = [s \in SUBSET S |-> IF s = {} THEN 0 ELSE w[Pick(s)] + g[s \ {Pick(s)}]]

LEMMA SumIsRule ==
  ASSUME NEW w, NEW S
  PROVE  SumFunctionOnSet(w, S) = (CHOOSE g : SumRule(w, S, g))[S]
BY DEF SumFunctionOnSet, FoldFunctionOnSet, MapThenFoldSet, SumRule, Pick

LEMMA MinimalSet ==
  ASSUME NEW S, NEW T, T \subseteq FiniteSubsetsOf(S), T # {}
  PROVE  \E x \in T : \A y \in T : y \subseteq x => y = x
<1>1. \E x \in T : \A y \in T : ~ (<<y, x>> \in StrictSubsetOrdering(S))
  BY FS_StrictSubsetOrderingWellFounded, WFMin, Zenon
<1> QED
  BY <1>1 DEF FiniteSubsetsOf, StrictSubsetOrdering

LEMMA RemovePick ==
  ASSUME NEW s, IsFiniteSet(s), s # {}
  PROVE  /\ Pick(s) \in s
         /\ IsFiniteSet(s \ {Pick(s)})
         /\ s \ {Pick(s)} \subseteq s /\ s \ {Pick(s)} # s
<1>1. Pick(s) \in s
  BY DEF Pick
<1> QED
  BY <1>1, FS_RemoveElement

LEMMA RuleIsUnique ==
  ASSUME NEW w, NEW S, NEW T, NEW g, NEW h, SumRule(w, S, g), SumRule(w, T, h),
         NEW r \in SUBSET S, r \in SUBSET T, IsFiniteSet(r)
  PROVE  g[r] = h[r]
<1> DEFINE Bad == {s \in FiniteSubsetsOf(r) : g[s] # h[s]}
<1>1. SUFFICES ASSUME Bad # {} PROVE FALSE
  BY DEF FiniteSubsetsOf
<1>2. PICK s \in Bad : \A y \in Bad : y \subseteq s => y = s
  <2>1. Bad \subseteq FiniteSubsetsOf(r)
    OBVIOUS
  <2> HIDE DEF Bad
  <2> QED
    BY <1>1, <2>1, MinimalSet
<1>3. /\ s \in SUBSET S /\ s \in SUBSET T /\ IsFiniteSet(s) /\ s \in SUBSET r
      /\ g[s] # h[s]
  BY DEF FiniteSubsetsOf
<1>4. /\ g[s] = IF s = {} THEN 0 ELSE w[Pick(s)] + g[s \ {Pick(s)}]
      /\ h[s] = IF s = {} THEN 0 ELSE w[Pick(s)] + h[s \ {Pick(s)}]
  BY <1>3 DEF SumRule
<1>5. s # {}
  BY <1>3, <1>4
<1>6. s \ {Pick(s)} \in FiniteSubsetsOf(r) /\ s \ {Pick(s)} \notin Bad
  BY <1>2, <1>3, <1>5, RemovePick DEF FiniteSubsetsOf
<1>7. g[s \ {Pick(s)}] = h[s \ {Pick(s)}]
  BY <1>6
<1> QED
  BY <1>3, <1>4, <1>5, <1>7

LEMMA RuleExists ==
  ASSUME NEW w, NEW R, IsFiniteSet(R)
  PROVE  \E g : SumRule(w, R, g)
<1> DEFINE Bad == {s \in FiniteSubsetsOf(R) : ~ \E g : SumRule(w, s, g)}
<1>1. SUFFICES ASSUME Bad # {} PROVE FALSE
  BY DEF FiniteSubsetsOf
<1>2. PICK S \in Bad : \A y \in Bad : y \subseteq S => y = S
  <2>1. Bad \subseteq FiniteSubsetsOf(R)
    OBVIOUS
  <2> HIDE DEF Bad
  <2> QED
    BY <1>1, <2>1, MinimalSet
<1>3. S \in SUBSET R /\ IsFiniteSet(S) /\ ~ \E g : SumRule(w, S, g)
  BY DEF FiniteSubsetsOf
<1> DEFINE H(t) == CHOOSE h : SumRule(w, t, h)
           G == [s \in SUBSET S |->
                   IF s = {} THEN 0 ELSE w[Pick(s)] + H(s \ {Pick(s)})[s \ {Pick(s)}]]
<1>4. ASSUME NEW t \in SUBSET S, t # S PROVE SumRule(w, t, H(t))
  <2>1. t \in FiniteSubsetsOf(R) /\ t \notin Bad
    BY <1>2, <1>3, <1>4, FS_Subset DEF FiniteSubsetsOf
  <2> QED
    BY <2>1
<1>5. ASSUME NEW t \in SUBSET S, t # S PROVE G[t] = H(t)[t]
  <2> DEFINE u == t \ {Pick(t)}
  <2>1. H(t)[t] = IF t = {} THEN 0 ELSE w[Pick(t)] + H(t)[u]
    <3> HIDE DEF H
    <3> QED
      BY <1>4, <1>5 DEF SumRule
  <2>2. CASE t = {}
    BY <2>1, <2>2
  <2>3. CASE t # {}
    <3>1. IsFiniteSet(t)
      BY <1>3, FS_Subset
    <3>2. u \in SUBSET t /\ u \in SUBSET S /\ u # S /\ IsFiniteSet(u)
      BY <2>3, <3>1, RemovePick
    <3>3. SumRule(w, t, H(t)) /\ SumRule(w, u, H(u))
      BY <1>4, <1>5, <3>2
    <3>4. H(t)[u] = H(u)[u]
      <4> HIDE DEF H, u
      <4> QED
        BY <3>2, <3>3, RuleIsUnique
    <3>5. G[t] = w[Pick(t)] + H(u)[u]
      BY <2>3
    <3> HIDE DEF H, G, u
    <3> QED
      BY <2>1, <2>3, <3>4, <3>5
  <2> QED
    BY <2>2, <2>3
<1>6. ASSUME NEW s \in SUBSET S, s # {} PROVE G[s \ {Pick(s)}] = H(s \ {Pick(s)})[s \ {Pick(s)}]
  <2>1. IsFiniteSet(s)
    BY <1>3, FS_Subset
  <2>2. s \ {Pick(s)} \in SUBSET S /\ s \ {Pick(s)} # S
    BY <1>6, <2>1, RemovePick
  <2> QED
    BY <1>5, <2>2
<1>7. \A s \in SUBSET S : G[s] = IF s = {} THEN 0 ELSE w[Pick(s)] + G[s \ {Pick(s)}]
  <2> HIDE DEF H
  <2>1. \A s \in SUBSET S : G[s] = IF s = {} THEN 0 ELSE w[Pick(s)] + H(s \ {Pick(s)})[s \ {Pick(s)}]
    OBVIOUS
  <2> HIDE DEF G
  <2> QED
    BY <1>6, <2>1
<1>8. SumRule(w, S, G)
  <2>1. G = [s \in SUBSET S |-> G[s]]
    OBVIOUS
  <2> HIDE DEF G
  <2> QED
    BY <1>7, <2>1 DEF SumRule
<1> QED
  BY <1>3, <1>8

LEMMA SumUnfolds ==
  ASSUME NEW w, NEW S, IsFiniteSet(S)
  PROVE  SumFunctionOnSet(w, S) =
           IF S = {} THEN 0 ELSE w[Pick(S)] + SumFunctionOnSet(w, S \ {Pick(S)})
<1> DEFINE Rule(T) == CHOOSE g : SumRule(w, T, g)
<1>1. ASSUME NEW T, IsFiniteSet(T) PROVE SumRule(w, T, Rule(T)) /\ SumFunctionOnSet(w, T) = Rule(T)[T]
  BY <1>1, RuleExists, SumIsRule
<1> HIDE DEF Rule
<1>2. SumFunctionOnSet(w, S) = IF S = {} THEN 0 ELSE w[Pick(S)] + Rule(S)[S \ {Pick(S)}]
  <2>1. SumRule(w, S, Rule(S)) /\ SumFunctionOnSet(w, S) = Rule(S)[S]
    BY <1>1
  <2>2. S \in SUBSET S
    OBVIOUS
  <2> QED
    BY <2>1, <2>2 DEF SumRule
<1>3. CASE S # {}
  <2> DEFINE U == S \ {Pick(S)}
  <2>1. IsFiniteSet(U) /\ U \in SUBSET S /\ U \in SUBSET U
    BY <1>3, RemovePick
  <2>2. SumFunctionOnSet(w, U) = Rule(U)[U] /\ SumRule(w, U, Rule(U)) /\ SumRule(w, S, Rule(S))
    BY <1>1, <2>1
  <2> HIDE DEF U
  <2>3. Rule(S)[U] = Rule(U)[U]
    BY <2>1, <2>2, RuleIsUnique
  <2> QED
    BY <1>2, <1>3, <2>2, <2>3 DEF U
<1> QED
  BY <1>2, <1>3

\* The sum of integers does not depend on the order in which they are taken.
LEMMA SumRemoves ==
  ASSUME NEW w, NEW S, IsFiniteSet(S), \A x \in S : w[x] \in Int
  PROVE  /\ SumFunctionOnSet(w, S) \in Int
         /\ \A x \in S : SumFunctionOnSet(w, S) = w[x] + SumFunctionOnSet(w, S \ {x})
<1> DEFINE Sum(s) == SumFunctionOnSet(w, s)
           Good(s) == Sum(s) \in Int /\ \A x \in s : Sum(s) = w[x] + Sum(s \ {x})
           Bad == {s \in FiniteSubsetsOf(S) : ~Good(s)}
<1>1. SUFFICES ASSUME Bad # {} PROVE FALSE
  BY DEF FiniteSubsetsOf
<1>2. PICK s \in Bad : \A y \in Bad : y \subseteq s => y = s
  <2>1. Bad \subseteq FiniteSubsetsOf(S)
    OBVIOUS
  <2> HIDE DEF Bad
  <2> QED
    BY <1>1, <2>1, MinimalSet
<1>3. s \in SUBSET S /\ IsFiniteSet(s) /\ ~Good(s)
  BY DEF FiniteSubsetsOf
<1>4. Sum(s) = IF s = {} THEN 0 ELSE w[Pick(s)] + Sum(s \ {Pick(s)})
  BY <1>3, SumUnfolds
<1>5. ASSUME NEW x \in s PROVE Good(s \ {x}) /\ IsFiniteSet(s \ {x})
  <2>1. IsFiniteSet(s \ {x})
    BY <1>3, FS_RemoveElement
  <2>2. s \ {x} \in FiniteSubsetsOf(S) /\ s \ {x} \subseteq s /\ s \ {x} # s
    BY <1>3, <1>5, <2>1 DEF FiniteSubsetsOf
  <2>3. s \ {x} \notin Bad
    BY <1>2, <2>2
  <2> HIDE DEF Good
  <2> QED
    BY <2>1, <2>2, <2>3
<1>6. s # {}
  BY <1>3, <1>4
<1> DEFINE p == Pick(s)
<1>7. p \in s
  BY <1>3, <1>6, RemovePick
<1>8. /\ Sum(s) = w[p] + Sum(s \ {p})
      /\ Sum(s \ {p}) \in Int /\ w[p] \in Int
      /\ \A x \in s \ {p} : Sum(s \ {p}) = w[x] + Sum((s \ {p}) \ {x})
  BY <1>3, <1>4, <1>5, <1>6, <1>7
<1>9. Sum(s) \in Int
  BY <1>8
<1>10. ASSUME NEW x \in s PROVE Sum(s) = w[x] + Sum(s \ {x})
  <2>1. CASE x = p
    BY <1>8, <2>1
  <2>2. CASE x # p
    <3> DEFINE d == (s \ {p}) \ {x}
    <3>1. d = (s \ {x}) \ {p} /\ x \in s \ {p} /\ p \in s \ {x}
      BY <1>7, <2>2
    <3>2. Sum(s \ {p}) = w[x] + Sum(d)
      BY <1>8, <3>1
    <3>3. Sum(s \ {x}) = w[p] + Sum(d)
      <4>1. Good(s \ {x})
        BY <1>5
      <4> QED
        BY <3>1, <4>1
    <3>4. Sum(d) \in Int
      <4>1. Good(s \ {p})
        BY <1>5, <1>7
      <4>2. d \in FiniteSubsetsOf(S) /\ d \subseteq s /\ d # s
        <5>1. IsFiniteSet(d)
          BY <1>5, <1>7, FS_RemoveElement
        <5> QED
          BY <1>3, <1>7, <5>1 DEF FiniteSubsetsOf
      <4>3. d \notin Bad
        BY <1>2, <4>2
      <4>4. Good(d)
        <5> HIDE DEF Good, d
        <5> QED
          BY <4>2, <4>3
      <4> QED
        BY <4>4
    <3>5. w[x] \in Int /\ w[p] \in Int
      BY <1>3, <1>7
    <3> HIDE DEF Sum, d, p, Good, Bad
    <3> QED
      BY <1>8, <3>2, <3>3, <3>4, <3>5
  <2> QED
    BY <2>1, <2>2
<1> QED
  BY <1>3, <1>9, <1>10

\* A sum over S and one more element.
LEMMA SumAdds ==
  ASSUME NEW w, NEW S, IsFiniteSet(S), NEW e, e \notin S, \A x \in S \cup {e} : w[x] \in Int
  PROVE  SumFunctionOnSet(w, S \cup {e}) = SumFunctionOnSet(w, S) + w[e]
<1>1. IsFiniteSet(S \cup {e}) /\ (S \cup {e}) \ {e} = S /\ e \in S \cup {e}
  BY FS_AddElement
<1>2. SumFunctionOnSet(w, S \cup {e}) = w[e] + SumFunctionOnSet(w, S)
  BY <1>1, SumRemoves
<1>3. SumFunctionOnSet(w, S) \in Int /\ w[e] \in Int
  BY SumRemoves
<1> QED
  BY <1>2, <1>3

\* When every element gains at least as much in w over v as it did in y over z, so do the sums.
LEMMA SumCompares ==
  ASSUME NEW v, NEW w, NEW y, NEW z, NEW S, IsFiniteSet(S),
         \A x \in S : v[x] \in Int /\ w[x] \in Int /\ y[x] \in Int /\ z[x] \in Int
                     /\ v[x] + z[x] <= w[x] + y[x]
  PROVE  SumFunctionOnSet(v, S) + SumFunctionOnSet(z, S)
           <= SumFunctionOnSet(w, S) + SumFunctionOnSet(y, S)
<1> DEFINE Good(s) == SumFunctionOnSet(v, s) + SumFunctionOnSet(z, s)
                        <= SumFunctionOnSet(w, s) + SumFunctionOnSet(y, s)
           Bad == {s \in FiniteSubsetsOf(S) : ~Good(s)}
<1>1. SUFFICES ASSUME Bad # {} PROVE FALSE
  BY DEF FiniteSubsetsOf
<1>2. PICK s \in Bad : \A t \in Bad : t \subseteq s => t = s
  <2>1. Bad \subseteq FiniteSubsetsOf(S)
    OBVIOUS
  <2> HIDE DEF Bad
  <2> QED
    BY <1>1, <2>1, MinimalSet
<1>3. s \in SUBSET S /\ IsFiniteSet(s) /\ ~Good(s)
  BY DEF FiniteSubsetsOf
<1>4. s # {}
  <2>1. \A f : SumFunctionOnSet(f, {}) = 0
    BY FS_EmptySet, SumUnfolds
  <2>2. Good({})
    BY <2>1
  <2> HIDE DEF Good
  <2> QED
    BY <1>3, <2>2
<1>5. PICK p \in s : TRUE
  BY <1>4
<1> DEFINE d == s \ {p}
<1>6. IsFiniteSet(d) /\ d \in FiniteSubsetsOf(S) /\ d \subseteq s /\ d # s
  BY <1>3, <1>5, FS_RemoveElement DEF FiniteSubsetsOf
<1>7. Good(d)
  <2>1. d \notin Bad
    BY <1>2, <1>6
  <2> HIDE DEF Good, d
  <2> QED
    BY <1>6, <2>1
<1>8. ASSUME NEW f, \A x \in S : f[x] \in Int
      PROVE  /\ SumFunctionOnSet(f, s) = f[p] + SumFunctionOnSet(f, d)
             /\ SumFunctionOnSet(f, d) \in Int /\ f[p] \in Int
  <2>1. \A x \in s : f[x] \in Int
    BY <1>3, <1>8
  <2> QED
    BY <1>3, <1>5, <1>6, <2>1, SumRemoves
<1>9. /\ SumFunctionOnSet(v, s) = v[p] + SumFunctionOnSet(v, d)
      /\ SumFunctionOnSet(w, s) = w[p] + SumFunctionOnSet(w, d)
      /\ SumFunctionOnSet(y, s) = y[p] + SumFunctionOnSet(y, d)
      /\ SumFunctionOnSet(z, s) = z[p] + SumFunctionOnSet(z, d)
  BY <1>8
<1>10. /\ SumFunctionOnSet(v, d) \in Int /\ v[p] \in Int
       /\ SumFunctionOnSet(w, d) \in Int /\ w[p] \in Int
       /\ SumFunctionOnSet(y, d) \in Int /\ y[p] \in Int
       /\ SumFunctionOnSet(z, d) \in Int /\ z[p] \in Int
  BY <1>8
<1>11. v[p] + z[p] <= w[p] + y[p]
  BY <1>3, <1>5
<1> HIDE DEF d, Bad
<1> QED
  BY <1>3, <1>7, <1>9, <1>10, <1>11

\* Two functions that agree have the same sum; no number is below zero, no sum is.
LEMMA SumAgrees ==
  ASSUME NEW v, NEW w, NEW S, IsFiniteSet(S), \A x \in S : v[x] = w[x] /\ w[x] \in Int
  PROVE  SumFunctionOnSet(v, S) = SumFunctionOnSet(w, S)
<1>1. SumFunctionOnSet(v, S) \in Int /\ SumFunctionOnSet(w, S) \in Int
  BY SumRemoves
<1>2. /\ SumFunctionOnSet(v, S) + SumFunctionOnSet(v, S)
           <= SumFunctionOnSet(w, S) + SumFunctionOnSet(v, S)
      /\ SumFunctionOnSet(w, S) + SumFunctionOnSet(v, S)
           <= SumFunctionOnSet(v, S) + SumFunctionOnSet(v, S)
  BY SumCompares
<1> QED
  BY <1>1, <1>2

LEMMA SumIsNatural ==
  ASSUME NEW w, NEW S, IsFiniteSet(S), \A x \in S : w[x] \in Nat
  PROVE  SumFunctionOnSet(w, S) \in Nat
<1> DEFINE Bad == {s \in FiniteSubsetsOf(S) : SumFunctionOnSet(w, s) \notin Nat}
<1>1. SUFFICES ASSUME Bad # {} PROVE FALSE
  BY DEF FiniteSubsetsOf
<1>2. PICK s \in Bad : \A t \in Bad : t \subseteq s => t = s
  <2>1. Bad \subseteq FiniteSubsetsOf(S)
    OBVIOUS
  <2> HIDE DEF Bad
  <2> QED
    BY <1>1, <2>1, MinimalSet
<1>3. s \in SUBSET S /\ IsFiniteSet(s) /\ SumFunctionOnSet(w, s) \notin Nat
  BY DEF FiniteSubsetsOf
<1>4. s # {} /\ SumFunctionOnSet(w, s) = w[Pick(s)] + SumFunctionOnSet(w, s \ {Pick(s)})
  BY <1>3, SumUnfolds
<1>5. /\ Pick(s) \in s /\ s \ {Pick(s)} \in FiniteSubsetsOf(S)
      /\ s \ {Pick(s)} \subseteq s /\ s \ {Pick(s)} # s
  BY <1>3, <1>4, RemovePick DEF FiniteSubsetsOf
<1>6. SumFunctionOnSet(w, s \ {Pick(s)}) \in Nat
  BY <1>2, <1>5
<1>7. w[Pick(s)] \in Nat
  BY <1>3, <1>5
<1> QED
  BY <1>3, <1>4, <1>6, <1>7

-----------------------------------------------------------------------------
(* The shape of the records                                                   *)

\* A lease that ran out is settled, any other record is kept (reconcileExpiredReservations).
LEMMA ReconcileType ==
  ASSUME TypeOK
  PROVE  /\ ReconcileExpiredReservations \in [Reservations -> Records]
         /\ \A r \in Reservations :
              \/ ReconcileExpiredReservations[r] = reservation[r]
              \/ /\ reservation[r].status = "active"
                 /\ ReconcileExpiredReservations[r] = StaleRecord
<1>1. StaleSettlement \in Settlements
  BY DEF StaleSettlement, Settlements, Terminal, Unobserved
<1>2. StaleRecord \in Records
  BY <1>1 DEF StaleRecord, Records, Terminal
<1>3. \A r \in Reservations : reservation[r] \in Records
  BY DEF TypeOK
<1> HIDE DEF Records, StaleRecord
<1> QED
  BY <1>2, <1>3 DEF ReconcileExpiredReservations, Expired

\* A new record of a live lease is a record (reserve, renew).
LEMMA LeaseType ==
  ASSUME BudgetAssumption, NEW at \in 0 .. MaxTime
  PROVE  [status |-> "active", expiresAt |-> at + Lease] \in Records
<1>1. at + Lease \in 0 .. MaxTime + Lease
  BY DEF BudgetAssumption
<1> QED
  BY <1>1 DEF Records

\* A settled record is a record (settle).
LEMMA SettledType ==
  ASSUME NEW s \in Requestable
  PROVE  /\ [status |-> s.status, settlement |-> s] \in Records
         /\ s \in Settlements /\ s.status \in Terminal
<1>1. s \in Settlements
  BY DEF Requestable
<1>2. s.status \in Terminal
  BY <1>1 DEF Settlements
<1> QED
  BY <1>1, <1>2 DEF Records

\* An admission that begins, and the one in progress, are readings.
LEMMA ReadingTypes ==
  ASSUME TypeOK
  PROVE  /\ \A r \in Reservations : ReadRows("workflow", r) \in Readings
         /\ \A j \in Jobs : ReadRows("compute", j) \in Readings
         /\ Idle \in Readings
         /\ reading.kind \in {"workflow", "compute"}
              => reading.at \in 0 .. MaxTime /\ reading.chat \in 0 .. MaxBooked
<1>1. Rows \subseteq Jobs
  BY DEF Rows
<1>2. reading \in Readings
  BY DEF TypeOK
<1> QED
  BY <1>1, <1>2 DEF ReadRows, Readings, Reading, Idle, TypeOK

\* The shape of the store's records is kept by every operation of the store and of the
\* compute reservations.
LEMMA TypeStep ==
  ASSUME TypeOK, BudgetAssumption, [Next]_vars
  PROVE  TypeOK'
<1> USE DEF TypeOK
<1>1. ASSUME NEW r \in Reservations, Reserve(r) PROVE TypeOK'
  <2>1. ReconcileExpiredReservations \in [Reservations -> Records]
    BY ReconcileType
  <2>2. reading' \in Readings
    BY <1>1, ReadingTypes DEF Reserve
  <2> HIDE DEF Records, Readings
  <2> QED
    BY <1>1, <2>1, <2>2 DEF Reserve
<1>2. ASSUME NEW r \in Reservations, NEW s \in Requestable, Settle(r, s) PROVE TypeOK'
  <2>1. [status |-> s.status, settlement |-> s] \in Records
    BY SettledType
  <2> HIDE DEF Records
  <2> QED
    BY <1>2, <2>1 DEF Settle
<1>3. ASSUME NEW r \in Reservations, Renew(r) PROVE TypeOK'
  <2>1. reservation[r] \in Records
    OBVIOUS
  <2>2. [reservation[r] EXCEPT !.expiresAt = now + Lease] \in Records
    <3>1. reservation[r] \in [status : {"active"}, expiresAt : 0 .. MaxTime + Lease]
      BY <1>3, <2>1 DEF Renew, Records, Absent, Terminal
    <3>2. [reservation[r] EXCEPT !.expiresAt = now + Lease]
            = [status |-> "active", expiresAt |-> now + Lease]
      BY <3>1
    <3> QED
      BY <3>2, LeaseType
  <2> HIDE DEF Records
  <2> QED
    BY <1>3, <2>2 DEF Renew
<1>4. CASE ReconcileStale
  BY <1>4, ReconcileType DEF ReconcileStale
<1>5. ASSUME NEW j \in Jobs, ReserveComputeBudget(j) PROVE TypeOK'
  <2>1. reading' \in Readings
    BY <1>5, ReadingTypes DEF ReserveComputeBudget
  <2> HIDE DEF Records, Readings
  <2> QED
    BY <1>5, <2>1 DEF ReserveComputeBudget
<1>6. ASSUME NEW j \in Jobs, NEW c \in JobCosts, BookComputeCost(j, c) PROVE TypeOK'
  BY <1>6 DEF BookComputeCost, JobRecords
<1>7. ASSUME NEW j \in Jobs, ReleaseComputeReservation(j) PROVE TypeOK'
  BY <1>7 DEF ReleaseComputeReservation, JobRecords
<1>8. CASE RecordRun
  BY <1>8 DEF RecordRun, BudgetAssumption
<1>9. CASE Tick
  BY <1>9 DEF Tick, BudgetAssumption
<1>10. CASE UNCHANGED vars
  BY <1>10 DEF vars
<1>11. ASSUME NEW r \in Reservations, Admit(r) PROVE TypeOK'
  <2>1. [status |-> "active", expiresAt |-> reading.at + Lease] \in Records
    BY <1>11, ReadingTypes, LeaseType DEF Admit
  <2>2. Idle \in Readings /\ Unseen \subseteq Jobs
    BY ReadingTypes DEF Unseen
  <2> HIDE DEF Records, Readings, Unseen
  <2> QED
    BY <1>11, <2>1, <2>2 DEF Admit
<1>12. ASSUME NEW j \in Jobs, AdmitJob(j) PROVE TypeOK'
  <2>1. [compute EXCEPT ![j].state = "held"] \in [Jobs -> JobRecords]
    BY DEF JobRecords
  <2>2. Idle \in Readings /\ Unseen \subseteq Jobs
    BY ReadingTypes DEF Unseen
  <2> HIDE DEF Records, Readings, Unseen
  <2> QED
    BY <1>12, <2>1, <2>2 DEF AdmitJob
<1>13. CASE RecoverDeadLock
  BY <1>13, ReadingTypes DEF RecoverDeadLock
<1> QED
  BY <1>1, <1>2, <1>3, <1>4, <1>5, <1>6, <1>7, <1>8, <1>9, <1>10, <1>11, <1>12, <1>13 DEF Next

\* Every record of the store, in every reachable state, is absent, leased or settled
\* (budget.ts, reserve, settle, renew, reconcileStale).
THEOREM BudgetTypeOK == Spec => []TypeOK
<1>1. Init => TypeOK
  BY BudgetAssumption
  DEF Init, TypeOK, Records, Absent, JobRecords, Readings, BudgetAssumption
<1>2. TypeOK /\ [Next]_vars => TypeOK'
  BY TypeStep, BudgetAssumption
<1> QED
  BY <1>1, <1>2, PTL DEF Spec

-----------------------------------------------------------------------------
(* What an admission has checked                                              *)

\* Under the lock no other operation writes a record or makes a reservation: what the
\* admission in progress has checked before its two reads still holds after them.
ChecksStand ==
  /\ reading.kind = "workflow"
       => /\ reading.id \in Reservations
          /\ reservation[reading.id] = Absent
          /\ FitsRun(reservation, reading.id)
  /\ reading.kind = "compute" => compute[reading.id].state = "none"

LEMMA ChecksStandStep ==
  ASSUME TypeOK, ChecksStand, [Next]_vars
  PROVE  ChecksStand'
<1>1. ASSUME NEW r \in Reservations, Reserve(r) PROVE ChecksStand'
  <2> HIDE DEF ReconcileExpiredReservations
  <2>1. reservation' = ReconcileExpiredReservations
    BY <1>1 DEF Reserve
  <2>2. CASE ReconcileExpiredReservations[r] = Absent /\ FitsRun(ReconcileExpiredReservations, r)
    <3>1. reading' = ReadRows("workflow", r)
      BY <1>1, <2>2 DEF Reserve
    <3>2. reading'.id = r /\ reading'.kind = "workflow"
      BY <3>1 DEF ReadRows
    <3>3. FitsRun(reservation', r) /\ reservation'[r] = Absent
      BY <2>1, <2>2
    <3> QED
      BY <3>2, <3>3 DEF ChecksStand
  <2>3. CASE ~ (ReconcileExpiredReservations[r] = Absent /\ FitsRun(ReconcileExpiredReservations, r))
    BY <1>1, <2>3 DEF Reserve, ChecksStand, Idle
  <2> QED
    BY <2>2, <2>3
<1>2. CASE reading' = Idle
  BY <1>2 DEF ChecksStand, Idle
<1>3. CASE reading' = reading /\ reading = Idle
  BY <1>2, <1>3
<1>4. CASE UNCHANGED <<reading, reservation, compute>>
  BY <1>4 DEF ChecksStand
<1>5. ASSUME NEW j \in Jobs, ReserveComputeBudget(j) PROVE ChecksStand'
  BY <1>5 DEF ReserveComputeBudget, ReadRows, ChecksStand
<1>6. ASSUME NEW j \in Jobs,
             (\E c \in JobCosts : BookComputeCost(j, c)) \/ ReleaseComputeReservation(j)
      PROVE  ChecksStand'
  <2>1. compute[j].state \in {"held", "booked"} /\ UNCHANGED <<reading, reservation>>
    BY <1>6 DEF BookComputeCost, ReleaseComputeReservation
  <2>2. \A i \in Jobs : i # j => compute'[i] = compute[i]
    BY <1>6 DEF BookComputeCost, ReleaseComputeReservation, TypeOK
  <2>3. reading.kind = "compute" => reading.id \in Jobs
    <3>1. reading \in Readings
      BY DEF TypeOK
    <3> QED
      BY <3>1 DEF Readings, Reading, Idle
  <2> QED
    BY <2>1, <2>2, <2>3 DEF ChecksStand
<1> QED
  BY <1>1, <1>2, <1>3, <1>4, <1>5, <1>6
  DEF Next, vars, Admit, Settle, Renew, ReconcileStale, AdmitJob, RecoverDeadLock,
      RecordRun, Tick

LEMMA ChecksStandAlways == Spec => []ChecksStand
<1>1. Init => ChecksStand
  BY DEF Init, ChecksStand, Idle
<1>2. TypeOK /\ ChecksStand /\ [Next]_vars => ChecksStand'
  BY ChecksStandStep
<1> QED
  BY <1>1, <1>2, BudgetTypeOK, PTL DEF Spec

-----------------------------------------------------------------------------
(* What the records commit                                                    *)

LEMMA RecordKinds ==
  ASSUME NEW record \in Records
  PROVE  \/ record.status = "absent"
         \/ record.status = "active"
         \/ record.status \in Terminal /\ record.settlement \in Settlements
BY DEF Records, Absent

\* What a settlement charges is a number, as is what any record takes.
LEMMA ChargedTypes ==
  ASSUME BudgetAssumption, NEW r \in Reservations, NEW s \in Settlements
  PROVE  ChargedCost(r, s) \in Nat /\ ChargedTokens(r, s) \in Nat
<1>1. s.usage \in Usages \cup {Unobserved}
  BY DEF Settlements
<1>2. /\ Request[r].cost \in Nat /\ Request[r].tokens \in Nat /\ Request[r].initial \in Nat
      /\ Request[r].initial <= Request[r].cost
      /\ s.usage # Unobserved => s.usage.cost \in Nat /\ s.usage.tokens \in Nat
  BY <1>1 DEF BudgetAssumption
<1> QED
  BY <1>2 DEF ChargedCost, ChargedTokens, ReservedCost, Max0

LEMMA RequestTypes ==
  ASSUME BudgetAssumption, NEW r \in Reservations
  PROVE  /\ Request[r].cost \in Nat /\ Request[r].tokens \in Nat /\ Request[r].calls \in Nat
         /\ ReservedCost(r) \in Nat /\ ReservedCost(r) <= Request[r].cost
BY DEF BudgetAssumption, ReservedCost

LEMMA ValueTypes ==
  ASSUME BudgetAssumption, NEW records \in [Reservations -> Records],
         NEW r \in Present(records)
  PROVE  /\ CostOf(records, r) \in Nat /\ TokensOf(records, r) \in Nat
         /\ TakesOf(records, r) \in Nat
<1>1. /\ r \in Reservations
      /\ \/ records[r].status = "active"
         \/ records[r].status # "active" /\ records[r].settlement \in Settlements
  <2>1. r \in Reservations /\ records[r] \in Records /\ records[r].status # "absent"
    BY DEF Present
  <2> HIDE DEF Records
  <2> QED
    BY <2>1, RecordKinds DEF Terminal
<1> QED
  BY <1>1, ChargedTypes, RequestTypes DEF CostOf, TokensOf, TakesOf

LEMMA OverTypes ==
  ASSUME BudgetAssumption, TypeOK, NEW r \in Reservations
  PROVE  OverCost(r) \in Nat /\ OverTokens(r) \in Nat
<1>1. reservation[r] \in Records
  BY DEF TypeOK
<1>2. \/ reservation[r].status \in {"absent", "active"}
      \/ reservation[r].settlement \in Settlements
  <2> HIDE DEF Records
  <2> QED
    BY <1>1, RecordKinds
<1> QED
  BY <1>2, ChargedTypes, RequestTypes DEF OverCost, OverTokens, Max0

LEMMA OverTypesNext ==
  ASSUME BudgetAssumption, TypeOK', NEW r \in Reservations
  PROVE  OverCost(r)' \in Nat /\ OverTokens(r)' \in Nat
<1>1. reservation'[r] \in Records
  BY DEF TypeOK
<1>2. \/ reservation'[r].status \in {"absent", "active"}
      \/ reservation'[r].settlement \in Settlements
  <2> HIDE DEF Records
  <2> QED
    BY <1>1, RecordKinds
<1> QED
  BY <1>2, ChargedTypes, RequestTypes DEF OverCost, OverTokens, Max0

\* What a step does to a record it does not admit: nothing, a new lease, or its settlement.
Narrows(r) ==
  \/ reservation'[r] = reservation[r]
  \/ reservation[r].status = "active" /\ reservation'[r].status \in {"active"} \cup Terminal

\* What a step that admits a record does: it finds room for it.
Admits(r) ==
  /\ reading.kind = "workflow"
  /\ reservation[r] = Absent
  /\ FitsRun(reservation, r) /\ FitsProject(ReservedCost(r))
  /\ reservation' =
       [reservation EXCEPT ![r] = [status |-> "active", expiresAt |-> reading.at + Lease]]
  /\ missed' = missed \cup Unseen
  /\ UNCHANGED compute

LEMMA RecordSteps ==
  ASSUME TypeOK, ChecksStand, [Next]_vars
  PROVE  \/ \E r \in Reservations : Admits(r)
         \/ \A r \in Reservations : Narrows(r)
<1>1. StaleRecord.status \in Terminal
  BY DEF StaleRecord, Terminal
<1>2. \A r \in Reservations : reservation[r] \in Records
  BY DEF TypeOK
<1> HIDE DEF Records
<1>3. CASE reservation' = ReconcileExpiredReservations
  BY <1>1, <1>3, ReconcileType DEF Narrows
<1>4. ASSUME NEW x \in Reservations, Reserve(x)
      PROVE  \/ \E r \in Reservations : Admits(r)
             \/ \A r \in Reservations : Narrows(r)
  <2>1. reservation' = ReconcileExpiredReservations
    BY <1>4 DEF Reserve
  <2> QED
    BY <1>3, <2>1
<1>5. ASSUME NEW x \in Reservations, NEW s \in Requestable, Settle(x, s), NEW r \in Reservations
      PROVE  Narrows(r)
  BY <1>5, SettledType DEF Settle, TypeOK, Narrows
<1>6. ASSUME NEW x \in Reservations, Renew(x), NEW r \in Reservations
      PROVE  Narrows(r)
  <2>1. CASE r = x
    <3>1. reservation[r] \in [status : {"active"}, expiresAt : 0 .. MaxTime + Lease]
      BY <1>2, <1>6, <2>1 DEF Renew, Records, Absent, Terminal
    <3>2. reservation'[r] = [reservation[r] EXCEPT !.expiresAt = now + Lease]
      BY <1>6, <2>1 DEF Renew, TypeOK
    <3> QED
      BY <3>1, <3>2 DEF Narrows
  <2>2. CASE r # x
    BY <1>6, <2>2 DEF Renew, TypeOK, Narrows
  <2> QED
    BY <2>1, <2>2
<1>7. CASE ReconcileStale
  BY <1>3, <1>7 DEF ReconcileStale
<1>8. CASE UNCHANGED reservation
  BY <1>8 DEF Narrows
<1>9. ASSUME NEW x \in Reservations, Admit(x)
      PROVE  Admits(x) \/ UNCHANGED reservation
  <2>1. reading.kind = "workflow" /\ reading.id = x
    BY <1>9 DEF Admit
  <2>2. reservation[x] = Absent /\ FitsRun(reservation, x)
    BY <2>1 DEF ChecksStand
  <2> QED
    BY <1>9, <2>2 DEF Admit, Admits
<1>10. \/ UNCHANGED reservation
       \/ ReconcileStale
       \/ \E x \in Reservations : \/ Reserve(x) \/ Admit(x) \/ Renew(x)
                                  \/ \E s \in Requestable : Settle(x, s)
  BY DEF Next, vars, ReserveComputeBudget, AdmitJob, RecoverDeadLock, BookComputeCost,
         ReleaseComputeReservation, RecordRun, Tick
<1> QED
  BY <1>4, <1>5, <1>6, <1>7, <1>8, <1>9, <1>10

\* A record that narrows takes no more than before, but for what its settlement reports
\* above its maximum.
LEMMA NarrowedValues ==
  ASSUME BudgetAssumption, TypeOK, TypeOK', NEW r \in Present(reservation), Narrows(r)
  PROVE  /\ r \in Present(reservation')
         /\ CostOf(reservation', r) + OverCost(r) <= CostOf(reservation, r) + OverCost(r)'
         /\ TokensOf(reservation', r) + OverTokens(r) <= TokensOf(reservation, r) + OverTokens(r)'
         /\ TakesOf(reservation', r) + OverCost(r) <= TakesOf(reservation, r) + OverCost(r)'
<1>1. r \in Reservations /\ reservation[r].status # "absent"
  BY DEF Present
<1>2. CASE reservation'[r] = reservation[r]
  <2>1. OverCost(r)' = OverCost(r) /\ OverTokens(r)' = OverTokens(r)
    BY <1>2 DEF OverCost, OverTokens
  <2>2. /\ CostOf(reservation', r) = CostOf(reservation, r)
        /\ TokensOf(reservation', r) = TokensOf(reservation, r)
        /\ TakesOf(reservation', r) = TakesOf(reservation, r)
    BY <1>2 DEF CostOf, TokensOf, TakesOf
  <2>3. /\ CostOf(reservation, r) \in Nat /\ TokensOf(reservation, r) \in Nat
        /\ TakesOf(reservation, r) \in Nat
    <3>1. reservation \in [Reservations -> Records]
      BY DEF TypeOK
    <3> QED
      BY <3>1, ValueTypes
  <2>4. OverCost(r) \in Nat /\ OverTokens(r) \in Nat
    BY <1>1, OverTypes
  <2> QED
    BY <1>1, <1>2, <2>1, <2>2, <2>3, <2>4 DEF Present
<1>3. CASE reservation[r].status = "active" /\ reservation'[r].status = "active"
  <2>1. OverCost(r) = 0 /\ OverCost(r)' = 0 /\ OverTokens(r) = 0 /\ OverTokens(r)' = 0
    BY <1>3 DEF OverCost, OverTokens
  <2> QED
    BY <1>1, <1>3, <2>1, RequestTypes DEF Present, CostOf, TokensOf, TakesOf
<1>4. CASE reservation[r].status = "active" /\ reservation'[r].status \in Terminal
  <2> DEFINE s == reservation'[r].settlement
  <2>1. reservation'[r].status \notin {"absent", "active"}
    BY <1>4 DEF Terminal
  <2>2. s \in Settlements
    <3>1. reservation'[r] \in Records
      BY <1>1 DEF TypeOK
    <3> HIDE DEF Records
    <3> QED
      BY <2>1, <3>1, RecordKinds
  <2>3. /\ OverCost(r) = 0 /\ OverTokens(r) = 0
        /\ OverCost(r)' = Max0(ChargedCost(r, s) - ReservedCost(r))
        /\ OverTokens(r)' = Max0(ChargedTokens(r, s) - Request[r].tokens)
    BY <1>4, <2>1 DEF OverCost, OverTokens
  <2>4. /\ CostOf(reservation', r) = ChargedCost(r, s)
        /\ TokensOf(reservation', r) = ChargedTokens(r, s)
        /\ TakesOf(reservation', r) = ChargedCost(r, s)
        /\ CostOf(reservation, r) = Request[r].cost
        /\ TokensOf(reservation, r) = Request[r].tokens
        /\ TakesOf(reservation, r) = ReservedCost(r)
    BY <1>4, <2>1 DEF CostOf, TokensOf, TakesOf
  <2>5. ChargedCost(r, s) \in Nat /\ ChargedTokens(r, s) \in Nat
    BY <1>1, <2>2, ChargedTypes
  <2>6. r \in Present(reservation')
    BY <1>1, <2>1 DEF Present
  <2> HIDE DEF s
  <2> QED
    BY <1>1, <2>3, <2>4, <2>5, <2>6, RequestTypes DEF Max0
<1> QED
  BY <1>2, <1>3, <1>4 DEF Narrows

\* A sum that was below a limit, with what is tolerated above it, stays there while its
\* elements narrow.
LEMMA SumStaysBelow ==
  ASSUME NEW S, IsFiniteSet(S), NEW limit \in Int,
         NEW v, NEW w, NEW y, NEW z,
         \A x \in S : /\ v[x] \in Int /\ w[x] \in Int /\ y[x] \in Int /\ z[x] \in Int
                     /\ w[x] + y[x] <= v[x] + z[x],
         SumFunctionOnSet(v, S) <= limit + SumFunctionOnSet(y, S)
  PROVE  SumFunctionOnSet(w, S) <= limit + SumFunctionOnSet(z, S)
<1>1. SumFunctionOnSet(w, S) + SumFunctionOnSet(y, S)
        <= SumFunctionOnSet(v, S) + SumFunctionOnSet(z, S)
  BY SumCompares
<1>2. /\ SumFunctionOnSet(v, S) \in Int /\ SumFunctionOnSet(w, S) \in Int
      /\ SumFunctionOnSet(y, S) \in Int /\ SumFunctionOnSet(z, S) \in Int
  BY SumRemoves
<1> QED
  BY <1>1, <1>2

\* A sum with one more element is the sum without it and that element.
LEMMA SumAdmits ==
  ASSUME NEW S, IsFiniteSet(S), NEW e, e \notin S,
         NEW v, NEW w, \A x \in S : v[x] \in Int /\ w[x] = v[x], w[e] \in Int
  PROVE  SumFunctionOnSet(w, S \cup {e}) = SumFunctionOnSet(v, S) + w[e]
<1>1. SumFunctionOnSet(w, S \cup {e}) = SumFunctionOnSet(w, S) + w[e]
  BY SumAdds
<1>2. SumFunctionOnSet(w, S) = SumFunctionOnSet(v, S)
  BY SumAgrees
<1> QED
  BY <1>1, <1>2

LEMMA SumMonotone ==
  ASSUME NEW v, NEW w, NEW S, IsFiniteSet(S),
         \A x \in S : v[x] \in Int /\ w[x] \in Int /\ v[x] <= w[x]
  PROVE  SumFunctionOnSet(v, S) <= SumFunctionOnSet(w, S)
<1>1. SumFunctionOnSet(v, S) + SumFunctionOnSet(w, S)
        <= SumFunctionOnSet(w, S) + SumFunctionOnSet(w, S)
  BY SumCompares
<1>2. SumFunctionOnSet(v, S) \in Int /\ SumFunctionOnSet(w, S) \in Int
  BY SumRemoves
<1> QED
  BY <1>1, <1>2

\* The records of a step that admits e: the others stay, and e is new.
LEMMA AdmittedRecords ==
  ASSUME TypeOK, NEW e \in Reservations, Admits(e)
  PROVE  /\ reservation \in [Reservations -> Records]
         /\ \A r \in Reservations \ {e} : Narrows(r) /\ reservation'[r] = reservation[r]
         /\ e \notin Present(reservation)
         /\ Present(reservation') = Present(reservation) \cup {e}
         /\ reservation'[e].status = "active"
<1>1. reservation \in [Reservations -> Records]
  BY DEF TypeOK
<1> HIDE DEF Records
<1>2. /\ reservation[e] = Absent
      /\ reservation' =
           [reservation EXCEPT ![e] = [status |-> "active", expiresAt |-> reading.at + Lease]]
  BY DEF Admits
<1>3. reservation'[e] = [status |-> "active", expiresAt |-> reading.at + Lease]
  BY <1>1, <1>2
<1>4. \A r \in Reservations \ {e} : reservation'[r] = reservation[r]
  BY <1>1, <1>2
<1>5. reservation'[e].status = "active"
  BY <1>3
<1> QED
  BY <1>1, <1>2, <1>4, <1>5 DEF Present, Narrows, Absent

LEMMA NarrowsKeepsPresence ==
  ASSUME NEW r \in Reservations, Narrows(r)
  PROVE  r \in Present(reservation') <=> r \in Present(reservation)
BY DEF Narrows, Present, Terminal

LEMMA PresentIsFinite ==
  ASSUME BudgetAssumption, NEW records, NEW run
  PROVE  IsFiniteSet(Present(records)) /\ IsFiniteSet(OfRun(records, run))
<1>1. Present(records) \in SUBSET Reservations /\ OfRun(records, run) \in SUBSET Reservations
  BY DEF Present, OfRun
<1> QED
  BY <1>1, FS_Subset DEF BudgetAssumption

\* A run whose records only narrow stays below its ceilings.
LEMMA NarrowsKeepsCeilings ==
  ASSUME BudgetAssumption, TypeOK, TypeOK', RunCeilingsHold, NEW run \in Runs,
         OfRun(reservation', run) = OfRun(reservation, run),
         \A r \in OfRun(reservation, run) : Narrows(r)
  PROVE  CeilingsHold(run)'
<1> DEFINE S  == OfRun(reservation, run)
           v1 == [r \in S |-> CostOf(reservation, r)]
           w1 == [r \in S |-> CostOf(reservation', r)]
           y1 == [r \in S |-> OverCost(r)]
           z1 == [r \in S |-> OverCost(r)']
           v2 == [r \in S |-> TokensOf(reservation, r)]
           w2 == [r \in S |-> TokensOf(reservation', r)]
           y2 == [r \in S |-> OverTokens(r)]
           z2 == [r \in S |-> OverTokens(r)']
<1>1. IsFiniteSet(S)
  BY PresentIsFinite
<1>2. /\ Ceiling[run].cost \in Int /\ Ceiling[run].tokens \in Int
  BY DEF BudgetAssumption
<1>3. \A r \in S : r \in Reservations /\ r \in Present(reservation) /\ r \in Present(reservation')
  BY DEF OfRun, Present
<1>4. ASSUME NEW r \in S
      PROVE  /\ CostOf(reservation, r) \in Int /\ CostOf(reservation', r) \in Int
             /\ TokensOf(reservation, r) \in Int /\ TokensOf(reservation', r) \in Int
             /\ OverCost(r) \in Int /\ OverCost(r)' \in Int
             /\ OverTokens(r) \in Int /\ OverTokens(r)' \in Int
             /\ CostOf(reservation', r) + OverCost(r) <= CostOf(reservation, r) + OverCost(r)'
             /\ TokensOf(reservation', r) + OverTokens(r)
                  <= TokensOf(reservation, r) + OverTokens(r)'
  <2>1. reservation \in [Reservations -> Records] /\ reservation' \in [Reservations -> Records]
    BY DEF TypeOK
  <2>2. /\ CostOf(reservation, r) \in Nat /\ CostOf(reservation', r) \in Nat
        /\ TokensOf(reservation, r) \in Nat /\ TokensOf(reservation', r) \in Nat
    BY <1>3, <2>1, ValueTypes
  <2>3. OverCost(r) \in Nat /\ OverTokens(r) \in Nat
    BY <1>3, OverTypes
  <2>4. OverCost(r)' \in Nat /\ OverTokens(r)' \in Nat
    BY <1>3, OverTypesNext
  <2>5. /\ CostOf(reservation', r) + OverCost(r) <= CostOf(reservation, r) + OverCost(r)'
        /\ TokensOf(reservation', r) + OverTokens(r) <= TokensOf(reservation, r) + OverTokens(r)'
    BY <1>3, NarrowedValues
  <2> QED
    BY <2>2, <2>3, <2>4, <2>5
<1>5. /\ SumFunctionOnSet(v1, S) <= Ceiling[run].cost + SumFunctionOnSet(y1, S)
      /\ SumFunctionOnSet(v2, S) <= Ceiling[run].tokens + SumFunctionOnSet(y2, S)
      /\ SumFunction([r \in S |-> Request[r].calls]) <= Ceiling[run].calls
  BY DEF RunCeilingsHold, CeilingsHold, RunCommitment, SumFunction
<1>6. SumFunctionOnSet(w1, S) <= Ceiling[run].cost + SumFunctionOnSet(z1, S)
  <2>1. \A r \in S : /\ v1[r] \in Int /\ w1[r] \in Int /\ y1[r] \in Int /\ z1[r] \in Int
                     /\ w1[r] + y1[r] <= v1[r] + z1[r]
    BY <1>4
  <2> HIDE DEF S, v1, w1, y1, z1
  <2> QED
    BY <1>1, <1>2, <1>5, <2>1, SumStaysBelow
<1>7. SumFunctionOnSet(w2, S) <= Ceiling[run].tokens + SumFunctionOnSet(z2, S)
  <2>1. \A r \in S : /\ v2[r] \in Int /\ w2[r] \in Int /\ y2[r] \in Int /\ z2[r] \in Int
                     /\ w2[r] + y2[r] <= v2[r] + z2[r]
    BY <1>4
  <2> HIDE DEF S, v2, w2, y2, z2
  <2> QED
    BY <1>1, <1>2, <1>5, <2>1, SumStaysBelow
<1> QED
  BY <1>5, <1>6, <1>7 DEF CeilingsHold, RunCommitment, SumFunction

\* A run that admits a reservation has room for it.
LEMMA AdmitsKeepsCeilings ==
  ASSUME BudgetAssumption, TypeOK, TypeOK', NEW e \in Reservations, Admits(e)
  PROVE  CeilingsHold(Request[e].run)'
<1> DEFINE run == Request[e].run
           S  == OfRun(reservation, run)
           T  == S \cup {e}
           v1 == [r \in S |-> CostOf(reservation, r)]
           w1 == [r \in T |-> CostOf(reservation', r)]
           z1 == [r \in T |-> OverCost(r)']
           v2 == [r \in S |-> TokensOf(reservation, r)]
           w2 == [r \in T |-> TokensOf(reservation', r)]
           z2 == [r \in T |-> OverTokens(r)']
           v3 == [r \in S |-> Request[r].calls]
           w3 == [r \in T |-> Request[r].calls]
<1>1. /\ reservation \in [Reservations -> Records]
      /\ \A r \in Reservations \ {e} : reservation'[r] = reservation[r]
      /\ e \notin Present(reservation)
      /\ Present(reservation') = Present(reservation) \cup {e}
      /\ reservation'[e].status = "active"
  BY AdmittedRecords
<1>2. /\ OfRun(reservation', run) = T /\ e \notin S /\ S \subseteq Present(reservation)
      /\ T \subseteq Present(reservation') /\ T \subseteq Reservations
  BY <1>1 DEF OfRun, Present
<1>3. IsFiniteSet(S) /\ IsFiniteSet(T)
  BY PresentIsFinite, FS_AddElement
<1>4. /\ run \in Runs /\ Ceiling[run].cost \in Int /\ Ceiling[run].tokens \in Int
      /\ Ceiling[run].calls \in Int
  BY DEF BudgetAssumption
<1>5. FitsRun(reservation, e)
  BY DEF Admits
<1> HIDE DEF run
<1>6. /\ SumFunctionOnSet(v1, S) + Request[e].cost <= Ceiling[run].cost
      /\ SumFunctionOnSet(v2, S) + Request[e].tokens <= Ceiling[run].tokens
      /\ SumFunctionOnSet(v3, S) + Request[e].calls <= Ceiling[run].calls
  BY <1>5 DEF FitsRun, RunCommitment, SumFunction, run
<1>7. ASSUME NEW r \in S
      PROVE  /\ v1[r] \in Int /\ w1[r] = v1[r] /\ v2[r] \in Int /\ w2[r] = v2[r]
             /\ v3[r] \in Int /\ w3[r] = v3[r]
  <2>1. CostOf(reservation, r) \in Nat /\ TokensOf(reservation, r) \in Nat
    BY <1>1, <1>2, ValueTypes
  <2>2. r \in Reservations /\ reservation'[r] = reservation[r]
    BY <1>1, <1>2
  <2>3. /\ CostOf(reservation', r) = CostOf(reservation, r)
        /\ TokensOf(reservation', r) = TokensOf(reservation, r)
    BY <2>2 DEF CostOf, TokensOf
  <2>4. Request[r].calls \in Nat
    BY <2>2, RequestTypes
  <2> QED
    BY <2>1, <2>3, <2>4
<1>8. /\ w1[e] = Request[e].cost /\ w2[e] = Request[e].tokens /\ w3[e] = Request[e].calls
      /\ Request[e].cost \in Nat /\ Request[e].tokens \in Nat /\ Request[e].calls \in Nat
  BY <1>1, RequestTypes DEF CostOf, TokensOf
<1>9. \A r \in T : z1[r] \in Nat /\ z2[r] \in Nat
  <2>1. ASSUME NEW r \in T PROVE OverCost(r)' \in Nat /\ OverTokens(r)' \in Nat
    BY <1>2, OverTypesNext
  <2> QED
    BY <2>1
<1>10. /\ SumFunctionOnSet(w1, T) = SumFunctionOnSet(v1, S) + w1[e]
       /\ SumFunctionOnSet(w2, T) = SumFunctionOnSet(v2, S) + w2[e]
       /\ SumFunctionOnSet(w3, T) = SumFunctionOnSet(v3, S) + w3[e]
  <2>1. w1[e] \in Int /\ w2[e] \in Int /\ w3[e] \in Int
    BY <1>8
  <2>2. \A r \in S : /\ v1[r] \in Int /\ w1[r] = v1[r] /\ v2[r] \in Int /\ w2[r] = v2[r]
                     /\ v3[r] \in Int /\ w3[r] = v3[r]
    BY <1>7
  <2> HIDE DEF S, v1, w1, v2, w2, v3, w3
  <2>3. SumFunctionOnSet(w1, S \cup {e}) = SumFunctionOnSet(v1, S) + w1[e]
    BY <1>2, <1>3, <2>1, <2>2, SumAdmits
  <2>4. SumFunctionOnSet(w2, S \cup {e}) = SumFunctionOnSet(v2, S) + w2[e]
    BY <1>2, <1>3, <2>1, <2>2, SumAdmits
  <2>5. SumFunctionOnSet(w3, S \cup {e}) = SumFunctionOnSet(v3, S) + w3[e]
    BY <1>2, <1>3, <2>1, <2>2, SumAdmits
  <2> QED
    BY <2>3, <2>4, <2>5
<1>11. SumFunctionOnSet(z1, T) \in Nat /\ SumFunctionOnSet(z2, T) \in Nat
  <2> HIDE DEF T, z1, z2
  <2> QED
    BY <1>3, <1>9, SumIsNatural
<1>12. /\ SumFunctionOnSet(v1, S) \in Int /\ SumFunctionOnSet(v2, S) \in Int
       /\ SumFunctionOnSet(v3, S) \in Int
  <2> HIDE DEF S, v1, v2, v3
  <2> QED
    BY <1>3, <1>7, SumRemoves
<1>13. /\ SumFunctionOnSet(w1, T) <= Ceiling[run].cost + SumFunctionOnSet(z1, T)
       /\ SumFunctionOnSet(w2, T) <= Ceiling[run].tokens + SumFunctionOnSet(z2, T)
       /\ SumFunctionOnSet(w3, T) <= Ceiling[run].calls
  <2> HIDE DEF S, T, v1, w1, v2, w2, v3, w3, z1, z2
  <2> QED
    BY <1>4, <1>6, <1>8, <1>10, <1>11, <1>12
<1> QED
  BY <1>2, <1>13 DEF CeilingsHold, RunCommitment, SumFunction, run

LEMMA CeilingsStep ==
  ASSUME BudgetAssumption, TypeOK, TypeOK', ChecksStand, RunCeilingsHold, [Next]_vars
  PROVE  RunCeilingsHold'
<1>1. SUFFICES ASSUME NEW run \in Runs
               PROVE  CeilingsHold(run)'
  BY DEF RunCeilingsHold
<1>2. CASE \A r \in Reservations : Narrows(r)
  <2>1. OfRun(reservation', run) = OfRun(reservation, run)
    BY <1>2, NarrowsKeepsPresence DEF OfRun, Present
  <2>2. \A r \in OfRun(reservation, run) : Narrows(r)
    BY <1>2 DEF OfRun, Present
  <2> QED
    BY <2>1, <2>2, NarrowsKeepsCeilings
<1>3. ASSUME NEW e \in Reservations, Admits(e)
      PROVE  CeilingsHold(run)'
  <2>1. CASE run = Request[e].run
    BY <1>3, <2>1, AdmitsKeepsCeilings
  <2>2. CASE run # Request[e].run
    <3>1. \A r \in Reservations \ {e} : Narrows(r)
      BY <1>3, AdmittedRecords
    <3>2. OfRun(reservation', run) = OfRun(reservation, run)
      BY <2>2, <3>1, NarrowsKeepsPresence DEF OfRun, Present
    <3>3. \A r \in OfRun(reservation, run) : Narrows(r)
      BY <2>2, <3>1 DEF OfRun, Present
    <3> QED
      BY <3>2, <3>3, NarrowsKeepsCeilings
  <2> QED
    BY <2>1, <2>2
<1> QED
  BY <1>2, <1>3, RecordSteps

\* For every set of reservations, runs, requests and ceilings, in whatever order leases expire
\* and settlements come: no run is committed beyond its ceilings, but for what settlements
\* report above the maximum they were reserved for (reserve, settle, reconcileStale).
THEOREM BudgetCeilingsHold == Spec => []RunCeilingsHold
<1>1. Init => RunCeilingsHold
  <2> SUFFICES ASSUME Init, NEW run \in Runs
               PROVE  CeilingsHold(run)
    BY DEF RunCeilingsHold
  <2>1. OfRun(reservation, run) = {}
    BY DEF Init, OfRun, Present, Absent
  <2>2. \A f : SumFunctionOnSet(f, {}) = 0
    BY FS_EmptySet, SumUnfolds
  <2>3. Ceiling[run] \in [cost : Nat, tokens : Nat, calls : Nat]
    BY BudgetAssumption DEF BudgetAssumption
  <2> QED
    BY <2>1, <2>2, <2>3 DEF CeilingsHold, RunCommitment, SumFunction
<1>2. TypeOK /\ TypeOK' /\ ChecksStand /\ RunCeilingsHold /\ [Next]_vars => RunCeilingsHold'
  BY CeilingsStep, BudgetAssumption
<1> QED
  BY <1>1, <1>2, BudgetTypeOK, ChecksStandAlways, PTL DEF Spec

-----------------------------------------------------------------------------
(* The limit of the project                                                   *)

\* When one element of a sum rises and no other does, the sum rises by no more than that.
LEMMA SumRises ==
  ASSUME NEW c, NEW d, NEW S, IsFiniteSet(S), NEW e \in S,
         \A x \in S : c[x] \in Int /\ d[x] \in Int,
         \A x \in S \ {e} : d[x] <= c[x]
  PROVE  /\ SumFunctionOnSet(d, S) \in Int /\ SumFunctionOnSet(c, S) \in Int
         /\ SumFunctionOnSet(d, S) + c[e] <= SumFunctionOnSet(c, S) + d[e]
<1> DEFINE R == S \ {e}
<1>1. IsFiniteSet(R) /\ R \subseteq S
  BY FS_RemoveElement
<1>2. /\ SumFunctionOnSet(d, S) \in Int
      /\ SumFunctionOnSet(d, S) = d[e] + SumFunctionOnSet(d, R)
  BY SumRemoves
<1>3. /\ SumFunctionOnSet(c, S) \in Int
      /\ SumFunctionOnSet(c, S) = c[e] + SumFunctionOnSet(c, R)
  BY SumRemoves
<1>4. SumFunctionOnSet(d, R) <= SumFunctionOnSet(c, R)
  BY <1>1, SumMonotone
<1>5. SumFunctionOnSet(d, R) \in Int /\ SumFunctionOnSet(c, R) \in Int
  BY <1>1, SumRemoves
<1> HIDE DEF R
<1> QED
  BY <1>2, <1>3, <1>4, <1>5

LEMMA SumOfNothing ==
  ASSUME NEW w, NEW S, IsFiniteSet(S), \A x \in S : w[x] = 0
  PROVE  SumFunctionOnSet(w, S) = 0
<1> DEFINE Bad == {s \in FiniteSubsetsOf(S) : SumFunctionOnSet(w, s) # 0}
<1>1. SUFFICES ASSUME Bad # {} PROVE FALSE
  BY DEF FiniteSubsetsOf
<1>2. PICK s \in Bad : \A t \in Bad : t \subseteq s => t = s
  <2>1. Bad \subseteq FiniteSubsetsOf(S)
    OBVIOUS
  <2> HIDE DEF Bad
  <2> QED
    BY <1>1, <2>1, MinimalSet
<1>3. s \in SUBSET S /\ IsFiniteSet(s) /\ SumFunctionOnSet(w, s) # 0
  BY DEF FiniteSubsetsOf
<1>4. s # {} /\ SumFunctionOnSet(w, s) = w[Pick(s)] + SumFunctionOnSet(w, s \ {Pick(s)})
  BY <1>3, SumUnfolds
<1>5. /\ Pick(s) \in s /\ s \ {Pick(s)} \in FiniteSubsetsOf(S)
      /\ s \ {Pick(s)} \subseteq s /\ s \ {Pick(s)} # s
  BY <1>3, <1>4, RemovePick DEF FiniteSubsetsOf
<1>6. SumFunctionOnSet(w, s \ {Pick(s)}) = 0
  BY <1>2, <1>5
<1>7. w[Pick(s)] = 0
  BY <1>3, <1>5
<1> QED
  BY <1>3, <1>4, <1>6, <1>7

\* A job that has not been booked has cost nothing.
JobsAreFresh == \A j \in Jobs : compute[j].state \in {"none", "held"} => compute[j].cost = 0

LimitInv == ProjectLimitHolds /\ JobsAreFresh

Exposures == [j \in Jobs |-> JobExposure(j)]

LEMMA JobTypes ==
  ASSUME BudgetAssumption, TypeOK, NEW j \in Jobs
  PROVE  /\ compute[j].state \in {"none", "held", "booked", "released"}
         /\ compute[j].cost \in Nat /\ JobAmount[j] \in Nat
         /\ compute[j].cost <= JobAmount[j]
<1>1. compute[j] \in JobRecords /\ JobCosts \subseteq Nat /\ JobAmount[j] \in Nat
  BY DEF TypeOK, BudgetAssumption
<1>2. /\ compute[j].state \in {"none", "held", "booked", "released"}
      /\ compute[j].cost \in JobCosts \cup {0}
  BY <1>1, Zenon DEF JobRecords
<1>3. JobCosts \cup {0} \subseteq Nat /\ \A c \in JobCosts : c <= JobAmount[j]
  BY <1>1 DEF BudgetAssumption
<1>4. compute[j].cost \in Nat /\ (compute[j].cost \in JobCosts \/ compute[j].cost = 0)
  BY <1>2, <1>3, Zenon
<1> QED
  BY <1>1, <1>2, <1>3, <1>4

LEMMA ExposureTypes ==
  ASSUME BudgetAssumption, TypeOK, NEW j \in Jobs
  PROVE  JobExposure(j) \in Nat /\ JobCommitment(j) \in Nat
BY JobTypes DEF JobExposure, JobCommitment

LEMMA ExposureTypesNext ==
  ASSUME BudgetAssumption, TypeOK', NEW j \in Jobs
  PROVE  JobExposure(j)' \in Nat
<1>1. (BudgetAssumption /\ TypeOK /\ j \in Jobs => JobExposure(j) \in Nat)'
  BY ExposureTypes, PTL
<1> QED
  BY <1>1

LEMMA FreshStep ==
  ASSUME TypeOK, ChecksStand, JobsAreFresh, [Next]_vars
  PROVE  JobsAreFresh'
<1>1. ASSUME NEW j \in Jobs, AdmitJob(j) PROVE JobsAreFresh'
  <2>1. \/ compute' = compute
        \/ compute' = [compute EXCEPT ![j].state = "held"] /\ compute[j].state = "none"
    BY <1>1 DEF AdmitJob, ChecksStand
  <2>2. CASE compute' = compute
    BY <2>2 DEF JobsAreFresh
  <2>3. CASE compute' = [compute EXCEPT ![j].state = "held"] /\ compute[j].state = "none"
    BY <2>3 DEF JobsAreFresh, TypeOK, JobRecords
  <2> QED
    BY <2>1, <2>2, <2>3
<1>2. ASSUME NEW j \in Jobs, NEW c \in JobCosts, BookComputeCost(j, c) PROVE JobsAreFresh'
  BY <1>2 DEF BookComputeCost, JobsAreFresh, TypeOK, JobRecords
<1>3. ASSUME NEW j \in Jobs, ReleaseComputeReservation(j) PROVE JobsAreFresh'
  BY <1>3 DEF ReleaseComputeReservation, JobsAreFresh, TypeOK, JobRecords
<1>4. CASE UNCHANGED compute
  BY <1>4 DEF JobsAreFresh
<1> QED
  BY <1>1, <1>2, <1>3, <1>4
  DEF Next, vars, Reserve, Admit, Settle, Renew, ReconcileStale, ReserveComputeBudget,
      RecoverDeadLock, RecordRun, Tick

\* A job that an admission has not missed takes of the limit no more than it counts for it,
\* and what it is counted for is all that a new hold adds to.
LEMMA CommitmentCoversExposure ==
  ASSUME BudgetAssumption, TypeOK, JobsAreFresh, TypeOK',
         missed' = missed \cup Unseen, NEW j \in Jobs, compute'[j] = compute[j]
  PROVE  JobExposure(j)' <= JobCommitment(j)
<1>1. CASE j \in missed'
  BY <1>1, ExposureTypes DEF JobExposure
<1>2. CASE j \notin missed' /\ compute[j].state = "released"
  <2>1. j \in reading.rows
    BY <1>2 DEF Unseen
  <2> QED
    BY <1>2, <2>1, JobTypes DEF JobExposure, JobCommitment
<1>3. CASE j \notin missed' /\ compute[j].state # "released"
  <2>1. compute[j].state \in {"none", "held", "booked"}
    BY <1>3, JobTypes
  <2>2. compute[j].state \in {"none", "held"} => compute[j].cost = 0
    BY DEF JobsAreFresh
  <2> QED
    BY <1>3, <2>1, <2>2, JobTypes DEF JobExposure, JobCommitment
<1> QED
  BY <1>1, <1>2, <1>3

\* An admitted reservation finds what the jobs take covered by what it counts for them.
LEMMA AdmissionCoversExposure ==
  ASSUME BudgetAssumption, TypeOK, TypeOK', JobsAreFresh,
         missed' = missed \cup Unseen, UNCHANGED compute
  PROVE  SumFunction(Exposures') <= ComputeCommitment
<1> DEFINE c == [i \in Jobs |-> JobCommitment(i)]
           d == [i \in Jobs |-> JobExposure(i)']
<1>1. IsFiniteSet(Jobs)
  BY DEF BudgetAssumption
<1>2. \A i \in Jobs : d[i] \in Int /\ c[i] \in Int /\ d[i] <= c[i]
  BY ExposureTypes, ExposureTypesNext, CommitmentCoversExposure
<1>3. /\ SumFunction(Exposures') = SumFunctionOnSet(d, Jobs)
      /\ ComputeCommitment = SumFunctionOnSet(c, Jobs)
  BY DEF SumFunction, Exposures, ComputeCommitment
<1> HIDE DEF c, d
<1> QED
  BY <1>1, <1>2, <1>3, SumMonotone

\* Admitting a job adds its worst case to what is taken, and no more.
LEMMA HoldAddsAmount ==
  ASSUME BudgetAssumption, TypeOK, TypeOK', JobsAreFresh, NEW j \in Jobs,
         missed' = missed \cup Unseen, compute' = [compute EXCEPT ![j].state = "held"]
  PROVE  SumFunction(Exposures') <= ComputeCommitment + JobAmount[j]
<1> DEFINE c == [i \in Jobs |-> JobCommitment(i)]
           d == [i \in Jobs |-> JobExposure(i)']
<1>1. IsFiniteSet(Jobs)
  BY DEF BudgetAssumption
<1>2. \A i \in Jobs \ {j} : d[i] \in Int /\ c[i] \in Int /\ d[i] <= c[i]
  <2>1. \A i \in Jobs \ {j} : compute'[i] = compute[i]
    BY DEF TypeOK
  <2> QED
    BY <2>1, ExposureTypes, ExposureTypesNext, CommitmentCoversExposure
<1>3. d[j] <= JobAmount[j] /\ d[j] \in Nat /\ c[j] \in Nat /\ JobAmount[j] \in Nat
  <2>1. compute'[j].state = "held"
    BY DEF TypeOK, JobRecords
  <2> QED
    BY <2>1, ExposureTypes, ExposureTypesNext, JobTypes DEF JobExposure
<1>4. /\ SumFunction(Exposures') = SumFunctionOnSet(d, Jobs)
      /\ ComputeCommitment = SumFunctionOnSet(c, Jobs)
  BY DEF SumFunction, Exposures, ComputeCommitment
<1>5. \A i \in Jobs : d[i] \in Int /\ c[i] \in Int
  BY <1>2, <1>3
<1> HIDE DEF c, d
<1>6. /\ SumFunctionOnSet(d, Jobs) \in Int /\ SumFunctionOnSet(c, Jobs) \in Int
      /\ SumFunctionOnSet(d, Jobs) + c[j] <= SumFunctionOnSet(c, Jobs) + d[j]
  BY <1>1, <1>2, <1>5, SumRises
<1> QED
  BY <1>3, <1>4, <1>6

\* Neither booking a cost nor removing the hold it came from takes more.
LEMMA BookingTakesNoMore ==
  ASSUME BudgetAssumption, TypeOK, TypeOK', JobsAreFresh, NEW j \in Jobs,
         (\E x \in JobCosts : BookComputeCost(j, x)) \/ ReleaseComputeReservation(j)
  PROVE  SumFunction(Exposures') <= SumFunction(Exposures)
<1> DEFINE d == [i \in Jobs |-> JobExposure(i)']
<1>1. IsFiniteSet(Jobs) /\ missed' = missed
  BY DEF BudgetAssumption, BookComputeCost, ReleaseComputeReservation
<1>2. \A i \in Jobs : d[i] \in Int /\ Exposures[i] \in Int /\ d[i] <= Exposures[i]
  <2>1. ASSUME NEW i \in Jobs PROVE JobExposure(i)' <= JobExposure(i)
    <3>1. compute[i] \in JobRecords /\ compute[j] \in JobRecords
      BY DEF TypeOK
    <3>2. CASE i # j
      <4>1. compute'[i] = compute[i]
        BY <3>2 DEF BookComputeCost, ReleaseComputeReservation, TypeOK
      <4>2. JobExposure(i)' = JobExposure(i)
        BY <1>1, <4>1 DEF JobExposure
      <4> QED
        BY <4>2, ExposureTypes
    <3>3. ASSUME i = j, NEW x \in JobCosts, BookComputeCost(j, x)
          PROVE  JobExposure(i)' <= JobExposure(i)
      <4>1. compute[i].state = "held" /\ compute'[i] = [state |-> "booked", cost |-> x]
        BY <3>3 DEF BookComputeCost, TypeOK
      <4> QED
        BY <1>1, <3>3, <4>1 DEF JobExposure, BudgetAssumption
    <3>4. CASE i = j /\ ReleaseComputeReservation(j)
      <4>1. /\ compute[i].state \in {"held", "booked"}
            /\ compute'[i].state = "released" /\ compute'[i].cost = compute[i].cost
        BY <3>1, <3>4 DEF ReleaseComputeReservation, TypeOK, JobRecords
      <4>2. compute[i].state = "held" => compute[i].cost = 0
        BY DEF JobsAreFresh
      <4> QED
        BY <1>1, <4>1, <4>2, JobTypes DEF JobExposure
    <3> QED
      BY <3>2, <3>3, <3>4
  <2>2. \A i \in Jobs : JobExposure(i)' \in Nat /\ JobExposure(i) \in Nat
    BY ExposureTypes, ExposureTypesNext
  <2> QED
    BY <2>1, <2>2 DEF Exposures
<1>3. /\ SumFunction(Exposures') = SumFunctionOnSet(d, Jobs)
      /\ SumFunction(Exposures) = SumFunctionOnSet(Exposures, Jobs)
  BY DEF SumFunction, Exposures
<1> HIDE DEF d
<1> QED
  BY <1>1, <1>2, <1>3, SumMonotone

\* What the jobs take, and are counted for, are numbers.
LEMMA ComputeTypes ==
  ASSUME BudgetAssumption, TypeOK
  PROVE  SumFunction(Exposures) \in Nat /\ ComputeCommitment \in Nat
<1> DEFINE c == [j \in Jobs |-> JobCommitment(j)]
<1>1. IsFiniteSet(Jobs)
  BY DEF BudgetAssumption
<1>2. \A j \in Jobs : Exposures[j] \in Nat /\ c[j] \in Nat
  BY ExposureTypes DEF Exposures
<1>3. /\ SumFunction(Exposures) = SumFunctionOnSet(Exposures, Jobs)
      /\ ComputeCommitment = SumFunctionOnSet(c, Jobs)
  BY DEF SumFunction, Exposures, ComputeCommitment
<1> HIDE DEF c
<1> QED
  BY <1>1, <1>2, <1>3, SumIsNatural

\* What the records take, and what they take above their maximum, are numbers.
LEMMA TakenTypes ==
  ASSUME BudgetAssumption, TypeOK
  PROVE  /\ WorkflowCommitment(reservation) \in Nat
         /\ SumFunction([r \in Present(reservation) |-> OverCost(r)]) \in Nat
<1> DEFINE S == Present(reservation)
           v == [r \in S |-> TakesOf(reservation, r)]
           y == [r \in S |-> OverCost(r)]
<1>1. IsFiniteSet(S)
  BY PresentIsFinite
<1>2. \A r \in S : v[r] \in Nat /\ y[r] \in Nat
  <2>1. reservation \in [Reservations -> Records] /\ S \subseteq Reservations
    BY DEF TypeOK, Present
  <2> QED
    BY <2>1, ValueTypes, OverTypes
<1>3. SumFunctionOnSet(v, S) \in Nat /\ SumFunctionOnSet(y, S) \in Nat
  <2> HIDE DEF S, v, y
  <2> QED
    BY <1>1, <1>2, SumIsNatural
<1> QED
  BY <1>3 DEF WorkflowCommitment, SumFunction

\* Records that narrow take no more, but for what they report above their maximum.
LEMMA NarrowsTakesNoMore ==
  ASSUME BudgetAssumption, TypeOK, TypeOK', \A r \in Reservations : Narrows(r),
         NEW limit \in Int,
         WorkflowCommitment(reservation)
           <= limit + SumFunction([r \in Present(reservation) |-> OverCost(r)])
  PROVE  WorkflowCommitment(reservation')
           <= limit + SumFunction([r \in Present(reservation) |-> OverCost(r)])'
<1> DEFINE S == Present(reservation)
           v == [r \in S |-> TakesOf(reservation, r)]
           w == [r \in S |-> TakesOf(reservation', r)]
           y == [r \in S |-> OverCost(r)]
           z == [r \in S |-> OverCost(r)']
<1>1. IsFiniteSet(S)
  BY PresentIsFinite
<1>2. Present(reservation') = S
  BY NarrowsKeepsPresence DEF Present
<1>3. \A r \in S : r \in Reservations /\ r \in Present(reservation')
  BY <1>2 DEF Present
<1>4. ASSUME NEW r \in S
      PROVE  /\ v[r] \in Int /\ w[r] \in Int /\ y[r] \in Int /\ z[r] \in Int
             /\ w[r] + y[r] <= v[r] + z[r]
  <2>1. reservation \in [Reservations -> Records] /\ reservation' \in [Reservations -> Records]
    BY DEF TypeOK
  <2>2. TakesOf(reservation, r) \in Nat /\ TakesOf(reservation', r) \in Nat
    BY <1>3, <2>1, ValueTypes
  <2>3. OverCost(r) \in Nat /\ OverCost(r)' \in Nat
    BY <1>3, OverTypes, OverTypesNext
  <2>4. TakesOf(reservation', r) + OverCost(r) <= TakesOf(reservation, r) + OverCost(r)'
    BY <1>3, NarrowedValues
  <2> QED
    BY <2>2, <2>3, <2>4
<1>5. SumFunctionOnSet(v, S) <= limit + SumFunctionOnSet(y, S)
  BY DEF WorkflowCommitment, SumFunction
<1>6. SumFunctionOnSet(w, S) <= limit + SumFunctionOnSet(z, S)
  <2> HIDE DEF S, v, w, y, z
  <2> QED
    BY <1>1, <1>4, <1>5, SumStaysBelow
<1> QED
  BY <1>2, <1>6 DEF WorkflowCommitment, SumFunction

\* An admitted reservation adds what it withholds, and changes nothing that others report.
LEMMA AdmitsAddsReserved ==
  ASSUME BudgetAssumption, TypeOK, TypeOK', NEW e \in Reservations, Admits(e)
  PROVE  /\ WorkflowCommitment(reservation) \in Int
         /\ WorkflowCommitment(reservation')
              = WorkflowCommitment(reservation) + ReservedCost(e)
<1> DEFINE S == Present(reservation)
           v == [r \in S |-> TakesOf(reservation, r)]
           w == [r \in S \cup {e} |-> TakesOf(reservation', r)]
<1>1. /\ reservation \in [Reservations -> Records]
      /\ \A r \in Reservations \ {e} : reservation'[r] = reservation[r]
      /\ e \notin S
      /\ Present(reservation') = S \cup {e}
      /\ reservation'[e].status = "active"
  BY AdmittedRecords
<1>2. IsFiniteSet(S)
  BY PresentIsFinite
<1>3. ASSUME NEW r \in S PROVE v[r] \in Int /\ w[r] = v[r]
  <2>1. TakesOf(reservation, r) \in Nat
    BY <1>1, ValueTypes
  <2>2. reservation'[r] = reservation[r]
    BY <1>1 DEF Present
  <2>3. TakesOf(reservation', r) = TakesOf(reservation, r)
    BY <2>2 DEF TakesOf
  <2> QED
    BY <2>1, <2>3
<1>4. w[e] = ReservedCost(e) /\ w[e] \in Int
  BY <1>1, RequestTypes DEF TakesOf
<1>5. /\ SumFunctionOnSet(w, S \cup {e}) = SumFunctionOnSet(v, S) + w[e]
      /\ SumFunctionOnSet(v, S) \in Int
  <2>1. e \notin S
    BY <1>1
  <2> HIDE DEF S, v, w
  <2> QED
    <3>1. \A r \in S : v[r] \in Int /\ w[r] = v[r]
      BY <1>3
    <3>2. SumFunctionOnSet(w, S \cup {e}) = SumFunctionOnSet(v, S) + w[e]
      BY <1>2, <1>4, <2>1, <3>1, SumAdmits
    <3>3. SumFunctionOnSet(v, S) \in Int
      BY <1>2, <3>1, SumRemoves
    <3> QED
      BY <3>2, <3>3
<1>6. /\ WorkflowCommitment(reservation) = SumFunctionOnSet(v, S)
      /\ WorkflowCommitment(reservation') = SumFunctionOnSet(w, S \cup {e})
  BY <1>1 DEF WorkflowCommitment, SumFunction
<1> QED
  BY <1>4, <1>5, <1>6

\* What an admission has found room for is within the limit.
LEMMA RoomWasFound ==
  ASSUME BudgetAssumption, TypeOK, Limit > 0, NEW amount \in Nat, FitsProject(amount),
         reading.kind \in {"workflow", "compute"}
  PROVE  WorkflowCommitment(reservation) + ComputeCommitment + amount <= Limit
<1>1. /\ WorkflowCommitment(reservation) \in Nat /\ ComputeCommitment \in Nat
      /\ reading.chat \in Nat /\ Limit \in Nat
  BY TakenTypes, ComputeTypes, ReadingTypes DEF BudgetAssumption
<1>2. WorkflowCommitment(reservation) + ComputeCommitment + reading.chat + amount <= Limit
  BY DEF FitsProject, Committed
<1> QED
  BY <1>1, <1>2

LEMMA LimitStep ==
  ASSUME BudgetAssumption, TypeOK, TypeOK', ChecksStand, LimitInv, [Next]_vars, Limit > 0
  PROVE  ProjectLimitHolds'
<1> DEFINE W == WorkflowCommitment(reservation)
           X == SumFunction(Exposures)
           O == SumFunction([r \in Present(reservation) |-> OverCost(r)])
<1>1. W + X <= Limit + O
  BY DEF LimitInv, ProjectLimitHolds, Exposures
<1>2. SUFFICES W' + X' <= Limit + O'
  BY DEF ProjectLimitHolds, Exposures
<1>3. /\ Limit \in Nat /\ JobsAreFresh /\ ComputeCommitment \in Nat
      /\ X \in Nat /\ W \in Nat /\ O \in Nat
  BY ComputeTypes, TakenTypes DEF LimitInv, BudgetAssumption
<1>4. X' \in Nat /\ O' \in Nat /\ W' \in Nat
  <2>1. (BudgetAssumption /\ TypeOK => X \in Nat /\ W \in Nat /\ O \in Nat)'
    BY ComputeTypes, TakenTypes, PTL
  <2> QED
    BY <2>1
<1>5. ASSUME UNCHANGED <<compute, missed>>, \A r \in Reservations : Narrows(r)
      PROVE  W' + X' <= Limit + O'
  <2>1. X' = X
    BY <1>5 DEF Exposures, JobExposure
  <2>2. W <= (Limit - X) + O
    BY <1>1, <1>3
  <2>3. WorkflowCommitment(reservation') <= (Limit - X) + O'
    <3> HIDE DEF X
    <3> QED
      BY <1>3, <1>5, <2>2, NarrowsTakesNoMore
  <2> QED
    BY <1>3, <1>4, <2>1, <2>3
<1>6. ASSUME NEW e \in Reservations, Admits(e)
      PROVE  W' + X' <= Limit + O'
  <2>1. W' = W + ReservedCost(e) /\ ReservedCost(e) \in Nat
    BY <1>6, AdmitsAddsReserved, RequestTypes
  <2>2. X' <= ComputeCommitment
    BY <1>3, <1>6, AdmissionCoversExposure DEF Admits
  <2>3. W + ComputeCommitment + ReservedCost(e) <= Limit
    BY <1>6, <2>1, RoomWasFound DEF Admits
  <2> HIDE DEF W, X, O
  <2> QED
    BY <1>3, <1>4, <2>1, <2>2, <2>3
<1>7. ASSUME NEW j \in Jobs, AdmitJob(j), FitsProject(JobAmount[j])
      PROVE  W' + X' <= Limit + O'
  <2>1. W' = W
    BY <1>7 DEF AdmitJob
  <2>2. X' <= ComputeCommitment + JobAmount[j] /\ JobAmount[j] \in Nat
    BY <1>3, <1>7, HoldAddsAmount, JobTypes DEF AdmitJob
  <2>3. W + ComputeCommitment + JobAmount[j] <= Limit
    BY <1>7, <2>2, RoomWasFound DEF AdmitJob
  <2>4. W' + X' <= Limit
    BY <1>3, <1>4, <2>1, <2>2, <2>3
  <2> QED
    BY <1>3, <1>4, <2>4
<1>8. ASSUME NEW j \in Jobs,
             (\E x \in JobCosts : BookComputeCost(j, x)) \/ ReleaseComputeReservation(j)
      PROVE  W' + X' <= Limit + O'
  <2>1. W' = W /\ O' = O
    BY <1>8 DEF BookComputeCost, ReleaseComputeReservation, OverCost
  <2>2. X' <= X
    BY <1>3, <1>8, BookingTakesNoMore
  <2>3. W' + X' <= W + X /\ Limit + O' = Limit + O
    BY <1>3, <1>4, <2>1, <2>2
  <2> QED
    BY <1>1, <1>3, <1>4, <2>3
<1>9. CASE UNCHANGED <<compute, missed>>
  BY <1>5, <1>6, <1>9, RecordSteps
<1>10. ASSUME NEW e \in Reservations, Admit(e)
       PROVE  W' + X' <= Limit + O'
  <2>1. CASE \A r \in Reservations : Narrows(r)
    <3>1. ~ Narrows(e) \/ ~ FitsProject(ReservedCost(e))
      BY <1>10 DEF Admit, ChecksStand, Narrows, Absent, TypeOK
    <3> QED
      BY <1>9, <1>10, <2>1, <3>1 DEF Admit
  <2> QED
    BY <1>6, <2>1, RecordSteps
<1>11. ASSUME NEW j \in Jobs, AdmitJob(j)
       PROVE  W' + X' <= Limit + O'
  BY <1>7, <1>9, <1>11 DEF AdmitJob
<1> QED
  BY <1>8, <1>9, <1>10, <1>11
  DEF Next, vars, Reserve, Settle, Renew, ReconcileStale, ReserveComputeBudget,
      RecoverDeadLock, RecordRun, Tick

\* For every limit, set of jobs and of reservations: workflow reservations and compute jobs,
\* admitted by different code under one lock, never take more than the project's limit
\* together, whatever other processes book and release while an admission reads, but for
\* what settlements report above their maximum and for the jobs an admission has missed
\* (reserve, reserveComputeBudget, projectCostSummary).
THEOREM BudgetLimitHolds == Spec => []ProjectLimitHolds
<1>1. Init => LimitInv
  <2> SUFFICES ASSUME Init
               PROVE  LimitInv
    OBVIOUS
  <2>1. Present(reservation) = {}
    BY DEF Init, Present, Absent
  <2>2. \A f : SumFunctionOnSet(f, {}) = 0
    BY FS_EmptySet, SumUnfolds
  <2>3. JobsAreFresh
    BY DEF Init, JobsAreFresh
  <2>4. \A j \in Jobs : compute[j] = [state |-> "none", cost |-> 0]
    BY DEF Init
  <2>5. SumFunctionOnSet(Exposures, Jobs) = 0
    <3>1. \A j \in Jobs : Exposures[j] = 0
      BY <2>4 DEF Exposures, JobExposure
    <3> QED
      BY <3>1, SumOfNothing, BudgetAssumption DEF BudgetAssumption
  <2> QED
    BY <2>1, <2>2, <2>3, <2>5, BudgetAssumption
    DEF LimitInv, ProjectLimitHolds, WorkflowCommitment, SumFunction, Exposures, BudgetAssumption
<1>2. TypeOK /\ TypeOK' /\ ChecksStand /\ LimitInv /\ [Next]_vars => LimitInv'
  <2> SUFFICES ASSUME TypeOK, TypeOK', ChecksStand, LimitInv, [Next]_vars
               PROVE  LimitInv'
    OBVIOUS
  <2>1. JobsAreFresh'
    BY FreshStep DEF LimitInv
  <2>2. Limit > 0 => ProjectLimitHolds'
    BY LimitStep, BudgetAssumption
  <2> QED
    BY <2>1, <2>2 DEF LimitInv, ProjectLimitHolds
<1>3. LimitInv => ProjectLimitHolds
  BY DEF LimitInv
<1> QED
  BY <1>1, <1>2, <1>3, BudgetTypeOK, ChecksStandAlways, PTL DEF Spec

-----------------------------------------------------------------------------
\* What BudgetHold sees of the records.
Holding == [r \in Reservations |-> HoldOf(reservation[r])]

\* A record shows a hold, and the three kinds of record show three kinds of hold.
LEMMA HoldOfRecord ==
  ASSUME NEW record \in Records
  PROVE  /\ HoldOf(record) \in Hold!Holds
         /\ record.status = "absent" => HoldOf(record) = Hold!None
         /\ record.status = "active" => HoldOf(record) = Hold!Held
         /\ record.status \in Terminal
              => /\ record.settlement \in Settlements
                 /\ HoldOf(record) = Hold!SettledBy(record.settlement)
BY DEF Records, Absent, Terminal, HoldOf, Hold!Holds, Hold!None, Hold!Held, Hold!SettledBy

\* Every step of the store moves each reservation as BudgetHold allows.
LEMMA HoldStep ==
  ASSUME TypeOK, TypeOK', ChecksStand, BudgetAssumption, [Next]_vars
  PROVE  [Hold!Next]_Holding
<1>1. \A r \in Reservations : reservation[r] \in Records /\ reservation'[r] \in Records
  BY DEF TypeOK
<1>2. Holding' \in [Reservations -> Hold!Holds]
  BY <1>1, HoldOfRecord DEF Holding
<1>3. SUFFICES ASSUME NEW r \in Reservations
               PROVE  \/ Holding'[r] = Holding[r]
                      \/ Hold!Move(Holding[r], Holding'[r])
  BY <1>2 DEF Holding, Hold!Next
<1>4. Holding[r] = HoldOf(reservation[r]) /\ Holding'[r] = HoldOf(reservation'[r])
  BY DEF Holding
<1>5. CASE reservation'[r] = reservation[r]
  BY <1>4, <1>5
<1>6. CASE reservation[r].status = "active" /\ reservation'[r].status \in Terminal
  BY <1>1, <1>4, <1>6, HoldOfRecord DEF Hold!Move
<1>7. CASE reservation[r].status = "absent" /\ reservation'[r].status = "active"
  BY <1>1, <1>4, <1>7, HoldOfRecord DEF Hold!Move
<1>8. CASE reservation[r].status = "active" /\ reservation'[r].status = "active"
  BY <1>1, <1>4, <1>8, HoldOfRecord
<1>9. \/ Narrows(r)
      \/ reservation[r].status = "absent" /\ reservation'[r].status = "active"
  <2> HIDE DEF Records
  <2>1. ASSUME NEW x \in Reservations, Admits(x) PROVE <1>9!:
    <3>1. CASE r = x
      <4>1. reservation[r].status = "absent"
        BY <2>1, <3>1 DEF Admits, Absent
      <4>2. reservation'[r].status = "active"
        BY <2>1, <3>1, AdmittedRecords
      <4> QED
        BY <4>1, <4>2
    <3>2. CASE r # x
      <4>1. Narrows(r)
        BY <2>1, <3>2, AdmittedRecords
      <4> QED
        BY <4>1
    <3> QED
      BY <3>1, <3>2
  <2> QED
    BY <2>1, RecordSteps
<1> QED
  BY <1>5, <1>6, <1>7, <1>8, <1>9 DEF Narrows

\* An identity is held once and settled once, for every set of reservations, runs, ceilings
\* and settlements, whatever the processes of the project do (budget.ts).
THEOREM BudgetSettlesOnce == Spec => SettlesOnce
<1>1. Init => Hold!Init
  BY DEF Init, Hold!Init, Hold!None, HoldOf, Absent
<1>2. TypeOK /\ TypeOK' /\ ChecksStand /\ [Next]_vars => [Hold!Next]_Holding
  BY HoldStep, BudgetAssumption
<1>3. Spec => []TypeOK /\ []ChecksStand
  BY BudgetTypeOK, ChecksStandAlways
<1> QED
  BY <1>1, <1>2, <1>3, PTL DEF Spec, SettlesOnce, Hold!Spec, Holding
=============================================================================
