--------------------------- MODULE SchedulerProofs ---------------------------
EXTENDS Scheduler, SequenceTheorems, FiniteSetTheorems, TLAPS


-----------------------------------------------------------------------------
(* Numbers.                                                                  *)

\* A set of numbers has a least element.
LEMMA LeastNat ==
  ASSUME NEW S, S \subseteq Nat, S # {}
  PROVE  \E x \in S : \A y \in S : x <= y
<1> DEFINE T == {1..x : x \in S}
<1>1. T \subseteq FiniteSubsetsOf(Nat) /\ T # {}
  <2>1. \A x \in S : 1..x \in SUBSET Nat /\ IsFiniteSet(1..x)
    BY FS_Interval
  <2> QED
    BY <2>1 DEF FiniteSubsetsOf
<1>2. \E t \in T : \A u \in T : ~ (<<u, t>> \in StrictSubsetOrdering(Nat))
  <2> HIDE DEF T
  <2> QED
    BY <1>1, FS_StrictSubsetOrderingWellFounded, WFMin, Zenon
<1>3. PICK x \in S : \A u \in T : ~ (<<u, 1..x>> \in StrictSubsetOrdering(Nat))
  BY <1>2
<1>4. ASSUME NEW y \in S, y < x PROVE FALSE
  <2>1. 1..y \in T /\ 1..x \in T /\ x \in Nat /\ y \in Nat
    OBVIOUS
  <2>2. 1..y \subseteq 1..x /\ x \in 1..x /\ x \notin 1..y
    BY <1>4, <2>1
  <2>3. 1..y \in FiniteSubsetsOf(Nat) /\ 1..x \in FiniteSubsetsOf(Nat) /\ 1..y # 1..x
    BY <1>1, <2>1, <2>2
  <2>4. <<1..y, 1..x>> \in StrictSubsetOrdering(Nat)
    BY <2>2, <2>3 DEF StrictSubsetOrdering, FiniteSubsetsOf
  <2> QED
    BY <1>3, <2>1, <2>4
<1>5. \A y \in S : x \in Nat /\ y \in Nat
  OBVIOUS
<1> QED
  BY <1>4, <1>5

\* And one that is bounded has a greatest.
LEMMA GreatestNat ==
  ASSUME NEW S, S \subseteq Nat, S # {}, NEW k \in Nat, \A x \in S : x <= k
  PROVE  \E x \in S : \A y \in S : y <= x
<1> DEFINE T == {k - x : x \in S}
<1>1. T \subseteq Nat /\ T # {}
  <2>1. \A x \in S : x \in Nat /\ x <= k
    OBVIOUS
  <2>2. \A x \in S : k - x \in Nat
    BY <2>1
  <2> QED
    BY <2>2
<1>2. PICK t \in T : \A y \in T : t <= y
  <2> HIDE DEF T
  <2> QED
    BY <1>1, LeastNat
<1>3. PICK x \in S : t = k - x
  OBVIOUS
<1>4. ASSUME NEW y \in S PROVE y <= x
  <2>1. k - x <= k - y
    BY <1>2, <1>3
  <2>2. x \in Nat /\ y \in Nat
    OBVIOUS
  <2> QED
    BY <2>1, <2>2
<1> QED
  BY <1>4

-----------------------------------------------------------------------------
(* The windows of an expression.                                             *)

\* A window is an instant of its expression with the key of that instant.
LEMMA WindowShape ==
  ASSUME NEW e \in Expressions, NEW w \in Windows(e)
  PROVE  /\ w.at \in DOMAIN Key[e] /\ w.key = Key[e][w.at]
         /\ w.at \in 1..Horizon /\ w.at \in Nat /\ w.key \in Nat \ {0} /\ w.key \in Keys
         /\ w = [key |-> w.key, at |-> w.at]
<1>1. PICK t \in DOMAIN Key[e] : w = [key |-> Key[e][t], at |-> t]
  BY DEF Windows
<1>2. t \in 1..Horizon /\ Key[e][t] \in Nat \ {0} /\ Horizon \in Nat
  BY ScheduleWindowsAssumption DEF Instants
<1>3. Key[e][t] \in Keys
  BY DEF Keys
<1> QED
  BY <1>1, <1>2, <1>3

\* A window that no later instant precedes in the order of the walk.
Leads(e, w) == w \in Windows(e) /\ \A v \in Windows(e) : w.at <= v.at => NoLater(w, v)

\* There is a first window after an instant, if there is any.
LEMMA NextFireExists ==
  ASSUME NEW e \in Expressions, NEW a \in Nat, NEW w \in Windows(e), a < w.at
  PROVE  NextFires(e, a) # {}
<1> DEFINE later == {v \in Windows(e) : v.at > a}
           K == {v.key : v \in later}
<1>0. w \in later /\ \A v \in later : v.key \in Nat /\ v.at \in Nat
  <2>1. \A v \in later : v.key \in Nat /\ v.at \in Nat
    BY WindowShape
  <2>2. w \in later
    BY WindowShape
  <2> QED
    BY <2>1, <2>2
<1>1. K \subseteq Nat /\ K # {}
  <2> HIDE DEF later
  <2> QED
    BY <1>0
<1>2. PICK k \in K : \A x \in K : k <= x
  <2> HIDE DEF K
  <2> QED
    BY <1>1, LeastNat
<1> DEFINE A == {v.at : v \in {x \in later : x.key = k}}
<1>3. A \subseteq Nat /\ A # {}
  <2> HIDE DEF later
  <2> QED
    BY <1>0
<1>4. PICK t \in A : \A x \in A : t <= x
  <2> HIDE DEF A
  <2> QED
    BY <1>3, LeastNat
<1>5. PICK m \in later : m.key = k /\ m.at = t
  OBVIOUS
<1>6. ASSUME NEW v \in later PROVE NoLater(m, v)
  <2> HIDE DEF later
  <2>1. k <= v.key /\ k \in Nat /\ v.key \in Nat
    BY <1>0, <1>1, <1>2
  <2>2. v.key = k => t <= v.at
    BY <1>4
  <2> QED
    BY <1>5, <2>1, <2>2 DEF NoLater
<1>7. m \in NextFires(e, a)
  BY <1>5, <1>6 DEF NextFires
<1> QED
  BY <1>7

\* The window that follows an instant leads, and no leading window lies between.
LEMMA NextFireLeads ==
  ASSUME NEW e \in Expressions, NEW a \in Nat, NEW w \in NextFires(e, a)
  PROVE  /\ Leads(e, w) /\ a < w.at
         /\ \A v : Leads(e, v) /\ a < v.at => w.at <= v.at
         /\ \A v \in NextFires(e, a) : v = w
<1>1. w \in Windows(e) /\ w.at > a /\ \A v \in Windows(e) : v.at > a => NoLater(w, v)
  BY DEF NextFires
<1>2. w.at \in Nat /\ w.key \in Nat /\ \A v \in Windows(e) : v.at \in Nat /\ v.key \in Nat
  BY <1>1, WindowShape
<1>3. Leads(e, w)
  <2>1. \A v \in Windows(e) : w.at <= v.at => v.at > a
    BY <1>1, <1>2
  <2> QED
    BY <1>1, <2>1 DEF Leads
<1>4. ASSUME NEW v, Leads(e, v), a < v.at PROVE w.at <= v.at
  <2>1. v \in Windows(e) /\ NoLater(w, v)
    BY <1>1, <1>4 DEF Leads
  <2>2. CASE v.at <= w.at
    <3>1. NoLater(v, w)
      BY <1>1, <1>4, <2>2 DEF Leads
    <3> QED
      BY <1>2, <2>1, <3>1 DEF NoLater
  <2> QED
    BY <1>2, <2>1, <2>2
<1>5. ASSUME NEW v \in NextFires(e, a) PROVE v = w
  <2>1. v \in Windows(e) /\ NoLater(w, v) /\ NoLater(v, w)
    BY <1>1 DEF NextFires
  <2>2. v.key = w.key /\ v.at = w.at
    BY <1>1, <1>2, <2>1 DEF NoLater
  <2> QED
    BY <1>1, <2>1, <2>2, WindowShape
<1> QED
  BY <1>1, <1>2, <1>3, <1>4, <1>5

\* A local time has a last instant, and the window of that instant leads.
LEMMA LastInstantLeads ==
  ASSUME NEW e \in Expressions, NEW w \in Windows(e)
  PROVE  LET last == LastInstant(e, w.key) IN
         /\ last \in 1..Horizon /\ last \in Nat /\ w.at <= last
         /\ Leads(e, [key |-> w.key, at |-> last])
<1> DEFINE last == LastInstant(e, w.key)
           S == {t \in DOMAIN Key[e] : Key[e][t] = w.key}
<1>1. DOMAIN Key[e] \subseteq 1..Horizon /\ Horizon \in Nat
      /\ \A t \in DOMAIN Key[e] : Key[e][t] \in Nat
  BY ScheduleWindowsAssumption DEF Instants
<1>2. w.at \in S
  BY WindowShape
<1>3. PICK x \in S : \A y \in S : y <= x
  <2>1. S \subseteq Nat /\ S # {} /\ \A y \in S : y <= Horizon
    BY <1>1, <1>2
  <2> HIDE DEF S
  <2> QED
    BY <1>1, <2>1, GreatestNat
<1>4. /\ last \in DOMAIN Key[e] /\ Key[e][last] = w.key
      /\ \A u \in DOMAIN Key[e] : Key[e][u] = w.key => u <= last
  BY <1>3 DEF LastInstant
<1> HIDE DEF last, S
<1>5. last \in 1..Horizon /\ last \in Nat /\ w.at <= last
  BY <1>1, <1>2, <1>4 DEF S
<1> DEFINE v == [key |-> w.key, at |-> last]
<1>6. v \in Windows(e)
  BY <1>4 DEF Windows
<1>7. ASSUME NEW u \in Windows(e), last <= u.at PROVE NoLater(v, u)
  <2>1. u.at \in DOMAIN Key[e] /\ u.key = Key[e][u.at] /\ u.at \in Nat /\ u.key \in Nat
    BY WindowShape
  <2>2. CASE u.key < w.key
    <3>1. PICK z \in DOMAIN Key[e] : u.at < z /\ Key[e][z] = Key[e][last]
      BY <1>4, <2>1, <2>2, KeysGoForward
    <3>2. z <= last /\ z \in Nat
      BY <1>1, <1>4, <3>1
    <3> QED
      BY <1>5, <1>7, <2>1, <3>1, <3>2
  <2>3. CASE ~(u.key < w.key)
    <3>1. w.key \in Nat
      BY WindowShape
    <3> QED
      BY <1>7, <2>1, <2>3, <3>1 DEF NoLater
  <2> QED
    BY <2>2, <2>3
<1>8. Leads(e, v)
  BY <1>6, <1>7 DEF Leads
<1> QED
  BY <1>5, <1>8 DEF last

-----------------------------------------------------------------------------
(* The walk over the windows.                                                *)

\* The next window of a walk, if any, and one turn of its loop.
Upcoming(e, a, u) == {w \in NextFires(e, a) : w.at <= u}
First(e, a, u)    == CHOOSE w \in Upcoming(e, a, u) : TRUE
WalkRule(e, u, k, g) ==
    g = [a \in k..Horizon |-> IF Upcoming(e, a, u) = {} THEN <<>>
                              ELSE <<First(e, a, u)>> \o g[First(e, a, u).at]]

LEMMA WalkIsRule ==
  ASSUME NEW e, NEW a, NEW u
  PROVE  Walk(e, a, u) = (CHOOSE g : WalkRule(e, u, 0, g))[a]
BY DEF Walk, WalkRule, Upcoming, First

LEMMA FirstFollows ==
  ASSUME NEW e \in Expressions, NEW a \in Nat, NEW u, Upcoming(e, a, u) # {}
  PROVE  /\ First(e, a, u) \in NextFires(e, a) /\ First(e, a, u).at <= u
         /\ First(e, a, u).at \in (a + 1)..Horizon
<1>1. First(e, a, u) \in Upcoming(e, a, u)
  BY DEF First
<1>2. First(e, a, u) \in NextFires(e, a) /\ First(e, a, u).at <= u
  BY <1>1 DEF Upcoming
<1>3. /\ First(e, a, u) \in Windows(e)
      /\ a < First(e, a, u).at
  BY <1>2, NextFireLeads DEF Leads
<1>4. First(e, a, u).at \in 1..Horizon /\ Horizon \in Nat
  BY <1>3, WindowShape, ScheduleWindowsAssumption
<1> QED
  BY <1>2, <1>3, <1>4

\* The recursion of the walk is well defined: each turn starts later than the one before.
LEMMA WalkRuleExists ==
  ASSUME NEW e \in Expressions, NEW u
  PROVE  \E g : WalkRule(e, u, 0, g)
<1> DEFINE Good == {k \in 0..(Horizon + 1) : \E g : WalkRule(e, u, k, g)}
<1>0. Horizon \in Nat
  BY ScheduleWindowsAssumption
<1>1. Horizon + 1 \in Good
  <2>1. (Horizon + 1)..Horizon = {}
    BY <1>0
  <2> DEFINE none == [a \in {} |-> <<>>]
  <2>2. WalkRule(e, u, Horizon + 1, none)
    BY <2>1 DEF WalkRule
  <2> QED
    BY <1>0, <2>2
<1>2. PICK m \in Good : \A k \in Good : m <= k
  <2>1. Good \subseteq Nat
    BY <1>0
  <2> HIDE DEF Good
  <2> QED
    BY <1>1, <2>1, LeastNat
<1>3. m \in 0..(Horizon + 1)
  OBVIOUS
<1>4. PICK g : WalkRule(e, u, m, g)
  OBVIOUS
<1>5. CASE m # 0
  <2> DEFINE b == m - 1
             Turn(a) == IF Upcoming(e, a, u) = {} THEN <<>>
                        ELSE <<First(e, a, u)>> \o g[First(e, a, u).at]
             h == [a \in b..Horizon |-> Turn(a)]
  <2>0. b \in 0..(Horizon + 1) /\ b \in Nat /\ b < m /\ \A a \in b..Horizon : a \in Nat
    BY <1>0, <1>3, <1>5
  <2>1. ASSUME NEW a \in m..Horizon PROVE h[a] = g[a]
    <3>1. a \in b..Horizon
      BY <1>0, <1>3, <2>1, <2>0
    <3>2. g[a] = Turn(a)
      BY <1>4, <2>1 DEF WalkRule
    <3> QED
      BY <3>1, <3>2
  <2>2. ASSUME NEW a \in b..Horizon, Upcoming(e, a, u) # {}
        PROVE  h[First(e, a, u).at] = g[First(e, a, u).at]
    <3>1. First(e, a, u).at \in (a + 1)..Horizon /\ a \in Nat
      BY <2>0, <2>2, FirstFollows
    <3>2. First(e, a, u).at \in m..Horizon
      BY <1>0, <1>3, <2>2, <3>1
    <3> HIDE DEF h
    <3> QED
      BY <2>1, <3>2
  <2>3. \A a \in b..Horizon : h[a] = IF Upcoming(e, a, u) = {} THEN <<>>
                                     ELSE <<First(e, a, u)>> \o h[First(e, a, u).at]
    <3>1. \A a \in b..Horizon : h[a] = Turn(a)
      OBVIOUS
    <3> HIDE DEF h
    <3> QED
      BY <2>2, <3>1
  <2>4. WalkRule(e, u, b, h)
    <3>1. h = [a \in b..Horizon |-> h[a]]
      OBVIOUS
    <3> HIDE DEF h, b
    <3> QED
      BY <2>3, <3>1 DEF WalkRule
  <2>5. b \in Good
    <3> HIDE DEF h, b
    <3> QED
      BY <2>0, <2>4
  <2> HIDE DEF Good
  <2> QED
    BY <1>2, <1>3, <2>0, <2>5
<1> QED
  BY <1>4, <1>5

\* One turn of the walk.
LEMMA WalkUnfolds ==
  ASSUME NEW e \in Expressions, NEW a \in 0..Horizon, NEW u
  PROVE  Walk(e, a, u) = IF Upcoming(e, a, u) = {} THEN <<>>
                         ELSE <<First(e, a, u)>> \o Walk(e, First(e, a, u).at, u)
<1> DEFINE g == CHOOSE h : WalkRule(e, u, 0, h)
<1>1. WalkRule(e, u, 0, g) /\ \A t : Walk(e, t, u) = g[t]
  BY WalkRuleExists, WalkIsRule
<1> HIDE DEF g
<1>2. g[a] = IF Upcoming(e, a, u) = {} THEN <<>>
             ELSE <<First(e, a, u)>> \o g[First(e, a, u).at]
  BY <1>1 DEF WalkRule
<1> QED
  BY <1>1, <1>2

\* What the walk from one instant to another is: the windows between that lead, in order.
WalksOver(e, a, u, walk) ==
    /\ walk \in Seq(Windows(e))
    /\ \A i \in 1..Len(walk) : Leads(e, walk[i]) /\ a < walk[i].at /\ walk[i].at <= u
    /\ \A i, j \in 1..Len(walk) : i < j => walk[i].at < walk[j].at
    /\ \A w : Leads(e, w) /\ a < w.at /\ w.at <= u => \E i \in 1..Len(walk) : walk[i] = w

LEMMA EmptyWalk ==
  ASSUME NEW e \in Expressions, NEW a \in Nat, NEW u \in Nat, Upcoming(e, a, u) = {}
  PROVE  WalksOver(e, a, u, <<>>)
<1>1. ASSUME NEW w, Leads(e, w), a < w.at, w.at <= u PROVE FALSE
  <2>1. w \in Windows(e) /\ w.at \in Nat
    BY <1>1, WindowShape DEF Leads
  <2>2. PICK v \in NextFires(e, a) : TRUE
    BY <1>1, <2>1, NextFireExists
  <2>3. v.at <= w.at /\ v \in Windows(e)
    BY <1>1, <2>2, NextFireLeads DEF Leads
  <2>4. v.at \in Nat
    BY <2>3, WindowShape
  <2>5. v.at <= u
    BY <1>1, <2>1, <2>3, <2>4
  <2> QED
    BY <2>2, <2>5 DEF Upcoming
<1>2. <<>> \in Seq(Windows(e)) /\ Len(<<>>) = 0
  BY EmptySeq
<1>3. 1..Len(<<>>) = {}
  BY <1>2
<1> QED
  BY <1>1, <1>2, <1>3 DEF WalksOver

LEMMA LongerWalk ==
  ASSUME NEW e \in Expressions, NEW a \in Nat, NEW u \in Nat, Upcoming(e, a, u) # {},
         NEW rest, WalksOver(e, First(e, a, u).at, u, rest)
  PROVE  WalksOver(e, a, u, <<First(e, a, u)>> \o rest)
<1> DEFINE f == First(e, a, u)
           walk == <<f>> \o rest
<1>1. /\ f \in NextFires(e, a) /\ f.at <= u /\ f.at \in (a + 1)..Horizon
  BY FirstFollows
<1>2. Leads(e, f) /\ a < f.at /\ \A v : Leads(e, v) /\ a < v.at => f.at <= v.at
  BY <1>1, NextFireLeads
<1>3. f \in Windows(e) /\ f.at \in Nat
  BY <1>2, WindowShape DEF Leads
<1> HIDE DEF f
<1>4. rest \in Seq(Windows(e)) /\ <<f>> \in Seq(Windows(e)) /\ Len(<<f>>) = 1 /\ Len(rest) \in Nat
  BY <1>3 DEF WalksOver, f
<1>5. /\ walk \in Seq(Windows(e)) /\ Len(walk) = 1 + Len(rest)
      /\ walk[1] = f /\ \A i \in 1..Len(rest) : walk[i + 1] = rest[i]
      /\ \A i \in 1..Len(walk) : i # 1 => i - 1 \in 1..Len(rest) /\ walk[i] = rest[i - 1]
  BY <1>4, ConcatProperties
<1> HIDE DEF walk
<1>6. ASSUME NEW i \in 1..Len(walk)
      PROVE  Leads(e, walk[i]) /\ a < walk[i].at /\ walk[i].at <= u /\ walk[i].at \in Nat
             /\ (i # 1 => f.at < walk[i].at)
  <2>1. CASE i = 1
    BY <1>1, <1>2, <1>3, <1>5, <2>1
  <2>2. CASE i # 1
    <3>1. i - 1 \in 1..Len(rest) /\ walk[i] = rest[i - 1]
      BY <1>5, <2>2
    <3>2. Leads(e, rest[i - 1]) /\ f.at < rest[i - 1].at /\ rest[i - 1].at <= u
      BY <3>1 DEF WalksOver, f
    <3>3. rest[i - 1].at \in Nat
      BY <3>2, WindowShape DEF Leads
    <3> QED
      BY <1>2, <1>3, <3>1, <3>2, <3>3
  <2> QED
    BY <2>1, <2>2
<1>7. ASSUME NEW i \in 1..Len(walk), NEW j \in 1..Len(walk), i < j PROVE walk[i].at < walk[j].at
  <2>0. j # 1
    BY <1>7, <1>4, <1>5
  <2>1. CASE i = 1
    BY <1>5, <1>6, <2>0, <2>1
  <2>2. CASE i # 1
    <3>1. /\ i - 1 \in 1..Len(rest) /\ walk[i] = rest[i - 1]
          /\ j - 1 \in 1..Len(rest) /\ walk[j] = rest[j - 1]
      BY <1>5, <2>0, <2>2
    <3>2. i - 1 < j - 1
      BY <1>4, <1>5, <1>7
    <3> QED
      BY <3>1, <3>2 DEF WalksOver
  <2> QED
    BY <2>1, <2>2
<1>8. ASSUME NEW w, Leads(e, w), a < w.at, w.at <= u PROVE \E i \in 1..Len(walk) : walk[i] = w
  <2>1. w \in Windows(e) /\ w.at \in Nat /\ w.key \in Nat /\ f.key \in Nat
    BY <1>3, <1>8, WindowShape DEF Leads
  <2>2. f.at <= w.at
    BY <1>2, <1>8
  <2>3. CASE f.at < w.at
    <3>1. PICK i \in 1..Len(rest) : rest[i] = w
      BY <1>8, <2>3 DEF WalksOver, f
    <3>2. walk[i + 1] = w /\ i + 1 \in 1..Len(walk)
      BY <1>4, <1>5, <3>1
    <3> QED
      BY <3>2
  <2>4. CASE f.at = w.at
    <3>1. NoLater(w, f) /\ NoLater(f, w)
      BY <1>2, <1>3, <1>8, <2>1, <2>2, <2>4 DEF Leads
    <3>2. f = w
      BY <1>3, <2>1, <2>4, <3>1, WindowShape DEF NoLater
    <3> QED
      BY <1>4, <1>5, <3>2
  <2> QED
    BY <1>3, <2>1, <2>2, <2>3, <2>4
<1>9. WalksOver(e, a, u, walk)
  BY <1>5, <1>6, <1>7, <1>8 DEF WalksOver
<1> QED
  BY <1>9 DEF walk, f

\* Walking an expression's windows from one instant to another, as windowsBetween does when its
\* limit is not reached, lists every leading window between the two, oldest first, and no other.
THEOREM WalkIsWalk ==
  ASSUME NEW e \in Expressions, NEW a \in 0..Horizon, NEW u \in Nat
  PROVE  WalksOver(e, a, u, Walk(e, a, u))
<1> DEFINE Bad == {t \in 0..Horizon : ~ WalksOver(e, t, u, Walk(e, t, u))}
<1>0. Horizon \in Nat
  BY ScheduleWindowsAssumption
<1>1. SUFFICES ASSUME Bad # {} PROVE FALSE
  OBVIOUS
<1>2. PICK t \in Bad : \A x \in Bad : x <= t
  <2>1. Bad \subseteq Nat /\ \A x \in Bad : x <= Horizon
    BY <1>0
  <2> HIDE DEF Bad
  <2> QED
    BY <1>0, <1>1, <2>1, GreatestNat
<1>3. t \in 0..Horizon /\ t \in Nat /\ ~ WalksOver(e, t, u, Walk(e, t, u))
  BY <1>0
<1>4. CASE Upcoming(e, t, u) = {}
  BY <1>3, <1>4, EmptyWalk, WalkUnfolds
<1>5. CASE Upcoming(e, t, u) # {}
  <2> DEFINE n == First(e, t, u).at
  <2>1. n \in (t + 1)..Horizon
    BY <1>3, <1>5, FirstFollows
  <2>2. n \in 0..Horizon /\ ~ (n <= t)
    BY <1>0, <1>3, <2>1
  <2>3. WalksOver(e, n, u, Walk(e, n, u))
    <3> HIDE DEF n
    <3> QED
      BY <1>2, <2>2
  <2> QED
    BY <1>3, <1>5, <2>3, LongerWalk, WalkUnfolds
<1> QED
  BY <1>4, <1>5

\* The tables hold what they tabulate.
LEMMA TablesAreRight ==
  ASSUME NEW e \in Expressions, NEW a \in 0..Horizon, NEW u \in 0..Horizon
  PROVE  /\ NextTable[e][a] = NextFires(e, a)
         /\ WindowsBetween(e, a, u) = Walk(e, a, u)
BY DEF NextTable, WalkTable, WindowsBetween

\* latestWindowAtOrBefore: the last leading window of the span.
LEMMA LatestLeads ==
  ASSUME NEW e \in Expressions, NEW a \in 0..Horizon, NEW u \in 0..Horizon
  PROVE  /\ \A w \in LatestWindows(e, a, u) :
              /\ Leads(e, w) /\ a < w.at /\ w.at <= u
              /\ \A v : Leads(e, v) /\ v.at <= u => v.at <= w.at
              /\ \A v \in LatestWindows(e, a, u) : v = w
         /\ LatestWindows(e, a, u) = {} => ~ \E v : Leads(e, v) /\ a < v.at /\ v.at <= u
<1> DEFINE walk == WindowsBetween(e, a, u)
<1>1. WalksOver(e, a, u, walk) /\ a \in Nat /\ u \in Nat
  BY TablesAreRight, WalkIsWalk, ScheduleWindowsAssumption
<1> HIDE DEF walk
<1>2. walk \in Seq(Windows(e)) /\ Len(walk) \in Nat
  BY <1>1 DEF WalksOver
<1>3. LatestWindows(e, a, u) = IF walk = <<>> THEN {} ELSE {walk[Len(walk)]}
  BY DEF LatestWindows, walk
<1>4. CASE walk = <<>>
  <2>1. 1..Len(walk) = {}
    BY <1>4
  <2> QED
    BY <1>1, <1>3, <1>4, <2>1 DEF WalksOver
<1>5. CASE walk # <<>>
  <2> DEFINE n == Len(walk)
             w == walk[n]
  <2>1. n \in 1..Len(walk)
    BY <1>2, <1>5
  <2>2. Leads(e, w) /\ a < w.at /\ w.at <= u
    BY <1>1, <2>1 DEF WalksOver
  <2>3. ASSUME NEW v, Leads(e, v), v.at <= u PROVE v.at <= w.at
    <3>1. v.at \in Nat /\ w.at \in Nat
      BY <2>2, <2>3, WindowShape DEF Leads
    <3>2. CASE a < v.at
      <4>1. PICK i \in 1..Len(walk) : walk[i] = v
        BY <1>1, <2>3, <3>2 DEF WalksOver
      <4>2. i = n \/ walk[i].at < walk[n].at
        BY <1>1, <1>2, <2>1 DEF WalksOver
      <4> QED
        BY <3>1, <4>1, <4>2
    <3>3. CASE ~ (a < v.at)
      BY <1>1, <2>2, <3>1, <3>3
    <3> QED
      BY <3>2, <3>3
  <2> HIDE DEF w
  <2> QED
    BY <1>3, <1>5, <2>2, <2>3 DEF w
<1> QED
  BY <1>4, <1>5

-----------------------------------------------------------------------------
(* The elements of a sequence that are kept.                                 *)

KeptRule(list, at, n, g) ==
    g = [i \in 0..n |-> IF i = 0 THEN <<>>
                        ELSE IF i \in at THEN Append(g[i - 1], list[i]) ELSE g[i - 1]]

LEMMA KeptIsRule ==
  ASSUME NEW list, NEW at
  PROVE  Kept(list, at) = (CHOOSE g : KeptRule(list, at, Len(list), g))[Len(list)]
BY DEF Kept, KeptRule

LEMMA KeptRuleExists ==
  ASSUME NEW list, NEW at, NEW n \in Nat
  PROVE  \E g : KeptRule(list, at, n, g)
<1> DEFINE Bad == {k \in Nat : ~ \E g : KeptRule(list, at, k, g)}
<1>1. SUFFICES ASSUME Bad # {} PROVE FALSE
  OBVIOUS
<1>2. PICK k \in Bad : \A x \in Bad : k <= x
  <2>1. Bad \subseteq Nat
    OBVIOUS
  <2> HIDE DEF Bad
  <2> QED
    BY <1>1, <2>1, LeastNat
<1>3. k \in Nat /\ ~ \E g : KeptRule(list, at, k, g)
  OBVIOUS
<1>4. CASE k = 0
  <2> DEFINE g == [i \in 0..0 |-> <<>>]
  <2>1. KeptRule(list, at, 0, g)
    <3>1. \A i \in 0..0 : i = 0
      OBVIOUS
    <3> QED
      BY <3>1 DEF KeptRule
  <2> QED
    BY <1>3, <1>4, <2>1
<1>5. CASE k # 0
  <2>1. k - 1 \in Nat /\ ~ (k <= k - 1)
    BY <1>3, <1>5
  <2>2. k - 1 \notin Bad
    <3> HIDE DEF Bad
    <3> QED
      BY <1>2, <2>1
  <2>3. PICK g : KeptRule(list, at, k - 1, g)
    BY <2>1, <2>2
  <2> DEFINE Turn(i) == IF i = 0 THEN <<>>
                        ELSE IF i \in at THEN Append(g[i - 1], list[i]) ELSE g[i - 1]
             h == [i \in 0..k |-> Turn(i)]
  <2>4. ASSUME NEW i \in 0..k, i # 0 PROVE h[i - 1] = g[i - 1]
    <3>1. i - 1 \in 0..k /\ i - 1 \in 0..(k - 1)
      BY <1>3, <2>4
    <3>2. g[i - 1] = Turn(i - 1)
      BY <2>3, <3>1 DEF KeptRule
    <3> QED
      BY <3>1, <3>2
  <2>5. \A i \in 0..k : h[i] = IF i = 0 THEN <<>>
                               ELSE IF i \in at THEN Append(h[i - 1], list[i]) ELSE h[i - 1]
    <3>1. \A i \in 0..k : h[i] = Turn(i)
      OBVIOUS
    <3> HIDE DEF h
    <3> QED
      BY <2>4, <3>1
  <2>6. KeptRule(list, at, k, h)
    <3>1. h = [i \in 0..k |-> h[i]]
      OBVIOUS
    <3> HIDE DEF h
    <3> QED
      BY <2>5, <3>1 DEF KeptRule
  <2> QED
    BY <1>3, <2>6
<1> QED
  BY <1>4, <1>5

\* What is kept up to a position: those elements, and each once if each is there once.
KeepsUpTo(list, at, n, out) ==
    /\ \A i \in 1..Len(out) : \E j \in at : j <= n /\ out[i] = list[j]
    /\ \A j \in at : j <= n => \E i \in 1..Len(out) : out[i] = list[j]
    /\ (\A i, j \in 1..Len(list) : list[i] = list[j] => i = j) =>
          \A i, j \in 1..Len(out) : out[i] = out[j] => i = j

LEMMA KeptElements ==
  ASSUME NEW S, NEW list \in Seq(S), NEW at \in SUBSET (1..Len(list))
  PROVE  Kept(list, at) \in Seq(S) /\ KeepsUpTo(list, at, Len(list), Kept(list, at))
<1> DEFINE n == Len(list)
           g == CHOOSE h : KeptRule(list, at, n, h)
           Bad == {k \in 0..n : ~ (g[k] \in Seq(S) /\ KeepsUpTo(list, at, k, g[k]))}
<1>0. n \in Nat /\ DOMAIN list = 1..n /\ \A i \in 1..n : list[i] \in S
  OBVIOUS
<1>1. KeptRule(list, at, n, g) /\ Kept(list, at) = g[n]
  BY <1>0, KeptRuleExists, KeptIsRule
<1> HIDE DEF g
<1>2. SUFFICES ASSUME Bad # {} PROVE FALSE
  <2>1. n \in 0..n
    BY <1>0
  <2> QED
    BY <1>1, <2>1
<1>3. PICK k \in Bad : \A x \in Bad : k <= x
  <2>1. Bad \subseteq Nat
    BY <1>0
  <2> HIDE DEF Bad
  <2> QED
    BY <1>2, <2>1, LeastNat
<1>4. k \in 0..n /\ k \in Nat /\ ~ (g[k] \in Seq(S) /\ KeepsUpTo(list, at, k, g[k]))
  BY <1>0
<1>5. g[k] = IF k = 0 THEN <<>>
             ELSE IF k \in at THEN Append(g[k - 1], list[k]) ELSE g[k - 1]
  BY <1>1, <1>4 DEF KeptRule
<1>6. CASE k = 0
  <2>1. g[k] = <<>> /\ 1..Len(<<>>) = {} /\ \A j \in at : ~ (j <= 0)
    BY <1>0, <1>5, <1>6
  <2>2. KeepsUpTo(list, at, 0, <<>>)
    BY <2>1 DEF KeepsUpTo
  <2> QED
    BY <1>4, <1>6, <2>1, <2>2
<1>7. CASE k # 0
  <2> DEFINE out == g[k - 1]
  <2>1. k - 1 \in 0..n /\ ~ (k <= k - 1)
    BY <1>0, <1>4, <1>7
  <2>2. out \in Seq(S) /\ KeepsUpTo(list, at, k - 1, out)
    <3>1. k - 1 \notin Bad
      <4> HIDE DEF Bad
      <4> QED
        BY <1>3, <2>1
    <3> QED
      BY <2>1, <3>1
  <2> HIDE DEF out
  <2>3. \A j \in at : j \in Nat /\ (j <= k <=> j <= k - 1 \/ j = k)
    BY <1>0, <1>4
  <2>4. CASE k \notin at
    <3>1. \A j \in at : j <= k <=> j <= k - 1
      BY <2>3, <2>4
    <3>2. KeepsUpTo(list, at, k, out)
      BY <2>2, <3>1 DEF KeepsUpTo
    <3> QED
      BY <1>4, <1>5, <1>7, <2>2, <2>4, <3>2 DEF out
  <2>5. CASE k \in at
    <3> DEFINE new == Append(out, list[k])
    <3>1. /\ new \in Seq(S) /\ Len(new) = Len(out) + 1 /\ Len(out) \in Nat
          /\ new[Len(new)] = list[k] /\ \A i \in 1..Len(out) : new[i] = out[i]
          /\ \A i \in 1..Len(new) : i \in 1..Len(out) \/ i = Len(new)
          /\ 1..Len(out) \subseteq 1..Len(new) /\ Len(new) \in 1..Len(new)
      <4>1. list[k] \in S
        BY <1>0, <1>4, <1>7
      <4>2. /\ new \in Seq(S) /\ Len(new) = Len(out) + 1 /\ Len(out) \in Nat
            /\ new[Len(out) + 1] = list[k] /\ \A i \in 1..Len(out) : new[i] = out[i]
        BY <4>1, <2>2, AppendProperties
      <4> HIDE DEF new
      <4> QED
        BY <4>2
    <3>2. g[k] = new
      BY <1>5, <1>7, <2>5 DEF out
    <3> HIDE DEF new
    <3>3. ASSUME NEW i \in 1..Len(new) PROVE \E j \in at : j <= k /\ new[i] = list[j]
      <4>1. CASE i \in 1..Len(out)
        <5>1. PICK j \in at : j <= k - 1 /\ out[i] = list[j]
          BY <2>2, <4>1 DEF KeepsUpTo
        <5> QED
          BY <2>3, <3>1, <4>1, <5>1
      <4>2. CASE i = Len(new)
        BY <2>3, <2>5, <3>1, <4>2
      <4> QED
        BY <3>1, <4>1, <4>2
    <3>4. \A j \in at : j <= k => \E i \in 1..Len(new) : new[i] = list[j]
      BY <2>2, <2>3, <3>1 DEF KeepsUpTo
    <3>5. ASSUME \A i, j \in 1..Len(list) : list[i] = list[j] => i = j,
                 NEW i \in 1..Len(new), NEW j \in 1..Len(new), new[i] = new[j]
          PROVE  i = j
      <4>1. \A x \in 1..Len(out) : out[x] # list[k]
        <5>1. ASSUME NEW x \in 1..Len(out), out[x] = list[k] PROVE FALSE
          <6>1. PICK y \in at : y <= k - 1 /\ out[x] = list[y]
            BY <2>2 DEF KeepsUpTo
          <6>2. y \in 1..Len(list) /\ k \in 1..Len(list) /\ y # k
            BY <1>4, <2>5, <6>1
          <6> QED
            BY <3>5, <5>1, <6>1, <6>2
        <5> QED
          BY <5>1
      <4>2. CASE i \in 1..Len(out) /\ j \in 1..Len(out)
        BY <2>2, <3>1, <3>5, <4>2 DEF KeepsUpTo
      <4> QED
        BY <3>1, <3>5, <4>1, <4>2
    <3>6. KeepsUpTo(list, at, k, new)
      BY <3>3, <3>4, <3>5 DEF KeepsUpTo
    <3> QED
      BY <1>4, <3>1, <3>2, <3>6
  <2> QED
    BY <2>4, <2>5
<1> QED
  BY <1>6, <1>7

\* The same without the positions.
LEMMA KeptIsKept ==
  ASSUME NEW S, NEW list \in Seq(S), NEW at \in SUBSET (1..Len(list))
  PROVE  LET out == Kept(list, at) IN
         /\ out \in Seq(S) /\ DOMAIN out = 1..Len(out)
         /\ \A i \in DOMAIN out : \E j \in at : out[i] = list[j]
         /\ \A j \in at : \E i \in DOMAIN out : out[i] = list[j]
         /\ (\A i, j \in 1..Len(list) : list[i] = list[j] => i = j) =>
               \A i, j \in DOMAIN out : out[i] = out[j] => i = j
<1> DEFINE out == Kept(list, at)
<1>1. out \in Seq(S) /\ KeepsUpTo(list, at, Len(list), out)
  BY KeptElements
<1>2. DOMAIN out = 1..Len(out) /\ \A j \in at : j <= Len(list)
  <2> HIDE DEF out
  <2>1. DOMAIN out = 1..Len(out)
    BY <1>1
  <2>2. Len(list) \in Nat
    OBVIOUS
  <2>3. \A j \in at : j \in 1..Len(list)
    OBVIOUS
  <2> QED
    BY <2>1, <2>2, <2>3
<1> HIDE DEF out
<1>3. /\ \A i \in DOMAIN out : \E j \in at : out[i] = list[j]
      /\ \A j \in at : \E i \in DOMAIN out : out[i] = list[j]
      /\ (\A i, j \in 1..Len(list) : list[i] = list[j] => i = j) =>
            \A i, j \in DOMAIN out : out[i] = out[j] => i = j
  BY <1>1, <1>2 DEF KeepsUpTo
<1> QED
  BY <1>1, <1>2, <1>3 DEF out

-----------------------------------------------------------------------------
(* What an evaluation comes to.                                              *)

LEMMA ConstantTypes ==
  /\ Horizon \in Nat /\ Grace \in Nat \ {0} /\ MaxFires \in Nat \ {0} /\ MaxListed \in Nat \ {0}
  /\ StopScan \in Nat \ {0} /\ MaxRequests \in Nat /\ MaxMishaps \in Nat
  /\ Cron \subseteq Expressions /\ SkipPolicy \subseteq Schedules
  /\ Initially \in [Schedules -> Expressions]
  /\ Order \in Seq(Schedules) /\ Order[1] \in Schedules
  /\ \A i, j \in DOMAIN Order : Order[i] = Order[j] => i = j
<1>1. Order \in Seq(Schedules) /\ Order # <<>>
  BY SchedulerAssumption DEF SchedulerAssumption
<1>2. Order[1] \in Schedules
  BY <1>1
<1> QED
  BY <1>1, <1>2, SchedulerAssumption, ScheduleWindowsAssumption
     DEF SchedulerAssumption, ScheduleWindowsAssumption

\* Keys of windows are positive, those of manual runs negative.
LEMMA KeyKinds ==
  /\ Keys \subseteq Nat \ {0} /\ Keys \cap ManualKeys = {} /\ NoKey \notin Keys \cup ManualKeys
  /\ \A t \in 0..Horizon : ManualKey(t) \in ManualKeys
<1>1. Keys \subseteq Nat \ {0}
  BY ScheduleWindowsAssumption DEF Keys, ScheduleWindowsAssumption
<1>2. \A t \in 0..Horizon : ManualKey(t) \in ManualKeys /\ ManualKey(t) \in Int /\ ManualKey(t) < 0
  BY ConstantTypes DEF ManualKey, ManualKeys
<1>3. \A k \in ManualKeys : k \in Int /\ k < 0
  BY <1>2 DEF ManualKeys
<1> QED
  BY <1>1, <1>2, <1>3 DEF NoKey

\* A document that a tick has read, of the past.
Readable(d) == d \in Documents /\ d.cursor <= now /\ now \in 0..Horizon

LEMMA ReadableTypes ==
  ASSUME NEW d, Readable(d)
  PROVE  /\ d.expression \in Expressions /\ d.cursor \in 0..Horizon /\ d.cursor \in Nat
         /\ now \in Nat /\ now \in 0..Horizon /\ d.cursor <= now /\ d.enabled \in BOOLEAN
BY ConstantTypes DEF Readable, Documents

LEMMA DueLeads ==
  ASSUME NEW d, Readable(d)
  PROVE  \A w \in Due(d) : /\ Leads(d.expression, w) /\ d.cursor < w.at /\ w.at <= now
                           /\ \A v : Leads(d.expression, v) /\ d.cursor < v.at => w.at <= v.at
<1>1. Due(d) = {w \in NextFires(d.expression, d.cursor) : w.at <= now}
  BY ReadableTypes, TablesAreRight DEF Due
<1> QED
  BY <1>1, ReadableTypes, NextFireLeads

LEMMA GraceLeads ==
  ASSUME NEW d, Readable(d)
  PROVE  \A w \in InGrace(d) : /\ Leads(d.expression, w) /\ d.cursor < w.at /\ w.at <= now
                               /\ \A v : Leads(d.expression, v) /\ v.at <= now => v.at <= w.at
<1> DEFINE from == Max2(d.cursor, now - Grace)
<1>1. from \in 0..Horizon /\ from \in Nat /\ d.cursor <= from
  BY ReadableTypes, ConstantTypes DEF Max2
<1> HIDE DEF from
<1>2. ASSUME NEW w \in InGrace(d)
      PROVE  /\ Leads(d.expression, w) /\ d.cursor < w.at /\ w.at <= now
             /\ \A v : Leads(d.expression, v) /\ v.at <= now => v.at <= w.at
  <2>1. /\ Leads(d.expression, w) /\ from < w.at /\ w.at <= now
        /\ \A v : Leads(d.expression, v) /\ v.at <= now => v.at <= w.at
    BY <1>1, <1>2, ReadableTypes, LatestLeads DEF InGrace, from
  <2>2. w.at \in Nat
    BY <2>1, ReadableTypes, WindowShape DEF Leads
  <2> QED
    BY <1>1, <2>1, <2>2, ReadableTypes
<1> QED
  BY <1>2

\* The target of a catch-up is due; it is the latest window if one is within the grace
\* period, and else the first that was missed.
LEMMA TargetLeads ==
  ASSUME NEW d, Readable(d), Due(d) # {}
  PROVE  LET w == Target(d) IN
         /\ Leads(d.expression, w) /\ d.cursor < w.at /\ w.at <= now
         /\ InGrace(d) # {} => \A v : Leads(d.expression, v) /\ v.at <= now => v.at <= w.at
         /\ InGrace(d) = {} => \A v : Leads(d.expression, v) /\ d.cursor < v.at => w.at <= v.at
<1>1. Target(d) \in IF InGrace(d) = {} THEN Due(d) ELSE InGrace(d)
  BY DEF Target
<1>2. CASE InGrace(d) = {}
  <2>1. Target(d) \in Due(d)
    BY <1>1, <1>2
  <2> QED
    BY <1>2, <2>1, DueLeads
<1>3. CASE InGrace(d) # {}
  <2>1. Target(d) \in InGrace(d)
    BY <1>1, <1>3
  <2> QED
    BY <1>3, <2>1, GraceLeads
<1> QED
  BY <1>2, <1>3

\* What is true of every record that an evaluation writes.
Records(d, list) ==
    /\ list \in Seq(Fires)
    /\ \A i \in DOMAIN list : /\ d.cursor < list[i].at /\ list[i].at <= now /\ list[i].upto <= now
                              /\ list[i].reason # "dispatched"

LEMMA FireRecord ==
  ASSUME NEW d, Readable(d), NEW w, Leads(d.expression, w), d.cursor < w.at, w.at <= now,
         NEW upto \in Nat, upto <= now, NEW reason \in Reasons \ {"dispatched"}
  PROVE  /\ Fire(w, upto, reason) \in Fires
         /\ Records(d, <<Fire(w, upto, reason)>>)
         /\ Fire(w, upto, reason).reason = reason /\ Fire(w, upto, reason).key = w.key
         /\ Fire(w, upto, reason).at = w.at /\ Fire(w, upto, reason).upto = upto
<1>1. w.key \in Keys /\ w.at \in 0..Horizon /\ upto \in 0..Horizon
  BY ReadableTypes, WindowShape, ConstantTypes DEF Leads
<1>2. /\ Fire(w, upto, reason) \in Fires
      /\ Fire(w, upto, reason).reason = reason /\ Fire(w, upto, reason).key = w.key
      /\ Fire(w, upto, reason).at = w.at /\ Fire(w, upto, reason).upto = upto
  BY <1>1 DEF Fire, Fires
<1> DEFINE f == Fire(w, upto, reason)
<1>3. <<f>> \in Seq(Fires) /\ DOMAIN <<f>> = {1} /\ <<f>>[1] = f
  <2> HIDE DEF f
  <2>1. f \in Fires
    BY <1>2 DEF f
  <2> QED
    BY <2>1
<1> HIDE DEF f
<1> QED
  BY <1>2, <1>3 DEF Records, f

\* Every element of the first list is in the second.
Within(small, big) == \A i \in DOMAIN small : \E j \in DOMAIN big : big[j] = small[i]

LEMMA JoinedRecords ==
  ASSUME NEW d, NEW l, NEW k, Records(d, l), Records(d, k)
  PROVE  Records(d, l \o k) /\ Within(l, l \o k) /\ Within(k, l \o k)
<1>1. l \in Seq(Fires) /\ k \in Seq(Fires)
  BY DEF Records
<1>2. /\ l \o k \in Seq(Fires) /\ Len(l) \in Nat /\ Len(k) \in Nat /\ Len(l \o k) = Len(l) + Len(k)
      /\ \A i \in 1..(Len(l) + Len(k)) : (l \o k)[i] = IF i <= Len(l) THEN l[i] ELSE k[i - Len(l)]
      /\ DOMAIN l = 1..Len(l) /\ DOMAIN k = 1..Len(k) /\ DOMAIN (l \o k) = 1..(Len(l) + Len(k))
  BY <1>1, ConcatProperties
<1> DEFINE lk == l \o k
<1> HIDE DEF lk
<1>3. \A i \in DOMAIN l : i \in DOMAIN lk /\ lk[i] = l[i]
  BY <1>2 DEF lk
<1>4. \A i \in DOMAIN k : i + Len(l) \in DOMAIN lk /\ lk[i + Len(l)] = k[i]
  BY <1>2 DEF lk
<1>5. \A i \in DOMAIN lk : (i \in DOMAIN l /\ lk[i] = l[i])
                           \/ (i - Len(l) \in DOMAIN k /\ lk[i] = k[i - Len(l)])
  BY <1>2 DEF lk
<1>6. Records(d, lk)
  BY <1>2, <1>5 DEF Records, lk
<1> QED
  BY <1>3, <1>4, <1>6 DEF lk, Within

\* The record that settles a leading window.
Settling(f, w) ==
    /\ f.reason \notin Deferring \cup {"disabled"}
    /\ f.key = w.key \/ (f.at <= w.at /\ w.at <= f.upto)

LEMMA PassedOverRecords ==
  ASSUME NEW d, Readable(d), Due(d) # {}
  PROVE  /\ Records(d, PassedOver(d))
         /\ InGrace(d) # {} =>
               \A w : /\ Leads(d.expression, w) /\ d.cursor < w.at
                      /\ w.at <= Target(d).at /\ w.key # Target(d).key
                      => \E i \in DOMAIN PassedOver(d) : Settling(PassedOver(d)[i], w)
<1> DEFINE e == d.expression
           walk == WindowsBetween(e, d.cursor, now)
           m == Min2(MaxListed, Len(walk))
           listed == SubSeq(walk, 1, m)
           kept == {i \in DOMAIN listed : listed[i].key # Target(d).key}
           others == Kept(listed, kept)
           skips == [i \in DOMAIN others |-> Fire(others[i], others[i].at, "catchup-skipped")]
           cut == IF Len(walk) > MaxListed
                  THEN <<Fire(listed[1], Target(d).at, "catchup-truncated")>> ELSE <<>>
<1>0. /\ e \in Expressions /\ d.cursor \in 0..Horizon /\ now \in 0..Horizon /\ d.cursor \in Nat
      /\ now \in Nat /\ MaxListed \in Nat \ {0}
  BY ReadableTypes, ConstantTypes
<1>1. WalksOver(e, d.cursor, now, walk)
  BY <1>0, TablesAreRight, WalkIsWalk
<1>2. PassedOver(d) = IF InGrace(d) = {} THEN <<>> ELSE cut \o skips
  BY DEF PassedOver
<1>3. Leads(e, Target(d)) /\ d.cursor < Target(d).at /\ Target(d).at <= now /\ Target(d).at \in Nat
  BY <1>0, TargetLeads, WindowShape DEF Leads
<1> HIDE DEF walk
<1>4. walk \in Seq(Windows(e)) /\ Len(walk) \in Nat /\ m \in 0..Len(walk) /\ m \in Nat
  BY <1>0, <1>1 DEF WalksOver, Min2
<1>5. /\ listed \in Seq(Windows(e)) /\ Len(listed) = m /\ DOMAIN listed = 1..m
      /\ \A i \in 1..m : listed[i] = walk[i] /\ i \in 1..Len(walk)
  <2>1. \A i \in 1..m : walk[i] \in Windows(e) /\ i \in 1..Len(walk)
    BY <1>4
  <2> HIDE DEF m
  <2>2. /\ listed \in Seq(Windows(e))
        /\ Len(listed) = IF 1 <= m THEN m - 1 + 1 ELSE 0
        /\ \A i \in 1..(m - 1 + 1) : listed[i] = walk[1 + i - 1]
    BY <1>4, <2>1, SubSeqProperties
  <2>3. Len(listed) = m /\ DOMAIN listed = 1..m
    BY <1>4, <2>2
  <2>4. \A i \in 1..m : i \in 1..(m - 1 + 1) /\ 1 + i - 1 = i
    BY <1>4
  <2> QED
    BY <2>1, <2>2, <2>3, <2>4
<1> HIDE DEF listed
<1>6. kept \in SUBSET (1..Len(listed))
  BY <1>5
<1>7. /\ others \in Seq(Windows(e)) /\ DOMAIN others = 1..Len(others) /\ Len(others) \in Nat
      /\ \A i \in DOMAIN others : \E j \in kept : others[i] = listed[j]
      /\ \A j \in kept : \E i \in DOMAIN others : others[i] = listed[j]
  <2> HIDE DEF kept
  <2> QED
    BY <1>5, <1>6, KeptIsKept
<1> HIDE DEF others
<1>8. ASSUME NEW i \in DOMAIN others
      PROVE  /\ Leads(e, others[i]) /\ d.cursor < others[i].at /\ others[i].at <= now
             /\ others[i].at \in Nat
  <2>1. PICK j \in kept : others[i] = listed[j]
    BY <1>7
  <2>2. j \in 1..m /\ listed[j] = walk[j] /\ j \in 1..Len(walk)
    BY <1>5, <2>1
  <2>3. Leads(e, walk[j]) /\ d.cursor < walk[j].at /\ walk[j].at <= now
    BY <1>1, <2>2 DEF WalksOver
  <2> QED
    BY <1>0, <2>1, <2>2, <2>3, WindowShape DEF Leads
<1>9. ASSUME NEW i \in DOMAIN others
      PROVE  /\ skips[i] \in Fires /\ skips[i].key = others[i].key
             /\ skips[i].reason = "catchup-skipped" /\ skips[i].at = others[i].at
             /\ skips[i].upto = others[i].at
  <2>1. skips[i] = Fire(others[i], others[i].at, "catchup-skipped")
    OBVIOUS
  <2>2. "catchup-skipped" \in Reasons \ {"dispatched"}
    BY DEF Reasons
  <2> DEFINE w == others[i]
  <2>3. Leads(e, w) /\ d.cursor < w.at /\ w.at <= now /\ w.at \in Nat
    BY <1>8
  <2> HIDE DEF skips, w
  <2> DEFINE f == Fire(w, w.at, "catchup-skipped")
  <2>4. f \in Fires /\ f.key = w.key /\ f.reason = "catchup-skipped" /\ f.at = w.at /\ f.upto = w.at
    <3>1. w.key \in Keys /\ w.at \in 0..Horizon
      BY <1>0, <2>3, WindowShape, ConstantTypes DEF Leads
    <3> QED
      BY <2>2, <3>1 DEF Fire, Fires
  <2> QED
    BY <2>1, <2>4 DEF w
<1>10. Records(d, skips) /\ DOMAIN skips = DOMAIN others
  <2>1. DOMAIN skips = 1..Len(others)
    BY <1>7
  <2>2. \A i \in 1..Len(others) : skips[i] \in Fires
    BY <1>7, <1>9
  <2>3. skips = [i \in 1..Len(others) |-> skips[i]]
    BY <1>7
  <2> HIDE DEF skips
  <2>4. skips \in [1..Len(others) -> Fires]
    BY <2>2, <2>3
  <2>5. skips \in Seq(Fires)
    BY <1>7, <2>4
  <2> QED
    BY <1>7, <1>8, <1>9, <2>1, <2>5 DEF Records
<1> HIDE DEF skips
<1>11. CASE InGrace(d) = {}
  <2>1. PassedOver(d) = <<>>
    BY <1>2, <1>11
  <2>2. Records(d, <<>>)
    <3>1. <<>> \in Seq(Fires) /\ DOMAIN <<>> = {}
      OBVIOUS
    <3> QED
      BY <3>1 DEF Records
  <2> QED
    BY <1>11, <2>1, <2>2
<1>12. ASSUME Len(walk) > MaxListed
       PROVE  /\ Records(d, cut) /\ DOMAIN cut = {1}
              /\ \A w : Leads(e, w) /\ d.cursor < w.at /\ w.at <= Target(d).at => Settling(cut[1], w)
  <2>1. 1 \in 1..m /\ 1 \in 1..Len(walk)
    BY <1>0, <1>4, <1>12 DEF Min2
  <2>2. listed[1] = walk[1] /\ Leads(e, walk[1]) /\ d.cursor < walk[1].at /\ walk[1].at <= now
    BY <1>1, <1>5, <2>1 DEF WalksOver
  <2>3. "catchup-truncated" \in Reasons \ {"dispatched"}
    BY DEF Reasons
  <2> DEFINE f == Fire(listed[1], Target(d).at, "catchup-truncated")
  <2>4. /\ Records(d, <<f>>) /\ f.at = walk[1].at /\ f.upto = Target(d).at
        /\ f.reason = "catchup-truncated"
    <3> HIDE DEF f
    <3> QED
      BY <1>3, <2>2, <2>3, FireRecord DEF f
  <2>5. cut = <<f>> /\ DOMAIN <<f>> = {1} /\ <<f>>[1] = f
    <3>1. cut = <<f>>
      BY <1>12
    <3> HIDE DEF f, cut
    <3> QED
      BY <3>1
  <2> HIDE DEF f, cut
  <2>6. ASSUME NEW w, Leads(e, w), d.cursor < w.at, w.at <= Target(d).at PROVE Settling(f, w)
    <3>1. w.at \in Nat /\ walk[1].at \in Nat
      BY <1>0, <2>2, <2>6, WindowShape DEF Leads
    <3>2. w.at <= now
      BY <1>0, <1>3, <2>6, <3>1
    <3>3. PICK i \in 1..Len(walk) : walk[i] = w
      BY <1>1, <2>6, <3>2 DEF WalksOver
    <3>4. i = 1 \/ walk[1].at < walk[i].at
      BY <1>1, <1>4, <2>1, <3>3 DEF WalksOver
    <3> QED
      BY <2>4, <2>6, <3>1, <3>3, <3>4 DEF Settling, Deferring
  <2> QED
    BY <2>4, <2>5, <2>6
<1>13. ASSUME ~ (Len(walk) > MaxListed)
       PROVE  /\ Records(d, cut) /\ m = Len(walk)
  <2>1. cut = <<>> /\ <<>> \in Seq(Fires) /\ DOMAIN <<>> = {}
    BY <1>13
  <2>2. m = Len(walk)
    BY <1>0, <1>4, <1>13 DEF Min2
  <2> HIDE DEF cut, m
  <2> QED
    BY <2>1, <2>2 DEF Records
<1>14. ASSUME ~ (Len(walk) > MaxListed), NEW w, Leads(e, w), d.cursor < w.at, w.at <= Target(d).at,
              w.key # Target(d).key
       PROVE  \E i \in DOMAIN skips : Settling(skips[i], w)
  <2>1. w.at \in Nat
    BY <1>0, <1>14, WindowShape DEF Leads
  <2>2. w.at <= now
    BY <1>0, <1>3, <1>14, <2>1
  <2>3. PICK j \in 1..Len(walk) : walk[j] = w
    BY <1>1, <1>14, <2>2 DEF WalksOver
  <2>4. j \in kept /\ listed[j] = w
    BY <1>5, <1>13, <1>14, <2>3
  <2>5. PICK i \in DOMAIN others : others[i] = w
    BY <1>7, <2>4
  <2> QED
    BY <1>9, <1>10, <2>5 DEF Settling, Deferring
<1>15. CASE InGrace(d) # {}
  <2>1. PassedOver(d) = cut \o skips
    BY <1>2, <1>15
  <2>2. Records(d, cut)
    BY <1>12, <1>13
  <2> HIDE DEF cut
  <2>3. /\ Records(d, PassedOver(d))
        /\ \A i \in DOMAIN cut : \E j \in DOMAIN PassedOver(d) : PassedOver(d)[j] = cut[i]
        /\ \A i \in DOMAIN skips : \E j \in DOMAIN PassedOver(d) : PassedOver(d)[j] = skips[i]
    <3>1. Records(d, skips)
      BY <1>10
    <3> DEFINE both == cut \o skips
    <3>2. Records(d, both) /\ Within(cut, both) /\ Within(skips, both)
      BY <2>2, <3>1, JoinedRecords, Zenon
    <3> QED
      BY <2>1, <3>2 DEF Within
  <2>4. ASSUME NEW w, Leads(e, w), d.cursor < w.at, w.at <= Target(d).at, w.key # Target(d).key
        PROVE  \E i \in DOMAIN PassedOver(d) : Settling(PassedOver(d)[i], w)
    <3>1. CASE Len(walk) > MaxListed
      <4>1. DOMAIN cut = {1} /\ Settling(cut[1], w)
        BY <1>12, <2>4, <3>1 DEF cut
      <4> QED
        BY <2>3, <4>1
    <3>2. CASE ~ (Len(walk) > MaxListed)
      BY <1>14, <2>3, <2>4, <3>2
    <3> QED
      BY <3>1, <3>2
  <2> QED
    BY <2>3, <2>4
<1> QED
  BY <1>11, <1>15

\* What an evaluation may come to ...
Sound(s, d, v) ==
    /\ Records(d, v.records)
    /\ v.decision \in {"none", "ask"} \cup (Reasons \ {"dispatched"})
    /\ v.decision = "none" => v = Nothing
    /\ v.decision # "none" => /\ Leads(d.expression, v.window) /\ d.cursor < v.window.at
                              /\ v.window.at <= v.upto /\ v.upto <= now /\ v.upto \in Nat
    /\ v.decision \notin {"none", "disabled"} => d.enabled
    /\ v.decision = "ask" => tick.budget # 0 /\ (s \in SkipPolicy => <<s, d.last>> \notin going)

\* ... and that what it passes over is recorded, or about to be asked for.
Complete(d, v) ==
    v.decision \notin {"none", "disabled"} \cup Deferring =>
        \A w : Leads(d.expression, w) /\ d.cursor < w.at
               /\ w.at <= CursorAfter(v.window, v.upto, v.decision)
               => \/ \E i \in DOMAIN v.records : Settling(v.records[i], w)
                  \/ v.decision = "ask" /\ w.key = v.window.key

LEMMA Decisions ==
  ASSUME NEW s, NEW d, NEW w
  PROVE  /\ Decision(s, d, w) \in {"ask", "duplicate-window", "catchup-expired", "capacity-deferred",
                                   "overlap-skipped", "shutdown"}
         /\ Decision(s, d, w) = "ask" =>
               tick.budget # 0 /\ (s \in SkipPolicy => <<s, d.last>> \notin going)
         /\ Decision(s, d, w) = "catchup-expired" => now - w.at > Grace
BY DEF Decision

\* One record more.
IsIn(f, list) == \E i \in DOMAIN list : list[i] = f

LEMMA OneMore ==
  ASSUME NEW d, NEW l, NEW f, Records(d, l), Records(d, <<f>>)
  PROVE  Records(d, l \o <<f>>) /\ Within(l, l \o <<f>>) /\ IsIn(f, l \o <<f>>)
<1> DEFINE k == <<f>>
<1>1. 1 \in DOMAIN k /\ k[1] = f
  OBVIOUS
<1>2. Records(d, k)
  OBVIOUS
<1> HIDE DEF k
<1>3. Records(d, l \o k) /\ Within(l, l \o k) /\ Within(k, l \o k)
  BY <1>2, JoinedRecords, Zenon
<1>4. IsIn(f, l \o k)
  <2> DEFINE lk == l \o k
  <2>1. \E i \in DOMAIN lk : lk[i] = k[1]
    BY <1>1, <1>3 DEF Within
  <2> QED
    BY <1>1, <2>1 DEF IsIn
<1> QED
  BY <1>3, <1>4 DEF k

LEMMA NothingIsSound ==
  ASSUME NEW s, NEW d, Readable(d)
  PROVE  Sound(s, d, Nothing) /\ Complete(d, Nothing)
<1>1. <<>> \in Seq(Fires) /\ DOMAIN <<>> = {}
  OBVIOUS
<1>2. Records(d, Nothing.records) /\ Nothing.decision = "none"
  BY <1>1 DEF Records, Nothing
<1> QED
  BY <1>2 DEF Sound, Complete

LEMMA PauseIsSound ==
  ASSUME NEW s, NEW d, Readable(d), NEW w \in Due(d)
  PROVE  LET v == [records |-> <<Fire(w, w.at, "disabled")>>, decision |-> "disabled",
                   window |-> w, upto |-> w.at]
         IN  Sound(s, d, v) /\ Complete(d, v)
<1> DEFINE v == [records |-> <<Fire(w, w.at, "disabled")>>, decision |-> "disabled",
                 window |-> w, upto |-> w.at]
<1>1. Leads(d.expression, w) /\ d.cursor < w.at /\ w.at <= now
  BY DueLeads
<1>2. w.at \in Nat
  BY <1>1, ReadableTypes, WindowShape DEF Leads
<1>3. "disabled" \in Reasons \ {"dispatched"}
  BY DEF Reasons
<1>4. Records(d, <<Fire(w, w.at, "disabled")>>)
  <2> DEFINE at == w.at
             r == "disabled"
  <2>1. at \in Nat /\ at <= now /\ r \in Reasons \ {"dispatched"}
    BY <1>1, <1>2, <1>3
  <2> HIDE DEF at, r
  <2>2. Records(d, <<Fire(w, at, r)>>)
    BY <1>1, <2>1, FireRecord DEF at
  <2> QED
    BY <2>2 DEF at, r
<1>5. /\ v.records = <<Fire(w, w.at, "disabled")>> /\ v.decision = "disabled"
      /\ v.window = w /\ v.upto = w.at
  OBVIOUS
<1> HIDE DEF v
<1>6. Sound(s, d, v)
  BY <1>1, <1>2, <1>3, <1>4, <1>5 DEF Sound
<1>7. Complete(d, v)
  BY <1>5 DEF Complete
<1> QED
  BY <1>6, <1>7 DEF v

LEMMA JudgementIsSound ==
  ASSUME NEW s, NEW d, Readable(d), Due(d) # {}, d.enabled
  PROVE  LET w        == Target(d)
             decision == Decision(s, d, w)
             upto     == IF decision = "catchup-expired" THEN now ELSE w.at
             v        == [records |-> IF decision = "ask" THEN PassedOver(d)
                                      ELSE PassedOver(d) \o <<Fire(w, upto, decision)>>,
                          decision |-> decision, window |-> w, upto |-> upto]
         IN  Sound(s, d, v) /\ Complete(d, v)
<1> DEFINE w == Target(d)
           decision == Decision(s, d, w)
           upto == IF decision = "catchup-expired" THEN now ELSE w.at
           passed == PassedOver(d)
           records == IF decision = "ask" THEN passed ELSE passed \o <<Fire(w, upto, decision)>>
           v == [records |-> records, decision |-> decision, window |-> w, upto |-> upto]
<1>1. /\ Leads(d.expression, w) /\ d.cursor < w.at /\ w.at <= now
      /\ InGrace(d) # {} => \A u : Leads(d.expression, u) /\ u.at <= now => u.at <= w.at
      /\ InGrace(d) = {} => \A u : Leads(d.expression, u) /\ d.cursor < u.at => w.at <= u.at
  BY TargetLeads
<1>2. /\ d.expression \in Expressions /\ d.cursor \in Nat /\ now \in Nat /\ Grace \in Nat
      /\ \A u : Leads(d.expression, u) => u.at \in Nat /\ u = [key |-> Key[d.expression][u.at], at |-> u.at]
  BY ReadableTypes, ConstantTypes, WindowShape DEF Leads
<1>3. /\ Records(d, passed)
      /\ InGrace(d) # {} =>
            \A u : Leads(d.expression, u) /\ d.cursor < u.at /\ u.at <= w.at /\ u.key # w.key
                   => \E i \in DOMAIN passed : Settling(passed[i], u)
  BY PassedOverRecords
<1>4. /\ decision \in {"ask", "duplicate-window", "catchup-expired", "capacity-deferred",
                       "overlap-skipped", "shutdown"}
      /\ decision = "ask" => tick.budget # 0 /\ (s \in SkipPolicy => <<s, d.last>> \notin going)
      /\ decision = "catchup-expired" => now - w.at > Grace
  BY Decisions
<1> HIDE DEF w, decision, passed
<1>5. upto \in Nat /\ w.at <= upto /\ upto <= now /\ w.at \in Nat
      /\ (decision # "catchup-expired" => upto = w.at)
      /\ (decision = "catchup-expired" => upto = now)
  BY <1>1, <1>2
<1> HIDE DEF upto
<1>6. decision # "ask" => decision \in Reasons \ {"dispatched"}
  BY <1>4 DEF Reasons, Deferring
<1>7. ASSUME decision # "ask"
      PROVE  /\ Records(d, records) /\ Within(passed, records)
             /\ \E i \in DOMAIN records : /\ records[i].reason = decision /\ records[i].key = w.key
                                          /\ records[i].at = w.at /\ records[i].upto = upto
  <2> DEFINE f == Fire(w, upto, decision)
  <2>1. Records(d, <<f>>) /\ f.reason = decision /\ f.key = w.key /\ f.at = w.at /\ f.upto = upto
    BY <1>1, <1>5, <1>6, <1>7, FireRecord
  <2>2. records = passed \o <<f>>
    BY <1>7
  <2> HIDE DEF f, records
  <2>3. Records(d, passed \o <<f>>) /\ Within(passed, passed \o <<f>>) /\ IsIn(f, passed \o <<f>>)
    BY <1>3, <2>1, OneMore, Zenon
  <2>4. /\ Records(d, records) /\ Within(passed, records)
        /\ \E i \in DOMAIN records : records[i] = f
    BY <2>2, <2>3 DEF IsIn
  <2> QED
    BY <2>1, <2>4
<1>8. decision = "ask" => records = passed
  OBVIOUS
<1>9. v.records = records /\ v.decision = decision /\ v.window = w /\ v.upto = upto
  OBVIOUS
<1> HIDE DEF records, v
<1>10. Sound(s, d, v)
  <2>1. Records(d, records)
    BY <1>3, <1>7, <1>8
  <2>2. decision \in {"ask"} \cup (Reasons \ {"dispatched"}) /\ decision # "none"
    BY <1>4, <1>6
  <2> QED
    BY <1>1, <1>4, <1>5, <1>9, <2>1, <2>2 DEF Sound
<1>11. Complete(d, v)
  <2>1. SUFFICES ASSUME decision \notin {"none", "disabled"} \cup Deferring,
                        NEW u, Leads(d.expression, u), d.cursor < u.at,
                        u.at <= CursorAfter(w, upto, decision)
                 PROVE  \/ \E i \in DOMAIN records : Settling(records[i], u)
                        \/ decision = "ask" /\ u.key = w.key
    BY <1>9 DEF Complete
  <2>2. u.at <= upto /\ u.at \in Nat
    <3>1. CursorAfter(w, upto, decision) = IF decision = "catchup-expired" THEN upto ELSE w.at
      BY <1>4, <2>1 DEF CursorAfter
    <3> QED
      BY <1>2, <1>5, <2>1, <3>1
  <2>3. CASE decision # "ask" /\ (u.key = w.key \/ (w.at <= u.at /\ u.at <= upto))
    <3>1. PICK i \in DOMAIN records : /\ records[i].reason = decision /\ records[i].key = w.key
                                      /\ records[i].at = w.at /\ records[i].upto = upto
      BY <1>7, <2>3
    <3>2. Settling(records[i], u)
      BY <2>1, <2>3, <3>1 DEF Settling
    <3> QED
      BY <3>2
  <2>4. CASE decision = "ask" /\ u.key = w.key
    BY <2>4
  <2>5. CASE InGrace(d) # {} /\ u.key # w.key
    <3>1. u.at <= w.at
      BY <1>1, <1>2, <1>5, <2>1, <2>2, <2>5
    <3>2. PICK i \in DOMAIN passed : Settling(passed[i], u)
      BY <1>3, <2>1, <2>5, <3>1
    <3>3. Within(passed, records)
      <4>1. Within(passed, passed)
        BY DEF Within
      <4> QED
        BY <1>7, <1>8, <4>1
    <3>4. PICK j \in DOMAIN records : records[j] = passed[i]
      BY <3>3 DEF Within
    <3> QED
      BY <3>2, <3>4
  <2>6. CASE InGrace(d) = {}
    <3>1. w.at <= u.at
      BY <1>1, <2>1, <2>6
    <3>2. CASE decision = "ask"
      <4>1. u.at = w.at
        BY <1>5, <2>2, <3>1, <3>2
      <4>2. u = w
        BY <1>1, <1>2, <2>1, <4>1
      <4> QED
        BY <3>2, <4>2
    <3> QED
      BY <2>2, <2>3, <3>1, <3>2
  <2> QED
    BY <2>3, <2>4, <2>5, <2>6
<1> QED
  BY <1>10, <1>11 DEF v, records, upto, decision, passed, w

\* Whatever document a tick has read: what #evaluate records lies between its cursor and now and
\* claims no dispatch; it asks for a run only with budget left, for an enabled schedule, and
\* under skip when no run it knows of is going; and unless it defers or the schedule is paused,
\* every leading window it moves the cursor over gets a record or is the one asked for.
THEOREM EvaluationIsSound ==
  ASSUME NEW s, NEW d, Readable(d)
  PROVE  Sound(s, d, Evaluation(s, d)) /\ Complete(d, Evaluation(s, d))
<1>1. CASE Due(d) = {} \/ (~d.enabled /\ d.reason = "disabled")
  <2>1. Evaluation(s, d) = Nothing
    BY <1>1 DEF Evaluation
  <2> QED
    BY <2>1, NothingIsSound
<1>2. CASE Due(d) # {} /\ ~d.enabled /\ d.reason # "disabled"
  <2> DEFINE w == CHOOSE u \in Due(d) : TRUE
  <2>1. w \in Due(d)
    BY <1>2
  <2>2. Evaluation(s, d) = [records |-> <<Fire(w, w.at, "disabled")>>, decision |-> "disabled",
                            window |-> w, upto |-> w.at]
    BY <1>2 DEF Evaluation
  <2> HIDE DEF w
  <2> QED
    BY <2>1, <2>2, PauseIsSound, Zenon
<1>3. CASE Due(d) # {} /\ d.enabled
  <2> DEFINE w == Target(d)
             decision == Decision(s, d, w)
             upto == IF decision = "catchup-expired" THEN now ELSE w.at
             v == [records |-> IF decision = "ask" THEN PassedOver(d)
                               ELSE PassedOver(d) \o <<Fire(w, upto, decision)>>,
                   decision |-> decision, window |-> w, upto |-> upto]
  <2>1. Evaluation(s, d) = v
    BY <1>3 DEF Evaluation
  <2>2. Sound(s, d, v) /\ Complete(d, v)
    BY <1>3, JudgementIsSound
  <2> QED
    BY <2>1, <2>2, Zenon
<1> QED
  BY <1>1, <1>2, <1>3

-----------------------------------------------------------------------------
(* The state, and what the helpers of the actions make of it.                *)

QueueEntries == [schedule : Schedules, doc : Documents]
FlightRecords == [phase : {"none", "asked", "answered"}, schedule : Schedules,
                  window : [key : {NoKey} \cup Keys \cup ManualKeys, at : 0..Horizon],
                  answer : {"none", "dispatched", "refused"}]

LEMMA DocumentTypes ==
  ASSUME NEW d \in Docs
  PROVE  /\ d.enabled \in BOOLEAN /\ d.cursor \in 0..Horizon /\ d.cursor \in Nat
         /\ d.last \in {NoKey} \cup Keys \cup ManualKeys
         /\ d # Deleted => d \in Documents /\ d.expression \in Expressions
<1>1. Horizon \in Nat
  BY ConstantTypes
<1>2. CASE d = Deleted
  BY <1>1, <1>2 DEF Deleted
<1>3. CASE d \in Documents
  BY <1>1, <1>3 DEF Documents
<1> QED
  BY <1>2, <1>3 DEF Docs

LEMMA StateTypes ==
  ASSUME TypeOK
  PROVE  /\ now \in 0..Horizon /\ now \in Nat
         /\ \A s \in Schedules :
              /\ doc[s] \in Docs /\ doc[s].enabled \in BOOLEAN
              /\ doc[s].cursor \in 0..Horizon /\ doc[s].cursor \in Nat
              /\ doc[s].last \in {NoKey} \cup Keys \cup ManualKeys
              /\ doc[s] # Deleted => doc[s] \in Documents /\ doc[s].expression \in Expressions
              /\ fires[s] \in Seq(Fires) /\ history.anchor[s] \in Nat
              /\ history.paused[s] \subseteq 0..Horizon
         /\ \A c \in Callers :
              /\ flight[c] \in FlightRecords /\ flight[c].schedule \in Schedules
              /\ flight[c].window.at \in 0..Horizon /\ flight[c].window.at \in Nat
         /\ tick.queue \in Seq(QueueEntries) /\ tick.budget \in 0..MaxFires /\ tick.budget \in Nat
         /\ tick.active \in BOOLEAN
<1>1. Horizon \in Nat /\ MaxFires \in Nat
  BY ConstantTypes
<1>2. now \in 0..Horizon /\ now \in Nat
  BY <1>1 DEF TypeOK
<1>3. ASSUME NEW s \in Schedules
      PROVE  /\ doc[s] \in Docs
             /\ fires[s] \in Seq(Fires) /\ history.anchor[s] \in Nat
             /\ history.paused[s] \subseteq 0..Horizon
  BY <1>1 DEF TypeOK
<1>4. ASSUME NEW c \in Callers
      PROVE  /\ flight[c] \in FlightRecords /\ flight[c].schedule \in Schedules
             /\ flight[c].window.at \in 0..Horizon /\ flight[c].window.at \in Nat
  BY <1>1 DEF TypeOK, FlightRecords
<1>5. /\ tick.queue \in Seq(QueueEntries) /\ tick.budget \in 0..MaxFires /\ tick.budget \in Nat
      /\ tick.active \in BOOLEAN
  BY <1>1 DEF TypeOK, QueueEntries
<1> QED
  BY <1>2, <1>3, <1>4, <1>5, DocumentTypes

LEMMA TailOf ==
  ASSUME NEW S, NEW q \in Seq(S), q # <<>>
  PROVE  /\ Tail(q) \in Seq(S) /\ Head(q) = q[1] /\ 1 \in DOMAIN q /\ q[1] \in S
         /\ \A i \in DOMAIN Tail(q) : i + 1 \in DOMAIN q /\ Tail(q)[i] = q[i + 1] /\ i + 1 # 1
<1>1. Len(q) \in Nat /\ Len(q) # 0 /\ DOMAIN q = 1..Len(q)
  BY EmptySeq
<1>2. Tail(q) \in Seq(S) /\ Len(Tail(q)) = Len(q) - 1 /\ Head(q) = q[1] /\ q[1] \in S
  BY <1>1
<1>3. DOMAIN Tail(q) = 1..(Len(q) - 1)
  BY <1>2
<1>4. \A i \in 1..(Len(q) - 1) : Tail(q)[i] = q[i + 1]
  BY <1>1, HeadTailProperties
<1> QED
  BY <1>1, <1>2, <1>3, <1>4

LEMMA ElementsOf ==
  ASSUME NEW S, NEW q \in Seq(S)
  PROVE  Len(q) \in Nat /\ DOMAIN q = 1..Len(q) /\ \A i \in DOMAIN q : q[i] \in S
OBVIOUS

\* One element more.
LEMMA AppendedTo ==
  ASSUME NEW S, NEW q \in Seq(S), NEW x \in S
  PROVE  /\ Append(q, x) \in Seq(S) /\ Within(q, Append(q, x)) /\ IsIn(x, Append(q, x))
         /\ \A i \in DOMAIN Append(q, x) : (i \in DOMAIN q /\ Append(q, x)[i] = q[i])
                                           \/ Append(q, x)[i] = x
<1>1. /\ Append(q, x) \in Seq(S) /\ Len(Append(q, x)) = Len(q) + 1 /\ Len(q) \in Nat
      /\ \A i \in 1..Len(q) : Append(q, x)[i] = q[i]
      /\ Append(q, x)[Len(q) + 1] = x
      /\ DOMAIN q = 1..Len(q) /\ DOMAIN Append(q, x) = 1..(Len(q) + 1)
  BY AppendProperties
<1> DEFINE a == Append(q, x)
<1> HIDE DEF a
<1>2. \A i \in DOMAIN a : (i \in DOMAIN q /\ a[i] = q[i]) \/ a[i] = x
  BY <1>1 DEF a
<1>3. Within(q, a)
  BY <1>1 DEF Within, a
<1>4. IsIn(x, a)
  BY <1>1 DEF IsIn, a
<1> QED
  BY <1>1, <1>2, <1>3, <1>4 DEF a

\* One list more.
OnlyOf(list, a, b) == \A i \in DOMAIN list : IsIn(list[i], a) \/ IsIn(list[i], b)

LEMMA JoinedTo ==
  ASSUME NEW S, NEW q \in Seq(S), NEW l \in Seq(S)
  PROVE  /\ q \o l \in Seq(S) /\ Within(q, q \o l) /\ Within(l, q \o l)
         /\ OnlyOf(q \o l, q, l)
<1>1. /\ q \o l \in Seq(S) /\ Len(q) \in Nat /\ Len(l) \in Nat /\ Len(q \o l) = Len(q) + Len(l)
      /\ \A i \in 1..(Len(q) + Len(l)) : (q \o l)[i] = IF i <= Len(q) THEN q[i] ELSE l[i - Len(q)]
      /\ DOMAIN q = 1..Len(q) /\ DOMAIN l = 1..Len(l) /\ DOMAIN (q \o l) = 1..(Len(q) + Len(l))
  BY ConcatProperties
<1> DEFINE a == q \o l
<1> HIDE DEF a
<1>2. \A i \in DOMAIN q : i \in DOMAIN a /\ a[i] = q[i]
  BY <1>1 DEF a
<1>3. \A i \in DOMAIN l : i + Len(q) \in DOMAIN a /\ a[i + Len(q)] = l[i]
  BY <1>1 DEF a
<1>4. \A i \in DOMAIN a : (i \in DOMAIN q /\ a[i] = q[i])
                          \/ (i - Len(q) \in DOMAIN l /\ a[i] = l[i - Len(q)])
  BY <1>1 DEF a
<1>5. OnlyOf(a, q, l)
  <2> SUFFICES ASSUME NEW i \in DOMAIN a PROVE IsIn(a[i], q) \/ IsIn(a[i], l)
    BY DEF OnlyOf
  <2> QED
    BY <1>4 DEF IsIn
<1> QED
  BY <1>1, <1>2, <1>3, <1>5 DEF a, Within

\* A beginning of a list.
LEMMA BeginningOf ==
  ASSUME NEW S, NEW l \in Seq(S), NEW n \in DOMAIN l
  PROVE  /\ SubSeq(l, 1, n) \in Seq(S)
         /\ \A i \in DOMAIN SubSeq(l, 1, n) : \E j \in DOMAIN l : SubSeq(l, 1, n)[i] = l[j]
<1>1. Len(l) \in Nat /\ DOMAIN l = 1..Len(l) /\ n \in 1..Len(l) /\ \A i \in 1..Len(l) : l[i] \in S
  OBVIOUS
<1> DEFINE b == SubSeq(l, 1, n)
<1>2. /\ b \in Seq(S) /\ Len(b) = IF 1 <= n THEN n - 1 + 1 ELSE 0
      /\ \A i \in 1..(n - 1 + 1) : b[i] = l[1 + i - 1]
  BY <1>1, SubSeqProperties
<1>3. DOMAIN b = 1..n
  BY <1>1, <1>2
<1>4. \A i \in 1..n : i \in DOMAIN l /\ b[i] = l[i]
  BY <1>1, <1>2
<1> QED
  BY <1>2, <1>3, <1>4

LEMMA TickAfterIs ==
  ASSUME NEW q \in Seq(QueueEntries), NEW b \in 0..MaxFires
  PROVE  LET t == TickAfter(q, b) IN
         /\ t \in [active : BOOLEAN, queue : Seq(QueueEntries), budget : 0..MaxFires]
         /\ t.queue = q /\ (~t.active => t = NoTick) /\ (t.active => t.budget = b)
<1>1. <<>> \in Seq(QueueEntries) /\ 0 \in 0..MaxFires
  BY ConstantTypes
<1>2. CASE q = <<>>
  BY <1>1, <1>2 DEF TickAfter, NoTick
<1>3. CASE q # <<>>
  BY <1>3 DEF TickAfter
<1> QED
  BY <1>2, <1>3

LEMMA AdvancedIs ==
  ASSUME NEW d \in Docs, NEW cursor \in 0..Horizon, NEW reason \in Reasons,
         NEW fired \in {NoKey} \cup Keys \cup ManualKeys
  PROVE  LET n == Advanced(d, cursor, reason, fired) IN
         /\ n \in Docs /\ n.enabled = d.enabled /\ n.expression = d.expression
         /\ d = Deleted => n = Deleted
         /\ d # Deleted => /\ n.cursor = Max2(d.cursor, cursor)
                           /\ n.last = IF fired = NoKey THEN d.last ELSE fired
<1>1. CASE d = Deleted
  BY <1>1 DEF Advanced
<1>2. CASE d # Deleted
  <2>1. d \in Documents
    BY <1>2 DEF Docs
  <2>2. Max2(d.cursor, cursor) \in 0..Horizon
    BY <2>1 DEF Documents, Max2
  <2> DEFINE m == Max2(d.cursor, cursor)
             l == IF fired = NoKey THEN d.last ELSE fired
             n == [d EXCEPT !.cursor = m, !.reason = reason, !.last = l]
  <2>3. l \in {NoKey} \cup Keys \cup ManualKeys /\ m \in 0..Horizon
    BY <2>1, <2>2 DEF Documents
  <2>4. Advanced(d, cursor, reason, fired) = n
    BY <1>2 DEF Advanced
  <2> HIDE DEF m, l
  <2>5. n \in Documents
    BY <2>1, <2>3 DEF Documents
  <2>6. /\ n.enabled = d.enabled /\ n.expression = d.expression
        /\ n.cursor = m /\ n.last = l
    BY <2>1 DEF Documents
  <2> HIDE DEF n
  <2> QED
    BY <1>2, <2>4, <2>5, <2>6 DEF Docs, m, l
<1> QED
  BY <1>1, <1>2

LEMMA DocAfterIs ==
  ASSUME TypeOK, NEW c \in Callers, NEW s \in Schedules, NEW w, w.at \in 0..Horizon,
         NEW upto \in 0..Horizon, NEW reason \in Reasons,
         reason = "dispatched" => w.key \in Keys \cup ManualKeys
  PROVE  LET n == DocAfter(c, s, w, upto, reason) IN
         /\ n \in Docs /\ n.enabled = doc[s].enabled /\ n.expression = doc[s].expression
         /\ doc[s] = Deleted => n = Deleted
         /\ doc[s] # Deleted =>
              /\ n.cursor = IF c = "manual" \/ reason \in Deferring THEN doc[s].cursor
                            ELSE Max2(doc[s].cursor, CursorAfter(w, upto, reason))
              /\ n.last = IF reason = "dispatched" THEN w.key ELSE doc[s].last
<1>1. doc[s] \in Docs /\ doc[s].cursor \in Nat /\ Horizon \in Nat
  BY StateTypes, ConstantTypes
<1>2. CASE reason \in Deferring \/ (c = "manual" /\ reason # "dispatched")
  BY <1>1, <1>2 DEF DocAfter, Deferring
<1>3. CASE ~ (reason \in Deferring \/ (c = "manual" /\ reason # "dispatched"))
  <2> DEFINE to == IF c = "manual" THEN 0 ELSE CursorAfter(w, upto, reason)
             fired == IF reason = "dispatched" THEN w.key ELSE NoKey
  <2>1. DocAfter(c, s, w, upto, reason) = Advanced(doc[s], to, reason, fired)
    BY <1>3 DEF DocAfter
  <2>2. CursorAfter(w, upto, reason) \in {0, upto, w.at}
    BY DEF CursorAfter
  <2>3. to \in 0..Horizon
    BY <1>1, <2>2
  <2>4. fired \in {NoKey} \cup Keys \cup ManualKeys
    OBVIOUS
  <2>5. IF fired = NoKey THEN reason # "dispatched" ELSE reason = "dispatched" /\ fired = w.key
    BY KeyKinds
  <2>6. c = "manual" => Max2(doc[s].cursor, to) = doc[s].cursor
    BY <1>1 DEF Max2
  <2> DEFINE n == Advanced(doc[s], to, reason, fired)
  <2>7. /\ n \in Docs /\ n.enabled = doc[s].enabled /\ n.expression = doc[s].expression
        /\ doc[s] = Deleted => n = Deleted
        /\ doc[s] # Deleted => /\ n.cursor = Max2(doc[s].cursor, to)
                               /\ n.last = IF fired = NoKey THEN doc[s].last ELSE fired
    <3> HIDE DEF to, fired
    <3> QED
      BY <1>1, <2>3, <2>4, AdvancedIs
  <2>8. c # "manual" => to = CursorAfter(w, upto, reason)
    OBVIOUS
  <2> HIDE DEF to, fired, n
  <2> QED
    BY <1>3, <2>1, <2>5, <2>6, <2>7, <2>8 DEF n
<1> QED
  BY <1>2, <1>3

\* A tick reads each schedule that there is once.
LEMMA ListingIs ==
  ASSUME TypeOK
  PROVE  /\ Listing \in Seq(QueueEntries)
         /\ \A i \in DOMAIN Listing : /\ Listing[i].doc = doc[Listing[i].schedule]
                                      /\ Listing[i].schedule \in Schedules
                                      /\ Listing[i].doc # Deleted
         /\ \A i, j \in DOMAIN Listing : Listing[i].schedule = Listing[j].schedule => i = j
<1> DEFINE S == [schedule : Schedules, doc : Docs]
           read == [i \in DOMAIN Order |-> [schedule |-> Order[i], doc |-> doc[Order[i]]]]
           at == {i \in DOMAIN Order : doc[Order[i]] # Deleted}
           out == Kept(read, at)
<1>1. /\ Order \in Seq(Schedules) /\ DOMAIN Order = 1..Len(Order) /\ Len(Order) \in Nat
      /\ \A i \in DOMAIN Order : Order[i] \in Schedules /\ doc[Order[i]] \in Docs
      /\ \A i, j \in DOMAIN Order : Order[i] = Order[j] => i = j
  BY ConstantTypes, StateTypes
<1>2. /\ read \in Seq(S) /\ Len(read) = Len(Order) /\ DOMAIN read = DOMAIN Order
      /\ \A i \in DOMAIN Order : read[i].schedule = Order[i] /\ read[i].doc = doc[Order[i]]
  BY <1>1
<1>3. \A i, j \in 1..Len(read) : read[i] = read[j] => i = j
  BY <1>1, <1>2
<1>4. at \in SUBSET (1..Len(read))
  BY <1>1, <1>2
<1>5. Listing = out
  BY DEF Listing
<1>6. \A j \in at : doc[Order[j]] # Deleted /\ j \in DOMAIN Order
  OBVIOUS
<1> HIDE DEF read, at, S
<1>7. /\ out \in Seq(S) /\ DOMAIN out = 1..Len(out)
      /\ \A i \in DOMAIN out : \E j \in at : out[i] = read[j]
      /\ \A i, j \in DOMAIN out : out[i] = out[j] => i = j
  BY <1>2, <1>3, <1>4, KeptIsKept
<1> HIDE DEF out
<1>8. ASSUME NEW i \in DOMAIN out
      PROVE  /\ out[i] \in QueueEntries /\ out[i].doc = doc[out[i].schedule]
             /\ out[i].schedule \in Schedules /\ out[i].doc # Deleted
  <2>1. PICK j \in at : out[i] = read[j]
    BY <1>7
  <2>2. out[i].schedule = Order[j] /\ out[i].doc = doc[Order[j]] /\ Order[j] \in Schedules
        /\ doc[Order[j]] \in Documents /\ doc[Order[j]] # Deleted
    BY <1>1, <1>2, <1>6, <2>1, StateTypes
  <2>3. out[i] \in S
    BY <1>7
  <2> QED
    BY <2>2, <2>3 DEF QueueEntries, S
<1>9. ASSUME NEW i \in DOMAIN out, NEW j \in DOMAIN out, out[i].schedule = out[j].schedule
      PROVE  i = j
  <2>1. out[i] \in S /\ out[j] \in S
    BY <1>7
  <2>2. out[i].doc = out[j].doc
    BY <1>8, <1>9
  <2>3. out[i] = out[j]
    BY <1>9, <2>1, <2>2 DEF S
  <2> QED
    BY <1>7, <2>3
<1>10. out \in Seq(QueueEntries)
  <2>1. Len(out) \in Nat /\ out = [i \in 1..Len(out) |-> out[i]]
    BY <1>7
  <2>2. out \in [1..Len(out) -> QueueEntries]
    BY <1>7, <1>8, <2>1
  <2> QED
    BY <2>1, <2>2
<1> QED
  BY <1>5, <1>8, <1>9, <1>10

-----------------------------------------------------------------------------
(* The inductive invariant.                                                  *)


(* The flights: what a dispatch awaits, and that it belongs to the tick. *)
FlightInv ==
    /\ \A c \in Callers :
        /\ flight[c].phase = "none" => flight[c] = Landed
        /\ flight[c].phase = "asked" => flight[c].answer = "none"
        /\ flight[c].phase = "answered" => flight[c].answer \in {"dispatched", "refused"}
        /\ flight[c].window.at <= now
        /\ flight[c].phase # "none" =>
              flight[c].window.key \in IF c = "tick" THEN Keys ELSE ManualKeys
    /\ flight["tick"].phase # "none" =>
          /\ tick.active /\ tick.budget > 0
          /\ \A i \in DOMAIN tick.queue : tick.queue[i].schedule # flight["tick"].schedule

(* The tick: it has read each schedule once, and no document from the future. *)
TickInv ==
    /\ ~tick.active => tick = NoTick
    /\ \A i, j \in DOMAIN tick.queue : tick.queue[i].schedule = tick.queue[j].schedule => i = j
    /\ \A i \in DOMAIN tick.queue : tick.queue[i].doc.cursor <= now

(* Nothing is recorded or settled ahead of its time. *)
TimeInv ==
    \A s \in Schedules :
        /\ doc[s].cursor <= now
        /\ history.anchor[s] <= now
        /\ doc[s] # Deleted => history.anchor[s] <= doc[s].cursor
        /\ \A i \in DOMAIN fires[s] : fires[s][i].at <= now
        /\ \A t \in history.paused[s] : t <= now

(* The cursor of an enabled schedule has passed its pauses. *)
PausedInv ==
    /\ \A s \in Schedules : doc[s].enabled => \A t \in history.paused[s] : t <= doc[s].cursor
    /\ flight["tick"].phase # "none" /\ flight["tick"].schedule \notin history.misread
          => flight["tick"].window.at \notin history.paused[flight["tick"].schedule]

(* Nothing that could start a run of a schedule that was stopped for good,  *)
(* and no run of it that the stop has yet to find.                          *)
QuietInv ==
    \A s \in history.quiet :
        /\ ~doc[s].enabled
        /\ \A c \in Callers : flight[c].phase # "none" => flight[c].schedule # s
        /\ \A i \in DOMAIN tick.queue : tick.queue[i].schedule = s => ~tick.queue[i].doc.enabled
        /\ stopper.active /\ stopper.schedule = s =>
              \A r \in going : r[1] = s => r \in stopper.todo \cup asked

(* What was answered or recorded as a run is one. *)
RunOf(c) == <<flight[c].schedule, flight[c].window.key>>
RunsInv ==
    /\ \A s \in Schedules : \A key \in Recorded(s) : <<s, key>> \in started
    /\ \A c \in Callers : flight[c].answer = "dispatched" => RunOf(c) \in started

(* The runs of s that a tick has recorded, or is about to record. *)
InFlight(s, r) ==
    /\ flight["tick"].answer = "dispatched" /\ flight["tick"].schedule = s
    /\ r = <<s, flight["tick"].window.key>>
Tracked(s) == {r \in going : r[1] = s /\ (r[2] \in Recorded(s) \/ InFlight(s, r))}
ByTicks(s) == \A r \in started : r[1] = s => r[2] \notin ManualKeys

(* Whatever still decides about s knows of the tracked run that is going. *)
SkipInv ==
    bounds.deaths = 0 =>
        \A s \in SkipPolicy : ByTicks(s) =>
            /\ \A r, q \in Tracked(s) : r = q
            /\ \A i \in DOMAIN tick.queue : tick.queue[i].schedule = s =>
                  Tracked(s) \subseteq {<<s, tick.queue[i].doc.last>>}
            /\ flight["tick"].phase # "none" /\ flight["tick"].schedule = s =>
                  Tracked(s) \subseteq {r \in going : InFlight(s, r)}
            /\ doc[s] # Deleted /\ ~(flight["tick"].phase # "none" /\ flight["tick"].schedule = s) =>
                  Tracked(s) \subseteq {<<s, doc[s].last>>}

(* Every local time but one that ended after the anchor and by an instant is settled. *)
Covered(s, upto, except) ==
    \A key \in {w.key : w \in Windows(doc[s].expression)} \ {except} :
        LET last == LastInstant(doc[s].expression, key)
        IN  history.anchor[s] < last /\ last <= upto =>
                \E i \in DOMAIN fires[s] : /\ fires[s][i].at > history.anchor[s]
                                           /\ SettledBy(fires[s][i], doc[s].expression, key)

AuditInv ==
    LET f == flight["tick"] IN
    f.phase # "none" /\ f.schedule \notin history.misread /\ doc[f.schedule] # Deleted =>
        Covered(f.schedule, f.window.at, f.window.key)

IInv ==
    /\ TypeOK /\ TimeInv /\ TickInv /\ FlightInv /\ PausedInv /\ QuietInv /\ RunsInv
    /\ SkipInv /\ AuditInv /\ AuditIsComplete /\ PausesHold

-----------------------------------------------------------------------------
(* What the actions do, one schedule at a time.                              *)

\* A new record of s: not ahead of its time, and of a run only if one was answered.
NewFire(s, f) ==
    /\ f \in Fires /\ f.at <= now
    /\ f.reason = "dispatched" =>
          \E c \in Callers : /\ flight[c].phase = "answered" /\ flight[c].schedule = s
                             /\ flight[c].answer = "dispatched"
                             /\ f.key = flight[c].window.key /\ f.at = flight[c].window.at

\* The fire logs keep what they have.
FiresGrow ==
    /\ fires' \in [Schedules -> Seq(Fires)]
    /\ \A s \in Schedules :
          /\ Within(fires[s], fires'[s])
          /\ \A i \in DOMAIN fires'[s] : IsIn(fires'[s][i], fires[s]) \/ NewFire(s, fires'[s][i])

LEMMA FiresStay ==
  ASSUME TypeOK, fires' = fires
  PROVE  FiresGrow
<1>1. fires \in [Schedules -> Seq(Fires)]
  BY DEF TypeOK
<1> QED
  BY <1>1 DEF FiresGrow, Within, IsIn

LEMMA OneFireMore ==
  ASSUME TypeOK, NEW s \in Schedules, NEW f, NewFire(s, f), fires' = [fires EXCEPT ![s] = Append(@, f)]
  PROVE  FiresGrow
<1>1. /\ fires \in [Schedules -> Seq(Fires)] /\ fires[s] \in Seq(Fires) /\ f \in Fires
      /\ fires'[s] = Append(fires[s], f) /\ \A u \in Schedules \ {s} : fires'[u] = fires[u]
  BY DEF TypeOK, NewFire
<1>2. /\ fires'[s] \in Seq(Fires) /\ Within(fires[s], fires'[s])
      /\ \A i \in DOMAIN fires'[s] : (i \in DOMAIN fires[s] /\ fires'[s][i] = fires[s][i])
                                     \/ fires'[s][i] = f
  BY <1>1, AppendedTo
<1>3. fires' \in [Schedules -> Seq(Fires)]
  BY <1>1, <1>2
<1>4. \A i \in DOMAIN fires'[s] : IsIn(fires'[s][i], fires[s]) \/ NewFire(s, fires'[s][i])
  BY <1>2 DEF IsIn
<1>5. \A u \in Schedules \ {s} :
          /\ Within(fires[u], fires'[u])
          /\ \A i \in DOMAIN fires'[u] : IsIn(fires'[u][i], fires[u])
  BY <1>1 DEF Within, IsIn
<1> QED
  BY <1>2, <1>3, <1>4, <1>5 DEF FiresGrow

LEMMA MoreFires ==
  ASSUME TypeOK, NEW s \in Schedules, NEW l \in Seq(Fires), \A i \in DOMAIN l : NewFire(s, l[i]),
         fires' = [fires EXCEPT ![s] = @ \o l]
  PROVE  FiresGrow
<1>1. /\ fires \in [Schedules -> Seq(Fires)] /\ fires[s] \in Seq(Fires)
      /\ fires'[s] = fires[s] \o l /\ \A u \in Schedules \ {s} : fires'[u] = fires[u]
  BY DEF TypeOK
<1>2. /\ fires'[s] \in Seq(Fires) /\ Within(fires[s], fires'[s])
      /\ OnlyOf(fires'[s], fires[s], l)
  BY <1>1, JoinedTo
<1>3. fires' \in [Schedules -> Seq(Fires)]
  BY <1>1, <1>2
<1>4. \A i \in DOMAIN fires'[s] : IsIn(fires'[s][i], fires[s]) \/ NewFire(s, fires'[s][i])
  BY <1>2 DEF IsIn, OnlyOf
<1>5. \A u \in Schedules \ {s} :
          /\ Within(fires[u], fires'[u])
          /\ \A i \in DOMAIN fires'[u] : IsIn(fires'[u][i], fires[u])
  BY <1>1 DEF Within, IsIn
<1> QED
  BY <1>2, <1>3, <1>4, <1>5 DEF FiresGrow

LEMMA RecordsAreNew ==
  ASSUME NEW s, NEW d, NEW l, Records(d, l)
  PROVE  l \in Seq(Fires) /\ \A i \in DOMAIN l : NewFire(s, l[i])
<1>1. l \in Seq(Fires)
  BY DEF Records
<1>2. \A i \in DOMAIN l : l[i] \in Fires
  BY <1>1, ElementsOf
<1> QED
  BY <1>1, <1>2 DEF Records, NewFire

LEMMA AnsweredFire ==
  ASSUME TypeOK, FlightInv, NEW c \in Callers, flight[c].phase = "answered"
  PROVE  LET f == Fire(flight[c].window, flight[c].window.at, flight[c].answer) IN
         /\ NewFire(flight[c].schedule, f)
         /\ f.key = flight[c].window.key /\ f.at = flight[c].window.at /\ f.upto = f.at
         /\ f.reason = flight[c].answer
<1>1. /\ flight[c].window.key \in Keys \cup ManualKeys /\ flight[c].window.at \in 0..Horizon
      /\ flight[c].answer \in Reasons /\ flight[c].window.at <= now
  BY StateTypes DEF FlightInv, Reasons
<1> QED
  BY <1>1 DEF Fire, Fires, NewFire

-----------------------------------------------------------------------------
(* Requests that change a document. *)

LEMMA EditedDocuments ==
  ASSUME NEW d \in Documents, NEW at \in 0..Horizon, NEW e \in Expressions
  PROVE  /\ LET n == [d EXCEPT !.enabled = FALSE] IN
            n \in Documents /\ ~n.enabled /\ n.expression = d.expression /\ n.cursor = d.cursor
            /\ n.last = d.last
         /\ LET n == [d EXCEPT !.enabled = TRUE, !.cursor = at] IN
            n \in Documents /\ n.expression = d.expression /\ n.cursor = at
            /\ n.last = d.last
         /\ LET n == [d EXCEPT !.expression = e, !.cursor = at] IN
            n \in Documents /\ n.enabled = d.enabled /\ n.cursor = at /\ n.last = d.last
BY DEF Documents

LEMMA OtherDocs ==
  ASSUME TypeOK, NEW s \in Schedules, NEW d \in Docs, doc' = [doc EXCEPT ![s] = d]
  PROVE  doc' \in [Schedules -> Docs] /\ doc'[s] = d /\ \A u \in Schedules \ {s} : doc'[u] = doc[u]
BY DEF TypeOK

LEMMA PausedDoc ==
  ASSUME TypeOK, NEW s \in Schedules, Pause(s) \/ StopEverything(s)
  PROVE  /\ doc' \in [Schedules -> Docs] /\ doc[s] # Deleted /\ ~doc'[s].enabled
         /\ doc'[s].expression = doc[s].expression /\ doc'[s].cursor = doc[s].cursor
         /\ doc'[s].last = doc[s].last /\ \A u \in Schedules \ {s} : doc'[u] = doc[u]
<1>1. doc[s] # Deleted /\ doc[s] \in Documents
  BY StateTypes DEF Pause, StopEverything, Request
<1> DEFINE n == [doc[s] EXCEPT !.enabled = FALSE]
<1>2. doc' = [doc EXCEPT ![s] = n]
  BY DEF Pause, StopEverything
<1>3. n \in Documents /\ ~n.enabled /\ n.expression = doc[s].expression /\ n.cursor = doc[s].cursor
      /\ n.last = doc[s].last
  BY <1>1 DEF Documents
<1> HIDE DEF n
<1> QED
  BY <1>1, <1>2, <1>3, OtherDocs DEF Docs

LEMMA ResumedDoc ==
  ASSUME TypeOK, NEW s \in Schedules, Resume(s)
  PROVE  /\ doc' \in [Schedules -> Docs] /\ doc[s] # Deleted
         /\ doc'[s].expression = doc[s].expression /\ doc'[s].cursor = now
         /\ doc'[s].last = doc[s].last /\ \A u \in Schedules \ {s} : doc'[u] = doc[u]
<1>1. doc[s] # Deleted /\ doc[s] \in Documents /\ now \in 0..Horizon
  BY StateTypes DEF Resume, Request
<1> DEFINE n == [doc[s] EXCEPT !.enabled = TRUE, !.cursor = now]
<1>2. doc' = [doc EXCEPT ![s] = n]
  BY DEF Resume
<1>3. n \in Documents /\ n.expression = doc[s].expression /\ n.cursor = now /\ n.last = doc[s].last
  BY <1>1 DEF Documents
<1> HIDE DEF n
<1> QED
  BY <1>1, <1>2, <1>3, OtherDocs DEF Docs

LEMMA EditedDoc ==
  ASSUME TypeOK, NEW s \in Schedules, NEW e \in Expressions, Edit(s, e)
  PROVE  /\ doc' \in [Schedules -> Docs] /\ doc[s] # Deleted
         /\ doc'[s].enabled = doc[s].enabled /\ doc'[s].cursor = now
         /\ doc'[s].last = doc[s].last /\ \A u \in Schedules \ {s} : doc'[u] = doc[u]
<1>1. doc[s] # Deleted /\ doc[s] \in Documents /\ now \in 0..Horizon
  BY StateTypes DEF Edit, Request
<1> DEFINE n == [doc[s] EXCEPT !.expression = e, !.cursor = now]
<1>2. doc' = [doc EXCEPT ![s] = n]
  BY DEF Edit
<1>3. n \in Documents /\ n.enabled = doc[s].enabled /\ n.cursor = now /\ n.last = doc[s].last
  BY <1>1 DEF Documents
<1> HIDE DEF n
<1> QED
  BY <1>1, <1>2, <1>3, OtherDocs DEF Docs

LEMMA DeletedDoc ==
  ASSUME TypeOK, NEW s \in Schedules, Delete(s)
  PROVE  /\ doc' \in [Schedules -> Docs] /\ doc'[s] = Deleted /\ doc[s] # Deleted
         /\ \A u \in Schedules \ {s} : doc'[u] = doc[u]
BY OtherDocs DEF Delete, Docs, Request

-----------------------------------------------------------------------------
(* Dispatches. *)

Bounds == {b \in [requests : 0..MaxRequests, mishaps : 0..MaxMishaps, deaths : 0..MaxMishaps] :
              b.deaths <= b.mishaps}

Posts(c) ==
    /\ flight[c].phase = "asked"
    /\ flight' \in [Callers -> FlightRecords]
    /\ flight'[c].phase = "answered" /\ flight'[c].answer \in {"dispatched", "refused"}
    /\ flight'[c].schedule = flight[c].schedule /\ flight'[c].window = flight[c].window
    /\ \A u \in Callers \ {c} : flight'[u] = flight[u]
    /\ started \subseteq started' /\ started' \subseteq started \cup {RunOf(c)}
    /\ going \subseteq going' /\ going' \subseteq going \cup {RunOf(c)} /\ going' \subseteq started'
    /\ RunOf(c) \in started => going' = going
    /\ flight'[c].answer = "dispatched" => RunOf(c) \in started'
    /\ bounds' \in Bounds
    /\ bounds'.deaths = bounds.deaths
    /\ UNCHANGED <<now, doc, fires, process, tick, stopper, history>>

LEMMA PostIs ==
  ASSUME TypeOK, NEW c \in Callers, Post(c)
  PROVE  Posts(c)
<1>1. /\ flight \in [Callers -> FlightRecords] /\ flight[c] \in FlightRecords
      /\ going \subseteq started /\ bounds \in Bounds
  BY StateTypes DEF TypeOK, FlightRecords, Bounds
<1>2. flight[c].phase = "asked" /\ UNCHANGED <<now, doc, fires, process, tick, stopper, history>>
  BY DEF Post
<1>3. ASSUME NEW a \in {"dispatched", "refused"}, Answered(c, a)
      PROVE  /\ flight' \in [Callers -> FlightRecords]
             /\ flight'[c].phase = "answered" /\ flight'[c].answer = a
             /\ flight'[c].schedule = flight[c].schedule /\ flight'[c].window = flight[c].window
             /\ \A u \in Callers \ {c} : flight'[u] = flight[u]
  <2> DEFINE n == [flight[c] EXCEPT !.phase = "answered", !.answer = a]
  <2>1. flight' = [flight EXCEPT ![c] = n]
    BY <1>3 DEF Answered
  <2>2. /\ n \in FlightRecords /\ n.phase = "answered" /\ n.answer = a
        /\ n.schedule = flight[c].schedule /\ n.window = flight[c].window
    BY <1>1 DEF FlightRecords
  <2> HIDE DEF n
  <2> QED
    BY <1>1, <2>1, <2>2
<1>4. ASSUME Refused(c)
      PROVE  Answered(c, "refused") /\ bounds' \in Bounds /\ bounds'.deaths = bounds.deaths
  <2>1. /\ bounds.mishaps < MaxMishaps /\ bounds.mishaps \in 0..MaxMishaps /\ MaxMishaps \in Nat
        /\ bounds.deaths \in 0..MaxMishaps /\ bounds.deaths <= bounds.mishaps
    BY <1>1, <1>4, ConstantTypes DEF Refused, Bounds
  <2>2. bounds' = [bounds EXCEPT !.mishaps = @ + 1] /\ Answered(c, "refused")
    BY <1>4 DEF Refused
  <2>3. bounds.mishaps + 1 \in 0..MaxMishaps /\ bounds.deaths <= bounds.mishaps + 1
    BY <2>1
  <2> QED
    BY <1>1, <2>2, <2>3 DEF Bounds
<1>5. \/ /\ started' = started \cup {RunOf(c)}
         /\ going' = IF RunOf(c) \in started THEN going ELSE going \cup {RunOf(c)}
         /\ \/ Answered(c, "dispatched") /\ bounds' = bounds
            \/ Refused(c)
      \/ Refused(c) /\ started' = started /\ going' = going
  BY DEF Post, RunOf
<1>6. \/ Answered(c, "dispatched") /\ bounds' = bounds /\ RunOf(c) \in started'
      \/ Answered(c, "refused") /\ bounds' \in Bounds /\ bounds'.deaths = bounds.deaths
  BY <1>4, <1>5
<1>7. /\ started \subseteq started' /\ started' \subseteq started \cup {RunOf(c)}
      /\ going \subseteq going' /\ going' \subseteq going \cup {RunOf(c)} /\ going' \subseteq started'
      /\ RunOf(c) \in started => going' = going
  BY <1>1, <1>5
<1>8. CASE Answered(c, "dispatched") /\ bounds' = bounds /\ RunOf(c) \in started'
  BY <1>1, <1>2, <1>3, <1>7, <1>8 DEF Posts
<1>9. CASE Answered(c, "refused") /\ bounds' \in Bounds /\ bounds'.deaths = bounds.deaths
  BY <1>1, <1>2, <1>3, <1>7, <1>9 DEF Posts
<1> QED
  BY <1>6, <1>8, <1>9

Settles(c, s, w, a) ==
    /\ s = flight[c].schedule /\ w = flight[c].window /\ a = flight[c].answer
    /\ flight[c].phase = "answered" /\ a \in {"dispatched", "refused"}
    /\ flight' \in [Callers -> FlightRecords]
    /\ flight'[c] = Landed /\ \A u \in Callers \ {c} : flight'[u] = flight[u]
    /\ FiresGrow /\ fires' = [fires EXCEPT ![s] = Append(@, Fire(w, w.at, a))]
    /\ \E f \in Fires : /\ f.key = w.key /\ f.at = w.at /\ f.upto = w.at /\ f.reason = a
                        /\ IsIn(f, fires'[s])
    /\ doc' \in [Schedules -> Docs] /\ \A u \in Schedules \ {s} : doc'[u] = doc[u]
    /\ doc'[s].enabled = doc[s].enabled /\ doc'[s].expression = doc[s].expression
    /\ doc[s] = Deleted => doc'[s] = Deleted
    /\ doc[s] # Deleted => /\ doc'[s].cursor = IF c = "manual" THEN doc[s].cursor
                                               ELSE Max2(doc[s].cursor, w.at)
                           /\ doc'[s].last = IF a = "dispatched" THEN w.key ELSE doc[s].last
    /\ tick' \in [active : BOOLEAN, queue : Seq(QueueEntries), budget : 0..MaxFires]
    /\ tick'.queue = tick.queue /\ (c = "manual" => tick' = tick)
    /\ c = "tick" /\ ~tick'.active => tick' = NoTick
    /\ UNCHANGED <<now, started, going, process, stopper, bounds, history>>

LEMMA LandedIs == Landed \in FlightRecords /\ Landed.phase = "none" /\ Landed.answer = "none"
                  /\ Landed.window.at = 0
BY ConstantTypes DEF Landed, Awaiting, FlightRecords, NoWindow

LEMMA SettleIs ==
  ASSUME TypeOK, FlightInv, NEW c \in Callers, Settle(c)
  PROVE  Settles(c, flight[c].schedule, flight[c].window, flight[c].answer)
<1> DEFINE s == flight[c].schedule
           w == flight[c].window
           a == flight[c].answer
           f == Fire(w, w.at, a)
<1>1. /\ flight[c].phase = "answered" /\ a \in {"dispatched", "refused"} /\ s \in Schedules
      /\ w.at \in 0..Horizon /\ w.key \in Keys \cup ManualKeys /\ a \in Reasons /\ a \notin Deferring
      /\ flight \in [Callers -> FlightRecords]
  BY StateTypes DEF Settle, FlightInv, Reasons, Deferring, TypeOK, FlightRecords
<1>2. /\ fires' = [fires EXCEPT ![s] = Append(@, f)]
      /\ doc' = [doc EXCEPT ![s] = DocAfter(c, s, w, w.at, a)]
      /\ flight' = [flight EXCEPT ![c] = Landed]
      /\ tick' = IF c = "manual" THEN tick
                 ELSE TickAfter(tick.queue, tick.budget - IF a = "dispatched" THEN 1 ELSE 0)
      /\ UNCHANGED <<now, started, going, process, stopper, bounds, history>>
  BY DEF Settle
<1>3. NewFire(s, f) /\ f.key = w.key /\ f.at = w.at /\ f.upto = w.at /\ f.reason = a
  BY <1>1, AnsweredFire
<1>4. f \in Fires
  BY <1>3 DEF NewFire
<1>5. FiresGrow
  <2> HIDE DEF f, s
  <2> QED
    BY <1>1, <1>2, <1>3, OneFireMore
<1>6. IsIn(f, fires'[s])
  <2> HIDE DEF f, s
  <2>1. fires[s] \in Seq(Fires) /\ fires'[s] = Append(fires[s], f)
    BY <1>1, <1>2 DEF TypeOK
  <2> QED
    BY <1>4, <2>1, AppendedTo
<1>7. flight' \in [Callers -> FlightRecords] /\ flight'[c] = Landed
      /\ \A u \in Callers \ {c} : flight'[u] = flight[u]
  BY <1>1, <1>2, LandedIs
<1> DEFINE n == DocAfter(c, s, w, w.at, a)
<1>8. /\ n \in Docs /\ n.enabled = doc[s].enabled /\ n.expression = doc[s].expression
      /\ doc[s] = Deleted => n = Deleted
      /\ doc[s] # Deleted =>
           /\ n.cursor = IF c = "manual" \/ a \in Deferring THEN doc[s].cursor
                         ELSE Max2(doc[s].cursor, CursorAfter(w, w.at, a))
           /\ n.last = IF a = "dispatched" THEN w.key ELSE doc[s].last
  <2> HIDE DEF s, w, a
  <2> QED
    BY <1>1, DocAfterIs
<1>9. CursorAfter(w, w.at, a) = w.at
  BY <1>1 DEF CursorAfter
<1>10. doc' \in [Schedules -> Docs] /\ doc'[s] = n /\ \A u \in Schedules \ {s} : doc'[u] = doc[u]
  <2> HIDE DEF n, s
  <2> QED
    BY <1>1, <1>2, <1>8, OtherDocs DEF n
<1>11. /\ tick' \in [active : BOOLEAN, queue : Seq(QueueEntries), budget : 0..MaxFires]
       /\ tick'.queue = tick.queue /\ (c = "manual" => tick' = tick)
       /\ c = "tick" /\ ~tick'.active => tick' = NoTick
  <2>1. CASE c = "manual"
    BY <1>2, <2>1 DEF TypeOK, QueueEntries
  <2>2. CASE c = "tick"
    <3> DEFINE b == tick.budget - IF a = "dispatched" THEN 1 ELSE 0
    <3>1. tick.queue \in Seq(QueueEntries) /\ tick.budget \in 0..MaxFires /\ tick.budget > 0
      BY <1>1, <2>2, StateTypes DEF FlightInv
    <3>2. b \in 0..MaxFires
      BY <3>1, ConstantTypes
    <3>3. tick' = TickAfter(tick.queue, b)
      BY <1>2, <2>2
    <3> HIDE DEF b
    <3> QED
      BY <2>2, <3>1, <3>2, <3>3, TickAfterIs
  <2> QED
    BY <2>1, <2>2 DEF Callers
<1> HIDE DEF n
<1>12. doc[s] # Deleted => /\ doc'[s].cursor = IF c = "manual" THEN doc[s].cursor
                                               ELSE Max2(doc[s].cursor, w.at)
                           /\ doc'[s].last = IF a = "dispatched" THEN w.key ELSE doc[s].last
  BY <1>1, <1>8, <1>9, <1>10
<1> HIDE DEF f
<1> QED
  BY <1>1, <1>2, <1>3, <1>4, <1>5, <1>6, <1>7, <1>8, <1>10, <1>11, <1>12 DEF Settles, f

-----------------------------------------------------------------------------
(* The evaluation of the next schedule. *)

Evaluates(s, d, v) ==
    /\ tick.active /\ flight["tick"] = Landed
    /\ s \in Schedules /\ 1 \in DOMAIN tick.queue /\ tick.queue[1].schedule = s
    /\ tick.queue[1].doc = d
    /\ Readable(d) /\ Sound(s, d, v) /\ Complete(d, v)
    /\ tick' \in [active : BOOLEAN, queue : Seq(QueueEntries), budget : 0..MaxFires]
    /\ (~tick'.active => tick' = NoTick)
    /\ \A i \in DOMAIN tick'.queue : i + 1 \in DOMAIN tick.queue
                                     /\ tick'.queue[i] = tick.queue[i + 1] /\ i + 1 # 1
    /\ v.decision = "ask" => tick'.active /\ tick'.budget = tick.budget
    /\ FiresGrow /\ \A i \in DOMAIN v.records : IsIn(v.records[i], fires'[s])
    /\ \A u \in Schedules : {fires'[u][i].key : i \in {j \in DOMAIN fires'[u] : fires'[u][j].reason = "dispatched"}}
                            = Recorded(u)
    /\ doc' \in [Schedules -> Docs] /\ \A u \in Schedules \ {s} : doc'[u] = doc[u]
    /\ doc'[s].enabled = doc[s].enabled /\ doc'[s].expression = doc[s].expression
    /\ doc[s] = Deleted => doc'[s] = Deleted
    /\ doc[s] # Deleted => /\ doc'[s].cursor = IF v.decision \in {"none", "ask"} \cup Deferring
                                               THEN doc[s].cursor
                                               ELSE Max2(doc[s].cursor, CursorAfter(v.window, v.upto, v.decision))
                           /\ doc'[s].last = doc[s].last
    /\ flight' \in [Callers -> FlightRecords] /\ flight'["manual"] = flight["manual"]
    /\ flight'["tick"] = IF v.decision = "ask" THEN Awaiting("asked", s, v.window, "none")
                         ELSE flight["tick"]
    /\ history'.anchor = history.anchor /\ history'.paused = history.paused
    /\ history'.quiet = history.quiet
    /\ history'.misread = IF v.decision # "none" /\ Outdated(s, d) THEN history.misread \cup {s}
                          ELSE history.misread
    /\ history' \in [anchor : [Schedules -> 0..Horizon], paused : [Schedules -> SUBSET (0..Horizon)],
                     misread : SUBSET Schedules, quiet : SUBSET Schedules]
    /\ UNCHANGED <<now, started, going, process, stopper, bounds>>

LEMMA AskedIs ==
  ASSUME NEW s \in Schedules, NEW w, w.key \in {NoKey} \cup Keys \cup ManualKeys, w.at \in 0..Horizon,
         w = [key |-> w.key, at |-> w.at]
  PROVE  LET f == Awaiting("asked", s, w, "none") IN
         /\ f \in FlightRecords /\ f.phase = "asked" /\ f.schedule = s /\ f.window = w
         /\ f.answer = "none"
<1>1. w \in [key : {NoKey} \cup Keys \cup ManualKeys, at : 0..Horizon]
  OBVIOUS
<1> QED
  BY <1>1 DEF Awaiting, FlightRecords

LEMMA ReadableHead ==
  ASSUME TypeOK, TickInv, tick.queue # <<>>
  PROVE  /\ 1 \in DOMAIN tick.queue /\ Head(tick.queue) = tick.queue[1]
         /\ tick.queue[1].schedule \in Schedules /\ Readable(tick.queue[1].doc)
         /\ Tail(tick.queue) \in Seq(QueueEntries)
         /\ \A i \in DOMAIN Tail(tick.queue) :
               i + 1 \in DOMAIN tick.queue /\ Tail(tick.queue)[i] = tick.queue[i + 1] /\ i + 1 # 1
<1>1. tick.queue \in Seq(QueueEntries) /\ now \in 0..Horizon
  BY StateTypes
<1>2. /\ Tail(tick.queue) \in Seq(QueueEntries) /\ Head(tick.queue) = tick.queue[1]
      /\ 1 \in DOMAIN tick.queue /\ tick.queue[1] \in QueueEntries
      /\ \A i \in DOMAIN Tail(tick.queue) :
            i + 1 \in DOMAIN tick.queue /\ Tail(tick.queue)[i] = tick.queue[i + 1] /\ i + 1 # 1
  BY <1>1, TailOf, Zenon
<1> QED
  BY <1>1, <1>2 DEF TickInv, Readable, QueueEntries

LEMMA EvaluateIs ==
  ASSUME TypeOK, TickInv, Evaluate
  PROVE  \E s, d, v : Evaluates(s, d, v)
<1> DEFINE s == Head(tick.queue).schedule
           d == Head(tick.queue).doc
           v == Evaluation(s, d)
<1>1. /\ tick.active /\ flight["tick"] = Landed /\ tick.queue # <<>>
      /\ tick' = IF v.decision = "ask" THEN [tick EXCEPT !.queue = Tail(@)]
                 ELSE TickAfter(Tail(tick.queue), tick.budget)
      /\ fires' = [fires EXCEPT ![s] = @ \o v.records]
      /\ doc' = IF v.decision \in {"none", "ask"} THEN doc
                ELSE [doc EXCEPT ![s] = DocAfter("tick", s, v.window, v.upto, v.decision)]
      /\ flight' = IF v.decision = "ask"
                   THEN [flight EXCEPT !["tick"] = Awaiting("asked", s, v.window, "none")]
                   ELSE flight
      /\ history' = IF v.decision # "none" /\ Outdated(s, d)
                    THEN [history EXCEPT !.misread = @ \cup {s}] ELSE history
      /\ UNCHANGED <<now, started, going, process, stopper, bounds>>
  BY DEF Evaluate, Evaluable
<1>2. /\ 1 \in DOMAIN tick.queue /\ tick.queue[1].schedule = s /\ tick.queue[1].doc = d
      /\ s \in Schedules /\ Readable(d) /\ Tail(tick.queue) \in Seq(QueueEntries)
      /\ \A i \in DOMAIN Tail(tick.queue) :
            i + 1 \in DOMAIN tick.queue /\ Tail(tick.queue)[i] = tick.queue[i + 1] /\ i + 1 # 1
  BY <1>1, ReadableHead
<1> HIDE DEF s, d
<1>3. Sound(s, d, v) /\ Complete(d, v)
  BY <1>2, EvaluationIsSound
<1> HIDE DEF v
<1>4. /\ tick' \in [active : BOOLEAN, queue : Seq(QueueEntries), budget : 0..MaxFires]
      /\ tick'.queue = Tail(tick.queue) /\ (~tick'.active => tick' = NoTick)
      /\ v.decision = "ask" => tick'.active /\ tick'.budget = tick.budget
  <2>1. tick \in [active : BOOLEAN, queue : Seq(QueueEntries), budget : 0..MaxFires]
    BY DEF TypeOK, QueueEntries
  <2>2. CASE v.decision = "ask"
    <3> DEFINE rest == Tail(tick.queue)
    <3>1. tick' = [tick EXCEPT !.queue = rest] /\ rest \in Seq(QueueEntries)
      BY <1>1, <1>2, <2>2
    <3> HIDE DEF rest
    <3>2. /\ tick' \in [active : BOOLEAN, queue : Seq(QueueEntries), budget : 0..MaxFires]
          /\ tick'.queue = rest /\ tick'.active = tick.active /\ tick'.budget = tick.budget
      BY <2>1, <3>1
    <3> QED
      BY <1>1, <3>2 DEF rest
  <2>3. CASE v.decision # "ask"
    <3> DEFINE rest == Tail(tick.queue)
    <3>1. tick' = TickAfter(rest, tick.budget) /\ rest \in Seq(QueueEntries)
          /\ tick.budget \in 0..MaxFires
      BY <1>1, <1>2, <2>1, <2>3
    <3> DEFINE b == tick.budget
               t == TickAfter(rest, b)
    <3> HIDE DEF rest, b
    <3>2. /\ t \in [active : BOOLEAN, queue : Seq(QueueEntries), budget : 0..MaxFires]
          /\ t.queue = rest /\ (~t.active => t = NoTick)
      BY <3>1, TickAfterIs DEF b
    <3>3. tick' = t
      BY <3>1 DEF b
    <3> QED
      BY <2>3, <3>2, <3>3 DEF rest
  <2> QED
    BY <2>2, <2>3
<1>5. \A i \in DOMAIN tick'.queue : i + 1 \in DOMAIN tick.queue
                                    /\ tick'.queue[i] = tick.queue[i + 1] /\ i + 1 # 1
  BY <1>2, <1>4
<1>6. v.records \in Seq(Fires) /\ \A i \in DOMAIN v.records : NewFire(s, v.records[i])
  BY <1>3, RecordsAreNew DEF Sound
<1>7. FiresGrow
  BY <1>1, <1>2, <1>6, MoreFires
<1>8. /\ \A u \in Schedules : fires[u] \in Seq(Fires)
      /\ fires'[s] = fires[s] \o v.records /\ \A u \in Schedules \ {s} : fires'[u] = fires[u]
  BY <1>1, <1>2 DEF TypeOK
<1>9. /\ Within(fires[s], fires'[s]) /\ Within(v.records, fires'[s])
      /\ OnlyOf(fires'[s], fires[s], v.records)
  BY <1>2, <1>6, <1>8, JoinedTo
<1>10. \A i \in DOMAIN v.records : IsIn(v.records[i], fires'[s])
  BY <1>9 DEF Within, IsIn
<1>11. ASSUME NEW u \in Schedules
       PROVE  {fires'[u][i].key : i \in {j \in DOMAIN fires'[u] : fires'[u][j].reason = "dispatched"}}
              = Recorded(u)
  <2>1. CASE u # s
    BY <1>8, <2>1 DEF Recorded
  <2>2. CASE u = s
    <3>1. \A j \in DOMAIN v.records : v.records[j].reason # "dispatched"
      BY <1>3 DEF Sound, Records
    <3>2. \A i \in DOMAIN fires'[s] : fires'[s][i].reason = "dispatched" =>
             \E j \in DOMAIN fires[s] : fires'[s][i] = fires[s][j]
      BY <1>9, <3>1 DEF OnlyOf, IsIn
    <3>3. \A j \in DOMAIN fires[s] : \E i \in DOMAIN fires'[s] : fires'[s][i] = fires[s][j]
      BY <1>9 DEF Within
    <3> QED
      BY <2>2, <3>2, <3>3 DEF Recorded
  <2> QED
    BY <2>1, <2>2
<1>12. v.decision # "none" =>
         /\ v.window \in Windows(d.expression) /\ v.window.at \in 0..Horizon /\ v.upto \in 0..Horizon
         /\ v.window.key \in {NoKey} \cup Keys \cup ManualKeys
         /\ v.window = [key |-> v.window.key, at |-> v.window.at]
  BY <1>2, <1>3, ReadableTypes, WindowShape, ConstantTypes DEF Sound, Leads
<1>13. /\ doc' \in [Schedules -> Docs] /\ \A u \in Schedules \ {s} : doc'[u] = doc[u]
       /\ doc'[s].enabled = doc[s].enabled /\ doc'[s].expression = doc[s].expression
       /\ doc[s] = Deleted => doc'[s] = Deleted
       /\ doc[s] # Deleted => /\ doc'[s].cursor = IF v.decision \in {"none", "ask"} \cup Deferring
                                                  THEN doc[s].cursor
                                                  ELSE Max2(doc[s].cursor, CursorAfter(v.window, v.upto, v.decision))
                              /\ doc'[s].last = doc[s].last
  <2>1. CASE v.decision \in {"none", "ask"}
    <3>1. doc' = doc
      BY <1>1, <2>1
    <3> QED
      BY <2>1, <3>1 DEF TypeOK
  <2>2. CASE v.decision \notin {"none", "ask"}
    <3> DEFINE n == DocAfter("tick", s, v.window, v.upto, v.decision)
    <3>1. v.decision \in Reasons /\ v.decision # "dispatched"
      BY <1>3, <2>2 DEF Sound
    <3>2. /\ n \in Docs /\ n.enabled = doc[s].enabled /\ n.expression = doc[s].expression
          /\ doc[s] = Deleted => n = Deleted
          /\ doc[s] # Deleted =>
               /\ n.cursor = IF "tick" = "manual" \/ v.decision \in Deferring THEN doc[s].cursor
                             ELSE Max2(doc[s].cursor, CursorAfter(v.window, v.upto, v.decision))
               /\ n.last = IF v.decision = "dispatched" THEN v.window.key ELSE doc[s].last
      BY <1>2, <1>12, <2>2, <3>1, DocAfterIs DEF Callers
    <3>3. doc' = [doc EXCEPT ![s] = n]
      BY <1>1, <2>2
    <3> HIDE DEF n
    <3>4. doc' \in [Schedules -> Docs] /\ doc'[s] = n /\ \A u \in Schedules \ {s} : doc'[u] = doc[u]
      BY <1>2, <3>2, <3>3, OtherDocs
    <3> QED
      BY <2>2, <3>1, <3>2, <3>4
  <2> QED
    BY <2>1, <2>2
<1>14. /\ flight' \in [Callers -> FlightRecords] /\ flight'["manual"] = flight["manual"]
       /\ flight'["tick"] = IF v.decision = "ask" THEN Awaiting("asked", s, v.window, "none")
                            ELSE flight["tick"]
  <2>1. flight \in [Callers -> FlightRecords] /\ "tick" \in Callers /\ "manual" \in Callers
    BY DEF TypeOK, FlightRecords, Callers
  <2>2. CASE v.decision = "ask"
    <3> DEFINE f == Awaiting("asked", s, v.window, "none")
    <3>1. f \in FlightRecords
      BY <1>2, <1>12, <2>2, AskedIs
    <3>2. flight' = [flight EXCEPT !["tick"] = f]
      BY <1>1, <2>2
    <3> HIDE DEF f
    <3>3. flight' \in [Callers -> FlightRecords] /\ flight'["manual"] = flight["manual"]
          /\ flight'["tick"] = f
      BY <2>1, <3>1, <3>2
    <3> QED
      BY <2>2, <3>3 DEF f
  <2>3. CASE v.decision # "ask"
    BY <1>1, <2>1, <2>3
  <2> QED
    BY <2>2, <2>3
<1>15. /\ history'.anchor = history.anchor /\ history'.paused = history.paused
       /\ history'.quiet = history.quiet
       /\ history'.misread = IF v.decision # "none" /\ Outdated(s, d) THEN history.misread \cup {s}
                             ELSE history.misread
       /\ history' \in [anchor : [Schedules -> 0..Horizon], paused : [Schedules -> SUBSET (0..Horizon)],
                        misread : SUBSET Schedules, quiet : SUBSET Schedules]
  BY <1>1, <1>2 DEF TypeOK
<1> HIDE DEF Outdated
<1>16. Evaluates(s, d, v)
  BY <1>1, <1>2, <1>3, <1>4, <1>5, <1>7, <1>10, <1>11, <1>13, <1>14, <1>15 DEF Evaluates
<1> QED
  BY <1>16

-----------------------------------------------------------------------------
(* The types. *)

Histories == [anchor : [Schedules -> 0..Horizon], paused : [Schedules -> SUBSET (0..Horizon)],
              misread : SUBSET Schedules, quiet : SUBSET Schedules]
Ticks == [active : BOOLEAN, queue : Seq(QueueEntries), budget : 0..MaxFires]

LEMMA Requested ==
  ASSUME TypeOK, NEW s \in Schedules, Request(s)
  PROVE  /\ bounds' \in Bounds /\ bounds'.deaths = bounds.deaths /\ process # "down"
         /\ doc[s] # Deleted /\ doc[s] \in Documents
<1>1. bounds.requests < MaxRequests /\ bounds.requests \in 0..MaxRequests /\ MaxRequests \in Nat
  BY ConstantTypes DEF Request, TypeOK
<1>2. bounds.requests + 1 \in 0..MaxRequests
  BY <1>1
<1> QED
  BY <1>2, StateTypes DEF Request, TypeOK, Bounds

LEMMA Forgotten ==
  ASSUME TypeOK, Forget
  PROVE  /\ tick' = NoTick /\ tick' \in Ticks /\ flight' \in [Callers -> FlightRecords]
         /\ \A c \in Callers : flight'[c] = Landed
         /\ stopper' = NoStop /\ process' = "down" /\ history' \in Histories
         /\ history'.anchor = history.anchor /\ history'.paused = history.paused
         /\ history'.misread = history.misread
         /\ history'.quiet = IF stopper.active THEN history.quiet \ {stopper.schedule}
                             ELSE history.quiet
<1>1. NoTick \in Ticks
  <2>1. <<>> \in Seq(QueueEntries) /\ 0 \in 0..MaxFires
    BY ConstantTypes
  <2> QED
    BY <2>1 DEF NoTick, Ticks
<1>2. flight' = [c \in Callers |-> Landed] /\ tick' = NoTick /\ stopper' = NoStop /\ process' = "down"
  BY DEF Forget
<1>3. /\ history' \in Histories
      /\ history'.anchor = history.anchor /\ history'.paused = history.paused
      /\ history'.misread = history.misread
      /\ history'.quiet = IF stopper.active THEN history.quiet \ {stopper.schedule}
                          ELSE history.quiet
  BY DEF Forget, TypeOK, Histories
<1> QED
  BY <1>1, <1>2, <1>3, LandedIs

LEMMA DieIs ==
  ASSUME TypeOK, TickInv, FlightInv, Die
  PROVE  /\ FiresGrow /\ bounds' \in Bounds /\ bounds'.deaths # 0 /\ Forget
         /\ now' = now /\ doc' = doc /\ started' = started /\ going' = going
<1>1. Forget /\ UNCHANGED <<now, doc, started, going>> /\ bounds.mishaps < MaxMishaps
      /\ bounds' = [bounds EXCEPT !.mishaps = @ + 1, !.deaths = @ + 1]
  BY DEF Die
<1>2. /\ bounds \in Bounds /\ bounds.mishaps \in 0..MaxMishaps /\ bounds.deaths \in 0..MaxMishaps
      /\ bounds.deaths <= bounds.mishaps
  BY DEF TypeOK, Bounds
<1>3. bounds' \in Bounds /\ bounds'.deaths # 0
  <2>1. bounds.mishaps + 1 \in 0..MaxMishaps /\ bounds.deaths + 1 \in 0..MaxMishaps
        /\ bounds.deaths + 1 # 0 /\ bounds.deaths + 1 <= bounds.mishaps + 1
    BY <1>1, <1>2, ConstantTypes
  <2> QED
    BY <1>1, <1>2, <2>1 DEF Bounds
<1>4. ASSUME fires' = fires PROVE FiresGrow
  BY <1>4, FiresStay
<1>5. ASSUME Evaluable, LET s == Head(tick.queue).schedule
                            v == Evaluation(s, Head(tick.queue).doc)
                        IN  \E n \in DOMAIN v.records :
                               fires' = [fires EXCEPT ![s] = @ \o SubSeq(v.records, 1, n)]
      PROVE  FiresGrow
  <2> DEFINE s == Head(tick.queue).schedule
             d == Head(tick.queue).doc
             v == Evaluation(s, d)
  <2>1. PICK n \in DOMAIN v.records : fires' = [fires EXCEPT ![s] = @ \o SubSeq(v.records, 1, n)]
    BY <1>5
  <2>2. s \in Schedules /\ Readable(d)
    BY <1>5, ReadableHead DEF Evaluable
  <2> HIDE DEF s, d
  <2>3. Records(d, v.records)
    BY <2>2, EvaluationIsSound DEF Sound
  <2> DEFINE l == v.records
             b == SubSeq(l, 1, n)
  <2>4. l \in Seq(Fires) /\ \A i \in DOMAIN l : NewFire(s, l[i])
    BY <2>3, RecordsAreNew
  <2>5. b \in Seq(Fires) /\ \A i \in DOMAIN b : \E j \in DOMAIN l : b[i] = l[j]
    <3> HIDE DEF l
    <3>1. n \in DOMAIN l
      BY <2>1 DEF l
    <3> QED
      BY <2>4, <3>1, BeginningOf
  <2>6. \A i \in DOMAIN b : NewFire(s, b[i])
    BY <2>4, <2>5
  <2>7. fires' = [fires EXCEPT ![s] = @ \o b]
    BY <2>1
  <2> HIDE DEF b
  <2> QED
    BY <2>2, <2>5, <2>6, <2>7, MoreFires
<1>6. ASSUME NEW c \in Callers, flight[c].phase = "answered",
             fires' = [fires EXCEPT ![flight[c].schedule] =
                         Append(@, Fire(flight[c].window, flight[c].window.at, flight[c].answer))]
      PROVE  FiresGrow
  <2> DEFINE f == Fire(flight[c].window, flight[c].window.at, flight[c].answer)
             s == flight[c].schedule
  <2>1. NewFire(s, f) /\ s \in Schedules
    BY <1>6, AnsweredFire, StateTypes
  <2>2. fires' = [fires EXCEPT ![s] = Append(@, f)]
    BY <1>6
  <2> HIDE DEF f, s
  <2> QED
    BY <2>1, <2>2, OneFireMore
<1>7. FiresGrow
  BY <1>4, <1>5, <1>6 DEF Die
<1>8. Forget /\ now' = now /\ doc' = doc /\ started' = started /\ going' = going
  BY <1>1
<1> QED
  BY <1>3, <1>7, <1>8

LEMMA RunNowIs ==
  ASSUME TypeOK, NEW s \in Schedules, RunNow(s)
  PROVE  /\ bounds' \in Bounds /\ bounds'.deaths = bounds.deaths /\ process # "down"
         /\ flight["manual"] = Landed /\ FiresGrow
         /\ flight' \in [Callers -> FlightRecords] /\ flight'["tick"] = flight["tick"]
         /\ \/ flight'["manual"] = Awaiting("asked", s, [key |-> ManualKey(now), at |-> now], "none")
               /\ fires' = fires
            \/ flight'["manual"] = Landed
         /\ \A u \in Schedules : {fires'[u][i].key : i \in {j \in DOMAIN fires'[u] : fires'[u][j].reason = "dispatched"}}
                                 = Recorded(u)
         /\ history' \in Histories /\ history'.anchor = history.anchor
         /\ history'.paused = history.paused /\ history'.misread = history.misread
         /\ history'.quiet = history.quiet \ {s}
         /\ UNCHANGED <<now, doc, started, going, process, tick, stopper>>
<1> DEFINE w == [key |-> ManualKey(now), at |-> now]
           f == Fire(w, now, "shutdown")
           a == Awaiting("asked", s, w, "none")
<1>1. /\ Request(s) /\ flight["manual"] = Landed
      /\ \/ flight' = [flight EXCEPT !["manual"] = a] /\ fires' = fires
         \/ fires' = [fires EXCEPT ![s] = Append(@, f)] /\ flight' = flight
      /\ history' = [history EXCEPT !.quiet = @ \ {s}]
      /\ UNCHANGED <<now, doc, started, going, process, tick, stopper>>
  BY DEF RunNow
<1>2. now \in 0..Horizon /\ ManualKey(now) \in ManualKeys /\ now \in Nat
  BY StateTypes, KeyKinds
<1>3. w.key = ManualKey(now) /\ w.at = now
  OBVIOUS
<1>4. f \in Fires /\ f.at = now /\ f.reason = "shutdown"
  BY <1>2 DEF Fire, Fires, Reasons, Deferring
<1>5. NewFire(s, f)
  BY <1>2, <1>4 DEF NewFire
<1>6. a \in FlightRecords
  BY <1>2, AskedIs
<1>7. "tick" \in Callers /\ "manual" \in Callers /\ flight \in [Callers -> FlightRecords]
      /\ "tick" # "manual"
  BY DEF Callers, TypeOK, FlightRecords
<1> HIDE DEF w, f, a
<1>8. /\ history' \in Histories /\ history'.anchor = history.anchor
      /\ history'.paused = history.paused /\ history'.misread = history.misread
      /\ history'.quiet = history.quiet \ {s}
  BY <1>1 DEF TypeOK, Histories
<1>9. CASE flight' = [flight EXCEPT !["manual"] = a] /\ fires' = fires
  <2>1. flight' \in [Callers -> FlightRecords] /\ flight'["tick"] = flight["tick"]
        /\ flight'["manual"] = a
    BY <1>6, <1>7, <1>9
  <2>2. FiresGrow
    BY <1>9, FiresStay
  <2>3. \A u \in Schedules : {fires'[u][i].key : i \in {j \in DOMAIN fires'[u] : fires'[u][j].reason = "dispatched"}}
                             = Recorded(u)
    BY <1>9 DEF Recorded
  <2> QED
    BY <1>1, <1>8, <1>9, <2>1, <2>2, <2>3, Requested DEF a, w
<1>10. CASE fires' = [fires EXCEPT ![s] = Append(@, f)] /\ flight' = flight
  <2>1. FiresGrow
    BY <1>5, <1>10, OneFireMore
  <2>2. fires \in [Schedules -> Seq(Fires)] /\ fires[s] \in Seq(Fires)
        /\ fires'[s] = Append(fires[s], f) /\ \A u \in Schedules \ {s} : fires'[u] = fires[u]
    BY <1>10 DEF TypeOK
  <2>3. /\ Within(fires[s], fires'[s])
        /\ \A i \in DOMAIN fires'[s] : (i \in DOMAIN fires[s] /\ fires'[s][i] = fires[s][i])
                                       \/ fires'[s][i] = f
    BY <1>4, <2>2, AppendedTo
  <2>4. ASSUME NEW u \in Schedules
        PROVE  {fires'[u][i].key : i \in {j \in DOMAIN fires'[u] : fires'[u][j].reason = "dispatched"}}
               = Recorded(u)
    <3>1. CASE u # s
      BY <2>2, <3>1 DEF Recorded
    <3>2. CASE u = s
      <4>1. \A i \in DOMAIN fires'[s] : fires'[s][i].reason = "dispatched" =>
               i \in DOMAIN fires[s] /\ fires'[s][i] = fires[s][i]
        BY <1>4, <2>3
      <4>2. \A j \in DOMAIN fires[s] : \E i \in DOMAIN fires'[s] : fires'[s][i] = fires[s][j]
        BY <2>3 DEF Within
      <4> QED
        BY <3>2, <4>1, <4>2 DEF Recorded
    <3> QED
      BY <3>1, <3>2
  <2> QED
    BY <1>1, <1>7, <1>8, <1>10, <2>1, <2>4, Requested
<1> QED
  BY <1>1, <1>9, <1>10

\* A request to cancel a run of the store is never taken back.
LEMMA AskedStays ==
  ASSUME TypeOK, [Next]_vars
  PROVE  asked \subseteq asked' /\ asked' \subseteq started'
<1>0. asked \subseteq started /\ going \subseteq started
  BY DEF TypeOK
<1>1. ASSUME NEW c \in Callers, Post(c) PROVE asked' = asked /\ started \subseteq started'
  BY <1>1 DEF Post
<1>2. ASSUME NEW r \in stopper.todo, CancelRun(r)
      PROVE  /\ started' = started
             /\ asked' = asked \/ (r \in going /\ asked' = asked \cup {r})
  BY <1>2 DEF CancelRun
<1>3. CASE Requests
  <2>1. asked' = asked /\ started' = started
    BY <1>3 DEF Requests, RunNow, Pause, Resume, Delete, StopEverything, Edit
  <2> QED
    BY <1>0, <2>1
<1>4. CASE \/ StartTick \/ Evaluate \/ (\E c \in Callers : Settle(c)) \/ EndStop \/ Exit \/ Start
           \/ Advance \/ (\E r \in going : RunEnds(r)) \/ Shutdown \/ Die \/ UNCHANGED vars
  <2>1. asked' = asked /\ started' = started
    BY <1>4 DEF StartTick, Evaluate, Settle, EndStop, Exit, Start, Advance, RunEnds, Shutdown, Die, vars
  <2> QED
    BY <1>0, <2>1
<1> QED
  BY <1>0, <1>1, <1>2, <1>3, <1>4 DEF Next, Progress

LEMMA TypesStay ==
  ASSUME IInv, [Next]_vars
  PROVE  TypeOK'
<1>a. TypeOK /\ asked' \subseteq started'
  BY AskedStays DEF IInv
<1>0. /\ TypeOK /\ TimeInv /\ TickInv /\ FlightInv
      /\ bounds \in Bounds /\ history \in Histories /\ tick \in Ticks
      /\ flight \in [Callers -> FlightRecords]
      /\ asked' \subseteq started'
  BY <1>a DEF IInv, TypeOK, Bounds, Histories, Ticks, QueueEntries, FlightRecords
<1> USE DEF Bounds, Histories, Ticks, FlightRecords, QueueEntries
<1>1. CASE StartTick
  <2>1. tick' = TickAfter(Listing, MaxFires) /\ MaxFires \in 0..MaxFires /\ process = "up"
    BY <1>1, ConstantTypes DEF StartTick
  <2>2. tick' \in Ticks
    BY <1>0, <2>1, ListingIs, TickAfterIs
  <2> QED
    BY <1>0, <1>1, <2>1, <2>2 DEF StartTick, TypeOK
<1>2. CASE Evaluate
  <2>1. PICK s, d, v : Evaluates(s, d, v)
    BY <1>0, <1>2, EvaluateIs
  <2>2. tick # NoTick
    BY <2>1 DEF Evaluates, NoTick
  <2> QED
    BY <1>0, <2>1, <2>2 DEF Evaluates, TypeOK, FiresGrow
<1>3. ASSUME NEW c \in Callers, Post(c) PROVE TypeOK'
  <2>1. Posts(c)
    BY <1>0, <1>3, PostIs
  <2>2. RunOf(c) \in Runs
    <3>1. flight[c].window.key \in Keys \cup ManualKeys /\ flight[c].schedule \in Schedules
      BY <1>0, <2>1, StateTypes DEF FlightInv, Posts
    <3> QED
      BY <3>1 DEF RunOf, Runs
  <2>3. process # "down"
    BY <1>0, <2>1, LandedIs DEF Posts, TypeOK
  <2> QED
    BY <1>0, <2>1, <2>2, <2>3 DEF Posts, TypeOK
<1>4. ASSUME NEW c \in Callers, Settle(c) PROVE TypeOK'
  <2>1. Settles(c, flight[c].schedule, flight[c].window, flight[c].answer)
    BY <1>0, <1>4, SettleIs
  <2>2. process # "down"
    BY <1>0, <2>1, LandedIs DEF Settles, TypeOK
  <2> QED
    BY <1>0, <2>1, <2>2 DEF Settles, TypeOK, FiresGrow
<1>5. ASSUME NEW s \in Schedules, RunNow(s) PROVE TypeOK'
  BY <1>0, <1>5, RunNowIs DEF TypeOK, FiresGrow
<1>6. ASSUME NEW s \in Schedules, Pause(s) PROVE TypeOK'
  BY <1>0, <1>6, PausedDoc, Requested DEF Pause, TypeOK
<1>7. ASSUME NEW s \in Schedules, Resume(s) PROVE TypeOK'
  <2>1. history' \in Histories
    BY <1>0, <1>7 DEF Resume, TypeOK
  <2> QED
    BY <1>0, <1>7, <2>1, ResumedDoc, Requested DEF Resume, TypeOK
<1>8. ASSUME NEW s \in Schedules, NEW e \in Expressions, Edit(s, e) PROVE TypeOK'
  <2>1. history' \in Histories
    BY <1>0, <1>8 DEF Edit, TypeOK
  <2> QED
    BY <1>0, <1>8, <2>1, EditedDoc, Requested DEF Edit, TypeOK
<1>9. ASSUME NEW s \in Schedules, Delete(s) PROVE TypeOK'
  BY <1>0, <1>9, DeletedDoc, Requested DEF Delete, TypeOK
<1>10. ASSUME NEW s \in Schedules, StopEverything(s) PROVE TypeOK'
  <2>1. history' \in Histories
    BY <1>0, <1>10 DEF StopEverything, TypeOK
  <2>2. stopper' \in [active : BOOLEAN, schedule : Schedules, todo : SUBSET Runs]
    <3> DEFINE from == Max2(1, Len(fires[s]) - StopScan + 1)
               scanned == {fires[s][i] : i \in from..Len(fires[s])}
               todo == {<<s, f.key>> : f \in {g \in scanned : g.reason = "dispatched"}}
    <3>1. fires[s] \in Seq(Fires) /\ Len(fires[s]) \in Nat /\ StopScan \in Nat
      BY <1>0, StateTypes, ConstantTypes
    <3>2. from \in Nat /\ from >= 1
      BY <3>1 DEF Max2
    <3>3. scanned \subseteq Fires
      <4> HIDE DEF from
      <4>1. \A i \in from..Len(fires[s]) : i \in 1..Len(fires[s])
        BY <3>1, <3>2
      <4> QED
        BY <3>1, <4>1
    <3>4. todo \subseteq Runs
      <4> HIDE DEF scanned
      <4> QED
        BY <3>3 DEF Fires, Runs
    <3>5. stopper' = [active |-> TRUE, schedule |-> s, todo |-> todo]
      BY <1>10 DEF StopEverything
    <3> HIDE DEF todo
    <3> QED
      BY <3>4, <3>5
  <2>3. Request(s) /\ UNCHANGED <<now, fires, started, going, process, tick, flight>>
    BY <1>10 DEF StopEverything
  <2> QED
    BY <1>0, <1>10, <2>1, <2>2, <2>3, PausedDoc, Requested DEF TypeOK
<1>11. CASE Advance
  <2>1. now + 1 \in 0..Horizon /\ now' = now + 1
    BY <1>0, <1>11, StateTypes, ConstantTypes DEF Advance
  <2>2. history' \in Histories
    <3> DEFINE p == [s \in Schedules |-> IF doc[s] # Deleted /\ ~doc[s].enabled
                                         THEN history.paused[s] \cup {now + 1} ELSE history.paused[s]]
    <3>1. p \in [Schedules -> SUBSET (0..Horizon)]
      BY <1>0, <2>1
    <3>2. history' = [history EXCEPT !.paused = p]
      BY <1>11 DEF Advance
    <3> HIDE DEF p
    <3> QED
      BY <1>0, <3>1, <3>2
  <2> QED
    BY <1>0, <1>11, <2>1, <2>2 DEF Advance, TypeOK
<1>12. ASSUME NEW r \in going, RunEnds(r) PROVE TypeOK'
  BY <1>0, <1>12 DEF RunEnds, TypeOK
<1>13. CASE Shutdown
  <2>1. bounds' \in Bounds
    <3>1. bounds.mishaps + 1 \in 0..MaxMishaps /\ bounds.deaths <= bounds.mishaps + 1
      BY <1>0, <1>13, ConstantTypes DEF Shutdown
    <3> QED
      BY <1>0, <1>13, <3>1 DEF Shutdown
  <2> QED
    BY <1>0, <1>13, <2>1 DEF Shutdown, TypeOK
<1>14. ASSUME NEW r \in stopper.todo, CancelRun(r) PROVE TypeOK'
  <2> DEFINE of == r[1]
             left == stopper.todo \ {r}
  <2>0. history' = history \/ history' = [history EXCEPT !.quiet = @ \ {of}]
    BY <1>14 DEF CancelRun
  <2>1. history' \in Histories /\ going' \subseteq going
    <3>1. going' \subseteq going
      BY <1>14 DEF CancelRun
    <3> DEFINE q == history.quiet \ {of}
    <3>2. q \in SUBSET Schedules /\ (history' = history \/ history' = [history EXCEPT !.quiet = q])
      BY <1>0, <2>0
    <3> HIDE DEF q
    <3> QED
      BY <1>0, <3>1, <3>2
  <2>2. stopper' \in [active : BOOLEAN, schedule : Schedules, todo : SUBSET Runs]
        /\ process # "down"
    <3>1. stopper' = [stopper EXCEPT !.todo = left] /\ stopper.todo # {}
      BY <1>14 DEF CancelRun
    <3>2. stopper \in [active : BOOLEAN, schedule : Schedules, todo : SUBSET Runs]
      BY <1>0 DEF TypeOK
    <3>3. left \in SUBSET Runs /\ stopper # NoStop
      BY <3>1, <3>2 DEF NoStop
    <3> HIDE DEF left
    <3>4. process # "down"
      BY <1>0, <3>3 DEF TypeOK
    <3> QED
      BY <3>1, <3>2, <3>3, <3>4
  <2> QED
    BY <1>0, <1>14, <2>1, <2>2 DEF CancelRun, TypeOK
<1>15. CASE EndStop
  <2>1. NoStop \in [active : BOOLEAN, schedule : Schedules, todo : SUBSET Runs]
    BY ConstantTypes DEF NoStop
  <2> QED
    BY <1>0, <1>15, <2>1 DEF EndStop, TypeOK
<1>16. CASE Exit
  <2>1. Forget /\ UNCHANGED <<now, doc, fires, started, going, bounds>>
    BY <1>16 DEF Exit
  <2>2. NoStop \in [active : BOOLEAN, schedule : Schedules, todo : SUBSET Runs]
    BY ConstantTypes DEF NoStop
  <2> QED
    BY <1>0, <2>1, <2>2, Forgotten DEF TypeOK
<1>17. CASE Start
  BY <1>0, <1>17 DEF Start, TypeOK
<1>18. CASE Die
  <2>1. NoStop \in [active : BOOLEAN, schedule : Schedules, todo : SUBSET Runs]
    BY ConstantTypes DEF NoStop
  <2> QED
    BY <1>0, <1>18, <2>1, DieIs, Forgotten DEF TypeOK, FiresGrow
<1>19. CASE UNCHANGED vars
  BY <1>0, <1>19 DEF vars, TypeOK
<1> QED
  BY <1>1, <1>2, <1>3, <1>4, <1>5, <1>6, <1>7, <1>8, <1>9, <1>10, <1>11, <1>12, <1>13, <1>14,
     <1>15, <1>16, <1>17, <1>18, <1>19 DEF Next, Progress, Requests

-----------------------------------------------------------------------------
(* Time. *)

\* The last entry of a tick is settled.
SettlesWindow(s) == flight["tick"].schedule = s /\ Settle("tick")

\* A document is edited, or paused, or its cursor moves on, up to the present.
DocStep(s) ==
    /\ history'.anchor[s] \in {history.anchor[s], now}
    /\ doc'[s] # Deleted =>
          /\ doc[s] # Deleted
          /\ \/ doc'[s].cursor = now /\ history'.anchor[s] = now
             \/ /\ history'.anchor[s] = history.anchor[s] /\ doc'[s].expression = doc[s].expression
                /\ doc'[s].enabled => doc[s].enabled
                /\ doc[s].cursor <= doc'[s].cursor /\ doc'[s].cursor <= now
                /\ doc'[s].cursor # doc[s].cursor => Evaluate \/ SettlesWindow(s)

\* What every step does to time, the fire logs, the pauses and the misread schedules.
Moves ==
    /\ now' \in Nat /\ now <= now' /\ FiresGrow
    /\ history.misread \subseteq history'.misread
    /\ \A s \in Schedules : /\ DocStep(s)
                            /\ history'.paused[s] \subseteq history.paused[s] \cup {now + 1}
                            /\ history'.paused[s] # history.paused[s] =>
                                  now' = now + 1 /\ ~doc'[s].enabled /\ doc[s] # Deleted

LEMMA MoreOf == ASSUME NEW a \in Nat, NEW b \in Nat
                PROVE  a <= Max2(a, b) /\ Max2(a, b) \in {a, b}
BY DEF Max2

LEMMA DocStays ==
  ASSUME TypeOK, TimeInv, NEW s \in Schedules, doc'[s] = doc[s],
         history'.anchor[s] = history.anchor[s]
  PROVE  DocStep(s)
BY StateTypes DEF DocStep, TimeInv

LEMMA StepMoves ==
  ASSUME IInv, [Next]_vars
  PROVE  Moves
<1>0. TypeOK /\ TimeInv /\ TickInv /\ FlightInv
  BY DEF IInv
<1>n. now \in Nat /\ now <= now
  BY <1>0, StateTypes
<1>h. ASSUME NEW s \in Schedules PROVE history.paused[s] \subseteq history.paused[s] \cup {now + 1}
  OBVIOUS
<1>f. ASSUME fires' = fires PROVE FiresGrow
  BY <1>0, <1>f, FiresStay
<1>d. ASSUME doc' = doc, history'.anchor = history.anchor PROVE \A s \in Schedules : DocStep(s)
  BY <1>0, <1>d, DocStays
<1>s. ASSUME now' = now, fires' = fires, doc' = doc, history'.anchor = history.anchor,
             history'.paused = history.paused, history'.misread = history.misread
      PROVE  Moves
  BY <1>n, <1>f, <1>d, <1>s DEF Moves
<1>1. CASE StartTick
  BY <1>s, <1>1 DEF StartTick
<1>2. CASE Evaluate
  <2>1. PICK s, d, v : Evaluates(s, d, v)
    BY <1>0, <1>2, EvaluateIs
  <2>2. DocStep(s)
    <3>1. /\ history'.anchor[s] = history.anchor[s]
          /\ doc'[s].expression = doc[s].expression /\ (doc[s] = Deleted => doc'[s] = Deleted)
          /\ doc[s].cursor \in Nat /\ doc[s].cursor <= now /\ doc'[s].enabled = doc[s].enabled
      BY <1>0, <2>1, StateTypes DEF Evaluates, TimeInv
    <3>2. CASE v.decision \in {"none", "ask"} \cup Deferring
      BY <1>n, <2>1, <3>1, <3>2 DEF Evaluates, DocStep
    <3>3. CASE v.decision \notin {"none", "ask"} \cup Deferring
      <4>1. v.upto \in Nat /\ v.upto <= now /\ v.window.at \in Nat /\ v.window.at <= now
        BY <1>n, <2>1, <3>3, ReadableTypes, WindowShape DEF Evaluates, Sound, Leads
      <4> DEFINE to == CursorAfter(v.window, v.upto, v.decision)
      <4>2. to \in {0, v.upto, v.window.at}
        BY DEF CursorAfter
      <4>3. to \in Nat /\ to <= now
        BY <1>n, <4>1, <4>2
      <4>4. doc[s] # Deleted => doc'[s].cursor = Max2(doc[s].cursor, to)
        BY <2>1, <3>3 DEF Evaluates
      <4> HIDE DEF to
      <4> QED
        BY <1>n, <1>2, <3>1, <4>3, <4>4, MoreOf DEF DocStep
    <3> QED
      BY <3>2, <3>3
  <2>3. \A u \in Schedules : DocStep(u)
    BY <1>0, <2>1, <2>2, DocStays DEF Evaluates
  <2> QED
    BY <1>n, <2>1, <2>3 DEF Evaluates, Moves
<1>3. ASSUME NEW c \in Callers, Post(c) PROVE Moves
  BY <1>0, <1>s, <1>3, PostIs DEF Posts
<1>4. ASSUME NEW c \in Callers, Settle(c) PROVE Moves
  <2> DEFINE s == flight[c].schedule
             w == flight[c].window
             a == flight[c].answer
  <2>1. Settles(c, s, w, a)
    BY <1>0, <1>4, SettleIs
  <2>2. s \in Schedules /\ w.at \in Nat /\ w.at <= now
    BY <1>0, StateTypes DEF FlightInv
  <2> HIDE DEF s, w, a
  <2>3. DocStep(s)
    <3>1. /\ history'.anchor[s] = history.anchor[s]
          /\ doc'[s].expression = doc[s].expression /\ (doc[s] = Deleted => doc'[s] = Deleted)
          /\ doc[s].cursor \in Nat /\ doc[s].cursor <= now /\ doc'[s].enabled = doc[s].enabled
      BY <1>0, <2>1, <2>2, StateTypes DEF Settles, TimeInv
    <3>2. doc[s] # Deleted => \/ doc'[s].cursor = doc[s].cursor
                              \/ SettlesWindow(s) /\ doc'[s].cursor = Max2(doc[s].cursor, w.at)
      BY <1>4, <2>1 DEF Settles, SettlesWindow, Callers
    <3> QED
      BY <1>n, <2>2, <3>1, <3>2, MoreOf DEF DocStep
  <2>4. \A u \in Schedules : DocStep(u)
    BY <1>0, <2>1, <2>2, <2>3, DocStays DEF Settles
  <2> QED
    BY <1>n, <2>1, <2>4 DEF Settles, Moves
<1>5. ASSUME NEW s \in Schedules, RunNow(s) PROVE Moves
  <2>1. /\ FiresGrow /\ history'.anchor = history.anchor
        /\ history'.paused = history.paused /\ history'.misread = history.misread
        /\ now' = now /\ doc' = doc
    BY <1>0, <1>5, RunNowIs
  <2> QED
    BY <1>n, <1>d, <2>1 DEF Moves
<1>6. ASSUME NEW s \in Schedules, Pause(s) \/ StopEverything(s) PROVE Moves
  <2>1. /\ history'.anchor = history.anchor /\ history'.paused = history.paused
        /\ history'.misread = history.misread /\ now' = now /\ fires' = fires
    <3>1. CASE Pause(s)
      BY <3>1 DEF Pause
    <3>2. CASE StopEverything(s)
      BY <1>0, <3>2 DEF StopEverything, TypeOK
    <3> QED
      BY <1>6, <3>1, <3>2
  <2>2. DocStep(s)
    BY <1>0, <1>6, <1>n, <2>1, PausedDoc, StateTypes DEF DocStep, TimeInv
  <2>3. \A u \in Schedules : DocStep(u)
    BY <1>0, <1>6, <2>1, <2>2, PausedDoc, DocStays
  <2> QED
    BY <1>n, <1>f, <2>1, <2>3 DEF Moves
<1>7. ASSUME NEW s \in Schedules, NEW e \in Expressions, Resume(s) \/ Edit(s, e) PROVE Moves
  <2>1. /\ history'.paused = history.paused
        /\ history'.misread = history.misread /\ now' = now /\ fires' = fires
    BY <1>0, <1>7 DEF Resume, Edit, TypeOK
  <2>2. history'.anchor = [history.anchor EXCEPT ![s] = now]
        /\ history.anchor \in [Schedules -> 0..Horizon]
    BY <1>0, <1>7 DEF Resume, Edit, TypeOK
  <2>3. /\ doc'[s].cursor = now /\ doc[s] # Deleted
        /\ \A u \in Schedules \ {s} : doc'[u] = doc[u]
    BY <1>0, <1>7, ResumedDoc, EditedDoc
  <2>4. DocStep(s)
    BY <2>2, <2>3 DEF DocStep
  <2>5. \A u \in Schedules : DocStep(u)
    BY <1>0, <2>2, <2>3, <2>4, DocStays
  <2> QED
    BY <1>n, <1>f, <2>1, <2>5 DEF Moves
<1>8. ASSUME NEW s \in Schedules, Resume(s) PROVE Moves
  <2>1. doc[s] # Deleted /\ doc[s].expression \in Expressions
    BY <1>0, <1>8, StateTypes DEF Resume, Request
  <2> QED
    BY <1>7, <1>8, <2>1
<1>9. ASSUME NEW s \in Schedules, Delete(s) PROVE Moves
  <2>1. /\ history'.anchor = history.anchor /\ history'.paused = history.paused
        /\ history'.misread = history.misread /\ now' = now /\ fires' = fires
    BY <1>9 DEF Delete
  <2>2. DocStep(s)
    BY <1>0, <1>9, <2>1, DeletedDoc DEF DocStep
  <2>3. \A u \in Schedules : DocStep(u)
    BY <1>0, <1>9, <2>1, <2>2, DeletedDoc, DocStays
  <2> QED
    BY <1>n, <1>f, <2>1, <2>3 DEF Moves
<1>10. CASE Advance
  <2> DEFINE p == [s \in Schedules |-> IF doc[s] # Deleted /\ ~doc[s].enabled
                                       THEN history.paused[s] \cup {now + 1} ELSE history.paused[s]]
  <2>1. history' = [history EXCEPT !.paused = p] /\ now' = now + 1 /\ fires' = fires /\ doc' = doc
    BY <1>10 DEF Advance
  <2>2. \A s \in Schedules : p[s] = IF doc[s] # Deleted /\ ~doc[s].enabled
                                    THEN history.paused[s] \cup {now + 1} ELSE history.paused[s]
    OBVIOUS
  <2> HIDE DEF p
  <2>3. /\ history'.anchor = history.anchor /\ history'.paused = p
        /\ history'.misread = history.misread
    BY <1>0, <2>1 DEF TypeOK
  <2>4. now' \in Nat /\ now <= now'
    BY <1>n, <2>1
  <2>5. \A s \in Schedules :
           /\ history'.paused[s] \subseteq history.paused[s] \cup {now + 1}
           /\ history'.paused[s] # history.paused[s] =>
                 now' = now + 1 /\ ~doc'[s].enabled /\ doc[s] # Deleted
    BY <2>1, <2>2, <2>3
  <2> QED
    BY <1>f, <1>d, <2>1, <2>3, <2>4, <2>5 DEF Moves
<1>11. ASSUME NEW r \in going, RunEnds(r) PROVE Moves
  BY <1>s, <1>11 DEF RunEnds
<1>12. CASE Shutdown
  BY <1>s, <1>12 DEF Shutdown
<1>13. ASSUME NEW r \in stopper.todo, CancelRun(r) PROVE Moves
  <2> DEFINE of == r[1]
  <2>1. history' = history \/ history' = [history EXCEPT !.quiet = @ \ {of}]
    BY <1>13 DEF CancelRun
  <2>2. now' = now /\ fires' = fires /\ doc' = doc
    BY <1>13 DEF CancelRun
  <2> HIDE DEF of
  <2>3. /\ history'.anchor = history.anchor /\ history'.paused = history.paused
        /\ history'.misread = history.misread
    BY <1>0, <2>1 DEF TypeOK
  <2> QED
    BY <1>s, <2>2, <2>3
<1>14. CASE EndStop
  BY <1>s, <1>14 DEF EndStop
<1>15. CASE Exit
  BY <1>0, <1>s, <1>15, Forgotten DEF Exit
<1>16. CASE Start
  BY <1>s, <1>16 DEF Start
<1>17. CASE Die
  <2>1. FiresGrow /\ Forget /\ now' = now /\ doc' = doc
    BY <1>0, <1>17, DieIs
  <2>2. /\ history'.anchor = history.anchor /\ history'.paused = history.paused
        /\ history'.misread = history.misread
    BY <1>0, <2>1, Forgotten
  <2> QED
    BY <1>n, <1>d, <2>1, <2>2 DEF Moves
<1>18. CASE UNCHANGED vars
  BY <1>s, <1>18 DEF vars
<1> QED
  BY <1>1, <1>2, <1>3, <1>4, <1>5, <1>6, <1>7, <1>8, <1>9, <1>10, <1>11, <1>12, <1>13, <1>14,
     <1>15, <1>16, <1>17, <1>18 DEF Next, Progress, Requests

LEMMA TimeStays ==
  ASSUME IInv, [Next]_vars
  PROVE  TimeInv'
<1>0. TypeOK /\ TypeOK' /\ TimeInv /\ Moves
  BY TypesStay, StepMoves DEF IInv
<1>1. now \in Nat /\ now' \in Nat /\ now <= now'
  BY <1>0, StateTypes DEF Moves
<1> SUFFICES ASSUME NEW s \in Schedules
             PROVE  /\ doc'[s].cursor <= now'
                    /\ history'.anchor[s] <= now'
                    /\ doc'[s] # Deleted => history'.anchor[s] <= doc'[s].cursor
                    /\ \A i \in DOMAIN fires'[s] : fires'[s][i].at <= now'
                    /\ \A t \in history'.paused[s] : t <= now'
  BY DEF TimeInv
<1>t. /\ history.anchor[s] \in Nat /\ doc[s].cursor \in Nat
      /\ doc'[s].cursor \in Nat /\ history.paused[s] \subseteq Nat
      /\ fires'[s] \in Seq(Fires)
  <2>1. doc'[s] \in Docs /\ fires'[s] \in Seq(Fires)
    BY <1>0 DEF TypeOK
  <2> QED
    BY <1>0, <2>1, StateTypes, DocumentTypes, ConstantTypes
<1>2. history'.anchor[s] <= now' /\ history'.anchor[s] \in Nat
  BY <1>0, <1>1, <1>t DEF Moves, DocStep, TimeInv
<1>3. doc'[s] # Deleted => doc'[s].cursor <= now' /\ history'.anchor[s] <= doc'[s].cursor
  BY <1>0, <1>1, <1>t DEF Moves, DocStep, TimeInv
<1>4. doc'[s] = Deleted => doc'[s].cursor <= now'
  BY <1>1, <1>t DEF Deleted
<1>5. \A i \in DOMAIN fires'[s] : fires'[s][i].at <= now'
  <2> SUFFICES ASSUME NEW i \in DOMAIN fires'[s] PROVE fires'[s][i].at <= now'
    OBVIOUS
  <2>1. fires'[s][i].at \in Nat
    <3>1. fires'[s][i] \in Fires
      BY <1>t, ElementsOf
    <3> QED
      BY <3>1, ConstantTypes DEF Fires
  <2>2. fires'[s][i].at <= now
    BY <1>0 DEF Moves, FiresGrow, TimeInv, IsIn, NewFire
  <2> QED
    BY <1>1, <2>1, <2>2
<1>6. \A t \in history'.paused[s] : t <= now'
  <2> SUFFICES ASSUME NEW t \in history'.paused[s] PROVE t <= now'
    OBVIOUS
  <2>1. t \in history.paused[s] \/ (t = now + 1 /\ now' = now + 1)
    BY <1>0 DEF Moves
  <2> QED
    BY <1>0, <1>1, <1>t, <2>1 DEF TimeInv
<1> QED
  BY <1>2, <1>3, <1>4, <1>5, <1>6

-----------------------------------------------------------------------------
(* The tick and what it awaits. *)

\* The steps that read no schedule, settle none and dispatch nothing.
Elsewhere ==
    /\ flight' = flight /\ tick' = tick
    /\ \/ \E s \in Schedules : Pause(s) \/ Resume(s) \/ Delete(s) \/ StopEverything(s)
                               \/ \E e \in Expressions : Edit(s, e)
       \/ Advance \/ (\E r \in going : RunEnds(r)) \/ Shutdown \/ Start \/ EndStop
       \/ (\E r \in stopper.todo : CancelRun(r)) \/ UNCHANGED vars

\* The steps, by what they do to the dispatches.
LEMMA StepKinds ==
  ASSUME [Next]_vars
  PROVE  \/ StartTick \/ Evaluate \/ (\E c \in Callers : Post(c) \/ Settle(c))
         \/ (\E s \in Schedules : RunNow(s)) \/ (Forget /\ (Exit \/ Die))
         \/ Elsewhere
<1>1. ASSUME NEW s \in Schedules,
             Pause(s) \/ Resume(s) \/ Delete(s) \/ StopEverything(s) \/ \E e \in Expressions : Edit(s, e)
      PROVE  Elsewhere
  BY <1>1 DEF Elsewhere, Pause, Resume, Delete, StopEverything, Edit
<1>2. CASE Advance \/ Shutdown \/ Start \/ EndStop \/ UNCHANGED vars
  BY <1>2 DEF Elsewhere, Advance, Shutdown, Start, EndStop, vars
<1>3. CASE \E r \in going : RunEnds(r)
  BY <1>3 DEF Elsewhere, RunEnds
<1>4. CASE \E r \in stopper.todo : CancelRun(r)
  BY <1>4 DEF Elsewhere, CancelRun
<1>5. CASE Exit \/ Die
  BY <1>5 DEF Exit, Die
<1> QED
  BY <1>1, <1>2, <1>3, <1>4, <1>5 DEF Next, Progress, Requests

LEMMA QueuedTypes ==
  ASSUME TypeOK
  PROVE  \A i \in DOMAIN tick.queue :
            /\ tick.queue[i].schedule \in Schedules /\ tick.queue[i].doc \in Documents
            /\ tick.queue[i].doc.cursor \in Nat
<1>1. tick.queue \in Seq(QueueEntries) /\ Horizon \in Nat
  BY StateTypes, ConstantTypes
<1>2. \A i \in DOMAIN tick.queue : tick.queue[i] \in QueueEntries
  BY <1>1, ElementsOf
<1> QED
  BY <1>1, <1>2 DEF QueueEntries, Documents

LEMMA TickStays ==
  ASSUME IInv, [Next]_vars
  PROVE  TickInv'
<1>0. TypeOK /\ TypeOK' /\ TimeInv /\ TickInv /\ FlightInv /\ Moves
  BY TypesStay, StepMoves DEF IInv
<1>n. now \in Nat /\ now' \in Nat /\ now <= now'
  BY <1>0, StateTypes DEF Moves
<1>q. ASSUME tick'.queue = tick.queue, ~tick'.active => tick' = NoTick PROVE TickInv'
  <2>1. \A i \in DOMAIN tick'.queue : tick'.queue[i].doc.cursor <= now'
    BY <1>0, <1>n, <1>q, QueuedTypes DEF TickInv
  <2> QED
    BY <1>0, <1>q, <2>1 DEF TickInv
<1>1. CASE StartTick
  <2>1. /\ Listing \in Seq(QueueEntries) /\ tick' = TickAfter(Listing, MaxFires)
        /\ MaxFires \in 0..MaxFires /\ now' = now
    BY <1>0, <1>1, ListingIs, ConstantTypes DEF StartTick
  <2>2. tick'.queue = Listing /\ (~tick'.active => tick' = NoTick)
    BY <2>1, TickAfterIs
  <2>3. \A i \in DOMAIN Listing : Listing[i].doc.cursor <= now
    BY <1>0, ListingIs DEF TimeInv
  <2> HIDE DEF Listing
  <2> QED
    BY <1>0, <2>1, <2>2, <2>3, ListingIs DEF TickInv
<1>2. CASE Evaluate
  <2>1. PICK s, d, v : Evaluates(s, d, v)
    BY <1>0, <1>2, EvaluateIs
  <2>2. ASSUME NEW i \in DOMAIN tick'.queue, NEW j \in DOMAIN tick'.queue,
               tick'.queue[i].schedule = tick'.queue[j].schedule
        PROVE  i = j
    <3>1. /\ i + 1 \in DOMAIN tick.queue /\ tick'.queue[i] = tick.queue[i + 1]
          /\ j + 1 \in DOMAIN tick.queue /\ tick'.queue[j] = tick.queue[j + 1]
      BY <2>1, <2>2 DEF Evaluates
    <3>2. i + 1 = j + 1
      BY <1>0, <2>2, <3>1 DEF TickInv
    <3>3. i \in Int /\ j \in Int
      <4>1. tick'.queue \in Seq(QueueEntries)
        BY <1>0 DEF TypeOK, QueueEntries
      <4> QED
        BY <2>2, <4>1
    <3> QED
      BY <3>2, <3>3
  <2>3. \A i \in DOMAIN tick'.queue : tick'.queue[i].doc.cursor <= now'
    <3>1. now' = now
      BY <2>1 DEF Evaluates
    <3> QED
      BY <1>0, <2>1, <3>1 DEF Evaluates, TickInv
  <2>4. ~tick'.active => tick' = NoTick
    BY <2>1 DEF Evaluates
  <2> QED
    BY <2>2, <2>3, <2>4 DEF TickInv
<1>3. ASSUME NEW c \in Callers, Post(c) \/ Settle(c) PROVE TickInv'
  <2>1. CASE Post(c)
    BY <1>0, <1>q, <2>1, PostIs DEF Posts, TickInv
  <2>2. CASE Settle(c)
    <3>1. Settles(c, flight[c].schedule, flight[c].window, flight[c].answer)
      BY <1>0, <2>2, SettleIs
    <3>2. tick'.queue = tick.queue /\ (~tick'.active => tick' = NoTick)
      BY <1>0, <3>1 DEF Settles, TickInv, Callers
    <3> QED
      BY <1>q, <3>2
  <2> QED
    BY <1>3, <2>1, <2>2
<1>4. ASSUME NEW s \in Schedules, RunNow(s) PROVE TickInv'
  BY <1>0, <1>q, <1>4, RunNowIs DEF TickInv
<1>5. CASE Forget
  <2>1. tick' = NoTick /\ tick'.queue = <<>> /\ DOMAIN tick'.queue = {}
    BY <1>0, <1>5, Forgotten DEF NoTick
  <2> QED
    BY <2>1 DEF TickInv
<1>6. CASE Elsewhere
  BY <1>0, <1>q, <1>6 DEF Elsewhere, TickInv
<1> QED
  BY <1>1, <1>2, <1>3, <1>4, <1>5, <1>6, StepKinds

\* What is known of one dispatch.
FlightOf(c) ==
    /\ flight[c].phase = "none" => flight[c] = Landed
    /\ flight[c].phase = "asked" => flight[c].answer = "none"
    /\ flight[c].phase = "answered" => flight[c].answer \in {"dispatched", "refused"}
    /\ flight[c].window.at <= now
    /\ flight[c].phase # "none" =>
          flight[c].window.key \in IF c = "tick" THEN Keys ELSE ManualKeys
FlightOfTick ==
    flight["tick"].phase # "none" =>
        /\ tick.active /\ tick.budget > 0
        /\ \A i \in DOMAIN tick.queue : tick.queue[i].schedule # flight["tick"].schedule

LEMMA FlightParts == FlightInv <=> (\A c \in Callers : FlightOf(c)) /\ FlightOfTick
BY DEF FlightInv, FlightOf, FlightOfTick

LEMMA FlightPartsLater == FlightInv' <=> (\A c \in Callers : FlightOf(c)') /\ FlightOfTick'
BY DEF FlightInv, FlightOf, FlightOfTick

LEMMA FlightStays ==
  ASSUME IInv, [Next]_vars
  PROVE  FlightInv'
<1>0. TypeOK /\ TypeOK' /\ TimeInv /\ TickInv /\ FlightInv /\ Moves
      /\ (\A c \in Callers : FlightOf(c)) /\ FlightOfTick
  BY TypesStay, StepMoves, FlightParts DEF IInv
<1>n. now \in Nat /\ now' \in Nat /\ now <= now'
  BY <1>0, StateTypes DEF Moves
<1>l. ASSUME NEW c \in Callers, flight'[c] = Landed PROVE FlightOf(c)'
  BY <1>n, <1>l, LandedIs DEF FlightOf
<1>s. ASSUME NEW c \in Callers, flight'[c] = flight[c] PROVE FlightOf(c)'
  BY <1>0, <1>n, <1>s, StateTypes DEF FlightOf
<1>c. "tick" \in Callers /\ "manual" \in Callers /\ Callers = {"tick", "manual"}
  BY DEF Callers
<1>1. CASE StartTick
  <2>1. flight' = flight /\ ~tick.active
    BY <1>1 DEF StartTick
  <2>2. FlightOfTick'
    BY <1>0, <2>1 DEF FlightOfTick
  <2> QED
    BY <1>s, <2>1, <2>2, FlightPartsLater
<1>2. CASE Evaluate
  <2>1. PICK s, d, v : Evaluates(s, d, v)
    BY <1>0, <1>2, EvaluateIs
  <2>2. FlightOf("manual")'
    BY <1>s, <1>c, <2>1 DEF Evaluates
  <2>3. CASE v.decision # "ask"
    <3>1. flight'["tick"] = Landed
      BY <2>1, <2>3 DEF Evaluates
    <3>2. FlightOf("tick")' /\ FlightOfTick'
      BY <1>l, <1>c, <3>1, LandedIs DEF FlightOfTick
    <3> QED
      BY <1>c, <2>2, <3>2, FlightPartsLater
  <2>4. CASE v.decision = "ask"
    <3>1. /\ Leads(d.expression, v.window) /\ v.window.at <= now /\ tick.budget # 0
          /\ v.window.at \in Nat /\ v.window.key \in Keys /\ now' = now
          /\ s \in Schedules
      <4>1. /\ Leads(d.expression, v.window) /\ v.window.at <= v.upto /\ v.upto <= now
            /\ v.upto \in Nat /\ tick.budget # 0 /\ d.expression \in Expressions /\ now' = now
            /\ s \in Schedules
        BY <2>1, <2>4, ReadableTypes DEF Evaluates, Sound
      <4>2. v.window.at \in Nat /\ v.window.key \in Keys
        BY <4>1, WindowShape DEF Leads
      <4> QED
        BY <1>n, <4>1, <4>2
    <3>2. flight'["tick"] = Awaiting("asked", s, v.window, "none")
      BY <2>1, <2>4 DEF Evaluates
    <3>3. /\ flight'["tick"].phase = "asked" /\ flight'["tick"].schedule = s
          /\ flight'["tick"].window = v.window /\ flight'["tick"].answer = "none"
      BY <3>2 DEF Awaiting
    <3>4. FlightOf("tick")'
      BY <3>1, <3>3 DEF FlightOf
    <3>5. FlightOfTick'
      <4>1. tick'.active /\ tick'.budget = tick.budget /\ tick.budget \in Nat
        BY <1>0, <2>1, <2>4, StateTypes DEF Evaluates
      <4>2. \A i \in DOMAIN tick'.queue : tick'.queue[i].schedule # s
        BY <1>0, <2>1 DEF Evaluates, TickInv
      <4> QED
        BY <3>1, <3>3, <4>1, <4>2 DEF FlightOfTick
    <3> QED
      BY <1>c, <2>2, <3>4, <3>5, FlightPartsLater
  <2> QED
    BY <2>3, <2>4
<1>3. ASSUME NEW c \in Callers, Post(c) PROVE FlightInv'
  <2>1. Posts(c)
    BY <1>0, <1>3, PostIs
  <2>2. /\ flight'[c].phase = "answered" /\ flight'[c].answer \in {"dispatched", "refused"}
        /\ flight'[c].schedule = flight[c].schedule /\ flight'[c].window = flight[c].window
        /\ flight[c].phase = "asked" /\ now' = now /\ tick' = tick
        /\ \A u \in Callers \ {c} : flight'[u] = flight[u]
    BY <2>1 DEF Posts
  <2>3. FlightOf(c)'
    BY <1>0, <2>2 DEF FlightOf
  <2>4. FlightOfTick'
    BY <1>0, <1>c, <2>2 DEF FlightOfTick
  <2>5. \A u \in Callers \ {c} : FlightOf(u)'
    BY <1>s, <2>2
  <2> QED
    BY <2>3, <2>4, <2>5, FlightPartsLater
<1>4. ASSUME NEW c \in Callers, Settle(c) PROVE FlightInv'
  <2>1. Settles(c, flight[c].schedule, flight[c].window, flight[c].answer)
    BY <1>0, <1>4, SettleIs
  <2>2. /\ flight'[c] = Landed /\ \A u \in Callers \ {c} : flight'[u] = flight[u]
        /\ c = "manual" => tick' = tick
    BY <2>1 DEF Settles
  <2>3. FlightOf(c)' /\ \A u \in Callers \ {c} : FlightOf(u)'
    BY <1>l, <1>s, <2>2
  <2>4. FlightOfTick'
    <3>1. CASE c = "tick"
      BY <2>2, <3>1, LandedIs DEF FlightOfTick
    <3>2. CASE c = "manual"
      BY <1>0, <1>c, <2>2, <3>2 DEF FlightOfTick
    <3> QED
      BY <1>c, <3>1, <3>2
  <2> QED
    BY <2>3, <2>4, FlightPartsLater
<1>5. ASSUME NEW s \in Schedules, RunNow(s) PROVE FlightInv'
  <2> DEFINE w == [key |-> ManualKey(now), at |-> now]
  <2>1. /\ flight'["tick"] = flight["tick"] /\ tick' = tick /\ now' = now
        /\ flight'["manual"] = Awaiting("asked", s, w, "none") \/ flight'["manual"] = Landed
    BY <1>0, <1>5, RunNowIs
  <2>2. w.key \in ManualKeys /\ w.at = now
    BY <1>0, StateTypes, KeyKinds
  <2> HIDE DEF w
  <2>3. FlightOfTick'
    BY <1>0, <2>1 DEF FlightOfTick
  <2>4. FlightOf("tick")'
    BY <1>s, <1>c, <2>1
  <2>5. FlightOf("manual")'
    <3>1. CASE flight'["manual"] = Landed
      BY <1>l, <1>c, <3>1
    <3>2. CASE flight'["manual"] = Awaiting("asked", s, w, "none")
      <4>1. /\ flight'["manual"].phase = "asked" /\ flight'["manual"].window = w
            /\ flight'["manual"].answer = "none"
        BY <3>2 DEF Awaiting
      <4> QED
        BY <1>n, <2>1, <2>2, <4>1 DEF FlightOf
    <3> QED
      BY <2>1, <3>1, <3>2
  <2> QED
    BY <1>c, <2>3, <2>4, <2>5, FlightPartsLater
<1>6. CASE Forget
  <2>1. \A c \in Callers : flight'[c] = Landed
    BY <1>0, <1>6, Forgotten
  <2>2. FlightOfTick'
    BY <1>c, <2>1, LandedIs DEF FlightOfTick
  <2> QED
    BY <1>l, <2>1, <2>2, FlightPartsLater
<1>7. CASE Elsewhere
  <2>1. flight' = flight /\ tick' = tick
    BY <1>7 DEF Elsewhere
  <2>2. FlightOfTick'
    BY <1>0, <2>1 DEF FlightOfTick
  <2> QED
    BY <1>s, <2>1, <2>2, FlightPartsLater
<1> QED
  BY <1>1, <1>2, <1>3, <1>4, <1>5, <1>6, <1>7, StepKinds

-----------------------------------------------------------------------------
(* Pauses. *)

\* What the tick awaits is what it awaited, unless it has just asked.
LEMMA FlightKept ==
  ASSUME IInv, [Next]_vars, ~Evaluate, flight'["tick"].phase # "none"
  PROVE  /\ flight["tick"].phase # "none" /\ flight'["tick"].schedule = flight["tick"].schedule
         /\ flight'["tick"].window = flight["tick"].window
<1>0. TypeOK /\ FlightInv
  BY DEF IInv
<1>c. "tick" \in Callers
  BY DEF Callers
<1>1. CASE StartTick \/ Elsewhere
  BY <1>1 DEF StartTick, Elsewhere
<1>2. ASSUME NEW c \in Callers, Post(c)
      PROVE  /\ flight["tick"].phase # "none" /\ flight'["tick"].schedule = flight["tick"].schedule
             /\ flight'["tick"].window = flight["tick"].window
  BY <1>0, <1>c, <1>2, PostIs DEF Posts
<1>3. ASSUME NEW c \in Callers, Settle(c)
      PROVE  flight'["tick"] = flight["tick"]
  <2>1. Settles(c, flight[c].schedule, flight[c].window, flight[c].answer)
    BY <1>0, <1>3, SettleIs
  <2> QED
    BY <1>c, <2>1, LandedIs DEF Settles
<1>4. ASSUME NEW s \in Schedules, RunNow(s) PROVE flight'["tick"] = flight["tick"]
  BY <1>0, <1>4, RunNowIs
<1>5. ~Forget
  BY <1>0, <1>c, Forgotten, LandedIs
<1> QED
  BY <1>1, <1>2, <1>3, <1>4, <1>5, StepKinds

LEMMA PausesStay ==
  ASSUME IInv, [Next]_vars
  PROVE  PausedInv'
<1>0. TypeOK /\ TypeOK' /\ TimeInv /\ TickInv /\ FlightInv /\ PausedInv /\ Moves
  BY TypesStay, StepMoves DEF IInv
<1>n. now \in Nat /\ now' \in Nat /\ now <= now'
  BY <1>0, StateTypes DEF Moves
<1>c. "tick" \in Callers
  BY DEF Callers
<1>1. ASSUME NEW s \in Schedules, doc'[s].enabled, NEW t \in history'.paused[s]
      PROVE  t <= doc'[s].cursor
  <2>1. history'.paused[s] = history.paused[s] /\ DocStep(s) /\ doc'[s] # Deleted
    BY <1>0, <1>1 DEF Moves, Deleted
  <2>2. t \in Nat /\ t <= now /\ doc[s].cursor \in Nat /\ doc'[s].cursor \in Nat
    <3>1. doc'[s] \in Docs
      BY <1>0 DEF TypeOK
    <3> QED
      BY <1>0, <1>1, <2>1, <3>1, StateTypes, DocumentTypes, ConstantTypes DEF TimeInv
  <2>3. CASE doc'[s].cursor = now
    BY <2>2, <2>3
  <2>4. CASE doc[s].enabled /\ doc[s].cursor <= doc'[s].cursor
    <3>1. t <= doc[s].cursor
      BY <1>0, <1>1, <2>1, <2>4 DEF PausedInv
    <3> QED
      BY <2>2, <2>4, <3>1
  <2> QED
    BY <1>1, <2>1, <2>3, <2>4 DEF DocStep
<1>2. ASSUME flight'["tick"].phase # "none", flight'["tick"].schedule \notin history'.misread
      PROVE  flight'["tick"].window.at \notin history'.paused[flight'["tick"].schedule]
  <2>1. CASE Evaluate
    <3>1. PICK s, d, v : Evaluates(s, d, v)
      BY <1>0, <2>1, EvaluateIs
    <3>2. /\ v.decision = "ask" /\ flight'["tick"] = Awaiting("asked", s, v.window, "none")
          /\ s \in Schedules /\ history'.paused = history.paused
      BY <1>2, <3>1, LandedIs DEF Evaluates
    <3>3. flight'["tick"].schedule = s /\ flight'["tick"].window = v.window
      BY <3>2 DEF Awaiting
    <3>4. ~Outdated(s, d)
      BY <1>2, <3>1, <3>2, <3>3 DEF Evaluates
    <3>5. /\ doc[s].enabled /\ doc[s].cursor < v.window.at /\ v.window.at \in Nat
          /\ doc[s].cursor \in Nat
      <4>1. /\ d.enabled /\ d.cursor < v.window.at /\ d.cursor \in Nat
            /\ Leads(d.expression, v.window) /\ d.expression \in Expressions
        BY <3>1, <3>2, ReadableTypes DEF Evaluates, Sound
      <4>2. v.window.at \in Nat
        BY <4>1, WindowShape DEF Leads
      <4> QED
        BY <3>4, <4>1, <4>2 DEF Outdated
    <3>6. \A t \in history.paused[s] : t <= doc[s].cursor
      BY <1>0, <3>2, <3>5 DEF PausedInv
    <3> QED
      BY <3>2, <3>3, <3>5, <3>6
  <2>2. CASE ~Evaluate
    <3> DEFINE s == flight["tick"].schedule
               at == flight["tick"].window.at
    <3>1. /\ flight["tick"].phase # "none" /\ flight'["tick"].schedule = s
          /\ flight'["tick"].window.at = at
      BY <1>2, <2>2, FlightKept
    <3>2. s \in Schedules /\ at \in Nat /\ at <= now /\ s \notin history.misread
      BY <1>0, <1>2, <1>c, <3>1, StateTypes DEF FlightInv, Moves
    <3>3. at \notin history.paused[s]
      BY <1>0, <3>1, <3>2 DEF PausedInv
    <3> HIDE DEF s, at
    <3>4. history'.paused[s] \subseteq history.paused[s] \cup {now + 1}
      BY <1>0, <3>2 DEF Moves
    <3>5. at # now + 1
      BY <1>n, <3>2
    <3> QED
      BY <3>1, <3>3, <3>4, <3>5
  <2> QED
    BY <2>1, <2>2
<1> QED
  BY <1>1, <1>2 DEF PausedInv

LEMMA PausedWindowsStay ==
  ASSUME IInv, [Next]_vars
  PROVE  PausedWindowsNeverRun'
<1>0. TypeOK /\ TimeInv /\ FlightInv /\ PausedInv /\ PausedWindowsNeverRun /\ Moves
  BY StepMoves DEF IInv, PausesHold
<1>n. now \in Nat
  BY <1>0, StateTypes
<1> SUFFICES ASSUME NEW s \in Schedules, s \notin history'.misread, NEW i \in DOMAIN fires'[s],
                    fires'[s][i].reason = "dispatched", fires'[s][i].key \notin ManualKeys
             PROVE  fires'[s][i].at \notin history'.paused[s]
  BY DEF PausedWindowsNeverRun
<1> DEFINE f == fires'[s][i]
<1>1. s \notin history.misread /\ history'.paused[s] \subseteq history.paused[s] \cup {now + 1}
      /\ (IsIn(f, fires[s]) \/ NewFire(s, f))
  BY <1>0 DEF Moves, FiresGrow
<1> HIDE DEF f
<1>2. CASE IsIn(f, fires[s])
  <2>1. PICK j \in DOMAIN fires[s] : fires[s][j] = f
    BY <1>2 DEF IsIn
  <2>2. f.at <= now /\ f.at \notin history.paused[s]
    BY <1>0, <1>1, <2>1 DEF TimeInv, PausedWindowsNeverRun, f
  <2>3. f.at \in Nat
    <3>1. f \in Fires
      BY <1>0, <2>1, StateTypes, ElementsOf
    <3> QED
      BY <3>1, ConstantTypes DEF Fires
  <2> QED
    BY <1>n, <1>1, <2>2, <2>3 DEF f
<1>3. CASE NewFire(s, f)
  <2>1. PICK c \in Callers : /\ flight[c].phase = "answered" /\ flight[c].schedule = s
                             /\ f.key = flight[c].window.key /\ f.at = flight[c].window.at
    BY <1>3 DEF NewFire, f
  <2>2. c = "tick"
    BY <1>0, <2>1 DEF FlightInv, Callers, f
  <2>3. f.at \notin history.paused[s]
    BY <1>0, <1>1, <2>1, <2>2 DEF PausedInv
  <2>4. f.at \in Nat /\ f.at <= now
    BY <1>0, <2>1, StateTypes DEF FlightInv
  <2> QED
    BY <1>n, <1>1, <2>3, <2>4 DEF f
<1> QED
  BY <1>1, <1>2, <1>3

-----------------------------------------------------------------------------
(* Stops. *)

LEMMA RunsAreTyped ==
  ASSUME TypeOK
  PROVE  /\ \A r \in started : r = <<r[1], r[2]>> /\ r[1] \in Schedules
         /\ going \subseteq started
BY DEF TypeOK, Runs

LEMMA StopIs ==
  ASSUME TypeOK, NEW s \in Schedules, StopEverything(s)
  PROVE  /\ ~stopper.active /\ stopper'.active /\ stopper'.schedule = s
         /\ history'.quiet = IF Undisturbed(s) THEN history.quiet \cup {s} ELSE history.quiet
         /\ Undisturbed(s) => \A r \in going : r[1] = s => r \in stopper'.todo
         /\ flight' = flight /\ tick' = tick /\ going' = going
<1> DEFINE from == Max2(1, Len(fires[s]) - StopScan + 1)
           scanned == {fires[s][i] : i \in from..Len(fires[s])}
           todo == {<<s, f.key>> : f \in {g \in scanned : g.reason = "dispatched"}}
<1>1. stopper' = [active |-> TRUE, schedule |-> s, todo |-> todo]
  BY DEF StopEverything
<1>2. /\ ~stopper.active /\ flight' = flight /\ tick' = tick /\ going' = going
      /\ history'.quiet = IF Undisturbed(s) THEN history.quiet \cup {s} ELSE history.quiet
  <2> HIDE DEF Undisturbed
  <2> QED
    BY DEF StopEverything, TypeOK
<1>3. ASSUME Undisturbed(s), NEW r \in going, r[1] = s PROVE r \in todo
  <2>1. Len(fires[s]) \in Nat /\ StopScan \in Nat /\ DOMAIN fires[s] = 1..Len(fires[s])
    BY StateTypes, ElementsOf, ConstantTypes
  <2>2. Len(fires[s]) <= StopScan /\ r[2] \in Recorded(s) /\ r = <<s, r[2]>>
    BY <1>3, RunsAreTyped DEF Undisturbed
  <2>3. from = 1
    BY <2>1, <2>2 DEF Max2
  <2>4. PICK i \in DOMAIN fires[s] : fires[s][i].reason = "dispatched" /\ r[2] = fires[s][i].key
    BY <2>2 DEF Recorded
  <2>5. fires[s][i] \in scanned
    BY <2>1, <2>3, <2>4
  <2> HIDE DEF scanned
  <2> QED
    BY <2>2, <2>4, <2>5
<1> HIDE DEF todo
<1> QED
  BY <1>1, <1>2, <1>3

\* What is known of a schedule that was stopped for good.
QuietOf(s) ==
    /\ ~doc[s].enabled
    /\ \A c \in Callers : flight[c].phase # "none" => flight[c].schedule # s
    /\ \A i \in DOMAIN tick.queue : tick.queue[i].schedule = s => ~tick.queue[i].doc.enabled
    /\ stopper.active /\ stopper.schedule = s =>
          \A r \in going : r[1] = s => r \in stopper.todo \cup asked
    /\ (stopper.active /\ stopper.schedule = s) \/ \A r \in going : r[1] = s => r \in asked

LEMMA QuietParts == (\A s \in history.quiet : QuietOf(s)) <=> QuietInv /\ StoppedStaysStopped
BY DEF QuietOf, QuietInv, StoppedStaysStopped

LEMMA QuietPartsLater ==
  (\A s \in history'.quiet : QuietOf(s)') <=> QuietInv' /\ StoppedStaysStopped'
BY DEF QuietOf, QuietInv, StoppedStaysStopped

LEMMA StopsStay ==
  ASSUME IInv, [Next]_vars
  PROVE  QuietInv' /\ StoppedStaysStopped'
<1>0. TypeOK /\ TimeInv /\ TickInv /\ FlightInv /\ Moves
  BY StepMoves DEF IInv
<1>q. /\ \A s \in history.quiet : QuietOf(s)
      /\ history.quiet \subseteq Schedules
  BY QuietParts DEF IInv, PausesHold, TypeOK
<1>a. asked \subseteq asked'
  BY <1>0, AskedStays
<1>c. Callers = {"tick", "manual"}
  BY DEF Callers
\* Nothing that matters has changed for s.
<1>s. ASSUME NEW s, QuietOf(s), ~doc'[s].enabled, flight' = flight, tick' = tick, stopper' = stopper,
             going' \subseteq going
      PROVE  QuietOf(s)'
  BY <1>a, <1>s DEF QuietOf
<1> SUFFICES \A s \in history'.quiet : QuietOf(s)'
  BY QuietPartsLater
<1>1. CASE StartTick
  <2>1. /\ tick' = TickAfter(Listing, MaxFires) /\ Listing \in Seq(QueueEntries)
        /\ MaxFires \in 0..MaxFires
        /\ UNCHANGED <<doc, flight, stopper, going, history>>
    BY <1>0, <1>1, ListingIs, ConstantTypes DEF StartTick
  <2>2. tick'.queue = Listing /\ \A i \in DOMAIN Listing : Listing[i].doc = doc[Listing[i].schedule]
    BY <1>0, <2>1, TickAfterIs, ListingIs
  <2> HIDE DEF Listing
  <2> QED
    BY <1>a, <1>q, <2>1, <2>2 DEF QuietOf
<1>2. CASE Evaluate
  <2>1. PICK s, d, v : Evaluates(s, d, v)
    BY <1>0, <1>2, EvaluateIs
  <2>2. /\ history'.quiet = history.quiet /\ stopper' = stopper /\ going' = going
        /\ \A u \in Schedules : doc'[u].enabled = doc[u].enabled
        /\ \A i \in DOMAIN tick'.queue : i + 1 \in DOMAIN tick.queue
                                         /\ tick'.queue[i] = tick.queue[i + 1]
        /\ flight'["manual"] = flight["manual"]
    BY <2>1 DEF Evaluates
  <2>3. ASSUME NEW u \in history.quiet, flight'["tick"].phase # "none"
        PROVE  flight'["tick"].schedule # u
    <3>1. v.decision = "ask" /\ flight'["tick"] = Awaiting("asked", s, v.window, "none")
      BY <2>1, <2>3, LandedIs DEF Evaluates
    <3>2. d.enabled /\ tick.queue[1].schedule = s /\ tick.queue[1].doc = d /\ 1 \in DOMAIN tick.queue
      BY <2>1, <3>1 DEF Evaluates, Sound
    <3>3. s # u
      BY <1>q, <3>2 DEF QuietOf
    <3> QED
      BY <3>1, <3>3 DEF Awaiting
  <2>4. ASSUME NEW u \in history.quiet PROVE QuietOf(u)'
    <3>1. ~doc'[u].enabled
      BY <1>q, <2>2 DEF QuietOf
    <3>2. \A c \in Callers : flight'[c].phase # "none" => flight'[c].schedule # u
      BY <1>c, <1>q, <2>2, <2>3 DEF QuietOf
    <3>3. \A i \in DOMAIN tick'.queue : tick'.queue[i].schedule = u => ~tick'.queue[i].doc.enabled
      BY <1>q, <2>2 DEF QuietOf
    <3> QED
      BY <1>a, <1>q, <2>2, <3>1, <3>2, <3>3 DEF QuietOf
  <2> QED
    BY <2>2, <2>4
<1>3. ASSUME NEW c \in Callers, Post(c), NEW s \in history'.quiet PROVE QuietOf(s)'
  <2>1. Posts(c)
    BY <1>0, <1>3, PostIs
  <2>2. s \in history.quiet /\ QuietOf(s) /\ flight[c].phase # "none"
    BY <1>q, <1>3, <2>1 DEF Posts
  <2>3. flight[c].schedule # s
    BY <2>2 DEF QuietOf
  <2>4. \A r \in going' : r[1] = s => r \in going
    BY <2>1, <2>3 DEF Posts, RunOf
  <2>5. /\ flight'[c].schedule = flight[c].schedule
        /\ \A u \in Callers \ {c} : flight'[u] = flight[u]
        /\ tick' = tick /\ doc' = doc /\ stopper' = stopper
    BY <2>1 DEF Posts
  <2>6. \A u \in Callers : flight'[u].phase # "none" => flight'[u].schedule # s
    BY <2>2, <2>3, <2>5 DEF QuietOf
  <2> QED
    BY <1>a, <2>2, <2>4, <2>5, <2>6 DEF QuietOf
<1>4. ASSUME NEW c \in Callers, Settle(c), NEW s \in history'.quiet PROVE QuietOf(s)'
  <2> DEFINE t == flight[c].schedule
  <2>1. Settles(c, t, flight[c].window, flight[c].answer)
    BY <1>0, <1>4, SettleIs
  <2>2. /\ s \in history.quiet /\ stopper' = stopper /\ going' = going /\ tick'.queue = tick.queue
        /\ flight'[c] = Landed /\ \A u \in Callers \ {c} : flight'[u] = flight[u]
        /\ doc'[t].enabled = doc[t].enabled /\ \A u \in Schedules \ {t} : doc'[u] = doc[u]
    BY <1>4, <2>1 DEF Settles
  <2>3. QuietOf(s) /\ ~doc'[s].enabled
    BY <1>q, <2>2 DEF QuietOf
  <2>4. \A u \in Callers : flight'[u].phase # "none" => flight'[u].schedule # s
    BY <2>2, <2>3, LandedIs DEF QuietOf
  <2> QED
    BY <1>a, <2>2, <2>3, <2>4 DEF QuietOf
<1>5. ASSUME NEW t \in Schedules, RunNow(t), NEW s \in history'.quiet PROVE QuietOf(s)'
  <2> DEFINE w == [key |-> ManualKey(now), at |-> now]
  <2>1. /\ s \in history.quiet /\ s # t /\ doc' = doc /\ tick' = tick /\ stopper' = stopper
        /\ going' = going /\ flight'["tick"] = flight["tick"]
        /\ flight'["manual"] = Awaiting("asked", t, w, "none") \/ flight'["manual"] = Landed
    BY <1>0, <1>5, RunNowIs
  <2>2. flight'["manual"].phase # "none" => flight'["manual"].schedule # s
    BY <2>1, LandedIs DEF Awaiting
  <2>3. QuietOf(s)
    BY <1>q, <2>1
  <2>4. \A u \in Callers : flight'[u].phase # "none" => flight'[u].schedule # s
    BY <1>c, <2>1, <2>2, <2>3 DEF QuietOf
  <2> QED
    BY <1>a, <2>1, <2>3, <2>4 DEF QuietOf
<1>6. ASSUME Forget, going' = going, doc' = doc, NEW s \in history'.quiet PROVE QuietOf(s)'
  <2>1. /\ tick'.queue = <<>> /\ (\A c \in Callers : flight'[c] = Landed) /\ ~stopper'.active
        /\ s \in history.quiet /\ ~(stopper.active /\ stopper.schedule = s)
    BY <1>0, <1>6, Forgotten DEF NoTick, NoStop
  <2>2. QuietOf(s)
    BY <1>q, <2>1
  <2>3. \A i \in DOMAIN tick'.queue : FALSE
    BY <2>1
  <2> QED
    BY <1>6, <1>a, <2>1, <2>2, <2>3, LandedIs DEF QuietOf
<1>7. ASSUME Exit \/ Die, Forget, NEW s \in history'.quiet PROVE QuietOf(s)'
  <2>1. going' = going /\ doc' = doc
    <3>1. CASE Exit
      BY <3>1 DEF Exit
    <3>2. CASE Die
      BY <3>2 DEF Die
    <3> QED
      BY <1>7, <3>1, <3>2
  <2> QED
    BY <1>6, <1>7, <2>1
<1>8. ASSUME NEW t \in Schedules, Pause(t), NEW s \in history'.quiet PROVE QuietOf(s)'
  <2>1. /\ flight' = flight /\ tick' = tick /\ stopper' = stopper /\ going' = going
        /\ history' = history
    BY <1>8 DEF Pause
  <2>2. ~doc'[s].enabled
    BY <1>0, <1>8, <1>q, <2>1, PausedDoc DEF QuietOf
  <2> QED
    BY <1>8, <1>q, <1>s, <2>1, <2>2
<1>9. ASSUME NEW t \in Schedules, Resume(t), NEW s \in history'.quiet PROVE QuietOf(s)'
  <2>1. /\ flight' = flight /\ tick' = tick /\ stopper' = stopper /\ going' = going
        /\ s \in history.quiet /\ s # t
    BY <1>0, <1>9 DEF Resume, TypeOK
  <2>2. ~doc'[s].enabled
    BY <1>0, <1>9, <1>q, <2>1, ResumedDoc DEF QuietOf
  <2> QED
    BY <1>q, <1>s, <2>1, <2>2
<1>10. ASSUME NEW t \in Schedules, NEW e \in Expressions, Edit(t, e), NEW s \in history'.quiet
       PROVE  QuietOf(s)'
  <2>1. /\ flight' = flight /\ tick' = tick /\ stopper' = stopper /\ going' = going
        /\ s \in history.quiet
    BY <1>0, <1>10 DEF Edit, TypeOK
  <2>2. ~doc'[s].enabled
    BY <1>0, <1>10, <1>q, <2>1, EditedDoc DEF QuietOf
  <2> QED
    BY <1>q, <1>s, <2>1, <2>2
<1>11. ASSUME NEW t \in Schedules, Delete(t), NEW s \in history'.quiet PROVE QuietOf(s)'
  <2>1. /\ flight' = flight /\ tick' = tick /\ stopper' = stopper /\ going' = going
        /\ s \in history.quiet
    BY <1>11 DEF Delete
  <2>2. ~doc'[s].enabled
    BY <1>0, <1>11, <1>q, <2>1, DeletedDoc DEF QuietOf, Deleted
  <2> QED
    BY <1>q, <1>s, <2>1, <2>2
<1>12. ASSUME NEW t \in Schedules, StopEverything(t), NEW s \in history'.quiet PROVE QuietOf(s)'
  <2>1. /\ ~stopper.active /\ stopper'.active /\ stopper'.schedule = t
        /\ history'.quiet = IF Undisturbed(t) THEN history.quiet \cup {t} ELSE history.quiet
        /\ Undisturbed(t) => \A r \in going : r[1] = t => r \in stopper'.todo
        /\ flight' = flight /\ tick' = tick /\ going' = going
    BY <1>0, <1>12, StopIs
  <2>2. ~doc'[t].enabled /\ \A u \in Schedules \ {t} : doc'[u] = doc[u]
    BY <1>0, <1>12, PausedDoc
  <2>3. CASE s \in history.quiet
    <3>1. QuietOf(s) /\ (\A r \in going : r[1] = s => r \in asked) /\ s \in Schedules
      BY <1>q, <2>1, <2>3 DEF QuietOf
    <3>2. ~doc'[s].enabled
      BY <2>2, <3>1 DEF QuietOf
    <3> QED
      BY <1>a, <2>1, <3>1, <3>2 DEF QuietOf
  <2>4. CASE s \notin history.quiet
    <3>1. s = t /\ Undisturbed(s)
      BY <1>12, <2>1, <2>4
    <3>2. \A c \in Callers : flight[c].phase # "none" => flight[c].schedule # s
      BY <3>1, LandedIs DEF Undisturbed
    <3>3. \A i \in DOMAIN tick.queue : tick.queue[i].schedule = s => ~tick.queue[i].doc.enabled
      BY <3>1 DEF Undisturbed
    <3> QED
      BY <1>a, <2>1, <2>2, <3>1, <3>2, <3>3 DEF QuietOf
  <2> QED
    BY <2>3, <2>4
<1>13. ASSUME NEW r \in stopper.todo, CancelRun(r), NEW s \in history'.quiet PROVE QuietOf(s)'
  <2> DEFINE of == r[1]
             left == stopper.todo \ {r}
  <2>1. /\ doc' = doc /\ flight' = flight /\ tick' = tick /\ going' \subseteq going
        /\ \/ (r \in going' => r \in asked') /\ history' = history
           \/ history' = [history EXCEPT !.quiet = @ \ {of}]
        /\ stopper' = [stopper EXCEPT !.todo = left]
    BY <1>13 DEF CancelRun
  <2>2. stopper'.active = stopper.active /\ stopper'.schedule = stopper.schedule
        /\ stopper'.todo = left
    <3> HIDE DEF left
    <3> QED
      BY <1>0, <2>1 DEF TypeOK
  <2>3. /\ s \in history.quiet
        /\ (r \in going' => r \in asked') \/ s # of
    <3> HIDE DEF of
    <3> QED
      BY <1>0, <1>13, <2>1 DEF TypeOK
  <2>4. QuietOf(s)
    BY <1>q, <2>3
  <2>5. stopper'.active /\ stopper'.schedule = s =>
           \A x \in going' : x[1] = s => x \in stopper'.todo \cup asked'
    BY <1>a, <2>1, <2>2, <2>3, <2>4 DEF QuietOf
  <2> QED
    BY <1>a, <2>1, <2>2, <2>3, <2>4, <2>5 DEF QuietOf
<1>14. ASSUME EndStop, NEW s \in history'.quiet PROVE QuietOf(s)'
  <2>1. /\ stopper.todo = {} /\ ~stopper'.active /\ stopper' = NoStop /\ s \in history.quiet
        /\ UNCHANGED <<doc, flight, tick, going>>
    BY <1>14 DEF EndStop, NoStop
  <2>2. QuietOf(s)
    BY <1>q, <2>1
  <2>3. \A x \in going : x[1] = s => x \in asked
    BY <2>1, <2>2 DEF QuietOf
  <2> QED
    BY <1>a, <2>1, <2>2, <2>3 DEF QuietOf
<1>15. ASSUME NEW r \in going, RunEnds(r), NEW s \in history'.quiet PROVE QuietOf(s)'
  <2>1. /\ flight' = flight /\ tick' = tick /\ stopper' = stopper /\ going' \subseteq going
        /\ s \in history.quiet /\ doc' = doc
    BY <1>15 DEF RunEnds
  <2> QED
    BY <1>q, <1>s, <2>1 DEF QuietOf
<1>16. ASSUME Advance \/ Shutdown \/ Start \/ UNCHANGED vars, NEW s \in history'.quiet PROVE QuietOf(s)'
  <2>1. /\ flight' = flight /\ tick' = tick /\ stopper' = stopper /\ going' = going
        /\ doc' = doc
    BY <1>16 DEF Advance, Shutdown, Start, vars
  <2>2. history'.quiet = history.quiet
    <3>1. CASE Advance
      <4> DEFINE p == [u \in Schedules |-> IF doc[u] # Deleted /\ ~doc[u].enabled
                                           THEN history.paused[u] \cup {now + 1} ELSE history.paused[u]]
      <4>1. history' = [history EXCEPT !.paused = p]
        BY <3>1 DEF Advance
      <4> HIDE DEF p
      <4> QED
        BY <1>0, <4>1 DEF TypeOK
    <3>2. CASE Shutdown \/ Start \/ UNCHANGED vars
      BY <3>2 DEF Shutdown, Start, vars
    <3> QED
      BY <1>16, <3>1, <3>2
  <2>3. s \in history.quiet
    BY <1>16, <2>2
  <2> QED
    BY <1>q, <1>s, <2>1, <2>3 DEF QuietOf
<1> QED
  BY <1>1, <1>2, <1>3, <1>4, <1>5, <1>7, <1>8, <1>9, <1>10, <1>11, <1>12, <1>13, <1>14, <1>15,
     <1>16, StepKinds DEF Elsewhere

-----------------------------------------------------------------------------
(* The audit. *)

\* A local time of s that ended after the anchor is settled, as the fire log stands.
Accounted(s, key) ==
    \E i \in DOMAIN fires[s] : /\ fires[s][i].at > history.anchor[s]
                               /\ SettledBy(fires[s][i], doc[s].expression, key)

LEMMA CoveredIs ==
  ASSUME NEW s, NEW upto, NEW except
  PROVE  Covered(s, upto, except) <=>
            \A key \in {w.key : w \in Windows(doc[s].expression)} \ {except} :
                LET last == LastInstant(doc[s].expression, key)
                IN  history.anchor[s] < last /\ last <= upto => Accounted(s, key)
BY DEF Covered, Accounted

\* The same of the next state, for a document whose expression and anchor stay.
LaterAccounted(s, key) ==
    \E i \in DOMAIN fires'[s] : /\ fires'[s][i].at > history.anchor[s]
                                /\ SettledBy(fires'[s][i], doc[s].expression, key)

LEMMA StillAccounted ==
  ASSUME FiresGrow, NEW s \in Schedules, NEW key, Accounted(s, key)
  PROVE  LaterAccounted(s, key)
<1>1. PICK i \in DOMAIN fires[s] : /\ fires[s][i].at > history.anchor[s]
                                   /\ SettledBy(fires[s][i], doc[s].expression, key)
  BY DEF Accounted
<1>2. PICK j \in DOMAIN fires'[s] : fires'[s][j] = fires[s][i]
  BY DEF FiresGrow, Within
<1> QED
  BY <1>1, <1>2 DEF LaterAccounted

LEMMA AuditParts ==
  ASSUME TypeOK, AuditIsComplete, NEW s \in Schedules \ history.misread, doc[s] # Deleted,
         NEW w \in Windows(doc[s].expression),
         history.anchor[s] < LastInstant(doc[s].expression, w.key),
         LastInstant(doc[s].expression, w.key) <= doc[s].cursor
  PROVE  Accounted(s, w.key)
BY DEF AuditIsComplete, Accounted

\* A record that settles the last instant of a local time settles the local time.
LEMMA SettlingSettles ==
  ASSUME NEW e, NEW key, NEW f, Settling(f, [key |-> key, at |-> LastInstant(e, key)])
  PROVE  SettledBy(f, e, key)
BY DEF Settling, SettledBy

\* What an evaluation passes over is accounted for.
LEMMA EvaluationAccounts ==
  ASSUME IInv, NEW s, NEW d, NEW v, Evaluates(s, d, v), ~Outdated(s, d),
         v.decision \notin {"none", "disabled"} \cup Deferring, doc[s] # Deleted,
         s \notin history.misread,
         NEW w \in Windows(doc[s].expression),
         history.anchor[s] < LastInstant(doc[s].expression, w.key),
         LastInstant(doc[s].expression, w.key)
            <= Max2(doc[s].cursor, CursorAfter(v.window, v.upto, v.decision)),
         v.decision = "ask" => w.key # v.window.key
  PROVE  LaterAccounted(s, w.key)
<1> DEFINE e == doc[s].expression
           last == LastInstant(e, w.key)
           u == [key |-> w.key, at |-> last]
           to == CursorAfter(v.window, v.upto, v.decision)
<1>0. /\ TypeOK /\ TimeInv /\ AuditIsComplete
      /\ s \in Schedules /\ FiresGrow
      /\ d.expression = e /\ d.cursor = doc[s].cursor /\ Readable(d) /\ Complete(d, v)
      /\ Sound(s, d, v) /\ \A i \in DOMAIN v.records : IsIn(v.records[i], fires'[s])
  BY DEF IInv, Evaluates, Outdated
<1>1. e \in Expressions /\ doc[s].cursor \in Nat /\ history.anchor[s] \in Nat
      /\ history.anchor[s] <= doc[s].cursor
  BY <1>0, StateTypes DEF TimeInv
<1>2. last \in Nat /\ Leads(e, u)
  BY <1>1, LastInstantLeads
<1>3. last <= doc[s].cursor \/ (doc[s].cursor < last /\ last <= to)
  BY <1>1, <1>2 DEF Max2
<1>4. CASE last <= doc[s].cursor
  BY <1>0, <1>4, AuditParts, StillAccounted
<1>5. CASE doc[s].cursor < last /\ last <= to
  <2>1. u.at = last /\ u.key = w.key
    OBVIOUS
  <2> HIDE DEF u
  <2>2. Leads(d.expression, u) /\ d.cursor < u.at /\ u.at <= to
    BY <1>0, <1>2, <1>5, <2>1
  <2>3. PICK i \in DOMAIN v.records : Settling(v.records[i], u)
    <3> HIDE DEF to
    <3> QED
      BY <1>0, <2>1, <2>2 DEF Complete, to
  <2>4. PICK j \in DOMAIN fires'[s] : fires'[s][j] = v.records[i]
    BY <1>0 DEF IsIn
  <2>5. v.records[i].at > history.anchor[s]
    <3>1. v.records[i] \in Fires /\ d.cursor < v.records[i].at
      BY <1>0, ElementsOf DEF Sound, Records
    <3>2. v.records[i].at \in Nat
      BY <3>1, ConstantTypes DEF Fires
    <3> QED
      BY <1>0, <1>1, <3>1, <3>2
  <2>6. SettledBy(v.records[i], e, w.key)
    BY <2>3, SettlingSettles DEF u
  <2> QED
    BY <2>4, <2>5, <2>6 DEF LaterAccounted
<1> QED
  BY <1>3, <1>4, <1>5

\* The document of an evaluated schedule, by its decision.
LEMMA AuditStaysOnEvaluate ==
  ASSUME IInv, Evaluate, NEW s \in Schedules \ history'.misread, doc'[s] # Deleted,
         history'.anchor[s] = history.anchor[s], doc'[s].expression = doc[s].expression,
         doc[s] # Deleted,
         NEW w \in Windows(doc[s].expression),
         history.anchor[s] < LastInstant(doc[s].expression, w.key),
         LastInstant(doc[s].expression, w.key) <= doc'[s].cursor
  PROVE  LaterAccounted(s, w.key)
<1>0. TypeOK /\ TickInv /\ AuditIsComplete
  BY DEF IInv
<1>1. PICK t, d, v : Evaluates(t, d, v)
  BY <1>0, EvaluateIs
<1>2. s \notin history.misread /\ FiresGrow
  BY <1>1 DEF Evaluates
<1>3. CASE doc'[s].cursor = doc[s].cursor
  BY <1>0, <1>2, <1>3, AuditParts, StillAccounted
<1>4. CASE doc'[s].cursor # doc[s].cursor
  <2>1. s = t /\ v.decision \notin {"none", "ask"} \cup Deferring
        /\ doc'[s].cursor = Max2(doc[s].cursor, CursorAfter(v.window, v.upto, v.decision))
    BY <1>1, <1>4 DEF Evaluates
  <2>2. v.decision # "disabled"
    <3>1. doc[s].cursor \in Nat
      BY <1>0, StateTypes
    <3> QED
      BY <1>4, <2>1, <3>1 DEF CursorAfter, Max2
  <2>3. ~Outdated(s, d)
    BY <1>1, <2>1 DEF Evaluates
  <2> QED
    BY <1>1, <1>2, <2>1, <2>2, <2>3, EvaluationAccounts
<1> QED
  BY <1>3, <1>4

LEMMA AuditStaysOnSettle ==
  ASSUME IInv, NEW s \in Schedules \ history.misread, SettlesWindow(s), doc[s] # Deleted,
         NEW w \in Windows(doc[s].expression),
         history.anchor[s] < LastInstant(doc[s].expression, w.key),
         LastInstant(doc[s].expression, w.key) <= doc'[s].cursor
  PROVE  LaterAccounted(s, w.key)
<1> DEFINE e == doc[s].expression
           last == LastInstant(e, w.key)
           win == flight["tick"].window
           a == flight["tick"].answer
<1>0. TypeOK /\ TimeInv /\ FlightInv /\ AuditInv /\ AuditIsComplete /\ "tick" \in Callers
  BY DEF IInv, Callers
<1>1. Settles("tick", s, win, a)
  BY <1>0, SettleIs DEF SettlesWindow
<1>2. /\ FiresGrow /\ flight["tick"].phase = "answered" /\ flight["tick"].schedule = s
      /\ doc'[s].cursor = Max2(doc[s].cursor, win.at) /\ a \in {"dispatched", "refused"}
  BY <1>1 DEF Settles
<1>3. PICK f \in Fires : /\ f.key = win.key /\ f.at = win.at /\ f.reason = a
                         /\ IsIn(f, fires'[s])
  BY <1>1 DEF Settles
<1>4. /\ e \in Expressions /\ doc[s].cursor \in Nat /\ history.anchor[s] \in Nat
      /\ history.anchor[s] <= doc[s].cursor /\ win.at \in Nat
  BY <1>0, StateTypes DEF TimeInv
<1>5. last \in Nat
  BY <1>4, LastInstantLeads
<1>6. last <= doc[s].cursor \/ (doc[s].cursor < last /\ last <= win.at)
  BY <1>2, <1>4, <1>5 DEF Max2
<1>7. CASE last <= doc[s].cursor
  BY <1>0, <1>2, <1>7, AuditParts, StillAccounted
<1>8. CASE doc[s].cursor < last /\ last <= win.at /\ w.key # win.key
  <2>1. Covered(s, win.at, win.key)
    BY <1>0, <1>2 DEF AuditInv
  <2>2. Accounted(s, w.key)
    BY <1>8, <2>1, CoveredIs
  <2> QED
    BY <1>2, <2>2, StillAccounted
<1>9. CASE doc[s].cursor < last /\ last <= win.at /\ w.key = win.key
  <2>1. PICK j \in DOMAIN fires'[s] : fires'[s][j] = f
    BY <1>3 DEF IsIn
  <2>2. SettledBy(f, e, w.key)
    BY <1>2, <1>3, <1>9 DEF SettledBy, Deferring
  <2>3. f.at > history.anchor[s]
    BY <1>3, <1>4, <1>5, <1>9
  <2> QED
    BY <2>1, <2>2, <2>3 DEF LaterAccounted
<1> QED
  BY <1>6, <1>7, <1>8, <1>9

LEMMA AuditStays ==
  ASSUME IInv, [Next]_vars
  PROVE  AuditIsComplete'
<1>0. TypeOK /\ TypeOK' /\ TimeInv /\ FlightInv /\ AuditIsComplete /\ Moves
  BY TypesStay, StepMoves DEF IInv
<1> SUFFICES ASSUME NEW s \in Schedules \ history'.misread, doc'[s] # Deleted,
                    NEW w \in Windows(doc'[s].expression),
                    history'.anchor[s] < LastInstant(doc'[s].expression, w.key),
                    LastInstant(doc'[s].expression, w.key) <= doc'[s].cursor
             PROVE  \E i \in DOMAIN fires'[s] :
                       /\ fires'[s][i].at > history'.anchor[s]
                       /\ SettledBy(fires'[s][i], doc'[s].expression, w.key)
  BY DEF AuditIsComplete, SettledBy
<1>1. DocStep(s) /\ FiresGrow /\ s \notin history.misread /\ doc[s] # Deleted
  BY <1>0 DEF Moves, DocStep
<1>2. CASE doc'[s].cursor = now /\ history'.anchor[s] = now
  <2>1. doc'[s].expression \in Expressions /\ now \in Nat
    <3>1. doc'[s] \in Docs
      BY <1>0 DEF TypeOK
    <3> QED
      BY <1>0, <3>1, DocumentTypes, StateTypes
  <2>2. LastInstant(doc'[s].expression, w.key) \in Nat
    BY <2>1, LastInstantLeads
  <2> QED
    BY <1>2, <2>1, <2>2
<1>3. CASE /\ history'.anchor[s] = history.anchor[s] /\ doc'[s].expression = doc[s].expression
           /\ doc'[s].cursor # doc[s].cursor => Evaluate \/ SettlesWindow(s)
  <2>1. /\ w \in Windows(doc[s].expression)
        /\ history.anchor[s] < LastInstant(doc[s].expression, w.key)
        /\ LastInstant(doc[s].expression, w.key) <= doc'[s].cursor
    BY <1>3
  <2>2. LaterAccounted(s, w.key)
    <3>1. CASE doc'[s].cursor = doc[s].cursor
      BY <1>0, <1>1, <2>1, <3>1, AuditParts, StillAccounted
    <3>2. CASE Evaluate
      BY <1>1, <1>3, <2>1, <3>2, AuditStaysOnEvaluate
    <3>3. CASE SettlesWindow(s)
      BY <1>1, <2>1, <3>3, AuditStaysOnSettle
    <3> QED
      BY <1>3, <3>1, <3>2, <3>3
  <2> QED
    BY <1>3, <2>2 DEF LaterAccounted
<1> QED
  BY <1>1, <1>2, <1>3 DEF DocStep

LEMMA FlightAuditStays ==
  ASSUME IInv, [Next]_vars
  PROVE  AuditInv'
<1>0. /\ TypeOK /\ TypeOK' /\ TimeInv /\ TickInv /\ FlightInv /\ AuditInv /\ AuditIsComplete /\ Moves
      /\ "tick" \in Callers
  BY TypesStay, StepMoves DEF IInv, Callers
<1> DEFINE s == flight'["tick"].schedule
           win == flight'["tick"].window
<1> SUFFICES ASSUME flight'["tick"].phase # "none", s \notin history'.misread, doc'[s] # Deleted,
                    NEW w \in Windows(doc'[s].expression), w.key # win.key,
                    history'.anchor[s] < LastInstant(doc'[s].expression, w.key),
                    LastInstant(doc'[s].expression, w.key) <= win.at
             PROVE  \E i \in DOMAIN fires'[s] :
                       /\ fires'[s][i].at > history'.anchor[s]
                       /\ SettledBy(fires'[s][i], doc'[s].expression, w.key)
  BY DEF AuditInv, Covered, SettledBy
<1>1. s \in Schedules /\ win.at \in Nat /\ win.at <= now'
  <2>1. flight'["tick"] \in FlightRecords /\ FlightInv'
    BY <1>0, FlightStays DEF TypeOK, FlightRecords
  <2> QED
    BY <1>0, <2>1, ConstantTypes DEF FlightRecords, FlightInv
<1>2. DocStep(s) /\ FiresGrow /\ s \notin history.misread /\ doc[s] # Deleted
  BY <1>0, <1>1 DEF Moves, DocStep
<1>e. doc'[s].expression \in Expressions /\ now \in Nat /\ LastInstant(doc'[s].expression, w.key) \in Nat
  <2>1. doc'[s] \in Docs
    BY <1>0, <1>1 DEF TypeOK
  <2>2. doc'[s].expression \in Expressions /\ now \in Nat
    BY <1>0, <2>1, DocumentTypes, StateTypes
  <2> QED
    BY <2>2, LastInstantLeads
<1>3. CASE Evaluate
  <2>1. PICK t, d, v : Evaluates(t, d, v)
    BY <1>0, <1>3, EvaluateIs
  <2>2. v.decision = "ask" /\ flight'["tick"] = Awaiting("asked", t, v.window, "none")
    BY <2>1, LandedIs DEF Evaluates
  <2>3. s = t /\ win = v.window
    BY <2>2 DEF Awaiting
  <2>4. /\ history'.anchor[s] = history.anchor[s] /\ doc'[s].expression = doc[s].expression
        /\ ~Outdated(s, d)
    BY <2>1, <2>2, <2>3 DEF Evaluates
  <2>5. CursorAfter(v.window, v.upto, v.decision) = win.at
    BY <2>2, <2>3 DEF CursorAfter
  <2>6. LastInstant(doc[s].expression, w.key) <= Max2(doc[s].cursor, win.at)
    <3>1. doc[s].cursor \in Nat
      BY <1>0, <1>1, StateTypes
    <3> QED
      BY <1>1, <1>e, <2>4, <3>1 DEF Max2
  <2> HIDE DEF s, win
  <2>7. Evaluates(s, d, v) /\ v.decision \notin {"none", "disabled"} \cup Deferring
    BY <2>1, <2>2, <2>3 DEF Deferring
  <2>8. LaterAccounted(s, w.key)
    BY <1>2, <2>3, <2>4, <2>5, <2>6, <2>7, EvaluationAccounts
  <2> QED
    BY <2>4, <2>8 DEF LaterAccounted
<1>4. CASE ~Evaluate
  <2>1. flight["tick"].phase # "none" /\ s = flight["tick"].schedule /\ win = flight["tick"].window
    BY <1>4, FlightKept
  <2>2. win.at <= now
    BY <1>0, <2>1 DEF FlightInv
  <2>3. Covered(s, win.at, win.key)
    BY <1>0, <1>2, <2>1 DEF AuditInv
  <2> HIDE DEF s, win
  <2>4. CASE history'.anchor[s] = now
    BY <1>1, <1>e, <2>2, <2>4
  <2>5. CASE history'.anchor[s] = history.anchor[s] /\ doc'[s].expression = doc[s].expression
    <3>1. Accounted(s, w.key)
      BY <2>3, <2>5, CoveredIs
    <3>2. LaterAccounted(s, w.key)
      BY <1>1, <1>2, <3>1, StillAccounted
    <3> QED
      BY <2>5, <3>2 DEF LaterAccounted
  <2> QED
    BY <1>2, <2>4, <2>5 DEF DocStep
<1> QED
  BY <1>3, <1>4

-----------------------------------------------------------------------------
(* The runs. *)

LEMMA StoreGrows ==
  ASSUME IInv, [Next]_vars
  PROVE  started \subseteq started' /\ (bounds'.deaths = 0 => bounds.deaths = 0)
<1>0. TypeOK /\ TickInv /\ FlightInv
  BY DEF IInv
<1>1. CASE StartTick
  BY <1>1 DEF StartTick
<1>2. CASE Evaluate
  BY <1>0, <1>2, EvaluateIs DEF Evaluates
<1>3. ASSUME NEW c \in Callers, Post(c) \/ Settle(c)
      PROVE  started \subseteq started' /\ (bounds'.deaths = 0 => bounds.deaths = 0)
  BY <1>0, <1>3, PostIs, SettleIs DEF Posts, Settles
<1>4. ASSUME NEW s \in Schedules, RunNow(s)
      PROVE  started \subseteq started' /\ (bounds'.deaths = 0 => bounds.deaths = 0)
  BY <1>0, <1>4, RunNowIs
<1>5. CASE Exit
  BY <1>5 DEF Exit
<1>6. CASE Die
  BY <1>0, <1>6, DieIs
<1>7. ASSUME NEW s \in Schedules,
             Pause(s) \/ Resume(s) \/ Delete(s) \/ StopEverything(s) \/ \E e \in Expressions : Edit(s, e)
      PROVE  started' = started /\ bounds'.deaths = bounds.deaths
  <2>1. Request(s) /\ started' = started
    BY <1>7 DEF Pause, Resume, Delete, StopEverything, Edit
  <2> QED
    BY <1>0, <2>1, Requested
<1>8. CASE Shutdown
  BY <1>0, <1>8 DEF Shutdown, TypeOK
<1>9. CASE Advance \/ Start \/ EndStop \/ UNCHANGED vars
  BY <1>9 DEF Advance, Start, EndStop, vars
<1>10. ASSUME NEW r, RunEnds(r) \/ CancelRun(r) PROVE started' = started /\ bounds' = bounds
  BY <1>10 DEF RunEnds, CancelRun
<1> QED
  BY <1>1, <1>2, <1>3, <1>4, <1>5, <1>6, <1>7, <1>8, <1>9, <1>10, StepKinds DEF Elsewhere

LEMMA RunsStay ==
  ASSUME IInv, [Next]_vars
  PROVE  RunsInv'
<1>0. TypeOK /\ TickInv /\ FlightInv /\ RunsInv /\ Moves /\ started \subseteq started'
  BY StepMoves, StoreGrows DEF IInv
<1>c. Callers = {"tick", "manual"}
  BY DEF Callers
<1>1. ASSUME NEW s \in Schedules, NEW key \in Recorded(s)' PROVE <<s, key>> \in started'
  <2>1. PICK i \in DOMAIN fires'[s] : fires'[s][i].reason = "dispatched" /\ key = fires'[s][i].key
    BY <1>1 DEF Recorded
  <2> DEFINE f == fires'[s][i]
  <2>2. IsIn(f, fires[s]) \/ NewFire(s, f)
    BY <1>0 DEF Moves, FiresGrow
  <2>3. CASE IsIn(f, fires[s])
    <3>1. PICK j \in DOMAIN fires[s] : fires[s][j] = f
      BY <2>3 DEF IsIn
    <3>2. key \in Recorded(s)
      BY <2>1, <3>1 DEF Recorded
    <3> QED
      BY <1>0, <3>2 DEF RunsInv
  <2>4. CASE NewFire(s, f)
    <3>1. PICK c \in Callers : /\ flight[c].schedule = s /\ flight[c].answer = "dispatched"
                               /\ f.key = flight[c].window.key
      BY <2>1, <2>4 DEF NewFire
    <3>2. RunOf(c) \in started /\ RunOf(c) = <<s, key>>
      BY <1>0, <2>1, <3>1 DEF RunsInv, RunOf
    <3> QED
      BY <1>0, <3>2
  <2> QED
    BY <2>2, <2>3, <2>4
\* A caller's dispatch stays, ends, or begins without an answer.
<1>s. ASSUME NEW c \in Callers,
             flight'[c] = flight[c] \/ flight'[c].answer # "dispatched" \/ RunOf(c)' \in started'
      PROVE  flight'[c].answer = "dispatched" => RunOf(c)' \in started'
  BY <1>0, <1>s DEF RunsInv, RunOf
<1>2. ASSUME NEW c \in Callers, flight'[c].answer = "dispatched" PROVE RunOf(c)' \in started'
  <2>1. CASE StartTick \/ Elsewhere
    BY <1>2, <1>s, <2>1 DEF StartTick, Elsewhere
  <2>2. CASE Evaluate
    <3>1. PICK t, d, v : Evaluates(t, d, v)
      BY <1>0, <2>2, EvaluateIs
    <3>2. flight'[c] = flight[c] \/ flight'[c] = Awaiting("asked", t, v.window, "none")
      BY <1>c, <3>1 DEF Evaluates
    <3> QED
      BY <1>2, <1>s, <3>2 DEF Awaiting
  <2>3. ASSUME NEW u \in Callers, Post(u) PROVE RunOf(c)' \in started'
    <3>1. Posts(u)
      BY <1>0, <2>3, PostIs
    <3>2. CASE c = u
      BY <1>2, <3>1, <3>2 DEF Posts, RunOf
    <3>3. CASE c # u
      BY <1>2, <1>s, <3>1, <3>3 DEF Posts
    <3> QED
      BY <3>2, <3>3
  <2>4. ASSUME NEW u \in Callers, Settle(u) PROVE RunOf(c)' \in started'
    <3>1. Settles(u, flight[u].schedule, flight[u].window, flight[u].answer)
      BY <1>0, <2>4, SettleIs
    <3>2. flight'[c] = Landed \/ flight'[c] = flight[c]
      BY <3>1 DEF Settles
    <3> QED
      BY <1>2, <1>s, <3>2, LandedIs
  <2>5. ASSUME NEW t \in Schedules, RunNow(t) PROVE RunOf(c)' \in started'
    <3> DEFINE w == [key |-> ManualKey(now), at |-> now]
    <3>1. /\ flight'["tick"] = flight["tick"]
          /\ flight'["manual"] = Awaiting("asked", t, w, "none") \/ flight'["manual"] = Landed
      BY <1>0, <2>5, RunNowIs
    <3>2. c = "tick"
      BY <1>2, <1>c, <3>1, LandedIs DEF Awaiting
    <3> QED
      BY <1>2, <1>s, <3>1, <3>2
  <2>6. ~Forget
    BY <1>0, <1>2, Forgotten, LandedIs
  <2> QED
    BY <2>1, <2>2, <2>3, <2>4, <2>5, <2>6, StepKinds
<1> QED
  BY <1>1, <1>2 DEF RunsInv

-----------------------------------------------------------------------------
(* The overlap policy skip. *)

\* What is known of the runs of a schedule that nobody has started by hand.
SkipOf(s) ==
    /\ \A r, q \in Tracked(s) : r = q
    /\ \A i \in DOMAIN tick.queue : tick.queue[i].schedule = s =>
          Tracked(s) \subseteq {<<s, tick.queue[i].doc.last>>}
    /\ flight["tick"].phase # "none" /\ flight["tick"].schedule = s =>
          \A r \in Tracked(s) : InFlight(s, r)
    /\ doc[s] # Deleted /\ ~(flight["tick"].phase # "none" /\ flight["tick"].schedule = s) =>
          Tracked(s) \subseteq {<<s, doc[s].last>>}

LEMMA SkipParts ==
  SkipInv <=> (bounds.deaths = 0 => \A s \in SkipPolicy : ByTicks(s) => SkipOf(s))
<1>1. \A s : (flight["tick"].phase # "none" /\ flight["tick"].schedule = s =>
                Tracked(s) \subseteq {r \in going : InFlight(s, r)})
             <=> (flight["tick"].phase # "none" /\ flight["tick"].schedule = s =>
                    \A r \in Tracked(s) : InFlight(s, r))
  BY DEF Tracked
<1> QED
  BY <1>1 DEF SkipInv, SkipOf

LEMMA SkipPartsLater ==
  SkipInv' <=> (bounds'.deaths = 0 => \A s \in SkipPolicy : ByTicks(s)' => SkipOf(s)')
<1>1. \A s : (flight'["tick"].phase # "none" /\ flight'["tick"].schedule = s =>
                Tracked(s)' \subseteq {r \in going' : InFlight(s, r)'})
             <=> (flight'["tick"].phase # "none" /\ flight'["tick"].schedule = s =>
                    \A r \in Tracked(s)' : InFlight(s, r)')
  BY DEF Tracked
<1> QED
  BY <1>1 DEF SkipInv, SkipOf

\* Fewer tracked runs, and everything that decides about s as it was.
LEMMA SkipKept ==
  ASSUME NEW s \in SkipPolicy, SkipOf(s), Tracked(s)' \subseteq Tracked(s),
         \A i \in DOMAIN tick'.queue : \E j \in DOMAIN tick.queue : tick'.queue[i] = tick.queue[j],
         flight'["tick"].phase # "none" /\ flight'["tick"].schedule = s =>
             /\ flight["tick"].phase # "none" /\ flight["tick"].schedule = s
             /\ \A r : InFlight(s, r) => InFlight(s, r)',
         doc'[s] # Deleted /\ ~(flight'["tick"].phase # "none" /\ flight'["tick"].schedule = s) =>
             /\ doc[s] # Deleted /\ doc'[s].last = doc[s].last
             /\ ~(flight["tick"].phase # "none" /\ flight["tick"].schedule = s)
  PROVE  SkipOf(s)'
<1>1. \A r, q \in Tracked(s)' : r = q
  BY DEF SkipOf
<1>2. \A i \in DOMAIN tick'.queue : tick'.queue[i].schedule = s =>
         Tracked(s)' \subseteq {<<s, tick'.queue[i].doc.last>>}
  BY DEF SkipOf
<1>3. flight'["tick"].phase # "none" /\ flight'["tick"].schedule = s =>
         \A r \in Tracked(s)' : InFlight(s, r)'
  BY DEF SkipOf
<1>4. doc'[s] # Deleted /\ ~(flight'["tick"].phase # "none" /\ flight'["tick"].schedule = s) =>
         Tracked(s)' \subseteq {<<s, doc'[s].last>>}
  BY DEF SkipOf
<1> QED
  BY <1>1, <1>2, <1>3, <1>4 DEF SkipOf

\* The dispatched records of s.
LEMMA RecordedIs ==
  ASSUME NEW s
  PROVE  Recorded(s)' = {fires'[s][i].key : i \in {j \in DOMAIN fires'[s] : fires'[s][j].reason = "dispatched"}}
BY DEF Recorded

LEMMA TrackedIs ==
  ASSUME NEW s, Recorded(s)' \subseteq Recorded(s), going' \subseteq going,
         \A r \in going : InFlight(s, r)' => InFlight(s, r)
  PROVE  Tracked(s)' \subseteq Tracked(s)
<1> SUFFICES ASSUME NEW r \in Tracked(s)' PROVE r \in Tracked(s)
  OBVIOUS
<1>1. r \in going' /\ r[1] = s /\ (r[2] \in Recorded(s)' \/ InFlight(s, r)')
  BY DEF Tracked
<1> QED
  BY <1>1 DEF Tracked
LEMMA NoneTracked ==
  ASSUME NEW s, Tracked(s)' = {}
  PROVE  SkipOf(s)'
BY DEF SkipOf

\* What a settled dispatch adds to the dispatched records.
LEMMA SettledRecords ==
  ASSUME TypeOK, NEW c \in Callers, NEW s \in Schedules, NEW w, NEW a, Settles(c, s, w, a)
  PROVE  /\ \A u \in Schedules \ {s} : Recorded(u)' = Recorded(u)
         /\ Recorded(s)' \subseteq Recorded(s) \cup {w.key}
         /\ a # "dispatched" => Recorded(s)' \subseteq Recorded(s)
<1>1. /\ fires \in [Schedules -> Seq(Fires)] /\ fires' = [fires EXCEPT ![s] = Append(@, Fire(w, w.at, a))]
  BY DEF TypeOK, Settles
<1>2. \A u \in Schedules \ {s} : Recorded(u)' = Recorded(u)
  BY <1>1 DEF Recorded
<1> DEFINE f == Fire(w, w.at, a)
<1>3. f \in Fires /\ f.key = w.key /\ f.reason = a
  <2>1. PICK g \in Fires : g.key = w.key /\ g.at = w.at /\ g.upto = w.at /\ g.reason = a
    BY DEF Settles
  <2> QED
    BY <2>1 DEF Fire, Fires
<1> HIDE DEF f
<1>4. /\ fires[s] \in Seq(Fires) /\ fires'[s] = Append(fires[s], f)
  BY <1>1 DEF f
<1>5. \A i \in DOMAIN fires'[s] : (i \in DOMAIN fires[s] /\ fires'[s][i] = fires[s][i])
                                  \/ fires'[s][i] = f
  BY <1>3, <1>4, AppendedTo
<1>6. ASSUME NEW key \in Recorded(s)' PROVE key \in Recorded(s) \/ (key = w.key /\ a = "dispatched")
  <2>1. PICK i \in DOMAIN fires'[s] : fires'[s][i].reason = "dispatched" /\ key = fires'[s][i].key
    BY <1>6 DEF Recorded
  <2>2. CASE i \in DOMAIN fires[s] /\ fires'[s][i] = fires[s][i]
    BY <2>1, <2>2 DEF Recorded
  <2>3. CASE fires'[s][i] = f
    BY <1>3, <2>1, <2>3
  <2> QED
    BY <1>5, <2>2, <2>3
<1> QED
  BY <1>2, <1>6

LEMMA SkipStays ==
  ASSUME IInv, [Next]_vars
  PROVE  SkipInv'
<1> SUFFICES ASSUME bounds'.deaths = 0, NEW s \in SkipPolicy, ByTicks(s)' PROVE SkipOf(s)'
  BY SkipPartsLater
<1>0. /\ TypeOK /\ TickInv /\ FlightInv /\ RunsInv /\ Moves
      /\ (\A c \in Callers : FlightOf(c)) /\ FlightOfTick
      /\ s \in Schedules /\ going \subseteq started
      /\ \A r \in going : r = <<r[1], r[2]>>
  <2>1. TypeOK /\ TickInv /\ FlightInv /\ RunsInv /\ Moves
    BY StepMoves DEF IInv
  <2>2. s \in Schedules /\ going \subseteq started /\ started \subseteq Runs
    BY <2>1, ConstantTypes DEF TypeOK
  <2>3. \A r \in going : r = <<r[1], r[2]>>
    BY <2>2 DEF Runs
  <2> QED
    BY <2>1, <2>2, <2>3, FlightParts
<1>1. bounds.deaths = 0 /\ ByTicks(s) /\ SkipOf(s)
  BY StoreGrows, SkipParts DEF ByTicks, IInv
<1>c. "tick" \in Callers /\ "manual" \in Callers /\ Callers = {"tick", "manual"}
  BY DEF Callers
\* Nobody starts s by hand.
<1>m. /\ \A key \in ManualKeys : <<s, key>> \notin started' /\ <<s, key>> \notin started
  BY <1>1 DEF ByTicks
<1>h. flight["manual"].phase # "none" => flight["manual"].window.key \in ManualKeys
  BY <1>0, <1>c DEF FlightOf
<1>q. ASSUME tick'.queue = tick.queue
      PROVE  \A i \in DOMAIN tick'.queue : \E j \in DOMAIN tick.queue : tick'.queue[i] = tick.queue[j]
  BY <1>q
<1>2. CASE StartTick
  <2>1. /\ flight' = flight /\ going' = going /\ fires' = fires /\ doc' = doc
        /\ tick' = TickAfter(Listing, MaxFires) /\ ~tick.active
    BY <1>2 DEF StartTick
  <2>2. flight["tick"].phase = "none" /\ flight'["tick"].phase = "none"
    BY <1>0, <2>1 DEF FlightOfTick
  <2>3. Tracked(s)' = Tracked(s)
    BY <2>1 DEF Tracked, Recorded, InFlight
  <2>4. tick'.queue = Listing
    BY <1>0, <2>1, ListingIs, TickAfterIs, ConstantTypes
  <2>5. \A i \in DOMAIN Listing : Listing[i].doc = doc[Listing[i].schedule] /\ Listing[i].doc # Deleted
    BY <1>0, ListingIs
  <2>6. doc[s] # Deleted => Tracked(s) \subseteq {<<s, doc[s].last>>}
    BY <1>1, <2>2 DEF SkipOf
  <2> HIDE DEF Listing
  <2>7. \A i \in DOMAIN tick'.queue : tick'.queue[i].schedule = s =>
           Tracked(s)' \subseteq {<<s, tick'.queue[i].doc.last>>}
    BY <2>3, <2>4, <2>5, <2>6
  <2>8. \A r, q \in Tracked(s)' : r = q
    BY <1>1, <2>3 DEF SkipOf
  <2> QED
    BY <2>1, <2>2, <2>3, <2>6, <2>7, <2>8 DEF SkipOf
<1>3. CASE Evaluate
  <2>1. PICK t, d, v : Evaluates(t, d, v)
    BY <1>0, <1>3, EvaluateIs
  <2>2. /\ flight["tick"] = Landed /\ going' = going /\ t \in Schedules
        /\ flight'["tick"] = IF v.decision = "ask" THEN Awaiting("asked", t, v.window, "none")
                             ELSE flight["tick"]
    BY <2>1 DEF Evaluates
  <2>3. flight["tick"].phase = "none" /\ flight'["tick"].answer = "none"
        /\ (flight'["tick"].phase # "none" => v.decision = "ask" /\ flight'["tick"].schedule = t)
    BY <2>2, LandedIs DEF Awaiting
  <2>4. Recorded(s)' = Recorded(s)
    BY <1>0, <2>1, RecordedIs DEF Evaluates
  <2>5. Tracked(s)' \subseteq Tracked(s)
    BY <2>2, <2>3, <2>4, TrackedIs DEF InFlight
  <2>6. CASE s = t /\ v.decision = "ask"
    <3>1. /\ 1 \in DOMAIN tick.queue /\ tick.queue[1].schedule = s /\ tick.queue[1].doc = d
          /\ <<s, d.last>> \notin going
      BY <2>1, <2>6 DEF Evaluates, Sound
    <3>2. Tracked(s) \subseteq {<<s, d.last>>} /\ Tracked(s) \subseteq going
      BY <1>1, <3>1 DEF SkipOf, Tracked
    <3>3. Tracked(s)' = {}
      BY <2>5, <3>1, <3>2
    <3> QED
      BY <3>3, NoneTracked
  <2>7. CASE ~(s = t /\ v.decision = "ask")
    <3>1. ~(flight'["tick"].phase # "none" /\ flight'["tick"].schedule = s)
      BY <2>3, <2>7
    <3>2. doc'[s] # Deleted => doc[s] # Deleted /\ doc'[s].last = doc[s].last
      BY <1>0, <2>1 DEF Evaluates
    <3>3. \A i \in DOMAIN tick'.queue : \E j \in DOMAIN tick.queue : tick'.queue[i] = tick.queue[j]
      BY <2>1 DEF Evaluates
    <3> QED
      BY <1>1, <2>3, <2>5, <3>1, <3>2, <3>3, SkipKept
  <2> QED
    BY <2>6, <2>7
<1>4. CASE Post("manual")
  <2>1. Posts("manual")
    BY <1>0, <1>4, <1>c, PostIs
  <2>2. /\ flight'["tick"] = flight["tick"] /\ fires' = fires /\ doc' = doc /\ tick' = tick
        /\ flight["manual"].phase = "asked"
        /\ going' \subseteq going \cup {RunOf("manual")} /\ going' \subseteq started'
    BY <2>1, <1>c DEF Posts
  <2>3. \A r \in going' : r[1] = s => r \in going
    <3> SUFFICES ASSUME NEW r \in going', r[1] = s, r = RunOf("manual") PROVE FALSE
      BY <2>2
    <3>1. r = <<s, flight["manual"].window.key>> /\ r \in started'
      BY <2>2 DEF RunOf
    <3> QED
      BY <1>h, <1>m, <2>2, <3>1
  <2>4. Tracked(s)' \subseteq Tracked(s)
    BY <2>2, <2>3 DEF Tracked, Recorded, InFlight
  <2>5. \A r : InFlight(s, r) => InFlight(s, r)'
    BY <2>2 DEF InFlight
  <2> QED
    BY <1>1, <1>q, <2>2, <2>4, <2>5, SkipKept
<1>5. CASE Post("tick")
  <2>1. Posts("tick")
    BY <1>0, <1>5, <1>c, PostIs
  <2>2. /\ fires' = fires /\ doc' = doc /\ tick' = tick
        /\ flight["tick"].phase = "asked" /\ flight'["tick"].phase = "answered"
        /\ flight'["tick"].schedule = flight["tick"].schedule
        /\ flight'["tick"].window = flight["tick"].window
        /\ going' \subseteq going \cup {RunOf("tick")}
        /\ RunOf("tick") \in started => going' = going
        /\ flight'["tick"].answer = "dispatched" => RunOf("tick") \in started'
    BY <2>1 DEF Posts
  <2>3. flight["tick"].answer = "none" /\ \A r : ~InFlight(s, r)
    BY <1>0, <1>c, <2>2 DEF FlightOf, InFlight
  <2>4. CASE flight["tick"].schedule = s
    <3>1. \A r \in going : r[1] = s => r[2] \notin Recorded(s)
      BY <1>1, <2>2, <2>3, <2>4 DEF SkipOf, Tracked
    <3>2. ASSUME NEW r \in Tracked(s)' PROVE r = RunOf("tick") /\ InFlight(s, r)'
      <4>1. r \in going' /\ r[1] = s /\ (r[2] \in Recorded(s) \/ InFlight(s, r)')
        BY <2>2, <3>2 DEF Tracked, Recorded
      <4>2. InFlight(s, r)' => r = RunOf("tick")
        BY <2>2, <2>4 DEF InFlight, RunOf
      <4>3. ASSUME r[2] \in Recorded(s) PROVE FALSE
        <5>1. r \notin going
          BY <3>1, <4>1, <4>3
        <5>2. r = RunOf("tick")
          BY <2>2, <4>1, <5>1
        <5>3. r = <<s, r[2]>>
          BY <2>4, <5>2 DEF RunOf
        <5>4. RunOf("tick") \in started
          BY <1>0, <4>3, <5>2, <5>3 DEF RunsInv
        <5> QED
          BY <2>2, <4>1, <5>1, <5>4
      <4> QED
        BY <4>1, <4>2, <4>3
    <3>3. \A i \in DOMAIN tick'.queue : tick'.queue[i].schedule # s
      BY <1>0, <2>2, <2>4 DEF FlightOfTick
    <3>4. flight'["tick"].phase # "none" /\ flight'["tick"].schedule = s
      BY <2>2, <2>4
    <3> QED
      BY <3>2, <3>3, <3>4 DEF SkipOf
  <2>5. CASE flight["tick"].schedule # s
    <3>1. \A r \in going' : r[1] = s => r \in going
      BY <2>2, <2>5 DEF RunOf
    <3>2. \A r : ~InFlight(s, r)'
      BY <2>2, <2>5 DEF InFlight
    <3>3. Tracked(s)' \subseteq Tracked(s)
      BY <2>2, <3>1, <3>2 DEF Tracked, Recorded
    <3> QED
      BY <1>1, <1>q, <2>2, <2>5, <3>3, SkipKept
  <2> QED
    BY <2>4, <2>5
<1>6. CASE Settle("manual")
  <2> DEFINE t == flight["manual"].schedule
             w == flight["manual"].window
             a == flight["manual"].answer
  <2>1. Settles("manual", t, w, a) /\ t \in Schedules
    BY <1>0, <1>6, <1>c, SettleIs, StateTypes
  <2>2. /\ flight'["tick"] = flight["tick"] /\ going' = going /\ tick'.queue = tick.queue
        /\ flight["manual"].phase = "answered" /\ a \in {"dispatched", "refused"}
    BY <1>c, <2>1 DEF Settles
  <2>3. ~(t = s /\ a = "dispatched")
    <3> SUFFICES ASSUME t = s, a = "dispatched" PROVE FALSE
      OBVIOUS
    <3>1. RunOf("manual") \in started /\ RunOf("manual") = <<s, w.key>> /\ w.key \in ManualKeys
      BY <1>0, <1>c, <1>h, <2>2 DEF RunsInv, RunOf
    <3> QED
      BY <1>m, <3>1
  <2>4. Recorded(s)' \subseteq Recorded(s)
    <3> HIDE DEF t, w, a
    <3> QED
      BY <1>0, <1>c, <2>1, <2>2, <2>3, SettledRecords
  <2>5. doc'[s] # Deleted => doc[s] # Deleted /\ doc'[s].last = doc[s].last
    <3> HIDE DEF t, w, a
    <3> QED
      BY <1>0, <2>1, <2>3 DEF Settles
  <2>6. Tracked(s)' \subseteq Tracked(s)
    BY <2>2, <2>4, TrackedIs DEF InFlight
  <2>7. \A r : InFlight(s, r) => InFlight(s, r)'
    BY <2>2 DEF InFlight
  <2> QED
    BY <1>1, <1>q, <2>2, <2>5, <2>6, <2>7, SkipKept
<1>7. CASE Settle("tick")
  <2> DEFINE t == flight["tick"].schedule
             w == flight["tick"].window
             a == flight["tick"].answer
  <2>1. Settles("tick", t, w, a) /\ t \in Schedules
    BY <1>0, <1>7, <1>c, SettleIs, StateTypes
  <2>2. /\ flight'["tick"] = Landed /\ going' = going /\ tick'.queue = tick.queue
        /\ flight["tick"].phase = "answered" /\ a \in {"dispatched", "refused"}
    BY <1>c, <2>1 DEF Settles
  <2>3. flight'["tick"].phase = "none" /\ \A r : ~InFlight(s, r)'
    BY <2>2, LandedIs DEF InFlight
  <2>4. CASE t # s
    <3>1. Recorded(s)' \subseteq Recorded(s) /\ doc'[s] = doc[s]
      <4> HIDE DEF t, w, a
      <4>1. Recorded(s)' = Recorded(s)
        BY <1>0, <1>c, <2>1, <2>4, SettledRecords
      <4>2. doc'[s] = doc[s]
        BY <1>0, <2>1, <2>4 DEF Settles
      <4> QED
        BY <4>1, <4>2
    <3>2. Tracked(s)' \subseteq Tracked(s)
      BY <2>2, <2>3, <3>1, TrackedIs
    <3> QED
      BY <1>1, <1>q, <2>2, <2>3, <2>4, <3>1, <3>2, SkipKept
  <2>5. CASE t = s /\ a # "dispatched"
    <3>1. Recorded(s)' \subseteq Recorded(s)
      <4> HIDE DEF t, w, a
      <4> QED
        BY <1>0, <1>c, <2>1, <2>5, SettledRecords
    <3>2. Tracked(s)' \subseteq Tracked(s)
      BY <2>2, <2>3, <3>1, TrackedIs
    <3>3. Tracked(s) = {}
      BY <1>1, <2>2, <2>5 DEF SkipOf, InFlight
    <3> QED
      BY <3>2, <3>3, NoneTracked
  <2>6. CASE t = s /\ a = "dispatched"
    <3>1. Recorded(s)' \subseteq Recorded(s) \cup {w.key}
      <4> HIDE DEF t, w, a
      <4> QED
        BY <1>0, <1>c, <2>1, <2>6, SettledRecords
    <3>2. ASSUME NEW r \in Tracked(s) PROVE r = <<s, w.key>>
      BY <1>1, <2>2, <2>6, <3>2 DEF SkipOf, InFlight
    <3>3. ASSUME NEW r \in Tracked(s)' PROVE r = <<s, w.key>>
      <4>1. r \in going /\ r[1] = s /\ (r[2] \in Recorded(s) \/ r[2] = w.key)
        BY <2>2, <2>3, <3>1, <3>3 DEF Tracked
      <4>2. CASE r[2] \in Recorded(s)
        BY <3>2, <4>1, <4>2 DEF Tracked
      <4>3. CASE r[2] = w.key
        BY <1>0, <4>1, <4>3
      <4> QED
        BY <4>1, <4>2, <4>3
    <3>4. \A i \in DOMAIN tick'.queue : tick'.queue[i].schedule # s
      BY <1>0, <2>2, <2>6 DEF FlightOfTick
    <3>5. doc'[s] # Deleted => doc'[s].last = w.key
      <4> HIDE DEF t, w, a
      <4> QED
        BY <2>1, <2>6 DEF Settles
    <3> QED
      BY <2>3, <3>3, <3>4, <3>5 DEF SkipOf
  <2> QED
    BY <2>4, <2>5, <2>6
<1>8. ASSUME NEW t \in Schedules, RunNow(t) PROVE SkipOf(s)'
  <2>1. /\ flight'["tick"] = flight["tick"] /\ going' = going /\ doc' = doc /\ tick' = tick
    BY <1>0, <1>8, RunNowIs
  <2>2. Recorded(s)' = Recorded(s)
    <3>1. {fires'[s][i].key : i \in {j \in DOMAIN fires'[s] : fires'[s][j].reason = "dispatched"}}
             = Recorded(s)
      BY <1>0, <1>8, RunNowIs
    <3> QED
      BY <3>1, RecordedIs
  <2>3. Tracked(s)' \subseteq Tracked(s)
    BY <2>1, <2>2, TrackedIs DEF InFlight
  <2>4. \A r : InFlight(s, r) => InFlight(s, r)'
    BY <2>1 DEF InFlight
  <2> QED
    BY <1>1, <1>q, <2>1, <2>3, <2>4, SkipKept
<1>9. CASE Forget /\ Exit
  <2>1. /\ ~tick.active /\ going' = going /\ fires' = fires /\ doc' = doc
    BY <1>9 DEF Exit
  <2>2. flight["tick"].phase = "none"
    BY <1>0, <2>1 DEF FlightOfTick
  <2>3. /\ tick'.queue = <<>> /\ DOMAIN tick'.queue = {} /\ flight'["tick"] = Landed
    BY <1>0, <1>9, <1>c, Forgotten DEF NoTick
  <2>4. flight'["tick"].phase = "none" /\ \A r : ~InFlight(s, r)'
    BY <2>3, LandedIs DEF InFlight
  <2>5. Recorded(s)' = Recorded(s)
    BY <2>1 DEF Recorded
  <2>6. Tracked(s)' \subseteq Tracked(s)
    BY <2>1, <2>4, <2>5, TrackedIs
  <2> QED
    BY <1>1, <2>1, <2>2, <2>3, <2>4, <2>6, SkipKept
<1>10. CASE Forget /\ Die
  BY <1>0, <1>10, DieIs
<1>11. CASE Elsewhere
  <2>1. /\ flight' = flight /\ tick' = tick
        /\ \/ \E t \in Schedules : Pause(t) \/ Resume(t) \/ Delete(t) \/ StopEverything(t)
                                   \/ \E e \in Expressions : Edit(t, e)
           \/ Advance \/ (\E r \in going : RunEnds(r)) \/ Shutdown \/ Start \/ EndStop
           \/ (\E r \in stopper.todo : CancelRun(r)) \/ UNCHANGED vars
    BY <1>11 DEF Elsewhere
  <2>a. ASSUME going' \subseteq going, fires' = fires,
               doc'[s] # Deleted => doc[s] # Deleted /\ doc'[s].last = doc[s].last
        PROVE  SkipOf(s)'
    <3>1. Recorded(s)' = Recorded(s)
      BY <2>a DEF Recorded
    <3>2. Tracked(s)' \subseteq Tracked(s)
      BY <2>1, <2>a, <3>1, TrackedIs DEF InFlight
    <3>3. \A r : InFlight(s, r) => InFlight(s, r)'
      BY <2>1 DEF InFlight
    <3> QED
      BY <1>1, <1>q, <2>1, <2>a, <3>2, <3>3, SkipKept
  <2>2. ASSUME NEW t \in Schedules,
               Pause(t) \/ Resume(t) \/ Delete(t) \/ StopEverything(t) \/ \E e \in Expressions : Edit(t, e)
        PROVE  SkipOf(s)'
    <3>1. going' = going /\ fires' = fires
      BY <2>2 DEF Pause, Resume, Delete, StopEverything, Edit
    <3>2. doc'[s] # Deleted => doc[s] # Deleted /\ doc'[s].last = doc[s].last
      <4>1. CASE Pause(t) \/ StopEverything(t)
        BY <1>0, <4>1, PausedDoc
      <4>2. CASE Resume(t)
        BY <1>0, <4>2, ResumedDoc
      <4>3. CASE Delete(t)
        BY <1>0, <4>3, DeletedDoc
      <4>4. ASSUME NEW e \in Expressions, Edit(t, e)
            PROVE  doc'[s] # Deleted => doc[s] # Deleted /\ doc'[s].last = doc[s].last
        BY <1>0, <4>4, EditedDoc
      <4> QED
        BY <2>2, <4>1, <4>2, <4>3, <4>4
    <3> QED
      BY <2>a, <3>1, <3>2
  <2>3. CASE Advance \/ Shutdown \/ Start \/ EndStop \/ UNCHANGED vars
    <3>1. going' = going /\ fires' = fires /\ doc' = doc
      BY <2>3 DEF Advance, Shutdown, Start, EndStop, vars
    <3> QED
      BY <2>a, <3>1
  <2>4. ASSUME NEW r, RunEnds(r) \/ CancelRun(r) PROVE SkipOf(s)'
    <3>1. going' \subseteq going /\ fires' = fires /\ doc' = doc
      BY <2>4 DEF RunEnds, CancelRun
    <3> QED
      BY <2>a, <3>1
  <2> QED
    BY <2>1, <2>2, <2>3, <2>4
<1> QED
  BY <1>2, <1>3, <1>4, <1>5, <1>6, <1>7, <1>8, <1>9, <1>10, <1>11, <1>c, StepKinds

-----------------------------------------------------------------------------
(* The theorems. *)

LEMMA InitIsSound == Init => IInv
<1> SUFFICES ASSUME Init PROVE IInv
  OBVIOUS
<1>c. "tick" \in Callers /\ "manual" \in Callers
  BY DEF Callers
<1>t. /\ 0 \in 0..Horizon /\ 0 \in 0..MaxFires /\ 0 \in 0..MaxRequests /\ 0 \in 0..MaxMishaps
      /\ Horizon \in Nat /\ Order[1] \in Schedules
  BY ConstantTypes
<1>1. /\ now = 0 /\ started = {} /\ going = {} /\ asked = {} /\ process = "up" /\ tick = NoTick /\ stopper = NoStop
      /\ bounds = [requests |-> 0, mishaps |-> 0, deaths |-> 0]
      /\ flight \in [Callers -> {Landed}] /\ \A c \in Callers : flight[c] = Landed
      /\ doc = [s \in Schedules |-> Created(s, 0)]
      /\ fires \in [Schedules -> {<<>>}] /\ \A s \in Schedules : fires[s] = <<>> /\ DOMAIN fires[s] = {}
      /\ history \in [anchor : [Schedules -> {0}], paused : [Schedules -> {{}}],
                      misread : {{}}, quiet : {{}}]
      /\ history.misread = {} /\ history.quiet = {}
      /\ \A s \in Schedules : history.anchor[s] = 0 /\ history.paused[s] = {}
  BY DEF Init
<1>2. \A s \in Schedules : doc[s] \in Documents /\ doc[s].cursor = 0
  <2> SUFFICES ASSUME NEW s \in Schedules PROVE Created(s, 0) \in Documents /\ Created(s, 0).cursor = 0
    BY <1>1
  <2>1. Initially[s] \in Expressions /\ (s \in Enabled) \in BOOLEAN
    BY ConstantTypes
  <2> QED
    BY <1>t, <2>1 DEF Created, Documents
<1>3. /\ tick.queue = <<>> /\ DOMAIN tick.queue = {} /\ ~tick.active /\ ~stopper.active
      /\ tick \in Ticks
  <2>1. <<>> \in Seq(QueueEntries)
    OBVIOUS
  <2> QED
    BY <1>1, <1>t, <2>1 DEF NoTick, NoStop, Ticks
<1>4. TypeOK
  <2>1. doc \in [Schedules -> Docs]
    BY <1>1, <1>2 DEF Docs
  <2>2. fires \in [Schedules -> Seq(Fires)]
    <3>1. <<>> \in Seq(Fires)
      OBVIOUS
    <3> QED
      BY <1>1, <3>1
  <2>3. flight \in [Callers -> FlightRecords]
    BY <1>1, LandedIs
  <2>4. stopper \in [active : BOOLEAN, schedule : Schedules, todo : SUBSET Runs]
    BY <1>1, <1>t DEF NoStop
  <2>5. history \in Histories
    BY <1>1, <1>t DEF Histories
  <2>6. bounds \in [requests : 0..MaxRequests, mishaps : 0..MaxMishaps, deaths : 0..MaxMishaps]
        /\ bounds.deaths <= bounds.mishaps
    BY <1>1, <1>t
  <2> QED
    BY <1>1, <1>3, <1>t, <2>1, <2>2, <2>3, <2>4, <2>5, <2>6
       DEF TypeOK, FlightRecords, Histories, Ticks, QueueEntries
<1>5. FlightInv
  BY <1>1, <1>c, <1>t, LandedIs DEF FlightInv
<1>6. TickInv
  BY <1>1, <1>3 DEF TickInv
<1>7. TimeInv
  BY <1>1, <1>2 DEF TimeInv
<1>8. PausedInv /\ QuietInv
  BY <1>1, <1>c, LandedIs DEF PausedInv, QuietInv
<1>9. RunsInv
  BY <1>1, LandedIs DEF RunsInv, Recorded
<1>10. SkipInv
  BY <1>1, <1>3 DEF SkipInv, Tracked
<1>11. AuditInv
  BY <1>1, <1>c, LandedIs DEF AuditInv
<1>12. AuditIsComplete
  <2> SUFFICES ASSUME NEW s \in Schedules, doc[s] # Deleted, NEW key \in {w.key : w \in Windows(doc[s].expression)},
                      history.anchor[s] < LastInstant(doc[s].expression, key),
                      LastInstant(doc[s].expression, key) <= doc[s].cursor
               PROVE  FALSE
    BY DEF AuditIsComplete
  <2>1. PICK w \in Windows(doc[s].expression) : key = w.key
    OBVIOUS
  <2>2. doc[s].expression \in Expressions /\ history.anchor[s] = 0 /\ doc[s].cursor = 0
    BY <1>1, <1>2 DEF Documents
  <2>3. LastInstant(doc[s].expression, key) \in Nat
    BY <2>1, <2>2, LastInstantLeads
  <2> QED
    BY <2>2, <2>3
<1>13. PausesHold
  BY <1>1 DEF PausesHold, StoppedStaysStopped, PausedWindowsNeverRun
<1> QED
  BY <1>4, <1>5, <1>6, <1>7, <1>8, <1>9, <1>10, <1>11, <1>12, <1>13 DEF IInv

LEMMA StepIsSound ==
  ASSUME IInv, [Next]_vars
  PROVE  IInv'
BY TypesStay, TimeStays, TickStays, FlightStays, PausesStay, StopsStay, RunsStay, SkipStays,
   FlightAuditStays, AuditStays, PausedWindowsStay DEF IInv, PausesHold

LEMMA AtMostOneOf ==
  ASSUME NEW S, \A r, q \in S : r = q
  PROVE  Cardinality(S) <= 1
<1>1. CASE S = {}
  BY <1>1, FS_EmptySet
<1>2. CASE S # {}
  <2>1. PICK r : S = {r}
    BY <1>2
  <2> QED
    BY <2>1, FS_Singleton
<1> QED
  BY <1>1, <1>2

LEMMA TrackedRunsAreAll == IInv => SkipMeansOneRun
<1> SUFFICES ASSUME IInv, bounds.deaths = 0, NEW s \in SkipPolicy,
                    \A r \in {q \in started : q[1] = s} :
                       /\ r[2] \notin ManualKeys
                       /\ \/ r[2] \in Recorded(s)
                          \/ \E c \in Callers : /\ flight[c].answer = "dispatched"
                                                /\ <<flight[c].schedule, flight[c].window.key>> = r
             PROVE  Cardinality({q \in started : q[1] = s} \cap going) <= 1
  BY DEF SkipMeansOneRun
<1> DEFINE mine == {q \in started : q[1] = s} \cap going
<1>1. ByTicks(s)
  BY DEF ByTicks
<1>2. \A r, q \in Tracked(s) : r = q
  BY <1>1 DEF IInv, SkipInv
<1>3. ASSUME NEW r \in mine PROVE r \in Tracked(s)
  <2>1. r \in going /\ r[1] = s /\ r[2] \notin ManualKeys
    BY <1>3
  <2>2. CASE r[2] \in Recorded(s)
    BY <2>1, <2>2 DEF Tracked
  <2>3. ASSUME NEW c \in Callers, flight[c].answer = "dispatched",
               <<flight[c].schedule, flight[c].window.key>> = r
        PROVE  r \in Tracked(s)
    <3>1. flight[c].phase # "none" /\ flight[c].window.key = r[2] /\ flight[c].schedule = s
      BY <2>1, <2>3, LandedIs DEF IInv, FlightInv
    <3>2. c = "tick"
      BY <2>1, <3>1 DEF IInv, FlightInv, Callers
    <3> QED
      BY <2>1, <2>3, <3>1, <3>2 DEF Tracked, InFlight
  <2> QED
    BY <1>3, <2>2, <2>3
<1>4. \A r, q \in mine : r = q
  BY <1>2, <1>3
<1> QED
  BY <1>4, AtMostOneOf

THEOREM SchedulerIsInductive == Spec => []IInv
<1>1. Init => IInv
  BY InitIsSound
<1>2. IInv /\ [Next]_vars => IInv'
  BY StepIsSound
<1> QED
  BY <1>1, <1>2, PTL DEF Spec

(* The variables of the scheduler have their types: in particular a run     *)
(* that is going is in the store, the cursors and the budget of a tick stay *)
(* in their ranges, and a process that is down awaits nothing.              *)
THEOREM SchedulerTypes == Spec => []TypeOK
<1>1. IInv => TypeOK
  BY DEF IInv
<1> QED
  BY <1>1, SchedulerIsInductive, PTL

(* A schedule that was paused or stopped is quiet, for any number of        *)
(* schedules, requests, deaths and restarts: a run of a schedule that was   *)
(* stopped for good is over or has been asked to stop, none starts, and no  *)
(* window that came during a pause has started one (POST disable, enable    *)
(* and stop, api/schedules.ts).                                             *)
THEOREM PausedAndStoppedSchedulesAreQuiet == Spec => []PausesHold
<1>1. IInv => PausesHold
  BY DEF IInv
<1> QED
  BY <1>1, SchedulerIsInductive, PTL

(* Under the overlap policy skip, a schedule that nobody starts by hand has *)
(* at most one run going while no process has died, however many windows    *)
(* come due while a dispatch is awaited (#decide, scheduler.ts).            *)
THEOREM SkipLeavesOneRun == Spec => []SkipMeansOneRun
<1>1. IInv => SkipMeansOneRun
  BY TrackedRunsAreAll
<1> QED
  BY <1>1, SchedulerIsInductive, PTL

(* Every window that the cursor has passed is accounted for in the fire     *)
(* log, for every expression whose keys go forward: catch-up, truncation,   *)
(* expiry, deferral and death lose none (#evaluate, scheduler.ts).          *)
THEOREM FireLogAccountsForEveryWindow == Spec => []AuditIsComplete
<1>1. IInv => AuditIsComplete
  BY DEF IInv
<1> QED
  BY <1>1, SchedulerIsInductive, PTL

=====
