-------------------------- MODULE ScheduleWindows --------------------------
(***************************************************************************)
(* Which windows a schedule has: nextFire and the two walks over it that   *)
(* the scheduler's catch-up uses.                                          *)
(*                                                                         *)
(* An expression is read as the instants at which its wall time comes and  *)
(* the key each of them carries.  An interval has one instant per key, in  *)
(* order.  A cron expression's key is the local wall time, so a fall-back  *)
(* of the clock gives two instants one key, and a spring-forward none.     *)
(***************************************************************************)
EXTENDS Integers, Sequences

CONSTANTS
    Horizon,     \* bound: the last instant
    Expressions,
    Key          \* Key[e][t]: the key of instant t, for the instants of expression e

Instants == 1..Horizon

ASSUME ScheduleWindowsAssumption ==
    /\ Horizon \in Nat
    /\ \A e \in Expressions : /\ DOMAIN Key[e] \subseteq Instants
                              /\ \A t \in DOMAIN Key[e] : Key[e][t] \in Nat \ {0}

(* The wall clock goes forward in the end: while a local time is still to  *)
(* come, so are the later ones.  (A fall-back repeats an hour, and what    *)
(* follows the hour follows its repetition; the bound is not within one.)  *)
ASSUME KeysGoForward ==
    \A e \in Expressions : \A t, u \in DOMAIN Key[e] :
        Key[e][t] < Key[e][u] => \E v \in DOMAIN Key[e] : t < v /\ Key[e][v] = Key[e][u]

Windows(e) == {[key |-> Key[e][t], at |-> t] : t \in DOMAIN Key[e]}

(* The order of the walk: by wall time, then by instant. *)
NoLater(w, v) == w.key < v.key \/ (w.key = v.key /\ w.at <= v.at)

(* nextFire: the window, if any, that follows an instant.  The walk of      *)
(* nextCronFire goes by the wall clock: it takes the first local time that  *)
(* has an instant after this one, and then the first of those instants.     *)
NextFires(e, after) ==
    LET later == {w \in Windows(e) : w.at > after}
    IN  {w \in later : \A v \in later : NoLater(w, v)}

(* windowsBetween without its limit: the walk from after, exclusive, to until. *)
Walk(e, after, until) ==
    LET walk[a \in 0..Horizon] ==
            LET next == {w \in NextFires(e, a) : w.at <= until}
            IN  IF next = {} THEN <<>>
                ELSE LET w == CHOOSE v \in next : TRUE IN <<w>> \o walk[w.at]
    IN  walk[after]

(* The same, tabulated. *)
NextTable == [e \in Expressions |-> [a \in 0..Horizon |-> NextFires(e, a)]]
WalkTable == [e \in Expressions |->
                 [a \in 0..Horizon |-> [u \in 0..Horizon |-> Walk(e, a, u)]]]
WindowsBetween(e, after, until) == WalkTable[e][after][until]

(* latestWindowAtOrBefore: the last window of that walk, if any. *)
LatestWindows(e, after, until) ==
    LET walk == WindowsBetween(e, after, until)
    IN  IF walk = <<>> THEN {} ELSE {walk[Len(walk)]}

(* The last instant of a key. *)
LastInstant(e, key) ==
    CHOOSE t \in DOMAIN Key[e] :
        Key[e][t] = key /\ \A u \in DOMAIN Key[e] : Key[e][u] = key => u <= t
=============================================================================
