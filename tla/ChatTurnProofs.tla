--------------------------- MODULE ChatTurnProofs ---------------------------
(***************************************************************************)
(* What holds of a chat turn for every set of sessions, turns and tabs,    *)
(* every cap, limit and bound.  The argument: a turn in progress has the   *)
(* claim and the pin of its session to itself (Claimed), and from the      *)
(* start of its handle on it only moves forward (Progress), so that what   *)
(* aborts and tabs know of a turn they have seen begin stays true of it.   *)
(***************************************************************************)
EXTENDS ChatTurn, FiniteSetTheorems, TLAPS

USE DEF None

-----------------------------------------------------------------------------
(* The inductive invariant *)

\* The objects are numbered as they are built, and each serves one session.
Registry ==
    /\ \A i, j \in Objects : i < j /\ object[j] # "none" => object[i] # "none"
    /\ \A k \in Sessions : live[k] # 0 => object[live[k]] # "none"
    /\ \A k, l \in Sessions : live[k] = live[l] /\ live[k] # 0 => k = l

\* A turn in progress holds its session's claim and pin, on an object of that session.
Claimed(t) ==
    /\ turn[t].pc = "opening" => turn[t].session \in Sessions
    /\ Owned(t) =>
          /\ turn[t].session \in Sessions
          /\ claim[turn[t].session] = t /\ turn[t].session \in pinned
          /\ turn[t].object \in Objects /\ object[turn[t].object] # "none"
          /\ \A k \in Sessions : live[k] = turn[t].object => k = turn[t].session

\* A turn in flight, and no other, has spent something, and reports it; its row comes after.
Paid(t) ==
    /\ t \in tracked <=> InFlight(t)
    /\ turn[t].pc # "ended" => ledger[t] = 0
    /\ ~InFlight(t) => turn[t].spent = 0
    /\ turn[t].tally <= turn[t].spent
    /\ turn[t].asking => turn[t].tally < turn[t].spent

\* Frames are published by a turn that has begun; the first is run_start, one is left for
\* the end.
Published(t) ==
    /\ turn[t].pc \in {"new", "opening", "claimed"} => turn[t].frames = 0
    /\ Active(t) => turn[t].spent < turn[t].frames /\ turn[t].frames <= MaxFrames

\* A row runs, or tells how its turn ended; it is interrupted only by a later process.
Recorded(t) ==
    /\ row[t].status # "none" => Active(t) \/ turn[t].pc \in {"ended", "lost"}
    /\ row[t].status = "running" /\ Active(t) => row[t].epoch = epoch
    /\ row[t].status \notin {"none", "running"} => turn[t].pc \in {"ended", "lost"}
    /\ turn[t].pc = "lost" => row[t].status \in {"none", "running", "interrupted"}
    /\ row[t].epoch <= epoch
    /\ row[t].status = "interrupted" => row[t].epoch < epoch

\* A turn whose abort has returned is flagged, and is in its prompt only if it did not hear.
Stopped(t) ==
    /\ turn[t].stopped => turn[t].abort
    /\ turn[t].stopped /\ InPrompt(t) => turn[t].unheard
    /\ ~(turn[t].stopping /\ turn[t].asking)
    /\ turn[t].asking => turn[t].pc = "prompting"

TurnInv(t) == Claimed(t) /\ Paid(t) /\ Published(t) /\ Recorded(t) /\ Stopped(t)

Begun(t) == t \in Turns /\ (Active(t) \/ turn[t].pc = "ended")

\* The handle and the abort of a session are of a turn that has begun.
HandleInv(s) == handle[s] # None => Begun(handle[s])

\* A turn that is being aborted is flagged, and in its prompt only if it did not hear or the
\* abort waits for it.
StopInv(s) ==
    stop[s].pc # "no" =>
        /\ Begun(stop[s].turn)
        /\ Active(stop[s].turn) => turn[stop[s].turn].abort
        /\ stop[s].pc = "aborting" /\ InPrompt(stop[s].turn) =>
              \/ turn[stop[s].turn].unheard
              \/ stop[s].turn \in stop[s].awaits /\ turn[stop[s].turn].pc = "prompting"

SessionInv(s) == HandleInv(s) /\ StopInv(s)

\* What a tab shows of the turn it asked for.
TabInv(b) ==
    /\ tab[b].pc = "snapshot" =>
          /\ tab[b].session \in Sessions /\ tab[b].conn = None /\ Begun(tab[b].run)
          /\ tab[b].shown = 1..tab[b].cursor /\ tab[b].cursor <= turn[tab[b].run].frames
    /\ tab[b].pc = "reading" =>
          /\ Begun(tab[b].conn)
          /\ tab[b].conn = tab[b].run =>
                tab[b].shown = 1..tab[b].cursor /\ tab[b].cursor <= turn[tab[b].run].frames

IInv ==
    /\ TypeOK /\ Registry
    /\ \A t \in Turns : TurnInv(t)
    /\ \A s \in Sessions : SessionInv(s)
    /\ \A b \in Tabs : TabInv(b)

-----------------------------------------------------------------------------
(* Objects and sessions *)

\* The number of objects built is the number of the last one.
LEMMA NextObjectIsNew ==
  ASSUME Registry, NEW o \in Objects, o = Cardinality(Built) + 1
  PROVE  /\ object[o] = "none"
         /\ \A i \in Objects : i < o => object[i] # "none"
<1> USE ChatAssumption DEF Objects
<1>0. IsFiniteSet(Objects) /\ Cardinality(Objects) = MaxObjects
  BY FS_Interval
<1>1. IsFiniteSet(Built) /\ Cardinality(Built) \in Nat
  BY <1>0, FS_Subset, FS_CardinalityType DEF Built
<1>2. object[o] = "none"
  <2> SUFFICES ASSUME object[o] # "none" PROVE FALSE
    OBVIOUS
  <2>1. 1..o \subseteq Built
    BY DEF Built, Registry
  <2>2. Cardinality(1..o) = o
    BY FS_Interval
  <2> QED
    BY <1>1, <2>1, <2>2, FS_Subset
<1>3. ASSUME NEW i \in Objects, i < o, object[i] = "none" PROVE FALSE
  <2>1. i \in Int /\ 1 \in Int /\ i - 1 \in Int /\ i >= 1
    OBVIOUS
  <2> DEFINE below == 1..(i - 1)
  <2>2. Built \in SUBSET below
    BY <1>3 DEF Built, Registry
  <2>3. IsFiniteSet(below) /\ Cardinality(below) = (IF 1 > i - 1 THEN 0 ELSE (i - 1) - 1 + 1)
    BY ONLY <2>1, FS_Interval
  <2>4. Cardinality(below) = i - 1
    BY <2>1, <2>3
  <2> HIDE DEF below
  <2>5. Cardinality(Built) <= Cardinality(below)
    BY <2>2, <2>3, FS_Subset
  <2> QED
    BY <1>1, <1>3, <2>1, <2>4, <2>5
<1> QED
  BY <1>2, <1>3

\* The only key that can come to have an object is the one just opened, and it has a new one.
KeysKeep ==
    /\ \A k \in Sessions : live'[k] # 0 /\ object[live'[k]] # "none" => live'[k] = live[k]
    /\ \A x \in Objects : object[x] # "none" => object'[x] # "none"

LEMMA OpenedKeeps ==
  ASSUME TypeOK, Registry, NEW s \in Sessions, NEW o \in Objects, Opened(s, o)
  PROVE  /\ Registry' /\ KeysKeep
         /\ live' \in [Sessions -> {0} \cup Objects]
         /\ object' \in [Objects -> {"none", "open", "disposed"}]
         /\ \A k \in Sessions : live'[k] = o => k = s
         /\ object[o] = "none" /\ object'[o] # "none"
<1> DEFINE held == [live EXCEPT ![s] = o]
           out == Victims(Touched(s), held)
<1>1. /\ object[o] = "none" /\ \A i \in Objects : i < o => object[i] # "none"
  BY NextObjectIsNew DEF Opened
<1>2. live' = [k \in Sessions |-> IF k \in out THEN 0 ELSE held[k]]
  BY DEF Opened
<1>3. object' = [x \in Objects |->
                   IF \E k \in out : held[k] = x THEN "disposed"
                   ELSE IF x = o THEN "open" ELSE object[x]]
  BY DEF Opened
<1>4. out \subseteq Sessions
  BY DEF Victims
<1> HIDE DEF out
<1>5. \A k \in Sessions : held[k] = (IF k = s THEN o ELSE live[k]) /\ held[k] \in {0} \cup Objects
  BY DEF TypeOK
<1> HIDE DEF held
<1>6. \A k \in Sessions : live'[k] = 0 \/ (k = s /\ live'[k] = o) \/ live'[k] = live[k]
  BY <1>2, <1>5
<1>7. 0 \notin Objects /\ Objects \subseteq Nat
  BY ChatAssumption DEF Objects
<1>8. \A x \in Objects : object'[x] # "none" <=> object[x] # "none" \/ x = o
  <2> SUFFICES ASSUME NEW x \in Objects
               PROVE  object'[x] # "none" <=> object[x] # "none" \/ x = o
    OBVIOUS
  <2>1. CASE \E k \in out : held[k] = x
    BY <1>3, <1>4, <1>5, <1>7, <2>1 DEF Registry
  <2>2. CASE ~\E k \in out : held[k] = x
    BY <1>3, <2>2
  <2> QED
    BY <2>1, <2>2
<1>9. /\ live' \in [Sessions -> {0} \cup Objects]
      /\ object' \in [Objects -> {"none", "open", "disposed"}]
  BY <1>2, <1>3, <1>5 DEF TypeOK
<1>10. \A k \in Sessions : live[k] = 0 \/ (live[k] \in Objects /\ object[live[k]] # "none" /\ live[k] # o)
  BY <1>1 DEF TypeOK, Registry
<1>11. KeysKeep
  BY <1>1, <1>6, <1>8 DEF KeysKeep
<1>12. \A k \in Sessions : live'[k] = o => k = s
  BY <1>6, <1>7, <1>10
<1>13. Registry'
  <2>1. \A i, j \in Objects : i < j /\ object'[j] # "none" => object'[i] # "none"
    BY <1>1, <1>8 DEF Registry
  <2>2. \A k \in Sessions : live'[k] # 0 => object'[live'[k]] # "none"
    BY <1>6, <1>8, <1>10
  <2>3. \A k, l \in Sessions : live'[k] = live'[l] /\ live'[k] # 0 => k = l
    BY <1>6, <1>10 DEF Registry
  <2> QED
    BY <2>1, <2>2, <2>3 DEF Registry
<1> QED
  BY <1>1, <1>8, <1>9, <1>11, <1>12, <1>13

-----------------------------------------------------------------------------
(* What a step leaves of a turn *)

\* A turn that has begun only goes on: it publishes frames until it is over, stays flagged,
\* does not come to its prompt once it is, and does not hear later what it has not heard.
Progress(t) ==
    /\ Begun(t) =>
          /\ Begun(t)' /\ turn'[t].frames >= turn[t].frames
          /\ turn[t].pc = "ended" => turn'[t].pc = "ended" /\ turn'[t].frames = turn[t].frames
    /\ Active(t) /\ Active(t)' /\ turn[t].abort => turn'[t].abort
    /\ Active(t)' /\ Begun(t) => Active(t)
    /\ InPrompt(t)' /\ turn[t].abort => InPrompt(t)
    /\ InPrompt(t) /\ InPrompt(t)' =>
          /\ turn[t].unheard => turn'[t].unheard
          /\ turn[t].pc = "prompting" => turn'[t].pc = "prompting"

LEMMA KeysUnchanged ==
  ASSUME TypeOK, Registry, UNCHANGED <<live, object>>
  PROVE  KeysKeep /\ Registry'
BY DEF KeysKeep, Registry

LEMMA TurnFrame ==
  ASSUME IInv, NEW u \in Turns, KeysKeep, live' \in [Sessions -> {0} \cup Objects],
         turn'[u] = turn[u], row'[u] = row[u], epoch' = epoch,
         u \in tracked' <=> u \in tracked, ledger'[u] = ledger[u],
         Owned(u) => /\ claim'[turn[u].session] = claim[turn[u].session]
                     /\ turn[u].session \in pinned => turn[u].session \in pinned'
  PROVE  TurnInv(u)' /\ Progress(u)
<1>0. TypeOK /\ TurnInv(u) /\ turn[u] \in TurnRecords
  BY DEF IInv, TypeOK
<1>1. /\ Owned(u)' = Owned(u) /\ Active(u)' = Active(u) /\ Begun(u)' = Begun(u)
      /\ InPrompt(u)' = InPrompt(u) /\ InFlight(u)' = InFlight(u)
  BY DEF Owned, Active, Begun, InPrompt, InFlight, MayPrompt
<1>2. 0 \notin Objects
  BY ChatAssumption DEF Objects
<1>3. Owned(u) => /\ object'[turn[u].object] # "none"
                  /\ \A k \in Sessions : live'[k] = turn[u].object => live[k] = turn[u].object
  <2> SUFFICES ASSUME Owned(u)
               PROVE  /\ object'[turn[u].object] # "none"
                      /\ \A k \in Sessions : live'[k] = turn[u].object => live[k] = turn[u].object
    OBVIOUS
  <2>1. turn[u].object \in Objects /\ object[turn[u].object] # "none"
    BY <1>0 DEF TurnInv, Claimed
  <2> QED
    BY <1>2, <2>1 DEF KeysKeep
<1>4. Claimed(u)'
  BY <1>0, <1>1, <1>3 DEF TurnInv, Claimed
<1>5. Stopped(u)'
  BY <1>0, <1>1 DEF TurnInv, Stopped
<1>6. Paid(u)' /\ Published(u)' /\ Recorded(u)'
  BY <1>0, <1>1 DEF TurnInv, Paid, Published, Recorded
<1>7. Progress(u)
  <2>1. turn[u].frames \in Nat
    BY <1>0, ChatAssumption DEF TurnRecords
  <2> QED
    BY <1>1, <2>1 DEF Progress
<1> QED
  BY <1>4, <1>5, <1>6, <1>7 DEF TurnInv

-----------------------------------------------------------------------------
(* The steps of a request *)

LEMMA PointsOfTurn ==
  ASSUME IInv, NEW t \in Turns
  PROVE  /\ turn[t] \in TurnRecords /\ TurnInv(t) /\ row[t] \in RowRecords
         /\ t \in Nat /\ t # 0
BY ChatAssumption DEF IInv, TypeOK

\* Two turns in progress are of two sessions.
LEMMA OneClaim ==
  ASSUME IInv, NEW t \in Turns, NEW u \in Turns, Owned(t), Owned(u), u # t
  PROVE  turn[u].session # turn[t].session /\ turn[u].session \in Sessions
BY DEF IInv, TurnInv, Claimed

\* A request that was admitted or refused.
LEMMA AdmitKeeps ==
  ASSUME IInv, NEW t \in Turns, NEW s \in Sessions, NEW o \in Objects,
         turn[t].pc \in {"new", "opening"}, Admit(t, s, o),
         KeysKeep, live' \in [Sessions -> {0} \cup Objects],
         object'[o] # "none", \A k \in Sessions : live'[k] = o => k = s,
         UNCHANGED <<row, epoch, ledger, tracked>>
  PROVE  \A u \in Turns : TurnInv(u)' /\ Progress(u)
<1>0. TypeOK /\ turn[t] \in TurnRecords /\ TurnInv(t) /\ t # 0
  BY PointsOfTurn DEF IInv
<1>1. SUFFICES ASSUME NEW u \in Turns PROVE TurnInv(u)' /\ Progress(u)
  OBVIOUS
<1>2. CASE u # t
  <2>1. turn'[u] = turn[u]
    BY <1>0, <1>2 DEF Admit, TypeOK
  <2>2. Owned(u) => claim'[turn[u].session] = claim[turn[u].session]
    BY <1>0, PointsOfTurn DEF Admit, Claims, TypeOK, TurnInv, Claimed
  <2>3. pinned \subseteq pinned'
    BY DEF Admit, Claims
  <2> QED
    BY <2>1, <2>2, <2>3, TurnFrame
<1>3. CASE u = t
  <2>1. /\ ~Begun(t) /\ t \notin tracked /\ ledger[t] = 0 /\ turn[t].spent = 0
        /\ turn[t].frames = 0 /\ row[t].status = "none" /\ ~turn[t].asking
    BY <1>0 DEF TurnInv, Paid, Published, Recorded, Stopped, Begun, Active, MayPrompt, InPrompt,
                InFlight
  <2>2. CASE /\ turn' = [turn EXCEPT ![t] = [@ EXCEPT !.pc = "claimed", !.session = s, !.object = o]]
             /\ Claims(t, s)
    <3>1. turn'[t] = [turn[t] EXCEPT !.pc = "claimed", !.session = s, !.object = o]
      BY <1>0, <2>2 DEF TypeOK
    <3>2. /\ turn'[t].pc = "claimed" /\ turn'[t].session = s /\ turn'[t].object = o
          /\ turn'[t].spent = 0 /\ turn'[t].frames = 0 /\ ~turn'[t].asking
          /\ turn'[t].tally = turn[t].tally /\ turn'[t].stopped = turn[t].stopped
          /\ turn'[t].abort = turn[t].abort
      BY <1>0, <2>1, <3>1 DEF TurnRecords
    <3>3. claim'[s] = t /\ s \in pinned'
      BY <1>0, <2>2 DEF Claims, TypeOK
    <3>4. Claimed(t)' /\ Progress(t)
      BY <1>0, <2>1, <3>2, <3>3
      DEF Claimed, Owned, Active, MayPrompt, InPrompt, Progress, Begun
    <3>5. Paid(t)' /\ Published(t)'
      BY <1>0, <2>1, <3>2 DEF TurnInv, Paid, Published, Active, MayPrompt, InPrompt, InFlight
    <3>6. Recorded(t)' /\ Stopped(t)'
      BY <1>0, <2>1, <3>2 DEF TurnInv, Recorded, Stopped, Active, MayPrompt, InPrompt
    <3> QED
      BY <1>3, <3>4, <3>5, <3>6 DEF TurnInv
  <2>3. CASE turn' = [turn EXCEPT ![t] = Done("refused")]
    <3>1. turn'[t] = Done("refused")
      BY <1>0, <2>3 DEF TypeOK
    <3>2. /\ turn'[t].pc = "refused" /\ turn'[t].spent = 0 /\ turn'[t].tally = 0
          /\ turn'[t].stopped = FALSE /\ turn'[t].asking = FALSE
      BY <3>1 DEF Done, NewTurn
    <3>4. Claimed(t)' /\ Progress(t)
      BY <2>1, <3>2 DEF Claimed, Owned, Active, MayPrompt, InPrompt, Progress, Begun
    <3>5. Paid(t)' /\ Published(t)'
      BY <2>1, <3>2 DEF Paid, Published, Active, MayPrompt, InPrompt, InFlight
    <3>6. Recorded(t)' /\ Stopped(t)'
      BY <1>0, <2>1, <3>2 DEF TurnInv, Recorded, Stopped, Active, MayPrompt, InPrompt
    <3> QED
      BY <1>3, <3>4, <3>5, <3>6 DEF TurnInv
  <2> QED
    BY <2>2, <2>3 DEF Admit
<1> QED
  BY <1>2, <1>3

LEMMA PostKeeps ==
  ASSUME IInv, NEW t \in Turns, NEW s \in Sessions, Post(t, s)
  PROVE  \A u \in Turns : TurnInv(u)' /\ Progress(u)
<1>0. TypeOK /\ Registry /\ turn[t] \in TurnRecords /\ TurnInv(t)
  BY PointsOfTurn DEF IInv
<1>1. KeysKeep /\ live' \in [Sessions -> {0} \cup Objects]
  BY <1>0, KeysUnchanged DEF Post, TypeOK
<1>2. CASE live[s] # 0 /\ Admit(t, s, live[s])
  <2>1. live[s] \in Objects /\ object'[live[s]] # "none"
    BY <1>0, <1>2 DEF TypeOK, Registry, Post
  <2>2. \A k \in Sessions : live'[k] = live[s] => k = s
    BY <1>0, <1>2 DEF Registry, Post
  <2> QED
    BY <1>1, <1>2, <2>1, <2>2, AdmitKeeps DEF Post, money
<1>3. CASE /\ turn' = [turn EXCEPT ![t] = [@ EXCEPT !.pc = "opening", !.session = s]]
           /\ UNCHANGED <<claim, pinned>>
  <2>1. ASSUME NEW u \in Turns, u # t PROVE TurnInv(u)' /\ Progress(u)
    BY <1>0, <1>1, <1>3, <2>1, TurnFrame DEF Post, money, TypeOK
  <2>2. turn'[t] = [turn[t] EXCEPT !.pc = "opening", !.session = s]
    BY <1>0, <1>3 DEF TypeOK
  <2>3. turn[t].pc = "new" /\ UNCHANGED <<ledger, tracked, row>>
    BY DEF Post, money
  <2>4. /\ turn'[t].pc = "opening" /\ turn'[t].session = s /\ turn'[t].frames = turn[t].frames
        /\ turn'[t].spent = turn[t].spent /\ turn'[t].tally = turn[t].tally
        /\ turn'[t].stopped = turn[t].stopped /\ turn'[t].abort = turn[t].abort
        /\ turn'[t].stopping = turn[t].stopping /\ turn'[t].asking = turn[t].asking
    BY <1>0, <2>2 DEF TurnRecords
  <2>5. Claimed(t)' /\ Progress(t)
    BY <2>3, <2>4 DEF Claimed, Owned, Active, MayPrompt, InPrompt, Progress, Begun
  <2>6. Paid(t)' /\ Published(t)'
    BY <1>0, <2>3, <2>4 DEF TurnInv, Paid, Published, Active, MayPrompt, InPrompt, InFlight
  <2>7. Recorded(t)' /\ Stopped(t)'
    <3>1. epoch' = epoch
      BY DEF Post
    <3> QED
      BY <1>0, <2>3, <2>4, <3>1 DEF TurnInv, Recorded, Stopped, Active, MayPrompt, InPrompt
  <2> QED
    BY <2>1, <2>5, <2>6, <2>7 DEF TurnInv
<1> QED
  BY <1>2, <1>3 DEF Post

LEMMA PostOpenedKeeps ==
  ASSUME IInv, NEW t \in Turns, PostOpened(t)
  PROVE  \A u \in Turns : TurnInv(u)' /\ Progress(u)
<1>0. TypeOK /\ Registry /\ TurnInv(t)
  BY PointsOfTurn DEF IInv
<1>1. PICK o \in Objects : Opened(turn[t].session, o) /\ Admit(t, turn[t].session, o)
  BY DEF PostOpened
<1>2. turn[t].pc = "opening" /\ turn[t].session \in Sessions
  BY <1>0 DEF PostOpened, TurnInv, Claimed
<1> QED
  BY <1>0, <1>1, <1>2, OpenedKeeps, AdmitKeeps DEF PostOpened, money

\* A step that changes one turn, keeps its session and leaves its claim alone or releases it.
LEMMA OtherTurns ==
  ASSUME IInv, NEW t \in Turns, NEW u \in Turns, u # t, Owned(t),
         NEW r, turn' = [turn EXCEPT ![t] = r],
         UNCHANGED <<claim, pinned>> \/ Release(turn[t].session),
         UNCHANGED <<live, object, epoch>>, row'[u] = row[u],
         u \in tracked' <=> u \in tracked, ledger'[u] = ledger[u]
  PROVE  TurnInv(u)' /\ Progress(u)
<1>0. TypeOK /\ Registry
  BY DEF IInv
<1>1. Owned(u) => /\ claim'[turn[u].session] = claim[turn[u].session]
                  /\ turn[u].session \in pinned => turn[u].session \in pinned'
  BY <1>0, OneClaim DEF Release, TypeOK
<1>2. turn'[u] = turn[u]
  BY <1>0 DEF TypeOK
<1> QED
  BY <1>0, <1>1, <1>2, KeysUnchanged, TurnFrame DEF TypeOK

\* A turn of which nothing is left, or only its frames.
LEMMA OverFields ==
  ASSUME NEW pc \in Points, NEW n \in 0..MaxFrames + 1
  PROVE  /\ Done(pc) \in TurnRecords /\ Over(n) \in TurnRecords
         /\ Over(n).pc = "ended" /\ Over(n).frames = n
         /\ Over(n).spent = 0 /\ Over(n).tally = 0
         /\ Over(n).stopped = FALSE /\ Over(n).asking = FALSE
<1>0. /\ None \in Sessions \cup {None} /\ 0 \in {0} \cup Objects /\ FALSE \in BOOLEAN
      /\ 0 \in 0..MaxFrames /\ 0 \in 0..MaxFrames + 1 /\ "ended" \in Points
  BY ChatAssumption DEF Points
<1>1. \A p \in Points : Done(p) \in TurnRecords
  BY <1>0 DEF Done, NewTurn, TurnRecords
<1>2. Over(n) \in TurnRecords
  <2>1. Done("ended") \in TurnRecords
    BY <1>0, <1>1
  <2> QED
    BY <2>1 DEF Over, TurnRecords
<1>3. /\ Over(n).pc = "ended" /\ Over(n).frames = n
      /\ Over(n).spent = 0 /\ Over(n).tally = 0
      /\ Over(n).stopped = FALSE /\ Over(n).asking = FALSE
  BY DEF Over, Done, NewTurn
<1> QED
  BY <1>1, <1>2, <1>3

\* The end of a turn.
LEMMA ConcludeKeeps ==
  ASSUME IInv, NEW t \in Turns, Active(t), NEW status \in {"completed", "failed"},
         Conclude(t, status), \A u \in Turns \ {t} : ledger'[u] = ledger[u]
  PROVE  \A u \in Turns : TurnInv(u)' /\ Progress(u)
<1>0. TypeOK /\ turn[t] \in TurnRecords /\ TurnInv(t) /\ row[t] \in RowRecords /\ Owned(t)
  BY PointsOfTurn DEF IInv, Owned
<1>1. ASSUME NEW u \in Turns, u # t PROVE TurnInv(u)' /\ Progress(u)
  BY <1>0, <1>1, OtherTurns DEF Conclude, registry, TypeOK
<1>2. turn[t].frames + 1 \in 0..MaxFrames + 1
  BY <1>0, ChatAssumption DEF TurnInv, Published, TurnRecords
<1>3. turn'[t] = Over(turn[t].frames + 1)
  BY <1>0 DEF Conclude, TypeOK
<1>4. /\ turn'[t].pc = "ended" /\ turn'[t].frames = turn[t].frames + 1
      /\ turn'[t].spent = 0 /\ turn'[t].tally = 0
      /\ turn'[t].stopped = FALSE /\ turn'[t].asking = FALSE
  <2>1. "ended" \in Points
    BY DEF Points
  <2> QED
    BY <1>2, <1>3, <2>1, OverFields
<1>5. row'[t].status # "interrupted" /\ row'[t].epoch = row[t].epoch
  <2>1. row[t].status \in {"none", "running"}
    BY <1>0 DEF RowRecords, TurnInv, Recorded, Active, MayPrompt, InPrompt
  <2>2. row'[t] \in {row[t], Finished(row[t], IF turn[t].abort THEN "cancelled" ELSE status)}
    BY <1>0 DEF Conclude, TypeOK
  <2> QED
    BY <1>0, <2>1, <2>2 DEF Finished, RowRecords
<1>6. t \notin tracked' /\ epoch' = epoch
  BY DEF Conclude
<1>7. turn[t].frames \in Nat
  BY <1>0, ChatAssumption DEF TurnRecords
<1>8. TurnInv(t)' /\ Progress(t)
  BY <1>0, <1>4, <1>5, <1>6, <1>7
  DEF TurnInv, Claimed, Paid, Published, Recorded, Stopped, Owned, Active, MayPrompt, InPrompt,
          InFlight, Progress, Begun
<1> QED
  BY <1>1, <1>8

\* What the steps of a prompt leave of a turn, and what they may change.
Prompts(r, q) ==
    /\ q.session = r.session /\ q.object = r.object /\ q.abort = r.abort
    /\ q.stopping = r.stopping /\ q.unheard = r.unheard /\ q.stopped = r.stopped
    /\ q.pc = r.pc
    /\ q.tally <= q.spent /\ (q.asking => q.tally < q.spent /\ ~q.stopping)
    /\ \/ q.frames = r.frames /\ q.spent = r.spent
       \/ q.frames = r.frames + 1 /\ q.spent = r.spent + 1 /\ q.frames <= MaxFrames

LEMMA PromptFields ==
  ASSUME IInv, NEW t \in Turns, Spend(t) \/ Compact(t) \/ Ask(t) \/ Answer(t)
  PROVE  /\ Prompts(turn[t], turn'[t]) /\ turn'[t] \in TurnRecords
         /\ turn' = [turn EXCEPT ![t] = turn'[t]]
         /\ InPrompt(t) /\ (turn'[t].asking => turn[t].pc = "prompting")
<1>0. TypeOK /\ turn[t] \in TurnRecords /\ Paid(t) /\ Published(t) /\ Stopped(t)
  BY PointsOfTurn DEF IInv, TurnInv
<1>1. /\ turn[t].spent \in Nat /\ turn[t].frames \in Nat /\ turn[t].tally \in Nat
      /\ MaxFrames \in Nat /\ turn[t].tally <= turn[t].spent
      /\ turn[t].asking => turn[t].tally < turn[t].spent
  BY <1>0, ChatAssumption DEF TurnRecords, Paid
<1>2. InPrompt(t) /\ turn[t].spent < turn[t].frames /\ turn[t].frames <= MaxFrames
  <2>1. InPrompt(t)
    BY <1>0 DEF Spend, Compact, Ask, Answer, Stopped, InPrompt
  <2> QED
    BY <1>0, <2>1 DEF Published, Active, MayPrompt
<1>3. CASE Spend(t)
  <2>1. /\ turn'[t] = [turn[t] EXCEPT !.spent = turn[t].spent + 1, !.tally = turn[t].tally + 1,
                                      !.frames = turn[t].frames + 1]
        /\ ~turn[t].asking /\ turn[t].frames < MaxFrames
    BY <1>0, <1>3 DEF Spend, TypeOK
  <2>2. turn[t].spent + 1 \in 0..MaxFrames /\ turn[t].tally + 1 \in 0..MaxFrames
        /\ turn[t].frames + 1 \in 0..MaxFrames + 1
    BY <1>1, <1>2, <2>1
  <2>3. turn'[t] \in TurnRecords
    BY <1>0, <2>1, <2>2 DEF TurnRecords
  <2>4. turn' = [turn EXCEPT ![t] = turn'[t]]
    BY <1>0, <1>3, <2>1 DEF Spend, TypeOK
  <2>5. /\ turn'[t].session = turn[t].session /\ turn'[t].object = turn[t].object
        /\ turn'[t].abort = turn[t].abort /\ turn'[t].stopping = turn[t].stopping
        /\ turn'[t].unheard = turn[t].unheard /\ turn'[t].stopped = turn[t].stopped
        /\ turn'[t].pc = turn[t].pc /\ turn'[t].asking = turn[t].asking
        /\ turn'[t].spent = turn[t].spent + 1 /\ turn'[t].tally = turn[t].tally + 1
        /\ turn'[t].frames = turn[t].frames + 1
    BY <1>0, <2>1 DEF TurnRecords
  <2>6. Prompts(turn[t], turn'[t]) /\ ~turn'[t].asking
    BY <1>1, <2>1, <2>5 DEF Prompts
  <2> QED
    BY <1>2, <2>3, <2>4, <2>6
<1>4. CASE Compact(t)
  <2>1. PICK lost \in 1..MaxFrames - 1 : turn' = [turn EXCEPT ![t].hidden = lost]
    BY <1>4 DEF Compact
  <2>2. turn'[t] = [turn[t] EXCEPT !.hidden = lost] /\ ~turn[t].asking
    BY <1>0, <1>4, <2>1 DEF Compact, TypeOK
  <2>3. lost \in 0..MaxFrames
    BY <1>1
  <2>4. turn'[t] \in TurnRecords
    BY <1>0, <2>2, <2>3 DEF TurnRecords
  <2>7. turn' = [turn EXCEPT ![t] = turn'[t]]
    BY <1>0, <2>1, <2>2 DEF TypeOK
  <2>5. /\ turn'[t].session = turn[t].session /\ turn'[t].object = turn[t].object
        /\ turn'[t].abort = turn[t].abort /\ turn'[t].stopping = turn[t].stopping
        /\ turn'[t].unheard = turn[t].unheard /\ turn'[t].stopped = turn[t].stopped
        /\ turn'[t].pc = turn[t].pc /\ turn'[t].asking = turn[t].asking
        /\ turn'[t].spent = turn[t].spent /\ turn'[t].tally = turn[t].tally
        /\ turn'[t].frames = turn[t].frames
    BY <1>0, <2>2 DEF TurnRecords
  <2>6. Prompts(turn[t], turn'[t]) /\ ~turn'[t].asking
    BY <1>1, <2>2, <2>5 DEF Prompts
  <2> QED
    BY <1>2, <2>7, <2>4, <2>6
<1>5. CASE Ask(t)
  <2>1. /\ turn'[t] = [turn[t] EXCEPT !.asking = TRUE, !.spent = turn[t].spent + 1,
                                      !.frames = turn[t].frames + 1]
        /\ ~turn[t].stopping /\ turn[t].frames < MaxFrames /\ turn[t].pc = "prompting"
    BY <1>0, <1>5 DEF Ask, MayAsk, TypeOK
  <2>2. turn[t].spent + 1 \in 0..MaxFrames /\ turn[t].frames + 1 \in 0..MaxFrames + 1
    BY <1>1, <1>2, <2>1
  <2>3. turn'[t] \in TurnRecords
    BY <1>0, <2>1, <2>2 DEF TurnRecords
  <2>4. turn' = [turn EXCEPT ![t] = turn'[t]]
    BY <1>0, <1>5, <2>1 DEF Ask, TypeOK
  <2>5. /\ turn'[t].session = turn[t].session /\ turn'[t].object = turn[t].object
        /\ turn'[t].abort = turn[t].abort /\ turn'[t].stopping = turn[t].stopping
        /\ turn'[t].unheard = turn[t].unheard /\ turn'[t].stopped = turn[t].stopped
        /\ turn'[t].pc = turn[t].pc
        /\ turn'[t].spent = turn[t].spent + 1 /\ turn'[t].tally = turn[t].tally
        /\ turn'[t].frames = turn[t].frames + 1
    BY <1>0, <2>1 DEF TurnRecords
  <2>6. Prompts(turn[t], turn'[t])
    BY <1>1, <2>1, <2>5 DEF Prompts
  <2> QED
    BY <1>2, <2>1, <2>3, <2>4, <2>6
<1>6. CASE Answer(t)
  <2>1. turn'[t] = [turn[t] EXCEPT !.asking = FALSE, !.tally = turn[t].tally + 1]
    BY <1>0, <1>6 DEF Answer, Answered, TypeOK
  <2>2. turn[t].asking /\ turn[t].tally + 1 \in 0..MaxFrames
    BY <1>1, <1>2, <1>6 DEF Answer
  <2>3. turn'[t] \in TurnRecords
    BY <1>0, <2>1, <2>2 DEF TurnRecords
  <2>4. turn' = [turn EXCEPT ![t] = turn'[t]]
    BY <1>0, <1>6, <2>1 DEF Answer, Answered, TypeOK
  <2>5. /\ turn'[t].session = turn[t].session /\ turn'[t].object = turn[t].object
        /\ turn'[t].abort = turn[t].abort /\ turn'[t].stopping = turn[t].stopping
        /\ turn'[t].unheard = turn[t].unheard /\ turn'[t].stopped = turn[t].stopped
        /\ turn'[t].pc = turn[t].pc /\ turn'[t].asking = FALSE
        /\ turn'[t].spent = turn[t].spent /\ turn'[t].tally = turn[t].tally + 1
        /\ turn'[t].frames = turn[t].frames
    BY <1>0, <2>1 DEF TurnRecords
  <2>6. Prompts(turn[t], turn'[t])
    BY <1>1, <2>2, <2>5 DEF Prompts
  <2> QED
    BY <1>2, <2>3, <2>4, <2>5, <2>6
<1> QED
  BY <1>3, <1>4, <1>5, <1>6

LEMMA PromptEndsFields ==
  ASSUME IInv, NEW t \in Turns, PromptEnds(t)
  PROVE  /\ turn'[t] \in TurnRecords /\ turn' = [turn EXCEPT ![t] = turn'[t]]
         /\ turn'[t].pc = "flushing" /\ turn'[t].session = turn[t].session
         /\ turn'[t].object = turn[t].object /\ turn'[t].abort = turn[t].abort
         /\ turn'[t].stopped = FALSE /\ turn'[t].asking = FALSE
         /\ turn'[t].tally <= turn'[t].spent
         /\ turn'[t].spent < turn'[t].frames /\ turn'[t].frames <= MaxFrames
         /\ turn'[t].frames >= turn[t].frames
<1>0. TypeOK /\ turn[t] \in TurnRecords /\ Paid(t) /\ Published(t)
  BY PointsOfTurn DEF IInv, TurnInv
<1>1. /\ turn[t].spent \in Nat /\ turn[t].frames \in Nat /\ turn[t].tally \in Nat
      /\ MaxFrames \in Nat /\ turn[t].tally <= turn[t].spent
  BY <1>0, ChatAssumption DEF TurnRecords, Paid
<1>2. turn[t].spent < turn[t].frames /\ turn[t].frames <= MaxFrames /\ ~turn[t].asking
  BY <1>0 DEF PromptEnds, Published, Active, MayPrompt
<1>3. PICK n \in 0..1 :
        /\ n = 1 => turn[t].frames < MaxFrames
        /\ turn' = [turn EXCEPT ![t] =
                      [turn[t] EXCEPT !.pc = "flushing", !.stopping = FALSE, !.stopped = FALSE,
                                      !.unheard = FALSE, !.spent = turn[t].spent + n,
                                      !.frames = turn[t].frames + n]]
  BY DEF PromptEnds
<1>4. turn[t].spent + n \in 0..MaxFrames /\ turn[t].frames + n \in 0..MaxFrames
  BY <1>1, <1>2, <1>3
<1>5. turn'[t] = [turn[t] EXCEPT !.pc = "flushing", !.stopping = FALSE, !.stopped = FALSE,
                                 !.unheard = FALSE, !.spent = turn[t].spent + n,
                                 !.frames = turn[t].frames + n]
  BY <1>0, <1>3 DEF TypeOK
<1>6. turn'[t] \in TurnRecords
  <2>1. turn[t].frames + n \in 0..MaxFrames + 1
    BY <1>1, <1>4
  <2> QED
    BY <1>0, <1>4, <1>5, <2>1 DEF TurnRecords, Points
<1>7. /\ turn'[t].pc = "flushing" /\ turn'[t].session = turn[t].session
      /\ turn'[t].object = turn[t].object /\ turn'[t].abort = turn[t].abort
      /\ turn'[t].stopped = FALSE /\ turn'[t].asking = turn[t].asking
      /\ turn'[t].tally = turn[t].tally /\ turn'[t].spent = turn[t].spent + n
      /\ turn'[t].frames = turn[t].frames + n
  BY <1>0, <1>5 DEF TurnRecords
<1>8. turn'[t].asking = FALSE
  BY <1>0, <1>2, <1>7 DEF TurnRecords
<1>9. turn' = [turn EXCEPT ![t] = turn'[t]]
  BY <1>3, <1>5
<1> QED
  BY <1>1, <1>2, <1>3, <1>4, <1>6, <1>7, <1>8, <1>9

\* The other steps of the request and of the owner.
LEMMA OwnerKeeps ==
  ASSUME IInv, NEW t \in Turns, OwnerStep(t) \/ Spend(t) \/ Compact(t) \/ Ask(t)
  PROVE  \A u \in Turns : TurnInv(u)' /\ Progress(u)
<1>0. TypeOK /\ turn[t] \in TurnRecords /\ TurnInv(t) /\ row[t] \in RowRecords
  BY PointsOfTurn DEF IInv
<1>n. /\ turn[t].spent \in Nat /\ turn[t].frames \in Nat /\ turn[t].tally \in Nat
      /\ MaxFrames \in Nat /\ MaxFrames >= 1
  BY <1>0, ChatAssumption DEF TurnRecords
<1>e. epoch \in Nat /\ row[t].epoch \in Nat
  BY <1>0, ChatAssumption DEF TypeOK, RowRecords
<1> USE DEF registry, broker, money
<1>1. CASE PostOpened(t)
  BY <1>1, PostOpenedKeeps
<1>2. CASE PreflightFails(t)
  <2>1. ASSUME NEW u \in Turns, u # t PROVE TurnInv(u)' /\ Progress(u)
    BY <1>0, <1>2, <2>1, OtherTurns DEF PreflightFails, Owned
  <2>2. /\ turn'[t].pc = "refused" /\ turn'[t].spent = 0 /\ turn'[t].tally = 0
        /\ turn'[t].stopped = FALSE /\ turn'[t].asking = FALSE
        /\ turn[t].pc = "claimed" /\ UNCHANGED <<tracked, ledger, row, epoch>>
    BY <1>0, <1>2 DEF PreflightFails, Done, NewTurn, TypeOK
  <2>3. TurnInv(t)' /\ Progress(t)
    BY <1>0, <1>n, <1>e, <2>2
    DEF TurnInv, Claimed, Paid, Published, Recorded, Stopped, Owned, Active, MayPrompt, InPrompt,
          InFlight, Progress, Begun
  <2> QED
    BY <2>1, <2>3
<1>3. CASE Begin(t)
  <2>0. turn[t].pc = "claimed" /\ Owned(t) /\ turn[t].session \in Sessions
    BY <1>0, <1>3 DEF Begin, Owned, TurnInv, Claimed
  <2>1. ASSUME NEW u \in Turns, u # t PROVE TurnInv(u)' /\ Progress(u)
    BY <1>0, <1>3, <2>0, <2>1, OtherTurns DEF Begin, TypeOK
  <2>2. CASE /\ turn' = [turn EXCEPT ![t] = [@ EXCEPT !.pc = "preparing", !.frames = 1]]
             /\ row' = [row EXCEPT ![t] = [status |-> "running", epoch |-> epoch]]
             /\ UNCHANGED <<claim, pinned>>
    <3>1. turn'[t] = [turn[t] EXCEPT !.pc = "preparing", !.frames = 1]
      BY <1>0, <2>2 DEF TypeOK
    <3>2. /\ turn'[t].pc = "preparing" /\ turn'[t].spent = turn[t].spent /\ turn'[t].frames = 1
          /\ turn'[t].stopped = turn[t].stopped /\ turn'[t].abort = turn[t].abort
          /\ turn'[t].stopping = turn[t].stopping /\ turn'[t].tally = turn[t].tally
          /\ turn'[t].asking = turn[t].asking /\ turn'[t].session = turn[t].session
          /\ turn'[t].object = turn[t].object
      BY <1>0, <3>1 DEF TurnRecords
    <3>3. row'[t].status = "running" /\ row'[t].epoch = epoch
      BY <1>0, <2>2 DEF TypeOK
    <3>4. UNCHANGED <<live, object, claim, pinned, tracked, ledger, epoch>>
      BY <1>3, <2>2 DEF Begin
    <3>5. TurnInv(t)' /\ Progress(t)
      BY <1>0, <1>n, <1>e, <2>0, <3>2, <3>3, <3>4
      DEF TurnInv, Claimed, Paid, Published, Recorded, Stopped, Owned, Active, MayPrompt, InPrompt,
          InFlight, Progress, Begun
    <3> QED
      BY <2>1, <3>5
  <2>3. CASE turn' = [turn EXCEPT ![t] = Over(2)] /\ UNCHANGED row
    <3>1. turn'[t] = Over(2)
      BY <1>0, <2>3 DEF TypeOK
    <3>3. /\ turn'[t].pc = "ended" /\ turn'[t].spent = 0 /\ turn'[t].frames = 2
          /\ turn'[t].tally = 0 /\ turn'[t].stopped = FALSE /\ turn'[t].asking = FALSE
      BY <3>1 DEF Over, Done, NewTurn
    <3>4. UNCHANGED <<tracked, ledger, row, epoch>> /\ row[t].status = "none"
      BY <1>0, <1>3, <2>0, <2>3 DEF Begin, TurnInv, Recorded, Active, MayPrompt, InPrompt
    <3>5. TurnInv(t)' /\ Progress(t)
      BY <1>0, <1>n, <1>e, <2>0, <3>3, <3>4
      DEF TurnInv, Claimed, Paid, Published, Recorded, Stopped, Owned, Active, MayPrompt, InPrompt,
          InFlight, Progress, Begun
    <3> QED
      BY <2>1, <3>5
  <2> QED
    BY <1>3, <2>2, <2>3 DEF Begin
<1>4. CASE PrepareFails(t)
  BY <1>4, ConcludeKeeps DEF PrepareFails, Active, MayPrompt
<1>5. CASE Detach(t)
  <2>1. Active(t) /\ Owned(t) /\ turn[t].pc = "preparing"
    BY <1>5 DEF Detach, Active, Owned, MayPrompt
  <2>2. CASE (Conclude(t, "completed") \/ Conclude(t, "failed")) /\ UNCHANGED ledger
    BY <2>1, <2>2, ConcludeKeeps
  <2>3. CASE /\ ~AbortSeen(t) /\ At(t, "starting") /\ tracked' = tracked \cup {t}
             /\ UNCHANGED <<registry, broker, visit, stop, ledger, row, tab, epoch>>
    <3>1. ASSUME NEW u \in Turns, u # t PROVE TurnInv(u)' /\ Progress(u)
      BY <1>0, <2>1, <2>3, <3>1, OtherTurns DEF At
    <3>2. /\ turn'[t].pc = "starting" /\ turn'[t].spent = turn[t].spent
          /\ turn'[t].frames = turn[t].frames /\ turn'[t].stopped = turn[t].stopped
          /\ turn'[t].stopping = turn[t].stopping /\ turn'[t].asking = turn[t].asking
          /\ turn'[t].session = turn[t].session /\ turn'[t].object = turn[t].object
          /\ turn'[t].tally = turn[t].tally
          /\ turn'[t].abort = turn[t].abort /\ ~turn[t].abort
      BY <1>0, <2>3 DEF At, AbortSeen, TypeOK, TurnRecords
    <3>3. TurnInv(t)' /\ Progress(t)
      BY <1>0, <1>n, <1>e, <2>1, <2>3, <3>2
      DEF TurnInv, Claimed, Paid, Published, Recorded, Stopped, Owned, Active, MayPrompt, InPrompt,
          InFlight, Progress, Begun
    <3> QED
      BY <3>1, <3>3
  <2> QED
    BY <1>5, <2>2, <2>3 DEF Detach
<1>6. CASE AgentRuns(t)
  <2>1. Active(t) /\ Owned(t) /\ turn[t].pc = "starting"
        /\ UNCHANGED <<live, object, claim, pinned, tracked, ledger, row, epoch>>
    BY <1>6 DEF AgentRuns, Active, Owned, MayPrompt, InPrompt
  <2>2. ASSUME NEW u \in Turns, u # t PROVE TurnInv(u)' /\ Progress(u)
    BY <1>0, <1>6, <2>1, <2>2, OtherTurns DEF AgentRuns, At
  <2>3. /\ turn'[t].pc = "prompting" /\ turn'[t].spent = turn[t].spent
        /\ turn'[t].frames = turn[t].frames /\ turn'[t].stopped = turn[t].stopped
        /\ turn'[t].stopping = turn[t].stopping /\ turn'[t].asking = turn[t].asking
        /\ turn'[t].session = turn[t].session /\ turn'[t].object = turn[t].object
        /\ turn'[t].tally = turn[t].tally /\ turn'[t].unheard = turn[t].unheard
        /\ turn'[t].abort = turn[t].abort
    BY <1>0, <1>6 DEF AgentRuns, At, TypeOK, TurnRecords
  <2>4. TurnInv(t)' /\ Progress(t)
    BY <1>0, <1>n, <1>e, <2>1, <2>3
    DEF TurnInv, Claimed, Paid, Published, Recorded, Stopped, Owned, Active, MayPrompt, InPrompt,
          InFlight, Progress, Begun
  <2> QED
    BY <2>2, <2>4
<1>7. CASE Spend(t) \/ Compact(t) \/ Ask(t) \/ Answer(t)
  <2>1. /\ Prompts(turn[t], turn'[t]) /\ turn' = [turn EXCEPT ![t] = turn'[t]]
        /\ InPrompt(t) /\ (turn'[t].asking => turn[t].pc = "prompting")
        /\ turn'[t] \in TurnRecords
    BY <1>7, PromptFields
  <2>2. Active(t) /\ Owned(t)
        /\ UNCHANGED <<live, object, claim, pinned, tracked, ledger, row, epoch>>
    BY <1>7, <2>1 DEF Spend, Compact, Ask, Answer, Active, Owned, MayPrompt
  <2>3. ASSUME NEW u \in Turns, u # t PROVE TurnInv(u)' /\ Progress(u)
    BY <1>0, <2>1, <2>2, <2>3, OtherTurns
  <2>4. TurnInv(t)' /\ Progress(t)
    BY <1>0, <1>n, <1>e, <2>1, <2>2
    DEF Prompts, TurnInv, Claimed, Paid, Published, Recorded, Stopped, Owned, Active, MayPrompt,
        InPrompt, InFlight, Progress, Begun
  <2> QED
    BY <2>3, <2>4
<1>8. CASE PromptEnds(t)
  <2>1. Active(t) /\ Owned(t) /\ InPrompt(t)
        /\ UNCHANGED <<live, object, claim, pinned, tracked, ledger, row, epoch>>
    BY <1>8 DEF PromptEnds, AfterPrompt, Active, Owned, MayPrompt
  <2>2. ASSUME NEW u \in Turns, u # t PROVE TurnInv(u)' /\ Progress(u)
    BY <1>0, <1>8, <2>1, <2>2, OtherTurns, PromptEndsFields
  <2>3. TurnInv(t)' /\ Progress(t)
    <3>1. /\ turn'[t].pc = "flushing" /\ turn'[t].session = turn[t].session
          /\ turn'[t].object = turn[t].object /\ turn'[t].abort = turn[t].abort
          /\ turn'[t].stopped = FALSE /\ turn'[t].asking = FALSE
          /\ turn'[t].tally <= turn'[t].spent
          /\ turn'[t].spent < turn'[t].frames /\ turn'[t].frames <= MaxFrames
          /\ turn'[t].frames >= turn[t].frames
      BY <1>8, PromptEndsFields
    <3>2. Claimed(t)' /\ Progress(t)
      BY <1>0, <2>1, <3>1 DEF TurnInv, Claimed, Owned, Active, MayPrompt, InPrompt, Progress, Begun
    <3>3. Paid(t)' /\ Published(t)'
      BY <1>0, <2>1, <3>1 DEF TurnInv, Paid, Published, Active, MayPrompt, InPrompt, InFlight
    <3>4. Recorded(t)' /\ Stopped(t)'
      BY <1>0, <2>1, <3>1 DEF TurnInv, Recorded, Stopped, Active, MayPrompt, InPrompt
    <3> QED
      BY <3>2, <3>3, <3>4 DEF TurnInv
  <2> QED
    BY <2>2, <2>3
<1>9. CASE Finish(t)
  <2>1. \A u \in Turns \ {t} : ledger'[u] = ledger[u]
    BY <1>0, <1>9 DEF Finish, TypeOK
  <2> QED
    BY <1>9, <2>1, ConcludeKeeps DEF Finish, Active
<1> QED
  BY <1>1, <1>2, <1>3, <1>4, <1>5, <1>6, <1>7, <1>8, <1>9 DEF OwnerStep

-----------------------------------------------------------------------------
(* Aborts *)

\* What does not change of a turn that is flagged, told to stop or answered.
Same(r, q) ==
    /\ q.pc = r.pc /\ q.session = r.session /\ q.object = r.object
    /\ q.spent = r.spent /\ q.frames = r.frames /\ q.stopped = r.stopped
    /\ (r.abort => q.abort) /\ (r.unheard => q.unheard)

\* A form that is answered ends a call that had not been counted.
LEMMA AnsweredFields ==
  ASSUME IInv, NEW t \in Turns, turn[t].asking
  PROVE  /\ Answered(turn[t]) \in TurnRecords /\ Same(turn[t], Answered(turn[t]))
         /\ Answered(turn[t]).asking = FALSE
         /\ Answered(turn[t]).stopping = turn[t].stopping
         /\ Answered(turn[t]).abort = turn[t].abort
         /\ Answered(turn[t]).unheard = turn[t].unheard
         /\ Answered(turn[t]).tally <= turn[t].spent
<1>0. turn[t] \in TurnRecords /\ Paid(t) /\ MaxFrames \in Nat
  BY PointsOfTurn, ChatAssumption DEF TurnInv
<1>1. turn[t].tally + 1 \in 0..MaxFrames /\ turn[t].tally + 1 <= turn[t].spent
  BY <1>0 DEF Paid, TurnRecords
<1> QED
  BY <1>0, <1>1 DEF Answered, TurnRecords, Same

\* What Abort leaves of a turn.
LEMMA FlaggedFields ==
  ASSUME IInv, NEW s \in Sessions, NEW t \in Turns
  PROVE  LET q == Flagged(s)[t]
         IN  /\ q \in TurnRecords /\ Same(turn[t], q)
             /\ q.stopping = turn[t].stopping
             /\ t = handle[s] => q.abort
             /\ \/ q.asking = FALSE /\ q.tally <= q.spent
                \/ q.asking = turn[t].asking /\ q.tally = turn[t].tally
<1> DEFINE r == IF turn[t].asking /\ turn[t].session = s THEN Answered(turn[t]) ELSE turn[t]
           q == Flagged(s)[t]
<1>0. turn[t] \in TurnRecords /\ Paid(t)
  BY PointsOfTurn DEF TurnInv
<1>1. /\ r \in TurnRecords /\ Same(turn[t], r) /\ r.stopping = turn[t].stopping
      /\ \/ r.asking = FALSE /\ r.tally <= r.spent
         \/ r.asking = turn[t].asking /\ r.tally = turn[t].tally
  BY <1>0, AnsweredFields DEF Same
<1>2. q = IF t = handle[s] THEN [r EXCEPT !.abort = TRUE] ELSE r
  BY DEF Flagged
<1> HIDE DEF r, q
<1>3. /\ q \in TurnRecords /\ Same(r, q) /\ q.stopping = r.stopping
      /\ q.asking = r.asking /\ q.tally = r.tally /\ (t = handle[s] => q.abort)
  BY <1>1, <1>2 DEF TurnRecords, Same
<1>4. Same(turn[t], q) /\ q.spent = r.spent
  BY <1>1, <1>3 DEF Same
<1> QED
  BY <1>1, <1>3, <1>4 DEF q

\* What AbortSession leaves of a turn: it hears of it, or not.
LEMMA HeardFields ==
  ASSUME IInv, NEW s \in Sessions, AbortSession(s), NEW t \in Turns
  PROVE  /\ turn'[t] \in TurnRecords /\ Same(turn[t], turn'[t])
         /\ t = stop[s].turn /\ InPrompt(t) =>
              turn'[t].unheard \/ (turn[t].pc = "prompting" /\ t \in stop'[s].awaits)
         /\ \/ turn'[t].asking = FALSE /\ turn'[t].tally <= turn'[t].spent
            \/ /\ turn'[t].asking = turn[t].asking /\ turn'[t].tally = turn[t].tally
               /\ turn'[t].stopping = turn[t].stopping
<1> DEFINE heard == {u \in Turns : live[s] # 0 /\ turn[u].pc = "prompting" /\ turn[u].object = live[s]}
           r == IF turn[t].asking THEN Answered(turn[t]) ELSE turn[t]
<1>0. turn[t] \in TurnRecords /\ Paid(t) /\ TypeOK
  BY PointsOfTurn DEF TurnInv, IInv
<1>1. /\ r \in TurnRecords /\ Same(turn[t], r) /\ r.asking = FALSE /\ r.tally <= r.spent
  BY <1>0, AnsweredFields DEF Same, Paid, TurnRecords
<1>2. turn'[t] = IF t \in heard THEN [r EXCEPT !.stopping = TRUE]
                 ELSE [turn[t] EXCEPT !.unheard = @ \/ (t = stop[s].turn /\ InPrompt(t))]
  BY DEF AbortSession
<1>3. stop'[s] = [stop[s] EXCEPT !.pc = "aborting", !.awaits = heard] /\ stop[s] \in StopRecords
  BY <1>0 DEF AbortSession, TypeOK
<1>4. t \in heard => turn[t].pc = "prompting"
  OBVIOUS
<1> HIDE DEF heard, r
<1>5. stop'[s].awaits = heard
  BY <1>3 DEF StopRecords
<1>6. CASE t \in heard
  <2>1. /\ turn'[t] \in TurnRecords /\ Same(r, turn'[t]) /\ turn'[t].asking = r.asking
        /\ turn'[t].tally = r.tally /\ turn'[t].spent = r.spent
    BY <1>1, <1>2, <1>6 DEF TurnRecords, Same
  <2>2. Same(turn[t], turn'[t])
    BY <1>1, <2>1 DEF Same
  <2> QED
    BY <1>1, <1>4, <1>5, <1>6, <2>1, <2>2
<1>7. CASE t \notin heard
  <2> DEFINE b == turn[t].unheard \/ (t = stop[s].turn /\ InPrompt(t))
  <2>1. b \in BOOLEAN /\ (turn[t].unheard => b) /\ (t = stop[s].turn /\ InPrompt(t) => b)
    OBVIOUS
  <2>2. turn'[t] = [turn[t] EXCEPT !.unheard = b]
    BY <1>2, <1>7
  <2> HIDE DEF b
  <2>3. /\ turn'[t] \in TurnRecords /\ turn'[t].unheard = b /\ turn'[t].pc = turn[t].pc
        /\ turn'[t].session = turn[t].session /\ turn'[t].object = turn[t].object
        /\ turn'[t].spent = turn[t].spent /\ turn'[t].frames = turn[t].frames
        /\ turn'[t].stopped = turn[t].stopped /\ turn'[t].abort = turn[t].abort
        /\ turn'[t].asking = turn[t].asking /\ turn'[t].tally = turn[t].tally
        /\ turn'[t].stopping = turn[t].stopping
    BY <1>0, <2>1, <2>2 DEF TurnRecords
  <2> QED
    BY <2>1, <2>3 DEF Same
<1> QED
  BY <1>6, <1>7

LEMMA AbortKeeps ==
  ASSUME IInv, NEW s \in Sessions, Abort(s) \/ AbortSession(s) \/ AbortReturns(s)
  PROVE  \A u \in Turns : TurnInv(u)' /\ Progress(u)
<1>0. TypeOK /\ Registry /\ SessionInv(s)
  BY DEF IInv
<1> USE DEF registry, broker, money
<1>1. SUFFICES ASSUME NEW u \in Turns PROVE TurnInv(u)' /\ Progress(u)
  OBVIOUS
<1>2. turn[u] \in TurnRecords /\ TurnInv(u) /\ turn[u].frames \in Nat
  BY PointsOfTurn, ChatAssumption DEF TurnRecords
<1>3. UNCHANGED <<live, object, claim, pinned, tracked, ledger, row, epoch>>
  BY DEF Abort, AbortSession, AbortReturns
<1>a. CASE Abort(s) \/ AbortSession(s)
  <2>1. /\ Same(turn[u], turn'[u])
        /\ \/ turn'[u].asking = FALSE /\ turn'[u].tally <= turn'[u].spent
           \/ /\ turn'[u].asking = turn[u].asking /\ turn'[u].tally = turn[u].tally
              /\ turn'[u].stopping = turn[u].stopping
    <3>1. CASE Abort(s)
      <4>1. turn'[u] = Flagged(s)[u]
        BY <3>1 DEF Abort
      <4> QED
        BY <4>1, FlaggedFields
    <3>2. CASE AbortSession(s)
      BY <3>2, HeardFields
    <3> QED
      BY <1>a, <3>1, <3>2
  <2>2. Claimed(u)' /\ Progress(u)
    BY <1>2, <1>3, <2>1
    DEF Same, TurnInv, Claimed, Owned, Active, MayPrompt, InPrompt, Progress, Begun
  <2>3. Paid(u)' /\ Published(u)'
    BY <1>2, <1>3, <2>1
    DEF Same, TurnInv, Paid, Published, Active, MayPrompt, InPrompt, InFlight
  <2>4. Recorded(u)' /\ Stopped(u)'
    BY <1>2, <1>3, <2>1 DEF Same, TurnInv, Recorded, Stopped, Active, MayPrompt, InPrompt
  <2> QED
    BY <2>2, <2>3, <2>4 DEF TurnInv
<1>c. CASE AbortReturns(s) /\ u # stop[s].turn
  <2>1. turn'[u] = turn[u]
    BY <1>0, <1>c DEF AbortReturns, TypeOK
  <2> QED
    BY <1>2, <1>3, <2>1
    DEF TurnInv, Claimed, Paid, Published, Recorded, Stopped, Owned, Active, MayPrompt, InPrompt,
          InFlight, Progress, Begun
<1>d. CASE AbortReturns(s) /\ u = stop[s].turn
  <2>1. turn'[u] = [turn[u] EXCEPT !.stopped = MayPrompt(u)]
    BY <1>0, <1>d DEF AbortReturns, TypeOK
  <2>2. /\ turn'[u].pc = turn[u].pc /\ turn'[u].session = turn[u].session
        /\ turn'[u].object = turn[u].object /\ turn'[u].spent = turn[u].spent
        /\ turn'[u].frames = turn[u].frames /\ turn'[u].abort = turn[u].abort
        /\ turn'[u].stopping = turn[u].stopping /\ turn'[u].asking = turn[u].asking
        /\ turn'[u].tally = turn[u].tally /\ turn'[u].unheard = turn[u].unheard
        /\ turn'[u].stopped = MayPrompt(u)
    BY <1>2, <2>1 DEF TurnRecords
  <2>3. MayPrompt(u) => turn[u].abort
    BY <1>0, <1>d DEF SessionInv, StopInv, AbortReturns, Active
  <2>4. InPrompt(u) => turn[u].unheard
    BY <1>0, <1>d DEF SessionInv, StopInv, AbortReturns
  <2>5. Claimed(u)' /\ Progress(u)
    BY <1>2, <1>3, <2>2
    DEF TurnInv, Claimed, Owned, Active, MayPrompt, InPrompt, Progress, Begun
  <2>6. Paid(u)' /\ Published(u)' /\ Recorded(u)'
    BY <1>2, <1>3, <2>2
    DEF TurnInv, Paid, Published, Recorded, Active, MayPrompt, InPrompt, InFlight
  <2>7. Stopped(u)'
    BY <1>2, <2>2, <2>3, <2>4 DEF TurnInv, Stopped, InPrompt
  <2> QED
    BY <2>5, <2>6, <2>7 DEF TurnInv
<1> QED
  BY <1>a, <1>c, <1>d

-----------------------------------------------------------------------------
(* The registry, the handles, the aborts and the tabs *)

\* Every step but the death of the process leaves the registry in order.
LEMMA RegistryStep ==
  ASSUME IInv, [Next]_vars, ~Die
  PROVE  /\ Registry' /\ KeysKeep
         /\ live' \in [Sessions -> {0} \cup Objects]
         /\ object' \in [Objects -> {"none", "open", "disposed"}]
<1>0. TypeOK /\ Registry
  BY DEF IInv
<1>1. CASE UNCHANGED <<live, object>>
  BY <1>0, <1>1, KeysUnchanged DEF TypeOK
<1>2. ASSUME NEW s \in Sessions, NEW o \in Objects, Opened(s, o)
      PROVE  /\ Registry' /\ KeysKeep
             /\ live' \in [Sessions -> {0} \cup Objects]
             /\ object' \in [Objects -> {"none", "open", "disposed"}]
  BY <1>0, <1>2, OpenedKeeps
<1>3. ASSUME NEW s \in Sessions, VisitOpened(s)
      PROVE  \E o \in Objects : Opened(s, o)
  BY <1>3 DEF VisitOpened
<1>4. ASSUME NEW t \in Turns, PostOpened(t)
      PROVE  \E s \in Sessions, o \in Objects : Opened(s, o)
  BY <1>4, PointsOfTurn DEF PostOpened, TurnInv, Claimed
<1>5. ASSUME NEW t \in Turns, OwnerStep(t) \/ Spend(t) \/ Compact(t) \/ Ask(t), ~PostOpened(t)
      PROVE  UNCHANGED <<live, object>>
  BY <1>5 DEF OwnerStep, PreflightFails, Begin, PrepareFails, Detach, Conclude, Answer, PromptEnds,
              Finish, AgentRuns, Spend, Compact, Ask, registry
<1>6. ASSUME NEW s \in Sessions,
             \/ Visit(s) \/ Abort(s) \/ AbortSession(s) \/ AbortReturns(s) \/ Expire(s)
             \/ \E t \in Turns : Post(t, s)
             \/ \E b \in Tabs : ReadState(b, s)
      PROVE  UNCHANGED <<live, object>>
  BY <1>6 DEF Visit, Abort, AbortSession, AbortReturns, Expire, Post, ReadState, registry
<1>7. ASSUME (\E b \in Tabs : Connect(b) \/ Receive(b) \/ StreamEnds(b)) \/ Reconcile \/ UNCHANGED vars
      PROVE  UNCHANGED <<live, object>>
  BY <1>7 DEF Connect, Receive, StreamEnds, Reconcile, registry, vars
<1> QED
  BY <1>1, <1>2, <1>3, <1>4, <1>5, <1>6, <1>7 DEF Next

\* Every step but the death of the process lets every turn only go on.
LEMMA TurnStep ==
  ASSUME IInv, [Next]_vars, ~Die
  PROVE  \A u \in Turns : TurnInv(u)' /\ Progress(u)
<1>0. TypeOK /\ Registry
  BY DEF IInv
<1>1. KeysKeep /\ live' \in [Sessions -> {0} \cup Objects]
  BY RegistryStep
<1> USE DEF registry, broker, money
<1>2. CASE UNCHANGED <<claim, pinned, turn, ledger, tracked, row, epoch>>
  BY <1>1, <1>2, TurnFrame
<1>3. ASSUME NEW s \in Sessions, Visit(s) \/ VisitOpened(s) \/ Expire(s)
      PROVE  UNCHANGED <<claim, pinned, turn, ledger, tracked, row, epoch>>
  BY <1>3 DEF Visit, VisitOpened, Expire
<1>4. ASSUME NEW b \in Tabs, Connect(b) \/ Receive(b) \/ StreamEnds(b) \/ \E s \in Sessions : ReadState(b, s)
      PROVE  UNCHANGED <<claim, pinned, turn, ledger, tracked, row, epoch>>
  BY <1>4 DEF Connect, Receive, StreamEnds, ReadState
<1>5. CASE Reconcile
  <2> SUFFICES ASSUME NEW u \in Turns PROVE TurnInv(u)' /\ Progress(u)
    OBVIOUS
  <2>1. turn[u] \in TurnRecords /\ TurnInv(u) /\ row[u] \in RowRecords
    BY PointsOfTurn
  <2>2. UNCHANGED <<live, object, claim, pinned, turn, ledger, tracked, epoch>>
    BY <1>5 DEF Reconcile
  <2>3. row'[u] = IF Orphan(row[u]) THEN [row[u] EXCEPT !.status = "interrupted"] ELSE row[u]
    BY <1>5 DEF Reconcile
  <2>4. CASE Orphan(row[u])
    <3>1. turn[u].pc \in {"ended", "lost"} /\ row[u].epoch < epoch
      <4>1. row[u].epoch <= epoch /\ row[u].epoch # epoch /\ row[u].epoch \in Nat /\ epoch \in Nat
        BY <1>0, <2>1, <2>4 DEF Orphan, TurnInv, Recorded, TypeOK, RowRecords
      <4>2. turn[u].pc \in {"ended", "lost"}
        BY <2>1, <2>4 DEF Orphan, TurnInv, Recorded
      <4> QED
        BY <4>1, <4>2
    <3>2. row'[u].status = "interrupted" /\ row'[u].epoch = row[u].epoch
      BY <2>1, <2>3, <2>4 DEF RowRecords
    <3>3. turn[u].frames \in Nat /\ epoch \in Nat /\ row[u].epoch \in Nat
      BY <1>0, <2>1, ChatAssumption DEF TurnRecords, TypeOK, RowRecords
    <3> QED
      BY <2>1, <2>2, <3>1, <3>2, <3>3
      DEF TurnInv, Claimed, Paid, Published, Recorded, Stopped, Owned, Active, MayPrompt, InPrompt,
          InFlight, Progress, Begun
  <2>5. CASE ~Orphan(row[u])
    BY <1>1, <2>2, <2>3, <2>5, TurnFrame
  <2> QED
    BY <2>4, <2>5
<1>6. CASE UNCHANGED vars
  BY <1>2, <1>6 DEF vars
<1> QED
  BY <1>2, <1>3, <1>4, <1>5, <1>6, PostKeeps, OwnerKeeps, AbortKeeps DEF Next

LEMMA HandleFrame ==
  ASSUME IInv, NEW s \in Sessions, \A u \in Turns : Progress(u),
         handle'[s] \in {None, handle[s]} \/ Begun(handle[s])'
  PROVE  HandleInv(s)'
<1>1. CASE handle'[s] = handle[s] /\ handle[s] # None
  <2>1. PICK t \in Turns : handle[s] = t /\ Begun(t)
    BY <1>1 DEF IInv, SessionInv, HandleInv, Begun
  <2>2. Begun(t)'
    BY <2>1 DEF Progress
  <2> QED
    BY <1>1, <2>1, <2>2 DEF HandleInv, Begun, Active, MayPrompt, InPrompt
<1>2. CASE handle'[s] = None \/ Begun(handle[s])'
  BY <1>2 DEF HandleInv
<1> QED
  BY <1>1, <1>2

LEMMA StopFrame ==
  ASSUME IInv, NEW s \in Sessions, \A u \in Turns : Progress(u), stop'[s] \in {NoStop, stop[s]}
  PROVE  StopInv(s)'
<1>0. StopInv(s)
  BY DEF IInv, SessionInv
<1>1. CASE stop'[s] = NoStop \/ stop'[s].pc = "no"
  BY <1>1 DEF StopInv, NoStop
<1>2. CASE stop'[s] = stop[s] /\ stop[s].pc # "no"
  <2>1. PICK t \in Turns : stop[s].turn = t /\ Begun(t)
    BY <1>0, <1>2 DEF StopInv, Begun
  <2>2. Progress(t) /\ Begun(t)'
    BY <2>1 DEF Progress
  <2>3. Active(t)' => Active(t) /\ turn[t].abort /\ turn'[t].abort
    BY <1>0, <1>2, <2>1, <2>2 DEF StopInv, Progress
  <2>4. ASSUME stop[s].pc = "aborting", InPrompt(t)'
        PROVE  turn'[t].unheard \/ (t \in stop[s].awaits /\ turn'[t].pc = "prompting")
    <3>1. InPrompt(t)
      BY <2>2, <2>3, <2>4 DEF Progress, Active, MayPrompt
    <3> QED
      BY <1>0, <1>2, <2>1, <2>2, <2>4, <3>1 DEF StopInv, Progress
  <2> QED
    BY <1>2, <2>1, <2>2, <2>3, <2>4 DEF StopInv, Begun, Active, MayPrompt, InPrompt
<1> QED
  BY <1>1, <1>2

LEMMA SessionStep ==
  ASSUME IInv, [Next]_vars, ~Die, NEW s \in Sessions
  PROVE  SessionInv(s)'
<1>0. TypeOK /\ Registry /\ HandleInv(s) /\ StopInv(s)
  BY DEF IInv, SessionInv
<1>2. \A u \in Turns : Progress(u)
  BY TurnStep
<1> USE DEF registry, broker, money
<1>3. ASSUME handle'[s] \in {None, handle[s]}, stop'[s] \in {NoStop, stop[s]}
      PROVE  SessionInv(s)'
  BY <1>2, <1>3, HandleFrame, StopFrame DEF SessionInv
<1>4. ASSUME NEW t \in Turns, Begin(t) PROVE SessionInv(s)'
  <2>1. stop' = stop /\ handle' = [handle EXCEPT ![turn[t].session] = t]
    BY <1>4 DEF Begin
  <2>2. turn[t] \in TurnRecords
    BY PointsOfTurn
  <2>3. turn'[t].pc \in {"preparing", "ended"}
    <3>1. \/ turn'[t] = [turn[t] EXCEPT !.pc = "preparing", !.frames = 1]
          \/ turn'[t] = Over(2)
      BY <1>0, <1>4 DEF Begin, TypeOK
    <3> QED
      BY <2>2, <3>1 DEF Over, Done, NewTurn, TurnRecords
  <2>4. Begun(t)'
    BY <2>3 DEF Begun, Active, MayPrompt
  <2>5. handle'[s] = t \/ handle'[s] = handle[s]
    BY <1>0, <2>1 DEF TypeOK
  <2>6. HandleInv(s)'
    <3>1. CASE handle'[s] = t
      BY <2>4, <3>1 DEF HandleInv, Begun, Active, MayPrompt, InPrompt
    <3>2. CASE handle'[s] = handle[s]
      BY <1>2, <3>2, HandleFrame
    <3> QED
      BY <2>5, <3>1, <3>2
  <2> QED
    BY <1>2, <2>1, <2>6, StopFrame DEF SessionInv
<1>5. ASSUME NEW x \in Sessions, Expire(x) \/ AbortReturns(x) PROVE SessionInv(s)'
  BY <1>0, <1>3, <1>5 DEF Expire, AbortReturns, TypeOK
<1>6. ASSUME NEW x \in Sessions, Abort(x) \/ AbortSession(x), x # s PROVE SessionInv(s)'
  BY <1>0, <1>3, <1>6 DEF Abort, AbortSession, TypeOK
<1>7. CASE Abort(s)
  <2>1. PICK t \in Turns : handle[s] = t /\ Begun(t)
    BY <1>0, <1>7 DEF Abort, HandleInv, Begun, TypeOK
  <2>2. Begun(t)'
    BY <1>2, <2>1 DEF Progress
  <2>3. turn'[t].abort
    BY <1>7, <2>1, FlaggedFields DEF Abort
  <2>4. handle' = handle /\ stop'[s] = [pc |-> "flagged", turn |-> t, awaits |-> {}]
    BY <1>0, <1>7, <2>1 DEF Abort, TypeOK
  <2>5. HandleInv(s)'
    BY <1>2, <2>4, HandleFrame
  <2>6. StopInv(s)'
    BY <2>2, <2>3, <2>4 DEF StopInv, Begun, Active, MayPrompt, InPrompt
  <2> QED
    BY <2>5, <2>6 DEF SessionInv
<1>8. CASE AbortSession(s)
  <2>1. /\ stop[s].pc = "flagged" /\ handle' = handle
        /\ stop'[s].pc = "aborting" /\ stop'[s].turn = stop[s].turn
    BY <1>0, <1>8 DEF AbortSession, TypeOK, StopRecords
  <2>2. PICK t \in Turns : stop[s].turn = t /\ Begun(t)
    BY <1>0, <2>1 DEF StopInv, Begun
  <2>3. Begun(t)' /\ turn'[t].pc = turn[t].pc /\ (turn[t].abort => turn'[t].abort)
    BY <1>2, <1>8, <2>2, HeardFields DEF Progress, Same
  <2>4. Active(t)' => turn'[t].abort
    BY <1>0, <2>1, <2>2, <2>3 DEF StopInv, Active, MayPrompt, InPrompt
  <2>5. InPrompt(t)' => turn'[t].unheard \/ (t \in stop'[s].awaits /\ turn'[t].pc = "prompting")
    BY <1>8, <2>2, <2>3, HeardFields DEF InPrompt
  <2>6. HandleInv(s)'
    BY <1>2, <2>1, HandleFrame
  <2>7. StopInv(s)'
    BY <2>1, <2>2, <2>3, <2>4, <2>5 DEF StopInv, Begun, Active, MayPrompt, InPrompt
  <2> QED
    BY <2>6, <2>7 DEF SessionInv
<1>9. ASSUME NEW t \in Turns, OwnerStep(t) \/ Spend(t) \/ Compact(t) \/ Ask(t), ~Begin(t)
      PROVE  UNCHANGED <<handle, stop>>
  BY <1>9 DEF OwnerStep, PostOpened, PreflightFails, PrepareFails, Detach, Conclude, Answer,
              PromptEnds, Finish, AgentRuns, Spend, Compact, Ask
<1>10. ASSUME NEW x \in Sessions,
              \/ Visit(x) \/ VisitOpened(x) \/ \E t \in Turns : Post(t, x)
              \/ \E b \in Tabs : ReadState(b, x)
       PROVE  UNCHANGED <<handle, stop>>
  BY <1>10 DEF Visit, VisitOpened, Post, ReadState
<1>11. ASSUME (\E b \in Tabs : Connect(b) \/ Receive(b) \/ StreamEnds(b)) \/ Reconcile \/ UNCHANGED vars
       PROVE  UNCHANGED <<handle, stop>>
  BY <1>11 DEF Connect, Receive, StreamEnds, Reconcile, vars
<1> QED
  BY <1>3, <1>4, <1>5, <1>6, <1>7, <1>8, <1>9, <1>10, <1>11 DEF Next

-----------------------------------------------------------------------------
(* Types *)

LEMMA TurnUpdate ==
  ASSUME NEW r \in TurnRecords, NEW s \in Sessions, NEW o \in {0} \cup Objects
  PROVE  /\ [r EXCEPT !.pc = "claimed", !.session = s, !.object = o] \in TurnRecords
         /\ [r EXCEPT !.pc = "opening", !.session = s] \in TurnRecords
BY DEF TurnRecords, Points

LEMMA TurnType ==
  ASSUME IInv, [Next]_vars, ~Die
  PROVE  turn' \in [Turns -> TurnRecords]
<1>0. TypeOK /\ MaxFrames \in Nat /\ MaxFrames >= 1
  BY ChatAssumption DEF IInv
<1>1. ASSUME NEW t \in Turns, NEW r \in TurnRecords, turn' = [turn EXCEPT ![t] = r]
      PROVE  turn' \in [Turns -> TurnRecords]
  BY <1>0, <1>1 DEF TypeOK
<1>d. Done("refused") \in TurnRecords /\ Over(2) \in TurnRecords
  <2>1. 2 \in 0..MaxFrames + 1 /\ "refused" \in Points
    BY <1>0 DEF Points
  <2> QED
    BY <2>1, OverFields
<1>2. ASSUME NEW t \in Turns, NEW s \in Sessions, NEW o \in Objects, Admit(t, s, o)
      PROVE  turn' \in [Turns -> TurnRecords]
  BY <1>1, <1>2, <1>d, PointsOfTurn, TurnUpdate DEF Admit
<1>3. ASSUME NEW t \in Turns, NEW s \in Sessions, Post(t, s)
      PROVE  turn' \in [Turns -> TurnRecords]
  <2>1. live[s] # 0 => live[s] \in Objects
    BY <1>0 DEF TypeOK
  <2>2. 0 \in {0} \cup Objects
    OBVIOUS
  <2> QED
    BY <1>1, <1>2, <1>3, <2>1, <2>2, PointsOfTurn, TurnUpdate DEF Post
<1>4. ASSUME NEW t \in Turns, PostOpened(t)
      PROVE  turn' \in [Turns -> TurnRecords]
  BY <1>2, <1>4, PointsOfTurn DEF PostOpened, TurnInv, Claimed
<1>5. ASSUME NEW t \in Turns, NEW status, Active(t), Conclude(t, status)
      PROVE  turn' \in [Turns -> TurnRecords]
  <2>1. turn[t].frames + 1 \in 0..MaxFrames + 1
    BY <1>0, <1>5, PointsOfTurn DEF TurnInv, Published, TurnRecords
  <2>2. Over(turn[t].frames + 1) \in TurnRecords
    BY <2>1, OverFields DEF Points
  <2> QED
    BY <1>1, <1>5, <2>2 DEF Conclude
<1>6. ASSUME NEW t \in Turns, NEW p \in {"starting", "prompting"}, At(t, p)
      PROVE  turn' \in [Turns -> TurnRecords]
  <2>1. p \in Points
    BY DEF Points
  <2>2. [turn[t] EXCEPT !.pc = p] \in TurnRecords
    BY <2>1, PointsOfTurn DEF TurnRecords
  <2> QED
    BY <1>1, <1>6, <2>2 DEF At
<1>7. ASSUME NEW t \in Turns, Begin(t)
      PROVE  turn' \in [Turns -> TurnRecords]
  <2>0. turn[t] \in TurnRecords /\ 1 \in 0..MaxFrames + 1
    BY <1>0, PointsOfTurn
  <2>1. [turn[t] EXCEPT !.pc = "preparing", !.frames = 1] \in TurnRecords
    BY <2>0 DEF TurnRecords, Points
  <2> QED
    BY <1>1, <1>7, <1>d, <2>1 DEF Begin
<1>8. ASSUME NEW t \in Turns, Spend(t) \/ Compact(t) \/ Ask(t) \/ Answer(t)
      PROVE  turn' \in [Turns -> TurnRecords]
  BY <1>1, <1>8, PromptFields
<1>9. ASSUME NEW t \in Turns, PromptEnds(t)
      PROVE  turn' \in [Turns -> TurnRecords]
  BY <1>1, <1>9, PromptEndsFields
<1>10. ASSUME NEW t \in Turns, OwnerStep(t)
       PROVE  turn' \in [Turns -> TurnRecords]
  BY <1>1, <1>d, <1>4, <1>5, <1>6, <1>7, <1>8, <1>9, <1>10
  DEF OwnerStep, PreflightFails, PrepareFails, Detach, AgentRuns, Finish, Active, MayPrompt
<1>11. ASSUME NEW s \in Sessions, Abort(s)
       PROVE  turn' \in [Turns -> TurnRecords]
  <2>1. \A t \in Turns : Flagged(s)[t] \in TurnRecords
    BY FlaggedFields
  <2> QED
    BY <1>11, <2>1 DEF Abort, Flagged
<1>12. ASSUME NEW s \in Sessions, AbortSession(s)
       PROVE  turn' \in [Turns -> TurnRecords]
  <2>1. \A t \in Turns : turn'[t] \in TurnRecords
    BY <1>12, HeardFields
  <2>2. turn' = [t \in Turns |-> turn'[t]]
    BY <1>12 DEF AbortSession
  <2> QED
    BY <2>1, <2>2
<1>13. ASSUME NEW s \in Sessions, AbortReturns(s)
       PROVE  turn' \in [Turns -> TurnRecords]
  <2>1. stop[s].turn \in Turns
    BY <1>13 DEF IInv, SessionInv, StopInv, AbortReturns, Begun
  <2>2. \A b \in BOOLEAN : [turn[stop[s].turn] EXCEPT !.stopped = b] \in TurnRecords
    BY <2>1, PointsOfTurn DEF TurnRecords
  <2>3. MayPrompt(stop[s].turn) \in BOOLEAN
    BY DEF MayPrompt, InPrompt
  <2> QED
    BY <1>1, <1>13, <2>1, <2>2, <2>3 DEF AbortReturns
<1>14. ASSUME NEW s \in Sessions,
              Visit(s) \/ VisitOpened(s) \/ Expire(s) \/ \E b \in Tabs : ReadState(b, s)
       PROVE  UNCHANGED turn
  BY <1>14 DEF Visit, VisitOpened, Expire, ReadState
<1>15. ASSUME (\E b \in Tabs : Connect(b) \/ Receive(b) \/ StreamEnds(b)) \/ Reconcile \/ UNCHANGED vars
       PROVE  UNCHANGED turn
  BY <1>15 DEF Connect, Receive, StreamEnds, Reconcile, vars
<1>16. CASE UNCHANGED turn
  BY <1>0, <1>16 DEF TypeOK
<1> QED
  BY <1>3, <1>8, <1>9, <1>10, <1>11, <1>12, <1>13, <1>14, <1>15, <1>16 DEF Next

LEMMA BrokerType ==
  ASSUME IInv, [Next]_vars, ~Die
  PROVE  /\ claim' \in [Sessions -> Turns \cup {None}] /\ pinned' \subseteq Sessions
         /\ handle' \in [Sessions -> Turns \cup {None}]
<1>0. TypeOK
  BY DEF IInv
<1>1. ASSUME NEW s \in Sessions, Release(s)
      PROVE  claim' \in [Sessions -> Turns \cup {None}] /\ pinned' \subseteq Sessions
  BY <1>0, <1>1 DEF Release, TypeOK
<1>2. ASSUME NEW s \in Sessions, NEW t \in Turns, Claims(t, s)
      PROVE  claim' \in [Sessions -> Turns \cup {None}] /\ pinned' \subseteq Sessions
  BY <1>0, <1>2 DEF Claims, TypeOK
<1>3. CASE UNCHANGED <<claim, pinned, handle>>
  BY <1>0, <1>3 DEF TypeOK
<1>4. ASSUME NEW t \in Turns, NEW s \in Sessions, Post(t, s)
      PROVE  /\ UNCHANGED <<claim, pinned>> \/ Claims(t, s)
             /\ UNCHANGED handle
  BY <1>4 DEF Post, Admit
<1>5. ASSUME NEW t \in Turns, OwnerStep(t) \/ Spend(t) \/ Compact(t) \/ Ask(t), ~Begin(t)
      PROVE  /\ \/ UNCHANGED <<claim, pinned>> \/ Release(turn[t].session)
                \/ Claims(t, turn[t].session)
             /\ UNCHANGED handle
             /\ UNCHANGED <<claim, pinned>> \/ turn[t].session \in Sessions
  <2>1. turn[t].pc = "opening" \/ Owned(t) => turn[t].session \in Sessions
    BY PointsOfTurn DEF TurnInv, Claimed
  <2> QED
    BY <1>5, <2>1 DEF OwnerStep, PostOpened, Admit, PreflightFails, PrepareFails, Detach, Conclude,
                      Answer, PromptEnds, Finish, AgentRuns, At, Spend, Compact, Ask, broker, Owned,
                      Active, MayPrompt, InPrompt
<1>6. ASSUME NEW t \in Turns, Begin(t)
      PROVE  /\ claim' \in [Sessions -> Turns \cup {None}] /\ pinned' \subseteq Sessions
             /\ handle' \in [Sessions -> Turns \cup {None}]
  <2>1. turn[t].session \in Sessions
    BY <1>6, PointsOfTurn DEF Begin, TurnInv, Claimed, Owned
  <2> QED
    BY <1>0, <1>1, <1>6, <2>1 DEF Begin, TypeOK
<1>7. ASSUME NEW s \in Sessions,
             \/ Visit(s) \/ VisitOpened(s) \/ Abort(s) \/ AbortSession(s) \/ AbortReturns(s)
             \/ \E b \in Tabs : ReadState(b, s)
      PROVE  UNCHANGED <<claim, pinned, handle>>
  BY <1>7 DEF Visit, VisitOpened, Abort, AbortSession, AbortReturns, ReadState, broker
<1>8. ASSUME NEW s \in Sessions, Expire(s)
      PROVE  UNCHANGED <<claim, pinned>> /\ handle' = [handle EXCEPT ![s] = None]
  BY <1>8 DEF Expire
<1>9. ASSUME (\E b \in Tabs : Connect(b) \/ Receive(b) \/ StreamEnds(b)) \/ Reconcile \/ UNCHANGED vars
      PROVE  UNCHANGED <<claim, pinned, handle>>
  BY <1>9 DEF Connect, Receive, StreamEnds, Reconcile, broker, vars
<1>10. ASSUME NEW t \in Turns, NEW s \in Sessions, Post(t, s)
       PROVE  /\ claim' \in [Sessions -> Turns \cup {None}] /\ pinned' \subseteq Sessions
              /\ handle' \in [Sessions -> Turns \cup {None}]
  BY <1>0, <1>2, <1>4, <1>10 DEF TypeOK
<1>11. ASSUME NEW t \in Turns, OwnerStep(t) \/ Spend(t) \/ Compact(t) \/ Ask(t)
       PROVE  /\ claim' \in [Sessions -> Turns \cup {None}] /\ pinned' \subseteq Sessions
              /\ handle' \in [Sessions -> Turns \cup {None}]
  BY <1>0, <1>1, <1>2, <1>5, <1>6, <1>11 DEF TypeOK
<1>12. ASSUME NEW s \in Sessions, Expire(s)
       PROVE  /\ claim' \in [Sessions -> Turns \cup {None}] /\ pinned' \subseteq Sessions
              /\ handle' \in [Sessions -> Turns \cup {None}]
  BY <1>0, <1>8, <1>12 DEF TypeOK
<1> QED
  BY <1>3, <1>7, <1>9, <1>10, <1>11, <1>12 DEF Next

\* The variables with simple updates.
LEMMA StateType ==
  ASSUME IInv, [Next]_vars, ~Die
  PROVE  /\ visit' \subseteq Sessions /\ tracked' \subseteq Turns
         /\ ledger' \in [Turns -> 0..MaxFrames]
         /\ stop' \in [Sessions -> StopRecords] /\ row' \in [Turns -> RowRecords]
         /\ epoch' \in Nat
<1> DEFINE Typed ==
         /\ visit' \subseteq Sessions /\ tracked' \subseteq Turns
         /\ ledger' \in [Turns -> 0..MaxFrames]
         /\ stop' \in [Sessions -> StopRecords] /\ row' \in [Turns -> RowRecords]
         /\ epoch' \in Nat
<1> USE DEF registry, broker, money
<1>0. TypeOK /\ \A t \in Turns : row[t] \in RowRecords
  BY DEF IInv, TypeOK
<1>1. \A t \in Turns, status \in {"completed", "failed", "cancelled"} :
         Finished(row[t], status) \in RowRecords
  BY <1>0 DEF Finished, RowRecords
<1>2. ASSUME NEW t \in Turns, NEW status \in {"completed", "failed"}, Conclude(t, status)
      PROVE  UNCHANGED <<visit, stop, epoch>> /\ tracked' \subseteq Turns /\ row' \in [Turns -> RowRecords]
  <2>1. PICK st \in {"completed", "failed", "cancelled"} :
           row' = [row EXCEPT ![t] = Finished(row[t], st)] \/ row' = row
    BY <1>2 DEF Conclude
  <2> QED
    BY <1>0, <1>1, <1>2, <2>1 DEF Conclude, TypeOK
<1>3. ASSUME NEW t \in Turns, OwnerStep(t) \/ Spend(t) \/ Compact(t) \/ Ask(t) PROVE Typed
  <2>1. CASE PrepareFails(t)
    BY <1>0, <1>2, <2>1 DEF PrepareFails, TypeOK
  <2>5. CASE Finish(t)
    <3>1. RunCost(t) \in 0..MaxFrames
      BY PointsOfTurn, ChatAssumption DEF RunCost, Report, TurnRecords
    <3> QED
      BY <1>0, <1>2, <2>5, <3>1 DEF Finish, TypeOK
  <2>2. CASE Detach(t)
    BY <1>0, <1>2, <2>2 DEF Detach, TypeOK
  <2>3. CASE Begin(t)
    <3>1. [status |-> "running", epoch |-> epoch] \in RowRecords
      BY <1>0 DEF TypeOK, RowRecords
    <3> QED
      BY <1>0, <2>3, <3>1 DEF Begin, TypeOK
  <2>4. CASE \/ PostOpened(t) \/ PreflightFails(t) \/ AgentRuns(t) \/ Answer(t) \/ PromptEnds(t)
             \/ Spend(t) \/ Compact(t) \/ Ask(t)
    BY <1>0, <2>4 DEF PostOpened, PreflightFails, AgentRuns, Answer, PromptEnds, AfterPrompt, Spend,
                      Compact, Ask, TypeOK
  <2> QED
    BY <1>3, <2>1, <2>2, <2>3, <2>4, <2>5 DEF OwnerStep
<1>4. ASSUME NEW s \in Sessions, Abort(s) PROVE Typed
  <2>1. handle[s] \in Turns
    BY <1>0, <1>4 DEF Abort, TypeOK
  <2>2. [pc |-> "flagged", turn |-> handle[s], awaits |-> {}] \in StopRecords
    BY <2>1 DEF StopRecords
  <2> QED
    BY <1>0, <1>4, <2>2 DEF Abort, TypeOK
<1>5. ASSUME NEW s \in Sessions, AbortSession(s) PROVE Typed
  <2>1. stop[s] \in StopRecords
    BY <1>0 DEF TypeOK
  <2>2. \A awaited \in SUBSET Turns :
          [stop[s] EXCEPT !.pc = "aborting", !.awaits = awaited] \in StopRecords
    BY <2>1 DEF StopRecords
  <2>3. PICK awaited \in SUBSET Turns :
          stop' = [stop EXCEPT ![s] = [stop[s] EXCEPT !.pc = "aborting", !.awaits = awaited]]
    BY <1>5 DEF AbortSession
  <2> QED
    BY <1>0, <1>5, <2>2, <2>3 DEF AbortSession, TypeOK
<1>6. ASSUME NEW s \in Sessions, AbortReturns(s) PROVE Typed
  <2>1. NoStop \in StopRecords
    BY DEF NoStop, StopRecords
  <2> QED
    BY <1>0, <1>6, <2>1 DEF AbortReturns, TypeOK
<1>7. CASE Reconcile
  <2>1. \A t \in Turns : [row[t] EXCEPT !.status = "interrupted"] \in RowRecords
    BY <1>0 DEF RowRecords
  <2> QED
    BY <1>0, <1>7, <2>1 DEF Reconcile, TypeOK
<1>8. ASSUME NEW s \in Sessions,
             \/ Visit(s) \/ VisitOpened(s) \/ Expire(s) \/ \E t \in Turns : Post(t, s)
             \/ \E b \in Tabs : ReadState(b, s)
      PROVE  Typed
  BY <1>0, <1>8 DEF Visit, VisitOpened, Expire, Post, ReadState, TypeOK
<1>9. ASSUME (\E b \in Tabs : Connect(b) \/ Receive(b) \/ StreamEnds(b)) \/ UNCHANGED vars
      PROVE  Typed
  BY <1>0, <1>9 DEF Connect, Receive, StreamEnds, TypeOK, vars
<1> QED
  BY <1>3, <1>4, <1>5, <1>6, <1>7, <1>8, <1>9 DEF Next

-----------------------------------------------------------------------------
(* The tabs *)

\* A tab that does nothing still shows what it should.
LEMMA TabFrame ==
  ASSUME IInv, NEW b \in Tabs, tab'[b] = tab[b], \A u \in Turns : Progress(u),
         turn' \in [Turns -> TurnRecords]
  PROVE  TabInv(b)' /\ tab'[b] \in TabRecords
<1>0. TypeOK /\ TabInv(b) /\ tab[b] \in TabRecords
  BY DEF IInv, TypeOK
<1>1. \A u \in Turns : turn[u].frames \in Nat /\ turn'[u].frames \in Nat
  BY <1>0, ChatAssumption DEF TypeOK, TurnRecords
<1>2. tab[b].cursor \in Nat
  BY <1>0, ChatAssumption DEF TabRecords
<1>3. CASE tab[b].pc = "snapshot"
  <2>1. PICK t \in Turns : tab[b].run = t /\ Begun(t)
    BY <1>0, <1>3 DEF TabInv, Begun
  <2>2. Begun(t)' /\ turn'[t].frames >= turn[t].frames
    BY <2>1 DEF Progress
  <2> QED
    BY <1>0, <1>1, <1>2, <1>3, <2>1, <2>2 DEF TabInv
<1>4. CASE tab[b].pc = "reading"
  <2>1. PICK t \in Turns : tab[b].conn = t /\ Begun(t)
    BY <1>0, <1>4 DEF TabInv, Begun
  <2>2. Begun(t)' /\ turn'[t].frames >= turn[t].frames
    BY <2>1 DEF Progress
  <2> QED
    BY <1>0, <1>1, <1>2, <1>4, <2>1, <2>2 DEF TabInv
<1>5. CASE tab[b].pc \notin {"snapshot", "reading"}
  BY <1>0, <1>5 DEF TabInv
<1> QED
  BY <1>3, <1>4, <1>5

LEMMA NoTabKeeps ==
  ASSUME NEW b \in Tabs, tab'[b] = NoTab
  PROVE  TabInv(b)' /\ tab'[b] \in TabRecords
BY ChatAssumption DEF NoTab, TabInv, TabRecords

LEMMA ReadStateKeeps ==
  ASSUME IInv, NEW b \in Tabs, NEW s \in Sessions, ReadState(b, s)
  PROVE  TabInv(b)' /\ tab'[b] \in TabRecords
<1>0. TypeOK /\ HandleInv(s)
  BY DEF IInv, SessionInv
<1>1. PICK t \in Turns : handle[s] = t /\ Begun(t) /\ turn[t] \in TurnRecords
  BY <1>0 DEF ReadState, HandleInv, Begun, TypeOK
<1>2. tab'[b] = [pc |-> "snapshot", session |-> s, run |-> t, conn |-> None,
                 cursor |-> turn[t].frames, shown |-> 1..turn[t].frames]
  BY <1>0, <1>1 DEF ReadState, TypeOK, NoTab
<1>4. turn' = turn
  BY DEF ReadState
<1>5. turn[t].frames \in 0..MaxFrames + 1 /\ MaxFrames \in Nat
  BY <1>1, ChatAssumption DEF TurnRecords
<1>6. tab'[b] \in TabRecords
  <2>1. 1..turn[t].frames \in SUBSET (1..MaxFrames + 1)
    BY <1>5
  <2> QED
    BY <1>2, <1>5, <2>1 DEF TabRecords
<1>7. TabInv(b)'
  BY <1>1, <1>2, <1>4, <1>5 DEF TabInv, Begun, Active, MayPrompt, InPrompt
<1> QED
  BY <1>6, <1>7

LEMMA ConnectKeeps ==
  ASSUME IInv, NEW b \in Tabs, Connect(b)
  PROVE  TabInv(b)' /\ tab'[b] \in TabRecords
<1>0. TypeOK /\ TabInv(b) /\ tab[b] \in TabRecords /\ turn' = turn
  BY DEF IInv, TypeOK, Connect
<1>1. CASE tab' = [tab EXCEPT ![b] = NoTab]
  BY <1>0, <1>1, NoTabKeeps DEF TypeOK
<1>2. CASE ~(tab' = [tab EXCEPT ![b] = NoTab])
  <2>0. tab[b].session \in Sessions /\ handle[tab[b].session] # None
    BY <1>0, <1>2 DEF Connect, TabInv
  <2>1. PICK t \in Turns : handle[tab[b].session] = t /\ Begun(t)
    BY <2>0 DEF IInv, SessionInv, HandleInv, Begun
  <2>3. tab'[b] = [tab[b] EXCEPT !.pc = "reading", !.conn = t, !.cursor = tab[b].cursor]
    BY <1>0, <1>2, <2>1 DEF Connect, ResumesAfter, TypeOK
  <2>2. /\ tab'[b].pc = "reading" /\ tab'[b].conn = t /\ tab'[b].cursor = tab[b].cursor
        /\ tab'[b].shown = tab[b].shown /\ tab'[b].run = tab[b].run /\ tab'[b] \in TabRecords
    BY <1>0, <2>3 DEF TabRecords
  <2> QED
    BY <1>0, <2>1, <2>2 DEF TabInv, Connect, Begun, Active, MayPrompt, InPrompt
<1> QED
  BY <1>1, <1>2

LEMMA ReadingKeeps ==
  ASSUME IInv, NEW b \in Tabs, Receive(b) \/ StreamEnds(b)
  PROVE  TabInv(b)' /\ tab'[b] \in TabRecords
<1>0. TypeOK /\ TabInv(b) /\ tab[b] \in TabRecords /\ turn' = turn /\ tab[b].pc = "reading"
  BY DEF IInv, TypeOK, Receive, StreamEnds, ReadToTheEnd
<1>1. PICK t \in Turns : tab[b].conn = t /\ Begun(t) /\ turn[t] \in TurnRecords
  BY <1>0 DEF TabInv, Begun, TypeOK
<1>2. /\ turn[t].frames \in 0..MaxFrames + 1 /\ tab[b].cursor \in 0..MaxFrames + 1
      /\ MaxFrames \in Nat /\ t # None
  BY <1>0, <1>1, ChatAssumption DEF TurnRecords, TabRecords
<1>3. CASE Receive(b)
  <2>1. tab'[b] = [tab[b] EXCEPT !.cursor = tab[b].cursor + 1,
                                 !.shown = tab[b].shown \cup {tab[b].cursor + 1}]
    BY <1>0, <1>3 DEF Receive, TypeOK
  <2>2. tab[b].cursor < turn[t].frames
    BY <1>1, <1>3 DEF Receive
  <2>3. tab[b].cursor + 1 \in 0..MaxFrames + 1 /\ tab[b].cursor + 1 \in 1..MaxFrames + 1
    BY <1>2, <2>2
  <2>4. /\ tab'[b].pc = "reading" /\ tab'[b].conn = t /\ tab'[b].run = tab[b].run
        /\ tab'[b].cursor = tab[b].cursor + 1
        /\ tab'[b].shown = tab[b].shown \cup {tab[b].cursor + 1}
        /\ tab'[b] \in TabRecords
    <3>1. tab[b].shown \cup {tab[b].cursor + 1} \in SUBSET (1..MaxFrames + 1)
      BY <1>0, <2>3 DEF TabRecords
    <3> DEFINE c == tab[b].cursor + 1
               shown == tab[b].shown \cup {c}
    <3>2. c \in 0..MaxFrames + 1 /\ shown \in SUBSET (1..MaxFrames + 1)
      BY <2>3, <3>1
    <3>3. tab'[b] = [tab[b] EXCEPT !.cursor = c, !.shown = shown]
      BY <2>1
    <3> HIDE DEF c, shown
    <3>4. /\ tab'[b].pc = "reading" /\ tab'[b].conn = t /\ tab'[b].run = tab[b].run
          /\ tab'[b].cursor = c /\ tab'[b].shown = shown /\ tab'[b] \in TabRecords
      BY <1>0, <1>1, <3>2, <3>3 DEF TabRecords
    <3> QED
      BY <3>4 DEF c, shown
  <2>5. 1..(tab[b].cursor + 1) = (1..tab[b].cursor) \cup {tab[b].cursor + 1}
    BY <1>2
  <2> QED
    BY <1>0, <1>1, <1>2, <2>2, <2>4, <2>5 DEF TabInv, Begun, Active, MayPrompt, InPrompt
<1>4. CASE StreamEnds(b)
  BY <1>0, <1>4, NoTabKeeps DEF StreamEnds, TypeOK
<1> QED
  BY <1>3, <1>4

LEMMA TabStep ==
  ASSUME IInv, [Next]_vars, ~Die
  PROVE  tab' \in [Tabs -> TabRecords] /\ \A b \in Tabs : TabInv(b)'
<1>0. TypeOK /\ turn' \in [Turns -> TurnRecords] /\ \A u \in Turns : Progress(u)
  BY TurnType, TurnStep DEF IInv
<1>1. ASSUME NEW b \in Tabs, NEW r, tab' = [tab EXCEPT ![b] = r], TabInv(b)', tab'[b] \in TabRecords
      PROVE  tab' \in [Tabs -> TabRecords] /\ \A c \in Tabs : TabInv(c)'
  <2>1. ASSUME NEW c \in Tabs, c # b PROVE TabInv(c)' /\ tab'[c] \in TabRecords
    <3>1. tab'[c] = tab[c]
      BY <1>0, <1>1, <2>1 DEF TypeOK
    <3> QED
      BY <1>0, <3>1, TabFrame
  <2>2. \A c \in Tabs : TabInv(c)' /\ tab'[c] \in TabRecords
    BY <1>1, <2>1
  <2>3. DOMAIN tab' = Tabs /\ tab' = [c \in Tabs |-> tab'[c]]
    BY <1>0, <1>1 DEF TypeOK
  <2> QED
    BY <2>2, <2>3
<1>2. CASE UNCHANGED tab
  BY <1>0, <1>2, TabFrame DEF TypeOK
<1>3. ASSUME NEW b \in Tabs, NEW s \in Sessions, ReadState(b, s)
      PROVE  tab' \in [Tabs -> TabRecords] /\ \A c \in Tabs : TabInv(c)'
  BY <1>1, <1>3, ReadStateKeeps DEF ReadState
<1>4. ASSUME NEW b \in Tabs, Connect(b)
      PROVE  tab' \in [Tabs -> TabRecords] /\ \A c \in Tabs : TabInv(c)'
  BY <1>1, <1>4, ConnectKeeps DEF Connect
<1>5. ASSUME NEW b \in Tabs, Receive(b) \/ StreamEnds(b)
      PROVE  tab' \in [Tabs -> TabRecords] /\ \A c \in Tabs : TabInv(c)'
  BY <1>1, <1>5, ReadingKeeps DEF Receive, StreamEnds
<1>6. ASSUME NEW t \in Turns, OwnerStep(t) \/ Spend(t) \/ Compact(t) \/ Ask(t) \/ \E s \in Sessions : Post(t, s)
      PROVE  UNCHANGED tab
  BY <1>6 DEF OwnerStep, PostOpened, PreflightFails, Begin, PrepareFails, Detach, Conclude, Answer,
              PromptEnds, Finish, AgentRuns, Spend, Compact, Ask, Post
<1>7. ASSUME NEW s \in Sessions,
             \/ Visit(s) \/ VisitOpened(s) \/ Abort(s) \/ AbortSession(s) \/ AbortReturns(s) \/ Expire(s)
      PROVE  UNCHANGED tab
  BY <1>7 DEF Visit, VisitOpened, Abort, AbortSession, AbortReturns, Expire
<1>8. ASSUME Reconcile \/ UNCHANGED vars PROVE UNCHANGED tab
  BY <1>8 DEF Reconcile, vars
<1> QED
  BY <1>2, <1>3, <1>4, <1>5, <1>6, <1>7, <1>8 DEF Next

-----------------------------------------------------------------------------
(* The death of the process *)

LEMMA DieKeeps ==
  ASSUME IInv, Die
  PROVE  IInv'
<1>0. TypeOK /\ MaxFrames \in Nat /\ epoch \in Nat
  BY ChatAssumption DEF IInv, TypeOK
<1>1. ASSUME NEW u \in Turns
      PROVE  /\ turn'[u] \in TurnRecords
             /\ turn'[u].pc = IF Owned(u) \/ turn[u].pc = "opening" THEN "lost" ELSE turn[u].pc
             /\ turn'[u].spent = 0 /\ turn'[u].tally = 0 /\ turn'[u].frames = 0
             /\ turn'[u].asking = FALSE /\ turn'[u].stopped = FALSE
  <2> DEFINE p == IF Owned(u) \/ turn[u].pc = "opening" THEN "lost" ELSE turn[u].pc
  <2>1. turn[u].pc \in Points /\ "lost" \in Points
    BY PointsOfTurn DEF TurnRecords, Points
  <2>2. p \in Points
    BY <2>1
  <2>3. turn'[u] = Done(p)
    BY DEF Die
  <2> HIDE DEF p
  <2>4. /\ turn'[u] \in TurnRecords /\ turn'[u].pc = p
        /\ turn'[u].spent = 0 /\ turn'[u].tally = 0 /\ turn'[u].frames = 0
        /\ turn'[u].asking = FALSE /\ turn'[u].stopped = FALSE
    <3>1. 0 \in 0..MaxFrames + 1
      BY <1>0
    <3> QED
      BY <2>2, <2>3, <3>1, OverFields DEF Done, NewTurn
  <2> QED
    BY <2>4 DEF p
<1>2. turn' \in [Turns -> TurnRecords]
  BY <1>1 DEF Die
<1>4. TypeOK'
  <2>1. NoStop \in StopRecords /\ NoTab \in TabRecords
    BY <1>0 DEF NoStop, StopRecords, NoTab, TabRecords
  <2> QED
    BY <1>0, <1>2, <2>1 DEF TypeOK, Die
<1>5. Registry'
  BY DEF Registry, Die
<1>6. ASSUME NEW u \in Turns PROVE TurnInv(u)'
  <2>1. TurnInv(u) /\ turn[u] \in TurnRecords /\ row[u] \in RowRecords
    BY PointsOfTurn
  <2>2. ledger' = ledger /\ row' = row /\ tracked' = {} /\ epoch' = epoch + 1
    BY DEF Die
  <2>3. /\ ~Owned(u)' /\ ~Active(u)' /\ ~InFlight(u)' /\ ~InPrompt(u)' /\ turn'[u].pc # "opening"
        /\ turn'[u].pc # "claimed"
    BY <1>1 DEF Owned, Active, MayPrompt, InFlight, InPrompt
  <2>4. row[u].epoch \in Nat
    BY <2>1 DEF RowRecords
  <2>5. Claimed(u)' /\ Published(u)' /\ Stopped(u)'
    BY <1>1, <2>3 DEF Claimed, Published, Stopped
  <2>6. Paid(u)'
    <3>1. turn[u].pc # "ended" => ledger[u] = 0
      BY <2>1 DEF TurnInv, Paid
    <3>2. turn'[u].pc # "ended" => turn[u].pc # "ended"
      BY <1>1 DEF Owned, Active, MayPrompt, InPrompt
    <3>3. /\ turn'[u].tally = 0 /\ turn'[u].spent = 0 /\ turn'[u].asking = FALSE
          /\ u \notin tracked' /\ ledger'[u] = ledger[u]
      BY <1>1, <2>2
    <3> QED
      BY <2>3, <3>1, <3>2, <3>3 DEF Paid
  <2>7. Recorded(u)'
    <3>1. row[u].status # "none" => Active(u) \/ turn[u].pc \in {"ended", "lost"}
      BY <2>1 DEF TurnInv, Recorded
    <3>2. /\ row[u].status \notin {"none", "running"} => turn[u].pc \in {"ended", "lost"}
          /\ turn[u].pc = "lost" => row[u].status \in {"none", "running", "interrupted"}
          /\ row[u].status = "interrupted" => row[u].epoch < epoch
          /\ row[u].epoch <= epoch
      BY <2>1 DEF TurnInv, Recorded
    <3>3. /\ Active(u) => turn'[u].pc = "lost" /\ turn[u].pc \notin {"ended", "lost"}
          /\ turn[u].pc \in {"ended", "lost"} => turn'[u].pc = turn[u].pc
          /\ turn'[u].pc = "lost" => turn[u].pc \notin {"ended"}
      BY <1>1 DEF Owned, Active, MayPrompt, InPrompt
    <3>4. row[u].epoch < epoch + 1 /\ row[u].epoch <= epoch + 1
      BY <1>0, <2>4, <3>2
    <3>5. turn'[u].pc = "lost" => row[u].status \in {"none", "running", "interrupted"}
      BY <1>1, <3>2, <3>3
    <3> QED
      BY <2>2, <2>3, <3>1, <3>2, <3>3, <3>4, <3>5 DEF Recorded
  <2> QED
    BY <2>5, <2>6, <2>7 DEF TurnInv
<1>7. ASSUME NEW s \in Sessions PROVE SessionInv(s)'
  BY DEF Die, SessionInv, HandleInv, StopInv, NoStop
<1>8. ASSUME NEW b \in Tabs PROVE TabInv(b)'
  BY NoTabKeeps DEF Die
<1> QED
  BY <1>4, <1>5, <1>6, <1>7, <1>8 DEF IInv

-----------------------------------------------------------------------------
(* The invariant holds, and what follows from it *)

LEMMA InvInit == Init => IInv
<1> SUFFICES ASSUME Init PROVE IInv
  OBVIOUS
<1>0. MaxFrames \in Nat
  BY ChatAssumption
<1>1. NewTurn \in TurnRecords /\ NoRow \in RowRecords /\ NoStop \in StopRecords /\ NoTab \in TabRecords
  BY <1>0 DEF NewTurn, TurnRecords, Points, NoRow, RowRecords, NoStop, StopRecords, NoTab, TabRecords
<1>2. TypeOK
  BY <1>0, <1>1 DEF Init, TypeOK
<1>3. Registry
  BY DEF Init, Registry
<1>4. \A t \in Turns : TurnInv(t)
  BY <1>0 DEF Init, TurnInv, Claimed, Paid, Published, Recorded, Stopped, Owned, Active, MayPrompt,
                   InPrompt, InFlight, NewTurn, NoRow
<1>5. \A s \in Sessions : SessionInv(s)
  BY DEF Init, SessionInv, HandleInv, StopInv, NoStop
<1>6. \A b \in Tabs : TabInv(b)
  BY DEF Init, TabInv, NoTab
<1> QED
  BY <1>2, <1>3, <1>4, <1>5, <1>6 DEF IInv

LEMMA InvStep == IInv /\ [Next]_vars => IInv'
<1> SUFFICES ASSUME IInv, [Next]_vars PROVE IInv'
  OBVIOUS
<1>1. CASE Die
  BY <1>1, DieKeeps
<1>2. CASE ~Die
  <2>1. TypeOK'
    BY <1>2, RegistryStep, TurnType, BrokerType, StateType, TabStep DEF TypeOK
  <2> QED
    BY <1>2, <2>1, RegistryStep, TurnStep, SessionStep, TabStep DEF IInv
<1> QED
  BY <1>1, <1>2

LEMMA InvAlways == Spec => []IInv
BY InvInit, InvStep, PTL DEF Spec

\* Every variable keeps its type.
THEOREM ChatTypeOK == Spec => []TypeOK
<1>1. IInv => TypeOK
  BY DEF IInv
<1> QED
  BY <1>1, InvAlways, PTL

\* A session has one turn at a time (sessions.ts, the guard of POST .../run).
THEOREM ChatOneTurn == Spec => []OneTurnAtATime
<1>1. IInv => OneTurnAtATime
  BY DEF IInv, TurnInv, Claimed, OneTurnAtATime
<1> QED
  BY <1>1, InvAlways, PTL

\* A turn in flight has no row yet, and its live report lies between nothing and its spend.
LEMMA ReportIsCounted ==
  ASSUME IInv, NEW t \in Turns, InFlight(t)
  PROVE  /\ Counted(t) = Report(t) /\ Report(t) \in Nat
         /\ Report(t) <= turn[t].spent /\ turn[t].spent \in Nat
         /\ turn[t].hidden = 0 => Report(t) = turn[t].spent
<1>1. TurnInv(t) /\ turn[t] \in TurnRecords
  BY PointsOfTurn
<1>2. t \in tracked /\ ledger[t] = 0
  BY <1>1 DEF TurnInv, Paid, InFlight, InPrompt
<1>3. /\ Report(t) \in Nat /\ Report(t) <= turn[t].spent /\ turn[t].spent \in Nat
      /\ turn[t].hidden = 0 => Report(t) = turn[t].spent
  BY <1>1, ChatAssumption DEF Report, TurnRecords
<1> QED
  BY <1>2, <1>3 DEF Counted

\* The row that replaces the report has the calls that ended, and without a compaction all.
LEMMA RowIsCounted ==
  ASSUME IInv, [Next]_vars, NEW t \in Turns, InFlight(t), ledger'[t] # ledger[t]
  PROVE  /\ Counted(t)' \in turn[t].tally..turn[t].spent
         /\ turn[t].hidden = 0 => Counted(t)' = turn[t].spent
<1>0. TypeOK /\ Paid(t) /\ turn[t] \in TurnRecords
  BY PointsOfTurn DEF IInv, TurnInv
<1> USE DEF money
<1>1. ASSUME ~Finish(t) PROVE FALSE
  <2>1. ASSUME NEW u \in Turns, Finish(u), u # t PROVE ledger'[t] = ledger[t]
    BY <1>0, <2>1 DEF Finish, TypeOK
  <2>2. ASSUME NEW u \in Turns, OwnerStep(u) \/ Spend(u) \/ Compact(u) \/ Ask(u), ~Finish(u)
        PROVE  UNCHANGED ledger
    BY <2>2 DEF OwnerStep, PostOpened, PreflightFails, Begin, PrepareFails, Detach, AgentRuns, Answer,
                PromptEnds, Spend, Compact, Ask
  <2>3. ASSUME NEW s \in Sessions,
               \/ Visit(s) \/ VisitOpened(s) \/ Abort(s) \/ AbortSession(s) \/ AbortReturns(s)
               \/ Expire(s) \/ \E u \in Turns : Post(u, s)
               \/ \E b \in Tabs : ReadState(b, s)
        PROVE  UNCHANGED ledger
    BY <2>3 DEF Visit, VisitOpened, Abort, AbortSession, AbortReturns, Expire, Post, ReadState
  <2>4. ASSUME \/ \E b \in Tabs : Connect(b) \/ Receive(b) \/ StreamEnds(b)
               \/ Die \/ Reconcile \/ UNCHANGED vars
        PROVE  UNCHANGED ledger
    BY <2>4 DEF Connect, Receive, StreamEnds, Die, Reconcile, vars
  <2> QED
    BY <1>1, <2>1, <2>2, <2>3, <2>4 DEF Next
<1>2. ledger'[t] = RunCost(t) /\ t \notin tracked'
  BY <1>0, <1>1 DEF Finish, Conclude, TypeOK
<1>3. Counted(t)' = RunCost(t) + 0
  BY <1>2 DEF Counted
<1>4. turn[t].tally \in Nat /\ turn[t].tally <= turn[t].spent
  BY <1>0, ChatAssumption DEF Paid, TurnRecords
<1>5. RunCost(t) \in turn[t].tally..turn[t].spent /\ (turn[t].hidden = 0 => RunCost(t) = turn[t].spent)
  BY <1>4, ReportIsCounted DEF RunCost
<1> QED
  BY <1>3, <1>4, <1>5

\* An admission counts what the turns of this process have spent, never twice, and all of it
\* unless a conversation was compacted; the row that comes after has all the calls that ended
\* (sessions.ts, the spend of live runs and the ledger; ledger.ts, projectCostSummary).
THEOREM ChatSpendIsSeen == Spec => SpendIsSeen
<1> DEFINE Live == \A t \in Turns : InFlight(t) =>
                     /\ Counted(t) <= turn[t].spent
                     /\ turn[t].hidden = 0 => Counted(t) = turn[t].spent
           Books == \A t \in Turns : InFlight(t) /\ ledger'[t] # ledger[t] =>
                      /\ Counted(t)' \in turn[t].tally..turn[t].spent
                      /\ turn[t].hidden = 0 => Counted(t)' = turn[t].spent
<1>1. IInv => Live
  BY ReportIsCounted
<1>2. IInv /\ [Next]_vars => [Books]_vars
  BY RowIsCounted
<1> HIDE DEF Live, Books
<1>3. Spec => []Live /\ [][Books]_vars
  BY <1>1, <1>2, InvAlways, PTL DEF Spec
<1> QED
  BY <1>3 DEF SpendIsSeen, Live, Books

\* A turn whose abort has returned is not prompting unless it could not hear of it, and none
\* that was told to stop waits for its user (sessions.ts, POST .../abort).
THEOREM ChatAbortsHold == Spec => []AbortsHold
<1>1. IInv => AbortsHold
  BY DEF IInv, TurnInv, Stopped, AbortsHold, AbortIsAuthoritative, AbortedTurnsDoNotAsk
<1> QED
  BY <1>1, InvAlways, PTL

\* A tab that followed a turn to its end shows all of it, and the index of runs has what became
\* of it (run-broker.ts, runs-index.ts).
THEOREM ChatReadersAreRight == Spec => []ReadersAreRight
<1>1. IInv => ReadersAreRight
  <2> SUFFICES ASSUME IInv PROVE ReadersAreRight
    OBVIOUS
  <2>1. ASSUME NEW b \in Tabs, ReadToTheEnd(b), tab[b].conn = tab[b].run
        PROVE  tab[b].shown = 1..turn[tab[b].run].frames
    <3>1. PICK t \in Turns : tab[b].run = t /\ turn[t] \in TurnRecords /\ tab[b] \in TabRecords
      BY <2>1 DEF IInv, TabInv, Begun, ReadToTheEnd, TypeOK
    <3>2. tab[b].shown = 1..tab[b].cursor /\ tab[b].cursor <= turn[t].frames
      BY <2>1, <3>1 DEF IInv, TabInv, ReadToTheEnd
    <3>3. tab[b].cursor = turn[t].frames
      BY <2>1, <3>1, <3>2, ChatAssumption DEF ReadToTheEnd, TurnRecords, TabRecords
    <3> QED
      BY <3>1, <3>2, <3>3
  <2>2. RowsFollowTurns
    <3>1. ASSUME NEW t \in Turns, row[t].status = "interrupted" PROVE row[t].epoch # epoch
      BY <3>1 DEF IInv, TurnInv, Recorded, TypeOK, RowRecords
    <3> QED
      BY <3>1 DEF IInv, TurnInv, Recorded, RowsFollowTurns
  <2> QED
    BY <2>1, <2>2 DEF ReadersAreRight, TabsShowTheWholeTurn
<1> QED
  BY <1>1, InvAlways, PTL

-----------------------------------------------------------------------------
(* Evictions *)

\* What is evicted is neither prompting nor pinned, so nobody has claimed it.
LEMMA EvictsUnclaimed ==
  ASSUME IInv, NEW s \in Sessions, NEW n \in Objects, Opened(s, n),
         NEW o \in Objects, object[o] = "open", object'[o] = "disposed",
         NEW t \in Turns, Owned(t)
  PROVE  turn[t].object # o
<1> DEFINE held == [live EXCEPT ![s] = n]
           out == Victims(Touched(s), held)
<1>0. TypeOK /\ Registry
  BY DEF IInv
<1>1. n # o
  BY <1>0, OpenedKeeps
<1>2. PICK k \in out : held[k] = o
  BY <1>1 DEF Opened
<1>3. k \in Sessions /\ ~Busy(k, held[k])
  BY DEF Victims
<1>4. live[k] = o
  BY <1>0, <1>1, <1>2, <1>3 DEF TypeOK
<1>5. k \notin pinned
  BY <1>3 DEF Busy
<1> QED
  BY <1>4, <1>5, <1>3, PointsOfTurn DEF TurnInv, Claimed

\* Whatever is opened, the session of a turn in progress is not evicted (registry.ts,
\* evictOverCap and the pins).
THEOREM ChatClaimedSessionStaysOpen == Spec => ClaimedSessionStaysOpen
<1> DEFINE Keeps == epoch' = epoch =>
              \A o \in Objects : object[o] = "open" /\ object'[o] = "disposed"
                => \A t \in Turns : Owned(t) => turn[t].object # o
<1>1. IInv /\ [Next]_vars => [Keeps]_vars
  <2> SUFFICES ASSUME IInv, Next, epoch' = epoch,
                      NEW o \in Objects, object[o] = "open", object'[o] = "disposed",
                      NEW t \in Turns, Owned(t)
               PROVE  turn[t].object # o
    BY DEF Keeps
  <2>1. object' # object
    OBVIOUS
  <2>2. ~Die
    BY ChatAssumption DEF Die, IInv, TypeOK
  <2>3. ASSUME NEW s \in Sessions, NEW n \in Objects, Opened(s, n)
        PROVE  turn[t].object # o
    BY <2>3, EvictsUnclaimed
  <2>4. ASSUME NEW s \in Sessions, VisitOpened(s)
        PROVE  turn[t].object # o
    BY <2>3, <2>4 DEF VisitOpened
  <2>5. ASSUME NEW u \in Turns, PostOpened(u)
        PROVE  turn[t].object # o
    BY <2>3, <2>5, PointsOfTurn DEF PostOpened, TurnInv, Claimed
  <2>6. ASSUME NEW u \in Turns, OwnerStep(u) \/ Spend(u) \/ Compact(u) \/ Ask(u), ~PostOpened(u)
        PROVE  FALSE
    BY <2>1, <2>6 DEF OwnerStep, PreflightFails, Begin, PrepareFails, Detach, Conclude, Answer,
                      PromptEnds, Finish, AgentRuns, Spend, Compact, Ask, registry
  <2>7. ASSUME NEW s \in Sessions,
               \/ Visit(s) \/ Abort(s) \/ AbortSession(s) \/ AbortReturns(s) \/ Expire(s)
               \/ \E u \in Turns : Post(u, s)
               \/ \E b \in Tabs : ReadState(b, s)
        PROVE  FALSE
    BY <2>1, <2>7 DEF Visit, Abort, AbortSession, AbortReturns, Expire, Post, ReadState, registry
  <2>8. ASSUME (\E b \in Tabs : Connect(b) \/ Receive(b) \/ StreamEnds(b)) \/ Reconcile
        PROVE  FALSE
    BY <2>1, <2>8 DEF Connect, Receive, StreamEnds, Reconcile, registry
  <2> QED
    BY <2>2, <2>4, <2>5, <2>6, <2>7, <2>8 DEF Next
<1> HIDE DEF Keeps
<1>2. Spec => [][Keeps]_vars
  BY <1>1, InvAlways, PTL DEF Spec
<1> QED
  BY <1>2 DEF ClaimedSessionStaysOpen, Keeps
=============================================================================
