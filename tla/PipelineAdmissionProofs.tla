----------------------- MODULE PipelineAdmissionProofs -----------------------
(*
What holds of an admission for any number of requests, deaths and interventions of users.  The argument: the
engine's row has at most one dispatched execution, which belongs to the process that claimed
it, and the settlement that is written into the record is the only one the reservation can
still get from it; what is proven by a run was read while the run's row was terminal, and
every terminal state that the row has been in is remembered.
*)
EXTENDS PipelineAdmission, TLAPS

-----------------------------------------------------------------------------
(* The inductive invariant *)

Proven(s) == s.usage \in {"observed", "full"}
HadEnding(s) == \E ending \in endings : s = Evidence(ending)

\* At most one dispatched execution is under way: that of the claim the present process made.
OneExecution ==
    /\ starts <= 1
    /\ row.status \in {"absent", "pending"} => starts = 0
    /\ \A c \in Calls :
          /\ executor[c] # "none" =>
                /\ row.by = process /\ row.dispatch \in {"dispatching", "queued", "running"}
                /\ request[c] # "unsent"
                /\ \A d \in Calls : executor[d] # "none" => d = c
          /\ executor[c] \in {"waiting", "rebound"} => starts = 0

\* A terminal row is one of the endings.
Remembered ==
    row.status \in TerminalRow => [status |-> row.status, usage |-> row.usage] \in endings

\* The intent of a settlement is written before it is applied, and written once.
RecordInv ==
    /\ DispatchIsWrittenAhead
    /\ record.status = "none" => record = NoRecord
    /\ record.status \notin {"settling", "settled"} => record.intent = NoIntent
    /\ record.status = "settling" => record.intent \in Settlements
    /\ SettlementsAgree
    /\ Proven(record.intent) => HadEnding(record.intent)

\* Who is about to mark the record settled has applied its intent to the reservation; who
\* is about to write an intent has one.
Applied == record.status \in {"settling", "settled"} /\ hold = SettledBy(record.intent)
ProcInv(p) ==
    /\ proc[p].pc = "finish" => Applied
    /\ proc[p].pc \in {"reconcile", "begin"} => proc[p].intent \in Settlements
    /\ Proven(proc[p].intent) => HadEnding(proc[p].intent)

IInv == TypeOK /\ OneExecution /\ Remembered /\ RecordInv /\ \A p \in Procs : ProcInv(p)

-----------------------------------------------------------------------------
(* A step of one handler or of the worker *)

\* Where it goes, and with which settlement in hand.
Moves(p, pcs, s) ==
    /\ proc' \in [Procs -> Processes]
    /\ proc'[p].pc \in pcs /\ proc'[p].intent = s
    /\ \A q \in Procs \ {p} : proc'[q] = proc[q]

LEMMA RestIs ==
  ASSUME NEW pc \in Points, NEW r \in RecordStatus, NEW s \in Settlements \cup {NoIntent}
  PROVE  /\ AtRest(pc) \in Processes /\ [AtRest(pc) EXCEPT !.seen = r] \in Processes
         /\ [AtRest(pc) EXCEPT !.intent = s] \in Processes
BY DEF AtRest, Processes, Answers, RecordStatus

LEMMA GoMoves ==
  ASSUME TypeOK, NEW p \in Procs, NEW pc \in Points, Go(p, pc)
  PROVE  Moves(p, {pc}, NoIntent)
<1>1. AtRest(pc) \in Processes /\ AtRest(pc).pc = pc /\ AtRest(pc).intent = NoIntent
  BY RestIs DEF AtRest, RecordStatus
<1> QED
  BY <1>1 DEF Go, Continue, Moves, TypeOK

LEMMA LeaveMoves ==
  ASSUME TypeOK, NEW p \in Procs, Leave(p)
  PROVE  Moves(p, {"idle", "done"}, NoIntent)
<1>1. proc \in [Procs -> Processes]
  BY DEF TypeOK
<1>2. End(p) \in Processes /\ End(p).pc \in {"idle", "done"} /\ End(p).intent = NoIntent
  BY DEF End, AtRest, Processes, Points, Answers, RecordStatus
<1> QED
  BY <1>1, <1>2 DEF Leave, Continue, Moves

LEMMA SettleMoves ==
  ASSUME TypeOK, NEW p \in Procs, NEW pc \in Points, NEW s \in Settlements,
         Continue(p, [AtRest(pc) EXCEPT !.intent = s])
  PROVE  Moves(p, {pc}, s)
<1>1. proc \in [Procs -> Processes]
  BY DEF TypeOK
<1>2. [AtRest(pc) EXCEPT !.intent = s] \in Processes
  BY DEF AtRest, Processes, Answers, RecordStatus
<1> QED
  BY <1>1, <1>2 DEF Continue, Ask, Moves, AtRest

LEMMA SeenMoves ==
  ASSUME TypeOK, NEW p \in Procs, NEW pc \in Points, NEW r \in RecordStatus, Ask(p, pc, r)
  PROVE  Moves(p, {pc}, NoIntent)
<1>1. proc \in [Procs -> Processes]
  BY DEF TypeOK
<1>2. [AtRest(pc) EXCEPT !.seen = r] \in Processes
  BY DEF AtRest, Processes, Answers
<1> QED
  BY <1>1, <1>2 DEF Continue, Ask, Moves, AtRest

LEMMA AnswerMoves ==
  ASSUME TypeOK, NEW p \in Procs, NEW a \in Answers,
         proc' = [proc EXCEPT ![p].answer = a]
  PROVE  Moves(p, {proc[p].pc}, proc[p].intent)
<1>1. proc \in [Procs -> Processes]
  BY DEF TypeOK
<1>2. [proc[p] EXCEPT !.answer = a] \in Processes
  BY <1>1 DEF Processes
<1> QED
  BY <1>1, <1>2 DEF Moves, Processes

\* What has been applied stays applied.
RecordKept ==
    /\ hold' \in Holds /\ record' \in Records
    /\ RecordInv'
    /\ Applied => Applied'

\* The engine does nothing, and no request is taken back.
EngineQuiet ==
    /\ UNCHANGED <<row, executor, gate, process, starts, users, endings>>
    /\ request' \in [Calls -> RequestStates] /\ listening' \in SUBSET Calls
    /\ \A c \in Calls : request[c] # "unsent" => request'[c] # "unsent"

\* Whoever moves, the invariant of everyone else follows from that.
LEMMA ProcKeeps ==
  ASSUME IInv, NEW p \in Procs, NEW pcs, NEW s, Moves(p, pcs, s), RecordKept,
         "finish" \in pcs => Applied', Proven(s) => HadEnding(s),
         pcs \cap {"reconcile", "begin"} # {} => s \in Settlements,
         EngineQuiet, owner' \in Nat, UNCHANGED <<instance, up>>
  PROVE  IInv'
<1>1. TypeOK'
  BY DEF IInv, TypeOK, EngineTypeOK, Moves, RecordKept, EngineQuiet
<1>2. OneExecution' /\ Remembered' /\ RecordInv'
  BY DEF IInv, OneExecution, Remembered, RecordKept, EngineQuiet
<1>3. ASSUME NEW q \in Procs PROVE ProcInv(q)'
  <2>1. CASE q = p
    <3>1. proc'[q].pc \in pcs /\ proc'[q].intent = s /\ endings' = endings
      BY <2>1 DEF Moves, EngineQuiet
    <3>2. Proven(proc'[q].intent) => \E ending \in endings' : proc'[q].intent = Evidence(ending)
      BY <3>1 DEF HadEnding
    <3>3. Proven(proc[q].intent)' => HadEnding(proc[q].intent)'
      BY <3>2 DEF HadEnding, Proven
    <3> QED
      BY <3>1, <3>3 DEF ProcInv
  <2>2. CASE q # p
    <3>1. ProcInv(q) /\ proc'[q] = proc[q]
      BY <2>2 DEF IInv, Moves
    <3> QED
      BY <3>1 DEF ProcInv, RecordKept, HadEnding, Proven, EngineQuiet
  <2> QED
    BY <2>1, <2>2
<1> QED
  BY <1>1, <1>2, <1>3 DEF IInv

LEMMA Quiet ==
  ASSUME IInv, UNCHANGED engineVars
  PROVE  EngineQuiet
BY DEF IInv, TypeOK, EngineTypeOK, engineVars, EngineQuiet

\* A step that changes neither record nor reservation.
LEMMA OnlyProcKeeps ==
  ASSUME IInv, NEW p \in Procs, NEW pcs, NEW s, Moves(p, pcs, s),
         "finish" \in pcs => Applied, Proven(s) => HadEnding(s),
         pcs \cap {"reconcile", "begin"} # {} => s \in Settlements,
         EngineQuiet, EverSent' => EverSent, UNCHANGED <<hold, owner, record, instance, up>>
  PROVE  IInv'
<1>1. RecordKept /\ (Applied => Applied') /\ owner' \in Nat
  BY DEF IInv, TypeOK, RecordKept, RecordInv, DispatchIsWrittenAhead, SettlementsAgree,
         Proven, HadEnding, Applied, EngineQuiet
<1> QED
  BY <1>1, ProcKeeps

LEMMA QuietRequests ==
  ASSUME UNCHANGED engineVars
  PROVE  EverSent' => EverSent
BY DEF engineVars, EverSent

-----------------------------------------------------------------------------
(* Steps that only read *)

LEMMA Facts ==
  ASSUME IInv, NEW p \in Procs
  PROVE  /\ TypeOK /\ ProcInv(p) /\ RecordInv
         /\ proc[p] \in Processes /\ record \in Records /\ hold \in Holds
         /\ owner \in Nat /\ row \in Rows
         /\ request \in [Calls -> RequestStates] /\ instance \in Nat
         /\ Remembered
BY DEF IInv, TypeOK, EngineTypeOK

\* Going on, or leaving, without having applied anything.
LEMMA GoKeeps ==
  ASSUME IInv, NEW p \in Procs, NEW pc \in Points \ {"finish", "reconcile", "begin"}, Go(p, pc),
         UNCHANGED <<engineVars, hold, owner, record, instance, up>>
  PROVE  IInv'
<1>1. Moves(p, {pc}, NoIntent) /\ ~Proven(NoIntent)
  BY Facts, GoMoves DEF NoIntent, Proven
<1> QED
  BY <1>1, OnlyProcKeeps, Quiet, QuietRequests

LEMMA LeaveKeeps ==
  ASSUME IInv, NEW p \in Procs, Leave(p),
         UNCHANGED <<engineVars, hold, owner, record, instance, up>>
  PROVE  IInv'
BY Facts, LeaveMoves, OnlyProcKeeps, Quiet, QuietRequests DEF NoIntent, Proven

LEMMA SettleWithKeeps ==
  ASSUME IInv, NEW p \in Procs, NEW s \in Settlements, SettleWith(p, s), Proven(s) => HadEnding(s),
         UNCHANGED <<engineVars, hold, owner, record, instance, up>>
  PROVE  IInv'
<1>1. Moves(p, {"begin"}, s)
  BY Facts, SettleMoves DEF SettleWith, Points
<1> QED
  BY <1>1, OnlyProcKeeps, Quiet, QuietRequests

LEMMA ZeroIsSettlement == Zero \in Settlements /\ ~Proven(Zero)
BY DEF Zero, Settlements, TerminalRow, Proven

LEMMA FindAdmissionKeeps ==
  ASSUME IInv, NEW c \in Calls, FindAdmission(c)
  PROVE  IInv'
<1>1. c \in Procs
  BY DEF Procs
<1>2. UNCHANGED <<engineVars, hold, owner, record, instance, up>>
  BY DEF FindAdmission
<1>3. \/ Go(c, "reserve") \/ Go(c, "complete") \/ Go(c, "recheck") \/ Leave(c)
      \/ SettleWith(c, Zero)
      \/ /\ record.status \in {"dispatching", "dispatched"}
         /\ Ask(c, "lookup", record.status)
  BY <1>1, Facts DEF FindAdmission, Records, RecordStatus
<1>4. CASE /\ record.status \in {"dispatching", "dispatched"}
           /\ Ask(c, "lookup", record.status)
  <2>1. Moves(c, {"lookup"}, NoIntent)
    BY <1>1, <1>4, Facts, SeenMoves DEF Points, RecordStatus
  <2> QED
    BY <1>1, <1>2, <2>1, OnlyProcKeeps, Quiet, QuietRequests DEF NoIntent, Proven
<1> QED
  BY <1>1, <1>2, <1>3, <1>4, GoKeeps, LeaveKeeps, SettleWithKeeps, ZeroIsSettlement DEF Points

LEMMA EngineAnswersKeeps ==
  ASSUME IInv, NEW p \in Procs, EngineAnswers(p)
  PROVE  IInv'
<1>1. UNCHANGED <<engineVars, hold, owner, record, instance, up>>
  BY DEF EngineAnswers
<1>2. CASE Leave(p)
  BY <1>1, <1>2, LeaveKeeps
<1>3. CASE proc' = [proc EXCEPT ![p].answer = QueryAnswers]
  <2>1. QueryAnswers \in Answers
    BY DEF QueryAnswers, Answers
  <2>2. Moves(p, {proc[p].pc}, proc[p].intent)
    BY <1>3, <2>1, Facts, AnswerMoves
  <2> QED
    BY <1>1, <2>2, Facts, OnlyProcKeeps, Quiet, QuietRequests DEF EngineAnswers, Asking, ProcInv
<1> QED
  BY <1>2, <1>3 DEF EngineAnswers

LEMMA EngineUnreachableKeeps ==
  ASSUME IInv, NEW p \in Procs, EngineUnreachable(p)
  PROVE  IInv'
BY LeaveKeeps DEF EngineUnreachable

LEMMA ReplayKeeps ==
  ASSUME IInv, NEW c \in Calls, Replay(c)
  PROVE  IInv'
BY GoKeeps DEF Replay, Procs, Points

LEMMA ReleaseKeeps ==
  ASSUME IInv, NEW p \in Procs, Release(p)
  PROVE  IInv'
BY SettleWithKeeps, ZeroIsSettlement DEF Release

\* What a terminal run is settled with.
LEMMA EvidenceKeeps ==
  ASSUME IInv, NEW p \in Procs, row.status \in TerminalRow, ReconcileWith(p, Evidence(row)),
         UNCHANGED <<engineVars, hold, owner, record, instance, up>>
  PROVE  IInv'
<1>1. Evidence(row) \in Settlements
  BY Facts DEF Evidence, Settlements, TerminalRow, Rows
<1>2. Moves(p, {"reconcile"}, Evidence(row))
  BY <1>1, Facts, SettleMoves DEF ReconcileWith, Points
<1>3. HadEnding(Evidence(row))
  BY Facts DEF HadEnding, Remembered, Evidence
<1> QED
  BY <1>1, <1>2, <1>3, OnlyProcKeeps, Quiet, QuietRequests

LEMMA ReadRunKeeps ==
  ASSUME IInv, NEW p \in Procs, ReadRun(p)
  PROVE  IInv'
BY EvidenceKeeps, LeaveKeeps DEF ReadRun

LEMMA ReconcileCostKeeps ==
  ASSUME IInv, NEW c \in Calls, ReconcileCost(c)
  PROVE  IInv'
BY EvidenceKeeps DEF ReconcileCost, Procs

-----------------------------------------------------------------------------
(* Steps that change the reservation *)

LEMMA ReserveKeeps ==
  ASSUME IInv, NEW c \in Calls, ReserveNodeBudgets(c)
  PROVE  IInv'
<1>1. c \in Procs
  BY DEF Procs
<1>2. CASE Leave(c) /\ UNCHANGED <<hold, owner>>
  BY <1>1, <1>2, LeaveKeeps DEF ReserveNodeBudgets
<1>3. CASE hold = Untouched /\ hold' = Held /\ owner' = instance /\ Go(c, "persist")
  <2>1. Moves(c, {"persist"}, NoIntent)
    BY <1>1, <1>3, Facts, GoMoves DEF Points
  <2>2. RecordKept
    BY <1>1, <1>3, Facts
    DEF ReserveNodeBudgets, RecordKept, RecordInv, DispatchIsWrittenAhead, EverSent,
        SettlementsAgree, Proven, HadEnding, Applied, engineVars, Holds, Held, Untouched, SettledBy
  <2>3. owner' \in Nat /\ EngineQuiet /\ UNCHANGED <<instance, up>>
    BY <1>3, <1>1, Facts, Quiet DEF ReserveNodeBudgets
  <2> QED
    BY <1>1, <2>1, <2>2, <2>3, ProcKeeps DEF NoIntent, Proven
<1> QED
  BY <1>2, <1>3 DEF ReserveNodeBudgets

LEMMA SettleUnownedKeeps ==
  ASSUME IInv, NEW c \in Calls, SettleUnowned(c)
  PROVE  IInv'
<1>1. c \in Procs
  BY DEF Procs
<1>2. Moves(c, {"idle", "done"}, NoIntent)
  BY <1>1, Facts, LeaveMoves DEF SettleUnowned
<1>3. RecordKept
  <2>1. Unowned \in Settlements
    BY DEF Unowned, Settlements, TerminalRow
  <2> QED
    BY <1>1, <2>1, Facts
    DEF SettleUnowned, RecordKept, RecordInv, DispatchIsWrittenAhead, EverSent,
        SettlementsAgree, Proven, HadEnding, Applied, engineVars, Holds, Held, SettledBy
<1> QED
  BY <1>1, <1>2, <1>3, Facts, ProcKeeps, Quiet DEF SettleUnowned, NoIntent, Proven, engineVars

LEMMA SettleHoldKeeps ==
  ASSUME IInv, NEW p \in Procs, SettleHold(p)
  PROVE  IInv'
<1>1. CASE record.status = "settling" /\ hold \in {Held, SettledBy(record.intent)}
  <2>1. hold' = SettledBy(record.intent) /\ Go(p, "finish")
    BY <1>1 DEF SettleHold
  <2>2. Moves(p, {"finish"}, NoIntent)
    BY <2>1, Facts, GoMoves DEF Points
  <2>3. record.intent \in Settlements
    BY <1>1, Facts DEF RecordInv
  <2>4. RecordKept /\ Applied'
    BY <1>1, <2>1, <2>3, Facts
    DEF SettleHold, RecordKept, RecordInv, DispatchIsWrittenAhead, EverSent,
        SettlementsAgree, Proven, HadEnding, Applied, engineVars, Holds, Held, SettledBy
  <2> QED
    BY <2>2, <2>4, Facts, ProcKeeps, Quiet DEF SettleHold, NoIntent, Proven, engineVars
<1>2. CASE ~(record.status = "settling" /\ hold \in {Held, SettledBy(record.intent)})
  BY <1>2, LeaveKeeps DEF SettleHold
<1> QED
  BY <1>1, <1>2

-----------------------------------------------------------------------------
(* Steps that change the record *)

LEMMA PersistKeeps ==
  ASSUME IInv, NEW c \in Calls, PersistAdmission(c)
  PROVE  IInv'
<1>1. c \in Procs
  BY DEF Procs
<1>2. CASE UNCHANGED record
  BY <1>1, <1>2, GoKeeps DEF PersistAdmission, Points
<1>3. CASE /\ record = NoRecord /\ hold = Held
           /\ record' = [NoRecord EXCEPT !.status = "intent"] /\ Go(c, "recheck")
  <2>1. Moves(c, {"recheck"}, NoIntent)
    BY <1>1, <1>3, Facts, GoMoves DEF Points
  <2>2. record' \in Records
    BY <1>3 DEF Records, NoRecord, RecordStatus
  <2>3. RecordKept
    BY <1>1, <1>3, <2>2, Facts
    DEF PersistAdmission, RecordKept, RecordInv, DispatchIsWrittenAhead, EverSent,
        SettlementsAgree, Proven, HadEnding, Applied, engineVars, NoRecord, NoIntent, Held
  <2> QED
    BY <1>1, <2>1, <2>3, Facts, ProcKeeps, Quiet DEF PersistAdmission, NoIntent, Proven, engineVars
<1> QED
  BY <1>2, <1>3 DEF PersistAdmission

LEMMA DispatchKeeps ==
  ASSUME IInv, NEW c \in Calls, Dispatch(c)
  PROVE  IInv'
<1>1. c \in Procs
  BY DEF Procs
<1>2. CASE SettleWith(c, Zero) /\ UNCHANGED <<record, request, listening>>
  BY <1>1, <1>2, SettleWithKeeps, ZeroIsSettlement DEF Dispatch, engineVars
<1>3. CASE /\ MayBecome("dispatching")
           /\ record' = [record EXCEPT !.status = "dispatching"]
           /\ request' = [request EXCEPT ![c] = "sent"] /\ listening' = listening \cup {c}
           /\ Go(c, "sent")
  <2>1. Moves(c, {"sent"}, NoIntent)
    BY <1>1, <1>3, Facts, GoMoves DEF Points
  <2>2. EngineQuiet
    BY <1>1, <1>3, Facts DEF Dispatch, EngineQuiet, RequestStates, TypeOK, EngineTypeOK
  <2>3. record' \in Records
    BY <1>1, <1>3, Facts DEF Records, RecordStatus
  <2>4. record.status \in {"intent", "dispatching"} /\ record'.status = "dispatching"
        /\ record'.intent = record.intent
    BY <1>1, <1>3, Facts DEF MayBecome, Records
  <2>5. RecordKept
    BY <1>1, <2>2, <2>3, <2>4, Facts
    DEF Dispatch, RecordKept, RecordInv, DispatchIsWrittenAhead, EverSent,
        SettlementsAgree, Proven, HadEnding, Applied, EngineQuiet
  <2> QED
    BY <1>1, <2>1, <2>2, <2>5, Facts, ProcKeeps DEF Dispatch, NoIntent, Proven
<1> QED
  BY <1>2, <1>3 DEF Dispatch

\* Recording a claimed run leaves a settlement alone.
LEMMA DispatchedKeeps ==
  ASSUME IInv, Dispatched, EngineQuiet, EverSent' => EverSent, UNCHANGED hold
  PROVE  RecordKept
<1>1. RecordInv /\ record \in Records /\ hold \in Holds
  BY DEF IInv, TypeOK
<1>2. CASE record' = record
  BY <1>1, <1>2
  DEF RecordKept, RecordInv, DispatchIsWrittenAhead, SettlementsAgree, Proven, HadEnding,
      Applied, EngineQuiet
<1>3. CASE /\ record.status \in {"dispatching", "dispatched"}
           /\ record' = [record EXCEPT !.status = "dispatched", !.run = TRUE]
  <2>1. record' \in Records /\ record'.status = "dispatched" /\ record'.intent = record.intent
    BY <1>1, <1>3 DEF Records, RecordStatus
  <2> QED
    BY <1>1, <1>3, <2>1
    DEF RecordKept, RecordInv, DispatchIsWrittenAhead, SettlementsAgree, Proven, HadEnding,
        Applied, EngineQuiet
<1> QED
  BY <1>2, <1>3 DEF Dispatched, MayBecome

\* Whoever hangs up forgets answers only.
LEMMA HangUpKeeps ==
  ASSUME IInv, NEW calls \in SUBSET Calls, HangUp(calls),
         UNCHANGED <<row, executor, gate, process, starts, users, endings>>
  PROVE  EngineQuiet /\ (EverSent' => EverSent)
<1>1. /\ request \in [Calls -> RequestStates] /\ listening \in SUBSET Calls
  BY DEF IInv, TypeOK, EngineTypeOK
<1>2. request' \in [Calls -> RequestStates] /\ listening' \in SUBSET Calls
  BY <1>1 DEF HangUp, RequestStates
<1>3. \A c \in Calls : request[c] = "unsent" <=> request'[c] = "unsent"
  BY <1>1 DEF HangUp
<1> QED
  BY <1>2, <1>3 DEF EngineQuiet, EverSent

LEMMA ReceiveAnswerKeeps ==
  ASSUME IInv, NEW c \in Calls, ReceiveAnswer(c)
  PROVE  IInv'
<1>1. c \in Procs
  BY DEF Procs
<1>2. EngineQuiet /\ (EverSent' => EverSent) /\ UNCHANGED <<hold, owner, instance, up>>
  BY HangUpKeeps DEF ReceiveAnswer
<1>3. CASE UNCHANGED record
  <2>1. PICK pcs, s : /\ Moves(c, pcs, s) /\ "finish" \notin pcs /\ ~Proven(s)
                      /\ (pcs \cap {"reconcile", "begin"} # {} => s \in Settlements)
    <3>1. CASE \E pc \in {"confirm", "doubt"} : Go(c, pc)
      <4>1. PICK pc \in {"confirm", "doubt"} : Go(c, pc)
        BY <3>1
      <4>2. Moves(c, {pc}, NoIntent)
        BY <1>1, <4>1, Facts, GoMoves DEF Points
      <4> QED
        BY <4>2 DEF NoIntent, Proven
    <3>2. CASE SettleWith(c, Zero)
      <4>1. Moves(c, {"begin"}, Zero)
        BY <1>1, <3>2, Facts, SettleMoves, ZeroIsSettlement DEF SettleWith, Points
      <4> QED
        BY <4>1, ZeroIsSettlement
    <3>3. CASE Leave(c)
      <4>1. Moves(c, {"idle", "done"}, NoIntent)
        BY <1>1, <3>3, Facts, LeaveMoves
      <4> QED
        BY <4>1 DEF NoIntent, Proven
    <3> QED
      BY <3>1, <3>2, <3>3 DEF ReceiveAnswer
  <2> QED
    BY <1>1, <1>2, <1>3, <2>1, OnlyProcKeeps
<1>4. CASE Dispatched /\ Leave(c)
  <2>1. RecordKept
    BY <1>2, <1>4, DispatchedKeeps
  <2>2. Moves(c, {"idle", "done"}, NoIntent)
    BY <1>1, <1>4, Facts, LeaveMoves
  <2> QED
    BY <1>1, <1>2, <2>1, <2>2, Facts, ProcKeeps DEF NoIntent, Proven
<1> QED
  BY <1>3, <1>4 DEF ReceiveAnswer

LEMMA AdoptKeeps ==
  ASSUME IInv, NEW c \in Calls, Adopt(c)
  PROVE  IInv'
<1>1. c \in Procs
  BY DEF Procs
<1>2. RecordKept
  BY DispatchedKeeps, Quiet, QuietRequests DEF Adopt
<1>3. Moves(c, {"idle", "done"}, NoIntent)
  BY <1>1, Facts, LeaveMoves DEF Adopt
<1> QED
  BY <1>1, <1>2, <1>3, Facts, ProcKeeps, Quiet DEF Adopt, NoIntent, Proven, engineVars

LEMMA WorkerAdoptsKeeps ==
  ASSUME IInv, WorkerAdopts
  PROVE  IInv'
<1>1. Worker \in Procs
  BY DEF Procs
<1>2. RecordKept
  BY DispatchedKeeps, Quiet, QuietRequests DEF WorkerAdopts
<1>3. CASE Go(Worker, "getrun")
  <2>1. Moves(Worker, {"getrun"}, NoIntent)
    BY <1>1, <1>3, Facts, GoMoves DEF Points
  <2> QED
    BY <1>1, <1>2, <2>1, Facts, ProcKeeps, Quiet DEF WorkerAdopts, NoIntent, Proven, engineVars
<1>4. CASE Leave(Worker)
  <2>1. Moves(Worker, {"idle", "done"}, NoIntent)
    BY <1>1, <1>4, Facts, LeaveMoves
  <2> QED
    BY <1>1, <1>2, <2>1, Facts, ProcKeeps, Quiet DEF WorkerAdopts, NoIntent, Proven, engineVars
<1> QED
  BY <1>3, <1>4 DEF WorkerAdopts

LEMMA BeginKeeps ==
  ASSUME IInv, NEW p \in Procs, BeginSettlement(p)
  PROVE  IInv'
<1>1. CASE (Go(p, "complete") \/ Leave(p)) /\ UNCHANGED record
  BY <1>1, GoKeeps, LeaveKeeps DEF BeginSettlement, Points
<1>2. CASE /\ record.status \notin {"settled", "settling", "none"}
           /\ record' = [record EXCEPT !.status = "settling", !.intent = proc[p].intent]
           /\ Go(p, "complete")
  <2>1. Moves(p, {"complete"}, NoIntent)
    BY <1>2, Facts, GoMoves DEF Points
  <2>2. proc[p].intent \in Settlements
    BY Facts DEF BeginSettlement, At, ProcInv
  <2>3. record' \in Records /\ record'.status = "settling" /\ record'.intent = proc[p].intent
    BY <1>2, <2>2, Facts DEF Records, RecordStatus
  <2>4. Proven(record'.intent) => \E ending \in endings : record'.intent = Evidence(ending)
    BY <2>3, Facts DEF ProcInv, HadEnding
  <2>5. endings' = endings /\ hold' = hold /\ (EverSent' => EverSent)
    BY QuietRequests DEF BeginSettlement, engineVars
  <2>6. Proven(record.intent)' => HadEnding(record.intent)'
    BY <2>4, <2>5 DEF HadEnding, Proven
  <2>7. RecordKept
    BY <1>2, <2>2, <2>3, <2>5, <2>6, Facts
    DEF RecordKept, RecordInv, DispatchIsWrittenAhead, SettlementsAgree, Applied
  <2> QED
    BY <2>1, <2>7, Facts, ProcKeeps, Quiet DEF BeginSettlement, NoIntent, Proven, engineVars
<1> QED
  BY <1>1, <1>2 DEF BeginSettlement

LEMMA FinishKeeps ==
  ASSUME IInv, NEW p \in Procs, FinishSettlement(p)
  PROVE  IInv'
<1>1. Moves(p, {"idle", "done"}, NoIntent)
  BY Facts, LeaveMoves DEF FinishSettlement
<1>2. Applied /\ record.status \in {"settling", "settled"}
  BY Facts DEF FinishSettlement, At, ProcInv, Applied
<1>3. record' \in Records /\ record'.status = "settled" /\ record'.intent = record.intent
  BY <1>2, Facts DEF FinishSettlement, MayBecome, Records, RecordStatus
<1>4. RecordKept
  BY <1>2, <1>3, Facts
  DEF FinishSettlement, RecordKept, RecordInv, DispatchIsWrittenAhead, EverSent,
      SettlementsAgree, Proven, HadEnding, Applied, engineVars, SettledBy
<1> QED
  BY <1>1, <1>4, Facts, ProcKeeps, Quiet DEF FinishSettlement, NoIntent, Proven, engineVars

LEMMA ReconcileSnapshotKeeps ==
  ASSUME IInv, NEW p \in Procs, ReconcileSnapshot(p)
  PROVE  IInv'
<1>1. RecordKept
  <2>1. CASE record' = record
    BY <2>1, Facts
    DEF ReconcileSnapshot, RecordKept, RecordInv, DispatchIsWrittenAhead, EverSent,
        SettlementsAgree, Proven, HadEnding, Applied, engineVars
  <2>2. CASE /\ record.status \in {"intent", "dispatching", "dispatched"}
             /\ record' = [record EXCEPT !.status = "dispatched", !.run = TRUE]
    <3>1. record' \in Records /\ record'.status = "dispatched" /\ record'.intent = record.intent
      BY <2>2, Facts DEF Records, RecordStatus
    <3> QED
      BY <2>2, <3>1, Facts
      DEF ReconcileSnapshot, RecordKept, RecordInv, DispatchIsWrittenAhead, EverSent,
          SettlementsAgree, Proven, HadEnding, Applied, engineVars
  <2> QED
    BY <2>1, <2>2 DEF ReconcileSnapshot
<1>2. CASE Leave(p)
  <2>1. Moves(p, {"idle", "done"}, NoIntent)
    BY <1>2, Facts, LeaveMoves
  <2> QED
    BY <1>1, <2>1, Facts, ProcKeeps, Quiet DEF ReconcileSnapshot, NoIntent, Proven, engineVars
<1>3. CASE SettleWith(p, proc[p].intent)
  <2>1. proc[p].intent \in Settlements
    BY Facts DEF ReconcileSnapshot, At, ProcInv
  <2>2. Moves(p, {"begin"}, proc[p].intent)
    BY <1>3, <2>1, Facts, SettleMoves DEF SettleWith, Points
  <2> QED
    BY <1>1, <2>1, <2>2, Facts, ProcKeeps, Quiet DEF ReconcileSnapshot, ProcInv, engineVars
<1> QED
  BY <1>2, <1>3 DEF ReconcileSnapshot

LEMMA StartPassKeeps ==
  ASSUME IInv, StartPass
  PROVE  IInv'
<1> DEFINE found == IF record # NoRecord THEN record
                    ELSE [NoRecord EXCEPT !.status = IF hold = Held THEN "intent" ELSE "settled"]
<1>1. Worker \in Procs
  BY DEF Procs
<1>2. record' = found /\ found \in Records
  BY <1>1, Facts DEF StartPass, Records, NoRecord, RecordStatus
<1>3. RecordKept
  BY <1>1, <1>2, Facts
  DEF StartPass, RecordKept, RecordInv, DispatchIsWrittenAhead, EverSent, Holds, SettledBy,
      Held, Untouched, SettlementsAgree, Proven, HadEnding, Applied, engineVars, NoRecord, NoIntent
<1>4. PICK pcs, s : /\ Moves(Worker, pcs, s) /\ "finish" \notin pcs /\ (Proven(s) => HadEnding(s))
                    /\ (pcs \cap {"reconcile", "begin"} # {} => s \in Settlements)
  <2>1. CASE Go(Worker, "complete")
    <3>1. Moves(Worker, {"complete"}, NoIntent)
      BY <1>1, <2>1, Facts, GoMoves DEF Points
    <3> QED
      BY <1>1, <3>1, Facts DEF NoIntent, Proven
  <2>2. CASE SettleWith(Worker, Zero)
    <3>1. Moves(Worker, {"begin"}, Zero)
      BY <1>1, <2>2, Facts, SettleMoves, ZeroIsSettlement DEF SettleWith, Points
    <3> QED
      BY <3>1, ZeroIsSettlement
  <2>3. CASE Go(Worker, "getrun") \/ Ask(Worker, "query", found.status)
    <3>1. found.status \in RecordStatus
      BY <1>2 DEF Records
    <3>2. Moves(Worker, {"getrun"}, NoIntent) \/ Moves(Worker, {"query"}, NoIntent)
      BY <1>1, <2>3, <3>1, Facts, GoMoves, SeenMoves DEF Points
    <3> QED
      BY <3>2 DEF NoIntent, Proven
  <2>4. CASE UNCHANGED proc
    <3>1. Moves(Worker, {"idle"}, proc[Worker].intent)
      BY <1>1, <2>4, Facts DEF Moves, TypeOK, StartPass, At
    <3> QED
      BY <1>1, <3>1, Facts DEF ProcInv
  <2> QED
    BY <2>1, <2>2, <2>3, <2>4 DEF StartPass
<1> QED
  BY <1>1, <1>3, <1>4, Facts, ProcKeeps, Quiet DEF StartPass, engineVars

-----------------------------------------------------------------------------
(* The backend's deaths, and the lease *)

LEMMA BackendStopsKeeps ==
  ASSUME IInv, BackendStops
  PROVE  IInv'
<1>1. /\ proc' \in [Procs -> Processes]
      /\ \A p \in Procs : proc'[p].pc \in {"idle", "done"} /\ proc'[p].intent = NoIntent
  <2>1. AtRest("idle") \in Processes /\ AtRest("done") \in Processes
    BY DEF AtRest, Processes, Points, Answers, RecordStatus
  <2>2. /\ AtRest("idle").pc = "idle" /\ AtRest("idle").intent = NoIntent
        /\ AtRest("done").pc = "done" /\ AtRest("done").intent = NoIntent
    BY DEF AtRest
  <2> QED
    BY <2>1, <2>2 DEF BackendStops
<1>2. EngineQuiet /\ (EverSent' => EverSent)
  <2>1. listening \in SUBSET Calls
    BY DEF IInv, TypeOK, EngineTypeOK
  <2> QED
    BY <2>1, HangUpKeeps DEF BackendStops
<1>3. TypeOK'
  BY <1>1, <1>2 DEF IInv, TypeOK, EngineTypeOK, BackendStops, EngineQuiet
<1>4. OneExecution' /\ Remembered'
  BY <1>2 DEF IInv, OneExecution, Remembered, EngineQuiet
<1>5. RecordInv'
  BY <1>2 DEF IInv, BackendStops, EngineQuiet, RecordInv, DispatchIsWrittenAhead, SettlementsAgree,
              Proven, HadEnding
<1>6. \A p \in Procs : ProcInv(p)'
  BY <1>1 DEF ProcInv, Proven, NoIntent
<1> QED
  BY <1>3, <1>4, <1>5, <1>6 DEF IInv

LEMMA BackendStartsKeeps ==
  ASSUME IInv, BackendStarts
  PROVE  IInv'
<1>1. TypeOK'
  BY DEF IInv, TypeOK, EngineTypeOK, BackendStarts, engineVars
<1>2. /\ OneExecution' /\ Remembered' /\ RecordInv'
      /\ \A p \in Procs : ProcInv(p)'
  BY DEF IInv, BackendStarts, engineVars, OneExecution, Remembered, RecordInv,
         DispatchIsWrittenAhead, EverSent, SettlementsAgree, Proven, HadEnding, ProcInv, Applied
<1> QED
  BY <1>1, <1>2 DEF IInv

LEMMA LeaseRunsOutKeeps ==
  ASSUME IInv, LeaseRunsOut
  PROVE  IInv'
<1>1. hold' \in Holds
  BY DEF LeaseRunsOut, Holds, Stale, Settlements
<1>2. TypeOK'
  BY <1>1 DEF IInv, TypeOK, EngineTypeOK, LeaseRunsOut, engineVars
<1>3. OneExecution' /\ Remembered'
  BY DEF IInv, LeaseRunsOut, engineVars, OneExecution, Remembered
<1>4. RecordInv' /\ ~Applied
  BY DEF IInv, LeaseRunsOut, engineVars, RecordInv, DispatchIsWrittenAhead, EverSent, Held,
         SettledBy, SettlementsAgree, Proven, HadEnding, Applied
<1>5. \A p \in Procs : ProcInv(p)'
  BY <1>4 DEF IInv, LeaseRunsOut, engineVars, ProcInv, Proven, HadEnding
<1> QED
  BY <1>2, <1>3, <1>4, <1>5 DEF IInv

-----------------------------------------------------------------------------
(* The engine's steps *)

\* No request is sent or taken back, and no ending of the row is forgotten.
RequestsKept ==
    /\ request' \in [Calls -> RequestStates] /\ listening' \in SUBSET Calls
    /\ \A c \in Calls : request[c] = "unsent" <=> request'[c] = "unsent"
RowKept == row' \in Rows /\ endings' \in SUBSET Endings /\ endings \subseteq endings' /\ Remembered'

EngineKept ==
    /\ EngineTypeOK' /\ OneExecution' /\ Remembered'
    /\ EverSent' => EverSent
    /\ endings \subseteq endings'

LEMMA EngineKeeps ==
  ASSUME IInv, EngineKept, UNCHANGED backendVars
  PROVE  IInv'
<1>1. TypeOK'
  BY DEF IInv, TypeOK, EngineKept, backendVars
<1>2. \A s : HadEnding(s) => HadEnding(s)'
  BY DEF HadEnding, EngineKept
<1>3. RecordInv' /\ \A p \in Procs : ProcInv(p)'
  BY <1>2 DEF IInv, EngineKept, backendVars, RecordInv, DispatchIsWrittenAhead, SettlementsAgree,
              Proven, ProcInv, Applied
<1> QED
  BY <1>1, <1>3 DEF IInv, EngineKept

\* The engine's variables, field by field.
ExecutorStates == {"none", "waiting", "rebound", "executing"}
LEMMA EngineFacts ==
  ASSUME IInv
  PROVE  /\ OneExecution /\ Remembered
         /\ request \in [Calls -> RequestStates] /\ listening \in SUBSET Calls /\ row \in Rows
         /\ executor \in [Executions -> ExecutorStates] /\ gate \in BOOLEAN
         /\ process \in Nat \ {0} /\ starts \in Nat /\ users \in Nat /\ endings \in SUBSET Endings
         /\ Calls \subseteq Executions /\ Resumption \in Executions /\ Resumption \notin Calls
BY EngineAssumption DEF IInv, TypeOK, EngineTypeOK, ExecutorStates, Executions, Resumption

LEMMA Together ==
  ASSUME IInv, RequestsKept, RowKept, OneExecution',
         executor' \in [Executions -> ExecutorStates], gate' \in BOOLEAN,
         process' \in Nat \ {0}, starts' \in Nat, users' \in Nat
  PROVE  EngineKept
BY DEF EngineKept, EngineTypeOK, RequestsKept, RowKept, EverSent, ExecutorStates

LEMMA WriteKeeps ==
  ASSUME IInv, NEW r \in Rows, Write(r)
  PROVE  RowKept /\ row' = r
<1>1. row' = r /\ r.status \in TerminalRow => [status |-> r.status, usage |-> r.usage] \in Endings
  BY DEF Write, Rows, Endings
<1> QED
  BY <1>1, EngineFacts DEF Write, RowKept, Remembered

LEMMA KeepRowKeeps ==
  ASSUME IInv, KeepRow
  PROVE  RowKept /\ row' = row
BY EngineFacts DEF KeepRow, RowKept, Remembered

LEMMA SameRequests ==
  ASSUME IInv, UNCHANGED <<request, listening>>
  PROVE  RequestsKept
BY EngineFacts DEF RequestsKept

LEMMA ProceedsKeeps ==
  ASSUME IInv, NEW c \in Calls, NEW s \in RequestStates \ {"unsent"}, request[c] # "unsent",
         Proceeds(c, s)
  PROVE  RequestsKept
BY EngineFacts DEF Proceeds, RequestsKept

LEMMA AnswerKeeps ==
  ASSUME IInv, NEW c \in Calls, NEW s \in RequestStates \ {"unsent"}, request[c] # "unsent",
         Answer(c, s)
  PROVE  RequestsKept
<1>1. "over" \in RequestStates
  BY DEF RequestStates
<1> QED
  BY <1>1, ProceedsKeeps DEF Answer

LEMMA FromRowKeeps ==
  ASSUME IInv, NEW c \in Calls, request[c] # "unsent", AnswerFromRow(c)
  PROVE  RequestsKept
BY AnswerKeeps DEF AnswerFromRow, RequestStates

LEMMA ExecutorKeeps ==
  ASSUME IInv, NEW e \in Executions, NEW s \in ExecutorStates, Executor(e, s)
  PROVE  /\ executor' \in [Executions -> ExecutorStates] /\ executor'[e] = s
         /\ \A d \in Executions \ {e} : executor'[d] = executor[d]
BY EngineFacts DEF Executor

\* A step that starts no dispatched execution and keeps what the row owes to one under way.
LEMMA StaysOne ==
  ASSUME IInv, RequestsKept, UNCHANGED <<process, starts>>, row'.by = row.by,
         \A c \in Calls : executor'[c] \in {executor[c], "none"},
         row'.status \in {"absent", "pending"} => row.status \in {"absent", "pending"},
         \A c \in Calls : executor'[c] # "none" =>
             row'.dispatch \in {row.dispatch, "dispatching", "queued", "running"}
  PROVE  OneExecution'
BY EngineFacts DEF OneExecution, RequestsKept

LEMMA InsertRowKeeps ==
  ASSUME IInv, NEW c \in Calls, InsertRow(c)
  PROVE  EngineKept
<1>1. RequestsKept
  BY ProceedsKeeps, FromRowKeeps DEF InsertRow, RequestStates
<1>2. UNCHANGED <<executor, gate, process, starts, users>>
  BY DEF InsertRow
<1>3. CASE KeepRow
  <2>1. RowKept /\ row' = row
    BY <1>3, KeepRowKeeps
  <2> QED
    BY <1>1, <1>2, <2>1, StaysOne, Together, EngineFacts
<1>4. CASE /\ row = NoRow
           /\ Write([status |-> "pending", dispatch |-> "pre_dispatch", by |-> 0, usage |-> "none"])
  <2> DEFINE r == [status |-> "pending", dispatch |-> "pre_dispatch", by |-> 0, usage |-> "none"]
  <2>1. RowKept /\ row' = r
    BY <1>4, WriteKeeps DEF Rows
  <2>2. \A d \in Calls : executor[d] = "none"
    BY <1>4, EngineFacts DEF OneExecution, NoRow
  <2>3. OneExecution'
    BY <1>1, <1>2, <1>4, <2>1, <2>2, StaysOne DEF NoRow
  <2> QED
    BY <1>1, <1>2, <2>1, <2>3, Together, EngineFacts
<1> QED
  BY <1>3, <1>4 DEF InsertRow

LEMMA RefuseRequestKeeps ==
  ASSUME IInv, NEW c \in Calls, RefuseRequest(c)
  PROVE  EngineKept
<1>1. RequestsKept
  BY AnswerKeeps DEF RefuseRequest, RequestStates
<1>2. RowKept /\ row' = row
  BY KeepRowKeeps DEF RefuseRequest
<1> QED
  BY <1>1, <1>2, StaysOne, Together, EngineFacts DEF RefuseRequest

LEMMA ClaimDispatchKeeps ==
  ASSUME IInv, NEW c \in Calls, ClaimDispatch(c)
  PROVE  EngineKept
<1>1. RequestsKept /\ UNCHANGED <<gate, process, starts, users>>
  BY ProceedsKeeps, FromRowKeeps DEF ClaimDispatch, RequestStates
<1>2. CASE KeepRow /\ UNCHANGED executor
  <2>1. RowKept /\ row' = row
    BY <1>2, KeepRowKeeps
  <2> QED
    BY <1>1, <1>2, <2>1, StaysOne, Together, EngineFacts
<1>3. CASE /\ Claimable /\ Write([row EXCEPT !.dispatch = "dispatching", !.by = process])
           /\ Executor(c, "waiting")
  <2>1. [row EXCEPT !.dispatch = "dispatching", !.by = process] \in Rows
    BY EngineFacts DEF Rows
  <2>2. RowKept /\ row' = [row EXCEPT !.dispatch = "dispatching", !.by = process]
    BY <1>3, <2>1, WriteKeeps
  <2>3. row.status = "pending" /\ row'.by = process /\ row'.dispatch = "dispatching"
    BY <1>3, <2>2, EngineFacts DEF Claimable, Rows
  <2>4. starts = 0 /\ \A d \in Calls : executor[d] = "none"
    BY <1>3, <2>3, EngineFacts DEF Claimable, OneExecution
  <2>5. /\ executor' \in [Executions -> ExecutorStates] /\ executor'[c] = "waiting"
        /\ \A d \in Calls \ {c} : executor'[d] = "none"
    BY <1>3, <2>4, ExecutorKeeps, EngineFacts DEF ExecutorStates
  <2>6. request[c] # "unsent"
    BY DEF ClaimDispatch
  <2>7. OneExecution'
    BY <1>1, <2>3, <2>4, <2>5, <2>6 DEF OneExecution, RequestsKept
  <2> QED
    BY <1>1, <2>2, <2>5, <2>7, Together, EngineFacts
<1> QED
  BY <1>2, <1>3 DEF ClaimDispatch

LEMMA MarkQueuedKeeps ==
  ASSUME IInv, NEW c \in Calls, MarkQueued(c)
  PROVE  EngineKept
<1>1. RequestsKept
  BY AnswerKeeps DEF MarkQueued, RequestStates
<1>2. RowKept /\ row' \in {row, [row EXCEPT !.dispatch = "queued"]}
  <2>1. [row EXCEPT !.dispatch = "queued"] \in Rows
    BY EngineFacts DEF Rows
  <2> QED
    BY <2>1, WriteKeeps, KeepRowKeeps DEF MarkQueued
<1>3. row'.by = row.by /\ row'.status = row.status /\ row'.dispatch \in {row.dispatch, "queued"}
  BY <1>2, EngineFacts DEF Rows
<1> QED
  BY <1>1, <1>2, <1>3, StaysOne, Together, EngineFacts DEF MarkQueued

\* Nobody else executes a dispatch while one execution is under way.
LEMMA Alone ==
  ASSUME IInv, NEW c \in Calls, executor[c] # "none"
  PROVE  /\ \A d \in Calls \ {c} : executor[d] = "none"
         /\ row.by = process /\ row.dispatch \in {"dispatching", "queued", "running"}
         /\ request[c] # "unsent" /\ (executor[c] \in {"waiting", "rebound"} => starts = 0)
BY EngineFacts DEF OneExecution

\* An execution that ends, whatever it leaves the row at.
LEMMA ExecutionEnds ==
  ASSUME IInv, NEW e \in Executions, Executor(e, "none"), RowKept, row'.by = row.by,
         e \in Calls \/ row'.dispatch = row.dispatch,
         row'.status \in {"absent", "pending"} => row.status \in {"absent", "pending"},
         executor[e] # "none", UNCHANGED <<request, listening, gate, process, starts, users>>
  PROVE  EngineKept
<1>1. RequestsKept
  BY SameRequests
<1>2. executor' \in [Executions -> ExecutorStates] /\ executor'[e] = "none"
      /\ \A d \in Executions \ {e} : executor'[d] = executor[d]
  BY ExecutorKeeps DEF ExecutorStates
<1>3. \A d \in Calls : executor'[d] # "none" =>
          row'.dispatch \in {row.dispatch, "dispatching", "queued", "running"}
  BY <1>2, Alone, EngineFacts
<1>4. OneExecution'
  BY <1>1, <1>2, <1>3, StaysOne, EngineFacts
<1> QED
  BY <1>1, <1>2, <1>4, Together, EngineFacts

LEMMA SetupFailsKeeps ==
  ASSUME IInv, NEW c \in Calls, SetupFails(c)
  PROVE  EngineKept
<1>1. RowKept /\ row' \in {row, [row EXCEPT !.status = "failed", !.dispatch = "failed",
                                             !.usage = "observed"]}
  <2>1. [row EXCEPT !.status = "failed", !.dispatch = "failed", !.usage = "observed"] \in Rows
    BY EngineFacts DEF Rows, TerminalRow
  <2> QED
    BY <2>1, WriteKeeps, KeepRowKeeps DEF SetupFails
<1>2. row'.by = row.by /\ row'.status \in {row.status, "failed"}
  BY <1>1, EngineFacts DEF Rows
<1> QED
  BY <1>1, <1>2, ExecutionEnds, EngineFacts DEF SetupFails

LEMMA RebindRunKeeps ==
  ASSUME IInv, NEW c \in Calls, RebindRun(c)
  PROVE  EngineKept
<1>1. executor[c] = "waiting" /\ UNCHANGED <<gate, process, starts, users>>
  BY DEF RebindRun
<1>2. RequestsKept
  BY <1>1, Alone, ProceedsKeeps, EngineFacts DEF RebindRun, RequestStates
<1>3. [row EXCEPT !.dispatch = "running"] \in Rows
  BY EngineFacts DEF Rows
<1>4. RowKept /\ row' = [row EXCEPT !.dispatch = "running"]
  BY <1>3, WriteKeeps DEF RebindRun
<1>5. row'.by = row.by /\ row'.status = row.status /\ row'.dispatch = "running"
  BY <1>4, EngineFacts DEF Rows
<1>6. /\ executor' \in [Executions -> ExecutorStates] /\ executor'[c] = "rebound"
      /\ \A d \in Calls \ {c} : executor'[d] = "none"
  BY <1>1, Alone, ExecutorKeeps, EngineFacts DEF RebindRun, ExecutorStates
<1>7. OneExecution'
  BY <1>1, <1>2, <1>5, <1>6, Alone, EngineFacts DEF OneExecution, RequestsKept
<1> QED
  BY <1>1, <1>2, <1>4, <1>6, <1>7, Together, EngineFacts

LEMMA LaunchFailsKeeps ==
  ASSUME IInv, NEW c \in Calls, LaunchFails(c)
  PROVE  EngineKept
<1>1. RowKept /\ row'.by = row.by /\ row'.status \in {row.status, "failed", "cancelled"}
  <2>1. CASE KeepRow
    BY <2>1, KeepRowKeeps
  <2>2. CASE Write([row EXCEPT !.status = "cancelled"])
    <3>1. [row EXCEPT !.status = "cancelled"] \in Rows
      BY EngineFacts DEF Rows, TerminalRow
    <3> QED
      BY <2>2, <3>1, WriteKeeps, EngineFacts DEF Rows
  <2>3. ASSUME NEW u \in {row.usage, "observed"},
               Write([row EXCEPT !.status = "failed", !.dispatch = "failed", !.usage = u])
        PROVE  RowKept /\ row'.by = row.by /\ row'.status = "failed"
    <3>1. [row EXCEPT !.status = "failed", !.dispatch = "failed", !.usage = u] \in Rows
      BY EngineFacts DEF Rows, TerminalRow
    <3> QED
      BY <2>3, <3>1, WriteKeeps, EngineFacts DEF Rows
  <2> QED
    BY <2>1, <2>2, <2>3 DEF LaunchFails
<1> QED
  BY <1>1, ExecutionEnds, EngineFacts DEF LaunchFails

LEMMA ExecuteRunKeeps ==
  ASSUME IInv, NEW c \in Calls, ExecuteRun(c)
  PROVE  EngineKept
<1>1. executor[c] = "rebound" /\ starts' = starts + 1 /\ UNCHANGED <<gate, process, users>>
  BY DEF ExecuteRun
<1>2. RequestsKept
  BY SameRequests DEF ExecuteRun
<1>3. [row EXCEPT !.status = "running"] \in Rows
  BY EngineFacts DEF Rows
<1>4. RowKept /\ row' = [row EXCEPT !.status = "running"]
  BY <1>3, WriteKeeps DEF ExecuteRun
<1>5. row'.by = row.by /\ row'.status = "running" /\ row'.dispatch = row.dispatch
  BY <1>4, EngineFacts DEF Rows
<1>6. /\ executor' \in [Executions -> ExecutorStates] /\ executor'[c] = "executing"
      /\ \A d \in Calls \ {c} : executor'[d] = "none"
  BY <1>1, Alone, ExecutorKeeps, EngineFacts DEF ExecuteRun, ExecutorStates
<1>7. starts = 0
  BY <1>1, Alone
<1>8. OneExecution'
  BY <1>1, <1>2, <1>5, <1>6, <1>7, Alone, EngineFacts DEF OneExecution, RequestsKept
<1> QED
  BY <1>1, <1>2, <1>4, <1>6, <1>8, Together, EngineFacts

LEMMA EndRunKeeps ==
  ASSUME IInv, NEW e \in Executions, EndRun(e)
  PROVE  EngineKept
<1>1. /\ RowKept /\ row'.by = row.by /\ row'.dispatch = row.dispatch
      /\ row'.status \in {row.status, "completed", "failed"}
  <2>1. CASE KeepRow
    BY <2>1, KeepRowKeeps
  <2>2. ASSUME NEW s \in {"completed", "failed"}, NEW u \in {row.usage, "observed"},
               Write([row EXCEPT !.status = s, !.usage = u])
        PROVE  RowKept /\ row'.by = row.by /\ row'.dispatch = row.dispatch /\ row'.status = s
    <3>1. [row EXCEPT !.status = s, !.usage = u] \in Rows
      BY EngineFacts DEF Rows, TerminalRow
    <3> QED
      BY <2>2, <3>1, WriteKeeps, EngineFacts DEF Rows
  <2> QED
    BY <2>1, <2>2 DEF EndRun
<1> QED
  BY <1>1, ExecutionEnds DEF EndRun

\* A write of the status alone, to one that is not pending.
LEMMA StatusKeeps ==
  ASSUME IInv, NEW s \in {"running", "paused"} \cup TerminalRow, Write([row EXCEPT !.status = s]),
         executor' \in [Executions -> ExecutorStates],
         \A c \in Calls : executor'[c] = executor[c],
         gate' \in BOOLEAN, users' \in Nat, UNCHANGED <<request, listening, process, starts>>
  PROVE  EngineKept
<1>1. [row EXCEPT !.status = s] \in Rows
  BY EngineFacts DEF Rows
<1>2. RowKept /\ row' = [row EXCEPT !.status = s]
  BY <1>1, WriteKeeps
<1>3. row'.by = row.by /\ row'.dispatch = row.dispatch /\ row'.status \notin {"absent", "pending"}
  BY <1>2, EngineFacts DEF Rows, TerminalRow
<1>4. RequestsKept
  BY SameRequests
<1> QED
  BY <1>2, <1>3, <1>4, StaysOne, Together, EngineFacts

LEMMA PauseRunKeeps ==
  ASSUME IInv, NEW e \in Executions, PauseRun(e)
  PROVE  EngineKept
BY StatusKeeps, EngineFacts DEF PauseRun

LEMMA DecideGateKeeps ==
  ASSUME IInv, DecideGate
  PROVE  EngineKept
<1>1. RequestsKept /\ RowKept /\ row' = row
  BY SameRequests, KeepRowKeeps DEF DecideGate
<1> QED
  BY <1>1, StaysOne, Together, EngineFacts DEF DecideGate

LEMMA WriteDecisionKeeps ==
  ASSUME IInv, WriteDecision
  PROVE  EngineKept
BY StatusKeeps, EngineFacts DEF WriteDecision, TerminalRow

LEMMA CancelRunKeeps ==
  ASSUME IInv, CancelRun
  PROVE  EngineKept
BY StatusKeeps, EngineFacts DEF CancelRun, TerminalRow

LEMMA ResumeRunKeeps ==
  ASSUME IInv, ResumeRun
  PROVE  EngineKept
<1>1. /\ executor' \in [Executions -> ExecutorStates]
      /\ \A c \in Calls : executor'[c] = executor[c]
  BY ExecutorKeeps, EngineFacts DEF ResumeRun, ExecutorStates
<1> QED
  BY <1>1, StatusKeeps, EngineFacts DEF ResumeRun

LEMMA EngineRestartKeeps ==
  ASSUME IInv, EngineRestart
  PROVE  EngineKept
<1>1. RequestsKept
  BY EngineFacts DEF EngineRestart, RequestsKept, RequestStates
<1>2. RowKept /\ row' = row
  BY KeepRowKeeps DEF EngineRestart
<1>3. executor' \in [Executions -> ExecutorStates] /\ \A c \in Calls : executor'[c] = "none"
  BY EngineFacts DEF EngineRestart, ExecutorStates
<1>4. OneExecution'
  BY <1>2, <1>3, EngineFacts DEF EngineRestart, OneExecution
<1>5. process' \in Nat \ {0}
  BY EngineFacts DEF EngineRestart
<1>6. gate' \in BOOLEAN /\ UNCHANGED <<starts, users>>
  BY DEF EngineRestart
<1> QED
  BY <1>1, <1>2, <1>3, <1>4, <1>5, <1>6, Together, EngineFacts

LEMMA EngineMovesKeep ==
  ASSUME IInv, EngineStep \/ UserStep \/ EngineRestart, UNCHANGED backendVars
  PROVE  IInv'
<1>1. EngineKept
  BY InsertRowKeeps, RefuseRequestKeeps, ClaimDispatchKeeps, MarkQueuedKeeps, SetupFailsKeeps,
     RebindRunKeeps, LaunchFailsKeeps, ExecuteRunKeeps, PauseRunKeeps, EndRunKeeps,
     WriteDecisionKeeps, DecideGateKeeps, CancelRunKeeps, ResumeRunKeeps, EngineRestartKeeps
  DEF EngineStep, UserStep
<1> QED
  BY <1>1, EngineKeeps

-----------------------------------------------------------------------------
(* The theorems *)

LEMMA InitHolds == Init => IInv
<1> SUFFICES ASSUME Init PROVE IInv
  OBVIOUS
<1> USE DEF Init, EngineInit
<1>1. EngineTypeOK
  <2>1. row \in Rows
    BY DEF Rows, NoRow
  <2>2. request \in [Calls -> RequestStates] /\ listening \in SUBSET Calls
    BY DEF RequestStates
  <2>3. executor \in [Executions -> {"none", "waiting", "rebound", "executing"}]
    OBVIOUS
  <2>4. gate \in BOOLEAN /\ endings \in SUBSET Endings
    OBVIOUS
  <2>5. process \in Nat \ {0} /\ starts \in Nat /\ users \in Nat
    OBVIOUS
  <2> QED
    BY <2>1, <2>2, <2>3, <2>4, <2>5 DEF EngineTypeOK
<1>2. hold \in Holds /\ record \in Records
  BY DEF Holds, Records, NoRecord, RecordStatus
<1>3. /\ proc \in [Procs -> Processes]
      /\ \A p \in Procs : proc[p].pc = "idle" /\ proc[p].intent = NoIntent
  <2>1. AtRest("idle") \in Processes /\ AtRest("idle").pc = "idle" /\ AtRest("idle").intent = NoIntent
    BY DEF AtRest, Processes, Points, Answers, RecordStatus
  <2> QED
    BY <2>1
<1>4. TypeOK
  BY <1>1, <1>2, <1>3, EngineAssumption DEF TypeOK
<1>5. OneExecution /\ Remembered
  BY DEF OneExecution, Remembered, NoRow, TerminalRow, Executions
<1>6. RecordInv
  BY DEF RecordInv, DispatchIsWrittenAhead, EverSent, SettlementsAgree, Proven, NoRecord, NoIntent,
         Untouched
<1>7. \A p \in Procs : ProcInv(p)
  BY <1>3 DEF ProcInv, Proven, NoIntent
<1> QED
  BY <1>4, <1>5, <1>6, <1>7 DEF IInv

LEMMA NextKeeps == IInv /\ [Next]_vars => IInv'
<1> SUFFICES ASSUME IInv, [Next]_vars PROVE IInv'
  OBVIOUS
<1>1. CASE UNCHANGED vars
  BY <1>1 DEF vars, engineVars, backendVars, IInv, TypeOK, EngineTypeOK, Remembered,
              OneExecution, RecordInv, DispatchIsWrittenAhead, EverSent, SettlementsAgree, Proven,
              HadEnding, ProcInv, Applied
<1>2. CASE \E c \in Calls : FindAdmission(c) \/ ReconcileCost(c) \/ HandlerStep(c)
  BY <1>2, FindAdmissionKeeps, ReconcileCostKeeps, ReserveKeeps, PersistKeeps, SettleUnownedKeeps,
     DispatchKeeps, ReceiveAnswerKeeps, AdoptKeeps, ReplayKeeps
  DEF HandlerStep
<1>3. CASE \E p \in Procs : SharedStep(p)
  BY <1>3, EngineAnswersKeeps, EngineUnreachableKeeps, ReleaseKeeps, BeginKeeps, SettleHoldKeeps,
     FinishKeeps, ReadRunKeeps, ReconcileSnapshotKeeps
  DEF SharedStep
<1>4. CASE WorkerStep
  BY <1>4, StartPassKeeps, WorkerAdoptsKeeps DEF WorkerStep
<1>5. CASE BackendStops \/ BackendStarts \/ LeaseRunsOut
  BY <1>5, BackendStopsKeeps, BackendStartsKeeps, LeaseRunsOutKeeps
<1>6. CASE (EngineStep \/ UserStep \/ EngineRestart) /\ UNCHANGED backendVars
  BY <1>6, EngineMovesKeep
<1> QED
  BY <1>1, <1>2, <1>3, <1>4, <1>5, <1>6 DEF Next, BackendStep

\* The invariant holds throughout: of it the theorems below are consequences.
LEMMA Invariant == Spec => []IInv
BY InitHolds, NextKeeps, PTL DEF Spec

\* Requests, row, reservation, record and processes keep their types.
THEOREM PipelineTypeOK == Spec => []TypeOK
<1>1. IInv => TypeOK
  BY DEF IInv
<1> QED
  BY <1>1, Invariant, PTL

\* However often a request is repeated, the run cancelled or resumed, and the engine or the
\* backend dies, an admission's dispatch starts its work at most once, and only if the record
\* knows of it.
THEOREM PipelineDispatchIsSafe == Spec => []DispatchIsSafe
<1>1. IInv => DispatchIsSafe
  BY DEF IInv, DispatchIsSafe, WorkStartsOnce, OneExecution, RecordInv
<1> QED
  BY <1>1, Invariant, PTL

\* The record never claims a settlement that the reservation did not get.
THEOREM PipelineSettlementsAgree == Spec => []SettlementsAgree
<1>1. IInv => SettlementsAgree
  BY DEF IInv, RecordInv
<1> QED
  BY <1>1, Invariant, PTL

\* A reservation is charged with what a run used, or in full for want of a watermark, only for
\* an ending that the run's row has really had, with that status and that watermark.
THEOREM PipelineChargedRunsHaveEnded == Spec => []ChargedRunsHaveEnded
<1>1. IInv => ChargedRunsHaveEnded
  BY DEF IInv, RecordInv, SettlementsAgree, ChargedRunsHaveEnded, Proven, HadEnding, Unowned, Stale, SettledBy
<1> QED
  BY <1>1, Invariant, PTL

-----------------------------------------------------------------------------
(* The reservation of an admission is a hold. *)

\* What a step does to the reservation, if anything.
LEMMA HoldMoves ==
  ASSUME IInv, [Next]_vars
  PROVE  hold' = hold \/ Reservation!Move(hold, hold')
<1>0. Unowned \in Settlements /\ Stale \in Settlements
  <2>1. "failed" \in TerminalRow
    BY DEF TerminalRow
  <2>2. Unowned \in Settlements
    BY <2>1 DEF Settlements, Unowned
  <2>3. Stale \in Settlements
    BY DEF Settlements, Stale
  <2> QED
    BY <2>2, <2>3
<1> USE DEF Reservation!Move, Reservation!None, Reservation!Held, Reservation!SettledBy,
            Untouched, Held, SettledBy
<1>1. ASSUME NEW c \in Calls, ReserveNodeBudgets(c) PROVE hold' = hold \/ Reservation!Move(hold, hold')
  BY <1>1 DEF ReserveNodeBudgets
<1>2. ASSUME NEW c \in Calls, SettleUnowned(c) PROVE hold' = hold \/ Reservation!Move(hold, hold')
  BY <1>0, <1>2 DEF SettleUnowned
<1>3. ASSUME NEW p \in Procs, SettleHold(p) PROVE hold' = hold \/ Reservation!Move(hold, hold')
  <2>1. record.status = "settling" => record.intent \in Settlements
    BY DEF IInv, RecordInv
  <2> QED
    BY <1>3, <2>1 DEF SettleHold
<1>4. ASSUME LeaseRunsOut PROVE hold' = hold \/ Reservation!Move(hold, hold')
  BY <1>0, <1>4 DEF LeaseRunsOut
<1>5. ASSUME NEW c \in Calls,
             \/ FindAdmission(c) \/ ReconcileCost(c) \/ PersistAdmission(c) \/ Dispatch(c)
             \/ ReceiveAnswer(c) \/ Adopt(c) \/ Replay(c)
      PROVE  hold' = hold
  BY <1>5 DEF FindAdmission, ReconcileCost, PersistAdmission, Dispatch, ReceiveAnswer, Adopt, Replay
<1>6. ASSUME NEW p \in Procs,
             \/ EngineAnswers(p) \/ EngineUnreachable(p) \/ Release(p) \/ BeginSettlement(p)
             \/ FinishSettlement(p) \/ ReadRun(p) \/ ReconcileSnapshot(p)
      PROVE  hold' = hold
  BY <1>6 DEF EngineAnswers, EngineUnreachable, Release, BeginSettlement, FinishSettlement, ReadRun,
              ReconcileSnapshot
<1>7. CASE WorkerStep \/ BackendStops \/ BackendStarts
  BY <1>7 DEF WorkerStep, StartPass, WorkerAdopts, BackendStops, BackendStarts
<1>8. CASE UNCHANGED backendVars \/ UNCHANGED vars
  BY <1>8 DEF backendVars, vars
<1> QED
  BY <1>1, <1>2, <1>3, <1>4, <1>5, <1>6, <1>7, <1>8
  DEF Next, BackendStep, HandlerStep, SharedStep

LEMMA ReservationStep ==
  ASSUME IInv, IInv', [Next]_vars
  PROVE  [Reservation!Next]_([r \in {"admission"} |-> hold])
<1>1. hold' \in Reservation!Holds
  BY DEF IInv, TypeOK, Holds, Reservation!Holds, Reservation!None, Reservation!Held,
         Reservation!SettledBy, Untouched, Held, SettledBy
<1> QED
  BY <1>1, HoldMoves DEF Reservation!Next

\* Whatever repeats a settlement, the reservation of an admission is held once and settled
\* once: requests, reconciliation, failed writes and the lease together implement BudgetHold.
THEOREM PipelineSettlesOnce == Spec => AdmissionSettlesOnce
<1>1. Init => Reservation!Init
  BY DEF Init, Reservation!Init, Reservation!None, Untouched
<1>2. IInv /\ IInv' /\ [Next]_vars => [Reservation!Next]_([r \in {"admission"} |-> hold])
  BY ReservationStep
<1> QED
  BY <1>1, <1>2, Invariant, PTL DEF Spec, AdmissionSettlesOnce, Reservation!Spec
=============================================================================
