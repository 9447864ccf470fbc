----------------------------- MODULE Scheduler -----------------------------
(***************************************************************************)
(* The schedules of a project: the ticker, "Run now", "Stop everything"    *)
(* and the routes that edit a schedule, over clean stops and deaths of the *)
(* process.                                                                *)
(*                                                                         *)
(* Durable state is the schedule documents, the fire log and the runs.     *)
(* JavaScript runs one thread, so a step goes from one await to the next:  *)
(* a tick reads the list once and awaits the run routes in between, while  *)
(* every other request may change what it has read.                        *)
(***************************************************************************)
EXTENDS ScheduleWindows, FiniteSets

CONSTANTS
    Order,        \* the schedules in listing order, newest first
    Initially,    \* Initially[s]: the expression schedule s is created with
    Enabled,      \* the schedules that are created enabled
    Cron,         \* the expressions of kind cron
    SkipPolicy,   \* the schedules whose overlap policy is skip
    Grace,        \* catchUpGraceMs
    MaxFires,     \* maxConcurrentFires
    MaxListed,    \* MAX_ENUMERATED_MISSED_WINDOWS
    StopScan,     \* how many fire records cancelActiveRuns reads
    MaxRequests,  \* bound: requests of users
    MaxMishaps    \* bound: deaths, clean stops and dispatches that the run routes refuse

Schedules == {Order[i] : i \in DOMAIN Order}

ASSUME SchedulerAssumption ==
    /\ Order \in Seq(Schedules) /\ Order # <<>>
    /\ \A i, j \in DOMAIN Order : Order[i] = Order[j] => i = j
    /\ Initially \in [Schedules -> Expressions]
    /\ Cron \subseteq Expressions
    /\ {Enabled, SkipPolicy} \subseteq SUBSET Schedules
    /\ {Grace, MaxFires, MaxListed, StopScan} \subseteq Nat \ {0}
    /\ {MaxRequests, MaxMishaps} \subseteq Nat

VARIABLES
    now,
    doc,       \* doc[s]: the document of schedule s, or Deleted
    fires,     \* fires[s]: the fire records of schedule s, oldest first
    started,   \* the runs in the store, as <<schedule, key>>
    going,     \* those that are not terminal
    asked,     \* the runs whose cancellation has been requested
    process,   \* "up", "stopping" (preClose has begun) or "down"
    tick,      \* the tick in flight: active, queue of documents read, fires left
    flight,    \* flight[c]: what the dispatch of caller c awaits
    stopper,   \* the request to stop everything in flight
    bounds,    \* requests and mishaps so far, and how many of them were deaths
    history    \* what the properties remember

vars == <<now, doc, fires, started, going, asked, process, tick, flight, stopper, bounds, history>>

Callers == {"tick", "manual"}

(* Why a record was written.  refused stands for every answer of the run   *)
(* routes that is not a run: no controller, no workflow, a conflict, an    *)
(* error.                                                                  *)
Deferring == {"capacity-deferred", "shutdown"}
Reasons   == {"dispatched", "disabled", "catchup-truncated", "catchup-skipped", "catchup-expired",
              "duplicate-window", "overlap-skipped", "refused"} \cup Deferring

(* The window key of "Run now": the second it was asked for. *)
NoKey        == 0
ManualKey(t) == 0 - 1 - t
ManualKeys   == {ManualKey(t) : t \in 0..Horizon}
Keys         == UNION {{Key[e][t] : t \in DOMAIN Key[e]} : e \in Expressions}

(* last stands for lastFiredWindowKey and lastRunId: the run's id is made  *)
(* from the key, and they are written together.                            *)
Deleted == [enabled |-> FALSE, expression |-> "none", cursor |-> 0, last |-> NoKey,
            reason |-> "none"]
Created(s, t) == [enabled |-> s \in Enabled, expression |-> Initially[s], cursor |-> t, last |-> NoKey,
                  reason |-> "none"]

(* upto: the last instant the record speaks for. *)
Fire(w, upto, reason) == [key |-> w.key, at |-> w.at, upto |-> upto, reason |-> reason]
NoWindow == [key |-> NoKey, at |-> 0]
Awaiting(phase, s, w, answer) ==
    [phase |-> phase, schedule |-> s, window |-> w, answer |-> answer]
Landed   == Awaiting("none", Order[1], NoWindow, "none")
NoTick   == [active |-> FALSE, queue |-> <<>>, budget |-> 0]
NoStop   == [active |-> FALSE, schedule |-> Order[1], todo |-> {}]

Recorded(s) == {fires[s][i].key : i \in {j \in DOMAIN fires[s] : fires[s][j].reason = "dispatched"}}

(* The elements of a sequence at the given positions, in its order. *)
Kept(list, at) ==
    LET upto[i \in 0..Len(list)] ==
            IF i = 0 THEN <<>>
            ELSE IF i \in at THEN Append(upto[i - 1], list[i]) ELSE upto[i - 1]
    IN  upto[Len(list)]

Min2(a, b) == IF a <= b THEN a ELSE b
Max2(a, b) == IF a >= b THEN a ELSE b

Init ==
    /\ now = 0
    /\ doc = [s \in Schedules |-> Created(s, 0)]
    /\ fires = [s \in Schedules |-> <<>>]
    /\ started = {} /\ going = {} /\ asked = {}
    /\ process = "up"
    /\ tick = NoTick
    /\ flight = [c \in Callers |-> Landed]
    /\ stopper = NoStop
    /\ bounds = [requests |-> 0, mishaps |-> 0, deaths |-> 0]
    /\ history = [anchor |-> [s \in Schedules |-> 0],    \* where the cursor was last set
                  paused |-> [s \in Schedules |-> {}],   \* instants that came while paused
                  misread |-> {},                        \* evaluated from an outdated document
                  quiet |-> {}]                          \* stopped for good

-----------------------------------------------------------------------------
(* What a decision writes. *)

(* #advance: the document is read again, and a cursor of 0 leaves it alone. *)
Advanced(d, cursor, reason, fired) ==
    IF d = Deleted THEN d
    ELSE [d EXCEPT !.cursor = Max2(@, cursor), !.reason = reason,
                   !.last = IF fired = NoKey THEN @ ELSE fired]

(* The cursor after a tick has settled a window: a paused one stays due,   *)
(* and an expired one passes every window up to now.                       *)
CursorAfter(w, upto, reason) ==
    CASE reason = "disabled"        -> 0
      [] reason = "catchup-expired" -> upto
      [] OTHER                      -> w.at

(* Mutant: a deferred window takes the cursor along. *)
DocAfterDeferral(c, s, w, upto, reason) ==
    IF c = "manual" /\ reason # "dispatched" THEN doc[s]
    ELSE Advanced(doc[s], IF c = "manual" THEN 0 ELSE CursorAfter(w, upto, reason), reason,
                  IF reason = "dispatched" THEN w.key ELSE NoKey)

(* The document after a window is settled, by a tick or by runNow.  A      *)
(* deferred window keeps the cursor, and a refused manual run says nothing. *)
DocAfter(c, s, w, upto, reason) ==
    IF reason \in Deferring \/ (c = "manual" /\ reason # "dispatched") THEN doc[s]
    ELSE Advanced(doc[s], IF c = "manual" THEN 0 ELSE CursorAfter(w, upto, reason), reason,
                  IF reason = "dispatched" THEN w.key ELSE NoKey)

-----------------------------------------------------------------------------
(* #evaluate, up to its await.  d is the document as the tick has read it. *)

Due(d) == {w \in NextTable[d.expression][d.cursor] : w.at <= now}

InGrace(d) == LatestWindows(d.expression, Max2(d.cursor, now - Grace), now)

Target(d) == CHOOSE w \in IF InGrace(d) = {} THEN Due(d) ELSE InGrace(d) : TRUE

(* The records of a catch-up on the windows before its target. *)
PassedOver(d) ==
    LET walk   == WindowsBetween(d.expression, d.cursor, now)
        listed == SubSeq(walk, 1, Min2(MaxListed, Len(walk)))
        others == Kept(listed, {i \in DOMAIN listed : listed[i].key # Target(d).key})
    IN  IF InGrace(d) = {} THEN <<>>
        ELSE (IF Len(walk) > MaxListed
              THEN <<Fire(listed[1], Target(d).at, "catchup-truncated")>> ELSE <<>>)
             \o [i \in DOMAIN others |-> Fire(others[i], others[i].at, "catchup-skipped")]

(* Mutant: the previous run is not looked up. *)
DecisionOverlapping(s, d, w) ==
    CASE d.expression \in Cron /\ d.last = w.key -> "duplicate-window"
      [] now - w.at > Grace                      -> "catchup-expired"
      [] tick.budget = 0                         -> "capacity-deferred"
      [] process = "stopping"                    -> "shutdown"
      [] OTHER                                   -> "ask"

(* #decide, and the check of #dispatch before its first await. *)
Decision(s, d, w) ==
    CASE d.expression \in Cron /\ d.last = w.key        -> "duplicate-window"
      [] now - w.at > Grace                             -> "catchup-expired"
      [] tick.budget = 0                                -> "capacity-deferred"
      [] s \in SkipPolicy /\ <<s, d.last>> \in going    -> "overlap-skipped"
      [] process = "stopping"                           -> "shutdown"
      [] OTHER                                          -> "ask"

Nothing == [records |-> <<>>, decision |-> "none", window |-> NoWindow, upto |-> 0]

(* Mutant: a paused schedule is evaluated like any other. *)
EvaluationUnpaused(s, d) ==
    IF Due(d) = {} THEN Nothing
    ELSE LET w        == Target(d)
             decision == Decision(s, d, w)
             upto     == IF decision = "catchup-expired" THEN now ELSE w.at
         IN  [records |-> IF decision = "ask" THEN PassedOver(d)
                          ELSE PassedOver(d) \o <<Fire(w, upto, decision)>>,
              decision |-> decision, window |-> w, upto |-> upto]

(* What an evaluation comes to before it awaits anything: the records it   *)
(* writes, and the decision; "none" when there is nothing to decide.       *)
Evaluation(s, d) ==
    IF Due(d) = {} \/ (~d.enabled /\ d.reason = "disabled") THEN Nothing
    ELSE IF ~d.enabled
    THEN LET w == CHOOSE v \in Due(d) : TRUE
         IN  [records |-> <<Fire(w, w.at, "disabled")>>, decision |-> "disabled",
              window |-> w, upto |-> w.at]
    ELSE LET w        == Target(d)
             decision == Decision(s, d, w)
             upto     == IF decision = "catchup-expired" THEN now ELSE w.at
         IN  [records |-> IF decision = "ask" THEN PassedOver(d)
                          ELSE PassedOver(d) \o <<Fire(w, upto, decision)>>,
              decision |-> decision, window |-> w, upto |-> upto]

-----------------------------------------------------------------------------
(* The tick. *)

Listing == Kept([i \in DOMAIN Order |-> [schedule |-> Order[i], doc |-> doc[Order[i]]]],
                {i \in DOMAIN Order : doc[Order[i]] # Deleted})

(* Mutant: ticking is not reset when the tick is over. *)
TickAfterHeld(queue, budget) == [active |-> TRUE, queue |-> queue, budget |-> budget]

(* The tick is over with its last schedule. *)
TickAfter(queue, budget) ==
    IF queue = <<>> THEN NoTick ELSE [active |-> TRUE, queue |-> queue, budget |-> budget]

StartTick ==
    /\ process = "up" /\ ~tick.active
    /\ tick' = TickAfter(Listing, MaxFires)
    /\ UNCHANGED <<now, doc, fires, started, going, asked, process, flight, stopper, bounds, history>>

(* The tick acts on a schedule that was edited after it was read. *)
Outdated(s, d) == \/ d.enabled # doc[s].enabled
                  \/ d.expression # doc[s].expression
                  \/ d.cursor # doc[s].cursor

Evaluable == tick.active /\ flight["tick"] = Landed /\ tick.queue # <<>>

Evaluate ==
    /\ Evaluable
    /\ LET s == Head(tick.queue).schedule
           d == Head(tick.queue).doc
       IN \E v \in {Evaluation(s, d)} :
        /\ tick' = IF v.decision = "ask" THEN [tick EXCEPT !.queue = Tail(@)]
                   ELSE TickAfter(Tail(tick.queue), tick.budget)
        /\ fires' = [fires EXCEPT ![s] = @ \o v.records]
        /\ doc' = IF v.decision \in {"none", "ask"} THEN doc
                  ELSE [doc EXCEPT ![s] = DocAfter("tick", s, v.window, v.upto, v.decision)]
        /\ flight' = IF v.decision = "ask"
                     THEN [flight EXCEPT !["tick"] = Awaiting("asked", s, v.window, "none")]
                     ELSE flight
        /\ history' = IF v.decision # "none" /\ Outdated(s, d)
                      THEN [history EXCEPT !.misread = @ \cup {s}] ELSE history
        /\ UNCHANGED <<now, started, going, asked, process, stopper, bounds>>

-----------------------------------------------------------------------------
(* #dispatch, of a tick or of runNow. *)

Answered(c, answer) ==
    flight' = [flight EXCEPT ![c].phase = "answered", ![c].answer = answer]

Refused(c) ==
    /\ bounds.mishaps < MaxMishaps
    /\ bounds' = [bounds EXCEPT !.mishaps = @ + 1]
    /\ Answered(c, "refused")

(* executionBlocker asks whether runs are executed; then the route creates *)
(* the run.  A request id that it has seen is answered with the run it      *)
(* made, and the controller may refuse to start a run that has been         *)
(* created.  The probe changes nothing, so the two requests are one step.   *)
Post(c) ==
    LET run    == <<flight[c].schedule, flight[c].window.key>>
        Create == /\ started' = started \cup {run}
                  /\ going' = IF run \in started THEN going ELSE going \cup {run}
    IN  /\ flight[c].phase = "asked"
        /\ \/ Create /\ Answered(c, "dispatched") /\ UNCHANGED bounds
           \/ Create /\ Refused(c)
           \/ Refused(c) /\ UNCHANGED <<started, going>>
        /\ UNCHANGED <<now, doc, fires, asked, process, tick, stopper, history>>

Settle(c) ==
    LET s == flight[c].schedule
        w == flight[c].window
        a == flight[c].answer
    IN  /\ flight[c].phase = "answered"
        /\ fires' = [fires EXCEPT ![s] = Append(@, Fire(w, w.at, a))]
        /\ doc' = [doc EXCEPT ![s] = DocAfter(c, s, w, w.at, a)]
        /\ flight' = [flight EXCEPT ![c] = Landed]
        /\ tick' = IF c = "manual" THEN tick
                   ELSE TickAfter(tick.queue, tick.budget - IF a = "dispatched" THEN 1 ELSE 0)
        /\ UNCHANGED <<now, started, going, asked, process, stopper, bounds, history>>

-----------------------------------------------------------------------------
(* Requests. *)

Request(s) ==
    /\ process # "down" /\ doc[s] # Deleted
    /\ bounds.requests < MaxRequests
    /\ bounds' = [bounds EXCEPT !.requests = @ + 1]

(* POST run-now *)
RunNow(s) ==
    LET w == [key |-> ManualKey(now), at |-> now]
    IN  /\ Request(s) /\ flight["manual"] = Landed
        /\ \/ /\ process = "up"
              /\ flight' = [flight EXCEPT !["manual"] = Awaiting("asked", s, w, "none")]
              /\ UNCHANGED fires
           \/ /\ process = "stopping"
              /\ fires' = [fires EXCEPT ![s] = Append(@, Fire(w, now, "shutdown"))]
              /\ UNCHANGED flight
        /\ history' = [history EXCEPT !.quiet = @ \ {s}]
        /\ UNCHANGED <<now, doc, started, going, asked, process, tick, stopper>>

(* POST disable *)
Pause(s) ==
    /\ Request(s) /\ doc[s].enabled
    /\ doc' = [doc EXCEPT ![s].enabled = FALSE]
    /\ UNCHANGED <<now, fires, started, going, asked, process, tick, flight, stopper, history>>

(* POST enable *)
Resume(s) ==
    /\ Request(s)
    /\ doc' = [doc EXCEPT ![s].enabled = TRUE, ![s].cursor = now]
    /\ history' = [history EXCEPT !.anchor[s] = now, !.quiet = @ \ {s}]
    /\ UNCHANGED <<now, fires, started, going, asked, process, tick, flight, stopper>>

(* PATCH with an expression or another time zone *)
Edit(s, e) ==
    /\ Request(s)
    /\ doc' = [doc EXCEPT ![s].expression = e, ![s].cursor = now]
    /\ history' = [history EXCEPT !.anchor[s] = now]
    /\ UNCHANGED <<now, fires, started, going, asked, process, tick, flight, stopper>>

Delete(s) ==
    /\ Request(s)
    /\ doc' = [doc EXCEPT ![s] = Deleted]
    /\ UNCHANGED <<now, fires, started, going, asked, process, tick, flight, stopper, history>>

(* Nothing that has been read or begun before can still start a run of s,  *)
(* and every run of s is among the records that a stop reads.              *)
Undisturbed(s) ==
    /\ \A c \in Callers : flight[c] # Landed => flight[c].schedule # s
    /\ \A i \in DOMAIN tick.queue : tick.queue[i].schedule = s => ~tick.queue[i].doc.enabled
    /\ \A r \in started : r[1] = s => r[2] \in Recorded(s)
    /\ Len(fires[s]) <= StopScan

(* POST stop: the schedule is paused, then the runs that its newest records *)
(* name are cancelled one after another.                                    *)
StopEverything(s) ==
    LET from    == Max2(1, Len(fires[s]) - StopScan + 1)
        scanned == {fires[s][i] : i \in from..Len(fires[s])}
    IN  /\ Request(s) /\ ~stopper.active
        /\ doc' = [doc EXCEPT ![s].enabled = FALSE]
        /\ stopper' = [active |-> TRUE, schedule |-> s,
                       todo |-> {<<s, f.key>> : f \in {g \in scanned : g.reason = "dispatched"}}]
        /\ history' = [history EXCEPT !.quiet = IF Undisturbed(s) THEN @ \cup {s} ELSE @]
        /\ UNCHANGED <<now, fires, started, going, asked, process, tick, flight>>

(* Mutant: the cancel route is not called for a run that is going. *)
CancelPassingOver(r) ==
    /\ r \in stopper.todo
    /\ stopper' = [stopper EXCEPT !.todo = @ \ {r}]
    /\ UNCHANGED <<now, doc, fires, started, going, asked, process, tick, flight, bounds, history>>

(* cancelActiveRuns: a terminal run is passed over.  The cancel route       *)
(* records the request of any other and answers 202 with the run still      *)
(* going, or 200 when nobody executed it and it is cancelled at once; or it *)
(* refuses.                                                                 *)
CancelRun(r) ==
    /\ r \in stopper.todo
    /\ \/ /\ r \notin going
          /\ UNCHANGED <<going, asked, history>>
       \/ /\ r \in going
          /\ asked' = asked \cup {r}
          /\ going' = going \/ going' = going \ {r}
          /\ UNCHANGED history
       \/ /\ r \in going
          /\ history' = [history EXCEPT !.quiet = @ \ {r[1]}]
          /\ UNCHANGED <<going, asked>>
    /\ stopper' = [stopper EXCEPT !.todo = @ \ {r}]
    /\ UNCHANGED <<now, doc, fires, started, process, tick, flight, bounds>>

EndStop ==
    /\ stopper.active /\ stopper.todo = {}
    /\ stopper' = NoStop
    /\ UNCHANGED <<now, doc, fires, started, going, asked, process, tick, flight, bounds, history>>

-----------------------------------------------------------------------------
(* Time, the runs and the process. *)

Advance ==
    /\ now < Horizon
    /\ now' = now + 1
    /\ history' = [history EXCEPT !.paused =
                      [s \in Schedules |-> IF doc[s] # Deleted /\ ~doc[s].enabled
                                           THEN @[s] \cup {now + 1} ELSE @[s]]]
    /\ UNCHANGED <<doc, fires, started, going, asked, process, tick, flight, stopper, bounds>>

RunEnds(r) ==
    /\ r \in going
    /\ going' = going \ {r}
    /\ UNCHANGED <<now, doc, fires, started, asked, process, tick, flight, stopper, bounds, history>>

(* preClose: stop() refuses dispatches from here on and waits for the tick. *)
Shutdown ==
    /\ process = "up" /\ bounds.mishaps < MaxMishaps
    /\ process' = "stopping"
    /\ bounds' = [bounds EXCEPT !.mishaps = @ + 1]
    /\ UNCHANGED <<now, doc, fires, started, going, asked, tick, flight, stopper, history>>

Forget ==
    /\ process' = "down"
    /\ tick' = NoTick
    /\ flight' = [c \in Callers |-> Landed]
    /\ stopper' = NoStop
    /\ history' = [history EXCEPT !.quiet = IF stopper.active THEN @ \ {stopper.schedule} ELSE @]

Exit ==
    /\ process = "stopping" /\ ~tick.active /\ ~stopper.active /\ flight["manual"] = Landed
    /\ Forget
    /\ UNCHANGED <<now, doc, fires, started, going, asked, bounds>>

(* A death, also between two of the writes of a step. *)
Die ==
    /\ process # "down" /\ bounds.mishaps < MaxMishaps
    /\ bounds' = [bounds EXCEPT !.mishaps = @ + 1, !.deaths = @ + 1]
    /\ Forget
    /\ \/ UNCHANGED fires
       \/ /\ Evaluable
          /\ LET s == Head(tick.queue).schedule
                 v == Evaluation(s, Head(tick.queue).doc)
             IN  \E n \in DOMAIN v.records :
                    fires' = [fires EXCEPT ![s] = @ \o SubSeq(v.records, 1, n)]
       \/ \E c \in Callers :
            /\ flight[c].phase = "answered"
            /\ fires' = [fires EXCEPT ![flight[c].schedule] =
                            Append(@, Fire(flight[c].window, flight[c].window.at, flight[c].answer))]
    /\ UNCHANGED <<now, doc, started, going, asked>>

Start ==
    /\ process = "down"
    /\ process' = "up"
    /\ UNCHANGED <<now, doc, fires, started, going, asked, tick, flight, stopper, bounds, history>>

Requests == \E s \in Schedules :
    \/ RunNow(s) \/ Pause(s) \/ Resume(s) \/ Delete(s) \/ StopEverything(s)
    \/ \E e \in Expressions : Edit(s, e)

Progress ==
    \/ StartTick \/ Evaluate
    \/ \E c \in Callers : Post(c) \/ Settle(c)
    \/ (\E r \in stopper.todo : CancelRun(r)) \/ EndStop
    \/ Exit \/ Start

Next == Progress \/ Requests \/ Advance \/ (\E r \in going : RunEnds(r)) \/ Shutdown \/ Die

Spec == Init /\ [][Next]_vars

(* The event loop does not stop while there is something for it to do: the  *)
(* interval fires, awaits are answered, and a process that has gone down is *)
(* started again.                                                           *)
FairSpec == Spec /\ WF_vars(Progress)

-----------------------------------------------------------------------------
(* Properties. *)

Documents == [enabled : BOOLEAN, expression : Expressions, cursor : 0..Horizon,
              last : {NoKey} \cup Keys \cup ManualKeys, reason : {"none"} \cup Reasons]
Docs      == {Deleted} \cup Documents
Fires     == [key : Keys \cup ManualKeys, at : 0..Horizon, upto : 0..Horizon, reason : Reasons]
Runs      == Schedules \X (Keys \cup ManualKeys)

(* The types of the variables; a run that is going is in the store, no tick *)
(* starts more runs than it may, and what is not up does nothing.           *)
TypeOK ==
    /\ now \in 0..Horizon
    /\ doc \in [Schedules -> Docs]
    /\ fires \in [Schedules -> Seq(Fires)]
    /\ started \subseteq Runs /\ going \subseteq started /\ asked \subseteq started
    /\ process \in {"up", "stopping", "down"}
    /\ tick \in [active : BOOLEAN, queue : Seq([schedule : Schedules, doc : Documents]),
                 budget : 0..MaxFires]
    /\ flight \in [Callers -> [phase : {"none", "asked", "answered"}, schedule : Schedules,
                               window : [key : {NoKey} \cup Keys \cup ManualKeys, at : 0..Horizon],
                               answer : {"none", "dispatched", "refused"}]]
    /\ stopper \in [active : BOOLEAN, schedule : Schedules, todo : SUBSET Runs]
    /\ bounds \in [requests : 0..MaxRequests, mishaps : 0..MaxMishaps, deaths : 0..MaxMishaps]
    /\ bounds.deaths <= bounds.mishaps
    /\ history \in [anchor : [Schedules -> 0..Horizon], paused : [Schedules -> SUBSET (0..Horizon)],
                    misread : SUBSET Schedules, quiet : SUBSET Schedules]
    /\ process = "down" => tick = NoTick /\ stopper = NoStop /\ \A c \in Callers : flight[c] = Landed

(* docs/schedules.md: every window that was deliberately skipped is        *)
(* recorded.  Once the cursor has passed the last instant of a local time, *)
(* the fire log says what became of it, by name or as part of a backlog,   *)
(* whatever deaths, deferrals and clean stops came between.  This is less  *)
(* than the page says where a fall-back repeats several local times: the   *)
(* code passes the first occurrence of all but the first of them without a *)
(* record (FirstOccurrencesRun below), so only the last one is spoken of.  *)
(* The cursor that a user has set by editing or resuming starts anew; a    *)
(* schedule that was edited after a tick had read it is excepted: the tick *)
(* passes windows of the new expression unseen (see the README).           *)
SettledBy(f, e, key) ==
    /\ f.reason \notin Deferring \cup {"disabled"}
    /\ f.key = key \/ (f.at <= LastInstant(e, key) /\ LastInstant(e, key) <= f.upto)
AuditIsComplete ==
    \A s \in Schedules \ history.misread :
        doc[s] # Deleted =>
            \A key \in {w.key : w \in Windows(doc[s].expression)} :
                LET last == LastInstant(doc[s].expression, key)
                IN  history.anchor[s] < last /\ last <= doc[s].cursor =>
                        \E i \in DOMAIN fires[s] : /\ fires[s][i].at > history.anchor[s]
                                                   /\ SettledBy(fires[s][i], doc[s].expression, key)

(* docs/schedules.md: of a local time that comes twice, the schedule fires *)
(* on the first occurrence, and the second is the one that is recorded as  *)
(* already run.  Once a second occurrence has been recorded so, no local   *)
(* time that had already come by then is fired: its first occurrence was   *)
(* the one to fire.  The code fires it: nextCronFire passed that instant.  *)
FirstOccurrencesRun ==
    \A s \in Schedules \ history.misread : doc[s] # Deleted =>
        \A i, j \in DOMAIN fires[s] :
            i < j /\ fires[s][i].reason = "duplicate-window" /\ fires[s][j].reason = "dispatched" =>
                LET key == Key[doc[s].expression]
                IN  \A t \in DOMAIN key : history.anchor[s] < t /\ t < fires[s][i].at
                                              => key[t] # fires[s][j].key

(* The overlap policy skip: a schedule that nobody starts by hand has at   *)
(* most one run going, as long as no process has died and the run routes   *)
(* have not failed after creating a run.  (With a manual run, a death or   *)
(* such a failure, two can be going: lastRunId is the only one looked up.) *)
SkipMeansOneRun ==
    bounds.deaths = 0 =>
        \A s \in SkipPolicy :
            LET mine == {r \in started : r[1] = s}
            IN  (\A r \in mine : /\ r[2] \notin ManualKeys
                                 /\ \/ r[2] \in Recorded(s)
                                    \/ \E c \in Callers : /\ flight[c].answer = "dispatched"
                                                          /\ <<flight[c].schedule, flight[c].window.key>> = r)
                => Cardinality(mine \cap going) <= 1

(* POST stop, api/schedules.ts: a runaway schedule is genuinely stoppable.  *)
(* When nothing else was under way for the schedule, no cancellation was    *)
(* refused and its runs were all among the records that are read, then      *)
(* from the answer on, until somebody resumes it or runs it by hand, a run  *)
(* of it that is still going has been asked to stop, across restarts too:   *)
(* the stop missed none, and none has started since.  (That a run which is  *)
(* asked to stop ends is the promise of WorkflowRun, CancelIsHonoured.)     *)
StoppedStaysStopped ==
    \A s \in history.quiet :
        (stopper.active /\ stopper.schedule = s)
            \/ \A r \in going : r[1] = s => r \in asked

(* docs/schedules.md: a paused schedule accrues no windows, so resuming it *)
(* does not replay the pause.  No window that came while the schedule was  *)
(* paused has started a run.                                               *)
PausedWindowsNeverRun ==
    \A s \in Schedules \ history.misread : \A i \in DOMAIN fires[s] :
        fires[s][i].reason = "dispatched" /\ fires[s][i].key \notin ManualKeys
            => fires[s][i].at \notin history.paused[s]

(* A schedule that is paused or stopped is quiet: nothing of it starts, and *)
(* nothing that fell into the pause starts afterwards.                      *)
PausesHold == StoppedStaysStopped /\ PausedWindowsNeverRun

(* docs/schedules.md: a deferred window and one that met a shutdown are    *)
(* reconsidered.  An enabled schedule does not keep a due window for ever. *)
DueWindowsAreSettled ==
    \A s \in Schedules : []<>~(doc[s].enabled /\ Due(doc[s]) # {})

=============================================================================
