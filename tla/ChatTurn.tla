------------------------------ MODULE ChatTurn ------------------------------
(***************************************************************************)
(* A chat turn of one project, from POST /sessions/:id/run to its last     *)
(* frame: the session registry that holds the open sessions, the claim and *)
(* the broker's handle of a turn, the detached owner that prompts, asks    *)
(* and pays, the abort route, the row of the runs index, and the tabs that *)
(* rebuild a turn from its snapshot and its event stream.                  *)
(*                                                                         *)
(* A request runs without a pause between two awaits, so an action is what *)
(* happens from one await to the next.  The provider is external: a prompt *)
(* may spend, publish and ask, and it ends.                                *)
(***************************************************************************)
EXTENDS Naturals, Sequences, FiniteSets, FiniteSetsExt

CONSTANTS
    Sessions,       \* the sessions of the project
    Turns,          \* the requests for a turn, numbered as they come
    Tabs,           \* the tabs that watch
    Cap,            \* MAX_LIVE_PER_PROJECT
    Limit,          \* the project's spend limit; without one every turn is admitted
    MaxObjects,     \* bound: how often a session is opened
    MaxFrames,      \* bound: frames of a turn before its terminal ones
    MaxTroubles     \* bound: deaths, compacted turns, terminal rows that are not written

ASSUME ChatAssumption ==
    /\ Turns \subseteq Nat \ {0} /\ 0 \notin Sessions
    /\ Cap \in Nat \ {0} /\ Limit \in Nat \ {0}
    /\ MaxObjects \in Nat /\ MaxFrames \in Nat \ {0} /\ MaxTroubles \in Nat

VARIABLES
    live,       \* the registry's map, by session: the open object, or 0
    recency,    \* its keys, least recently used first
    object,     \* what became of every object that was built
    pinned,     \* the registry's set of claimed sessions
    claim,      \* activeRuns, by session: the claiming turn, or None
    handle,     \* the broker's map, by session: the turn, or None
    turn,       \* every turn
    visit,      \* the sessions another request is opening
    stop,       \* the abort request of a session
    ledger,     \* what the ledger says a turn has cost
    tracked,    \* inFlightRuns
    row,        \* the runs index, by turn
    tab,        \* every tab
    epoch       \* deaths of the process so far

registry == <<live, recency, object>>
broker   == <<claim, pinned, handle>>
money    == <<ledger, tracked>>
vars == <<live, recency, object, pinned, claim, handle, turn, visit, stop,
          ledger, tracked, row, tab, epoch>>

Objects == 1..MaxObjects
None    == 0

\* What MaxTroubles bounds.
Troubles ==
    LET Unwritten == {t \in Turns : turn[t].pc = "ended"
                                      /\ row[t].status \in {"running", "interrupted"}}
    IN  epoch + Cardinality({t \in Turns : turn[t].hidden > 0}) + Cardinality(Unwritten)

\* The points of a turn's request and of its detached owner.  "starting": prompt() has
\* been called and its agent does not run yet.
Points == {"new", "opening", "claimed", "preparing", "starting", "prompting", "flushing",
           "refused", "ended", "lost"}

InPrompt(t) == turn[t].pc \in {"starting", "prompting"}
InFlight(t) == InPrompt(t) \/ turn[t].pc = "flushing"

\* ... and those that are in it or come to it.
MayPrompt(t) == turn[t].pc = "preparing" \/ InPrompt(t)

\* A turn whose handle exists and is not complete.
Active(t) == MayPrompt(t) \/ turn[t].pc = "flushing"
Owned(t)  == Active(t) \/ turn[t].pc = "claimed"

\* spent: what its model calls have cost; tally: what those cost that reached turn_end;
\* hidden: what the session's statistics have lost since the prompt began.
NewTurn == [pc |-> "new", session |-> None, object |-> 0, abort |-> FALSE,
            stopping |-> FALSE, unheard |-> FALSE, stopped |-> FALSE, asking |-> FALSE,
            spent |-> 0, tally |-> 0, hidden |-> 0, frames |-> 0]
NoRow   == [status |-> "none", epoch |-> 0]
NoStop  == [pc |-> "no", turn |-> None, awaits |-> {}]
NoTab   == [pc |-> "idle", session |-> None, run |-> None, conn |-> None,
            cursor |-> 0, shown |-> {}]

Init ==
    /\ live = [s \in Sessions |-> 0]
    /\ recency = <<>>
    /\ object = [o \in Objects |-> "none"]
    /\ pinned = {}
    /\ claim = [s \in Sessions |-> None]
    /\ handle = [s \in Sessions |-> None]
    /\ turn = [t \in Turns |-> NewTurn]
    /\ visit = {}
    /\ stop = [s \in Sessions |-> NoStop]
    /\ ledger = [t \in Turns |-> 0]
    /\ tracked = {}
    /\ row = [t \in Turns |-> NoRow]
    /\ tab = [b \in Tabs |-> NoTab]
    /\ epoch = 0

-----------------------------------------------------------------------------
(* The session registry *)

Streaming(o) == \E t \in Turns : turn[t].pc = "prompting" /\ turn[t].object = o

Built == {o \in Objects : object[o] # "none"}

CanOpen == Cardinality(Built) + Cardinality(visit)
             + Cardinality({t \in Turns : turn[t].pc = "opening"}) < MaxObjects

Touched(s) == Append(SelectSeq(recency, LAMBDA k : k # s), s)

\* Mutant: eviction goes by isStreaming alone.
BusyWhileStreaming(s, o) == Streaming(o)

Busy(s, o) == Streaming(o) \/ s \in pinned

(* evictOverCap: the least recently used sessions that are not busy, as    *)
(* many as there are over the cap; the one just opened is among them.      *)
Victims(keys, held) ==
    LET idle == {i \in DOMAIN keys : ~Busy(keys[i], held[keys[i]])}
        over == IF Len(keys) > Cap THEN Len(keys) - Cap ELSE 0
    IN  {k \in Sessions : \E i \in idle :
            keys[i] = k /\ Cardinality({j \in idle : j < i}) < over}

(* The end of getSession on a session that was not open: a new object takes *)
(* the key, whoever has taken it since.                                     *)
Opened(s, o) ==
    LET keys == Touched(s)
        held == [live EXCEPT ![s] = o]
        out  == Victims(keys, held)
    IN  /\ o = Cardinality(Built) + 1 /\ o \in Objects
        /\ live' = [k \in Sessions |-> IF k \in out THEN 0 ELSE held[k]]
        /\ recency' = SelectSeq(keys, LAMBDA k : k \notin out)
        /\ object' = [x \in Objects |->
                        IF \E k \in out : held[k] = x THEN "disposed"
                        ELSE IF x = o THEN "open" ELSE object[x]]

(* Any other request of a tab that opens the session. *)
Visit(s) ==
    /\ live[s] = 0 /\ s \notin visit /\ CanOpen
    /\ visit' = visit \cup {s}
    /\ UNCHANGED <<registry, broker, turn, stop, money, row, tab, epoch>>

VisitOpened(s) ==
    /\ s \in visit
    /\ visit' = visit \ {s}
    /\ \E o \in Objects : Opened(s, o)
    /\ UNCHANGED <<broker, turn, stop, money, row, tab, epoch>>

-----------------------------------------------------------------------------
(* POST /sessions/:id/run *)

At(t, p) == turn' = [turn EXCEPT ![t].pc = p]

\* A request of which nothing is left in memory.
Done(pc) == [NewTurn EXCEPT !.pc = pc]

(* What a request that passes the guard takes before its first await. *)
Claims(t, s) ==
    /\ claim' = [claim EXCEPT ![s] = t]
    /\ pinned' = pinned \cup {s}

(* The guard and the claim, on the object getSession returned. *)
Admit(t, s, o) ==
    LET free == ~Streaming(o) /\ claim[s] = None
                /\ handle[s] \notin {u \in Turns : Active(u)}
    IN  \/ /\ free
           /\ turn' = [turn EXCEPT ![t] = [@ EXCEPT !.pc = "claimed", !.session = s, !.object = o]]
           /\ Claims(t, s)
        \/ /\ ~free
           /\ turn' = [turn EXCEPT ![t] = Done("refused")]
           /\ UNCHANGED <<claim, pinned>>

Post(t, s) ==
    /\ turn[t].pc = "new" /\ \A u \in Turns : u < t => turn[u].pc # "new"
    /\ \/ /\ live[s] # 0
          /\ recency' = Touched(s)
          /\ Admit(t, s, live[s])
       \/ /\ live[s] = 0 /\ CanOpen
          /\ turn' = [turn EXCEPT ![t] = [@ EXCEPT !.pc = "opening", !.session = s]]
          /\ UNCHANGED <<recency, claim, pinned>>
    /\ UNCHANGED <<live, object, handle, visit, stop, money, row, tab, epoch>>

PostOpened(t) ==
    LET s == turn[t].session
    IN  /\ turn[t].pc = "opening"
        /\ \E o \in Objects : Opened(s, o) /\ Admit(t, s, o)
        /\ UNCHANGED <<handle, visit, stop, money, row, tab, epoch>>

\* Mutant: the pin is taken back, the claim is left.
ReleasesPinOnly(s) ==
    /\ pinned' = pinned \ {s}
    /\ UNCHANGED claim

(* What every way out of a request takes back. *)
Release(s) ==
    /\ claim' = [claim EXCEPT ![s] = None]
    /\ pinned' = pinned \ {s}

(* The binding or the model's authentication is refused. *)
PreflightFails(t) ==
    /\ turn[t].pc = "claimed"
    /\ turn' = [turn EXCEPT ![t] = Done("refused")]
    /\ Release(turn[t].session)
    /\ UNCHANGED <<registry, handle, visit, stop, money, row, tab, epoch>>

(* What is left of a turn that is over: its frames. *)
Over(frames) == [Done("ended") EXCEPT !.frames = frames]

(* broker.start, run_start and registerChatTurnRun; the last one may throw. *)
Begin(t) ==
    LET s == turn[t].session
    IN  /\ turn[t].pc = "claimed"
        /\ handle' = [handle EXCEPT ![s] = t]
        /\ \/ /\ turn' = [turn EXCEPT ![t] = [@ EXCEPT !.pc = "preparing", !.frames = 1]]
              /\ row' = [row EXCEPT ![t] = [status |-> "running", epoch |-> epoch]]
              /\ UNCHANGED <<claim, pinned>>
           \/ /\ turn' = [turn EXCEPT ![t] = Over(2)]
              /\ Release(s)
              /\ UNCHANGED row
        /\ UNCHANGED <<registry, visit, stop, money, tab, epoch>>

(* finishRun: the terminal row of a row that is still running. *)
Finished(r, status) == IF r.status = "running" THEN [r EXCEPT !.status = status] ELSE r

(* The terminal frames, complete() and cleanup(), in one go.  The terminal  *)
(* row may fail to be written; nothing writes it again.                     *)
Conclude(t, status) ==
    /\ turn' = [turn EXCEPT ![t] = Over(turn[t].frames + 1)]
    /\ \/ row' = [row EXCEPT ![t] =
                     Finished(@, IF turn[t].abort THEN "cancelled" ELSE status)]
       \/ Troubles < MaxTroubles /\ UNCHANGED row
    /\ tracked' = tracked \ {t}
    /\ Release(turn[t].session)
    /\ UNCHANGED <<registry, handle, visit, stop, tab, epoch>>

(* setModel fails. *)
PrepareFails(t) ==
    /\ turn[t].pc = "preparing"
    /\ Conclude(t, "failed")
    /\ UNCHANGED ledger

-----------------------------------------------------------------------------
(* The detached owner *)

(* What a live run reports: how far its session's statistics, which are     *)
(* computed from the messages in context, have grown since its prompt.      *)
Report(t) == IF turn[t].spent > turn[t].hidden THEN turn[t].spent - turn[t].hidden ELSE 0

(* What an admission counts of a turn: its ledger row and its live report. *)
Counted(t) == ledger[t] + (IF t \in tracked THEN Report(t) ELSE 0)

(* projectCostSummary: what is in the ledger, and what live runs report. *)
Committed == MapThenSumSet(Counted, Turns)

\* Mutant: the owner does not look for an abort that came during the setup.
AbortsUnseen(t) == FALSE

(* The owner's first look: an abort that came during the setup. *)
AbortSeen(t) == turn[t].abort

(* The model is set: the owner concludes at once or calls prompt(). *)
Detach(t) ==
    /\ turn[t].pc = "preparing"
    /\ \/ /\ AbortSeen(t)
          /\ Conclude(t, "completed")
          /\ UNCHANGED ledger
       \/ /\ ~AbortSeen(t) /\ Committed >= Limit
          /\ Conclude(t, "failed")
          /\ UNCHANGED ledger
       \/ /\ ~AbortSeen(t) /\ Committed < Limit
          /\ At(t, "starting")
          /\ tracked' = tracked \cup {t}
          /\ UNCHANGED <<registry, broker, visit, stop, ledger, row, tab, epoch>>

(* What prompt() awaits first is there: isStreaming flips, the agent runs. *)
AgentRuns(t) ==
    /\ turn[t].pc = "starting"
    /\ At(t, "prompting")
    /\ UNCHANGED <<registry, broker, visit, stop, money, row, tab, epoch>>

(* A model call of the prompt: it costs and its frames are published. *)
Spend(t) ==
    /\ turn[t].pc = "prompting" /\ ~turn[t].asking /\ turn[t].frames < MaxFrames
    /\ turn' = [turn EXCEPT ![t] = [@ EXCEPT !.spent = turn[t].spent + 1,
                                              !.tally = turn[t].tally + 1,
                                              !.frames = turn[t].frames + 1]]
    /\ UNCHANGED <<registry, broker, visit, stop, money, row, tab, epoch>>

(* Auto-compaction drops messages of this turn, or older ones, from the     *)
(* session's statistics.                                                    *)
Compact(t) ==
    /\ InPrompt(t) /\ ~turn[t].asking
    /\ Troubles < MaxTroubles \/ turn[t].hidden > 0
    /\ \E lost \in 1..MaxFrames - 1 :
          /\ lost > turn[t].hidden
          /\ turn' = [turn EXCEPT ![t].hidden = lost]
    /\ UNCHANGED <<registry, broker, visit, stop, money, row, tab, epoch>>

(* interview: a signal that has fired is an error, and no form is shown. *)
MayAsk(t) == ~turn[t].stopping

(* A model call that asks the user: it has cost, and has not ended. *)
Ask(t) ==
    /\ turn[t].pc = "prompting" /\ ~turn[t].asking /\ MayAsk(t) /\ turn[t].frames < MaxFrames
    /\ turn' = [turn EXCEPT ![t] = [@ EXCEPT !.asking = TRUE,
                                              !.spent = turn[t].spent + 1,
                                              !.frames = turn[t].frames + 1]]
    /\ UNCHANGED <<registry, broker, visit, stop, money, row, tab, epoch>>

(* The form is answered, dismissed or times out, and the call ends. *)
Answered(r) == [r EXCEPT !.asking = FALSE, !.tally = r.tally + 1]

Answer(t) ==
    /\ turn[t].asking
    /\ turn' = [turn EXCEPT ![t] = Answered(@)]
    /\ UNCHANGED <<registry, broker, visit, stop, money, row, tab, epoch>>

\* Mutant: the live spend is forgotten as soon as the prompt is over.
StopsTrackingEarly(t) == tracked' = tracked \ {t}

(* What happens to the live spend when the prompt is over: nothing yet. *)
AfterPrompt(t) == UNCHANGED tracked

(* prompt() returns or throws, perhaps in the middle of a model call, whose *)
(* cost then reaches no turn_end; the provenance is flushed.                *)
PromptEnds(t) ==
    /\ InPrompt(t) /\ ~turn[t].asking
    /\ \E broken \in 0..1 :
          /\ broken = 1 => turn[t].pc = "prompting" /\ turn[t].frames < MaxFrames
          /\ turn' = [turn EXCEPT ![t] = [@ EXCEPT !.pc = "flushing",
                                                    !.stopping = FALSE, !.stopped = FALSE,
                                                    !.unheard = FALSE,
                                                    !.spent = turn[t].spent + broken,
                                                    !.frames = turn[t].frames + broken]]
    /\ AfterPrompt(t)
    /\ UNCHANGED <<registry, broker, visit, stop, ledger, row, tab, epoch>>

(* snapshotMax: the growth of the statistics or the calls that ended. *)
RunCost(t) == IF turn[t].tally > Report(t) THEN turn[t].tally ELSE Report(t)

(* The ledger row, which may fail to be written, the cost frame and the end. *)
Finish(t) ==
    /\ turn[t].pc = "flushing"
    /\ ledger' = [ledger EXCEPT ![t] = RunCost(t)] \/ UNCHANGED ledger
    /\ \E status \in {"completed", "failed"} : Conclude(t, status)

-----------------------------------------------------------------------------
(* POST /sessions/:id/abort *)

(* requestAbort on the handle of the session, and its forms dismissed. *)
Flagged(s) ==
    [t \in Turns |->
       LET r == IF turn[t].asking /\ turn[t].session = s THEN Answered(turn[t]) ELSE turn[t]
       IN  IF t = handle[s] THEN [r EXCEPT !.abort = TRUE] ELSE r]

Abort(s) ==
    /\ stop[s].pc = "no" /\ handle[s] # None
    /\ Active(handle[s]) /\ ~turn[handle[s]].abort
    /\ turn' = Flagged(s)
    /\ stop' = [stop EXCEPT ![s] = [pc |-> "flagged", turn |-> handle[s], awaits |-> {}]]
    /\ UNCHANGED <<registry, broker, visit, money, row, tab, epoch>>

(* session.abort: the signal of the agent that runs on the object that is   *)
(* live now.  Before its agent runs, or on another object, the turn does    *)
(* not hear of it.  (A session that is not live is opened for it: Visit.)   *)
AbortSession(s) ==
    LET o     == live[s]
        heard == {t \in Turns : o # 0 /\ turn[t].pc = "prompting" /\ turn[t].object = o}
    IN  /\ stop[s].pc = "flagged"
        /\ stop' = [stop EXCEPT ![s] = [@ EXCEPT !.pc = "aborting", !.awaits = heard]]
        /\ turn' = [t \in Turns |->
                      IF t \in heard
                      THEN [(IF turn[t].asking THEN Answered(turn[t]) ELSE turn[t])
                               EXCEPT !.stopping = TRUE]
                      ELSE [turn[t] EXCEPT !.unheard = @ \/ (t = stop[s].turn /\ InPrompt(t))]]
        /\ recency' = IF o = 0 THEN recency ELSE Touched(s)
        /\ UNCHANGED <<live, object, broker, visit, money, row, tab, epoch>>

(* ... which returns once that agent is idle. *)
AbortReturns(s) ==
    /\ stop[s].pc = "aborting"
    /\ \A t \in stop[s].awaits : turn[t].pc # "prompting"
    /\ stop' = [stop EXCEPT ![s] = NoStop]
    /\ turn' = [turn EXCEPT ![stop[s].turn].stopped = MayPrompt(stop[s].turn)]
    /\ UNCHANGED <<registry, broker, visit, money, row, tab, epoch>>

-----------------------------------------------------------------------------
(* The broker's retention, and the tabs *)

(* The timer of a completed handle, or the limit on completed handles.  A   *)
(* tab asks for events well within the retention time.                      *)
Expire(s) ==
    /\ handle[s] # None /\ ~Active(handle[s])
    /\ \A b \in Tabs : ~(tab[b].pc = "snapshot" /\ tab[b].run = handle[s])
    /\ handle' = [handle EXCEPT ![s] = None]
    /\ UNCHANGED <<registry, claim, pinned, turn, visit, stop, money, row, tab, epoch>>

(* GET .../run/state: the frames so far become the tab's transcript.  The   *)
(* frames of a completed run are all there is, and the tab is idle again.   *)
ReadState(b, s) ==
    /\ tab[b].pc = "idle" /\ handle[s] # None /\ Active(handle[s])
    /\ tab' = [tab EXCEPT ![b] =
                 [NoTab EXCEPT !.pc = "snapshot", !.session = s, !.run = handle[s],
                               !.cursor = turn[handle[s]].frames,
                               !.shown = 1..turn[handle[s]].frames]]
    /\ UNCHANGED <<registry, broker, turn, visit, stop, money, row, epoch>>

\* Mutant: an observer gets the frames published from now on.
ResumesLive(b, t) == turn[t].frames

(* subscribe: the frames after the tab's last one are replayed. *)
ResumesAfter(b, t) == tab[b].cursor

(* GET .../run/events?after=lastSeq, from whatever turn has the handle now. *)
Connect(b) ==
    LET t == handle[tab[b].session]
    IN  /\ tab[b].pc = "snapshot"
        /\ \/ /\ t = None
              /\ tab' = [tab EXCEPT ![b] = NoTab]
           \/ /\ t # None
              /\ tab' = [tab EXCEPT ![b] = [@ EXCEPT !.pc = "reading", !.conn = t,
                                                  !.cursor = ResumesAfter(b, t)]]
        /\ UNCHANGED <<registry, broker, turn, visit, stop, money, row, epoch>>

(* applyRunFrame: the next frame of the stream is shown. *)
Receive(b) ==
    /\ tab[b].pc = "reading" /\ tab[b].cursor < turn[tab[b].conn].frames
    /\ tab' = [tab EXCEPT ![b] = [@ EXCEPT !.cursor = tab[b].cursor + 1,
                                            !.shown = tab[b].shown \cup {tab[b].cursor + 1}]]
    /\ UNCHANGED <<registry, broker, turn, visit, stop, money, row, epoch>>

(* complete() has ended the stream, and the tab has read it all. *)
ReadToTheEnd(b) ==
    /\ tab[b].pc = "reading" /\ turn[tab[b].conn].pc = "ended"
    /\ tab[b].cursor >= turn[tab[b].conn].frames

StreamEnds(b) ==
    /\ ReadToTheEnd(b)
    /\ tab' = [tab EXCEPT ![b] = NoTab]
    /\ UNCHANGED <<registry, broker, turn, visit, stop, money, row, epoch>>

-----------------------------------------------------------------------------
(* The process *)

(* The process dies with all that is in memory, and another one starts. *)
Die ==
    /\ Troubles < MaxTroubles
    /\ epoch' = epoch + 1
    /\ live' = [s \in Sessions |-> 0] /\ recency' = <<>>
    /\ object' = [o \in Objects |-> "none"]
    /\ pinned' = {} /\ visit' = {} /\ tracked' = {}
    /\ claim' = [s \in Sessions |-> None]
    /\ handle' = [s \in Sessions |-> None]
    /\ turn' = [t \in Turns |->
                  Done(IF Owned(t) \/ turn[t].pc = "opening" THEN "lost" ELSE turn[t].pc)]
    /\ stop' = [s \in Sessions |-> NoStop]
    /\ tab' = [b \in Tabs |-> NoTab]
    /\ UNCHANGED <<ledger, row>>

(* A running row of another process. *)
Orphan(r) == r.status = "running" /\ r.epoch # epoch

(* listRuns, listRunsForSession: orphans are interrupted before any answer. *)
Reconcile ==
    /\ \E t \in Turns : Orphan(row[t])
    /\ row' = [t \in Turns |-> IF Orphan(row[t])
                               THEN [row[t] EXCEPT !.status = "interrupted"] ELSE row[t]]
    /\ UNCHANGED <<registry, broker, turn, visit, stop, money, tab, epoch>>

-----------------------------------------------------------------------------

OwnerStep(t) ==
    \/ PostOpened(t) \/ PreflightFails(t) \/ Begin(t) \/ PrepareFails(t) \/ Detach(t)
    \/ AgentRuns(t) \/ Answer(t) \/ PromptEnds(t) \/ Finish(t)

Next ==
    \/ \E t \in Turns, s \in Sessions : Post(t, s)
    \/ \E t \in Turns : OwnerStep(t) \/ Spend(t) \/ Compact(t) \/ Ask(t)
    \/ \E s \in Sessions :
          Visit(s) \/ VisitOpened(s) \/ Abort(s) \/ AbortSession(s) \/ AbortReturns(s)
          \/ Expire(s)
    \/ \E b \in Tabs, s \in Sessions : ReadState(b, s)
    \/ \E b \in Tabs : Connect(b) \/ Receive(b) \/ StreamEnds(b)
    \/ Die \/ Reconcile

(* What a request awaits comes back, a prompt ends, a form is answered or   *)
(* times out, and somebody reads the runs index.                            *)
Fairness == (\A t \in Turns : WF_vars(OwnerStep(t))) /\ WF_vars(Reconcile)

Spec == Init /\ [][Next]_vars /\ Fairness

-----------------------------------------------------------------------------

TurnRecords == [pc : Points, session : Sessions \cup {None}, object : {0} \cup Objects,
                abort : BOOLEAN, stopping : BOOLEAN, unheard : BOOLEAN, stopped : BOOLEAN,
                asking : BOOLEAN, spent : 0..MaxFrames, tally : 0..MaxFrames,
                hidden : 0..MaxFrames, frames : 0..MaxFrames + 1]
StopRecords == [pc : {"no", "flagged", "aborting"}, turn : Turns \cup {None},
                awaits : SUBSET Turns]
RowRecords  == [status : {"none", "running", "completed", "failed", "cancelled", "interrupted"},
                epoch : Nat]
TabRecords  == [pc : {"idle", "snapshot", "reading"},
                session : Sessions \cup {None}, run : Turns \cup {None},
                conn : Turns \cup {None}, cursor : 0..MaxFrames + 1,
                shown : SUBSET (1..MaxFrames + 1)]

TypeOK ==
    /\ live \in [Sessions -> {0} \cup Objects]
    /\ object \in [Objects -> {"none", "open", "disposed"}]
    /\ pinned \subseteq Sessions /\ visit \subseteq Sessions
    /\ claim \in [Sessions -> Turns \cup {None}]
    /\ handle \in [Sessions -> Turns \cup {None}]
    /\ turn \in [Turns -> TurnRecords]
    /\ stop \in [Sessions -> StopRecords]
    /\ ledger \in [Turns -> 0..MaxFrames]
    /\ tracked \subseteq Turns
    /\ row \in [Turns -> RowRecords]
    /\ tab \in [Tabs -> TabRecords]
    /\ epoch \in Nat

(* A session has one turn at a time, though the guard and the prompt are    *)
(* several awaits apart and the session may be open twice.                  *)
OneTurnAtATime ==
    \A t, u \in Turns : Owned(t) /\ Owned(u) /\ turn[t].session = turn[u].session => t = u

(* An object is never disposed while a turn that claimed it goes on, in or  *)
(* out of its prompt.                                                       *)
ClaimedSessionStaysOpen ==
    [][epoch' = epoch =>
         \A o \in Objects : object[o] = "open" /\ object'[o] = "disposed"
           => \A t \in Turns : Owned(t) => turn[t].object # o]_vars

(* An admission counts what the turns of this process have spent, never     *)
(* twice, and never less unless a conversation was compacted ("so the run's *)
(* spend is never invisible to a concurrent admission", sessions.ts:1232);  *)
(* even then the row of a turn has all the calls that ended.  (A turn whose *)
(* row could not be written is not counted.)                                *)
SpendIsSeen ==
    /\ [](\A t \in Turns : InFlight(t) =>
            /\ Counted(t) <= turn[t].spent
            /\ turn[t].hidden = 0 => Counted(t) = turn[t].spent)
    /\ [][\A t \in Turns : InFlight(t) /\ ledger'[t] # ledger[t] =>
            /\ Counted(t)' \in turn[t].tally..turn[t].spent
            /\ turn[t].hidden = 0 => Counted(t)' = turn[t].spent]_vars

(* "abort is authoritative": a turn whose abort request has returned is not *)
(* prompting, unless session.abort() came after the owner's look and before *)
(* its agent ran, or met another object: the session had been opened again  *)
(* behind the turn, or evicted in the step that opened it.                  *)
AbortIsAuthoritative ==
    \A t \in Turns : turn[t].stopped /\ InPrompt(t) => turn[t].unheard

(* No form waits for an answer in a prompt that was told to stop.           *)
AbortedTurnsDoNotAsk == \A t \in Turns : ~(turn[t].stopping /\ turn[t].asking)

(* Stopping a turn stops it: it neither goes on prompting nor waits for the *)
(* user.                                                                    *)
AbortsHold == AbortIsAuthoritative /\ AbortedTurnsDoNotAsk

(* A tab that has read the stream of the turn whose state it asked for to   *)
(* its end shows every frame of it, whatever was published between the two  *)
(* requests.                                                                *)
TabsShowTheWholeTurn ==
    \A b \in Tabs : ReadToTheEnd(b) /\ tab[b].conn = tab[b].run
                      => tab[b].shown = 1..turn[tab[b].run].frames

(* The index never ends a row before its turn, and tells of no end that a   *)
(* lost turn did not have; "interrupted" is only said of a turn of another  *)
(* process, be it that its end could not be written.                        *)
RowsFollowTurns ==
    \A t \in Turns :
      /\ row[t].status \notin {"none", "running"} => turn[t].pc \in {"ended", "lost"}
      /\ turn[t].pc = "lost" => row[t].status \in {"none", "running", "interrupted"}
      /\ row[t].status = "interrupted" => row[t].epoch # epoch

(* What is read of a turn is what became of it, in a tab that was opened    *)
(* while it ran and in the index of runs.                                   *)
ReadersAreRight == TabsShowTheWholeTurn /\ RowsFollowTurns

(* Whatever fails, and if the process dies, a turn gives up its claim ("the  *)
(* tab stays permanently 409-locked", sessions.ts:1159) and its row ends; if *)
(* that row cannot be written it runs on, but not under another process.     *)
TurnsSettle ==
    \A t \in Turns : Owned(t) \/ row[t].status = "running"
      ~> /\ \A s \in Sessions : claim[s] # t
         /\ row[t].status # "running" \/ (turn[t].pc = "ended" /\ row[t].epoch = epoch)

=============================================================================
