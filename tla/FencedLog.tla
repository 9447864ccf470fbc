------------------------------ MODULE FencedLog ------------------------------
(***************************************************************************)
(* What the run store promises to whoever reads a run's history: an        *)
(* append-only log written in tenures.  A tenure is granted to one owner   *)
(* at a time; while it is open only the owner writes, and when it is over  *)
(* the owner never writes again, whoever writes instead.  The first final  *)
(* event ends the log.  WorkflowRun implements this specification with a   *)
(* lease file, fences and a clock (workflows/store.ts).                    *)
(***************************************************************************)
EXTENDS Naturals, Sequences

CONSTANTS Types, Final

VARIABLES
  log,     \* the events, oldest first
  epoch,   \* number of the latest tenure
  open     \* is that tenure still open?

vars == <<log, epoch, open>>

Ended == log # <<>> /\ log[Len(log)].type \in Final

Write(by) ==
  /\ ~Ended
  /\ \E t \in Types : log' = Append(log, [type |-> t, by |-> by, epoch |-> epoch])
  /\ UNCHANGED <<epoch, open>>

Init == log = <<>> /\ epoch = 0 /\ open = FALSE

Grant ==
  /\ ~open
  /\ epoch' = epoch + 1 /\ open' = TRUE
  /\ UNCHANGED log

OwnerWrites   == open /\ Write("owner")
OutsiderWrites == ~open /\ Write("nobody")

\* Released by the owner, or expired.
Close == open /\ open' = FALSE /\ UNCHANGED <<log, epoch>>

Next == Grant \/ OwnerWrites \/ OutsiderWrites \/ Close

Spec == Init /\ [][Next]_vars

-----------------------------------------------------------------------------
\* Tenures follow one another, and within a tenure nothing of the owner comes
\* after a write without a claim.
Contiguous ==
  \A i, j \in 1..Len(log) :
    i < j => /\ log[i].epoch <= log[j].epoch
             /\ log[i].epoch = log[j].epoch /\ log[i].by = "nobody"
                  => log[j].by = "nobody"

\* A final event is the last event.
FinalIsLast ==
  \A i \in 1..Len(log) : log[i].type \in Final => i = Len(log)

=============================================================================
