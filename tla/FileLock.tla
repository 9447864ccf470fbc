------------------------------ MODULE FileLock ------------------------------
(***************************************************************************)
(* The cross-process lock of the backend: a lock file created with O_EXCL, *)
(* taken over from a dead owner under a second lock file, the recovery     *)
(* lock.  The protocol exists three times: project lifecycle               *)
(* (project-lifecycle-lock.ts, the one translated here), run and           *)
(* definition mutations (store.ts:752-994) and project cost admission      *)
(* (budget.ts:1164-1397).  One step is one file-system operation.          *)
(*                                                                         *)
(* A lock file holds the identity of the process life that created it (the *)
(* pid, token and inode of the code: a later life of the same process has  *)
(* others), whether its contents are written, and whether it is older than *)
(* staleMs.  Every process runs on one host.                               *)
(*                                                                         *)
(* What the modules of the run store have as well is named Lock here: the  *)
(* two stand side by side in WorkflowRunProofs.                            *)
(***************************************************************************)
EXTENDS Naturals

CONSTANTS
    Proc,           \* backend processes sharing the projects root
    MaxCrashes      \* bound: deaths of each process

VARIABLES
    main,           \* the lock file, or NoFile
    recovery,       \* the recovery lock file, or NoFile
    pc,             \* pc[p]: the next operation of process p
    seen,           \* seen[p]: the main lock p has observed
    rseen,          \* rseen[p]: the recovery lock p has observed
    again,          \* again[p]: p is in the second attempt of acquireRecoveryLock
    recovered,      \* recovered[p]: whether recoverDeadLock returns true, or throws
    life,           \* life[p]: the number of the current life of process p
    usurped         \* history: a living recoverer has lost its recovery lock

lockVars == <<main, recovery, pc, seen, rseen, again, recovered, life, usurped>>

NoFile == [proc |-> "none", life |-> 0, written |-> FALSE, old |-> FALSE]

Holding    == {"write", "critical", "release", "unlink"}
Recovering == {"rwrite", "confirm", "steal", "rrelease", "runlink"}
Results    == {"no", "yes", "thrown"}
Points     == {"idle", "create", "observe", "rcreate", "robserve", "rconfirm",
               "rsteal"} \cup Holding \cup Recovering

ASSUME FileLockAssumption ==
    /\ "none" \notin Proc
    /\ MaxCrashes \in Nat

Lock == [proc : Proc, life : 1..(MaxCrashes + 1), written : BOOLEAN, old : BOOLEAN]
File == Lock \cup {NoFile}

-----------------------------------------------------------------------------

\* Mutant: a lock file without the identity of its creator.
MyLockUnstamped(p) == [proc |-> p, life |-> 0, written |-> FALSE, old |-> FALSE]

(* What a process writes in a lock file of its own. *)
MyLock(p) == [proc |-> p, life |-> life[p], written |-> FALSE, old |-> FALSE]

(* sameLock: the same creation by the same process life. *)
SameLock(f, g) == f.proc = g.proc /\ f.life = g.life

\* Mutant: an old lock is taken whether its owner lives or not.
DeadByAgeAlone(f) == f # NoFile

(* lockOwnerMayBeAlive fails: the recorded process is gone. *)
Dead(f) == f # NoFile /\ f.life # life[f.proc]

\* Mutant: the comparison of the age with staleMs is turned around.
StaleWhileYoung(f) == f.written /\ ~f.old /\ Dead(f)

(* The test of recoverDeadLock and recoverUnprotectedLock on what they read. *)
Stale(f) == f.written /\ f.old /\ Dead(f)

\* Mutant: a lock file that is still there is taken without another look.
ConfirmsUnread(now, before) == now # NoFile

(* Confirmation: reads of the same stale lock before and after a pause. *)
Confirms(now, before) == now # NoFile /\ SameLock(now, before) /\ Stale(now)

(* readLock throws CORRUPT on a file whose owner is not written yet. *)
Malformed(f) == f # NoFile /\ ~f.written

LockInit ==
    /\ main = NoFile
    /\ recovery = NoFile
    /\ pc = [p \in Proc |-> "idle"]
    /\ seen = [p \in Proc |-> NoFile]
    /\ rseen = [p \in Proc |-> NoFile]
    /\ again = [p \in Proc |-> FALSE]
    /\ recovered = [p \in Proc |-> "no"]
    /\ life = [p \in Proc |-> 1]
    /\ usurped = FALSE

Goto(p, point) == pc' = [pc EXCEPT ![p] = point]

(* The locals of an acquisition attempt go out of scope. *)
ClearLocals(p) ==
    /\ seen' = [seen EXCEPT ![p] = NoFile]
    /\ rseen' = [rseen EXCEPT ![p] = NoFile]
    /\ again' = [again EXCEPT ![p] = FALSE]
    /\ recovered' = [recovered EXCEPT ![p] = "no"]

(* Not recovered: another turn of the loop, or the deadline and CONFLICT. *)
RetryOrGiveUp(p) ==
    /\ \E point \in {"create", "idle"} : Goto(p, point)
    /\ ClearLocals(p)

(* An exception leaves withProjectLifecycleLock. *)
Throw(p) == Goto(p, "idle") /\ ClearLocals(p)

-----------------------------------------------------------------------------

(* withProjectLifecycleLock is called. *)
RequestLock(p) ==
    /\ pc[p] = "idle"
    /\ Goto(p, "create")
    /\ UNCHANGED <<main, recovery, seen, rseen, again, recovered, life, usurped>>

(* createLock on the lock file: open with O_EXCL, EEXIST means observe. *)
Create(p) ==
    /\ pc[p] = "create"
    /\ \/ /\ main = NoFile
          /\ main' = MyLock(p)
          /\ Goto(p, "write")
       \/ /\ main # NoFile
          /\ Goto(p, "observe")
          /\ UNCHANGED main
    /\ UNCHANGED <<recovery, seen, rseen, again, recovered, life, usurped>>

(* createLock writes the owner into the file it has opened. *)
WriteOwner(p) ==
    /\ pc[p] = "write"
    /\ main' = IF SameLock(main, MyLock(p)) THEN [main EXCEPT !.written = TRUE] ELSE main
    /\ Goto(p, "critical")
    /\ UNCHANGED <<recovery, seen, rseen, again, recovered, life, usurped>>

(* The critical section returns or throws. *)
Leave(p) ==
    /\ pc[p] = "critical"
    /\ Goto(p, "release")
    /\ UNCHANGED <<main, recovery, seen, rseen, again, recovered, life, usurped>>

(* releaseLock reads the file; another owner's file is CORRUPT and is left. *)
Release(p) ==
    /\ pc[p] = "release"
    /\ \/ main.written /\ SameLock(main, MyLock(p)) /\ Goto(p, "unlink")
       \/ ~(main.written /\ SameLock(main, MyLock(p))) /\ Goto(p, "idle")
    /\ UNCHANGED <<main, recovery, seen, rseen, again, recovered, life, usurped>>

(* ... and unlinks whatever now has its name. *)
Unlink(p) ==
    /\ pc[p] = "unlink"
    /\ main' = NoFile
    /\ Goto(p, "idle")
    /\ UNCHANGED <<recovery, seen, rseen, again, recovered, life, usurped>>

(* The lock file existed: read its owner, recover a stale one. *)
Observe(p) ==
    /\ pc[p] = "observe"
    /\ \/ main = NoFile /\ Goto(p, "create") /\ ClearLocals(p)
       \/ Malformed(main) /\ Throw(p)
       \/ /\ main # NoFile /\ main.written /\ ~Stale(main)
          /\ RetryOrGiveUp(p)
       \/ /\ Stale(main)
          /\ seen' = [seen EXCEPT ![p] = main]
          /\ Goto(p, "rcreate")
          /\ UNCHANGED <<rseen, again, recovered>>
    /\ UNCHANGED <<main, recovery, life, usurped>>

(* createLock on the recovery file. *)
CreateRecovery(p) ==
    /\ pc[p] = "rcreate"
    /\ \/ /\ recovery = NoFile
          /\ recovery' = MyLock(p)
          /\ Goto(p, "rwrite")
       \/ /\ recovery # NoFile
          /\ Goto(p, "robserve")
          /\ UNCHANGED recovery
    /\ UNCHANGED <<main, seen, rseen, again, recovered, life, usurped>>

WriteRecoveryOwner(p) ==
    /\ pc[p] = "rwrite"
    /\ recovery' = IF SameLock(recovery, MyLock(p))
                     THEN [recovery EXCEPT !.written = TRUE] ELSE recovery
    /\ Goto(p, "confirm")
    /\ UNCHANGED <<main, seen, rseen, again, recovered, life, usurped>>

(* acquireRecoveryLock reads the recovery file that stood in its way. *)
ObserveRecovery(p) ==
    /\ pc[p] = "robserve"
    /\ \/ Malformed(recovery) /\ Throw(p)
       \/ ~Malformed(recovery) /\ ~Stale(recovery) /\ RetryOrGiveUp(p)
       \/ /\ Stale(recovery)
          /\ rseen' = [rseen EXCEPT ![p] = recovery]
          /\ Goto(p, "rconfirm")
          /\ UNCHANGED <<seen, again, recovered>>
    /\ UNCHANGED <<main, recovery, life, usurped>>

(* recoverUnprotectedLock reads it again ... *)
ConfirmRecovery(p) ==
    /\ pc[p] = "rconfirm"
    /\ \/ Malformed(recovery) /\ Throw(p)
       \/ /\ ~Malformed(recovery) /\ ~Confirms(recovery, rseen[p])
          /\ RetryOrGiveUp(p)
       \/ /\ Confirms(recovery, rseen[p])
          /\ Goto(p, "rsteal")
          /\ UNCHANGED <<seen, rseen, again, recovered>>
    /\ UNCHANGED <<main, recovery, life, usurped>>

(* ... and unlinks whatever now has its name, be it the file of a recoverer *)
(* that lives; two attempts at most.                                        *)
StealRecovery(p) ==
    /\ pc[p] = "rsteal"
    /\ recovery' = NoFile
    /\ usurped' = (usurped \/ ( /\ recovery # NoFile /\ ~Dead(recovery)
                                /\ ~SameLock(recovery, rseen[p])))
    /\ \/ /\ recovery = NoFile \/ again[p]
          /\ RetryOrGiveUp(p)
       \/ /\ recovery # NoFile /\ ~again[p]
          /\ Goto(p, "rcreate")
          /\ again' = [again EXCEPT ![p] = TRUE]
          /\ rseen' = [rseen EXCEPT ![p] = NoFile]
          /\ UNCHANGED <<seen, recovered>>
    /\ UNCHANGED <<main, life>>

(* recoverDeadLock reads the lock file again, holding the recovery lock ... *)
Confirm(p) ==
    /\ pc[p] = "confirm"
    /\ \/ Confirms(main, seen[p]) /\ Goto(p, "steal") /\ UNCHANGED recovered
       \/ /\ ~Confirms(main, seen[p])
          /\ Goto(p, "rrelease")
          /\ recovered' = [recovered EXCEPT ![p] = IF Malformed(main) THEN "thrown" ELSE "no"]
    /\ UNCHANGED <<main, recovery, seen, rseen, again, life, usurped>>

(* ... and unlinks it (ENOENT is thrown, the recovery lock released). *)
Steal(p) ==
    /\ pc[p] = "steal"
    /\ main' = NoFile
    /\ recovered' = [recovered EXCEPT ![p] = IF main = NoFile THEN "thrown" ELSE "yes"]
    /\ Goto(p, "rrelease")
    /\ UNCHANGED <<recovery, seen, rseen, again, life, usurped>>

ReleaseRecovery(p) ==
    /\ pc[p] = "rrelease"
    /\ \/ /\ recovery.written /\ SameLock(recovery, MyLock(p))
          /\ Goto(p, "runlink")
          /\ UNCHANGED <<seen, rseen, again, recovered>>
       \/ /\ ~(recovery.written /\ SameLock(recovery, MyLock(p)))
          /\ Throw(p)
    /\ UNCHANGED <<main, recovery, life, usurped>>

UnlinkRecovery(p) ==
    /\ pc[p] = "runlink"
    /\ recovery' = NoFile
    /\ \/ recovered[p] = "yes" /\ recovery # NoFile /\ Goto(p, "create") /\ ClearLocals(p)
       \/ recovered[p] = "no" /\ recovery # NoFile /\ RetryOrGiveUp(p)
       \/ (recovered[p] = "thrown" \/ recovery = NoFile) /\ Throw(p)
    /\ UNCHANGED <<main, life, usurped>>

(* The files outlive staleMs. *)
Age ==
    /\ \/ /\ main # NoFile /\ ~main.old
          /\ main' = [main EXCEPT !.old = TRUE]
          /\ UNCHANGED recovery
       \/ /\ recovery # NoFile /\ ~recovery.old
          /\ recovery' = [recovery EXCEPT !.old = TRUE]
          /\ UNCHANGED main
    /\ UNCHANGED <<pc, seen, rseen, again, recovered, life, usurped>>

(* The process dies anywhere, leaving its files; a new one has another pid. *)
Death(p) ==
    /\ life[p] <= MaxCrashes
    /\ life' = [life EXCEPT ![p] = @ + 1]
    /\ Goto(p, "idle")
    /\ ClearLocals(p)
    /\ UNCHANGED <<main, recovery, usurped>>

Step(p) ==
    \/ Create(p) \/ WriteOwner(p) \/ Leave(p) \/ Release(p) \/ Unlink(p)
    \/ Observe(p) \/ CreateRecovery(p) \/ WriteRecoveryOwner(p)
    \/ ObserveRecovery(p) \/ ConfirmRecovery(p) \/ StealRecovery(p)
    \/ Confirm(p) \/ Steal(p) \/ ReleaseRecovery(p) \/ UnlinkRecovery(p)

LockNext ==
    \/ \E p \in Proc : RequestLock(p) \/ Step(p) \/ Death(p)
    \/ Age

LockSpec == LockInit /\ [][LockNext]_lockVars

(* A process keeps calling, runs its synchronous code to the end, and files grow old. *)
LockFairness ==
    /\ \A p \in Proc : WF_lockVars(RequestLock(p)) /\ WF_lockVars(Step(p))
    /\ WF_lockVars(Age)

LockFairSpec == LockSpec /\ LockFairness

-----------------------------------------------------------------------------

(* Every variable of the lock protocol keeps its type. *)
LockTypeOK ==
    /\ main \in File
    /\ recovery \in File
    /\ pc \in [Proc -> Points]
    /\ seen \in [Proc -> File]
    /\ rseen \in [Proc -> File]
    /\ again \in [Proc -> BOOLEAN]
    /\ recovered \in [Proc -> Results]
    /\ life \in [Proc -> 1..(MaxCrashes + 1)]
    /\ usurped \in BOOLEAN

(* withProjectLifecycleLock is exclusion: of all processes, at most one is  *)
(* in its critical section, whoever died, in a recovery too, and whoever    *)
(* recovered.  The one way to lose it is the unlink of StealRecovery that   *)
(* meets the recovery lock of a living process: two processes have found    *)
(* the same dead recoverer, and the slower one removes the faster one's     *)
(* lock (recoverUnprotectedLock, whose read and unlink are two calls).      *)
ExclusionUntilUsurped ==
    ~usurped => \A p, q \in Proc : pc[p] = "critical" /\ pc[q] = "critical" => p = q

(* recoverDeadLock never takes a lock from a living owner: but for the same *)
(* race, a lock file leaves only by its owner's release or after its        *)
(* owner's death.                                                           *)
LivingOwnerKeepsLock ==
    [][~usurped => \A p \in Proc :
         main.proc = p /\ main.life = life[p] /\ main' = NoFile
           => pc[p] = "unlink" /\ pc'[p] = "idle"]_lockVars

(* A recovery file whose owner died before it wrote it: malformed to every  *)
(* reader, and never recovered.                                             *)
RecoveryIsBlocked == recovery # NoFile /\ ~recovery.written /\ Dead(recovery)

(* A lock whose owner died is recovered by the processes that keep asking,  *)
(* also if recoverers die on the way, as long as the dead lived to write    *)
(* the record of their file: an empty one is malformed to every reader.     *)
DeadOwnersAreRecovered ==
    (main.written /\ Dead(main)) ~> (~(main.written /\ Dead(main)) \/ RecoveryIsBlocked)

=============================================================================
