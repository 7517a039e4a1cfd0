----------------------------- MODULE JournalLock -----------------------------
(***************************************************************************)
(* The cross-process lock file that guards one operation's journal         *)
(* (operations/journal.ts: acquireLock, readLock, quarantineAbandonedLock, *)
(* tryAcquireRecoveryGuard, releaseLock).                                  *)
(*                                                                         *)
(* A lock is a file created with O_EXCL and then written, so between the   *)
(* two it exists and is empty.  A contender reads the record, and if the   *)
(* process that wrote it is dead on the same host, elects itself reclaimer *)
(* by creating the guard file lockPath.reclaim the same way, reads the     *)
(* record again, and moves the lock aside.  Each read, create, write,      *)
(* rename and unlink is a step of its own.                                 *)
(*                                                                         *)
(* A process is a pid on a host; a restarted process reuses the pid.  An   *)
(* attempt to take the lock has a token of its own (the random UUID),      *)
(* modelled as the pid and a count of its attempts.  Within a process      *)
(* attempts on one path are queued (serializeInProcess), so a process has  *)
(* at most one.                                                            *)
(***************************************************************************)
EXTENDS Integers, FiniteSets

CONSTANTS
    Process,        \* pids that use the journal
    NoProcess,
    HostOf,         \* the host each pid runs on
    MaxWaits,       \* the retry budget, lockTimeoutMs / LOCK_RETRY_MS
    MaxAttempts,    \* bound: attempts of one process
    MaxCrashes,     \* bound: crashes in a behaviour
    MaxRestarts,    \* bound: restarts in a behaviour
    MaxFaults       \* bound: failed writes in a behaviour

ASSUME NoProcessAssumption == NoProcess \notin Process
ASSUME BoundsAssumption ==
    /\ MaxWaits \in Nat
    /\ MaxAttempts \in Nat /\ MaxCrashes \in Nat
    /\ MaxRestarts \in Nat /\ MaxFaults \in Nat

VARIABLES
    lock,           \* the file at lockPath
    guard,          \* the file at lockPath.reclaim
    quarantine,     \* the file each reclaimer moved aside
    pc,             \* where each process is
    attempt,        \* attempts each process has begun
    seen,           \* the token the process read as expectedToken
    waits,          \* the retry budget left
    after,          \* where the process goes once it has dropped the guard
    outcome,        \* how the last attempt of each process ended
    crashes, restarts, faults

lockVars == <<lock, guard, quarantine, pc, attempt, seen, waits, after,
              outcome, crashes, restarts, faults>>

-----------------------------------------------------------------------------
NoToken == <<NoProcess, 0>>
Tokens == (Process \X Nat) \cup {NoToken}
Files == [token : Tokens, written : BOOLEAN]
NoFile == [token |-> NoToken, written |-> FALSE]
Created(t) == [token |-> t, written |-> FALSE]
Written(t) == [token |-> t, written |-> TRUE]

MyToken(p) == <<p, attempt[p]>>
OwnerOf(t) == t[1]

Outcomes == {"none", "released", "timeout", "lock_corrupt", "lock_changed",
             "lock_lost", "recovery_abandoned", "cleanup_failed", "io_error"}

\* Holding the lock file from its creation to its removal.
CreatingPcs == {"write", "cleanup", "cleanup_unlink"}
CriticalPcs == {"critical", "release", "unlink"}
OwningPcs == CreatingPcs \cup CriticalPcs
\* Holding the recovery guard.
GuardedPcs == {"guard_write", "guard_cleanup", "reread", "rename", "verify",
               "guard_release", "guard_unlink"}
Pcs == OwningPcs \cup GuardedPcs \cup
       {"idle", "dead", "open", "inspect", "pause", "guard", "guard_inspect"}

Alive(p) == pc[p] # "dead"

\* process.kill(pid, 0): only a process of the same host can be seen.
ProcessExists(p, q) == HostOf[p] = HostOf[q] /\ Alive(q)

\* Mutant of Abandoned: a process that may not be signalled (EPERM) is taken for dead.
AbandonedUnlessSignalled(p, t) == HostOf[p] = HostOf[OwnerOf(t)] /\ OwnerOf(t) # p

\* Mutant of Abandoned: the pid in the record is always believed alive.
NeverAbandoned(p, t) == OwnerOf(t) = NoProcess

\* What p concludes of a record it has read.
Abandoned(p, t) ==
    HostOf[p] = HostOf[OwnerOf(t)] /\ ~ProcessExists(p, OwnerOf(t))

Goto(p, l) == pc' = [pc EXCEPT ![p] = l]
EndWith(p, o) == Goto(p, "idle") /\ outcome' = [outcome EXCEPT ![p] = o]

-----------------------------------------------------------------------------
LockInit ==
    /\ lock = NoFile
    /\ guard = NoFile
    /\ quarantine = [p \in Process |-> NoFile]
    /\ pc = [p \in Process |-> "idle"]
    /\ attempt = [p \in Process |-> 0]
    /\ seen = [p \in Process |-> NoToken]
    /\ waits = [p \in Process |-> 0]
    /\ after = [p \in Process |-> "idle"]
    /\ outcome = [p \in Process |-> "none"]
    /\ crashes = 0 /\ restarts = 0 /\ faults = 0

(* acquireLock *)

Begin(p) ==
    /\ pc[p] = "idle"
    /\ attempt[p] < MaxAttempts
    /\ Goto(p, "open")
    /\ attempt' = [attempt EXCEPT ![p] = @ + 1]
    /\ waits' = [waits EXCEPT ![p] = MaxWaits]
    /\ UNCHANGED <<lock, guard, quarantine, seen, after, outcome, crashes,
                   restarts, faults>>

\* open(lockPath, O_CREAT | O_EXCL)
Open(p) ==
    /\ pc[p] = "open"
    /\ \/ lock = NoFile /\ lock' = Created(MyToken(p)) /\ Goto(p, "write")
       \/ lock # NoFile /\ lock' = lock /\ Goto(p, "inspect")
    /\ UNCHANGED <<guard, quarantine, attempt, seen, waits, after, outcome,
                   crashes, restarts, faults>>

\* writeFile, sync: the inode written is the one created, wherever it is now.
Write(p) ==
    /\ pc[p] = "write"
    /\ lock' = IF lock.token = MyToken(p) THEN Written(MyToken(p)) ELSE lock
    /\ Goto(p, "critical")
    /\ UNCHANGED <<guard, quarantine, attempt, seen, waits, after, outcome,
                   crashes, restarts, faults>>

WriteFails(p) ==
    /\ pc[p] = "write"
    /\ faults < MaxFaults
    /\ faults' = faults + 1
    /\ Goto(p, "cleanup")
    /\ UNCHANGED <<lock, guard, quarantine, attempt, seen, waits, after,
                   outcome, crashes, restarts>>

\* removeFailedExclusiveLock: compare the inode, then unlink the path.
Cleanup(p) ==
    /\ pc[p] = "cleanup"
    /\ \/ lock = NoFile /\ EndWith(p, "io_error")
       \/ /\ lock # NoFile /\ lock.token # MyToken(p)
          /\ EndWith(p, "cleanup_failed")
       \/ /\ lock.token = MyToken(p)
          /\ Goto(p, "cleanup_unlink") /\ outcome' = outcome
    /\ UNCHANGED <<lock, guard, quarantine, attempt, seen, waits, after,
                   crashes, restarts, faults>>

CleanupUnlink(p) ==
    /\ pc[p] = "cleanup_unlink"
    /\ lock' = NoFile
    /\ EndWith(p, "io_error")
    /\ UNCHANGED <<guard, quarantine, attempt, seen, waits, after, crashes,
                   restarts, faults>>

\* readLock and what the contender makes of it.
Inspect(p) ==
    /\ pc[p] = "inspect"
    /\ \/ /\ lock = NoFile
          /\ Goto(p, "open") /\ UNCHANGED <<seen, outcome>>
       \/ /\ lock # NoFile /\ ~lock.written
          /\ EndWith(p, "lock_corrupt") /\ seen' = seen
       \/ /\ lock.written /\ Abandoned(p, lock.token)
          /\ Goto(p, "guard") /\ outcome' = outcome
          /\ seen' = [seen EXCEPT ![p] = lock.token]
       \/ /\ lock.written /\ ~Abandoned(p, lock.token)
          /\ Goto(p, "pause") /\ UNCHANGED <<seen, outcome>>
    /\ UNCHANGED <<lock, guard, quarantine, attempt, waits, after, crashes,
                   restarts, faults>>

\* Mutant of Retry: the wait is not charged to the budget.
RetryForever(p) ==
    /\ pc[p] = "pause"
    /\ Goto(p, "open")
    /\ UNCHANGED <<lock, guard, quarantine, attempt, seen, waits, after,
                   outcome, crashes, restarts, faults>>

\* One LOCK_RETRY_MS sleep, charged to the retry budget.
Retry(p) ==
    /\ pc[p] = "pause"
    /\ waits[p] > 0
    /\ waits' = [waits EXCEPT ![p] = @ - 1]
    /\ Goto(p, "open")
    /\ UNCHANGED <<lock, guard, quarantine, attempt, seen, after, outcome,
                   crashes, restarts, faults>>

\* The budget is spent, or the wall clock has passed the deadline before that.
Timeout(p) ==
    /\ pc[p] = "pause"
    /\ EndWith(p, "timeout")
    /\ UNCHANGED <<lock, guard, quarantine, attempt, seen, waits, after,
                   crashes, restarts, faults>>

(* tryAcquireRecoveryGuard *)

GuardOpen(p) ==
    /\ pc[p] = "guard"
    /\ \/ guard = NoFile /\ guard' = Created(MyToken(p)) /\ Goto(p, "guard_write")
       \/ guard # NoFile /\ guard' = guard /\ Goto(p, "guard_inspect")
    /\ UNCHANGED <<lock, quarantine, attempt, seen, waits, after, outcome,
                   crashes, restarts, faults>>

GuardWrite(p) ==
    /\ pc[p] = "guard_write"
    /\ guard' = IF guard.token = MyToken(p) THEN Written(MyToken(p)) ELSE guard
    /\ Goto(p, "reread")
    /\ UNCHANGED <<lock, quarantine, attempt, seen, waits, after, outcome,
                   crashes, restarts, faults>>

GuardWriteFails(p) ==
    /\ pc[p] = "guard_write"
    /\ faults < MaxFaults
    /\ faults' = faults + 1
    /\ Goto(p, "guard_cleanup")
    /\ UNCHANGED <<lock, guard, quarantine, attempt, seen, waits, after,
                   outcome, crashes, restarts>>

GuardCleanup(p) ==
    /\ pc[p] = "guard_cleanup"
    /\ \/ guard = NoFile /\ EndWith(p, "io_error") /\ UNCHANGED <<guard, after>>
       \/ /\ guard # NoFile /\ guard.token # MyToken(p)
          /\ EndWith(p, "cleanup_failed") /\ UNCHANGED <<guard, after>>
       \/ /\ guard.token = MyToken(p)
          /\ Goto(p, "guard_unlink")
          /\ after' = [after EXCEPT ![p] = "idle"]
          /\ outcome' = [outcome EXCEPT ![p] = "io_error"]
          /\ guard' = guard
    /\ UNCHANGED <<lock, quarantine, attempt, seen, waits, crashes, restarts,
                   faults>>

\* The guard is taken: wait for its owner, or give up if the owner is dead.
GuardInspect(p) ==
    /\ pc[p] = "guard_inspect"
    /\ \/ guard = NoFile /\ Goto(p, "pause") /\ outcome' = outcome
       \/ guard # NoFile /\ ~guard.written /\ EndWith(p, "lock_corrupt")
       \/ /\ guard.written /\ Abandoned(p, guard.token)
          /\ EndWith(p, "recovery_abandoned")
       \/ /\ guard.written /\ ~Abandoned(p, guard.token)
          /\ Goto(p, "pause") /\ outcome' = outcome
    /\ UNCHANGED <<lock, guard, quarantine, attempt, seen, waits, after,
                   crashes, restarts, faults>>

(* quarantineAbandonedLock, under the guard *)

DropGuardTo(p, l) ==
    Goto(p, "guard_release") /\ after' = [after EXCEPT ![p] = l]

\* Mutant of Reread: the reclaimer trusts what it read before it had the guard.
RereadSkipped(p) ==
    /\ pc[p] = "reread"
    /\ Goto(p, "rename")
    /\ UNCHANGED <<lock, guard, quarantine, attempt, seen, waits, after,
                   outcome, crashes, restarts, faults>>

Reread(p) ==
    /\ pc[p] = "reread"
    /\ \/ lock = NoFile /\ DropGuardTo(p, "pause") /\ outcome' = outcome
       \/ /\ lock # NoFile /\ ~lock.written
          /\ DropGuardTo(p, "idle")
          /\ outcome' = [outcome EXCEPT ![p] = "lock_corrupt"]
       \/ /\ lock.written
          /\ lock.token # seen[p] \/ ~Abandoned(p, lock.token)
          /\ DropGuardTo(p, "pause") /\ outcome' = outcome
       \/ /\ lock.written
          /\ lock.token = seen[p] /\ Abandoned(p, lock.token)
          /\ Goto(p, "rename") /\ UNCHANGED <<after, outcome>>
    /\ UNCHANGED <<lock, guard, quarantine, attempt, seen, waits, crashes,
                   restarts, faults>>

\* rename(lockPath, quarantinePath): moves whatever is at the path now.
Rename(p) ==
    /\ pc[p] = "rename"
    /\ \/ lock = NoFile /\ DropGuardTo(p, "pause") /\ UNCHANGED <<lock, quarantine>>
       \/ /\ lock # NoFile
          /\ quarantine' = [quarantine EXCEPT ![p] = lock]
          /\ lock' = NoFile
          /\ Goto(p, "verify") /\ after' = after
    /\ UNCHANGED <<guard, attempt, seen, waits, outcome, crashes, restarts,
                   faults>>

\* The quarantined record is deleted, or kept for diagnosis if it is another's.
Verify(p) ==
    /\ pc[p] = "verify"
    /\ \/ /\ quarantine[p].token = seen[p]
          /\ quarantine' = [quarantine EXCEPT ![p] = NoFile]
          /\ DropGuardTo(p, "open") /\ outcome' = outcome
       \/ /\ quarantine[p].token # seen[p]
          /\ quarantine' = quarantine
          /\ DropGuardTo(p, "idle")
          /\ outcome' = [outcome EXCEPT ![p] = IF quarantine[p].written
                                               THEN "lock_changed" ELSE "lock_corrupt"]
    /\ UNCHANGED <<lock, guard, attempt, seen, waits, crashes, restarts, faults>>

\* releaseLock(guard): compare the token, then unlink the path.
GuardRelease(p) ==
    /\ pc[p] = "guard_release"
    /\ \/ guard = NoFile /\ Goto(p, after[p]) /\ outcome' = outcome
       \/ /\ guard # NoFile /\ guard.token # MyToken(p)
          /\ EndWith(p, IF guard.written THEN "lock_lost" ELSE "lock_corrupt")
       \/ /\ guard.token = MyToken(p)
          /\ Goto(p, "guard_unlink") /\ outcome' = outcome
    /\ UNCHANGED <<lock, guard, quarantine, attempt, seen, waits, after,
                   crashes, restarts, faults>>

GuardUnlink(p) ==
    /\ pc[p] = "guard_unlink"
    /\ guard' = NoFile
    /\ Goto(p, after[p])
    /\ UNCHANGED <<lock, quarantine, attempt, seen, waits, after, outcome,
                   crashes, restarts, faults>>

(* The critical section and releaseLock(lock) *)

Finish(p) ==
    /\ pc[p] = "critical"
    /\ Goto(p, "release")
    /\ UNCHANGED <<lock, guard, quarantine, attempt, seen, waits, after,
                   outcome, crashes, restarts, faults>>

Release(p) ==
    /\ pc[p] = "release"
    /\ \/ lock = NoFile /\ EndWith(p, "released")
       \/ /\ lock # NoFile /\ lock.token # MyToken(p)
          /\ EndWith(p, IF lock.written THEN "lock_lost" ELSE "lock_corrupt")
       \/ lock.token = MyToken(p) /\ Goto(p, "unlink") /\ outcome' = outcome
    /\ UNCHANGED <<lock, guard, quarantine, attempt, seen, waits, after,
                   crashes, restarts, faults>>

Unlink(p) ==
    /\ pc[p] = "unlink"
    /\ lock' = NoFile
    /\ EndWith(p, "released")
    /\ UNCHANGED <<guard, quarantine, attempt, seen, waits, after, crashes,
                   restarts, faults>>

(* The process dies anywhere, leaving its files; its pid may be used again. *)

Crash(p) ==
    /\ Alive(p)
    /\ crashes < MaxCrashes
    /\ crashes' = crashes + 1
    /\ Goto(p, "dead")
    /\ UNCHANGED <<lock, guard, quarantine, attempt, seen, waits, after,
                   outcome, restarts, faults>>

Restart(p) ==
    /\ pc[p] = "dead"
    /\ restarts < MaxRestarts
    /\ restarts' = restarts + 1
    /\ Goto(p, "idle")
    /\ UNCHANGED <<lock, guard, quarantine, attempt, seen, waits, after,
                   outcome, crashes, faults>>

-----------------------------------------------------------------------------
\* The steps of an attempt once begun.  Finish is left out: how long the holder
\* keeps the lock is not the lock's to promise.
AttemptStep(p) ==
    \/ Open(p) \/ Write(p) \/ Cleanup(p) \/ CleanupUnlink(p) \/ Inspect(p)
    \/ Retry(p) \/ Timeout(p)
    \/ GuardOpen(p) \/ GuardWrite(p) \/ GuardCleanup(p) \/ GuardInspect(p)
    \/ Reread(p) \/ Rename(p) \/ Verify(p) \/ GuardRelease(p) \/ GuardUnlink(p)
    \/ Release(p) \/ Unlink(p)

Environment(p) ==
    \/ Begin(p) \/ Finish(p) \/ WriteFails(p) \/ GuardWriteFails(p)
    \/ Crash(p) \/ Restart(p)

LockNext == \E p \in Process : AttemptStep(p) \/ Environment(p)

LockSpec == LockInit /\ [][LockNext]_lockVars

\* A live process runs its own code; it may hold the lock forever and need not
\* begin an attempt.
FairLockSpec == LockSpec /\ \A p \in Process : WF_lockVars(AttemptStep(p))

-----------------------------------------------------------------------------
(* Properties *)

TypeOK ==
    /\ lock \in Files /\ guard \in Files
    /\ quarantine \in [Process -> Files]
    /\ pc \in [Process -> Pcs]
    /\ attempt \in [Process -> Nat]
    /\ seen \in [Process -> Tokens]
    /\ waits \in [Process -> Nat]
    /\ after \in [Process -> {"idle", "pause", "open"}]
    /\ outcome \in [Process -> Outcomes]
    /\ crashes \in Nat /\ restarts \in Nat /\ faults \in Nat

\* No two processes are inside the journal of one operation, whichever of them
\* crash, restart under the same pid or reclaim (the comment above
\* quarantineAbandonedLock: "never authorising overlapping journal writers").
MutualExclusion ==
    \A p, q \in Process :
        pc[p] \in CriticalPcs /\ pc[q] \in CriticalPcs => p = q

\* A process between creating the lock and removing it finds its own file at the
\* path: no reclaimer ever takes a live process's lock, so releaseLock never
\* removes another's and never reports journal_lock_lost.
HolderOwnsLock ==
    \A p \in Process :
        /\ pc[p] \in OwningPcs => lock.token = MyToken(p)
        /\ pc[p] \in CriticalPcs => lock.written

\* The lock leaves the path by another's hand only when the attempt that
\* created it is over for good.
AttemptOver(t) ==
    \/ t[2] < attempt[OwnerOf(t)]
    \/ t[2] = attempt[OwnerOf(t)] /\ pc[OwnerOf(t)] \in {"dead", "idle"}
OnlyAbandonedMoved ==
    [][\A p \in Process :
          quarantine'[p] # quarantine[p] /\ quarantine'[p] # NoFile
            => AttemptOver(quarantine'[p].token)]_lockVars

\* An attempt always ends: in the critical section, in an error or in a timeout,
\* even if the holder never lets go ("neither condition may turn lock
\* acquisition into an unbounded loop", acquireLock).
AttemptEnds ==
    \A p \in Process :
        pc[p] = "open" ~> pc[p] \in CriticalPcs \cup {"idle", "dead"}

\* A complete lock whose owner died is reclaimed by any attempt of its host that
\* meets it (with at most one crash, so no guard is abandoned, and unless a write
\* fails).
LockAbandoned ==
    lock # NoFile /\ lock.written /\ ~Alive(OwnerOf(lock.token))
MetByNeighbour ==
    \E p \in Process : pc[p] = "open" /\ HostOf[p] = HostOf[OwnerOf(lock.token)]
AbandonedReclaimed ==
    (LockAbandoned /\ MetByNeighbour) ~> (~LockAbandoned \/ faults > 0)
=============================================================================
