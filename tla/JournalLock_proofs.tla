------------------------- MODULE JournalLock_proofs -------------------------
(***************************************************************************)
(* Mutual exclusion of the journal lock, for any number of processes,      *)
(* hosts, attempts, crashes, restarts and failed writes.                   *)
(***************************************************************************)
EXTENDS JournalLock, TLAPS

\* The files a process creates and the ones it leaves are files.
LEMMA FileTypes ==
    /\ NoFile \in Files
    /\ \A t \in Tokens : Created(t) \in Files /\ Written(t) \in Files
    /\ \A f \in Files : f.token \in Tokens /\ f.written \in BOOLEAN
    /\ NoToken \in Tokens
    /\ TypeOK => \A p \in Process : MyToken(p) \in Tokens
BY DEF NoFile, NoToken, Files, Tokens, Created, Written, TypeOK, MyToken

\* The type invariant.
THEOREM LockTypeOK == LockSpec => []TypeOK
<1>1. LockInit => TypeOK
  BY FileTypes DEF LockInit, TypeOK, Pcs, Outcomes
<1>2. TypeOK /\ [LockNext]_lockVars => TypeOK'
  <2> SUFFICES ASSUME TypeOK, [LockNext]_lockVars PROVE TypeOK'
    OBVIOUS
  <2> USE FileTypes DEF TypeOK, Goto, EndWith, DropGuardTo, Pcs, OwningPcs, CreatingPcs,
              CriticalPcs, GuardedPcs, Outcomes
  <2>1. ASSUME NEW p \in Process, Begin(p) PROVE TypeOK'
    BY <2>1, BoundsAssumption DEF Begin
  <2>2. ASSUME NEW p \in Process, Open(p) PROVE TypeOK'
    BY <2>2 DEF Open
  <2>3. ASSUME NEW p \in Process, Write(p) PROVE TypeOK'
    BY <2>3 DEF Write
  <2>4. ASSUME NEW p \in Process, WriteFails(p) PROVE TypeOK'
    BY <2>4 DEF WriteFails
  <2>5. ASSUME NEW p \in Process, Cleanup(p) PROVE TypeOK'
    BY <2>5 DEF Cleanup
  <2>6. ASSUME NEW p \in Process, CleanupUnlink(p) PROVE TypeOK'
    BY <2>6 DEF CleanupUnlink
  <2>7. ASSUME NEW p \in Process, Inspect(p) PROVE TypeOK'
    BY <2>7 DEF Inspect
  <2>8. ASSUME NEW p \in Process, Retry(p) PROVE TypeOK'
    BY <2>8 DEF Retry
  <2>9. ASSUME NEW p \in Process, Timeout(p) PROVE TypeOK'
    BY <2>9 DEF Timeout
  <2>10. ASSUME NEW p \in Process, Finish(p) PROVE TypeOK'
    BY <2>10 DEF Finish
  <2>11. ASSUME NEW p \in Process, Release(p) PROVE TypeOK'
    BY <2>11 DEF Release
  <2>12. ASSUME NEW p \in Process, Unlink(p) PROVE TypeOK'
    BY <2>12 DEF Unlink
  <2>13. ASSUME NEW p \in Process, GuardOpen(p) PROVE TypeOK'
    BY <2>13 DEF GuardOpen
  <2>14. ASSUME NEW p \in Process, GuardWrite(p) PROVE TypeOK'
    BY <2>14 DEF GuardWrite
  <2>15. ASSUME NEW p \in Process, GuardWriteFails(p) PROVE TypeOK'
    BY <2>15 DEF GuardWriteFails
  <2>16. ASSUME NEW p \in Process, GuardCleanup(p) PROVE TypeOK'
    BY <2>16 DEF GuardCleanup
  <2>17. ASSUME NEW p \in Process, GuardInspect(p) PROVE TypeOK'
    BY <2>17 DEF GuardInspect
  <2>18. ASSUME NEW p \in Process, Reread(p) PROVE TypeOK'
    BY <2>18 DEF Reread
  <2>19. ASSUME NEW p \in Process, Rename(p) PROVE TypeOK'
    <3>1. quarantine' \in [Process -> Files] /\ lock' \in Files
      BY <2>19 DEF Rename
    <3>2. pc' \in [Process -> Pcs] /\ after' \in [Process -> {"idle", "pause", "open"}]
      BY <2>19 DEF Rename
    <3> QED
      BY <2>19, <3>1, <3>2 DEF Rename
  <2>20. ASSUME NEW p \in Process, Verify(p) PROVE TypeOK'
    <3>1. quarantine' \in [Process -> Files]
      BY <2>20 DEF Verify
    <3>2. pc' \in [Process -> Pcs] /\ after' \in [Process -> {"idle", "pause", "open"}]
      BY <2>20 DEF Verify
    <3>3. outcome' \in [Process -> Outcomes]
      BY <2>20 DEF Verify
    <3> QED
      BY <2>20, <3>1, <3>2, <3>3 DEF Verify
  <2>21. ASSUME NEW p \in Process, GuardRelease(p) PROVE TypeOK'
    BY <2>21 DEF GuardRelease
  <2>22. ASSUME NEW p \in Process, GuardUnlink(p) PROVE TypeOK'
    BY <2>22 DEF GuardUnlink
  <2>23. ASSUME NEW p \in Process, Crash(p) PROVE TypeOK'
    BY <2>23 DEF Crash
  <2>24. ASSUME NEW p \in Process, Restart(p) PROVE TypeOK'
    BY <2>24 DEF Restart
  <2>25. CASE UNCHANGED lockVars
    BY <2>25 DEF lockVars
  <2> QED
    BY <2>1, <2>2, <2>3, <2>4, <2>5, <2>6, <2>7, <2>8, <2>9, <2>10, <2>11, <2>12, <2>13, <2>14, <2>15, <2>16, <2>17, <2>18, <2>19, <2>20, <2>21, <2>22, <2>23, <2>24, <2>25
       DEF LockNext, AttemptStep, Environment
<1> QED
  BY <1>1, <1>2, PTL DEF LockSpec

-----------------------------------------------------------------------------
(* The inductive invariant behind mutual exclusion *)

\* Every file at the lock path was created by an attempt already begun.
LockIssued ==
    lock # NoFile =>
        /\ lock.token \in Process \X Nat
        /\ lock.token[2] <= attempt[OwnerOf(lock.token)]

\* The recovery guard elects one reclaimer.
GuardOwned == \A p \in Process : pc[p] \in GuardedPcs => guard.token = MyToken(p)

\* What the elected reclaimer is about to move is still the file it judged, and
\* the attempt that made it can never come back to it.
RenameSafe ==
    \A p \in Process :
        pc[p] = "rename" => lock # NoFile /\ AttemptOver(lock.token)

LockInv == HolderOwnsLock /\ LockIssued /\ GuardOwned /\ RenameSafe

\* A step of one process is invisible in the local state of the others, and
\* only Begin moves a process on from idle or dead, under a new attempt.
Frame(p) ==
    /\ \A q \in Process : q # p => pc'[q] = pc[q] /\ attempt'[q] = attempt[q]
    /\ \/ /\ attempt'[p] = attempt[p]
          /\ pc[p] \in {"dead", "idle"} => pc'[p] \in {"dead", "idle"}
       \/ attempt'[p] = attempt[p] + 1 /\ pc[p] = "idle" /\ pc'[p] = "open"

LEMMA StepFrame ==
    ASSUME TypeOK, NEW p \in Process, AttemptStep(p) \/ Environment(p)
    PROVE  Frame(p)
<1> USE DEF TypeOK, Frame, Goto, EndWith, DropGuardTo
<1>1. CASE Open(p) \/ Write(p) \/ Cleanup(p) \/ CleanupUnlink(p) \/ Inspect(p)
  BY <1>1 DEF Open, Write, Cleanup, CleanupUnlink, Inspect
<1>2. CASE Retry(p) \/ Timeout(p) \/ Finish(p) \/ Release(p) \/ Unlink(p)
  BY <1>2 DEF Retry, Timeout, Finish, Release, Unlink
<1>3. CASE GuardOpen(p) \/ GuardWrite(p) \/ GuardCleanup(p) \/ GuardInspect(p)
  BY <1>3 DEF GuardOpen, GuardWrite, GuardCleanup, GuardInspect
<1>4. CASE Reread(p) \/ Rename(p) \/ Verify(p)
  BY <1>4 DEF Reread, Rename, Verify
<1>5. CASE GuardRelease(p) \/ GuardUnlink(p)
  <2>1. after[p] \in {"idle", "pause", "open"}
    OBVIOUS
  <2> QED
    BY <1>5, <2>1 DEF GuardRelease, GuardUnlink
<1>6. CASE Begin(p) \/ WriteFails(p) \/ GuardWriteFails(p) \/ Crash(p) \/ Restart(p)
  BY <1>6 DEF Begin, WriteFails, GuardWriteFails, Crash, Restart, Alive
<1> QED
  BY <1>1, <1>2, <1>3, <1>4, <1>5, <1>6 DEF AttemptStep, Environment

\* An attempt that is over stays over, through crashes, restarts and new
\* attempts of its process.
LEMMA OverForGood ==
    ASSUME TypeOK, NEW p \in Process, Frame(p),
           NEW t \in Process \X Nat, AttemptOver(t)
    PROVE  AttemptOver(t)'
<1> DEFINE o == t[1]
           n == t[2]
<1>1. o \in Process /\ n \in Nat /\ attempt[o] \in Nat /\ pc[o] \in Pcs
  BY DEF TypeOK
<1>2. n < attempt[o] \/ (n = attempt[o] /\ pc[o] \in {"dead", "idle"})
  BY DEF AttemptOver, OwnerOf
<1>3. \/ attempt'[o] = attempt[o] /\ (pc[o] \in {"dead", "idle"} => pc'[o] \in {"dead", "idle"})
      \/ attempt'[o] = attempt[o] + 1
  BY <1>1 DEF Frame
<1>4. n < attempt'[o] \/ (n = attempt'[o] /\ pc'[o] \in {"dead", "idle"})
  <2> HIDE DEF o, n
  <2> QED
    BY <1>1, <1>2, <1>3
<1> QED
  BY <1>4 DEF AttemptOver, OwnerOf

\* A step that leaves both files alone and takes its process into none of the
\* places that hold one keeps the invariant.
Quiet(p) ==
    /\ lock' = lock /\ guard' = guard
    /\ pc'[p] \in OwningPcs => pc[p] \in OwningPcs
    /\ pc'[p] \in CriticalPcs => pc[p] \in CriticalPcs
    /\ pc'[p] \in GuardedPcs => pc[p] \in GuardedPcs
    /\ pc'[p] # "rename"

LEMMA QuietStep ==
    ASSUME TypeOK, LockInv, NEW p \in Process, Frame(p), Quiet(p)
    PROVE  LockInv'
<1> USE DEF LockInv
<1>1. "idle" \notin OwningPcs \cup GuardedPcs /\ "open" \notin OwningPcs \cup GuardedPcs
  BY DEF OwningPcs, GuardedPcs, CreatingPcs, CriticalPcs
<1>2. \A q \in Process :
        pc'[q] \in OwningPcs \cup GuardedPcs => MyToken(q)' = MyToken(q)
  <2> SUFFICES ASSUME NEW q \in Process, pc'[q] \in OwningPcs \cup GuardedPcs
               PROVE  attempt'[q] = attempt[q]
    BY DEF MyToken
  <2> QED
    BY <1>1 DEF Frame
<1>3. HolderOwnsLock'
  BY <1>2 DEF HolderOwnsLock, Quiet, Frame, OwningPcs
<1>4. LockIssued'
  <2>1. \A q \in Process : attempt[q] \in Nat /\ attempt[q] <= attempt'[q]
    BY DEF Frame, TypeOK
  <2> SUFFICES ASSUME lock # NoFile
               PROVE  /\ lock.token \in Process \X Nat
                      /\ lock.token[2] <= attempt'[lock.token[1]]
    BY DEF LockIssued, Quiet, OwnerOf
  <2>2. lock.token \in Process \X Nat /\ lock.token[2] <= attempt[lock.token[1]]
    BY DEF LockIssued, OwnerOf
  <2>3. lock.token[1] \in Process /\ lock.token[2] \in Nat
    BY <2>2
  <2>4. attempt'[lock.token[1]] \in Nat
    BY <2>3 DEF Frame, TypeOK
  <2> QED
    BY <2>1, <2>2, <2>3, <2>4
<1>5. GuardOwned'
  BY <1>2 DEF GuardOwned, Quiet, Frame
<1>6. RenameSafe'
  <2> SUFFICES ASSUME NEW q \in Process, pc'[q] = "rename"
               PROVE  lock' # NoFile /\ AttemptOver(lock.token)'
    BY DEF RenameSafe, Quiet
  <2>1. pc[q] = "rename"
    BY DEF Quiet, Frame
  <2>2. lock # NoFile /\ AttemptOver(lock.token) /\ lock.token \in Process \X Nat
    BY <2>1 DEF RenameSafe, LockIssued
  <2> QED
    BY <2>2, OverForGood DEF Quiet
<1> QED
  BY <1>3, <1>4, <1>5, <1>6

LEMMA QuietActions ==
    ASSUME TypeOK, NEW p \in Process,
           \/ Begin(p) \/ WriteFails(p) \/ Cleanup(p) \/ Inspect(p) \/ Retry(p)
           \/ Timeout(p) \/ GuardWriteFails(p) \/ GuardCleanup(p) \/ GuardInspect(p)
           \/ Verify(p) \/ GuardRelease(p) \/ Finish(p) \/ Release(p)
           \/ Crash(p) \/ Restart(p)
    PROVE  Quiet(p)
<1> USE DEF TypeOK, Quiet, Goto, EndWith, DropGuardTo, OwningPcs, CreatingPcs,
            CriticalPcs, GuardedPcs
<1>1. CASE Begin(p) \/ WriteFails(p) \/ Cleanup(p) \/ Inspect(p) \/ Retry(p)
  BY <1>1 DEF Begin, WriteFails, Cleanup, Inspect, Retry
<1>2. CASE Timeout(p) \/ GuardWriteFails(p) \/ GuardCleanup(p) \/ GuardInspect(p)
  BY <1>2 DEF Timeout, GuardWriteFails, GuardCleanup, GuardInspect
<1>3. CASE Verify(p) \/ Finish(p) \/ Release(p) \/ Crash(p) \/ Restart(p)
  BY <1>3 DEF Verify, Finish, Release, Crash, Restart
<1>4. CASE GuardRelease(p)
  <2>1. after[p] \in {"idle", "pause", "open"}
    OBVIOUS
  <2> QED
    BY <1>4, <2>1 DEF GuardRelease
<1> QED
  BY <1>1, <1>2, <1>3, <1>4

\* Different processes never name the same token.
LEMMA TokensDiffer ==
    ASSUME NEW p \in Process, NEW q \in Process, MyToken(p) = MyToken(q)
    PROVE  p = q
BY DEF MyToken

\* The attempt of a process that holds the lock file is not over.
LEMMA OwnerNotOver ==
    ASSUME TypeOK, NEW p \in Process, pc[p] \in OwningPcs
    PROVE  ~AttemptOver(MyToken(p))
BY DEF TypeOK, AttemptOver, MyToken, OwnerOf, OwningPcs, CreatingPcs, CriticalPcs

\* Taking the lock: the path was free, so nobody held it.
LEMMA OpenStep ==
    ASSUME TypeOK, LockInv, NEW p \in Process, Open(p), Frame(p)
    PROVE  LockInv'
<1>1. CASE lock # NoFile
  BY <1>1, QuietStep DEF Open, Quiet, Goto, TypeOK, OwningPcs, CreatingPcs,
     CriticalPcs, GuardedPcs
<1>2. CASE lock = NoFile
  <2>1. /\ lock' = Created(MyToken(p)) /\ guard' = guard /\ attempt' = attempt
        /\ pc' = [pc EXCEPT ![p] = "write"]
    BY <1>2 DEF Open, Goto
  <2>2. lock.token = NoToken /\ \A q \in Process : MyToken(q) # NoToken
    BY <1>2, NoProcessAssumption DEF NoFile, NoToken, MyToken
  <2>3. \A q \in Process : pc[q] \notin OwningPcs /\ pc[q] # "rename"
    BY <1>2, <2>2 DEF LockInv, HolderOwnsLock, RenameSafe
  <2>4. pc' \in [Process -> Pcs] /\ pc'[p] = "write"
          /\ \A q \in Process : q # p => pc'[q] = pc[q]
    BY <2>1 DEF TypeOK, Pcs, OwningPcs, CreatingPcs
  <2>5. HolderOwnsLock'
    BY <2>1, <2>3, <2>4 DEF HolderOwnsLock, Created, MyToken, OwningPcs, CriticalPcs
  <2>6. LockIssued'
    BY <2>1 DEF LockIssued, Created, MyToken, OwnerOf, TypeOK
  <2>7. GuardOwned'
    BY <2>1, <2>4 DEF LockInv, GuardOwned, MyToken, GuardedPcs
  <2>8. RenameSafe'
    BY <2>3, <2>4 DEF RenameSafe
  <2> QED
    BY <2>5, <2>6, <2>7, <2>8 DEF LockInv
<1> QED
  BY <1>1, <1>2

\* Writing it: the file is still at the path.
LEMMA WriteStep ==
    ASSUME TypeOK, LockInv, NEW p \in Process, Write(p)
    PROVE  LockInv'
<1>1. lock.token = MyToken(p) /\ pc[p] = "write"
  BY DEF Write, LockInv, HolderOwnsLock, OwningPcs, CreatingPcs
<1>2. /\ lock' = Written(MyToken(p)) /\ guard' = guard /\ attempt' = attempt
      /\ pc' = [pc EXCEPT ![p] = "critical"]
  BY <1>1 DEF Write, Goto
<1>3. pc'[p] = "critical" /\ \A q \in Process : q # p => pc'[q] = pc[q]
  BY <1>2 DEF TypeOK
<1>4. \A q \in Process : q # p => pc[q] \notin OwningPcs
  BY <1>1, TokensDiffer DEF LockInv, HolderOwnsLock
<1>5. \A q \in Process : pc[q] # "rename"
  BY <1>1, OwnerNotOver DEF LockInv, RenameSafe, OwningPcs, CreatingPcs
<1>6. HolderOwnsLock'
  BY <1>2, <1>3, <1>4 DEF HolderOwnsLock, Written, MyToken, OwningPcs, CriticalPcs
<1>7. LockIssued'
  BY <1>2 DEF LockIssued, Written, MyToken, OwnerOf, TypeOK
<1>8. GuardOwned'
  BY <1>2, <1>3 DEF LockInv, GuardOwned, MyToken, GuardedPcs
<1>9. RenameSafe'
  BY <1>3, <1>5 DEF RenameSafe
<1> QED
  BY <1>6, <1>7, <1>8, <1>9 DEF LockInv

\* Removing it: the path held this process's own file, which no reclaimer was
\* about to move.
LEMMA UnlinkStep ==
    ASSUME TypeOK, LockInv, NEW p \in Process, Unlink(p) \/ CleanupUnlink(p)
    PROVE  LockInv'
<1>1. pc[p] \in OwningPcs /\ lock.token = MyToken(p)
  BY DEF Unlink, CleanupUnlink, LockInv, HolderOwnsLock, OwningPcs, CreatingPcs,
         CriticalPcs
<1>2. /\ lock' = NoFile /\ guard' = guard /\ attempt' = attempt
      /\ pc' = [pc EXCEPT ![p] = "idle"]
  BY DEF Unlink, CleanupUnlink, EndWith, Goto
<1>3. pc'[p] = "idle" /\ \A q \in Process : q # p => pc'[q] = pc[q]
  BY <1>2 DEF TypeOK
<1>4. \A q \in Process : q # p => pc[q] \notin OwningPcs
  BY <1>1, TokensDiffer DEF LockInv, HolderOwnsLock
<1>5. \A q \in Process : pc[q] # "rename"
  BY <1>1, OwnerNotOver DEF LockInv, RenameSafe
<1>6. HolderOwnsLock'
  BY <1>3, <1>4 DEF HolderOwnsLock, OwningPcs, CreatingPcs, CriticalPcs
<1>7. LockIssued'
  BY <1>2 DEF LockIssued
<1>8. GuardOwned'
  BY <1>2, <1>3 DEF LockInv, GuardOwned, MyToken, GuardedPcs
<1>9. RenameSafe'
  BY <1>3, <1>5 DEF RenameSafe
<1> QED
  BY <1>6, <1>7, <1>8, <1>9 DEF LockInv

\* The guard steps: creating, writing and dropping it leave the lock alone.
LEMMA GuardStep ==
    ASSUME TypeOK, LockInv, NEW p \in Process,
           GuardOpen(p) \/ GuardWrite(p) \/ GuardUnlink(p)
    PROVE  LockInv'
<1>1. lock' = lock /\ attempt' = attempt
        /\ \E l \in {"guard_write", "guard_inspect", "reread", "idle", "pause", "open"} :
              pc' = [pc EXCEPT ![p] = l]
  BY DEF GuardOpen, GuardWrite, GuardUnlink, Goto, TypeOK
<1>2. /\ pc'[p] \notin OwningPcs /\ pc'[p] # "rename"
      /\ \A q \in Process : q # p => pc'[q] = pc[q]
  BY <1>1 DEF TypeOK, OwningPcs, CreatingPcs, CriticalPcs
<1>3. HolderOwnsLock'
  BY <1>1, <1>2 DEF LockInv, HolderOwnsLock, MyToken, OwningPcs
<1>4. LockIssued' /\ RenameSafe'
  <2>1. LockIssued'
    BY <1>1 DEF LockInv, LockIssued
  <2>2. pc[p] # "dead" /\ pc[p] # "idle"
    BY DEF GuardOpen, GuardWrite, GuardUnlink
  <2>3. \A t : AttemptOver(t) => AttemptOver(t)'
    BY <1>1, <1>2, <2>2 DEF AttemptOver, TypeOK
  <2> QED
    BY <1>1, <1>2, <2>1, <2>3 DEF LockInv, RenameSafe
<1>5. GuardOwned'
  <2>1. CASE GuardOpen(p) /\ guard # NoFile
    BY <2>1, <1>2 DEF GuardOpen, Goto, TypeOK, LockInv, GuardOwned, MyToken, GuardedPcs
  <2>2. CASE GuardOpen(p) /\ guard = NoFile
    <3>1. \A q \in Process : pc[q] \notin GuardedPcs
      BY <2>2, NoProcessAssumption DEF LockInv, GuardOwned, NoFile, NoToken, MyToken
    <3>2. guard' = Created(MyToken(p))
      BY <2>2 DEF GuardOpen
    <3> QED
      BY <1>1, <1>2, <3>1, <3>2 DEF GuardOwned, Created, MyToken
  <2>3. CASE GuardWrite(p)
    <3>1. guard.token = MyToken(p)
      BY <2>3 DEF GuardWrite, LockInv, GuardOwned, GuardedPcs
    <3>2. guard'.token = guard.token
      BY <2>3, <3>1 DEF GuardWrite, Written
    <3>3. pc[p] \in GuardedPcs
      BY <2>3 DEF GuardWrite, GuardedPcs
    <3> QED
      BY <1>1, <1>2, <3>1, <3>2, <3>3 DEF LockInv, GuardOwned, MyToken
  <2>4. CASE GuardUnlink(p)
    <3>1. pc[p] \in GuardedPcs /\ guard.token = MyToken(p)
      BY <2>4 DEF GuardUnlink, LockInv, GuardOwned, GuardedPcs
    <3>2. \A q \in Process : q # p => pc[q] \notin GuardedPcs
      BY <3>1, TokensDiffer DEF LockInv, GuardOwned
    <3>3. pc'[p] \notin GuardedPcs
      BY <2>4 DEF GuardUnlink, Goto, TypeOK, GuardedPcs
    <3> QED
      BY <1>2, <3>2, <3>3 DEF GuardOwned
  <2> QED
    BY <2>1, <2>2, <2>3, <2>4
<1> QED
  BY <1>3, <1>4, <1>5 DEF LockInv

\* The second reading, under the guard: the owner is dead, so its attempt is
\* over for good.
LEMMA RereadStep ==
    ASSUME TypeOK, LockInv, NEW p \in Process, Reread(p), Frame(p)
    PROVE  LockInv'
<1>1. CASE pc' = [pc EXCEPT ![p] = "guard_release"]
  <2>1. Quiet(p)
    BY <1>1 DEF Reread, Quiet, TypeOK, OwningPcs, CreatingPcs, CriticalPcs, GuardedPcs
  <2> QED
    BY <2>1, QuietStep
<1>2. CASE /\ pc' = [pc EXCEPT ![p] = "rename"]
           /\ lock.written /\ Abandoned(p, lock.token)
  <2>1. lock' = lock /\ guard' = guard /\ attempt' = attempt /\ pc[p] = "reread"
    BY DEF Reread
  <2>2. pc'[p] = "rename" /\ \A q \in Process : q # p => pc'[q] = pc[q]
    BY <1>2 DEF TypeOK
  <2>3. lock # NoFile
    BY <1>2 DEF NoFile
  <2>4. pc[OwnerOf(lock.token)] = "dead"
    BY <1>2 DEF Abandoned, ProcessExists, Alive
  <2>5. lock.token \in Process \X Nat /\ lock.token[2] <= attempt[OwnerOf(lock.token)]
    BY <2>3 DEF LockInv, LockIssued
  <2>6. lock.token[1] \in Process /\ lock.token[2] \in Nat
    BY <2>5
  <2>7. AttemptOver(lock.token)
    BY <2>4, <2>5, <2>6 DEF AttemptOver, OwnerOf, TypeOK
  <2>8. AttemptOver(lock.token)'
    BY <2>5, <2>7, <2>1, OverForGood
  <2>9. HolderOwnsLock'
    BY <2>1, <2>2 DEF LockInv, HolderOwnsLock, MyToken, OwningPcs, CreatingPcs, CriticalPcs
  <2>10. LockIssued'
    BY <2>1 DEF LockInv, LockIssued
  <2>11. GuardOwned'
    BY <2>1, <2>2 DEF LockInv, GuardOwned, MyToken, GuardedPcs
  <2>12. RenameSafe'
    BY <2>1, <2>3, <2>8 DEF RenameSafe
  <2> QED
    BY <2>9, <2>10, <2>11, <2>12 DEF LockInv
<1> QED
  BY <1>1, <1>2 DEF Reread, DropGuardTo, Goto

\* The rename takes the judged file: no live process is at the path.
LEMMA RenameStep ==
    ASSUME TypeOK, LockInv, NEW p \in Process, Rename(p)
    PROVE  LockInv'
<1>1. pc[p] = "rename" /\ lock # NoFile /\ AttemptOver(lock.token)
  BY DEF Rename, LockInv, RenameSafe
<1>2. /\ lock' = NoFile /\ guard' = guard /\ attempt' = attempt
      /\ pc' = [pc EXCEPT ![p] = "verify"]
  BY <1>1 DEF Rename, Goto
<1>3. pc'[p] = "verify" /\ \A q \in Process : q # p => pc'[q] = pc[q]
  BY <1>2 DEF TypeOK
<1>4. \A q \in Process : pc[q] \notin OwningPcs
  BY <1>1, OwnerNotOver DEF LockInv, HolderOwnsLock
<1>5. \A q \in Process : q # p => pc[q] # "rename"
  <2> SUFFICES ASSUME NEW q \in Process, pc[q] = "rename" PROVE q = p
    OBVIOUS
  <2>1. guard.token = MyToken(p) /\ guard.token = MyToken(q)
    BY <1>1 DEF LockInv, GuardOwned, GuardedPcs
  <2> QED
    BY <2>1, TokensDiffer
<1>6. HolderOwnsLock'
  BY <1>3, <1>4 DEF HolderOwnsLock, OwningPcs, CreatingPcs, CriticalPcs
<1>7. LockIssued'
  BY <1>2 DEF LockIssued
<1>8. GuardOwned'
  BY <1>1, <1>2, <1>3 DEF LockInv, GuardOwned, MyToken, GuardedPcs
<1>9. RenameSafe'
  BY <1>3, <1>5 DEF RenameSafe
<1> QED
  BY <1>6, <1>7, <1>8, <1>9 DEF LockInv

\* The path is always the live holder's: the invariant of the lock protocol.
THEOREM LockInvariant == LockSpec => []LockInv
<1>1. LockInit => LockInv
  BY DEF LockInit, LockInv, HolderOwnsLock, LockIssued, GuardOwned, RenameSafe,
         OwningPcs, CreatingPcs, CriticalPcs, GuardedPcs
<1>2. TypeOK /\ LockInv /\ [LockNext]_lockVars => LockInv'
  <2> SUFFICES ASSUME TypeOK, LockInv, [LockNext]_lockVars PROVE LockInv'
    OBVIOUS
  <2>1. ASSUME NEW p \in Process, AttemptStep(p) \/ Environment(p)
        PROVE  LockInv'
    <3>1. Frame(p)
      BY <2>1, StepFrame
    <3>2. CASE Quiet(p)
      BY <3>1, <3>2, QuietStep
    <3>3. CASE Open(p) \/ Write(p) \/ Unlink(p) \/ CleanupUnlink(p)
      BY <3>1, <3>3, OpenStep, WriteStep, UnlinkStep
    <3>4. CASE GuardOpen(p) \/ GuardWrite(p) \/ GuardUnlink(p)
      BY <3>4, GuardStep
    <3>5. CASE Reread(p) \/ Rename(p)
      BY <3>1, <3>5, RereadStep, RenameStep
    <3> QED
      BY <2>1, <3>2, <3>3, <3>4, <3>5, QuietActions DEF AttemptStep, Environment
  <2>2. CASE UNCHANGED lockVars
    BY <2>2 DEF lockVars, LockInv, HolderOwnsLock, LockIssued, GuardOwned,
       RenameSafe, AttemptOver, MyToken, OwnerOf
  <2> QED
    BY <2>1, <2>2 DEF LockNext
<1> QED
  BY <1>1, <1>2, LockTypeOK, PTL DEF LockSpec

\* A live process between creating the lock and removing it finds its own file.
THEOREM LockHolderOwnsLock == LockSpec => []HolderOwnsLock
BY LockInvariant, PTL DEF LockInv

\* At most one process is inside the journal of an operation.
THEOREM LockMutualExclusion == LockSpec => []MutualExclusion
<1>1. LockInv => MutualExclusion
  BY TokensDiffer DEF LockInv, HolderOwnsLock, MutualExclusion, OwningPcs
<1> QED
  BY <1>1, LockInvariant, PTL

\* A reclaimer moves a lock aside only when the attempt that made it is over.
THEOREM LockOnlyAbandonedMoved == LockSpec => OnlyAbandonedMoved
<1> DEFINE Moved(p) == quarantine'[p] # quarantine[p] /\ quarantine'[p] # NoFile
           Allowed == \A p \in Process :
                         Moved(p) => AttemptOver(quarantine'[p].token)
<1>1. TypeOK /\ LockInv /\ [LockNext]_lockVars => [Allowed]_lockVars
  <2> SUFFICES ASSUME TypeOK, LockInv, NEW p \in Process,
                      AttemptStep(p) \/ Environment(p),
                      NEW q \in Process, Moved(q)
               PROVE  AttemptOver(quarantine'[q].token)
    BY DEF LockNext
  <2>1. CASE Rename(p)
    <3>1. lock # NoFile /\ AttemptOver(lock.token)
      BY <2>1 DEF Rename, LockInv, RenameSafe
    <3>2. quarantine' = [quarantine EXCEPT ![p] = lock]
      BY <2>1, <3>1 DEF Rename
    <3>3. q = p /\ quarantine'[q] = lock
      BY <3>2 DEF TypeOK
    <3> QED
      BY <3>1, <3>3
  <2>2. CASE Verify(p)
    BY <2>2 DEF Verify, TypeOK
  <2>3. CASE quarantine' = quarantine
    BY <2>3
  <2>4. quarantine' = quarantine \/ Rename(p) \/ Verify(p)
    BY DEF AttemptStep, Environment, Open, Write, Cleanup, CleanupUnlink, Inspect,
       Retry, Timeout, GuardOpen, GuardWrite, GuardCleanup, GuardInspect, Reread,
       GuardRelease, GuardUnlink, Release, Unlink, Begin, Finish, WriteFails,
       GuardWriteFails, Crash, Restart
  <2> QED
    BY <2>1, <2>2, <2>3, <2>4
<1> QED
  BY <1>1, LockTypeOK, LockInvariant, PTL DEF LockSpec, OnlyAbandonedMoved
=============================================================================
