-------------------------- MODULE JournalStore_proofs --------------------------
(***************************************************************************)
(* The files of one operation agree, whoever dies, whatever call fails and *)
(* whenever power is lost: for any number of processes, records, crashes,  *)
(* faults and power losses, and any mix of retention calls.                *)
(***************************************************************************)
EXTENDS JournalStore, SequenceTheorems, TLAPS

\* What the calls write are histories, and the empty one is a history.
LEMMA HistoryTypes ==
    /\ <<>> \in Histories
    /\ NoLog \in LogFiles /\ NoFiles \in FileSets
    /\ \A c \in Caller, k \in Kinds : Record(c, k) \in Records
    /\ \A f \in FileSets : History(f) \in Histories
    /\ \A h \in Histories, r \in Records :
          (h = <<>> => r.kind = "created") => Append(h, r) \in Histories
<1>1. <<>> \in Histories
  BY DEF Histories
<1>2. NoLog \in LogFiles /\ NoFiles \in FileSets
  BY <1>1 DEF NoLog, LogFiles, NoFiles, FileSets
<1>3. \A c \in Caller, k \in Kinds : Record(c, k) \in Records
  BY DEF Record, Records
<1>4. \A f \in FileSets : History(f) \in Histories
  BY DEF FileSets, LogFiles, History
<1>5. ASSUME NEW h \in Histories, NEW r \in Records, h = <<>> => r.kind = "created"
      PROVE  Append(h, r) \in Histories
  <2>1. h \in Seq(Records) /\ Append(h, r) \in Seq(Records)
    BY DEF Histories
  <2>2. CASE h = <<>>
    BY <1>5, <2>1, <2>2 DEF Histories
  <2>3. CASE h # <<>>
    <3>1. Len(h) \in Nat \ {0}
      BY <2>1, <2>3, EmptySeq
    <3>2. Append(h, r)[1] = h[1] /\ Append(h, r) # <<>>
      BY <2>1, <3>1, AppendProperties
    <3> QED
      BY <2>1, <2>3, <3>2 DEF Histories
  <2> QED
    BY <2>2, <2>3
<1> QED
  BY <1>1, <1>2, <1>3, <1>4, <1>5

\* What loadLocked answers of well-typed files.
LEMMA AnswerFacts ==
    ASSUME NEW f
    PROVE  /\ Answer(f) \in Answers
           /\ Answer(f) = "corrupt" <=> Disagrees(f)
           /\ Answer(f) = "expired" => f.tombstone
           /\ Answer(f) = "receipt" =>
                 /\ ~Disagrees(f) /\ ~f.tombstone
                 /\ History(f) # <<>> /\ Completed(History(f))
BY DEF Answer, Answers

-----------------------------------------------------------------------------
(* The inductive invariant *)

\* Where an append is before and after its record is whole.
Writing == {"create", "truncate", "write", "writeRest"}
Written == {"sync", "syncLogEntry", "acknowledge"}

\* While an append writes, nothing outranks the log, and the log is the history
\* the append was decided on.
AppendInv ==
    /\ disk.log.records # <<>> => disk.log.exists
    /\ \A c \in Caller : holder = c =>
        /\ pc[c] \in Writing \ {"create"} => disk.log.exists
        /\ pc[c] \in Writing \cup Written =>
              /\ ~purging /\ ~disk.tombstone /\ disk.terminal = <<>>
              /\ seen[c] \in Histories
        /\ pc[c] \in Writing =>
              /\ disk.log.records = seen[c]
              /\ event[c] \in Records
              /\ seen[c] = <<>> => event[c].kind = "created"
        /\ pc[c] \in Written => disk.log.records = Append(seen[c], event[c])

\* The file whose temporary one a caller writes, or has linked and now unlinks and syncs.
WritePcs == {"createTemporary", "fillTemporary", "linkTemporary"}
LinkedPcs == {"unlinkTemporary", "syncLinked"}
Writes(c, f) == pc[c] \in WritePcs /\ temporary[c].of = f
Linked(c, f) == pc[c] \in LinkedPcs /\ temporary[c].of = f

\* What a retention call has established when it reaches a file operation.
RetentionInv ==
    /\ \A c \in Caller : holder = c /\ pc[c] \in WritePcs \cup LinkedPcs \cup {"discard"} =>
          temporary[c].of \in Targets
    /\ \A c \in Caller : call[c] = "purge" => purging
    /\ \A c \in Caller : pc[c] \in {"compacted", "prune"} => call[c] = "prune"
    /\ \A c \in Caller : holder = c =>
        /\ Writes(c, "terminal") =>
              /\ ~disk.tombstone /\ disk.terminal = <<>>
              /\ disk.log.exists /\ platter.log = disk.log
              /\ Completed(disk.log.records)
        /\ Linked(c, "terminal") \/ pc[c] = "unlinkLog" \/ Writes(c, "tombstone") =>
              call[c] = "purge" \/ disk.terminal # <<>>
        /\ Writes(c, "tombstone") => call[c] # "purge"
        /\ Linked(c, "tombstone") \/ pc[c] = "unlinkTerminal" =>
              call[c] = "purge" \/ disk.tombstone
        /\ pc[c] \in {"unlinkTombstone", "syncTombstones"} => call[c] = "purge"

\* Until a purge, what outranks the log on the platter is outranked on the disk.
PlatterInv ==
    ~purging =>
        /\ platter.terminal # <<>> => disk.terminal # <<>> \/ disk.tombstone
        /\ platter.tombstone => disk.tombstone

\* Any log a power loss may leave beside a terminal record holds its history,
\* beside a tombstone a completed one.
Beside(log, f) ==
    /\ f.terminal # <<>> => log = f.terminal
    /\ f.tombstone => Completed(log)
CopiesInv ==
    \A f \in {disk, platter} :
        /\ f.terminal # <<>> => Completed(f.terminal)
        /\ disk.log.exists => Beside(disk.log.records, f) /\ Beside(platter.log.records, f)
        /\ platter.log.exists => Beside(platter.log.records, f)

\* What a caller saw is the beginning of what is there.
SeenInv ==
    \A c \in Caller :
        seen[c] # Unknown /\ ~purging /\ ~disk.tombstone => IsPrefix(seen[c], History(disk))

\* The inductive invariant.
StoreInv ==
    /\ StoreTypeOK
    /\ AppendInv /\ RetentionInv /\ PlatterInv /\ CopiesInv /\ SeenInv
    /\ answer # "corrupt"

\* A power loss leaves a log with the records on disk or those on the platter.
LEMMA LogsLeftFacts ==
    ASSUME StoreTypeOK, NEW log \in LogsLeft
    PROVE  /\ log \in LogFiles
           /\ log = NoLog \/ log.exists
           /\ log.exists =>
                 \/ disk.log.exists /\ log.records \in {disk.log.records, platter.log.records}
                 \/ platter.log.exists /\ log.records = platter.log.records
<1>1. disk.log \in LogFiles /\ platter.log \in LogFiles /\ NoLog \in LogFiles
  BY HistoryTypes DEF StoreTypeOK, FileSets
<1>2. CASE log = NoLog
  BY <1>1, <1>2 DEF NoLog
<1>3. CASE log = [disk.log EXCEPT !.exists = TRUE] /\ disk.log.exists
  BY <1>1, <1>3 DEF LogFiles
<1>4. CASE /\ log = [platter.log EXCEPT !.exists = TRUE]
           /\ disk.log.exists \/ platter.log.exists
  BY <1>1, <1>4 DEF LogFiles
<1>5. CASE /\ disk.log.exists
           /\ \E t \in BOOLEAN :
                 log = [exists |-> TRUE, records |-> platter.log.records, tail |-> t]
  BY <1>1, <1>5 DEF LogFiles
<1>6. \/ log = NoLog
      \/ log = [disk.log EXCEPT !.exists = TRUE] /\ disk.log.exists
      \/ /\ log = [platter.log EXCEPT !.exists = TRUE]
         /\ disk.log.exists \/ platter.log.exists
      \/ /\ disk.log.exists
         /\ \E t \in BOOLEAN :
               log = [exists |-> TRUE, records |-> platter.log.records, tail |-> t]
  BY DEF LogsLeft
<1> QED
  BY <1>2, <1>3, <1>4, <1>5, <1>6

\* The link (or rename) and the directory sync of a file's write.
Links(c, f) == LinkTemporary(c) /\ temporary[c].of = f
Syncs(c, f) == SyncLinked(c) /\ temporary[c].of = f

\* A write is of the terminal record, the tombstone or the snapshot.
LEMMA WriteKinds ==
    ASSUME StoreInv, NEW c \in Caller
    PROVE  /\ LinkTemporary(c) => \E f \in Targets : Links(c, f)
           /\ SyncLinked(c) => \E f \in Targets : Syncs(c, f)
BY DEF StoreInv, RetentionInv, WritePcs, LinkedPcs, Links, Syncs, At, LinkTemporary, SyncLinked

\* Of the steps of a write the link alone changes a file that is looked for.
LEMMA LinkSteps ==
    ASSUME NEW c \in Caller
    PROVE  /\ Links(c, "terminal") =>
                 /\ At(c, "linkTemporary") /\ Writes(c, "terminal")
                 /\ disk' = [disk EXCEPT !.terminal = disk.log.records]
                 /\ pc' = [pc EXCEPT ![c] = "unlinkTemporary"] /\ UNCHANGED temporary
           /\ Links(c, "tombstone") =>
                 /\ At(c, "linkTemporary") /\ Writes(c, "tombstone")
                 /\ disk' = [disk EXCEPT !.tombstone = TRUE]
                 /\ pc' = [pc EXCEPT ![c] = "unlinkTemporary"] /\ UNCHANGED temporary
           /\ Links(c, "snapshot") =>
                 /\ At(c, "linkTemporary") /\ Writes(c, "snapshot")
                 /\ disk' = [disk EXCEPT !.snapshot = TRUE]
                 /\ pc' = [pc EXCEPT ![c] = "syncLinked"]
                 /\ temporary' = [temporary EXCEPT ![c].holds = "unlinked"]
           /\ LinkTemporary(c) =>
                 UNCHANGED <<platter, orphans, holder, call, event, seen, promises, bounds>>
<1> USE DEF Links, LinkTemporary, Writes, WritePcs, At, Goto, TemporaryStep, temporaries
<1>1. ASSUME Links(c, "terminal")
      PROVE  /\ At(c, "linkTemporary") /\ Writes(c, "terminal")
             /\ disk' = [disk EXCEPT !.terminal = disk.log.records]
             /\ pc' = [pc EXCEPT ![c] = "unlinkTemporary"] /\ UNCHANGED temporary
  BY <1>1
<1>2. ASSUME Links(c, "tombstone")
      PROVE  /\ At(c, "linkTemporary") /\ Writes(c, "tombstone")
             /\ disk' = [disk EXCEPT !.tombstone = TRUE]
             /\ pc' = [pc EXCEPT ![c] = "unlinkTemporary"] /\ UNCHANGED temporary
  BY <1>2
<1>3. ASSUME Links(c, "snapshot")
      PROVE  /\ At(c, "linkTemporary") /\ Writes(c, "snapshot")
             /\ disk' = [disk EXCEPT !.snapshot = TRUE]
             /\ pc' = [pc EXCEPT ![c] = "syncLinked"]
             /\ temporary' = [temporary EXCEPT ![c].holds = "unlinked"]
  BY <1>3
<1>4. LinkTemporary(c) =>
         UNCHANGED <<platter, orphans, holder, call, event, seen, promises, bounds>>
  OBVIOUS
<1> QED
  BY <1>1, <1>2, <1>3, <1>4

\* A directory sync puts one file of the disk on the platter, and forgets what was
\* unlinked in that directory.
SyncStep(c) ==
    SyncLinked(c) \/ SyncLogs(c) \/ SyncTerminals(c) \/ SyncTombstones(c) \/ SyncSnapshots(c)
LEMMA SyncSteps ==
    ASSUME NEW c \in Caller
    PROVE  /\ Syncs(c, "terminal") =>
                 /\ At(c, "syncLinked") /\ Linked(c, "terminal")
                 /\ platter' = [platter EXCEPT !.terminal = disk.terminal]
                 /\ pc' = [pc EXCEPT ![c] = "unlinkLog"]
           /\ Syncs(c, "tombstone") =>
                 /\ At(c, "syncLinked") /\ Linked(c, "tombstone")
                 /\ platter' = [platter EXCEPT !.tombstone = disk.tombstone]
                 /\ pc' = [pc EXCEPT ![c] = "unlinkTerminal"]
           /\ Syncs(c, "snapshot") =>
                 /\ At(c, "syncLinked") /\ Linked(c, "snapshot")
                 /\ platter' = [platter EXCEPT !.snapshot = disk.snapshot]
                 /\ pc' = [pc EXCEPT ![c] = "finish"]
           /\ SyncLogs(c) =>
                 /\ At(c, "syncLogs")
                 /\ platter' = [platter EXCEPT !.log = disk.log]
                 /\ pc' = [pc EXCEPT ![c] =
                              IF call[c] = "prune" THEN "compacted" ELSE "finish"]
           /\ SyncTerminals(c) =>
                 /\ At(c, "syncTerminals")
                 /\ platter' = [platter EXCEPT !.terminal = disk.terminal]
                 /\ pc' = [pc EXCEPT ![c] = "unlinkSnapshot"]
           /\ SyncTombstones(c) =>
                 /\ At(c, "syncTombstones")
                 /\ platter' = [platter EXCEPT !.tombstone = disk.tombstone]
                 /\ pc' = [pc EXCEPT ![c] = "unlinkTerminal"]
           /\ SyncSnapshots(c) =>
                 /\ At(c, "syncSnapshots")
                 /\ platter' = [platter EXCEPT !.snapshot = disk.snapshot]
                 /\ pc' = [pc EXCEPT ![c] =
                              IF call[c] = "purge" THEN "unlinkLog" ELSE "finish"]
           /\ SyncStep(c) => /\ UNCHANGED <<disk, holder, call, event, seen, promises, bounds>>
                             /\ orphans' \subseteq orphans
           /\ SyncLinked(c) => temporary' = [temporary EXCEPT ![c] = NoTemporary]
           /\ SyncStep(c) /\ ~SyncLinked(c) => UNCHANGED temporary
<1>1. ASSUME NEW f, Syncs(c, f)
      PROVE  /\ At(c, "syncLinked") /\ Linked(c, f)
             /\ platter' = [platter EXCEPT ![f] = disk[f]]
             /\ pc' = [pc EXCEPT ![c] = AfterWrite[f]]
  BY <1>1 DEF Syncs, SyncLinked, SyncDirectory, Linked, LinkedPcs, At, Goto
<1>2. /\ AfterWrite["terminal"] = "unlinkLog" /\ AfterWrite["tombstone"] = "unlinkTerminal"
      /\ AfterWrite["snapshot"] = "finish"
  BY DEF AfterWrite
<1>3. /\ SyncLogs(c) =>
            /\ At(c, "syncLogs")
            /\ platter' = [platter EXCEPT !.log = disk.log]
            /\ pc' = [pc EXCEPT ![c] = IF call[c] = "prune" THEN "compacted" ELSE "finish"]
      /\ SyncTerminals(c) =>
            /\ At(c, "syncTerminals")
            /\ platter' = [platter EXCEPT !.terminal = disk.terminal]
            /\ pc' = [pc EXCEPT ![c] = "unlinkSnapshot"]
      /\ SyncTombstones(c) =>
            /\ At(c, "syncTombstones")
            /\ platter' = [platter EXCEPT !.tombstone = disk.tombstone]
            /\ pc' = [pc EXCEPT ![c] = "unlinkTerminal"]
      /\ SyncSnapshots(c) =>
            /\ At(c, "syncSnapshots")
            /\ platter' = [platter EXCEPT !.snapshot = disk.snapshot]
            /\ pc' = [pc EXCEPT ![c] = IF call[c] = "purge" THEN "unlinkLog" ELSE "finish"]
  BY DEF SyncLogs, SyncTerminals, SyncTombstones, SyncSnapshots, SyncEntry, SyncDirectory, Goto
<1>4. ASSUME NEW f, SyncDirectory(f) PROVE orphans' \subseteq orphans
  BY <1>4 DEF SyncDirectory
<1>5. SyncStep(c) => /\ UNCHANGED <<disk, holder, call, event, seen, promises, bounds>>
                     /\ orphans' \subseteq orphans
  BY <1>4 DEF SyncStep, SyncLinked, SyncLogs, SyncTerminals, SyncTombstones, SyncSnapshots,
     SyncEntry, Goto
<1>6. /\ SyncLinked(c) => temporary' = [temporary EXCEPT ![c] = NoTemporary]
      /\ SyncStep(c) /\ ~SyncLinked(c) => UNCHANGED temporary
  BY DEF SyncStep, SyncLinked, SyncLogs, SyncTerminals, SyncTombstones, SyncSnapshots, SyncEntry
<1>7. /\ Syncs(c, "terminal") =>
            /\ At(c, "syncLinked") /\ Linked(c, "terminal")
            /\ platter' = [platter EXCEPT !.terminal = disk.terminal]
            /\ pc' = [pc EXCEPT ![c] = "unlinkLog"]
      /\ Syncs(c, "tombstone") =>
            /\ At(c, "syncLinked") /\ Linked(c, "tombstone")
            /\ platter' = [platter EXCEPT !.tombstone = disk.tombstone]
            /\ pc' = [pc EXCEPT ![c] = "unlinkTerminal"]
      /\ Syncs(c, "snapshot") =>
            /\ At(c, "syncLinked") /\ Linked(c, "snapshot")
            /\ platter' = [platter EXCEPT !.snapshot = disk.snapshot]
            /\ pc' = [pc EXCEPT ![c] = "finish"]
  BY <1>1, <1>2
<1> QED
  BY <1>3, <1>5, <1>6, <1>7

\* The steps of a write before its link, and the unlink after it.
LEMMA TemporarySteps ==
    ASSUME StoreTypeOK, NEW c \in Caller
    PROVE  /\ CreateTemporary(c) \/ FillTemporary(c) \/ UnlinkTemporary(c) =>
                 UNCHANGED <<disk, platter, orphans, holder, call, event, seen, promises, bounds>>
           /\ CreateTemporary(c) =>
                 At(c, "createTemporary") /\ pc' = [pc EXCEPT ![c] = "fillTemporary"]
           /\ FillTemporary(c) =>
                 At(c, "fillTemporary") /\ pc' = [pc EXCEPT ![c] = "linkTemporary"]
           /\ UnlinkTemporary(c) =>
                 At(c, "unlinkTemporary") /\ pc' = [pc EXCEPT ![c] = "syncLinked"]
           /\ (\/ CreateTemporary(c) \/ FillTemporary(c) \/ UnlinkTemporary(c)
               \/ Links(c, "snapshot")) =>
                 /\ \A d \in Caller : temporary'[d].of = temporary[d].of
                 /\ \A d \in Caller \ {c} : temporary'[d] = temporary[d]
<1>1. /\ CreateTemporary(c) \/ FillTemporary(c) \/ UnlinkTemporary(c) =>
            UNCHANGED <<disk, platter, orphans, holder, call, event, seen, promises, bounds>>
      /\ CreateTemporary(c) =>
            At(c, "createTemporary") /\ pc' = [pc EXCEPT ![c] = "fillTemporary"]
      /\ FillTemporary(c) =>
            At(c, "fillTemporary") /\ pc' = [pc EXCEPT ![c] = "linkTemporary"]
      /\ UnlinkTemporary(c) =>
            At(c, "unlinkTemporary") /\ pc' = [pc EXCEPT ![c] = "syncLinked"]
  BY DEF CreateTemporary, FillTemporary, UnlinkTemporary, TemporaryStep, Goto
<1>2. ASSUME NEW contents, temporary' = [temporary EXCEPT ![c].holds = contents]
      PROVE  /\ \A d \in Caller : temporary'[d].of = temporary[d].of
             /\ \A d \in Caller \ {c} : temporary'[d] = temporary[d]
  BY <1>2 DEF StoreTypeOK, NoTemporary, Temporary
<1>3. (CreateTemporary(c) \/ FillTemporary(c) \/ UnlinkTemporary(c) \/ Links(c, "snapshot")) =>
         \E contents : temporary' = [temporary EXCEPT ![c].holds = contents]
  BY LinkSteps DEF CreateTemporary, FillTemporary, UnlinkTemporary, TemporaryStep
<1> QED
  BY <1>1, <1>2, <1>3

\* What a temporary file is of, and holds.
TemporaryTypes ==
    /\ temporary \in [Caller -> [of : Targets, holds : Contents] \cup {NoTemporary}]
    /\ orphans \subseteq [of : Targets, holds : Contents \ {"absent"}]

\* Every step keeps the types of the temporary files.
LEMMA StepTemporaryTypes == StoreInv /\ [StoreNext]_storeVars => TemporaryTypes'
<1> SUFFICES ASSUME StoreInv, [StoreNext]_storeVars PROVE TemporaryTypes'
  OBVIOUS
<1> USE DEF TemporaryTypes
<1>1. TemporaryTypes
  BY DEF StoreInv, StoreTypeOK
<1>2. NoTemporary.holds = "absent"
  BY DEF NoTemporary, Temporary
<1>3. CASE UNCHANGED temporaries
  BY <1>1, <1>3 DEF temporaries
<1>4. ASSUME NEW c \in Caller, NEW contents \in Contents, temporary[c].of \in Targets,
             temporary' = [temporary EXCEPT ![c].holds = contents], UNCHANGED orphans
      PROVE  TemporaryTypes'
  <2>1. temporary[c] \in [of : Targets, holds : Contents]
    BY <1>1, <1>4 DEF NoTemporary, Temporary, Targets
  <2>2. [temporary[c] EXCEPT !.holds = contents] \in [of : Targets, holds : Contents]
    BY <2>1
  <2> QED
    BY <1>1, <1>4, <2>2
<1>5. ASSUME NEW c \in Caller, temporary' = [temporary EXCEPT ![c] = NoTemporary],
             NEW t, orphans' \subseteq orphans \cup {t},
             t \in [of : Targets, holds : Contents \ {"absent"}]
      PROVE  TemporaryTypes'
  BY <1>1, <1>5
<1>6. ASSUME NEW c \in Caller, NEW step, NEW f \in Targets, GoOn(c, step, f)
      PROVE  TemporaryTypes'
  <2>1. Temporary(f, "absent") \in [of : Targets, holds : Contents]
    BY DEF Temporary, Contents
  <2> QED
    BY <1>1, <1>6, <2>1 DEF GoOn
<1>7. ASSUME NEW c \in Caller, CreateTemporary(c) \/ FillTemporary(c) \/ UnlinkTemporary(c)
      PROVE  TemporaryTypes'
  <2>1. temporary[c].of \in Targets
    BY <1>7 DEF StoreInv, RetentionInv, WritePcs, LinkedPcs, At, CreateTemporary, FillTemporary,
       UnlinkTemporary
  <2>2. PICK contents \in Contents : /\ temporary' = [temporary EXCEPT ![c].holds = contents]
                                    /\ UNCHANGED orphans
    BY <1>7 DEF CreateTemporary, FillTemporary, UnlinkTemporary, TemporaryStep, Contents
  <2> QED
    BY <1>4, <2>1, <2>2
<1>8. ASSUME NEW c \in Caller, LinkTemporary(c) PROVE TemporaryTypes'
  <2>1. PICK f \in Targets : Links(c, f)
    BY <1>8, WriteKinds
  <2>2. CASE f = "snapshot"
    BY <1>4, <1>8, <2>1, <2>2, LinkSteps DEF Links, Contents
  <2>3. CASE f # "snapshot"
    BY <1>3, <1>8, <2>1, <2>3, LinkSteps DEF Links, Targets, temporaries
  <2> QED
    BY <2>2, <2>3
<1>9. ASSUME NEW c \in Caller, SyncStep(c) PROVE TemporaryTypes'
  BY <1>1, <1>9, SyncSteps
<1>10. ASSUME NEW c \in Caller, Discard(c) PROVE TemporaryTypes'
  <2>1. temporary[c].of \in Targets
    BY <1>10 DEF StoreInv, RetentionInv, At, Discard
  <2>2. Temporary(temporary[c].of, "unlinked") \in [of : Targets, holds : Contents \ {"absent"}]
    BY <2>1 DEF Temporary, Contents
  <2> QED
    BY <1>5, <1>10, <2>2 DEF Discard
<1>11. ASSUME NEW c \in Caller, Abandon(c) PROVE TemporaryTypes'
  <2>1. CASE temporary[c].holds # "absent"
    <3>1. temporary[c] \in [of : Targets, holds : Contents \ {"absent"}]
      BY <1>1, <1>2, <2>1
    <3>2. orphans' \subseteq orphans \cup {temporary[c]}
      BY <1>11 DEF Abandon
    <3> QED
      BY <1>5, <1>11, <3>1, <3>2 DEF Abandon
  <2>2. CASE temporary[c].holds = "absent"
    <3>1. orphans' \subseteq orphans
      BY <1>11, <2>2 DEF Abandon
    <3> QED
      BY <1>1, <1>11, <3>1 DEF Abandon
  <2> QED
    BY <2>1, <2>2
<1>12. ASSUME NEW c \in Caller, Fault(c) \/ Crash(c) PROVE TemporaryTypes'
  BY <1>3, <1>11, <1>12 DEF Fault, Crash
<1>13. ASSUME NEW c \in Caller, Snapshot(c) \/ Prune(c) PROVE TemporaryTypes'
  BY <1>3, <1>6, <1>13 DEF Snapshot, Prune, Targets
<1>14. ASSUME NEW c \in Caller, NEW name \in Retention, Compact(c, name) PROVE TemporaryTypes'
  BY <1>6, <1>14 DEF Compact, Targets
<1>15. ASSUME PowerLoss PROVE TemporaryTypes'
  <2>1. UNION OrphansLeft \subseteq [of : Targets, holds : Contents \ {"absent"}]
    <3>1. ASSUME NEW t \in orphans \cup {temporary[c] : c \in Caller}, t.holds # "absent"
          PROVE  t.of \in Targets
      BY <1>1, <1>2, <3>1
    <3>2. \A f \in Targets, h \in {"part", "whole"} :
             Temporary(f, h) \in [of : Targets, holds : Contents \ {"absent"}]
      BY DEF Temporary, Contents
    <3> QED
      BY <3>1, <3>2 DEF OrphansLeft
  <2> QED
    BY <1>15, <2>1 DEF PowerLoss
<1>16. ASSUME NEW c \in Caller, Load(c) \/ Purge(c) \/ \E k \in Kinds : BeginAppend(c, k)
       PROVE  UNCHANGED temporaries
  BY <1>16 DEF Load, Purge, BeginAppend
<1>17. ASSUME NEW c \in Caller, AppendStep(c) PROVE UNCHANGED temporaries
  BY <1>17 DEF AppendStep, CreateLog, TruncateTail, WritePart, WriteRest, SyncLog,
     SyncLogEntry, Acknowledge
<1>18. ASSUME NEW c \in Caller, \/ UnlinkLog(c) \/ Compacted(c) \/ PruneExpired(c) \/ Finish(c)
                               \/ UnlinkTerminal(c) \/ UnlinkSnapshot(c) \/ UnlinkTombstone(c)
       PROVE  UNCHANGED temporaries
  BY <1>18 DEF UnlinkLog, Compacted, PruneExpired, Finish, UnlinkTerminal, UnlinkSnapshot,
     UnlinkTombstone, RemoveFile
<1>19. CASE UNCHANGED storeVars
  BY <1>3, <1>19 DEF storeVars
<1> QED
  BY <1>3, <1>7, <1>8, <1>9, <1>10, <1>12, <1>13, <1>14, <1>15, <1>16, <1>17, <1>18, <1>19
     DEF StoreNext, WriteStep, RetentionStep, SyncStep

\* Every step keeps the types.
LEMMA StepTypes == StoreInv /\ [StoreNext]_storeVars => StoreTypeOK'
<1> SUFFICES ASSUME StoreInv, [StoreNext]_storeVars PROVE StoreTypeOK'
  OBVIOUS
<1>0. /\ temporary' \in [Caller -> [of : Targets, holds : Contents] \cup {NoTemporary}]
      /\ orphans' \subseteq [of : Targets, holds : Contents \ {"absent"}]
  BY StepTemporaryTypes DEF TemporaryTypes
<1> USE <1>0, HistoryTypes
        DEF StoreTypeOK, StoreInv, StorePcs, FileSets, LogFiles, files, promises, bounds,
            GoOn, Goto, Return, End, Forget, At, Idle
<1>1. ASSUME NEW c \in Caller, Load(c) PROVE StoreTypeOK'
  BY <1>1, AnswerFacts DEF Load, SyncedLog
<1>2. ASSUME NEW c \in Caller, CreateLog(c) PROVE StoreTypeOK'
  BY <1>2 DEF CreateLog
<1>3. ASSUME NEW c \in Caller, TruncateTail(c) PROVE StoreTypeOK'
  BY <1>3 DEF TruncateTail
<1>4. ASSUME NEW c \in Caller, WritePart(c) PROVE StoreTypeOK'
  BY <1>4 DEF WritePart
<1>5. ASSUME NEW c \in Caller, WriteRest(c) PROVE StoreTypeOK'
  BY <1>5 DEF WriteRest, AppendInv, Writing
<1>6. ASSUME NEW c \in Caller, SyncLog(c) PROVE StoreTypeOK'
  BY <1>6 DEF SyncLog
<1>7. ASSUME NEW c \in Caller, SyncLogEntry(c) PROVE StoreTypeOK'
  BY <1>7 DEF SyncLogEntry
<1>8. ASSUME NEW c \in Caller, Acknowledge(c) PROVE StoreTypeOK'
  BY <1>8 DEF Acknowledge
<1>9. ASSUME NEW c \in Caller, Snapshot(c) PROVE StoreTypeOK'
  BY <1>9 DEF Snapshot, SyncedLog
<1>10. ASSUME NEW c \in Caller, Purge(c) PROVE StoreTypeOK'
  BY <1>10 DEF Purge, SyncedLog
<1>11. ASSUME NEW c \in Caller, PruneExpired(c) PROVE StoreTypeOK'
  BY <1>11 DEF PruneExpired
<1>12. ASSUME NEW c \in Caller, Prune(c) PROVE StoreTypeOK'
  BY <1>12 DEF Prune, PruneStep
<1>13. ASSUME NEW c \in Caller, Compacted(c) PROVE StoreTypeOK'
  BY <1>13 DEF Compacted
<1>14. ASSUME NEW c \in Caller, Finish(c) PROVE StoreTypeOK'
  BY <1>14 DEF Finish
<1>15. ASSUME NEW c \in Caller, Fault(c) PROVE StoreTypeOK'
  BY <1>15 DEF Fault
<1>16. ASSUME NEW c \in Caller, Crash(c) PROVE StoreTypeOK'
  BY <1>16 DEF Crash
<1>17. ASSUME NEW c \in Caller, NEW k \in Kinds, BeginAppend(c, k) PROVE StoreTypeOK'
  <2>1. CASE Fenced(c, k)
    <3>1. Record(c, k) \in Records
      OBVIOUS
    <3>2. platter' \in FileSets
      BY <1>17 DEF BeginAppend, SyncedLog
    <3>3. /\ holder' = c /\ call' = [call EXCEPT ![c] = "append"]
          /\ event' = [event EXCEPT ![c] = Record(c, k)]
          /\ UNCHANGED <<disk, seen, promises>>
      BY <1>17, <2>1 DEF BeginAppend
    <3>4. \E l \in {"create", "truncate", "write"} : pc' = [pc EXCEPT ![c] = l]
      BY <1>17, <2>1 DEF BeginAppend
    <3> QED
      BY <3>1, <3>2, <3>3, <3>4
  <2>2. CASE ~Fenced(c, k)
    BY <1>17, <2>2 DEF BeginAppend, SyncedLog
  <2> QED
    BY <2>1, <2>2
<1>18. ASSUME NEW c \in Caller, NEW name \in Retention, Compact(c, name) PROVE StoreTypeOK'
  BY <1>18 DEF Compact, CompactionStep, SyncedLog
<1>19. ASSUME NEW c \in Caller, CreateTemporary(c) \/ FillTemporary(c) \/ UnlinkTemporary(c)
       PROVE  StoreTypeOK'
  BY <1>19 DEF CreateTemporary, FillTemporary, UnlinkTemporary, TemporaryStep
<1>20. ASSUME NEW c \in Caller, Links(c, "terminal") \/ Links(c, "tombstone") PROVE StoreTypeOK'
  <2>1. \/ disk' = [disk EXCEPT !.terminal = disk.log.records]
        \/ disk' = [disk EXCEPT !.tombstone = TRUE]
    BY <1>20, LinkSteps
  <2>2. pc' = [pc EXCEPT ![c] = "unlinkTemporary"]
    BY <1>20, LinkSteps
  <2>3. UNCHANGED <<platter, holder, call, event, seen, promises>>
    BY <1>20, LinkSteps DEF Links
  <2> QED
    BY <2>1, <2>2, <2>3
<1>21. ASSUME NEW c \in Caller, Links(c, "snapshot") PROVE StoreTypeOK'
  <2>1. disk' = [disk EXCEPT !.snapshot = TRUE]
    BY <1>21, LinkSteps
  <2>2. pc' = [pc EXCEPT ![c] = "syncLinked"]
    BY <1>21, LinkSteps
  <2>3. UNCHANGED <<platter, holder, call, event, seen, promises>>
    BY <1>21, LinkSteps DEF Links
  <2> QED
    BY <2>1, <2>2, <2>3
<1>22. ASSUME NEW c \in Caller, SyncLinked(c) PROVE StoreTypeOK'
  BY <1>22, WriteKinds, SyncSteps DEF SyncStep, Targets
<1>23. ASSUME NEW c \in Caller, Discard(c) PROVE StoreTypeOK'
  BY <1>23 DEF Discard
<1>24. ASSUME NEW c \in Caller, SyncLogs(c) PROVE StoreTypeOK'
  BY <1>24, SyncSteps DEF SyncStep
<1>25. ASSUME NEW c \in Caller, LinkTemporary(c) PROVE StoreTypeOK'
  BY <1>20, <1>21, <1>25, WriteKinds DEF Targets
<1>26. ASSUME NEW c \in Caller, SyncTerminals(c) PROVE StoreTypeOK'
  BY <1>26, SyncSteps DEF SyncStep
<1>27. ASSUME NEW c \in Caller, SyncSnapshots(c) PROVE StoreTypeOK'
  BY <1>27, SyncSteps DEF SyncStep
<1>28. ASSUME NEW c \in Caller, SyncTombstones(c) PROVE StoreTypeOK'
  BY <1>28, SyncSteps DEF SyncStep
<1>29. ASSUME NEW c \in Caller, UnlinkLog(c) PROVE StoreTypeOK'
  <2>1. CASE disk.log # NoFiles.log
    <3>1. /\ disk' = [disk EXCEPT !.log = NoLog] /\ Goto(c, "syncLogs")
          /\ UNCHANGED <<platter, call, event, seen, promises, temporaries, bounds>>
      BY <1>29, <2>1 DEF UnlinkLog, RemoveFile, NoFiles
    <3> QED
      BY <3>1
  <2>2. CASE disk.log = NoFiles.log
    BY <1>29, <2>2 DEF UnlinkLog, RemoveFile
  <2> QED
    BY <2>1, <2>2
<1>30. ASSUME NEW c \in Caller, UnlinkTerminal(c) PROVE StoreTypeOK'
  BY <1>30 DEF UnlinkTerminal, RemoveFile, NoFiles, NoLog
<1>31. ASSUME NEW c \in Caller, UnlinkSnapshot(c) PROVE StoreTypeOK'
  <2>1. CASE disk.snapshot # NoFiles.snapshot
    <3>1. /\ disk' = [disk EXCEPT !.snapshot = FALSE] /\ Goto(c, "syncSnapshots")
          /\ UNCHANGED <<platter, call, event, seen, promises, temporaries, bounds>>
      BY <1>31, <2>1 DEF UnlinkSnapshot, RemoveFile, NoFiles
    <3> QED
      BY <3>1
  <2>2. CASE disk.snapshot = NoFiles.snapshot
    BY <1>31, <2>2 DEF UnlinkSnapshot, RemoveFile
  <2> QED
    BY <2>1, <2>2
<1>32. ASSUME NEW c \in Caller, UnlinkTombstone(c) PROVE StoreTypeOK'
  <2>1. CASE disk.tombstone # NoFiles.tombstone
    <3>1. /\ disk' = [disk EXCEPT !.tombstone = FALSE] /\ Goto(c, "syncTombstones")
          /\ UNCHANGED <<platter, call, event, seen, promises, temporaries, bounds>>
      BY <1>32, <2>1 DEF UnlinkTombstone, RemoveFile, NoFiles
    <3> QED
      BY <3>1
  <2>2. CASE disk.tombstone = NoFiles.tombstone
    BY <1>32, <2>2 DEF UnlinkTombstone, RemoveFile
  <2> QED
    BY <2>1, <2>2
<1>33. ASSUME PowerLoss PROVE StoreTypeOK'
  <2>1. LogsLeft \subseteq LogFiles
    BY LogsLeftFacts
  <2>2. FilesLeft \subseteq FileSets
    BY <2>1 DEF FilesLeft
  <2> QED
    BY <1>33, <2>2 DEF PowerLoss
<1>34. ASSUME UNCHANGED storeVars PROVE StoreTypeOK'
  BY <1>34 DEF storeVars, callers
<1> QED
  BY <1>1, <1>2, <1>3, <1>4, <1>5, <1>6, <1>7, <1>8, <1>9, <1>10, <1>11, <1>12, <1>13,
     <1>14, <1>15, <1>16, <1>17, <1>18, <1>19, <1>20, <1>21, <1>22, <1>23, <1>24, <1>25,
     <1>26, <1>27, <1>28, <1>29, <1>30, <1>31, <1>32, <1>33, <1>34 DEF StoreNext,
     AppendStep, WriteStep, RetentionStep

-----------------------------------------------------------------------------
(* Prefixes, and the steps that change no file that matters *)

\* Prefixes of histories; Unknown is none.
LEMMA PrefixFacts ==
    /\ \A s \in Histories : IsPrefix(s, s)
    /\ \A s, t \in Histories : IsPrefix(s, t) /\ Len(s) = Len(t) => s = t
    /\ \A s, t \in Histories, r \in Records : IsPrefix(s, t) => IsPrefix(s, Append(t, r))
    /\ Unknown \notin Histories
    /\ \A s \in Histories : IsPrefix(<<>>, s)
<1>1. \A s \in Histories : s \in Seq(Records) /\ Len(s) \in Nat /\ SubSeq(s, 1, Len(s)) = s
  BY DEF Histories
<1>2. \A s \in Histories : IsPrefix(s, s)
  BY <1>1 DEF IsPrefix
<1>3. \A s, t \in Histories : IsPrefix(s, t) /\ Len(s) = Len(t) => s = t
  BY <1>1 DEF IsPrefix
<1>4. ASSUME NEW s \in Histories, NEW t \in Histories, NEW r \in Records, IsPrefix(s, t)
      PROVE  IsPrefix(s, Append(t, r))
  <2>1. Len(Append(t, r)) = Len(t) + 1 /\ Append(t, r) \in Seq(Records)
    BY <1>1, AppendProperties
  <2>2. SubSeq(Append(t, r), 1, Len(s)) = SubSeq(t, 1, Len(s))
    BY <1>1, <1>4, <2>1 DEF IsPrefix
  <2> QED
    BY <1>1, <1>4, <2>1, <2>2 DEF IsPrefix
<1>5. Unknown \notin Histories
  BY StoreAssumption DEF Unknown, NoRecord, Histories, Records
<1>6. \A s \in Histories : IsPrefix(<<>>, s)
  BY <1>1 DEF IsPrefix
<1> QED
  BY <1>2, <1>3, <1>4, <1>5, <1>6

\* The empty history is not complete.
LEMMA EmptyOpen == ~Completed(<<>>)
<1>1. DOMAIN <<>> = {}
  BY EmptySeq, LenProperties
<1> QED
  BY <1>1 DEF Completed, Has

\* Revision zero takes only operation_created.
LEMMA AcceptsFirst == \A k \in Kinds : Accepts(<<>>, k) => k = "created"
<1>1. ~Completed(<<>>)
  BY EmptyOpen
<1>2. ASSUME NEW k \in Kinds, Accepts(<<>>, k) PROVE k = "created"
  <2>1. CASE k = "progress"
    BY <1>2, <2>1 DEF Accepts
  <2>2. CASE k = "completed"
    BY <1>2, <2>2 DEF Accepts
  <2>3. CASE k = "content_expired"
    BY <1>1, <1>2, <2>3 DEF Accepts
  <2> QED
    BY <2>1, <2>2, <2>3 DEF Kinds
<1> QED
  BY <1>2

\* Steps that touch neither the records nor what outranks what.
Quiet == UNCHANGED <<disk.log, disk.terminal, disk.tombstone,
                     platter.log, platter.terminal, platter.tombstone, purging>>
QuietStep(c) ==
    \/ Acknowledge(c) \/ Finish(c) \/ Compacted(c) \/ PruneExpired(c) \/ Prune(c)
    \/ Links(c, "snapshot") \/ Syncs(c, "snapshot") \/ UnlinkSnapshot(c) \/ SyncSnapshots(c)
    \/ CreateTemporary(c) \/ FillTemporary(c) \/ UnlinkTemporary(c) \/ Discard(c)
    \/ Fault(c) \/ Crash(c)

\* Steps that begin a call and read the log, which they sync.
ReadingStep(c) ==
    \/ Load(c) \/ Snapshot(c) \/ Purge(c)
    \/ \E k \in Kinds : BeginAppend(c, k)
    \/ \E name \in Retention : Compact(c, name)

\* Steps that write or sync the log of an append.
LogStep(c) ==
    \/ CreateLog(c) \/ TruncateTail(c) \/ WritePart(c) \/ WriteRest(c)
    \/ SyncLog(c) \/ SyncLogEntry(c)

\* Steps that write, sync or remove a file for retention.
RetireStep(c) ==
    \/ Links(c, "terminal") \/ Syncs(c, "terminal") \/ UnlinkLog(c) \/ SyncLogs(c)
    \/ Links(c, "tombstone") \/ Syncs(c, "tombstone") \/ UnlinkTerminal(c) \/ SyncTerminals(c)
    \/ UnlinkTombstone(c) \/ SyncTombstones(c)

\* Every step is one of these.
LEMMA Steps ==
    ASSUME StoreInv, [StoreNext]_storeVars
    PROVE  \/ \E c \in Caller : QuietStep(c) \/ ReadingStep(c) \/ LogStep(c) \/ RetireStep(c)
           \/ PowerLoss \/ UNCHANGED storeVars
<1>1. ASSUME NEW c \in Caller, WriteStep(c) PROVE QuietStep(c) \/ RetireStep(c)
  BY <1>1, WriteKinds DEF WriteStep, Targets, QuietStep, RetireStep
<1> QED
  BY <1>1 DEF StoreNext, AppendStep, RetentionStep, QuietStep, ReadingStep, LogStep, RetireStep

\* Acknowledgements, failures and the snapshot cache leave records, terminal and
\* tombstone as they are.
LEMMA QuietSteps ==
    ASSUME StoreInv, NEW c \in Caller, QuietStep(c)
    PROVE  Quiet
<1> USE DEF StoreInv, StoreTypeOK, FileSets, Quiet, files, promises
<1>1. CASE Links(c, "snapshot") \/ Syncs(c, "snapshot") \/ SyncSnapshots(c)
  BY <1>1, LinkSteps, SyncSteps DEF Links, Syncs, SyncStep
<1>0. CASE CreateTemporary(c) \/ FillTemporary(c) \/ UnlinkTemporary(c) \/ Discard(c)
  BY <1>0 DEF CreateTemporary, FillTemporary, UnlinkTemporary, Discard, TemporaryStep
<1>2. CASE UnlinkSnapshot(c)
  <2>1. \/ disk' = [disk EXCEPT !.snapshot = FALSE] /\ UNCHANGED <<platter, promises>>
        \/ UNCHANGED <<files, promises>>
    BY <1>2 DEF UnlinkSnapshot, RemoveFile, NoFiles
  <2> QED
    BY <2>1
<1>3. CASE Acknowledge(c) \/ Finish(c) \/ Compacted(c) \/ PruneExpired(c)
  BY <1>3 DEF Acknowledge, Finish, Compacted, PruneExpired
<1>4. CASE Prune(c) \/ Fault(c) \/ Crash(c)
  BY <1>4 DEF Prune, Fault, Crash
<1> QED
  BY <1>0, <1>1, <1>2, <1>3, <1>4 DEF QuietStep

\* What a removal does, and the file it is of.
LEMMA Removals ==
    ASSUME NEW c \in Caller
    PROVE  /\ UnlinkLog(c) => UNCHANGED disk \/ disk' = [disk EXCEPT !.log = NoLog]
           /\ UnlinkTerminal(c) => UNCHANGED disk \/ disk' = [disk EXCEPT !.terminal = <<>>]
           /\ UnlinkTombstone(c) => UNCHANGED disk \/ disk' = [disk EXCEPT !.tombstone = FALSE]
           /\ UnlinkLog(c) \/ UnlinkTerminal(c) \/ UnlinkTombstone(c) =>
                 UNCHANGED <<platter, holder, call, event, seen, promises, temporaries, bounds>>
           /\ UnlinkLog(c) =>
                 \E l \in {"syncLogs", "compacted", "finish"} : pc' = [pc EXCEPT ![c] = l]
           /\ UnlinkTerminal(c) =>
                 \E l \in {"syncTerminals", "unlinkSnapshot"} : pc' = [pc EXCEPT ![c] = l]
           /\ UnlinkTombstone(c) => \/ pc' = [pc EXCEPT ![c] = "syncTombstones"]
                                    \/ pc' = [pc EXCEPT ![c] = "unlinkTerminal"]
<1> USE DEF RemoveFile, NoFiles, Goto, files
<1>1. UnlinkLog(c) =>
        /\ UNCHANGED disk \/ disk' = [disk EXCEPT !.log = NoLog]
        /\ UNCHANGED <<platter, holder, call, event, seen, promises, temporaries, bounds>>
        /\ \E l \in {"syncLogs", "compacted", "finish"} : pc' = [pc EXCEPT ![c] = l]
  BY DEF UnlinkLog
<1>2. UnlinkTerminal(c) =>
        /\ UNCHANGED disk \/ disk' = [disk EXCEPT !.terminal = <<>>]
        /\ UNCHANGED <<platter, holder, call, event, seen, promises, temporaries, bounds>>
        /\ \E l \in {"syncTerminals", "unlinkSnapshot"} : pc' = [pc EXCEPT ![c] = l]
  BY DEF UnlinkTerminal
<1>3. UnlinkTombstone(c) =>
        /\ UNCHANGED disk \/ disk' = [disk EXCEPT !.tombstone = FALSE]
        /\ UNCHANGED <<platter, holder, call, event, seen, promises, temporaries, bounds>>
        /\ \/ pc' = [pc EXCEPT ![c] = "syncTombstones"]
           \/ pc' = [pc EXCEPT ![c] = "unlinkTerminal"]
  BY DEF UnlinkTombstone
<1> QED
  BY <1>1, <1>2, <1>3

\* What acknowledgements, failures and the steps of retention and of the snapshot
\* leave as it is.
LEMMA Frames ==
    ASSUME NEW c \in Caller
    PROVE  /\ RetireStep(c) => UNCHANGED <<holder, call, event, seen, promises, bounds>>
           /\ QuietStep(c) /\ ~Acknowledge(c) =>
                 /\ UNCHANGED <<promises, losses>>
                 /\ UNCHANGED seen \/ seen' = [seen EXCEPT ![c] = Unknown]
           /\ Acknowledge(c) => UNCHANGED <<answer, purging, losses>>
<1> USE DEF bounds, files
<1>1. ASSUME RetireStep(c) PROVE UNCHANGED <<holder, call, event, seen, promises, bounds>>
  <2>1. CASE LinkTemporary(c)
    BY <2>1, LinkSteps
  <2>2. CASE SyncStep(c)
    BY <2>2, SyncSteps
  <2>3. CASE UnlinkLog(c) \/ UnlinkTerminal(c) \/ UnlinkTombstone(c)
    BY <2>3, Removals
  <2> QED
    BY <1>1, <2>1, <2>2, <2>3 DEF RetireStep, Links, Syncs, SyncStep
<1>2. ASSUME QuietStep(c), ~Acknowledge(c)
      PROVE  /\ UNCHANGED <<promises, losses>>
             /\ UNCHANGED seen \/ seen' = [seen EXCEPT ![c] = Unknown]
  <2>1. CASE LinkTemporary(c)
    BY <2>1, LinkSteps
  <2>2. CASE SyncStep(c)
    BY <2>2, SyncSteps
  <2>3. CASE CreateTemporary(c) \/ FillTemporary(c) \/ UnlinkTemporary(c) \/ Discard(c)
    BY <2>3 DEF CreateTemporary, FillTemporary, UnlinkTemporary, Discard, TemporaryStep
  <2>4. CASE Finish(c) \/ Compacted(c) \/ PruneExpired(c) \/ Prune(c)
    BY <2>4 DEF Finish, Compacted, PruneExpired, Prune
  <2>5. CASE UnlinkSnapshot(c)
    BY <2>5 DEF UnlinkSnapshot, RemoveFile
  <2>6. CASE Fault(c) \/ Crash(c)
    BY <2>6 DEF Fault, Crash, Forget
  <2> QED
    BY <1>2, <2>1, <2>2, <2>3, <2>4, <2>5, <2>6 DEF QuietStep, Links, Syncs, SyncStep
<1>3. Acknowledge(c) => UNCHANGED <<answer, purging, losses>>
  BY DEF Acknowledge
<1> QED
  BY <1>1, <1>2, <1>3

\* A call that begins leaves the files alone but for syncing the log.
LEMMA ReadingSteps ==
    ASSUME NEW c \in Caller, ReadingStep(c)
    PROVE  /\ UNCHANGED disk
           /\ \/ platter' = platter
              \/ disk.log.exists /\ platter' = [platter EXCEPT !.log = disk.log]
           /\ (purging => purging')
<1>1. UNCHANGED disk /\ (purging => purging') /\ platter' \in {platter, SyncedLog}
  <2>1. CASE Load(c)
    BY <2>1 DEF Load
  <2>2. CASE Snapshot(c)
    BY <2>2 DEF Snapshot, promises
  <2>3. CASE Purge(c)
    BY <2>3 DEF Purge
  <2>4. ASSUME NEW k \in Kinds, BeginAppend(c, k)
        PROVE  UNCHANGED <<disk, purging>> /\ platter' \in {platter, SyncedLog}
    BY <2>4 DEF BeginAppend, promises
  <2>5. ASSUME NEW name \in Retention, Compact(c, name)
        PROVE  UNCHANGED <<disk, purging>> /\ platter' \in {platter, SyncedLog}
    BY <2>5 DEF Compact, promises
  <2> QED
    BY <2>1, <2>2, <2>3, <2>4, <2>5 DEF ReadingStep
<1>2. \/ platter' = platter
      \/ disk.log.exists /\ platter' = [platter EXCEPT !.log = disk.log]
  <2>1. platter' = platter \/ platter' = SyncedLog
    BY <1>1
  <2>2. CASE disk.log.exists
    BY <2>1, <2>2 DEF SyncedLog
  <2>3. CASE ~disk.log.exists
    BY <2>1, <2>3 DEF SyncedLog
  <2> QED
    BY <2>2, <2>3
<1> QED
  BY <1>1, <1>2

\* An append touches the log alone, with nothing beside it on disk or platter.
LEMMA LogSteps ==
    ASSUME StoreInv, NEW c \in Caller, LogStep(c)
    PROVE  /\ ~purging /\ UNCHANGED <<purging, answer>>
           /\ \A f \in {disk, platter} : f.terminal = <<>> /\ ~f.tombstone
           /\ UNCHANGED <<disk.terminal, disk.tombstone, platter.terminal, platter.tombstone>>
<1> USE DEF StoreInv, StoreTypeOK, FileSets, LogFiles, AppendInv, Writing, Written, At, promises
<1>1. CASE CreateLog(c) \/ TruncateTail(c)
  BY <1>1 DEF PlatterInv, CreateLog, TruncateTail
<1>2. CASE WritePart(c) \/ WriteRest(c)
  BY <1>2 DEF PlatterInv, WritePart, WriteRest
<1>3. CASE SyncLog(c) \/ SyncLogEntry(c)
  BY <1>3 DEF PlatterInv, SyncLog, SyncLogEntry
<1> QED
  BY <1>1, <1>2, <1>3 DEF LogStep

\* Every step keeps the platter behind the disk: link, sync, unlink, in that order.
LEMMA StepPlatter == StoreInv /\ [StoreNext]_storeVars => PlatterInv'
<1> SUFFICES ASSUME StoreInv, [StoreNext]_storeVars PROVE PlatterInv'
  OBVIOUS
<1> USE DEF StoreInv, StoreTypeOK, FileSets, PlatterInv
<1>1. ASSUME NEW c \in Caller, QuietStep(c) PROVE PlatterInv'
  BY <1>1, QuietSteps DEF Quiet
<1>2. ASSUME NEW c \in Caller, ReadingStep(c) PROVE PlatterInv'
  BY <1>2, ReadingSteps
<1>3. ASSUME NEW c \in Caller, LogStep(c) PROVE PlatterInv'
  BY <1>3, LogSteps
<1>4. ASSUME NEW c \in Caller, Links(c, "terminal") \/ Links(c, "tombstone") PROVE PlatterInv'
  BY <1>4, LinkSteps DEF Links, promises, AppendInv, RetentionInv, At
<1>5. ASSUME NEW c \in Caller, Syncs(c, "terminal") \/ SyncTerminals(c) \/ SyncLogs(c)
      PROVE  PlatterInv'
  BY <1>5, SyncSteps DEF Syncs, SyncStep, promises
<1>6. ASSUME NEW c \in Caller, Syncs(c, "tombstone") \/ SyncTombstones(c) PROVE PlatterInv'
  BY <1>6, SyncSteps DEF Syncs, SyncStep, promises
<1>7. ASSUME NEW c \in Caller, UnlinkLog(c) PROVE PlatterInv'
  BY <1>7, Removals DEF promises
<1>8. ASSUME NEW c \in Caller, UnlinkTerminal(c) PROVE PlatterInv'
  <2>1. purging \/ disk.tombstone
    BY <1>8 DEF UnlinkTerminal, At, RetentionInv
  <2> QED
    BY <1>8, <2>1, Removals DEF promises
<1>9. ASSUME NEW c \in Caller, UnlinkTombstone(c) PROVE PlatterInv'
  <2>1. purging
    BY <1>9 DEF UnlinkTombstone, At, RetentionInv
  <2> QED
    BY <1>9, <2>1, Removals DEF promises
<1>10. ASSUME PowerLoss PROVE PlatterInv'
  BY <1>10 DEF PowerLoss
<1>11. ASSUME UNCHANGED storeVars PROVE PlatterInv'
  BY <1>11 DEF storeVars, files, promises
<1> QED
  BY <1>1, <1>2, <1>3, <1>4, <1>5, <1>6, <1>7, <1>8, <1>9, <1>10, <1>11, Steps DEF RetireStep

\* Every step keeps the copies of an operation in agreement.
LEMMA StepCopies == StoreInv /\ [StoreNext]_storeVars => CopiesInv'
<1> SUFFICES ASSUME StoreInv, [StoreNext]_storeVars PROVE CopiesInv'
  OBVIOUS
<1> USE DEF StoreInv, StoreTypeOK, FileSets, CopiesInv, Beside
<1>1. ASSUME NEW c \in Caller, QuietStep(c) PROVE CopiesInv'
  BY <1>1, QuietSteps DEF Quiet
<1>2. ASSUME NEW c \in Caller, ReadingStep(c) PROVE CopiesInv'
  BY <1>2, ReadingSteps
<1>3. ASSUME NEW c \in Caller, LogStep(c) PROVE CopiesInv'
  BY <1>3, LogSteps
<1>4. ASSUME NEW c \in Caller, Links(c, "terminal") PROVE CopiesInv'
  BY <1>4, LinkSteps DEF Links, RetentionInv, At
<1>5. ASSUME NEW c \in Caller, Links(c, "tombstone") PROVE CopiesInv'
  BY <1>5, LinkSteps DEF Links, RetentionInv, At
<1>6. ASSUME NEW c \in Caller, Syncs(c, "terminal") \/ SyncTerminals(c) PROVE CopiesInv'
  BY <1>6, SyncSteps DEF Syncs, SyncStep
<1>7. ASSUME NEW c \in Caller, Syncs(c, "tombstone") \/ SyncTombstones(c) PROVE CopiesInv'
  BY <1>7, SyncSteps DEF Syncs, SyncStep
<1>8. ASSUME NEW c \in Caller, SyncLogs(c) PROVE CopiesInv'
  BY <1>8, SyncSteps DEF SyncStep
<1>9. ASSUME NEW c \in Caller, UnlinkLog(c) PROVE CopiesInv'
  BY <1>9, Removals DEF NoLog
<1>10. ASSUME NEW c \in Caller, UnlinkTerminal(c) \/ UnlinkTombstone(c) PROVE CopiesInv'
  BY <1>10, Removals
<1>11. ASSUME PowerLoss PROVE CopiesInv'
  <2>1. PICK f \in FilesLeft : disk' = f /\ platter' = f
    BY <1>11 DEF PowerLoss
  <2>2. /\ f.log \in LogsLeft
        /\ f.terminal \in {disk.terminal, platter.terminal}
        /\ f.tombstone \in {disk.tombstone, platter.tombstone}
    BY DEF FilesLeft
  <2>3. f.log.exists =>
          \/ disk.log.exists /\ f.log.records \in {disk.log.records, platter.log.records}
          \/ platter.log.exists /\ f.log.records = platter.log.records
    BY <2>2, LogsLeftFacts
  <2>4. f.terminal # <<>> => Completed(f.terminal)
    BY <2>2
  <2>5. f.log.exists => Beside(f.log.records, f)
    BY <2>2, <2>3
  <2> QED
    BY <2>1, <2>4, <2>5
<1>12. ASSUME UNCHANGED storeVars PROVE CopiesInv'
  BY <1>12 DEF storeVars, files
<1> QED
  BY <1>1, <1>2, <1>3, <1>4, <1>5, <1>6, <1>7, <1>8, <1>9, <1>10, <1>11, <1>12, Steps
     DEF RetireStep

\* No load finds files that disagree.
LEMMA StepAnswer == StoreInv /\ [StoreNext]_storeVars => answer' # "corrupt"
<1> SUFFICES ASSUME StoreInv, [StoreNext]_storeVars PROVE answer' # "corrupt"
  OBVIOUS
<1>1. ASSUME NEW c \in Caller, Load(c) PROVE answer' # "corrupt"
  <2>1. ~Disagrees(disk)
    BY DEF StoreInv, CopiesInv, Beside, Disagrees
  <2> QED
    BY <1>1, <2>1, AnswerFacts DEF Load
<1>2. CASE UNCHANGED answer
  BY <1>2 DEF StoreInv
<1>3. ASSUME NEW c \in Caller, ReadingStep(c), ~Load(c) PROVE UNCHANGED answer
  BY <1>3 DEF ReadingStep, Snapshot, Purge, BeginAppend, Compact, promises
<1>4. ASSUME NEW c \in Caller, QuietStep(c) PROVE UNCHANGED answer
  BY <1>4, Frames DEF promises
<1>5. ASSUME NEW c \in Caller, RetireStep(c) PROVE UNCHANGED answer
  BY <1>5, Frames DEF promises
<1>6. ASSUME NEW c \in Caller, LogStep(c) PROVE UNCHANGED answer
  BY <1>6, LogSteps
<1>7. PowerLoss \/ UNCHANGED storeVars => UNCHANGED answer
  BY DEF PowerLoss, storeVars, promises
<1> QED
  BY <1>1, <1>2, <1>3, <1>4, <1>5, <1>6, <1>7, Steps

\* Every step keeps what retention calls have established.
LEMMA StepRetention == StoreInv /\ [StoreNext]_storeVars => RetentionInv'
<1> SUFFICES ASSUME StoreInv, [StoreNext]_storeVars PROVE RetentionInv'
  OBVIOUS
<1> USE StoreAssumption DEF StoreInv, StoreTypeOK, FileSets, RetentionInv, Goto, Return, End, At,
        Idle, files, promises, temporaries,
        Targets, Temporary, NoTemporary, GoOn, WritePcs, LinkedPcs, Writes, Linked
<1>1. ASSUME NEW c \in Caller, Load(c) PROVE RetentionInv'
  BY <1>1 DEF Load
<1>2. ASSUME NEW c \in Caller, Snapshot(c) PROVE RetentionInv'
  BY <1>2 DEF Snapshot
<1>3. ASSUME NEW c \in Caller, Purge(c) PROVE RetentionInv'
  BY <1>3 DEF Purge
<1>4. ASSUME NEW c \in Caller, CreateLog(c) \/ TruncateTail(c) \/ WritePart(c) PROVE RetentionInv'
  BY <1>4 DEF CreateLog, TruncateTail, WritePart
<1>5. ASSUME NEW c \in Caller, WriteRest(c) PROVE RetentionInv'
  BY <1>5 DEF WriteRest
<1>6. ASSUME NEW c \in Caller, SyncLog(c) \/ SyncLogEntry(c) PROVE RetentionInv'
  BY <1>6 DEF SyncLog, SyncLogEntry
<1>7. ASSUME NEW c \in Caller, Acknowledge(c) \/ Finish(c) \/ Compacted(c) PROVE RetentionInv'
  BY <1>7 DEF Acknowledge, Finish, Compacted
<1>8. ASSUME NEW c \in Caller, PruneExpired(c) PROVE RetentionInv'
  BY <1>8 DEF PruneExpired
<1>9. ASSUME NEW c \in Caller, Prune(c) PROVE RetentionInv'
  BY <1>9 DEF Prune, PruneStep
<1>10. ASSUME NEW c \in Caller, Fault(c) PROVE RetentionInv'
  <2>1. CASE Lies(temporary[c]) /\ pc[c] # "discard"
    <3>1. temporary[c].of \in Targets
      BY <2>1 DEF Lies
    <3> QED
      BY <1>10, <2>1, <3>1 DEF Fault
  <2>2. CASE ~(Lies(temporary[c]) /\ pc[c] # "discard")
    BY <1>10, <2>2 DEF Fault, Abandon
  <2> QED
    BY <2>1, <2>2
<1>11. ASSUME NEW c \in Caller, Crash(c) PROVE RetentionInv'
  BY <1>11 DEF Crash, Abandon
<1>12. ASSUME NEW c \in Caller, Links(c, "snapshot") PROVE RetentionInv'
  BY <1>12, LinkSteps, TemporarySteps DEF Links
<1>13. ASSUME NEW c \in Caller, Links(c, "terminal") PROVE RetentionInv'
  <2>1. disk.log.records # <<>>
    BY <1>13, EmptyOpen, LinkSteps
  <2> QED
    BY <1>13, <2>1, LinkSteps DEF Links
<1>14. ASSUME NEW c \in Caller, Links(c, "tombstone") PROVE RetentionInv'
  BY <1>14, LinkSteps DEF Links
<1>15. ASSUME NEW c \in Caller, Syncs(c, "snapshot") \/ SyncSnapshots(c) PROVE RetentionInv'
  BY <1>15, SyncSteps DEF Syncs, SyncStep
<1>16. ASSUME NEW c \in Caller, Syncs(c, "terminal") \/ SyncTerminals(c) PROVE RetentionInv'
  BY <1>16, SyncSteps DEF Syncs, SyncStep
<1>17. ASSUME NEW c \in Caller, SyncLogs(c) PROVE RetentionInv'
  BY <1>17, SyncSteps DEF SyncStep
<1>18. ASSUME NEW c \in Caller, Syncs(c, "tombstone") \/ SyncTombstones(c) PROVE RetentionInv'
  BY <1>18, SyncSteps DEF Syncs, SyncStep
<1>19. ASSUME NEW c \in Caller, UnlinkSnapshot(c) PROVE RetentionInv'
  BY <1>19 DEF UnlinkSnapshot, RemoveFile
<1>20. ASSUME NEW c \in Caller, UnlinkLog(c) PROVE RetentionInv'
  <2>1. pc' = [pc EXCEPT ![c] = "compacted"] => call[c] = "prune"
    BY <1>20 DEF UnlinkLog, RemoveFile
  <2> QED
    BY <1>20, <2>1, Removals DEF UnlinkLog
<1>21. ASSUME NEW c \in Caller, UnlinkTerminal(c) PROVE RetentionInv'
  BY <1>21, Removals DEF UnlinkTerminal
<1>22. ASSUME NEW c \in Caller, UnlinkTombstone(c) PROVE RetentionInv'
  BY <1>22, Removals DEF UnlinkTombstone
<1>23. ASSUME NEW c \in Caller, NEW k \in Kinds, BeginAppend(c, k) PROVE RetentionInv'
  BY <1>23 DEF BeginAppend
<1>24. ASSUME NEW c \in Caller, NEW name \in Retention, Compact(c, name) PROVE RetentionInv'
  <2>1. ~disk.tombstone /\ History(disk) # <<>> /\ Completed(History(disk))
    BY <1>24, AnswerFacts DEF Compact
  <2>2. CASE disk.terminal # <<>>
    BY <1>24, <2>1, <2>2 DEF Compact, CompactionStep
  <2>3. CASE disk.terminal = <<>>
    <3>1. disk.log.exists /\ Completed(disk.log.records)
      BY <2>1, <2>3 DEF History, AppendInv
    <3>2. platter' = [platter EXCEPT !.log = disk.log]
      BY <1>24, <3>1 DEF Compact, SyncedLog
    <3> QED
      BY <1>24, <2>1, <2>3, <3>1, <3>2 DEF Compact, CompactionStep
  <2> QED
    BY <2>2, <2>3
<1>25. ASSUME PowerLoss PROVE RetentionInv'
  BY <1>25 DEF PowerLoss
<1>26. ASSUME UNCHANGED storeVars PROVE RetentionInv'
  BY <1>26 DEF storeVars, callers
<1>27. ASSUME NEW c \in Caller, CreateTemporary(c) \/ FillTemporary(c) \/ UnlinkTemporary(c)
       PROVE  RetentionInv'
  BY <1>27, TemporarySteps
<1>28. ASSUME NEW c \in Caller, Discard(c) PROVE RetentionInv'
  BY <1>28 DEF Discard
<1> QED
  BY <1>1, <1>2, <1>3, <1>4, <1>5, <1>6, <1>7, <1>8, <1>9, <1>10, <1>11, <1>12, <1>13,
     <1>14, <1>15, <1>16, <1>17, <1>18, <1>19, <1>20, <1>21, <1>22, <1>23, <1>24, <1>25,
     <1>26, <1>27, <1>28,
     Steps DEF QuietStep, ReadingStep, LogStep, RetireStep

\* A record is appended with nothing beside the log that outranks it, to the
\* history the append was decided on.
LEMMA StepAppend == StoreInv /\ [StoreNext]_storeVars => AppendInv'
<1> SUFFICES ASSUME StoreInv, [StoreNext]_storeVars PROVE AppendInv'
  OBVIOUS
<1> USE StoreAssumption DEF StoreInv, StoreTypeOK, FileSets, LogFiles, AppendInv, Writing,
        Written, Goto, Return, End, Forget, At, Idle, files,
        promises, temporaries, GoOn
<1>1. ASSUME NEW c \in Caller, Load(c) PROVE AppendInv'
  BY <1>1 DEF Load
<1>2. ASSUME NEW c \in Caller, Snapshot(c) PROVE AppendInv'
  BY <1>2 DEF Snapshot
<1>3. ASSUME NEW c \in Caller, Purge(c) PROVE AppendInv'
  BY <1>3 DEF Purge
<1>4. ASSUME NEW c \in Caller, CreateLog(c) \/ TruncateTail(c) \/ WritePart(c) PROVE AppendInv'
  BY <1>4 DEF CreateLog, TruncateTail, WritePart
<1>5. ASSUME NEW c \in Caller, WriteRest(c) PROVE AppendInv'
  BY <1>5 DEF WriteRest
<1>6. ASSUME NEW c \in Caller, SyncLog(c) \/ SyncLogEntry(c) PROVE AppendInv'
  BY <1>6 DEF SyncLog, SyncLogEntry
<1>7. ASSUME NEW c \in Caller, Acknowledge(c) \/ Finish(c) \/ Compacted(c) PROVE AppendInv'
  BY <1>7 DEF Acknowledge, Finish, Compacted
<1>8. ASSUME NEW c \in Caller, PruneExpired(c) PROVE AppendInv'
  BY <1>8 DEF PruneExpired
<1>9. ASSUME NEW c \in Caller, Prune(c) PROVE AppendInv'
  BY <1>9 DEF Prune, PruneStep
<1>10. ASSUME NEW c \in Caller, Fault(c) PROVE AppendInv'
  BY <1>10 DEF Fault
<1>11. ASSUME NEW c \in Caller, Crash(c) PROVE AppendInv'
  BY <1>11 DEF Crash
<1>12. ASSUME NEW c \in Caller,
              Links(c, "snapshot") \/ Links(c, "terminal") \/ Links(c, "tombstone")
       PROVE  AppendInv'
  BY <1>12, LinkSteps DEF Links
<1>13. ASSUME NEW c \in Caller, Syncs(c, "snapshot") \/ SyncSnapshots(c) \/ SyncLogs(c)
       PROVE  AppendInv'
  BY <1>13, SyncSteps DEF Syncs, SyncStep
<1>14. ASSUME NEW c \in Caller, Syncs(c, "terminal") \/ SyncTerminals(c) PROVE AppendInv'
  BY <1>14, SyncSteps DEF Syncs, SyncStep
<1>15. ASSUME NEW c \in Caller, Syncs(c, "tombstone") \/ SyncTombstones(c) PROVE AppendInv'
  BY <1>15, SyncSteps DEF Syncs, SyncStep
<1>16. ASSUME NEW c \in Caller, UnlinkSnapshot(c) PROVE AppendInv'
  BY <1>16 DEF UnlinkSnapshot, RemoveFile
<1>17. ASSUME NEW c \in Caller, UnlinkLog(c) PROVE AppendInv'
  BY <1>17, Removals DEF UnlinkLog, NoLog
<1>18. ASSUME NEW c \in Caller, UnlinkTerminal(c) PROVE AppendInv'
  BY <1>18, Removals DEF UnlinkTerminal
<1>19. ASSUME NEW c \in Caller, UnlinkTombstone(c) PROVE AppendInv'
  BY <1>19, Removals DEF UnlinkTombstone
<1>20. ASSUME NEW c \in Caller, NEW k \in Kinds, BeginAppend(c, k) PROVE AppendInv'
  <2>1. CASE ~Fenced(c, k)
    BY <1>20, <2>1 DEF BeginAppend
  <2>2. CASE Fenced(c, k)
    <3>1. seen[c] \in Histories /\ disk.log.records \in Histories
      BY <1>20 DEF BeginAppend
    <3>2. IsPrefix(seen[c], disk.log.records) /\ Len(seen[c]) = Len(disk.log.records)
      BY <1>20, <2>2 DEF BeginAppend, Fenced, SeenInv, History
    <3>3. disk.log.records = seen[c]
      BY <3>1, <3>2, PrefixFacts
    <3>4. seen[c] = <<>> => k = "created"
      BY <2>2, <3>3, AcceptsFirst DEF Fenced
    <3>5. Record(c, k) \in Records /\ (seen[c] = <<>> => Record(c, k).kind = "created")
      BY <3>4, HistoryTypes DEF Record
    <3>6. ~purging /\ ~disk.tombstone /\ disk.terminal = <<>>
      BY <1>20, <2>2 DEF BeginAppend, Fenced
    <3>7. /\ UNCHANGED <<disk, seen, purging>>
          /\ holder' = c
          /\ event'[c] = Record(c, k)
          /\ pc'[c] \in Writing /\ (pc'[c] # "create" => disk.log.exists)
      BY <1>20, <2>2 DEF BeginAppend
    <3> QED
      BY <3>1, <3>3, <3>5, <3>6, <3>7
  <2> QED
    BY <2>1, <2>2
<1>21. ASSUME NEW c \in Caller, NEW name \in Retention, Compact(c, name) PROVE AppendInv'
  BY <1>21 DEF Compact, CompactionStep
<1>22. ASSUME PowerLoss PROVE AppendInv'
  <2>1. disk'.log = NoLog \/ disk'.log.exists
    BY <1>22, LogsLeftFacts DEF PowerLoss, FilesLeft
  <2> QED
    BY <1>22, <2>1 DEF PowerLoss, NoLog
<1>23. ASSUME UNCHANGED storeVars PROVE AppendInv'
  BY <1>23 DEF storeVars, callers
<1>24. ASSUME NEW c \in Caller, CreateTemporary(c) \/ FillTemporary(c) \/ UnlinkTemporary(c)
       PROVE  AppendInv'
  BY <1>24, TemporarySteps
<1>25. ASSUME NEW c \in Caller, Discard(c) PROVE AppendInv'
  BY <1>25 DEF Discard
<1> QED
  BY <1>1, <1>2, <1>3, <1>4, <1>5, <1>6, <1>7, <1>8, <1>9, <1>10, <1>11, <1>12, <1>13,
     <1>14, <1>15, <1>16, <1>17, <1>18, <1>19, <1>20, <1>21, <1>22, <1>23, <1>24, <1>25,
     Steps DEF QuietStep, ReadingStep, LogStep, RetireStep

\* Every step keeps what a caller saw the beginning of what is there.
LEMMA StepSeen == StoreInv /\ [StoreNext]_storeVars => SeenInv'
<1> SUFFICES ASSUME StoreInv, [StoreNext]_storeVars PROVE SeenInv'
  OBVIOUS
<1> USE DEF StoreInv, StoreTypeOK, FileSets, LogFiles
<1> DEFINE Shows == ~purging /\ ~disk.tombstone
           Kept  == /\ \A c \in Caller : seen'[c] \in {seen[c], Unknown}
                    /\ Shows' => Shows /\ History(disk)' = History(disk)
<1>0. ASSUME Kept PROVE SeenInv'
  BY <1>0 DEF SeenInv
<1>1. ASSUME NEW c \in Caller, QuietStep(c), ~Acknowledge(c) PROVE Kept
  <2>1. Shows' => Shows /\ History(disk)' = History(disk)
    BY <1>1, QuietSteps DEF Quiet, History
  <2>2. UNCHANGED seen \/ seen' = [seen EXCEPT ![c] = Unknown]
    BY <1>1, Frames
  <2> QED
    BY <2>1, <2>2
<1>2. ASSUME NEW c \in Caller, Acknowledge(c) PROVE SeenInv'
  <2>1. disk.terminal = <<>> /\ UNCHANGED <<disk, purging>>
    BY <1>2 DEF Acknowledge, At, AppendInv, Written, files
  <2>2. seen' = [seen EXCEPT ![c] = History(disk)]
    BY <1>2, <2>1 DEF Acknowledge, History
  <2>3. IsPrefix(History(disk), History(disk))
    BY HistoryTypes, PrefixFacts
  <2> QED
    BY <2>1, <2>2, <2>3 DEF SeenInv
<1>3. ASSUME NEW c \in Caller, Load(c) PROVE SeenInv'
  <2>1. /\ UNCHANGED <<disk, purging>>
        /\ \/ seen' = [seen EXCEPT ![c] = History(disk)]
           \/ seen' = [seen EXCEPT ![c] = Unknown]
    BY <1>3 DEF Load
  <2>2. IsPrefix(History(disk), History(disk))
    BY HistoryTypes, PrefixFacts
  <2> QED
    BY <2>1, <2>2 DEF SeenInv
<1>4. ASSUME NEW c \in Caller, ReadingStep(c), ~Load(c) PROVE Kept
  <2>1. UNCHANGED disk /\ (purging => purging')
    BY <1>4, ReadingSteps
  <2>2. UNCHANGED seen \/ seen' = [seen EXCEPT ![c] = Unknown]
    BY <1>4 DEF ReadingStep, Snapshot, Purge, BeginAppend, Compact, Forget
  <2> QED
    BY <2>1, <2>2
<1>5. ASSUME NEW c \in Caller, LogStep(c), ~WriteRest(c) PROVE Kept
  <2>1. disk'.log.records = disk.log.records /\ UNCHANGED <<disk.terminal, seen>>
    BY <1>5 DEF LogStep, CreateLog, TruncateTail, WritePart, SyncLog, SyncLogEntry
  <2> QED
    BY <1>5, <2>1, LogSteps DEF History
<1>6. ASSUME NEW c \in Caller, WriteRest(c) PROVE SeenInv'
  <2>1. /\ disk.terminal = <<>> /\ ~disk.tombstone /\ ~purging
        /\ event[c] \in Records
    BY <1>6 DEF WriteRest, At, AppendInv, Writing
  <2>2. disk'.terminal = <<>> /\ disk'.log.records = Append(disk.log.records, event[c])
    BY <1>6, <2>1 DEF WriteRest
  <2>3. History(disk)' = Append(History(disk), event[c])
    BY <2>1, <2>2 DEF History
  <2>4. UNCHANGED seen
    BY <1>6 DEF WriteRest
  <2>5. ASSUME NEW d \in Caller, seen[d] # Unknown
        PROVE  IsPrefix(seen[d], Append(History(disk), event[c]))
    <3>1. IsPrefix(seen[d], History(disk))
      BY <2>1, <2>5 DEF SeenInv
    <3>2. seen[d] \in Histories /\ History(disk) \in Histories
      BY <2>5, HistoryTypes
    <3> QED
      BY <2>1, <3>1, <3>2, PrefixFacts
  <2> QED
    BY <2>3, <2>4, <2>5 DEF SeenInv
<1>7. ASSUME NEW c \in Caller, Links(c, "terminal") \/ Links(c, "tombstone") PROVE Kept
  BY <1>7, LinkSteps DEF Links, RetentionInv, At, History, promises
<1>8. ASSUME NEW c \in Caller, Syncs(c, "terminal") \/ SyncTerminals(c) \/ SyncLogs(c) PROVE Kept
  BY <1>8, SyncSteps DEF Syncs, SyncStep, promises
<1>9. ASSUME NEW c \in Caller, Syncs(c, "tombstone") \/ SyncTombstones(c) PROVE Kept
  BY <1>9, SyncSteps DEF Syncs, SyncStep, promises
<1>10. ASSUME NEW c \in Caller, UnlinkLog(c) PROVE Kept
  <2>1. purging \/ disk.terminal # <<>>
    BY <1>10 DEF UnlinkLog, At, RetentionInv
  <2>2. UNCHANGED disk \/ disk' = [disk EXCEPT !.log = NoLog]
    BY <1>10, Removals
  <2> QED
    BY <1>10, <2>1, <2>2, Removals DEF promises, History
<1>11. ASSUME NEW c \in Caller, UnlinkTerminal(c) PROVE Kept
  <2>1. purging \/ disk.tombstone
    BY <1>11 DEF UnlinkTerminal, At, RetentionInv
  <2> QED
    BY <1>11, <2>1, Removals DEF promises
<1>12. ASSUME NEW c \in Caller, UnlinkTombstone(c) PROVE Kept
  <2>1. purging
    BY <1>12 DEF UnlinkTombstone, At, RetentionInv
  <2> QED
    BY <1>12, <2>1, Removals DEF promises
<1>13. ASSUME PowerLoss PROVE SeenInv'
  BY <1>13 DEF PowerLoss, SeenInv
<1>14. ASSUME UNCHANGED storeVars PROVE Kept
  BY <1>14 DEF storeVars, files, callers, promises
<1> QED
  BY <1>0, <1>1, <1>2, <1>3, <1>4, <1>5, <1>6, <1>7, <1>8, <1>9, <1>10, <1>11, <1>12, <1>13,
     <1>14, Steps DEF RetireStep

-----------------------------------------------------------------------------
(* The theorems *)

\* The inductive invariant holds in every state, whatever dies, fails or loses
\* power, and whichever calls of retention are made.
THEOREM StoreInvariant == StoreSpec => []StoreInv
<1>1. StoreInit => StoreInv
  <2> SUFFICES ASSUME StoreInit PROVE StoreInv
    OBVIOUS
  <2>1. StoreTypeOK
    BY HistoryTypes DEF StoreInit, StoreTypeOK, StorePcs, Answers, NoTemporary, Temporary
  <2>2. disk.log = NoLog /\ disk.terminal = <<>> /\ ~disk.tombstone
    BY DEF StoreInit, NoFiles
  <2>3. AppendInv /\ RetentionInv
    BY <2>2 DEF StoreInit, AppendInv, RetentionInv, Writing, Written, WritePcs, LinkedPcs,
       Writes, Linked, NoLog
  <2>4. PlatterInv /\ CopiesInv
    BY DEF StoreInit, PlatterInv, CopiesInv, NoFiles, NoLog
  <2>5. SeenInv
    BY <2>2, HistoryTypes, PrefixFacts DEF StoreInit, SeenInv, History, NoLog
  <2> QED
    BY <2>1, <2>3, <2>4, <2>5 DEF StoreInit, StoreInv
<1>2. StoreInv /\ [StoreNext]_storeVars => StoreInv'
  BY StepTypes, StepAppend, StepRetention, StepPlatter, StepCopies, StepSeen, StepAnswer
     DEF StoreInv
<1> QED
  BY <1>1, <1>2, PTL DEF StoreSpec

\* Whatever state a call, a crash or a power loss leaves, every file holds
\* nothing or a history that starts with operation_created.
THEOREM StoreTypesOK == StoreSpec => []StoreTypeOK
<1>1. StoreInv => StoreTypeOK
  BY DEF StoreInv
<1> QED
  BY <1>1, StoreInvariant, PTL

\* No interrupted compaction, prune or purge leaves copies of an operation that
\* loadLocked would reject: readLog's records, the terminal record and the
\* tombstone agree, on the disk and on what a power loss is sure to leave.
THEOREM StoreCopiesAgree == StoreSpec => []CopiesAgree
<1>1. StoreInv => CopiesAgree
  BY DEF StoreInv, CopiesInv, Beside, CopiesAgree, Disagrees
<1> QED
  BY <1>1, StoreInvariant, PTL

\* An append that reaches its acknowledgement extended exactly the history whose
\* length was its expected revision, though other processes appended, crashed or
\* lost power since it was read.
THEOREM StoreAppendedToWhatWasSeen == StoreSpec => []AppendedToWhatWasSeen
<1>1. StoreInv => AppendedToWhatWasSeen
  BY DEF StoreInv, AppendInv, Written, AppendedToWhatWasSeen, At
<1> QED
  BY <1>1, StoreInvariant, PTL

-----------------------------------------------------------------------------
(* Durability of appends, where no retention call is made *)

\* Where callers can be while no retention call is made.
AppendPcs ==
    {"idle", "discard", "finish"} \cup Writing \cup Written \cup WritePcs \cup LinkedPcs

\* What was acknowledged begins every log there can be, and its file has an entry
\* that a power loss leaves.
DurableInv ==
    /\ ~purging
    /\ \A f \in {disk, platter} : ~f.tombstone /\ f.terminal = <<>>
    /\ IsPrefix(acked, disk.log.records) /\ IsPrefix(acked, platter.log.records)
    /\ acked # <<>> => disk.log.exists /\ platter.log.exists
    /\ \A c \in Caller :
        /\ pc[c] \in AppendPcs
        /\ holder = c /\ pc[c] \in WritePcs \cup LinkedPcs => temporary[c].of = "snapshot"
        /\ seen[c] \notin {Unknown, <<>>} => platter.log.exists
        /\ holder = c /\ pc[c] \in {"syncLogEntry", "acknowledge"} =>
              disk.log.exists /\ platter.log.records = disk.log.records
        /\ holder = c /\ pc[c] = "sync" => disk.log.exists
        /\ holder = c /\ pc[c] = "acknowledge" => platter.log.exists

\* Every step keeps what was acknowledged on the disk and on the platter.
LEMMA StepDurable ==
    Retention = {} /\ StoreInv /\ DurableInv /\ [StoreNext]_storeVars => DurableInv'
<1> SUFFICES ASSUME Retention = {}, StoreInv, DurableInv, [StoreNext]_storeVars
             PROVE  DurableInv'
  OBVIOUS
<1> USE StoreAssumption DEF StoreInv, StoreTypeOK, FileSets, LogFiles, DurableInv, AppendPcs,
        Writing, Written, Goto, Return, End, Forget, At, Idle, files,
        promises, temporaries, GoOn, Temporary, WritePcs, LinkedPcs, Links, Syncs
<1>1. ASSUME NEW c \in Caller, Load(c) PROVE DurableInv'
  <2>1. UNCHANGED <<disk, holder, pc, purging>> /\ History(disk) = disk.log.records
    BY <1>1 DEF Load, History
  <2>2. IsPrefix(disk.log.records, disk.log.records)
    BY PrefixFacts
  <2>3. CASE disk.log.exists
    <3>1. platter' = [platter EXCEPT !.log = disk.log]
      BY <1>1, <2>3 DEF Load, SyncedLog
    <3>2. acked' \in {acked, disk.log.records} /\ holder = NoCaller
      BY <1>1, <2>1 DEF Load
    <3>3. platter'.log = disk.log /\ ~platter'.tombstone /\ platter'.terminal = <<>>
      BY <3>1
    <3> QED
      BY <2>1, <2>2, <2>3, <3>2, <3>3
  <2>4. CASE ~disk.log.exists
    <3>1. UNCHANGED platter
      BY <1>1, <2>4 DEF Load, SyncedLog
    <3>2. disk.log.records = <<>> /\ acked = <<>>
      BY <2>4 DEF AppendInv
    <3>3. acked' = <<>> /\ holder = NoCaller
      BY <1>1, <2>1, <3>2 DEF Load
    <3>4. \A d \in Caller : seen'[d] \in {seen[d], Unknown, <<>>}
      BY <1>1, <2>1, <3>2 DEF Load
    <3> QED
      BY <2>1, <3>1, <3>2, <3>3, <3>4
  <2> QED
    BY <2>3, <2>4
<1>2. ASSUME NEW c \in Caller, Snapshot(c) PROVE DurableInv'
  BY <1>2 DEF Snapshot, SyncedLog
<1>3. ASSUME NEW c \in Caller, Purge(c) \/ PruneExpired(c) PROVE FALSE
  BY <1>3 DEF Purge, PruneExpired
<1>4. ASSUME NEW c \in Caller, CreateLog(c) \/ TruncateTail(c) \/ WritePart(c) PROVE DurableInv'
  BY <1>4 DEF CreateLog, TruncateTail, WritePart
<1>5. ASSUME NEW c \in Caller, WriteRest(c) PROVE DurableInv'
  <2>1. event[c] \in Records /\ disk.log.exists
    BY <1>5 DEF WriteRest, AppendInv
  <2>2. IsPrefix(acked, Append(disk.log.records, event[c]))
    BY <2>1, PrefixFacts
  <2> QED
    BY <1>5, <2>1, <2>2 DEF WriteRest
<1>6. ASSUME NEW c \in Caller, SyncLog(c) PROVE DurableInv'
  <2>1. CASE seen[c] = <<>>
    BY <1>6, <2>1 DEF SyncLog
  <2>2. CASE seen[c] # <<>>
    <3>1. seen[c] # Unknown
      BY <1>6, PrefixFacts DEF SyncLog, AppendInv
    <3> QED
      BY <1>6, <2>2, <3>1 DEF SyncLog
  <2> QED
    BY <2>1, <2>2
<1>7. ASSUME NEW c \in Caller, SyncLogEntry(c) PROVE DurableInv'
  BY <1>7 DEF SyncLogEntry
<1>8. ASSUME NEW c \in Caller, Acknowledge(c) PROVE DurableInv'
  <2>1. IsPrefix(disk.log.records, disk.log.records)
    BY PrefixFacts
  <2> QED
    BY <1>8, <2>1 DEF Acknowledge
<1>9. ASSUME NEW c \in Caller, Finish(c) \/ Fault(c) PROVE DurableInv'
  BY <1>9 DEF Finish, Fault, Abandon
<1>10. ASSUME NEW c \in Caller, Crash(c) PROVE DurableInv'
  BY <1>10 DEF Crash, Abandon
<1>11. ASSUME NEW c \in Caller, Links(c, "snapshot") PROVE DurableInv'
  <2>1. /\ UNCHANGED <<disk.log, disk.terminal, disk.tombstone>>
        /\ pc' = [pc EXCEPT ![c] = "syncLinked"]
        /\ UNCHANGED <<platter, holder, call, event, seen, promises>>
    BY <1>11, LinkSteps DEF Links
  <2>2. \A d \in Caller : temporary'[d].of = temporary[d].of
    BY <1>11, TemporarySteps
  <2>3. At(c, "linkTemporary")
    BY <1>11, LinkSteps
  <2> QED
    BY <2>1, <2>2, <2>3
<1>12. ASSUME NEW c \in Caller, Syncs(c, "snapshot") PROVE DurableInv'
  BY <1>12, SyncSteps DEF SyncStep
<1>13. ASSUME NEW c \in Caller,
              \/ RetireStep(c) \/ Compacted(c) \/ Prune(c) \/ UnlinkSnapshot(c) \/ SyncSnapshots(c)
       PROVE  FALSE
  BY <1>13, LinkSteps, SyncSteps DEF RetireStep, Writes, Linked, UnlinkLog, UnlinkTerminal,
     UnlinkTombstone, Compacted, Prune, UnlinkSnapshot
<1>14. ASSUME NEW c \in Caller, NEW k \in Kinds, BeginAppend(c, k) PROVE DurableInv'
  <2>1. UNCHANGED <<disk, acked, purging>> /\ platter' = SyncedLog /\ holder = NoCaller
    BY <1>14 DEF BeginAppend
  <2>2. \/ UNCHANGED pc
        \/ \E l \in Writing : pc' = [pc EXCEPT ![c] = l]
    BY <1>14 DEF BeginAppend
  <2>3. \A d \in Caller : seen'[d] \in {seen[d], Unknown}
    BY <1>14 DEF BeginAppend
  <2>4. holder' \in {c, NoCaller} /\ (holder' = c => pc'[c] \in Writing)
    BY <1>14 DEF BeginAppend
  <2>5. CASE disk.log.exists
    BY <2>1, <2>2, <2>3, <2>4, <2>5 DEF SyncedLog
  <2>6. CASE ~disk.log.exists
    BY <2>1, <2>2, <2>3, <2>4, <2>6 DEF SyncedLog
  <2> QED
    BY <2>5, <2>6
<1>15. ASSUME PowerLoss PROVE DurableInv'
  <2>1. PICK f \in FilesLeft : disk' = f /\ platter' = f
    BY <1>15 DEF PowerLoss
  <2>2. f.log \in LogsLeft /\ ~f.tombstone /\ f.terminal = <<>>
    BY DEF FilesLeft
  <2>3. f.log = NoLog \/ f.log.exists
    BY <2>2, LogsLeftFacts
  <2>4. CASE f.log = NoLog
    <3>1. ~(disk.log.exists /\ platter.log.exists)
      BY <2>2, <2>4 DEF LogsLeft, NoLog
    <3>2. acked = <<>>
      BY <3>1
    <3> QED
      BY <1>15, <2>1, <2>2, <2>4, <3>2, PrefixFacts, HistoryTypes DEF PowerLoss, NoLog
  <2>5. CASE f.log.exists
    <3>1. f.log.records \in {disk.log.records, platter.log.records}
      BY <2>2, <2>5, LogsLeftFacts
    <3> QED
      BY <1>15, <2>1, <2>2, <2>5, <3>1 DEF PowerLoss
  <2> QED
    BY <2>3, <2>4, <2>5
<1>16. ASSUME UNCHANGED storeVars PROVE DurableInv'
  BY <1>16 DEF storeVars, callers
<1>17. ASSUME NEW c \in Caller, NEW name \in Retention PROVE FALSE
  BY <1>17
<1>18. ASSUME NEW c \in Caller, CreateTemporary(c) \/ FillTemporary(c) \/ UnlinkTemporary(c)
       PROVE  DurableInv'
  BY <1>18, TemporarySteps
<1>19. ASSUME NEW c \in Caller, Discard(c) PROVE DurableInv'
  BY <1>19 DEF Discard
<1> QED
  BY <1>1, <1>2, <1>3, <1>4, <1>5, <1>6, <1>7, <1>8, <1>9, <1>10, <1>11, <1>12, <1>13,
     <1>14, <1>15, <1>16, <1>17, <1>18, <1>19,
     Steps DEF QuietStep, ReadingStep, LogStep

\* Without retention calls, what was acknowledged is on the disk and on the platter.
LEMMA Durable ==
    ASSUME Retention = {}
    PROVE  StoreSpec => []DurableInv
<1>1. StoreInit => DurableInv
  <2> SUFFICES ASSUME StoreInit PROVE DurableInv
    OBVIOUS
  <2>1. /\ disk = NoFiles /\ platter = NoFiles /\ acked = <<>>
        /\ NoFiles.log.records = <<>> /\ NoFiles.terminal = <<>> /\ ~NoFiles.tombstone
    BY DEF StoreInit, NoFiles, NoLog
  <2>2. IsPrefix(<<>>, <<>>)
    BY HistoryTypes, PrefixFacts
  <2> QED
    BY <2>1, <2>2, StoreAssumption DEF StoreInit, DurableInv, AppendPcs, WritePcs,
       LinkedPcs
<1>2. StoreInv /\ DurableInv /\ [StoreNext]_storeVars => DurableInv'
  BY StepDurable
<1> QED
  BY <1>1, <1>2, StoreInvariant, PTL DEF StoreSpec

\* An event a caller was told is durable survives every crash and every power
\* loss, of any number, as long as its operation is not compacted or pruned: the
\* fsyncs of append, and of the log that is read again, are enough.
THEOREM AppendsAreDurable ==
    ASSUME Retention = {}
    PROVE  StoreSpec => []AcknowledgedSurvives
<1>1. StoreInv /\ DurableInv => AcknowledgedSurvives
  <2> SUFFICES ASSUME StoreInv, DurableInv PROVE AcknowledgedSurvives
    OBVIOUS
  <2>1. Keeps(disk)
    BY DEF DurableInv, Keeps, History
  <2>2. ASSUME NEW f \in FilesLeft PROVE Keeps(f)
    <3>1. f.log \in LogsLeft /\ f.terminal = <<>>
      BY DEF FilesLeft, DurableInv
    <3>2. f.log = NoLog \/ f.log.exists
      BY <3>1, LogsLeftFacts DEF StoreInv
    <3>3. CASE f.log = NoLog
      <4>1. acked = <<>>
        BY <3>1, <3>3 DEF LogsLeft, NoLog, DurableInv, StoreInv, StoreTypeOK, FileSets, LogFiles
      <4>2. IsPrefix(<<>>, <<>>)
        BY HistoryTypes, PrefixFacts
      <4> QED
        BY <3>1, <3>3, <4>1, <4>2 DEF Keeps, History, NoLog
    <3>4. CASE f.log.exists
      <4>1. f.log.records \in {disk.log.records, platter.log.records}
        BY <3>1, <3>4, LogsLeftFacts DEF StoreInv
      <4> QED
        BY <3>1, <4>1 DEF Keeps, History, DurableInv
    <3> QED
      BY <3>2, <3>3, <3>4
  <2> QED
    BY <2>1, <2>2 DEF AcknowledgedSurvives
<1> QED
  BY <1>1, Durable, StoreInvariant, PTL

-----------------------------------------------------------------------------
(* What retention leaves, where no power is lost *)

\* Where a prune or a purge is among the removals, and what has gone by then.
CopyInv ==
    /\ disk.tombstone \/ purging => ~disk.log.exists
    /\ \A c \in Caller : pc[c] \in {"compacted", "prune"} =>
          ~disk.log.exists /\ (purging \/ disk.tombstone \/ disk.terminal # <<>>)
    /\ \A c \in Caller : holder = c =>
        /\ Writes(c, "snapshot") \/ Linked(c, "snapshot") => call[c] = "snapshot"
        /\ Writes(c, "terminal") \/ Linked(c, "terminal") => call[c] \in {"compact", "prune"}
        /\ pc[c] \in {"unlinkLog", "syncLogs"} => call[c] \in {"compact", "prune", "purge"}
        /\ pc[c] = "syncLogs" => ~disk.log.exists /\ (purging \/ disk.terminal # <<>>)
        /\ Writes(c, "tombstone") \/ Linked(c, "tombstone") =>
              call[c] = "prune" /\ ~disk.log.exists
        /\ pc[c] \in {"unlinkTerminal", "syncTerminals", "unlinkSnapshot", "syncSnapshots"} =>
              /\ call[c] \in {"prune", "purge"} /\ ~disk.log.exists
              /\ disk.tombstone <=> call[c] = "prune"
        /\ pc[c] = "syncTombstones" => ~disk.tombstone
        /\ pc[c] \in {"syncTerminals", "unlinkSnapshot", "syncSnapshots"} =>
              disk.terminal = <<>>
        /\ pc[c] = "syncSnapshots" => ~disk.snapshot
        /\ pc[c] \in {"unlinkLog", "syncLogs"} /\ call[c] = "purge" => disk = NoFiles
        /\ pc[c] = "finish" /\ call[c] = "prune" =>
              disk = [NoFiles EXCEPT !.tombstone = TRUE]
        /\ pc[c] = "finish" /\ call[c] = "purge" => disk = NoFiles

\* A log that is not there has no records and no torn tail.
LogInv == ~disk.log.exists => disk.log = NoLog

\* The inductive invariant of retention.
RemovalInv == losses \in Nat /\ LogInv /\ (losses = 0 => CopyInv)

\* Every step leaves either a whole log or none at all.
LEMMA StepLog == StoreInv /\ LogInv /\ [StoreNext]_storeVars => LogInv'
<1> SUFFICES ASSUME StoreInv, LogInv, [StoreNext]_storeVars PROVE LogInv'
  OBVIOUS
<1> USE DEF StoreInv, StoreTypeOK, FileSets, LogFiles, LogInv
<1>1. ASSUME NEW c \in Caller, QuietStep(c) PROVE LogInv'
  BY <1>1, QuietSteps DEF Quiet
<1>2. ASSUME NEW c \in Caller, ReadingStep(c) PROVE LogInv'
  BY <1>2, ReadingSteps
<1>3. ASSUME NEW c \in Caller, LogStep(c) PROVE LogInv'
  <2>1. CASE CreateLog(c) \/ SyncLog(c) \/ SyncLogEntry(c)
    BY <2>1 DEF CreateLog, SyncLog, SyncLogEntry
  <2>2. CASE TruncateTail(c) \/ WritePart(c) \/ WriteRest(c)
    <3>1. disk.log.exists
      BY <2>2 DEF TruncateTail, WritePart, WriteRest, At, AppendInv, Writing
    <3>2. disk'.log.exists = disk.log.exists
      <4>1. ASSUME TruncateTail(c) PROVE disk'.log.exists = disk.log.exists
        BY <4>1 DEF TruncateTail
      <4>2. ASSUME WritePart(c) PROVE disk'.log.exists = disk.log.exists
        BY <4>2 DEF WritePart
      <4>3. ASSUME WriteRest(c) PROVE disk'.log.exists = disk.log.exists
        BY <4>3 DEF WriteRest
      <4> QED
        BY <2>2, <4>1, <4>2, <4>3
    <3> QED
      BY <3>1, <3>2
  <2> QED
    BY <1>3, <2>1, <2>2 DEF LogStep
<1>4. ASSUME NEW c \in Caller, RetireStep(c) PROVE LogInv'
  <2>1. disk'.log \in {disk.log, NoLog}
    BY <1>4, Removals, LinkSteps, SyncSteps DEF RetireStep, Links, Syncs, SyncStep
  <2> QED
    BY <2>1
<1>5. ASSUME PowerLoss PROVE LogInv'
  <2>1. disk'.log \in LogsLeft
    BY <1>5 DEF PowerLoss, FilesLeft
  <2> QED
    BY <2>1, LogsLeftFacts
<1>6. CASE UNCHANGED storeVars
  BY <1>6 DEF storeVars, files
<1> QED
  BY <1>1, <1>2, <1>3, <1>4, <1>5, <1>6, Steps

\* Files of which only the tombstone may be left.
LEMMA Emptied ==
    ASSUME NEW f \in FileSets, f.log = NoLog, f.terminal = <<>>, ~f.snapshot
    PROVE  /\ f.tombstone => f = [NoFiles EXCEPT !.tombstone = TRUE]
           /\ ~f.tombstone => f = NoFiles
<1>1. \A g \in FileSets : g = [log |-> g.log, terminal |-> g.terminal,
                               tombstone |-> g.tombstone, snapshot |-> g.snapshot]
  BY DEF FileSets
<1>2. f.tombstone \in BOOLEAN /\ f.snapshot = FALSE
  BY DEF FileSets
<1>3. DEFINE marked == [NoFiles EXCEPT !.tombstone = TRUE]
<1>4. /\ marked \in FileSets /\ marked.tombstone = TRUE
      /\ marked.log = NoLog /\ marked.terminal = <<>> /\ marked.snapshot = FALSE
  BY HistoryTypes DEF NoFiles, FileSets
<1> QED
  BY <1>1, <1>2, <1>4 DEF NoFiles

\* Beside a log that is being created or written there is nothing retention keeps.
LEMMA StepCopy ==
    StoreInv /\ LogInv /\ CopyInv /\ [StoreNext]_storeVars /\ ~PowerLoss => CopyInv'
<1> SUFFICES ASSUME StoreInv, LogInv, CopyInv, [StoreNext]_storeVars, ~PowerLoss
             PROVE  CopyInv'
  OBVIOUS
<1> USE StoreAssumption DEF StoreInv, StoreTypeOK, FileSets, LogFiles, LogInv, CopyInv, AppendInv,
        RetentionInv, Writing, Written, Goto, Return, End, Forget, At, Idle, files,
        promises, temporaries, GoOn, Temporary, Targets,
        WritePcs, LinkedPcs, Writes, Linked
<1>1. ASSUME NEW c \in Caller, Load(c) \/ Snapshot(c) PROVE CopyInv'
  BY <1>1 DEF Load, Snapshot
<1>2. ASSUME NEW c \in Caller, Purge(c) PROVE CopyInv'
  BY <1>2, AnswerFacts DEF Purge
<1>3. ASSUME NEW c \in Caller, NEW k \in Kinds, BeginAppend(c, k) PROVE CopyInv'
  BY <1>3 DEF BeginAppend, Fenced
<1>4. ASSUME NEW c \in Caller, NEW name \in Retention, Compact(c, name) PROVE CopyInv'
  BY <1>4, AnswerFacts DEF Compact, CompactionStep
<1>5. ASSUME NEW c \in Caller, CreateLog(c) PROVE CopyInv'
  BY <1>5 DEF CreateLog
<1>6. ASSUME NEW c \in Caller, TruncateTail(c) PROVE CopyInv'
  BY <1>6 DEF TruncateTail
<1>7. ASSUME NEW c \in Caller, WritePart(c) PROVE CopyInv'
  BY <1>7 DEF WritePart
<1>8. ASSUME NEW c \in Caller, WriteRest(c) PROVE CopyInv'
  BY <1>8 DEF WriteRest
<1>9. ASSUME NEW c \in Caller, SyncLog(c) PROVE CopyInv'
  BY <1>9 DEF SyncLog
<1>10. ASSUME NEW c \in Caller, SyncLogEntry(c) PROVE CopyInv'
  BY <1>10 DEF SyncLogEntry
<1>11. ASSUME NEW c \in Caller, Acknowledge(c) PROVE CopyInv'
  BY <1>11 DEF Acknowledge
<1>12. ASSUME NEW c \in Caller, Finish(c) PROVE CopyInv'
  BY <1>12 DEF Finish
<1>13. ASSUME NEW c \in Caller, Fault(c) PROVE CopyInv'
  BY <1>13 DEF Fault, Abandon
<1>14. ASSUME NEW c \in Caller, Crash(c) PROVE CopyInv'
  BY <1>14 DEF Crash, Abandon
<1>15. ASSUME NEW c \in Caller, Compacted(c) PROVE CopyInv'
  BY <1>15 DEF Compacted
<1>16. ASSUME NEW c \in Caller, PruneExpired(c) PROVE CopyInv'
  BY <1>16 DEF PruneExpired
<1>17. ASSUME NEW c \in Caller, Prune(c) PROVE CopyInv'
  BY <1>17 DEF Prune, PruneStep
<1>18. ASSUME NEW c \in Caller, Links(c, "snapshot") PROVE CopyInv'
  <2>1. /\ UNCHANGED <<disk.log, disk.terminal, disk.tombstone>>
        /\ At(c, "linkTemporary") /\ pc' = [pc EXCEPT ![c] = "syncLinked"]
        /\ UNCHANGED <<platter, holder, call, event, seen, promises>>
        /\ temporary[c].of = "snapshot" /\ call[c] = "snapshot"
    BY <1>18, LinkSteps DEF Links
  <2>2. \A d \in Caller : temporary'[d].of = temporary[d].of
    BY <1>18, TemporarySteps
  <2> QED
    BY <2>1, <2>2
<1>19. ASSUME NEW c \in Caller, Links(c, "terminal") PROVE CopyInv'
  BY <1>19, LinkSteps DEF Links
<1>20. ASSUME NEW c \in Caller, Links(c, "tombstone") PROVE CopyInv'
  BY <1>20, LinkSteps DEF Links
<1>21. ASSUME NEW c \in Caller, Syncs(c, "snapshot") PROVE CopyInv'
  BY <1>21, SyncSteps DEF Syncs, SyncStep
<1>22. ASSUME NEW c \in Caller, Syncs(c, "terminal") PROVE CopyInv'
  BY <1>22, SyncSteps DEF Syncs, SyncStep
<1>23. ASSUME NEW c \in Caller, SyncLogs(c) PROVE CopyInv'
  BY <1>23, SyncSteps DEF SyncStep
<1>24. ASSUME NEW c \in Caller, Syncs(c, "tombstone") PROVE CopyInv'
  BY <1>24, SyncSteps DEF Syncs, SyncStep
<1>25. ASSUME NEW c \in Caller, SyncTerminals(c) PROVE CopyInv'
  BY <1>25, SyncSteps DEF SyncStep
<1>26. ASSUME NEW c \in Caller, SyncSnapshots(c) PROVE CopyInv'
  <2>1. disk \in FileSets /\ UNCHANGED disk
    BY <1>26, SyncSteps DEF SyncStep
  <2>2. /\ disk.tombstone => disk = [NoFiles EXCEPT !.tombstone = TRUE]
        /\ ~disk.tombstone => disk = NoFiles
    BY <1>26, <2>1, SyncSteps, Emptied
  <2> QED
    BY <1>26, <2>2, SyncSteps DEF SyncStep
<1>27. ASSUME NEW c \in Caller, SyncTombstones(c) PROVE CopyInv'
  BY <1>27, SyncSteps DEF SyncStep
<1>28. ASSUME NEW c \in Caller, UnlinkLog(c) PROVE CopyInv'
  BY <1>28 DEF UnlinkLog, RemoveFile, NoFiles, NoLog
<1>29. ASSUME NEW c \in Caller, UnlinkTerminal(c) PROVE CopyInv'
  BY <1>29 DEF UnlinkTerminal, RemoveFile, NoFiles, NoLog
<1>30. ASSUME NEW c \in Caller, UnlinkSnapshot(c) PROVE CopyInv'
  <2>1. CASE disk.snapshot
    <3>1. /\ disk' = [disk EXCEPT !.snapshot = FALSE] /\ Goto(c, "syncSnapshots")
          /\ UNCHANGED <<platter, call, event, seen, promises, temporaries, bounds>>
      BY <1>30, <2>1 DEF UnlinkSnapshot, RemoveFile, NoFiles
    <3> QED
      BY <1>30, <3>1 DEF UnlinkSnapshot
  <2>2. CASE ~disk.snapshot
    <3>1. disk \in FileSets /\ UNCHANGED <<files, call, event, seen, promises, bounds>>
      BY <1>30, <2>2 DEF UnlinkSnapshot, RemoveFile, NoFiles
    <3>2. /\ disk.tombstone => disk = [NoFiles EXCEPT !.tombstone = TRUE]
          /\ ~disk.tombstone => disk = NoFiles
      BY <1>30, <2>2, <3>1, Emptied DEF UnlinkSnapshot
    <3>3. Goto(c, IF call[c] = "purge" THEN "unlinkLog" ELSE "finish")
      BY <1>30, <2>2 DEF UnlinkSnapshot, RemoveFile, NoFiles
    <3> QED
      BY <1>30, <3>1, <3>2, <3>3 DEF UnlinkSnapshot
  <2> QED
    BY <2>1, <2>2
<1>31. ASSUME NEW c \in Caller, UnlinkTombstone(c) PROVE CopyInv'
  <2>1. CASE disk.tombstone
    <3>1. /\ disk' = [disk EXCEPT !.tombstone = FALSE] /\ Goto(c, "syncTombstones")
          /\ UNCHANGED <<platter, call, event, seen, promises, temporaries, bounds>>
      BY <1>31, <2>1 DEF UnlinkTombstone, RemoveFile, NoFiles
    <3>2. call[c] = "purge" /\ purging
      BY <1>31 DEF UnlinkTombstone
    <3> QED
      BY <1>31, <3>1, <3>2 DEF UnlinkTombstone
  <2>2. CASE ~disk.tombstone
    <3>1. UNCHANGED disk /\ Goto(c, "unlinkTerminal")
      BY <1>31, <2>2 DEF UnlinkTombstone, RemoveFile, NoFiles
    <3>2. UNCHANGED <<call, promises>>
      BY <1>31, Removals
    <3>3. call[c] = "purge" /\ purging
      BY <1>31 DEF UnlinkTombstone
    <3> QED
      BY <1>31, <2>2, <3>1, <3>2, <3>3 DEF UnlinkTombstone
  <2> QED
    BY <2>1, <2>2
<1>32. CASE UNCHANGED storeVars
  BY <1>32 DEF storeVars, callers
<1>33. ASSUME NEW c \in Caller, CreateTemporary(c) \/ FillTemporary(c) \/ UnlinkTemporary(c)
       PROVE  CopyInv'
  BY <1>33, TemporarySteps
<1>34. ASSUME NEW c \in Caller, Discard(c) PROVE CopyInv'
  BY <1>34 DEF Discard
<1> QED
  BY <1>1, <1>2, <1>3, <1>4, <1>5, <1>6, <1>7, <1>8, <1>9, <1>10, <1>11, <1>12, <1>13,
     <1>14, <1>15, <1>16, <1>17, <1>18, <1>19, <1>20, <1>21, <1>22, <1>23, <1>24, <1>25,
     <1>26, <1>27, <1>28, <1>29, <1>30, <1>31, <1>32, <1>33, <1>34,
     Steps DEF QuietStep, ReadingStep, LogStep, RetireStep

\* Only a power loss counts as one.
LEMMA Losses == StoreInv /\ [StoreNext]_storeVars /\ ~PowerLoss => UNCHANGED losses
<1> USE DEF bounds, files, promises
<1>1. ASSUME NEW c \in Caller, ReadingStep(c) PROVE UNCHANGED losses
  BY <1>1 DEF ReadingStep, Load, Snapshot, Purge, BeginAppend, Compact
<1>2. ASSUME NEW c \in Caller, LogStep(c) PROVE UNCHANGED losses
  BY <1>2 DEF LogStep, CreateLog, TruncateTail, WritePart, WriteRest, SyncLog, SyncLogEntry
<1>3. ASSUME NEW c \in Caller, QuietStep(c) PROVE UNCHANGED losses
  BY <1>3, Frames
<1>4. ASSUME NEW c \in Caller, RetireStep(c) PROVE UNCHANGED losses
  BY <1>4, Frames
<1>5. UNCHANGED storeVars => UNCHANGED losses
  BY DEF storeVars
<1> QED
  BY <1>1, <1>2, <1>3, <1>4, <1>5, Steps

\* Only the caller whose write it is has a temporary file, and one that lies there
\* without its writer was left by a process that died, by a write and a removal that
\* both failed, or by a power loss.
ResidueInv ==
    /\ crashes \in Nat /\ faults \in Nat
    /\ \A c \in Caller :
        /\ holder # c \/ pc[c] \notin WritePcs \cup LinkedPcs \cup {"discard"} =>
              temporary[c] = NoTemporary
        /\ holder = c /\ pc[c] = "discard" => faults >= 1
    /\ crashes = 0 /\ faults < 2 /\ losses = 0 => \A t \in orphans : ~Lies(t)

\* Every step keeps track of the temporary files that are left.
LEMMA StepResidue ==
    StoreInv /\ losses \in Nat /\ ResidueInv /\ [StoreNext]_storeVars => ResidueInv'
<1> SUFFICES ASSUME StoreInv, losses \in Nat, ResidueInv, [StoreNext]_storeVars
             PROVE  ResidueInv'
  OBVIOUS
<1> USE StoreAssumption
        DEF StoreInv, StoreTypeOK, ResidueInv, WritePcs, LinkedPcs, Goto, Return, End, At, Idle,
            bounds, temporaries
<1>0. ~Lies(NoTemporary) /\ \A f : ~Lies(Temporary(f, "unlinked"))
  BY DEF Lies, NoTemporary, Temporary
<1>1. ASSUME NEW c \in Caller, Load(c) \/ Purge(c) \/ \E k \in Kinds : BeginAppend(c, k)
      PROVE  ResidueInv'
  BY <1>1 DEF Load, Purge, BeginAppend
<1>2. ASSUME NEW c \in Caller, NEW step, NEW f, GoOn(c, step, f), holder' = c,
             step # "discard", holder = NoCaller, UNCHANGED bounds
      PROVE  ResidueInv'
  <2>1. \A d \in Caller : temporary[d] = NoTemporary
    BY <1>2
  <2>2. \A d \in Caller : pc'[d] = (IF d = c THEN step ELSE pc[d])
    BY <1>2 DEF GoOn
  <2>3. \A d \in Caller : d # c \/ step # "createTemporary" => temporary'[d] = NoTemporary
    BY <1>2, <2>1 DEF GoOn
  <2> QED
    BY <1>2, <2>2, <2>3 DEF GoOn
<1>3. ASSUME NEW c \in Caller, Snapshot(c) \/ \E name \in Retention : Compact(c, name)
      PROVE  ResidueInv'
  BY <1>2, <1>3 DEF Snapshot, Compact, CompactionStep
<1>4. ASSUME NEW c \in Caller, Prune(c) PROVE ResidueInv'
  BY <1>2, <1>4 DEF Prune, PruneStep
<1>5. ASSUME NEW c \in Caller, AppendStep(c) PROVE ResidueInv'
  BY <1>5 DEF AppendStep, CreateLog, TruncateTail, WritePart, WriteRest, SyncLog,
     SyncLogEntry, Acknowledge
<1>6. ASSUME NEW c \in Caller, CreateTemporary(c) \/ FillTemporary(c) \/ UnlinkTemporary(c)
      PROVE  ResidueInv'
  BY <1>6, TemporarySteps
<1>7. ASSUME NEW c \in Caller, LinkTemporary(c) PROVE ResidueInv'
  BY <1>7, WriteKinds, LinkSteps, TemporarySteps DEF Targets, Links
<1>8. ASSUME NEW c \in Caller, SyncLinked(c) PROVE ResidueInv'
  BY <1>8, WriteKinds, SyncSteps DEF Targets, SyncStep
<1>9. ASSUME NEW c \in Caller, SyncStep(c), ~SyncLinked(c) PROVE ResidueInv'
  BY <1>9, SyncSteps DEF SyncStep
<1>10. ASSUME NEW c \in Caller, Discard(c) PROVE ResidueInv'
  BY <1>0, <1>10 DEF Discard
<1>11. ASSUME NEW c \in Caller, UnlinkLog(c) \/ UnlinkTerminal(c) \/ UnlinkTombstone(c)
       PROVE  ResidueInv'
  BY <1>11, Removals DEF UnlinkLog, UnlinkTerminal, UnlinkTombstone
<1>12. ASSUME NEW c \in Caller, UnlinkSnapshot(c) PROVE ResidueInv'
  BY <1>12 DEF UnlinkSnapshot, RemoveFile
<1>13. ASSUME NEW c \in Caller, Compacted(c) \/ PruneExpired(c) \/ Finish(c) PROVE ResidueInv'
  BY <1>13 DEF Compacted, PruneExpired, Finish
<1>14. ASSUME NEW c \in Caller, Fault(c) PROVE ResidueInv'
  <2>1. CASE Lies(temporary[c]) /\ pc[c] # "discard"
    BY <1>14, <2>1 DEF Fault
  <2>2. CASE ~(Lies(temporary[c]) /\ pc[c] # "discard")
    <3>1. /\ Return(c) /\ Abandon(c) /\ holder = c /\ faults' = faults + 1
          /\ UNCHANGED <<crashes, losses>>
      BY <1>14, <2>2 DEF Fault
    <3>2. crashes' = 0 /\ faults' < 2 /\ losses' = 0 => \A t \in orphans' : ~Lies(t)
      BY <2>2, <3>1 DEF Abandon
    <3> QED
      BY <3>1, <3>2 DEF Abandon
  <2> QED
    BY <2>1, <2>2
<1>15. ASSUME NEW c \in Caller, Crash(c) PROVE ResidueInv'
  <2>1. crashes' = crashes + 1 /\ UNCHANGED <<losses, faults>> /\ Abandon(c) /\ End(c)
    BY <1>15 DEF Crash
  <2>2. holder' = (IF holder = c THEN NoCaller ELSE holder)
    BY <1>15 DEF Crash
  <2> QED
    BY <2>1, <2>2 DEF Abandon
<1>16. ASSUME PowerLoss PROVE ResidueInv'
  BY <1>16 DEF PowerLoss
<1>17. ASSUME UNCHANGED storeVars PROVE ResidueInv'
  BY <1>17 DEF storeVars, callers
<1> QED
  BY <1>1, <1>3, <1>4, <1>5, <1>6, <1>7, <1>8, <1>9, <1>10, <1>11, <1>12, <1>13, <1>14, <1>15,
     <1>16, <1>17 DEF StoreNext, WriteStep, RetentionStep, SyncStep

\* Retention's invariant holds in every reachable state.
LEMMA Removed == StoreSpec => []RemovalInv
<1>1. StoreInit => RemovalInv
  BY StoreAssumption DEF StoreInit, RemovalInv, LogInv, CopyInv, Writes, Linked, WritePcs,
     LinkedPcs, NoFiles, NoLog
<1>2. StoreInv /\ RemovalInv /\ [StoreNext]_storeVars => RemovalInv'
  <2> SUFFICES ASSUME StoreInv, RemovalInv, [StoreNext]_storeVars PROVE RemovalInv'
    OBVIOUS
  <2>1. LogInv'
    BY StepLog DEF RemovalInv
  <2>2. CASE PowerLoss
    BY <2>1, <2>2 DEF PowerLoss, RemovalInv
  <2>3. CASE ~PowerLoss
    <3>1. UNCHANGED losses
      BY <2>3, Losses
    <3> QED
      BY <2>1, <2>3, <3>1, StepCopy DEF RemovalInv
  <2> QED
    BY <2>2, <2>3
<1> QED
  BY <1>1, <1>2, StoreInvariant, PTL DEF StoreSpec

\* The residue invariant holds in every reachable state.
LEMMA Residue == StoreSpec => []ResidueInv
<1>1. StoreInit => ResidueInv
  BY DEF StoreInit, ResidueInv, WritePcs, LinkedPcs
<1>2. StoreInv /\ RemovalInv /\ ResidueInv /\ [StoreNext]_storeVars => ResidueInv'
  BY StepResidue DEF RemovalInv
<1> QED
  BY <1>1, <1>2, StoreInvariant, Removed, PTL DEF StoreSpec

\* A prune that returns has left only the tombstone at the operation's four names and
\* a purge nothing, whichever processes died and whichever calls failed before it; and
\* no temporary file is left either, unless a process died or a failed write could not
\* clear up: in every execution in which no power was lost.
THEOREM RetentionRemoves == StoreSpec => [](losses = 0 => RetentionLeavesNoCopy)
<1>1. RemovalInv /\ ResidueInv => (losses = 0 => RetentionLeavesNoCopy)
  <2> SUFFICES ASSUME RemovalInv, ResidueInv, losses = 0, NEW c \in Caller, At(c, "finish")
               PROVE  /\ call[c] = "prune" => disk = [NoFiles EXCEPT !.tombstone = TRUE]
                      /\ call[c] = "purge" => disk = NoFiles
                      /\ crashes = 0 /\ faults < 2 => Leftovers = {}
    BY DEF RetentionLeavesNoCopy
  <2>1. /\ call[c] = "prune" => disk = [NoFiles EXCEPT !.tombstone = TRUE]
        /\ call[c] = "purge" => disk = NoFiles
    BY DEF RemovalInv, CopyInv, At
  <2>2. \A d \in Caller : temporary[d] = NoTemporary
    BY DEF ResidueInv, WritePcs, LinkedPcs, At
  <2>3. ~Lies(NoTemporary)
    BY DEF Lies, NoTemporary, Temporary
  <2>4. crashes = 0 /\ faults < 2 => Leftovers = {}
    BY <2>2, <2>3 DEF Leftovers, ResidueInv
  <2> QED
    BY <2>1, <2>4
<1> QED
  BY <1>1, Removed, Residue, PTL

-----------------------------------------------------------------------------
(* What callers are told, where no power is lost or no retention call is made *)

\* The history callers were told of is the beginning of the one there is, and
\* what they were told of it is no more than it shows.
KeptInv ==
    ~purging =>
        /\ Keeps(disk)
        /\ answer = "open" => acked # <<>>
        /\ answer = "receipt" => Completed(acked)
        /\ answer = "expired" => disk.tombstone

\* What a step other than a power loss does to the history callers are told of.
LEMMA HistorySteps ==
    ASSUME StoreInv, [StoreNext]_storeVars, ~PowerLoss, ~purging'
    PROVE  /\ ~purging
           /\ disk.tombstone => disk'.tombstone
           /\ \/ disk'.tombstone
              \/ History(disk') = History(disk)
              \/ \E r \in Records : History(disk') = Append(History(disk), r)
<1> USE DEF StoreInv, StoreTypeOK, FileSets, LogFiles, History
<1>1. ASSUME NEW c \in Caller, QuietStep(c)
      PROVE  ~purging /\ UNCHANGED disk.tombstone /\ History(disk') = History(disk)
  BY <1>1, QuietSteps DEF Quiet
<1>2. ASSUME NEW c \in Caller, ReadingStep(c) PROVE ~purging /\ UNCHANGED disk
  BY <1>2, ReadingSteps
<1>3. ASSUME NEW c \in Caller, LogStep(c)
      PROVE  /\ ~purging /\ UNCHANGED disk.tombstone
             /\ \/ History(disk') = History(disk)
                \/ \E r \in Records : History(disk') = Append(History(disk), r)
  <2>1. ~purging
    BY <1>3 DEF LogStep, CreateLog, TruncateTail, WritePart, WriteRest, SyncLog,
       SyncLogEntry, promises
  <2>2. CASE CreateLog(c) \/ TruncateTail(c) \/ WritePart(c)
    BY <2>1, <2>2 DEF CreateLog, TruncateTail, WritePart
  <2>3. CASE WriteRest(c)
    <3>1. disk.terminal = <<>> /\ event[c] \in Records
      BY <2>3 DEF WriteRest, At, AppendInv, Writing
    <3>2. disk' = [disk EXCEPT !.log.tail = FALSE,
                               !.log.records = Append(disk.log.records, event[c])]
      BY <2>3 DEF WriteRest
    <3> QED
      BY <2>1, <3>1, <3>2
  <2>4. CASE SyncLog(c) \/ SyncLogEntry(c)
    BY <2>1, <2>4 DEF SyncLog, SyncLogEntry
  <2> QED
    BY <1>3, <2>2, <2>3, <2>4 DEF LogStep
<1>4. ASSUME NEW c \in Caller, RetireStep(c)
      PROVE  /\ ~purging
             /\ disk.tombstone => disk'.tombstone
             /\ disk'.tombstone \/ History(disk') = History(disk)
  <2>1. ~purging /\ call[c] # "purge"
    BY <1>4, Frames DEF promises, RetentionInv
  <2>2. CASE Links(c, "terminal")
    <3>1. disk.terminal = <<>>
      BY <2>2, LinkSteps DEF At, RetentionInv
    <3>2. disk' = [disk EXCEPT !.terminal = disk.log.records]
      BY <2>2, LinkSteps
    <3> QED
      BY <2>1, <3>1, <3>2
  <2>3. CASE UnlinkLog(c)
    <3>1. disk.terminal # <<>>
      BY <2>1, <2>3 DEF UnlinkLog, At, RetentionInv
    <3> QED
      BY <2>1, <2>3, <3>1, Removals
  <2>4. CASE Links(c, "tombstone")
    BY <2>1, <2>4, LinkSteps
  <2>5. CASE UnlinkTerminal(c)
    <3>1. disk.tombstone
      BY <2>1, <2>5 DEF UnlinkTerminal, At, RetentionInv
    <3> QED
      BY <2>1, <2>5, <3>1, Removals
  <2>6. CASE UnlinkTombstone(c) \/ SyncTombstones(c)
    BY <2>1, <2>6, SyncSteps DEF UnlinkTombstone, At, RetentionInv
  <2>7. CASE Syncs(c, "terminal") \/ SyncLogs(c) \/ Syncs(c, "tombstone") \/ SyncTerminals(c)
    BY <2>1, <2>7, SyncSteps DEF Syncs, SyncStep
  <2> QED
    BY <1>4, <2>2, <2>3, <2>4, <2>5, <2>6, <2>7 DEF RetireStep
<1>5. UNCHANGED storeVars => UNCHANGED <<disk, purging>>
  BY DEF storeVars, files, promises
<1> QED
  BY <1>1, <1>2, <1>3, <1>4, <1>5, Steps

\* Prefixes of histories that are not empty, that are complete, and that are long.
LEMMA PrefixOfHistory ==
    ASSUME NEW s \in Histories, NEW t \in Histories, IsPrefix(s, t)
    PROVE  /\ s # <<>> => t # <<>>
           /\ Completed(s) => Completed(t)
<1>1. /\ s \in Seq(Records) /\ t \in Seq(Records)
      /\ Len(s) <= Len(t) /\ SubSeq(s, 1, Len(s)) = SubSeq(t, 1, Len(s))
  BY DEF Histories, IsPrefix
<1>2. \A i \in 1..Len(s) : s[i] = t[i] /\ i \in 1..Len(t)
  <2> TAKE i \in 1..Len(s)
  <2>1. SubSeq(s, 1, Len(s))[i] = s[i] /\ SubSeq(t, 1, Len(s))[i] = t[i]
    BY <1>1
  <2> QED
    BY <1>1, <2>1
<1>3. s # <<>> => t # <<>>
  <2>1. s # <<>> => Len(s) # 0
    BY <1>1, EmptySeq
  <2>2. t = <<>> => Len(t) = 0
    BY EmptySeq
  <2> QED
    BY <1>1, <2>1, <2>2
<1>4. Completed(s) => Completed(t)
  BY <1>1, <1>2 DEF Completed, Has
<1> QED
  BY <1>3, <1>4

\* What a step may do to what callers are told: they are told of more records, or
\* are answered what the files say.
LEMMA ToldSteps ==
    ASSUME StoreInv, [StoreNext]_storeVars
    PROVE  \/ UNCHANGED <<acked, answer>>
           \/ /\ acked' = disk.log.records /\ UNCHANGED <<answer, disk, purging>>
              /\ disk.terminal = <<>> /\ ~disk.tombstone
           \/ /\ answer' = Answer(disk) /\ UNCHANGED <<disk, purging>>
              /\ acked' = IF Answer(disk) \in {"open", "receipt"} THEN History(disk) ELSE acked
<1> USE DEF files, promises
<1>1. ASSUME NEW c \in Caller, Load(c)
      PROVE  /\ answer' = Answer(disk) /\ UNCHANGED <<disk, purging>>
             /\ acked' = IF Answer(disk) \in {"open", "receipt"} THEN History(disk) ELSE acked
  BY <1>1 DEF Load
<1>2. ASSUME NEW c \in Caller, Acknowledge(c)
      PROVE  /\ acked' = disk.log.records /\ UNCHANGED <<answer, disk, purging>>
             /\ disk.terminal = <<>> /\ ~disk.tombstone
  BY <1>2 DEF Acknowledge, At, StoreInv, AppendInv, Written
<1>3. ASSUME NEW c \in Caller, ReadingStep(c), ~Load(c) PROVE UNCHANGED <<acked, answer>>
  BY <1>3 DEF ReadingStep, Snapshot, Purge, BeginAppend, Compact
<1>4. ASSUME NEW c \in Caller, LogStep(c) PROVE UNCHANGED <<acked, answer>>
  BY <1>4 DEF LogStep, CreateLog, TruncateTail, WritePart, WriteRest, SyncLog, SyncLogEntry
<1>5. ASSUME NEW c \in Caller, QuietStep(c), ~Acknowledge(c) PROVE UNCHANGED <<acked, answer>>
  BY <1>5, Frames
<1>6. ASSUME NEW c \in Caller, RetireStep(c) PROVE UNCHANGED <<acked, answer>>
  BY <1>6, Frames
<1>7. PowerLoss \/ UNCHANGED storeVars => UNCHANGED <<acked, answer>>
  BY DEF PowerLoss, storeVars
<1> QED
  BY <1>1, <1>2, <1>3, <1>4, <1>5, <1>6, <1>7, Steps

\* A step keeps what callers were told, if a power loss does.
LEMMA StepKept ==
    ASSUME StoreInv, StoreTypeOK', KeptInv, [StoreNext]_storeVars,
           PowerLoss => Keeps(disk)' /\ ~disk.tombstone
    PROVE  KeptInv' /\ (~purging' => IsPrefix(acked, acked')
                                     /\ AnswerRank[answer] <= AnswerRank[answer'])
<1> USE DEF Keeps
<1> SUFFICES ASSUME ~purging'
             PROVE  /\ KeptInv' /\ IsPrefix(acked, acked')
                    /\ AnswerRank[answer] <= AnswerRank[answer']
  BY DEF KeptInv
<1> DEFINE h == History(disk)
<1>1. /\ acked \in Histories /\ acked' \in Histories /\ h \in Histories
      /\ answer \in Answers /\ answer # "corrupt" /\ History(disk') \in Histories
  BY HistoryTypes DEF StoreInv, StoreTypeOK
<1>2. ~purging
  <2>1. PowerLoss => ~purging
    BY DEF PowerLoss, promises
  <2> QED
    BY <2>1, HistorySteps
<1>3. Keeps(disk)' \/ acked' # acked
  <2>1. CASE ~PowerLoss
    <3>1. SUFFICES ASSUME UNCHANGED acked, ~disk'.tombstone
                   PROVE  IsPrefix(acked, History(disk'))
      OBVIOUS
    <3>2. ~disk.tombstone /\ IsPrefix(acked, h)
      BY <1>2, <2>1, <3>1, HistorySteps DEF KeptInv
    <3>3. \/ History(disk') = h
          \/ \E r \in Records : History(disk') = Append(h, r)
      BY <2>1, <3>1, HistorySteps
    <3>4. \A r \in Records : IsPrefix(acked, Append(h, r))
      BY <1>1, <3>2, PrefixFacts
    <3> QED
      BY <3>1, <3>2, <3>3, <3>4
  <2> QED
    BY <2>1
<1>4. ~PowerLoss => (disk.tombstone => disk'.tombstone)
  BY HistorySteps
<1>5. /\ AnswerRank["not_found"] = 1 /\ AnswerRank["open"] = 2
      /\ AnswerRank["receipt"] = 3 /\ AnswerRank["expired"] = 4
  BY DEF AnswerRank, Answers
<1>6. IsPrefix(acked, acked)
  BY <1>1, PrefixFacts
<1>7. CASE UNCHANGED <<acked, answer>>
  BY <1>1, <1>2, <1>3, <1>4, <1>5, <1>6, <1>7 DEF KeptInv, Answers
<1>8. CASE /\ acked' = disk.log.records /\ UNCHANGED <<answer, disk, purging>>
           /\ disk.terminal = <<>> /\ ~disk.tombstone
  <2>1. acked' = h /\ IsPrefix(acked, h) /\ answer # "expired"
    BY <1>2, <1>8 DEF KeptInv, History
  <2>2. (acked # <<>> => h # <<>>) /\ (Completed(acked) => Completed(h))
    BY <1>1, <2>1, PrefixOfHistory
  <2>3. IsPrefix(h, h)
    BY <1>1, PrefixFacts
  <2> QED
    BY <1>1, <1>2, <1>5, <1>8, <2>1, <2>2, <2>3 DEF KeptInv, Answers
<1>9. CASE /\ answer' = Answer(disk) /\ UNCHANGED <<disk, purging>>
           /\ acked' = IF Answer(disk) \in {"open", "receipt"} THEN History(disk) ELSE acked
  <2>1. ~Disagrees(disk)
    BY DEF StoreInv, CopiesInv, Beside, Disagrees
  <2>2. CASE disk.tombstone
    <3>1. answer' = "expired" /\ acked' = acked
      BY <1>9, <2>1, <2>2 DEF Answer
    <3> QED
      BY <1>1, <1>2, <1>5, <1>6, <1>9, <2>2, <3>1 DEF KeptInv, Answers
  <2>3. CASE ~disk.tombstone
    <3>1. IsPrefix(acked, h) /\ answer # "expired"
      BY <1>2, <2>3 DEF KeptInv
    <3>2. (acked # <<>> => h # <<>>) /\ (Completed(acked) => Completed(h))
      BY <1>1, <3>1, PrefixOfHistory
    <3>3. IsPrefix(h, h)
      BY <1>1, PrefixFacts
    <3>4. CASE h = <<>>
      <4>1. answer' = "not_found" /\ acked' = acked
        BY <1>9, <2>1, <2>3, <3>4 DEF Answer
      <4>2. acked = <<>> /\ answer = "not_found"
        BY <1>1, <1>2, <3>1, <3>2, <3>4, EmptyOpen DEF KeptInv, Answers
      <4> QED
        BY <1>2, <1>5, <1>6, <1>9, <2>3, <3>1, <4>1, <4>2 DEF KeptInv
    <3>5. CASE h # <<>>
      <4>1. answer' = (IF Completed(h) THEN "receipt" ELSE "open") /\ acked' = h
        BY <1>9, <2>1, <2>3, <3>5 DEF Answer
      <4>2. answer = "receipt" => Completed(h)
        BY <1>2, <3>2 DEF KeptInv
      <4> QED
        BY <1>1, <1>2, <1>5, <1>9, <2>3, <3>1, <3>3, <3>5, <4>1, <4>2 DEF KeptInv, Answers
    <3> QED
      BY <3>4, <3>5
  <2> QED
    BY <2>2, <2>3
<1> QED
  BY <1>7, <1>8, <1>9, ToldSteps

\* A power loss keeps what callers were told of, if no retention call is made; and
\* there is none if there may be none.
LEMMA PowerKept ==
    Retention = {} \/ MaxPowerLosses = 0 =>
        (StoreInv /\ RemovalInv /\ (Retention = {} => DurableInv) /\ [StoreNext]_storeVars
            => (PowerLoss => Keeps(disk)' /\ ~disk.tombstone))
<1> SUFFICES ASSUME Retention = {} \/ MaxPowerLosses = 0, StoreInv, RemovalInv,
                    Retention = {} => DurableInv, [StoreNext]_storeVars, PowerLoss
             PROVE  Keeps(disk)' /\ ~disk.tombstone
  OBVIOUS
<1>1. CASE Retention = {}
  <2>1. DurableInv'
    BY <1>1, StepDurable
  <2>2. disk'.terminal = <<>> /\ IsPrefix(acked', disk'.log.records)
    BY <2>1 DEF DurableInv
  <2> QED
    BY <1>1, <2>2 DEF DurableInv, Keeps, History
<1>2. CASE MaxPowerLosses = 0
  BY <1>2 DEF PowerLoss, RemovalInv
<1> QED
  BY <1>1, <1>2

\* The invariant of appends, where no retention call is made.
LEMMA DurableUnretained == StoreSpec => [](Retention = {} => DurableInv)
<1>1. CASE Retention = {}
  <2>1. StoreSpec => []DurableInv
    BY <1>1, Durable
  <2> QED
    BY <2>1, PTL
<1>2. CASE Retention # {}
  <2>1. Retention = {} => DurableInv
    BY <1>2
  <2> QED
    BY <2>1, PTL
<1> QED
  BY <1>1, <1>2

\* What callers were told stays true.
LEMMA Kept ==
    ASSUME Retention = {} \/ MaxPowerLosses = 0
    PROVE  StoreSpec => []KeptInv
<1>1. StoreInit => KeptInv
  <2>1. IsPrefix(<<>>, <<>>)
    BY HistoryTypes, PrefixFacts
  <2> QED
    BY <2>1 DEF StoreInit, KeptInv, Keeps, History, NoFiles, NoLog
<1>2. StoreInv /\ StoreInv' /\ RemovalInv /\ (Retention = {} => DurableInv) /\ KeptInv
        /\ [StoreNext]_storeVars => KeptInv'
  BY StepKept, PowerKept DEF StoreInv
<1>3. StoreSpec => [](Retention = {} => DurableInv)
  BY DurableUnretained
<1> QED
  BY <1>1, <1>2, <1>3, StoreInvariant, Removed, PTL DEF StoreSpec

\* No process that dies and no call that fails loses an event that a caller was
\* told is durable, in the middle of whichever retention call: until the purge, the
\* terminal record or the log begins with it, or the tombstone has replaced both.
THEOREM CrashesLoseNothing ==
    ASSUME MaxPowerLosses = 0
    PROVE  StoreSpec => [](~purging => Keeps(disk))
<1>1. KeptInv => (~purging => Keeps(disk))
  BY DEF KeptInv
<1> QED
  BY <1>1, Kept, PTL

\* What callers were told is durable is only ever extended, where no retention
\* call is made or no power is lost: Acknowledge and Load report the history, which
\* begins with it.
THEOREM AcknowledgedExtends ==
    ASSUME Retention = {} \/ MaxPowerLosses = 0
    PROVE  StoreSpec => AcknowledgedOnlyGrows
<1>1. StoreInv /\ StoreInv' /\ RemovalInv /\ (Retention = {} => DurableInv) /\ KeptInv
        /\ [StoreNext]_storeVars => [~purging' => IsPrefix(acked, acked')]_storeVars
  BY StepKept, PowerKept DEF StoreInv
<1>2. StoreSpec => [](Retention = {} => DurableInv)
  BY DurableUnretained
<1> QED
  BY <1>1, <1>2, Kept, StoreInvariant, Removed, PTL DEF StoreSpec, AcknowledgedOnlyGrows

\* What load and pruneReceipt tell callers of an operation never goes back: from
\* open to not found, or from expired to a receipt, under the same conditions.
THEOREM AnswersOnlyAdvance ==
    ASSUME Retention = {} \/ MaxPowerLosses = 0
    PROVE  StoreSpec => AnswersNeverRegress
<1>1. StoreInv /\ StoreInv' /\ RemovalInv /\ (Retention = {} => DurableInv) /\ KeptInv
        /\ [StoreNext]_storeVars
        => [~purging' => AnswerRank[answer] <= AnswerRank[answer']]_storeVars
  BY StepKept, PowerKept DEF StoreInv
<1>2. StoreSpec => [](Retention = {} => DurableInv)
  BY DurableUnretained
<1> QED
  BY <1>1, <1>2, Kept, StoreInvariant, Removed, PTL DEF StoreSpec, AnswersNeverRegress
=============================================================================
