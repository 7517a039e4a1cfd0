----------------------------- MODULE JournalStore -----------------------------
(***************************************************************************)
(* The files of one operation in the journal (operations/journal.ts): the  *)
(* append-only log, the terminal record that replaces it, the tombstone    *)
(* that replaces that, and the snapshot cache.  Every call runs under the  *)
(* operation's lock (JournalLock), and every create, write, fsync, link,   *)
(* rename, unlink and directory fsync in it is a step: a process may die,  *)
(* or the machine lose power, between any two.  Terminal record, tombstone *)
(* and snapshot are written through a temporary file of their directory,   *)
(* which a process that dies leaves there under a name nobody looks for.   *)
(*                                                                         *)
(* "disk" is what the calls read; "platter" is what a power loss is sure   *)
(* to leave.  A file's content reaches the platter by fsync of the file,   *)
(* its entry by fsync of its directory; the four files are in four         *)
(* directories, and a power loss may leave or take any temporary file.     *)
(* Contents are authenticated, so a record is either whole or part of a    *)
(* torn tail.                                                              *)
(***************************************************************************)
EXTENDS Integers, Sequences, SequencesExt, FiniteSets

CONSTANTS
    Caller,          \* processes that use the operation
    NoCaller,
    Retention,       \* which of compact, prune and purge are called
    MaxRevision,     \* bound: records of the log
    MaxCrashes,      \* bound: processes that die
    MaxPowerLosses,  \* bound
    MaxFaults        \* bound: writes and fsyncs that fail

ASSUME StoreAssumption ==
    /\ NoCaller \notin Caller
    /\ Retention \subseteq {"compact", "prune", "purge"}
    /\ MaxRevision \in Nat /\ MaxCrashes \in Nat
    /\ MaxPowerLosses \in Nat /\ MaxFaults \in Nat

VARIABLES
    disk,     \* the files as calls see them
    platter,  \* the files as a power loss would leave them
    temporary, \* the temporary file of each caller's write
    orphans,  \* temporary files whose writers are gone
    holder,   \* who holds the operation's lock
    pc,       \* the next step of each caller's call
    call,     \* the call it is in
    event,    \* the record it is appending
    seen,     \* the history it last learned, or Unknown: its Len is the expected revision
    acked,    \* the longest log any call was told is durable
    answer,   \* what the latest load or prune said of the operation
    purging,  \* a purge has begun
    crashes, losses, faults

files == <<disk, platter>>
temporaries == <<temporary, orphans>>
callers == <<pc, call, event, seen>>
promises == <<acked, answer, purging>>
bounds == <<crashes, losses, faults>>
storeVars == <<files, temporaries, holder, callers, promises, bounds>>

-----------------------------------------------------------------------------
Kinds == {"created", "progress", "completed", "content_expired"}
Record(c, k) == [by |-> c, kind |-> k]
Records == [by : Caller, kind : Kinds]
NoRecord == [by |-> NoCaller, kind |-> "none"]
Unknown == <<NoRecord>>

NoLog == [exists |-> FALSE, records |-> <<>>, tail |-> FALSE]
Targets == {"terminal", "tombstone", "snapshot"}
NoFiles == [log |-> NoLog, terminal |-> <<>>, tombstone |-> FALSE, snapshot |-> FALSE]

Has(records, k) == \E i \in DOMAIN records : records[i].kind = k
Completed(records) == Has(records, "completed")

History(f) == IF f.terminal # <<>> THEN f.terminal ELSE f.log.records

\* reduceOperationEvents, as far as the files depend on it; "progress" is every
\* event that neither creates, completes nor expires (a blocker may be observed
\* in any phase).
Accepts(records, k) ==
    CASE k = "created"         -> records = <<>>
      [] k = "progress"        -> records # <<>>
      [] k = "completed"       -> records # <<>> /\ ~Completed(records)
      [] k = "content_expired" -> Completed(records) /\ ~Has(records, "content_expired")

\* loadLocked: the tombstone outranks the terminal record, which outranks the
\* log; a log beside either must agree with it.
Disagrees(f) ==
    /\ f.log.exists
    /\ \/ f.tombstone /\ ~Completed(f.log.records)
       \/ ~f.tombstone /\ f.terminal # <<>> /\ f.log.records # f.terminal
Answer(f) ==
    IF Disagrees(f) THEN "corrupt"
    ELSE IF f.tombstone THEN "expired"
    ELSE IF History(f) = <<>> THEN "not_found"
    ELSE IF Completed(History(f)) THEN "receipt" ELSE "open"

\* A temporary file of a target's directory: not created; a part of the record, or
\* what the page cache has of it; the whole record, synced; unlinked, but not by a
\* power loss as long as the directory is not synced.
Contents == {"absent", "part", "whole", "unlinked"}
Temporary(f, contents) == [of |-> f, holds |-> contents]
NoTemporary == Temporary("none", "absent")
Lies(t) == t.holds \in {"part", "whole"}

At(c, label) == pc[c] = label /\ holder = c
Idle(c) == pc[c] = "idle" /\ holder = NoCaller
Goto(c, label) == pc' = [pc EXCEPT ![c] = label] /\ UNCHANGED holder
\* The call ends, here with the lock released.
End(c) ==
    /\ pc' = [pc EXCEPT ![c] = "idle"]
    /\ call' = [call EXCEPT ![c] = "none"] /\ event' = [event EXCEPT ![c] = NoRecord]
Return(c) == End(c) /\ holder' = NoCaller
Forget(c) == seen' = [seen EXCEPT ![c] = Unknown]

\* ensureLogDurable, which readLog ends with.
SyncedLog == IF disk.log.exists THEN [platter EXCEPT !.log = disk.log] ELSE platter

-----------------------------------------------------------------------------
(* load and append *)

Load(c) ==
    /\ Idle(c)
    /\ platter' = SyncedLog
    /\ answer' = Answer(disk)
    /\ LET found == Answer(disk) \in {"open", "receipt"}
       IN  /\ acked' = IF found THEN History(disk) ELSE acked
           /\ seen' = [seen EXCEPT ![c] =
                IF found \/ Answer(disk) = "not_found" THEN History(disk) ELSE Unknown]
    /\ UNCHANGED <<disk, holder, pc, call, event, purging, temporaries, bounds>>

\* Mutant of Fenced: the expected revision is not compared.
FencedByNothing(c, k) ==
    ~disk.tombstone /\ disk.terminal = <<>> /\ Accepts(disk.log.records, k)

\* Mutant of Fenced: a terminal record beside the log is not looked for.
FencedByLog(c, k) ==
    Len(disk.log.records) = Len(seen[c]) /\ Accepts(disk.log.records, k)

\* assertNoTerminalOrTombstoneForAppend, the expected revision, the reducer.
Fenced(c, k) ==
    /\ ~disk.tombstone /\ disk.terminal = <<>>
    /\ Len(disk.log.records) = Len(seen[c])
    /\ Accepts(disk.log.records, k)

\* append up to its file operations: the expected revision is the one the caller
\* learned last.  Bound: an operation id is not used again once it is purged.
BeginAppend(c, k) ==
    /\ Idle(c)
    /\ ~purging
    /\ seen[c] # Unknown
    /\ Len(seen[c]) < MaxRevision
    /\ platter' = IF disk.tombstone \/ disk.terminal # <<>> THEN platter ELSE SyncedLog
    /\ IF Fenced(c, k)
       THEN /\ pc' = [pc EXCEPT ![c] = IF ~disk.log.exists THEN "create"
                                      ELSE IF disk.log.tail THEN "truncate" ELSE "write"]
            /\ holder' = c
            /\ call' = [call EXCEPT ![c] = "append"]
            /\ event' = [event EXCEPT ![c] = Record(c, k)]
            /\ UNCHANGED seen
       ELSE /\ Forget(c)
            /\ UNCHANGED <<pc, holder, call, event>>
    /\ UNCHANGED <<disk, promises, temporaries, bounds>>

\* open(O_CREAT | O_EXCL)
CreateLog(c) ==
    /\ At(c, "create")
    /\ disk' = [disk EXCEPT !.log.exists = TRUE]
    /\ Goto(c, "write")
    /\ UNCHANGED <<platter, call, event, seen, promises, temporaries, bounds>>

TruncateTail(c) ==
    /\ At(c, "truncate")
    /\ disk' = [disk EXCEPT !.log.tail = FALSE]
    /\ Goto(c, "write")
    /\ UNCHANGED <<platter, call, event, seen, promises, temporaries, bounds>>

WritePart(c) ==
    /\ At(c, "write")
    /\ disk' = [disk EXCEPT !.log.tail = TRUE]
    /\ Goto(c, "writeRest")
    /\ UNCHANGED <<platter, call, event, seen, promises, temporaries, bounds>>

WriteRest(c) ==
    /\ At(c, "writeRest")
    /\ disk' = [disk EXCEPT !.log.tail = FALSE, !.log.records = Append(@, event[c])]
    /\ Goto(c, "sync")
    /\ UNCHANGED <<platter, call, event, seen, promises, temporaries, bounds>>

\* Mutant of SyncLog: the directory of a new log is not synced.
SyncLogContent(c) ==
    /\ At(c, "sync")
    /\ platter' = [platter EXCEPT !.log.records = disk.log.records, !.log.tail = FALSE]
    /\ Goto(c, "acknowledge")
    /\ UNCHANGED <<disk, call, event, seen, promises, temporaries, bounds>>

\* fsync of the log; a first record also needs its directory synced.
SyncLog(c) ==
    /\ At(c, "sync")
    /\ platter' = [platter EXCEPT !.log.records = disk.log.records, !.log.tail = FALSE]
    /\ Goto(c, IF seen[c] = <<>> THEN "syncLogEntry" ELSE "acknowledge")
    /\ UNCHANGED <<disk, call, event, seen, promises, temporaries, bounds>>

SyncLogEntry(c) ==
    /\ At(c, "syncLogEntry")
    /\ platter' = [platter EXCEPT !.log.exists = TRUE]
    /\ Goto(c, "acknowledge")
    /\ UNCHANGED <<disk, call, event, seen, promises, temporaries, bounds>>

Acknowledge(c) ==
    /\ At(c, "acknowledge")
    /\ acked' = disk.log.records
    /\ seen' = [seen EXCEPT ![c] = disk.log.records]
    /\ Return(c)
    /\ UNCHANGED <<files, answer, purging, temporaries, bounds>>

-----------------------------------------------------------------------------
(* writeAtomicJson: the record is written whole to a temporary file and     *)
(* synced, then linked to its name (the snapshot is renamed over the old    *)
(* one), and the directory synced.                                          *)

\* The step of a call that comes next; if it is a write, the write's temporary file
\* is one of f's directory.
GoOn(c, step, f) ==
    /\ pc' = [pc EXCEPT ![c] = step]
    /\ temporary' = IF step = "createTemporary"
                    THEN [temporary EXCEPT ![c] = Temporary(f, "absent")] ELSE temporary
    /\ UNCHANGED orphans

TemporaryStep(c, contents, next) ==
    /\ temporary' = [temporary EXCEPT ![c].holds = contents]
    /\ Goto(c, next)
    /\ UNCHANGED <<platter, orphans, call, event, seen, promises, bounds>>

\* open(O_CREAT | O_EXCL) under a name of its own
CreateTemporary(c) ==
    /\ At(c, "createTemporary")
    /\ TemporaryStep(c, "part", "fillTemporary")
    /\ UNCHANGED disk

\* writeFile and fsync
FillTemporary(c) ==
    /\ At(c, "fillTemporary")
    /\ TemporaryStep(c, "whole", "linkTemporary")
    /\ UNCHANGED disk

LinkTemporary(c) ==
    /\ At(c, "linkTemporary")
    /\ LET f == temporary[c].of
       IN  /\ disk' = [disk EXCEPT ![f] = IF f = "terminal" THEN disk.log.records ELSE TRUE]
           /\ IF f = "snapshot" THEN TemporaryStep(c, "unlinked", "syncLinked")
              ELSE /\ Goto(c, "unlinkTemporary")
                   /\ UNCHANGED <<platter, call, event, seen, promises, temporaries, bounds>>

UnlinkTemporary(c) ==
    /\ At(c, "unlinkTemporary")
    /\ TemporaryStep(c, "unlinked", "syncLinked")
    /\ UNCHANGED disk

\* fsync of the directory of f: what was linked and unlinked in it stays so.
SyncDirectory(f) ==
    /\ platter' = [platter EXCEPT ![f] = disk[f]]
    /\ orphans' = {t \in orphans : t.of = f => Lies(t)}

AfterWrite == [terminal |-> "unlinkLog", tombstone |-> "unlinkTerminal", snapshot |-> "finish"]

SyncLinked(c) ==
    /\ At(c, "syncLinked")
    /\ SyncDirectory(temporary[c].of)
    /\ temporary' = [temporary EXCEPT ![c] = NoTemporary]
    /\ Goto(c, AfterWrite[temporary[c].of])
    /\ UNCHANGED <<disk, call, event, seen, promises, bounds>>

\* The finally of a write that threw.
Discard(c) ==
    /\ At(c, "discard")
    /\ orphans' = orphans \cup {Temporary(temporary[c].of, "unlinked")}
    /\ temporary' = [temporary EXCEPT ![c] = NoTemporary]
    /\ Return(c)
    /\ UNCHANGED <<files, seen, promises, bounds>>

-----------------------------------------------------------------------------
(* removeQuotaTrackedFile: a file is unlinked and its directory synced; one   *)
(* that is already gone is not synced.                                        *)

RemoveFile(c, f, sync, next) ==
    /\ IF disk[f] # NoFiles[f]
       THEN disk' = [disk EXCEPT ![f] = NoFiles[f]] /\ Goto(c, sync)
       ELSE UNCHANGED disk /\ Goto(c, next)
    /\ UNCHANGED <<platter, call, event, seen, promises, temporaries, bounds>>

SyncEntry(c, f, next) ==
    /\ SyncDirectory(f)
    /\ Goto(c, next)
    /\ UNCHANGED <<disk, temporary, call, event, seen, promises, bounds>>

Finish(c) ==
    /\ At(c, "finish")
    /\ Return(c)
    /\ UNCHANGED <<files, seen, promises, temporaries, bounds>>

-----------------------------------------------------------------------------
(* refreshSnapshot *)

Snapshot(c) ==
    /\ Idle(c)
    /\ Answer(disk) \in {"open", "receipt"}
    /\ platter' = SyncedLog
    /\ GoOn(c, "createTemporary", "snapshot")
    /\ holder' = c
    /\ call' = [call EXCEPT ![c] = "snapshot"]
    /\ UNCHANGED <<disk, event, seen, promises, bounds>>

-----------------------------------------------------------------------------
(* compactCompletedLocked, by itself and as the first half of pruneReceipt *)

\* Where compaction goes on: the terminal record is to be written, or is there
\* and the log is to be removed, or there is nothing left to do.
CompactionStep ==
    IF disk.terminal # <<>> THEN "unlinkLog" ELSE "createTemporary"

Compact(c, name) ==
    /\ Idle(c)
    /\ name \in Retention \cap {"compact", "prune"}
    /\ Answer(disk) = "receipt"
    /\ platter' = SyncedLog
    /\ GoOn(c, CompactionStep, "terminal")
    /\ holder' = c
    /\ call' = [call EXCEPT ![c] = name]
    /\ UNCHANGED <<disk, event, seen, promises, bounds>>

UnlinkLog(c) ==
    /\ At(c, "unlinkLog")
    /\ RemoveFile(c, "log", "syncLogs", IF call[c] = "prune" THEN "compacted" ELSE "finish")
SyncLogs(c) ==
    /\ At(c, "syncLogs")
    /\ SyncEntry(c, "log", IF call[c] = "prune" THEN "compacted" ELSE "finish")

\* compactCompleted releases the lock; pruneReceipt takes it again.
Compacted(c) ==
    /\ At(c, "compacted")
    /\ pc' = [pc EXCEPT ![c] = "prune"] /\ holder' = NoCaller
    /\ UNCHANGED <<files, call, event, seen, promises, temporaries, bounds>>

-----------------------------------------------------------------------------
(* pruneReceipt *)

\* Of an operation that is pruned already only the rest is removed.
PruneExpired(c) ==
    /\ Idle(c)
    /\ "prune" \in Retention
    /\ disk.tombstone
    /\ pc' = [pc EXCEPT ![c] = "prune"]
    /\ call' = [call EXCEPT ![c] = "prune"]
    /\ UNCHANGED <<files, holder, event, seen, promises, temporaries, bounds>>

\* Mutants of PruneStep: what is pruned already needs nothing; the terminal record
\* goes before there is a tombstone.
PruneStepOnce == IF disk.tombstone THEN "finish" ELSE "createTemporary"
PruneStepUnmarked == "unlinkTerminal"

\* Where pruning goes on, given the tombstone or the terminal record.
PruneStep == IF disk.tombstone THEN "unlinkTerminal" ELSE "createTemporary"

Prune(c) ==
    /\ pc[c] = "prune" /\ holder = NoCaller
    /\ IF disk.tombstone \/ disk.terminal # <<>>
       THEN GoOn(c, PruneStep, "tombstone") /\ holder' = c /\ UNCHANGED <<call, event>>
       ELSE Return(c) /\ UNCHANGED temporaries
    /\ UNCHANGED <<files, seen, promises, bounds>>

UnlinkTerminal(c) ==
    At(c, "unlinkTerminal") /\ RemoveFile(c, "terminal", "syncTerminals", "unlinkSnapshot")
SyncTerminals(c) ==
    At(c, "syncTerminals") /\ SyncEntry(c, "terminal", "unlinkSnapshot")

UnlinkSnapshot(c) ==
    /\ At(c, "unlinkSnapshot")
    /\ RemoveFile(c, "snapshot", "syncSnapshots",
              IF call[c] = "purge" THEN "unlinkLog" ELSE "finish")
SyncSnapshots(c) ==
    /\ At(c, "syncSnapshots")
    /\ SyncEntry(c, "snapshot", IF call[c] = "purge" THEN "unlinkLog" ELSE "finish")

-----------------------------------------------------------------------------
(* purgeTombstone: the tombstone goes first *)

Purge(c) ==
    /\ Idle(c)
    /\ "purge" \in Retention
    /\ Answer(disk) = "expired"
    /\ platter' = SyncedLog
    /\ pc' = [pc EXCEPT ![c] = "unlinkTombstone"]
    /\ holder' = c
    /\ call' = [call EXCEPT ![c] = "purge"]
    /\ purging' = TRUE
    /\ UNCHANGED <<disk, event, seen, acked, answer, temporaries, bounds>>

UnlinkTombstone(c) ==
    At(c, "unlinkTombstone")
    /\ RemoveFile(c, "tombstone", "syncTombstones", "unlinkTerminal")
SyncTombstones(c) ==
    At(c, "syncTombstones") /\ SyncEntry(c, "tombstone", "unlinkTerminal")

-----------------------------------------------------------------------------
(* Failures *)

\* The temporary file of a write that ends before its unlink stays.
Abandon(c) ==
    /\ orphans' = orphans \cup {t \in {temporary[c]} : t.holds # "absent"}
    /\ temporary' = [temporary EXCEPT ![c] = NoTemporary]

\* A write, fsync or unlink throws, or the quota counter behind it does, with
\* the effects the call has had so far in place; a temporary file that lies there is
\* unlinked, unless it was that which threw, and the lock is released.
Fault(c) ==
    /\ holder = c
    /\ pc[c] # "idle"
    /\ faults < MaxFaults
    /\ faults' = faults + 1
    /\ IF Lies(temporary[c]) /\ pc[c] # "discard"
       THEN Goto(c, "discard") /\ UNCHANGED <<call, event, temporaries>>
       ELSE Return(c) /\ Abandon(c)
    /\ Forget(c)
    /\ UNCHANGED <<files, promises, crashes, losses>>

\* The process dies; its lock is reclaimed (JournalLock).
Crash(c) ==
    /\ pc[c] # "idle"
    /\ crashes < MaxCrashes
    /\ crashes' = crashes + 1
    /\ End(c)
    /\ holder' = IF holder = c THEN NoCaller ELSE holder
    /\ Forget(c)
    /\ Abandon(c)
    /\ UNCHANGED <<files, promises, losses, faults>>

\* What a power loss leaves of the log: its entry, and of its content the synced
\* one, the one written since, or anything the writes went through between.
LogsLeft ==
    LET contents == {[disk.log EXCEPT !.exists = TRUE],
                     [platter.log EXCEPT !.exists = TRUE]}
                    \cup {[exists |-> TRUE, records |-> platter.log.records, tail |-> t] :
                             t \in BOOLEAN}
        written == IF disk.log.exists THEN contents
                   ELSE {[platter.log EXCEPT !.exists = TRUE]}
    IN  (IF disk.log.exists \/ platter.log.exists THEN written ELSE {})
        \cup (IF disk.log.exists /\ platter.log.exists THEN {} ELSE {NoLog})

FilesLeft ==
    [log : LogsLeft, terminal : {disk.terminal, platter.terminal},
     tombstone : {disk.tombstone, platter.tombstone},
     snapshot : {disk.snapshot, platter.snapshot}]

\* Of the temporary files any may be left, the unlinked ones too.
OrphansLeft ==
    SUBSET {Temporary(t.of, h) :
              t \in {u \in orphans \cup {temporary[c] : c \in Caller} : u.holds # "absent"},
              h \in {"part", "whole"}}

PowerLoss ==
    /\ losses < MaxPowerLosses
    /\ losses' = losses + 1
    /\ disk' \in FilesLeft
    /\ platter' = disk'
    /\ orphans' \in OrphansLeft
    /\ temporary' = [c \in Caller |-> NoTemporary]
    /\ pc' = [c \in Caller |-> "idle"]
    /\ holder' = NoCaller
    /\ seen' = [c \in Caller |-> Unknown]
    /\ call' = [c \in Caller |-> "none"] /\ event' = [c \in Caller |-> NoRecord]
    /\ UNCHANGED <<promises, crashes, faults>>

-----------------------------------------------------------------------------
StoreInit ==
    /\ disk = NoFiles /\ platter = NoFiles
    /\ temporary = [c \in Caller |-> NoTemporary] /\ orphans = {}
    /\ holder = NoCaller
    /\ pc = [c \in Caller |-> "idle"]
    /\ call = [c \in Caller |-> "none"]
    /\ event = [c \in Caller |-> NoRecord]
    /\ seen = [c \in Caller |-> <<>>]
    /\ acked = <<>> /\ answer = "not_found" /\ purging = FALSE
    /\ crashes = 0 /\ losses = 0 /\ faults = 0

AppendStep(c) ==
    \/ CreateLog(c) \/ TruncateTail(c) \/ WritePart(c) \/ WriteRest(c)
    \/ SyncLog(c) \/ SyncLogEntry(c) \/ Acknowledge(c)
WriteStep(c) ==
    \/ CreateTemporary(c) \/ FillTemporary(c) \/ LinkTemporary(c)
    \/ UnlinkTemporary(c) \/ SyncLinked(c) \/ Discard(c)
RetentionStep(c) ==
    \/ UnlinkLog(c) \/ SyncLogs(c) \/ Compacted(c) \/ PruneExpired(c) \/ Prune(c)
    \/ UnlinkTerminal(c) \/ SyncTerminals(c) \/ UnlinkSnapshot(c) \/ SyncSnapshots(c)
    \/ UnlinkTombstone(c) \/ SyncTombstones(c) \/ Finish(c)

StoreNext ==
    \/ \E c \in Caller :
          \/ Load(c) \/ Snapshot(c) \/ Purge(c)
          \/ \E k \in Kinds : BeginAppend(c, k)
          \/ \E name \in Retention : Compact(c, name)
          \/ AppendStep(c) \/ WriteStep(c) \/ RetentionStep(c)
          \/ Fault(c) \/ Crash(c)
    \/ PowerLoss

StoreSpec == StoreInit /\ [][StoreNext]_storeVars

-----------------------------------------------------------------------------
(* Properties *)

Histories == {h \in Seq(Records) : h # <<>> => h[1].kind = "created"}
LogFiles == [exists : BOOLEAN, records : Histories, tail : BOOLEAN]
FileSets == [log : LogFiles, terminal : Histories,
             tombstone : BOOLEAN, snapshot : BOOLEAN]
StorePcs == {"idle", "create", "truncate", "write", "writeRest", "sync",
             "syncLogEntry", "acknowledge", "createTemporary", "fillTemporary",
             "linkTemporary", "unlinkTemporary", "syncLinked", "discard",
             "unlinkLog", "syncLogs", "compacted", "prune", "unlinkTerminal",
             "syncTerminals", "unlinkSnapshot", "syncSnapshots",
             "unlinkTombstone", "syncTombstones", "finish"}
Answers == {"not_found", "open", "receipt", "expired", "corrupt"}

\* Type correctness; every history starts with operation_created.
StoreTypeOK ==
    /\ disk \in FileSets /\ platter \in FileSets
    /\ temporary \in [Caller -> [of : Targets, holds : Contents] \cup {NoTemporary}]
    /\ orphans \subseteq [of : Targets, holds : Contents \ {"absent"}]
    /\ holder \in Caller \cup {NoCaller}
    /\ pc \in [Caller -> StorePcs]
    /\ call \in [Caller -> {"none", "append", "snapshot", "compact", "prune", "purge"}]
    /\ event \in [Caller -> Records \cup {NoRecord}]
    /\ seen \in [Caller -> Histories \cup {Unknown}]
    /\ acked \in Histories
    /\ answer \in Answers
    /\ purging \in BOOLEAN

\* An event a caller was told is durable (its append returned, or a load showed
\* it) is never lost or replaced, whichever process dies or power fails: every
\* Send rests on it.  Until a purge is asked for, the operation stays known.
Keeps(f) == f.tombstone \/ IsPrefix(acked, History(f))
AcknowledgedSurvives == ~purging => Keeps(disk) /\ \A f \in FilesLeft : Keeps(f)

\* An append that succeeds extended exactly the history its caller decided on:
\* the expected revision is only a count, and it stands for the whole history
\* because no record that was shown is ever exchanged for another.
AppendedToWhatWasSeen ==
    \A c \in Caller :
        At(c, "acknowledge") => disk.log.records = Append(seen[c], event[c])

\* The log, terminal record and tombstone that may coexist after a crash agree,
\* so that no call ever rejects the operation as corrupt (reconcileTerminalWithLog).
CopiesAgree == answer # "corrupt" /\ ~Disagrees(disk) /\ ~Disagrees(platter)

\* What was reported as durable is only ever extended, until a purge.
AcknowledgedOnlyGrows == [][~purging' => IsPrefix(acked, acked')]_storeVars

\* What callers are told never goes back: an operation that was found is not
\* "not found" later, and an expired receipt is not served again.
AnswerRank == [a \in Answers |->
    CASE a = "corrupt" -> 0 [] a = "not_found" -> 1 [] a = "open" -> 2
      [] a = "receipt" -> 3 [] a = "expired" -> 4]
AnswersNeverRegress ==
    [][~purging' => AnswerRank[answer] <= AnswerRank[answer']]_storeVars

\* The temporary files that lie in the directories.
Leftovers == {t \in orphans \cup {temporary[c] : c \in Caller} : Lies(t)}

\* A prune that returns has left the tombstone alone at the operation's four names,
\* and a purge none of the four, whatever interrupted the calls before it; and unless
\* a process died, or a write and the unlink that clears up after it both failed,
\* there is no other file: every write has removed its temporary one.
RetentionLeavesNoCopy ==
    \A c \in Caller : At(c, "finish") =>
        /\ call[c] = "prune" => disk = [NoFiles EXCEPT !.tombstone = TRUE]
        /\ call[c] = "purge" => disk = NoFiles
        /\ crashes = 0 /\ faults < 2 => Leftovers = {}

\* "The terminal is fsynced before the historical log is removed": no power loss
\* leaves an acknowledged operation with neither.
DeduplicationSurvivesCompaction == AcknowledgedSurvives

\* "Permanently removes a pruned tombstone and any crash-residue state": once
\* a receipt was reported expired, it is not served again.
PurgeIsPermanent ==
    [][answer = "expired" => answer' # "receipt"]_storeVars

\* "Permanently removes ... any crash-residue state": a purge that returns leaves
\* no temporary copy of the receipt either.
PurgeLeavesNoResidue ==
    \A c \in Caller : At(c, "finish") /\ call[c] = "purge" => Leftovers = {}
=============================================================================
