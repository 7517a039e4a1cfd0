----------------------------- MODULE JournalQuota -----------------------------
(***************************************************************************)
(* The quota counter of a state root (operations/journal.ts): one file     *)
(* that holds the bytes and entries of the four tracked directories, so    *)
(* that a new operation is admitted without a scan.  Every call that       *)
(* changes a tracked file does it under the quota lock, marks the counter  *)
(* dirty first and writes the new totals last.  A counter that is missing, *)
(* dirty, or whose directory fingerprints no longer match is rebuilt by a  *)
(* scan.                                                                   *)
(*                                                                         *)
(* An actor is the call that holds one operation's lock (JournalLock), so  *)
(* its log is changed by nobody else.  Sizes are in small units; what a    *)
(* scan would find is kept in "usage".  A directory's fingerprint changes  *)
(* with its entries and not with the bytes of a file in it: "current" is   *)
(* the set of fingerprint copies that still match.                         *)
(***************************************************************************)
EXTENDS Integers, FiniteSets

CONSTANTS
    Operation,       \* operations of the state root
    Nobody,
    Counter,         \* the copy of the fingerprints in the counter file
    RecordBytes,     \* one log record
    CopyBytes,       \* sizes of a snapshot, terminal record or tombstone
    MaxStateBytes,   \* options.maxStateBytes
    MaxEntries,      \* MAX_QUOTA_SCAN_ENTRIES
    MaxScanBytes,    \* MAX_QUOTA_SCAN_BYTES
    MaxCalls,        \* bound: calls
    MaxCrashes,      \* bound: processes that die
    MaxFaults,       \* bound: file operations that fail
    MaxOutside       \* bound: entries removed by another program

ASSUME QuotaAssumption ==
    /\ Nobody \notin Operation /\ Counter \notin Operation
    /\ RecordBytes \in Nat \ {0, 1} /\ CopyBytes \subseteq Nat \ {0}
    /\ MaxStateBytes \in Nat /\ MaxEntries \in Nat /\ MaxScanBytes \in Nat
    /\ MaxCalls \in Nat /\ MaxCrashes \in Nat
    /\ MaxFaults \in Nat /\ MaxOutside \in Nat

VARIABLES
    files,    \* the tracked files of each operation
    usage,    \* what a scan of the tracked directories finds
    counter,  \* quota-state.json
    current,  \* whose directory fingerprints match the directories
    holder,   \* who holds the quota lock
    pc, call,
    was,      \* the operation's files as the call read them
    scanned,  \* the totals of the scan in progress
    next,     \* where the scan in progress leads: "admit", or "release" after a throw
    retried,  \* the scan is the second attempt
    calls, crashes, faults, outside

disk == <<files, usage, current>>
actors == <<pc, call, was>>
scan == <<scanned, next, retried>>
bounds == <<calls, crashes, faults, outside>>
quotaVars == <<disk, counter, holder, actors, scan, bounds>>

-----------------------------------------------------------------------------
Kinds == {"open", "append", "copy", "removeLog", "removeCopy"}
NoFiles == [exists |-> FALSE, committed |-> 0, tail |-> 0, copy |-> 0, temps |-> 0]
Total == [bytes : Int, entries : Int]
Nothing == [bytes |-> 0, entries |-> 0]

One(b) == IF b THEN 1 ELSE 0
LogBytes(f) == f.committed + f.tail
BytesOf(f) == LogBytes(f) + f.copy + f.temps
EntriesOf(f) == One(f.exists) + One(f.copy > 0) + f.temps

QuotaInit ==
    /\ files = [o \in Operation |-> NoFiles]
    /\ usage = Nothing
    /\ counter = [exists |-> FALSE, dirty |-> FALSE, bytes |-> 0, entries |-> 0]
    /\ current = {}
    /\ holder = Nobody
    /\ pc = [o \in Operation |-> "idle"]
    /\ call = [o \in Operation |-> "append"]
    /\ was = [o \in Operation |-> NoFiles]
    /\ scanned = Nothing /\ next = "release" /\ retried = FALSE
    /\ calls = 0 /\ crashes = 0 /\ faults = 0 /\ outside = 0

Goto(o, step) == pc' = [pc EXCEPT ![o] = step]
At(o, step) == pc[o] = step

\* The files of o become f; the directories' entries change or only a size.
PutBytes(o, f) ==
    /\ files' = [files EXCEPT ![o] = f]
    /\ usage' = [bytes   |-> usage.bytes + BytesOf(f) - BytesOf(files[o]),
                 entries |-> usage.entries + EntriesOf(f) - EntriesOf(files[o])]
PutEntry(o, f) == PutBytes(o, f) /\ current' = {}
PutSize(o, f) == PutBytes(o, f) /\ UNCHANGED current

CounterOf(totals, isDirty) ==
    [exists |-> TRUE, dirty |-> isDirty, bytes |-> totals.bytes, entries |-> totals.entries]
Trusted == counter.exists /\ ~counter.dirty /\ Counter \in current

\* Mutant of Reusable: the dirty bit a dead process left is not looked at.
ReusableDirty == counter.exists /\ Counter \in current
\* The counter can be used without a scan (loadCurrentQuotaCounter).
Reusable == Trusted

-----------------------------------------------------------------------------
(* Calls, under the operation's lock, up to the quota lock. *)

Creates(f) == f.committed = 0

MayCall(o, kind) ==
    CASE kind \in {"open", "append"} -> TRUE
      [] kind = "copy"       -> files[o].committed > 0
      [] kind = "removeLog"  -> files[o].exists /\ files[o].copy > 0
      [] kind = "removeCopy" -> files[o].copy > 0

Begin(o, kind) ==
    /\ At(o, "idle") /\ calls < MaxCalls
    /\ MayCall(o, kind)
    /\ call' = [call EXCEPT ![o] = kind]
    /\ was' = [was EXCEPT ![o] = files[o]]
    /\ calls' = calls + 1
    /\ Goto(o, "lock")
    /\ UNCHANGED <<disk, counter, holder, scan, crashes, faults, outside>>

Lock(o) ==
    /\ At(o, "lock") /\ holder = Nobody
    /\ holder' = o
    /\ Goto(o, "load")
    /\ UNCHANGED <<disk, counter, call, was, scan, bounds>>

\* OperationJournal.open only makes sure that there is a counter.
AfterLoad(o) == IF call[o] = "open" THEN "release" ELSE "admit"

Load(o) ==
    /\ At(o, "load")
    /\ IF Reusable THEN Goto(o, AfterLoad(o)) /\ UNCHANGED scan
       ELSE /\ Goto(o, "scan")
            /\ next' = AfterLoad(o) /\ retried' = FALSE /\ UNCHANGED scanned
    /\ UNCHANGED <<disk, counter, holder, call, was, bounds>>

-----------------------------------------------------------------------------
(* rebuildQuotaCounter *)

OverScanLimit(totals) == totals.entries > MaxEntries \/ totals.bytes > MaxScanBytes

\* The fingerprints before the scan, and the scan.
Scan(o) ==
    /\ At(o, "scan")
    /\ IF OverScanLimit(usage)
       THEN Goto(o, "release") /\ UNCHANGED <<scanned, current>>
       ELSE /\ Goto(o, "compare")
            /\ scanned' = usage
            /\ current' = current \cup {o}
    /\ UNCHANGED <<files, usage, counter, holder, call, was, next, retried, bounds>>

\* The fingerprints after it: the scan is tried twice.
Compare(o) ==
    /\ At(o, "compare")
    /\ \/ o \in current /\ Goto(o, "rebuild") /\ UNCHANGED retried
       \/ o \notin current /\ ~retried /\ Goto(o, "scan") /\ retried' = TRUE
       \/ o \notin current /\ retried /\ Goto(o, "release") /\ UNCHANGED retried
    /\ UNCHANGED <<disk, counter, holder, call, was, scanned, next, bounds>>

SaveRebuilt(o) ==
    /\ counter' = CounterOf(scanned, FALSE)
    /\ current' = IF o \in current THEN current \cup {Counter} ELSE current \ {Counter}

Rebuild(o) ==
    /\ At(o, "rebuild")
    /\ SaveRebuilt(o)
    /\ Goto(o, next)
    /\ UNCHANGED <<files, usage, holder, call, was, scan, bounds>>

-----------------------------------------------------------------------------
(* mutateQuotaTrackedState: the admission of a new operation, the dirty    *)
(* mark, the mutation, the new totals.                                     *)

Positive(n) == IF n > 0 THEN n ELSE 0

DeltaOf(o) ==
    CASE call[o] = "append"     -> [bytes   |-> RecordBytes - was[o].tail,
                                    entries |-> 1 - One(was[o].exists)]
      [] call[o] = "copy"       -> [bytes   |-> files[o].copy - was[o].copy,
                                    entries |-> 1 - One(was[o].copy > 0)]
      [] call[o] = "removeLog"  -> [bytes   |-> 0 - LogBytes(was[o]),
                                    entries |-> 0 - One(was[o].exists)]
      [] call[o] = "removeCopy" -> [bytes   |-> 0 - was[o].copy,
                                    entries |-> 0 - One(was[o].copy > 0)]

Refused(o) ==
    /\ call[o] = "append" /\ Creates(was[o])
    /\ \/ OverScanLimit(counter)
       \/ counter.bytes + Positive(DeltaOf(o).bytes) > MaxScanBytes
       \/ counter.bytes + Positive(DeltaOf(o).bytes) > MaxStateBytes

Admit(o) ==
    /\ At(o, "admit")
    /\ Goto(o, IF Refused(o) THEN "release" ELSE "mark")
    /\ UNCHANGED <<disk, counter, holder, call, was, scan, bounds>>

FirstStep(kind) ==
    CASE kind = "append" -> "open"
      [] kind = "copy"   -> "temp"
      [] OTHER           -> "unlink"

Mark(o) ==
    /\ At(o, "mark")
    /\ counter' = CounterOf(counter, TRUE)
    /\ Goto(o, FirstStep(call[o]))
    /\ UNCHANGED <<disk, holder, call, was, scan, bounds>>

\* appendRecord: a new file, or a torn tail cut off, before the record.
Open(o) ==
    /\ At(o, "open")
    /\ IF was[o].exists THEN UNCHANGED disk
       ELSE PutEntry(o, [files[o] EXCEPT !.exists = TRUE])
    /\ Goto(o, IF was[o].tail > 0 THEN "truncate" ELSE "write")
    /\ UNCHANGED <<counter, holder, call, was, scan, bounds>>

Truncate(o) ==
    /\ At(o, "truncate")
    /\ PutSize(o, [files[o] EXCEPT !.tail = 0])
    /\ Goto(o, "write")
    /\ UNCHANGED <<counter, holder, call, was, scan, bounds>>

Write(o) ==
    /\ At(o, "write")
    /\ PutSize(o, [files[o] EXCEPT !.committed = @ + RecordBytes])
    /\ Goto(o, "sync")
    /\ UNCHANGED <<counter, holder, call, was, scan, bounds>>

\* writeAtomicJson: a temporary file renamed over the copy (snapshots), or
\* linked under its name and then unlinked (terminal records, tombstones).
Temp(o) ==
    /\ At(o, "temp")
    /\ was' = [was EXCEPT ![o] = files[o]]
    /\ PutEntry(o, [files[o] EXCEPT !.temps = @ + 1])
    /\ Goto(o, "publish")
    /\ UNCHANGED <<counter, holder, call, scan, bounds>>

Publish(o) ==
    /\ At(o, "publish")
    /\ \E n \in CopyBytes :
          \/ /\ PutEntry(o, [files[o] EXCEPT !.copy = n, !.temps = @ - 1])
             /\ Goto(o, "sync")
          \/ /\ files[o].copy = 0
             /\ PutEntry(o, [files[o] EXCEPT !.copy = n])
             /\ Goto(o, "unlinkTemp")
    /\ UNCHANGED <<counter, holder, call, was, scan, bounds>>

UnlinkTemp(o) ==
    /\ At(o, "unlinkTemp")
    /\ PutEntry(o, [files[o] EXCEPT !.temps = @ - 1])
    /\ Goto(o, "sync")
    /\ UNCHANGED <<counter, holder, call, was, scan, bounds>>

\* removeQuotaTrackedFile
Unlink(o) ==
    /\ At(o, "unlink")
    /\ was' = [was EXCEPT ![o] = files[o]]
    /\ IF call[o] = "removeLog"
       THEN PutEntry(o, [files[o] EXCEPT !.exists = FALSE, !.committed = 0, !.tail = 0])
       ELSE IF files[o].copy > 0 THEN PutEntry(o, [files[o] EXCEPT !.copy = 0])
       ELSE UNCHANGED disk
    /\ Goto(o, "sync")
    /\ UNCHANGED <<counter, holder, call, scan, bounds>>

\* The fsync of the file or of its directory: nothing left to do.
Sync(o) ==
    /\ At(o, "sync")
    /\ Goto(o, "settle")
    /\ UNCHANGED <<disk, counter, holder, call, was, scan, bounds>>

SaveSettled(o) ==
    /\ counter' = CounterOf([bytes   |-> counter.bytes + DeltaOf(o).bytes,
                             entries |-> counter.entries + DeltaOf(o).entries], FALSE)
    /\ current' = current \cup {Counter}

Settle(o) ==
    /\ At(o, "settle")
    /\ SaveSettled(o)
    /\ Goto(o, "release")
    /\ UNCHANGED <<files, usage, holder, call, was, scan, bounds>>

Release(o) ==
    /\ At(o, "release")
    /\ holder' = Nobody
    /\ current' = current \ {o}
    /\ Goto(o, "idle")
    /\ UNCHANGED <<files, usage, counter, call, was, scan, bounds>>

-----------------------------------------------------------------------------
(* Failed file operations, dying processes, and other programs. *)

Mutating == {"open", "truncate", "write", "temp", "publish", "unlinkTemp", "unlink",
             "sync", "settle"}
OwnTemp(o) == pc[o] \in {"publish", "unlinkTemp"}

\* What a write that is cut short leaves: nothing, or part of a record.
Torn(o) ==
    \/ UNCHANGED disk
    \/ At(o, "write") /\ PutSize(o, [files[o] EXCEPT !.tail = 1])

\* Mutant of Failed: the totals from before the mutation are put back.
FailedRestoring(o) ==
    /\ pc[o] \in Mutating
    /\ IF OwnTemp(o) THEN PutEntry(o, [files[o] EXCEPT !.temps = @ - 1]) ELSE Torn(o)
    /\ counter' = CounterOf(counter, FALSE)
    /\ Goto(o, "release")
    /\ UNCHANGED <<holder, call, was, scan>>

\* The mutation, or the write of the new totals, throws: the temporary file
\* is unlinked and the counter rebuilt, and the call fails with the first error.
Failed(o) ==
    /\ pc[o] \in Mutating
    /\ \/ /\ IF OwnTemp(o) THEN PutEntry(o, [files[o] EXCEPT !.temps = @ - 1]) ELSE Torn(o)
          /\ UNCHANGED counter
       \/ At(o, "settle") /\ SaveSettled(o) /\ UNCHANGED <<files, usage>>
    /\ next' = "release" /\ retried' = FALSE
    /\ Goto(o, "scan")
    /\ UNCHANGED <<holder, call, was, scanned>>

\* The scan, or a write of the counter outside the mutation, throws: the file
\* is the old one, or already the new one when only the directory's fsync failed.
FailedCounter(o) ==
    /\ pc[o] \in {"scan", "rebuild", "mark"}
    /\ \/ UNCHANGED <<counter, current>>
       \/ At(o, "rebuild") /\ SaveRebuilt(o)
       \/ At(o, "mark") /\ counter' = CounterOf(counter, TRUE) /\ UNCHANGED current
    /\ Goto(o, "release")
    /\ UNCHANGED <<files, usage, holder, call, was, scan>>

Fault(o) ==
    /\ faults < MaxFaults
    /\ faults' = faults + 1
    /\ Failed(o) \/ FailedCounter(o)
    /\ UNCHANGED <<calls, crashes, outside>>

\* The process dies; its locks are reclaimed (JournalLock).
Die(o) ==
    /\ crashes < MaxCrashes
    /\ ~At(o, "idle")
    /\ crashes' = crashes + 1
    /\ Torn(o)
    /\ holder' = IF holder = o THEN Nobody ELSE holder
    /\ Goto(o, "idle")
    /\ UNCHANGED <<counter, call, was, scan, calls, faults, outside>>

\* Another program removes a cached copy or a temporary file.  Between the
\* last look at the fingerprints before a mutation and the first after it,
\* such a change is noticed by nobody: it is left out there.
Outside(o) ==
    /\ outside < MaxOutside
    /\ \A p \in Operation : pc[p] \notin Mutating \cup {"rebuild", "admit", "mark"}
    /\ \/ files[o].copy > 0 /\ PutEntry(o, [files[o] EXCEPT !.copy = 0])
       \/ files[o].temps > 0 /\ PutEntry(o, [files[o] EXCEPT !.temps = @ - 1])
    /\ outside' = outside + 1
    /\ UNCHANGED <<counter, holder, actors, scan, calls, crashes, faults>>

CallStep(o) ==
    \/ \E kind \in Kinds : Begin(o, kind)
    \/ Lock(o) \/ Load(o) \/ Scan(o) \/ Compare(o) \/ Rebuild(o)
    \/ Admit(o) \/ Mark(o) \/ Settle(o) \/ Release(o)
    \/ Open(o) \/ Truncate(o) \/ Write(o) \/ Sync(o)
    \/ Temp(o) \/ Publish(o) \/ UnlinkTemp(o) \/ Unlink(o)

QuotaNext == \E o \in Operation : CallStep(o) \/ Fault(o) \/ Die(o) \/ Outside(o)

QuotaSpec == QuotaInit /\ [][QuotaNext]_quotaVars

-----------------------------------------------------------------------------
(* Properties *)

Steps == Mutating \cup {"idle", "lock", "load", "scan", "compare", "rebuild",
                       "admit", "mark", "release"}
Files == [exists : BOOLEAN, committed : Nat, tail : Nat, copy : Nat, temps : Nat]

QuotaTypeOK ==
    /\ files \in [Operation -> Files] /\ was \in [Operation -> Files]
    /\ usage \in Total /\ scanned \in Total
    /\ counter \in [exists : BOOLEAN, dirty : BOOLEAN, bytes : Int, entries : Int]
    /\ current \subseteq Operation \cup {Counter}
    /\ holder \in Operation \cup {Nobody}
    /\ pc \in [Operation -> Steps] /\ call \in [Operation -> Kinds]
    /\ next \in {"admit", "release"}

\* A counter that would be used without a scan is exact: whatever was torn,
\* thrown or left behind, it is then dirty or its fingerprints are stale
\* ("the authenticated dirty bit forces the next opener to scan",
\* mutateQuotaTrackedState).
CounterExact ==
    Trusted => counter.bytes = usage.bytes /\ counter.entries = usage.entries

\* A new operation's first record never takes the state root past its quota,
\* with any other operation being created, grown or removed at the same time
\* (assertQuotaForNewOperation under the quota lock).
AdmissionWithinQuota ==
    [][\A o \in Operation :
          files[o].committed = 0 /\ files'[o].committed > 0
            => usage'.bytes <= MaxStateBytes]_quotaVars
=============================================================================
