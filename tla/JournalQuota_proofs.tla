------------------------- MODULE JournalQuota_proofs -------------------------
(***************************************************************************)
(* The quota counter is exact whenever it is trusted, for any number of    *)
(* operations, sizes, crashes and faults.                                  *)
(*                                                                         *)
(* Only the holder of the quota lock is past its acquisition, so the whole *)
(* argument is about one call: what is left to count at each of its steps. *)
(***************************************************************************)
EXTENDS JournalQuota, TLAPS

\* Past the quota lock only its holder.
OneInside == \A o \in Operation : pc[o] \notin {"idle", "lock"} => holder = o

\* The log is as the call read it until the mutation touches it.
LogAsRead(o) ==
    /\ files[o].exists = was[o].exists
    /\ files[o].committed = was[o].committed
    /\ files[o].tail = was[o].tail
BeforeMutation(o) ==
    \/ pc[o] \in {"lock", "load", "admit", "mark", "open"}
    \/ pc[o] \in {"scan", "compare", "rebuild"} /\ next = "admit"
ReadIsCurrent(o) == BeforeMutation(o) /\ call[o] = "append" => LogAsRead(o)

\* A scan whose fingerprints still match counted what is there.
ScanIsExact(o) ==
    /\ pc[o] \in {"compare", "rebuild"} /\ o \in current => scanned = usage
    /\ pc[o] = "rebuild" => o \in current

Ahead(b, e) == usage.bytes = counter.bytes + b /\ usage.entries = counter.entries + e

\* What the mutation has changed and the counter does not show.
Uncounted(o) ==
    /\ pc[o] \in {"admit", "mark", "open", "temp", "unlink"} => Ahead(0, 0)
    /\ pc[o] = "truncate" => Ahead(0, 1 - One(was[o].exists))
    /\ pc[o] = "write" => Ahead(0 - was[o].tail, 1 - One(was[o].exists))
    /\ pc[o] = "publish" => Ahead(1, 1)
    /\ pc[o] = "unlinkTemp" => Ahead(files[o].copy + 1, 2)
    /\ pc[o] \in {"sync", "settle"} => Ahead(DeltaOf(o).bytes, DeltaOf(o).entries)

\* The files at each step of the mutation.
HalfDone(o) ==
    /\ pc[o] \in {"open", "truncate", "write"} => call[o] = "append"
    /\ pc[o] \in {"temp", "publish", "unlinkTemp"} => call[o] = "copy"
    /\ pc[o] = "unlink" => call[o] \in {"removeLog", "removeCopy"}
    /\ pc[o] \in Mutating \cup {"admit", "mark"} => call[o] # "open"
    /\ pc[o] \in {"truncate", "write"} =>
          files[o].exists /\ files[o].committed = was[o].committed
    /\ pc[o] = "truncate" => files[o].tail = was[o].tail
    /\ pc[o] = "write" => files[o].tail = 0
    /\ OwnTemp(o) => files[o].temps > 0
    /\ pc[o] = "publish" => files[o].copy = was[o].copy
    /\ pc[o] = "unlinkTemp" => was[o].copy = 0 /\ files[o].copy > 0
    /\ pc[o] \in {"sync", "settle"} /\ call[o] = "copy" => files[o].copy > 0

\* The counter is dirty from the mark to the new totals.
DirtyWhileMutating(o) == pc[o] \in Mutating => counter.exists /\ counter.dirty

\* A creation under way was admitted with room for its record.
Admitted(o) ==
    /\ pc[o] \in {"mark", "open", "truncate", "write"} /\ call[o] = "append"
    /\ Creates(was[o])
    => counter.bytes + Positive(RecordBytes - was[o].tail) <= MaxStateBytes

OpInv(o) ==
    /\ ReadIsCurrent(o) /\ ScanIsExact(o) /\ Uncounted(o)
    /\ HalfDone(o) /\ DirtyWhileMutating(o) /\ Admitted(o)

\* next = "admit" is never the way of an open.
ScanLeads == \A o \in Operation :
    pc[o] \in {"scan", "compare", "rebuild"} /\ next = "admit" => call[o] # "open"

QInv ==
    /\ QuotaTypeOK /\ OneInside /\ CounterExact /\ ScanLeads
    /\ \A o \in Operation : OpInv(o)

-----------------------------------------------------------------------------
(* The steps *)

\* The files of an operation stay files.
LEMMA FilesUpdate ==
    ASSUME NEW f \in Files, NEW n \in Nat
    PROVE  /\ [f EXCEPT !.exists = TRUE] \in Files
           /\ [f EXCEPT !.copy = n] \in Files
           /\ [f EXCEPT !.tail = n] \in Files
           /\ f.temps > 0 => [f EXCEPT !.temps = @ - 1] \in Files
           /\ f.temps > 0 => [f EXCEPT !.copy = n, !.temps = @ - 1] \in Files
<1>1. [f EXCEPT !.exists = TRUE] \in Files
    BY DEF Files
<1>2. [f EXCEPT !.copy = n] \in Files /\ [f EXCEPT !.tail = n] \in Files
    BY DEF Files
<1>3. f.temps > 0 => f.temps - 1 \in Nat
    BY DEF Files
<1>4. f.temps > 0 => [f EXCEPT !.temps = @ - 1] \in Files
    BY <1>3 DEF Files
<1>5. f.temps > 0 => [f EXCEPT !.copy = n, !.temps = @ - 1] \in Files
    BY <1>3 DEF Files
<1> QED BY <1>1, <1>2, <1>4, <1>5

\* A call that waits for the quota lock or is not begun has nothing at stake
\* but the log it has read.
LEMMA OthersQuiet ==
    ASSUME QInv, NEW o \in Operation,
           \A q \in Operation \ {o} :
              /\ pc[q] \in {"idle", "lock"} /\ pc'[q] = pc[q]
              /\ call'[q] = call[q] /\ was'[q] = was[q] /\ files'[q] = files[q]
    PROVE  \A q \in Operation \ {o} : OpInv(q)'
<1> SUFFICES ASSUME NEW q \in Operation, q # o PROVE OpInv(q)'
    OBVIOUS
<1>1. pc'[q] \in {"idle", "lock"} /\ pc'[q] = pc[q] /\ call'[q] = call[q]
      /\ was'[q] = was[q] /\ files'[q] = files[q]
    OBVIOUS
<1>2. ReadIsCurrent(q)
    BY DEF QInv, OpInv
<1>3. ReadIsCurrent(q)'
    BY <1>1, <1>2 DEF ReadIsCurrent, BeforeMutation, LogAsRead
<1>4. /\ ScanIsExact(q)' /\ Uncounted(q)' /\ HalfDone(q)'
      /\ DirtyWhileMutating(q)' /\ Admitted(q)'
    BY <1>1 DEF ScanIsExact, Uncounted, HalfDone, OwnTemp, DirtyWhileMutating,
               Admitted, Mutating
<1> QED BY <1>3, <1>4 DEF OpInv

\* A step past the lock is the holder's: the others are quiet.
LEMMA HolderAlone ==
    ASSUME QInv, NEW o \in Operation, pc[o] \notin {"idle", "lock"}
    PROVE  /\ holder = o
           /\ \A q \in Operation \ {o} : pc[q] \in {"idle", "lock"}
BY DEF QInv, OneInside

\* The counter is used as it is only when it is exact.
LEMMA LoadKeeps ==
    ASSUME QInv, NEW o \in Operation, Load(o)
    PROVE  QInv'
<1> USE QuotaAssumption DEF Load, Goto, At, disk, actors, scan, bounds
<1>1. /\ holder = o
      /\ \A q \in Operation \ {o} : pc[q] \in {"idle", "lock"}
    BY HolderAlone
<1>2. QuotaTypeOK /\ CounterExact /\ ScanLeads /\ OpInv(o)
    BY DEF QInv
<1>3. QuotaTypeOK'
  <2>1. files' \in [Operation -> Files] /\ was' \in [Operation -> Files]
    BY <1>2 DEF QuotaTypeOK, Files, OpInv, HalfDone, OwnTemp
  <2>2. usage' \in Total /\ scanned' \in Total
    BY <1>2 DEF QuotaTypeOK, Files, Total
  <2>3. counter' \in [exists : BOOLEAN, dirty : BOOLEAN, bytes : Int, entries : Int]
    BY <1>2 DEF QuotaTypeOK, Total
  <2>4. current' \subseteq Operation \cup {Counter} /\ holder' \in Operation \cup {Nobody}
    BY <1>2 DEF QuotaTypeOK
  <2>5. /\ pc' \in [Operation -> Steps] /\ call' \in [Operation -> Kinds]
        /\ next' \in {"admit", "release"}
    BY <1>2 DEF QuotaTypeOK, Steps, Mutating, Kinds, AfterLoad
  <2> QED BY <2>1, <2>2, <2>3, <2>4, <2>5 DEF QuotaTypeOK
<1>4. OneInside' /\ ScanLeads'
    BY <1>1, <1>2 DEF QuotaTypeOK, OneInside, ScanLeads, AfterLoad
<1>5. CounterExact'
    BY <1>2 DEF CounterExact, Trusted, OpInv, ScanIsExact, Uncounted, Ahead,
                DirtyWhileMutating, QuotaTypeOK, Total, Reusable
<1>6. \A q \in Operation \ {o} : OpInv(q)'
    BY <1>1, <1>2, OthersQuiet DEF QuotaTypeOK
<1>7. OpInv(o)'
  <2>1. ReadIsCurrent(o)'
    BY <1>2 DEF OpInv, QuotaTypeOK, Files, ReadIsCurrent, BeforeMutation, LogAsRead,
                AfterLoad
  <2>2. ScanIsExact(o)'
    BY <1>2 DEF OpInv, QuotaTypeOK, ScanIsExact, AfterLoad
  <2>3. Uncounted(o)'
    BY <1>2 DEF OpInv, QuotaTypeOK, Total, CounterExact, Uncounted, Ahead, AfterLoad,
                Reusable, Trusted
  <2>4. HalfDone(o)'
    BY <1>2 DEF OpInv, QuotaTypeOK, Files, HalfDone, OwnTemp, Mutating, AfterLoad
  <2>5. DirtyWhileMutating(o)'
    BY <1>2 DEF OpInv, QuotaTypeOK, DirtyWhileMutating, Mutating, AfterLoad
  <2>6. Admitted(o)'
    BY <1>2 DEF OpInv, QuotaTypeOK, Admitted, AfterLoad
  <2> QED BY <2>1, <2>2, <2>3, <2>4, <2>5, <2>6 DEF OpInv
<1> QED BY <1>3, <1>4, <1>5, <1>6, <1>7 DEF QInv

\* A scan under the quota lock counts what is there.
LEMMA ScanKeeps ==
    ASSUME QInv, NEW o \in Operation, Scan(o)
    PROVE  QInv'
<1> USE QuotaAssumption DEF Scan, Goto, At, disk, actors, scan, bounds
<1>1. /\ holder = o
      /\ \A q \in Operation \ {o} : pc[q] \in {"idle", "lock"}
    BY HolderAlone
<1>2. QuotaTypeOK /\ CounterExact /\ ScanLeads /\ OpInv(o)
    BY DEF QInv
<1>3. QuotaTypeOK'
  <2>1. files' \in [Operation -> Files] /\ was' \in [Operation -> Files]
    BY <1>2 DEF QuotaTypeOK, Files, OpInv, HalfDone, OwnTemp
  <2>2. usage' \in Total /\ scanned' \in Total
    BY <1>2 DEF QuotaTypeOK, Files, Total
  <2>3. counter' \in [exists : BOOLEAN, dirty : BOOLEAN, bytes : Int, entries : Int]
    BY <1>2 DEF QuotaTypeOK, Total
  <2>4. current' \subseteq Operation \cup {Counter} /\ holder' \in Operation \cup {Nobody}
    BY <1>2 DEF QuotaTypeOK
  <2>5. /\ pc' \in [Operation -> Steps] /\ call' \in [Operation -> Kinds]
        /\ next' \in {"admit", "release"}
    BY <1>2 DEF QuotaTypeOK, Steps, Mutating, Kinds
  <2> QED BY <2>1, <2>2, <2>3, <2>4, <2>5 DEF QuotaTypeOK
<1>4. OneInside' /\ ScanLeads'
    BY <1>1, <1>2 DEF QuotaTypeOK, OneInside, ScanLeads
<1>5. CounterExact'
    BY <1>2 DEF CounterExact, Trusted, OpInv, ScanIsExact, Uncounted, Ahead,
                DirtyWhileMutating, QuotaTypeOK, Total
<1>6. \A q \in Operation \ {o} : OpInv(q)'
    BY <1>1, <1>2, OthersQuiet DEF QuotaTypeOK
<1>7. OpInv(o)'
  <2>1. ReadIsCurrent(o)'
    BY <1>2 DEF OpInv, QuotaTypeOK, Files, ReadIsCurrent, BeforeMutation, LogAsRead
  <2>2. ScanIsExact(o)'
    BY <1>2 DEF OpInv, QuotaTypeOK, ScanIsExact
  <2>3. Uncounted(o)'
    BY <1>2 DEF OpInv, QuotaTypeOK, Uncounted
  <2>4. HalfDone(o)'
    BY <1>2 DEF OpInv, QuotaTypeOK, Files, HalfDone, OwnTemp, Mutating
  <2>5. DirtyWhileMutating(o)'
    BY <1>2 DEF OpInv, QuotaTypeOK, DirtyWhileMutating, Mutating
  <2>6. Admitted(o)'
    BY <1>2 DEF OpInv, QuotaTypeOK, Admitted, OverScanLimit
  <2> QED BY <2>1, <2>2, <2>3, <2>4, <2>5, <2>6 DEF OpInv
<1> QED BY <1>3, <1>4, <1>5, <1>6, <1>7 DEF QInv

\* Nothing is changed while the fingerprints are compared.
LEMMA CompareKeeps ==
    ASSUME QInv, NEW o \in Operation, Compare(o)
    PROVE  QInv'
<1> USE QuotaAssumption DEF Compare, Goto, At, disk, actors, scan, bounds
<1>1. /\ holder = o
      /\ \A q \in Operation \ {o} : pc[q] \in {"idle", "lock"}
    BY HolderAlone
<1>2. QuotaTypeOK /\ CounterExact /\ ScanLeads /\ OpInv(o)
    BY DEF QInv
<1>3. QuotaTypeOK'
  <2>1. files' \in [Operation -> Files] /\ was' \in [Operation -> Files]
    BY <1>2 DEF QuotaTypeOK, Files, OpInv, HalfDone, OwnTemp
  <2>2. usage' \in Total /\ scanned' \in Total
    BY <1>2 DEF QuotaTypeOK, Files, Total
  <2>3. counter' \in [exists : BOOLEAN, dirty : BOOLEAN, bytes : Int, entries : Int]
    BY <1>2 DEF QuotaTypeOK, Total
  <2>4. current' \subseteq Operation \cup {Counter} /\ holder' \in Operation \cup {Nobody}
    BY <1>2 DEF QuotaTypeOK
  <2>5. /\ pc' \in [Operation -> Steps] /\ call' \in [Operation -> Kinds]
        /\ next' \in {"admit", "release"}
    BY <1>2 DEF QuotaTypeOK, Steps, Mutating, Kinds
  <2> QED BY <2>1, <2>2, <2>3, <2>4, <2>5 DEF QuotaTypeOK
<1>4. OneInside' /\ ScanLeads'
    BY <1>1, <1>2 DEF QuotaTypeOK, OneInside, ScanLeads
<1>5. CounterExact'
    BY <1>2 DEF CounterExact, Trusted, OpInv, ScanIsExact, Uncounted, Ahead,
                DirtyWhileMutating, QuotaTypeOK, Total
<1>6. \A q \in Operation \ {o} : OpInv(q)'
    BY <1>1, <1>2, OthersQuiet DEF QuotaTypeOK
<1>7. OpInv(o)'
  <2>1. ReadIsCurrent(o)'
    BY <1>2 DEF OpInv, QuotaTypeOK, Files, ReadIsCurrent, BeforeMutation, LogAsRead
  <2>2. ScanIsExact(o)'
    BY <1>2 DEF OpInv, QuotaTypeOK, ScanIsExact
  <2>3. Uncounted(o)'
    BY <1>2 DEF OpInv, QuotaTypeOK, Uncounted
  <2>4. HalfDone(o)'
    BY <1>2 DEF OpInv, QuotaTypeOK, Files, HalfDone, OwnTemp, Mutating
  <2>5. DirtyWhileMutating(o)'
    BY <1>2 DEF OpInv, QuotaTypeOK, DirtyWhileMutating, Mutating
  <2>6. Admitted(o)'
    BY <1>2 DEF OpInv, QuotaTypeOK, Admitted
  <2> QED BY <2>1, <2>2, <2>3, <2>4, <2>5, <2>6 DEF OpInv
<1> QED BY <1>3, <1>4, <1>5, <1>6, <1>7 DEF QInv

\* The rebuilt counter is exact: its fingerprints still match.
LEMMA RebuildKeeps ==
    ASSUME QInv, NEW o \in Operation, Rebuild(o)
    PROVE  QInv'
<1> USE QuotaAssumption DEF Rebuild, Goto, At, disk, actors, scan, bounds
<1>1. /\ holder = o
      /\ \A q \in Operation \ {o} : pc[q] \in {"idle", "lock"}
    BY HolderAlone
<1>2. QuotaTypeOK /\ CounterExact /\ ScanLeads /\ OpInv(o)
    BY DEF QInv
<1>3. QuotaTypeOK'
  <2>1. files' \in [Operation -> Files] /\ was' \in [Operation -> Files]
    BY <1>2 DEF QuotaTypeOK, Files, OpInv, HalfDone, OwnTemp
  <2>2. usage' \in Total /\ scanned' \in Total
    BY <1>2 DEF QuotaTypeOK, Files, Total
  <2>3. counter' \in [exists : BOOLEAN, dirty : BOOLEAN, bytes : Int, entries : Int]
    BY <1>2 DEF QuotaTypeOK, Total, SaveRebuilt, CounterOf
  <2>4. current' \subseteq Operation \cup {Counter} /\ holder' \in Operation \cup {Nobody}
    BY <1>2 DEF QuotaTypeOK, SaveRebuilt
  <2>5. /\ pc' \in [Operation -> Steps] /\ call' \in [Operation -> Kinds]
        /\ next' \in {"admit", "release"}
    BY <1>2 DEF QuotaTypeOK, Steps, Mutating, Kinds
  <2> QED BY <2>1, <2>2, <2>3, <2>4, <2>5 DEF QuotaTypeOK
<1>4. OneInside' /\ ScanLeads'
    BY <1>1, <1>2 DEF QuotaTypeOK, OneInside, ScanLeads
<1>5. CounterExact'
    BY <1>2 DEF CounterExact, Trusted, OpInv, ScanIsExact, Uncounted, Ahead,
                DirtyWhileMutating, QuotaTypeOK, Total, SaveRebuilt, CounterOf
<1>6. \A q \in Operation \ {o} : OpInv(q)'
    BY <1>1, <1>2, OthersQuiet DEF QuotaTypeOK
<1>7. OpInv(o)'
  <2>1. ReadIsCurrent(o)'
    BY <1>2 DEF OpInv, QuotaTypeOK, Files, ReadIsCurrent, BeforeMutation, LogAsRead
  <2>2. ScanIsExact(o)'
    BY <1>2 DEF OpInv, QuotaTypeOK, ScanIsExact, SaveRebuilt
  <2>3. Uncounted(o)'
    BY <1>2 DEF OpInv, QuotaTypeOK, Total, ScanIsExact, Uncounted, Ahead, SaveRebuilt,
                CounterOf
  <2>4. HalfDone(o)'
    BY <1>2 DEF OpInv, QuotaTypeOK, Files, HalfDone, OwnTemp, Mutating, ScanLeads
  <2>5. DirtyWhileMutating(o)'
    BY <1>2 DEF OpInv, QuotaTypeOK, DirtyWhileMutating, Mutating, SaveRebuilt, CounterOf
  <2>6. Admitted(o)'
    BY <1>2 DEF OpInv, QuotaTypeOK, Admitted, SaveRebuilt, CounterOf
  <2> QED BY <2>1, <2>2, <2>3, <2>4, <2>5, <2>6 DEF OpInv
<1> QED BY <1>3, <1>4, <1>5, <1>6, <1>7 DEF QInv

\* A creation goes on only with room for its record.
LEMMA AdmitKeeps ==
    ASSUME QInv, NEW o \in Operation, Admit(o)
    PROVE  QInv'
<1> USE QuotaAssumption DEF Admit, Goto, At, disk, actors, scan, bounds
<1>1. /\ holder = o
      /\ \A q \in Operation \ {o} : pc[q] \in {"idle", "lock"}
    BY HolderAlone
<1>2. QuotaTypeOK /\ CounterExact /\ ScanLeads /\ OpInv(o)
    BY DEF QInv
<1>3. QuotaTypeOK'
  <2>1. files' \in [Operation -> Files] /\ was' \in [Operation -> Files]
    BY <1>2 DEF QuotaTypeOK, Files, OpInv, HalfDone, OwnTemp
  <2>2. usage' \in Total /\ scanned' \in Total
    BY <1>2 DEF QuotaTypeOK, Files, Total
  <2>3. counter' \in [exists : BOOLEAN, dirty : BOOLEAN, bytes : Int, entries : Int]
    BY <1>2 DEF QuotaTypeOK, Total
  <2>4. current' \subseteq Operation \cup {Counter} /\ holder' \in Operation \cup {Nobody}
    BY <1>2 DEF QuotaTypeOK
  <2>5. /\ pc' \in [Operation -> Steps] /\ call' \in [Operation -> Kinds]
        /\ next' \in {"admit", "release"}
    BY <1>2 DEF QuotaTypeOK, Steps, Mutating, Kinds
  <2> QED BY <2>1, <2>2, <2>3, <2>4, <2>5 DEF QuotaTypeOK
<1>4. OneInside' /\ ScanLeads'
    BY <1>1, <1>2 DEF QuotaTypeOK, OneInside, ScanLeads
<1>5. CounterExact'
    BY <1>2 DEF CounterExact, Trusted, OpInv, ScanIsExact, Uncounted, Ahead,
                DirtyWhileMutating, QuotaTypeOK, Total
<1>6. \A q \in Operation \ {o} : OpInv(q)'
    BY <1>1, <1>2, OthersQuiet DEF QuotaTypeOK
<1>7. OpInv(o)'
  <2>1. ReadIsCurrent(o)'
    BY <1>2 DEF OpInv, QuotaTypeOK, Files, ReadIsCurrent, BeforeMutation, LogAsRead
  <2>2. ScanIsExact(o)'
    BY <1>2 DEF OpInv, QuotaTypeOK, ScanIsExact
  <2>3. Uncounted(o)'
    BY <1>2 DEF OpInv, QuotaTypeOK, Total, Files, Uncounted, Ahead, One, DeltaOf,
                ReadIsCurrent, BeforeMutation, LogAsRead, HalfDone, OwnTemp
  <2>4. HalfDone(o)'
    BY <1>2 DEF OpInv, QuotaTypeOK, Files, HalfDone, OwnTemp, Mutating
  <2>5. DirtyWhileMutating(o)'
    BY <1>2 DEF OpInv, QuotaTypeOK, DirtyWhileMutating, Mutating
  <2>6. Admitted(o)'
    BY <1>2 DEF OpInv, QuotaTypeOK, Admitted, DeltaOf, Files, Refused, OverScanLimit,
                Positive, Creates
  <2> QED BY <2>1, <2>2, <2>3, <2>4, <2>5, <2>6 DEF OpInv
<1> QED BY <1>3, <1>4, <1>5, <1>6, <1>7 DEF QInv

\* From the mark on the counter is dirty.
LEMMA MarkKeeps ==
    ASSUME QInv, NEW o \in Operation, Mark(o)
    PROVE  QInv'
<1> USE QuotaAssumption DEF Mark, Goto, At, disk, actors, scan, bounds
<1>1. /\ holder = o
      /\ \A q \in Operation \ {o} : pc[q] \in {"idle", "lock"}
    BY HolderAlone
<1>2. QuotaTypeOK /\ CounterExact /\ ScanLeads /\ OpInv(o)
    BY DEF QInv
<1>3. QuotaTypeOK'
  <2>1. files' \in [Operation -> Files] /\ was' \in [Operation -> Files]
    BY <1>2 DEF QuotaTypeOK, Files, OpInv, HalfDone, OwnTemp
  <2>2. usage' \in Total /\ scanned' \in Total
    BY <1>2 DEF QuotaTypeOK, Files, Total
  <2>3. counter' \in [exists : BOOLEAN, dirty : BOOLEAN, bytes : Int, entries : Int]
    BY <1>2 DEF QuotaTypeOK, Total, CounterOf
  <2>4. current' \subseteq Operation \cup {Counter} /\ holder' \in Operation \cup {Nobody}
    BY <1>2 DEF QuotaTypeOK
  <2>5. /\ pc' \in [Operation -> Steps] /\ call' \in [Operation -> Kinds]
        /\ next' \in {"admit", "release"}
    BY <1>2 DEF QuotaTypeOK, Steps, Mutating, Kinds, FirstStep
  <2> QED BY <2>1, <2>2, <2>3, <2>4, <2>5 DEF QuotaTypeOK
<1>4. OneInside' /\ ScanLeads'
    BY <1>1, <1>2 DEF QuotaTypeOK, OneInside, ScanLeads, FirstStep, Mutating
<1>5. CounterExact'
    BY <1>2 DEF CounterExact, Trusted, OpInv, ScanIsExact, Uncounted, Ahead,
                DirtyWhileMutating, QuotaTypeOK, Total, CounterOf, Mutating
<1>6. \A q \in Operation \ {o} : OpInv(q)'
    BY <1>1, <1>2, OthersQuiet DEF QuotaTypeOK, Mutating
<1>7. OpInv(o)'
  <2>1. ReadIsCurrent(o)'
    BY <1>2 DEF OpInv, QuotaTypeOK, Files, ReadIsCurrent, BeforeMutation, LogAsRead,
                FirstStep
  <2>2. ScanIsExact(o)'
    BY <1>2 DEF OpInv, QuotaTypeOK, ScanIsExact, FirstStep
  <2>3. Uncounted(o)'
    BY <1>2 DEF OpInv, QuotaTypeOK, Total, Files, Uncounted, Ahead, One, DeltaOf,
                ReadIsCurrent, BeforeMutation, LogAsRead, HalfDone, OwnTemp, CounterOf,
                FirstStep
  <2>4. HalfDone(o)'
    BY <1>2 DEF OpInv, QuotaTypeOK, Files, HalfDone, OwnTemp, Kinds, FirstStep, Mutating
  <2>5. DirtyWhileMutating(o)'
    BY <1>2 DEF OpInv, QuotaTypeOK, DirtyWhileMutating, CounterOf, FirstStep, Mutating
  <2>6. Admitted(o)'
    BY <1>2 DEF OpInv, QuotaTypeOK, Admitted, CounterOf, FirstStep, Mutating
  <2> QED BY <2>1, <2>2, <2>3, <2>4, <2>5, <2>6 DEF OpInv
<1> QED BY <1>3, <1>4, <1>5, <1>6, <1>7 DEF QInv

\* A new log is one entry the counter does not show.
LEMMA OpenKeeps ==
    ASSUME QInv, NEW o \in Operation, Open(o)
    PROVE  QInv'
<1> USE QuotaAssumption DEF Open, Goto, At, disk, actors, scan, bounds
<1>1. /\ holder = o
      /\ \A q \in Operation \ {o} : pc[q] \in {"idle", "lock"}
    BY HolderAlone
<1>2. QuotaTypeOK /\ CounterExact /\ ScanLeads /\ OpInv(o)
    BY DEF QInv
<1>3. QuotaTypeOK'
  <2>1. files' \in [Operation -> Files] /\ was' \in [Operation -> Files]
    <3>1. CASE was[o].exists
      BY <1>2, <3>1 DEF QuotaTypeOK, disk
    <3>2. CASE ~was[o].exists
      <4>1. [files[o] EXCEPT !.exists = TRUE] \in Files
        BY <1>2, FilesUpdate DEF QuotaTypeOK
      <4> QED BY <1>2, <3>2, <4>1 DEF QuotaTypeOK, PutEntry, PutBytes
    <3> QED BY <3>1, <3>2
  <2>2. usage' \in Total /\ scanned' \in Total
    BY <1>2 DEF QuotaTypeOK, Files, Total, PutEntry, PutBytes, disk, BytesOf, EntriesOf,
                LogBytes, One
  <2>3. counter' \in [exists : BOOLEAN, dirty : BOOLEAN, bytes : Int, entries : Int]
    BY <1>2 DEF QuotaTypeOK, Total
  <2>4. current' \subseteq Operation \cup {Counter} /\ holder' \in Operation \cup {Nobody}
    BY <1>2 DEF QuotaTypeOK, PutEntry, PutBytes, disk
  <2>5. /\ pc' \in [Operation -> Steps] /\ call' \in [Operation -> Kinds]
        /\ next' \in {"admit", "release"}
    BY <1>2 DEF QuotaTypeOK, Steps, Mutating, Kinds
  <2> QED BY <2>1, <2>2, <2>3, <2>4, <2>5 DEF QuotaTypeOK
<1>4. OneInside' /\ ScanLeads'
    BY <1>1, <1>2 DEF QuotaTypeOK, OneInside, ScanLeads, Mutating
<1>5. CounterExact'
    BY <1>2 DEF CounterExact, Trusted, OpInv, ScanIsExact, Uncounted, Ahead,
                DirtyWhileMutating, QuotaTypeOK, Total, PutEntry, PutBytes, disk, Mutating
<1>6. \A q \in Operation \ {o} : OpInv(q)'
    BY <1>1, <1>2, OthersQuiet DEF QuotaTypeOK, PutEntry, PutBytes, disk, Mutating
<1>7. OpInv(o)'
  <2>1. ReadIsCurrent(o)'
    BY <1>2 DEF OpInv, QuotaTypeOK, Files, ReadIsCurrent, BeforeMutation, LogAsRead,
                PutEntry, PutBytes, disk
  <2>2. ScanIsExact(o)'
    BY <1>2 DEF OpInv, QuotaTypeOK, ScanIsExact, PutEntry, PutBytes, disk
  <2>3. Uncounted(o)'
    BY <1>2 DEF OpInv, QuotaTypeOK, Total, Files, Uncounted, Ahead, One, DeltaOf,
                ReadIsCurrent, BeforeMutation, LogAsRead, HalfDone, OwnTemp, PutEntry,
                PutBytes, disk, BytesOf, EntriesOf, LogBytes
  <2>4. HalfDone(o)'
    <3>1. files'[o].exists /\ files'[o].committed = was[o].committed
          /\ files'[o].tail = was[o].tail
      BY <1>2 DEF OpInv, QuotaTypeOK, Files, ReadIsCurrent, BeforeMutation, LogAsRead,
                  HalfDone, PutEntry, PutBytes
    <3>2. call[o] = "append" /\ was[o].tail \in Nat
      BY <1>2 DEF OpInv, HalfDone, QuotaTypeOK, Files
    <3> QED BY <1>2, <3>1, <3>2 DEF QuotaTypeOK, HalfDone, OwnTemp, Mutating
  <2>5. DirtyWhileMutating(o)'
    BY <1>2 DEF OpInv, QuotaTypeOK, DirtyWhileMutating, Mutating
  <2>6. Admitted(o)'
    BY <1>2 DEF OpInv, QuotaTypeOK, Admitted, Mutating
  <2> QED BY <2>1, <2>2, <2>3, <2>4, <2>5, <2>6 DEF OpInv
<1> QED BY <1>3, <1>4, <1>5, <1>6, <1>7 DEF QInv

\* The torn tail that is cut off was counted.
LEMMA TruncateKeeps ==
    ASSUME QInv, NEW o \in Operation, Truncate(o)
    PROVE  QInv'
<1> USE QuotaAssumption DEF Truncate, Goto, At, disk, actors, scan, bounds
<1>1. /\ holder = o
      /\ \A q \in Operation \ {o} : pc[q] \in {"idle", "lock"}
    BY HolderAlone
<1>2. QuotaTypeOK /\ CounterExact /\ ScanLeads /\ OpInv(o)
    BY DEF QInv
<1>3. QuotaTypeOK'
  <2>1. files' \in [Operation -> Files] /\ was' \in [Operation -> Files]
    BY <1>2 DEF QuotaTypeOK, Files, OpInv, HalfDone, OwnTemp, PutSize, PutBytes
  <2>2. usage' \in Total /\ scanned' \in Total
    BY <1>2 DEF QuotaTypeOK, Files, Total, PutSize, PutBytes, BytesOf, EntriesOf,
                LogBytes, One
  <2>3. counter' \in [exists : BOOLEAN, dirty : BOOLEAN, bytes : Int, entries : Int]
    BY <1>2 DEF QuotaTypeOK, Total
  <2>4. current' \subseteq Operation \cup {Counter} /\ holder' \in Operation \cup {Nobody}
    BY <1>2 DEF QuotaTypeOK, PutSize, PutBytes
  <2>5. /\ pc' \in [Operation -> Steps] /\ call' \in [Operation -> Kinds]
        /\ next' \in {"admit", "release"}
    BY <1>2 DEF QuotaTypeOK, Steps, Mutating, Kinds
  <2> QED BY <2>1, <2>2, <2>3, <2>4, <2>5 DEF QuotaTypeOK
<1>4. OneInside' /\ ScanLeads'
    BY <1>1, <1>2 DEF QuotaTypeOK, OneInside, ScanLeads, Mutating
<1>5. CounterExact'
    BY <1>2 DEF CounterExact, Trusted, OpInv, ScanIsExact, Uncounted, Ahead,
                DirtyWhileMutating, QuotaTypeOK, Total, PutSize, PutBytes, Mutating
<1>6. \A q \in Operation \ {o} : OpInv(q)'
    BY <1>1, <1>2, OthersQuiet DEF QuotaTypeOK, PutSize, PutBytes, Mutating
<1>7. OpInv(o)'
  <2>1. ReadIsCurrent(o)'
    BY <1>2 DEF OpInv, QuotaTypeOK, Files, ReadIsCurrent, BeforeMutation, LogAsRead,
                PutSize, PutBytes
  <2>2. ScanIsExact(o)'
    BY <1>2 DEF OpInv, QuotaTypeOK, ScanIsExact, PutSize, PutBytes
  <2>3. Uncounted(o)'
    BY <1>2 DEF OpInv, QuotaTypeOK, Total, Files, Uncounted, Ahead, One, DeltaOf,
                ReadIsCurrent, BeforeMutation, LogAsRead, HalfDone, OwnTemp, PutSize,
                PutBytes, BytesOf, EntriesOf, LogBytes
  <2>4. HalfDone(o)'
    BY <1>2 DEF OpInv, QuotaTypeOK, Files, HalfDone, OwnTemp, PutSize, PutBytes, Mutating
  <2>5. DirtyWhileMutating(o)'
    BY <1>2 DEF OpInv, QuotaTypeOK, DirtyWhileMutating, Mutating
  <2>6. Admitted(o)'
    BY <1>2 DEF OpInv, QuotaTypeOK, Admitted, Mutating
  <2> QED BY <2>1, <2>2, <2>3, <2>4, <2>5, <2>6 DEF OpInv
<1> QED BY <1>3, <1>4, <1>5, <1>6, <1>7 DEF QInv

\* The record is what the call announced.
LEMMA WriteKeeps ==
    ASSUME QInv, NEW o \in Operation, Write(o)
    PROVE  QInv'
<1> USE QuotaAssumption DEF Write, Goto, At, disk, actors, scan, bounds
<1>1. /\ holder = o
      /\ \A q \in Operation \ {o} : pc[q] \in {"idle", "lock"}
    BY HolderAlone
<1>2. QuotaTypeOK /\ CounterExact /\ ScanLeads /\ OpInv(o)
    BY DEF QInv
<1>3. QuotaTypeOK'
  <2>1. files' \in [Operation -> Files] /\ was' \in [Operation -> Files]
    BY <1>2 DEF QuotaTypeOK, Files, OpInv, HalfDone, OwnTemp, PutSize, PutBytes
  <2>2. usage' \in Total /\ scanned' \in Total
    BY <1>2 DEF QuotaTypeOK, Files, Total, PutSize, PutBytes, BytesOf, EntriesOf,
                LogBytes, One
  <2>3. counter' \in [exists : BOOLEAN, dirty : BOOLEAN, bytes : Int, entries : Int]
    BY <1>2 DEF QuotaTypeOK, Total
  <2>4. current' \subseteq Operation \cup {Counter} /\ holder' \in Operation \cup {Nobody}
    BY <1>2 DEF QuotaTypeOK, PutSize, PutBytes
  <2>5. /\ pc' \in [Operation -> Steps] /\ call' \in [Operation -> Kinds]
        /\ next' \in {"admit", "release"}
    BY <1>2 DEF QuotaTypeOK, Steps, Mutating, Kinds
  <2> QED BY <2>1, <2>2, <2>3, <2>4, <2>5 DEF QuotaTypeOK
<1>4. OneInside' /\ ScanLeads'
    BY <1>1, <1>2 DEF QuotaTypeOK, OneInside, ScanLeads, Mutating
<1>5. CounterExact'
    BY <1>2 DEF CounterExact, Trusted, OpInv, ScanIsExact, Uncounted, Ahead,
                DirtyWhileMutating, QuotaTypeOK, Total, PutSize, PutBytes, Mutating
<1>6. \A q \in Operation \ {o} : OpInv(q)'
    BY <1>1, <1>2, OthersQuiet DEF QuotaTypeOK, PutSize, PutBytes, Mutating
<1>7. OpInv(o)'
  <2>1. ReadIsCurrent(o)'
    BY <1>2 DEF OpInv, QuotaTypeOK, Files, ReadIsCurrent, BeforeMutation, LogAsRead,
                PutSize, PutBytes
  <2>2. ScanIsExact(o)'
    BY <1>2 DEF OpInv, QuotaTypeOK, ScanIsExact, PutSize, PutBytes
  <2>3. Uncounted(o)'
    BY <1>2 DEF OpInv, QuotaTypeOK, Total, Files, Uncounted, Ahead, One, DeltaOf,
                ReadIsCurrent, BeforeMutation, LogAsRead, HalfDone, OwnTemp, PutSize,
                PutBytes, BytesOf, EntriesOf, LogBytes
  <2>4. HalfDone(o)'
    BY <1>2 DEF OpInv, QuotaTypeOK, Files, HalfDone, OwnTemp, PutSize, PutBytes, Mutating
  <2>5. DirtyWhileMutating(o)'
    BY <1>2 DEF OpInv, QuotaTypeOK, DirtyWhileMutating, Mutating
  <2>6. Admitted(o)'
    BY <1>2 DEF OpInv, QuotaTypeOK, Admitted, Mutating
  <2> QED BY <2>1, <2>2, <2>3, <2>4, <2>5, <2>6 DEF OpInv
<1> QED BY <1>3, <1>4, <1>5, <1>6, <1>7 DEF QInv

\* A temporary file is counted by a scan.
LEMMA TempKeeps ==
    ASSUME QInv, NEW o \in Operation, Temp(o)
    PROVE  QInv'
<1> USE QuotaAssumption DEF Temp, Goto, At, disk, actors, scan, bounds
<1>1. /\ holder = o
      /\ \A q \in Operation \ {o} : pc[q] \in {"idle", "lock"}
    BY HolderAlone
<1>2. QuotaTypeOK /\ CounterExact /\ ScanLeads /\ OpInv(o)
    BY DEF QInv
<1>3. QuotaTypeOK'
  <2>1. files' \in [Operation -> Files] /\ was' \in [Operation -> Files]
    BY <1>2 DEF QuotaTypeOK, Files, OpInv, HalfDone, OwnTemp, PutEntry, PutBytes
  <2>2. usage' \in Total /\ scanned' \in Total
    BY <1>2 DEF QuotaTypeOK, Files, Total, PutEntry, PutBytes, BytesOf, EntriesOf,
                LogBytes, One
  <2>3. counter' \in [exists : BOOLEAN, dirty : BOOLEAN, bytes : Int, entries : Int]
    BY <1>2 DEF QuotaTypeOK, Total
  <2>4. current' \subseteq Operation \cup {Counter} /\ holder' \in Operation \cup {Nobody}
    BY <1>2 DEF QuotaTypeOK, PutEntry, PutBytes
  <2>5. /\ pc' \in [Operation -> Steps] /\ call' \in [Operation -> Kinds]
        /\ next' \in {"admit", "release"}
    BY <1>2 DEF QuotaTypeOK, Steps, Mutating, Kinds
  <2> QED BY <2>1, <2>2, <2>3, <2>4, <2>5 DEF QuotaTypeOK
<1>4. OneInside' /\ ScanLeads'
    BY <1>1, <1>2 DEF QuotaTypeOK, OneInside, ScanLeads, Mutating
<1>5. CounterExact'
    BY <1>2 DEF CounterExact, Trusted, OpInv, ScanIsExact, Uncounted, Ahead,
                DirtyWhileMutating, QuotaTypeOK, Total, PutEntry, PutBytes, Mutating
<1>6. \A q \in Operation \ {o} : OpInv(q)'
    BY <1>1, <1>2, OthersQuiet DEF QuotaTypeOK, PutEntry, PutBytes, Mutating
<1>7. OpInv(o)'
  <2>1. ReadIsCurrent(o)'
    BY <1>2 DEF OpInv, QuotaTypeOK, Files, ReadIsCurrent, BeforeMutation, LogAsRead,
                PutEntry, PutBytes
  <2>2. ScanIsExact(o)'
    BY <1>2 DEF OpInv, QuotaTypeOK, ScanIsExact, PutEntry, PutBytes
  <2>3. Uncounted(o)'
    BY <1>2 DEF OpInv, QuotaTypeOK, Total, Files, Uncounted, Ahead, One, DeltaOf,
                ReadIsCurrent, BeforeMutation, LogAsRead, HalfDone, OwnTemp, PutEntry,
                PutBytes, BytesOf, EntriesOf, LogBytes
  <2>4. HalfDone(o)'
    BY <1>2 DEF OpInv, QuotaTypeOK, Files, HalfDone, OwnTemp, PutEntry, PutBytes, Mutating
  <2>5. DirtyWhileMutating(o)'
    BY <1>2 DEF OpInv, QuotaTypeOK, DirtyWhileMutating, Mutating
  <2>6. Admitted(o)'
    BY <1>2 DEF OpInv, QuotaTypeOK, Admitted, Mutating
  <2> QED BY <2>1, <2>2, <2>3, <2>4, <2>5, <2>6 DEF OpInv
<1> QED BY <1>3, <1>4, <1>5, <1>6, <1>7 DEF QInv

\* The copy replaces the temporary file, or stands beside it.
LEMMA PublishKeeps ==
    ASSUME QInv, NEW o \in Operation, Publish(o)
    PROVE  QInv'
<1> USE QuotaAssumption DEF Publish, Goto, At, disk, actors, scan, bounds
<1>1. /\ holder = o
      /\ \A q \in Operation \ {o} : pc[q] \in {"idle", "lock"}
    BY HolderAlone
<1>2. QuotaTypeOK /\ CounterExact /\ ScanLeads /\ OpInv(o)
    BY DEF QInv
<1>3. QuotaTypeOK'
  <2>1. files' \in [Operation -> Files] /\ was' \in [Operation -> Files]
    <3> SUFFICES files' \in [Operation -> Files]
      BY <1>2 DEF QuotaTypeOK
    <3>1. files[o] \in Files /\ files[o].temps > 0
      BY <1>2 DEF QuotaTypeOK, OpInv, HalfDone, OwnTemp
    <3>2. ASSUME NEW n \in CopyBytes
          PROVE  /\ [files[o] EXCEPT !.copy = n, !.temps = @ - 1] \in Files
                 /\ [files[o] EXCEPT !.copy = n] \in Files
      BY <3>1, FilesUpdate, n \in Nat
    <3> QED BY <1>2, <3>2 DEF QuotaTypeOK, PutEntry, PutBytes
  <2>2. usage' \in Total /\ scanned' \in Total
    BY <1>2 DEF QuotaTypeOK, Files, Total, PutEntry, PutBytes, BytesOf, EntriesOf,
                LogBytes, One
  <2>3. counter' \in [exists : BOOLEAN, dirty : BOOLEAN, bytes : Int, entries : Int]
    BY <1>2 DEF QuotaTypeOK, Total
  <2>4. current' \subseteq Operation \cup {Counter} /\ holder' \in Operation \cup {Nobody}
    BY <1>2 DEF QuotaTypeOK, PutEntry, PutBytes
  <2>5. /\ pc' \in [Operation -> Steps] /\ call' \in [Operation -> Kinds]
        /\ next' \in {"admit", "release"}
    BY <1>2 DEF QuotaTypeOK, Steps, Mutating, Kinds
  <2> QED BY <2>1, <2>2, <2>3, <2>4, <2>5 DEF QuotaTypeOK
<1>4. OneInside' /\ ScanLeads'
    BY <1>1, <1>2 DEF QuotaTypeOK, OneInside, ScanLeads, Mutating
<1>5. CounterExact'
    BY <1>2 DEF CounterExact, Trusted, OpInv, ScanIsExact, Uncounted, Ahead,
                DirtyWhileMutating, QuotaTypeOK, Total, PutEntry, PutBytes, Mutating
<1>6. \A q \in Operation \ {o} : OpInv(q)'
    BY <1>1, <1>2, OthersQuiet DEF QuotaTypeOK, PutEntry, PutBytes, Mutating
<1>7. OpInv(o)'
  <2>1. ReadIsCurrent(o)'
    BY <1>2 DEF OpInv, QuotaTypeOK, Files, ReadIsCurrent, BeforeMutation, LogAsRead,
                PutEntry, PutBytes
  <2>2. ScanIsExact(o)'
    BY <1>2 DEF OpInv, QuotaTypeOK, ScanIsExact, PutEntry, PutBytes
  <2>3. Uncounted(o)'
    <3>1. PICK n \in CopyBytes :
             \/ /\ PutEntry(o, [files[o] EXCEPT !.copy = n, !.temps = @ - 1])
                /\ Goto(o, "sync")
             \/ /\ files[o].copy = 0
                /\ PutEntry(o, [files[o] EXCEPT !.copy = n])
                /\ Goto(o, "unlinkTemp")
      OBVIOUS
    <3>2. n \in Nat /\ n > 0 /\ files[o] \in Files /\ usage \in Total
      BY <1>2 DEF QuotaTypeOK
    <3>3. /\ Ahead(1, 1) /\ files[o].copy = was[o].copy /\ call[o] = "copy"
          /\ counter.bytes \in Int /\ counter.entries \in Int /\ was[o].copy \in Nat
      BY <1>2 DEF OpInv, Uncounted, HalfDone, QuotaTypeOK, Files
    <3>4. CASE /\ PutEntry(o, [files[o] EXCEPT !.copy = n, !.temps = @ - 1])
               /\ Goto(o, "sync")
      <4>1. /\ usage'.bytes = usage.bytes + n - files[o].copy - 1
            /\ usage'.entries = usage.entries - One(files[o].copy > 0)
            /\ files'[o].copy = n
        BY <1>2, <3>2, <3>4 DEF PutEntry, PutBytes, BytesOf, EntriesOf, LogBytes, One,
                                Files, QuotaTypeOK, Total
      <4> QED BY <1>2, <3>2, <3>3, <3>4, <4>1
              DEF QuotaTypeOK, Uncounted, Ahead, DeltaOf, One, Total
    <3>5. CASE /\ files[o].copy = 0
               /\ PutEntry(o, [files[o] EXCEPT !.copy = n])
               /\ Goto(o, "unlinkTemp")
      <4>1. /\ usage'.bytes = usage.bytes + n /\ usage'.entries = usage.entries + 1
            /\ files'[o].copy = n
        BY <1>2, <3>2, <3>5 DEF PutEntry, PutBytes, BytesOf, EntriesOf, LogBytes, One,
                                Files, QuotaTypeOK, Total
      <4> QED BY <1>2, <3>2, <3>3, <3>5, <4>1
              DEF QuotaTypeOK, Uncounted, Ahead, DeltaOf, One, Total
    <3> QED BY <3>1, <3>4, <3>5
  <2>4. HalfDone(o)'
    <3>1. PICK n \in CopyBytes :
             \/ /\ PutEntry(o, [files[o] EXCEPT !.copy = n, !.temps = @ - 1])
                /\ Goto(o, "sync")
             \/ /\ files[o].copy = 0
                /\ PutEntry(o, [files[o] EXCEPT !.copy = n])
                /\ Goto(o, "unlinkTemp")
      OBVIOUS
    <3>2. /\ n > 0 /\ files[o] \in Files /\ files[o].temps > 0
          /\ files[o].copy = was[o].copy /\ call[o] = "copy"
      BY <1>2 DEF QuotaTypeOK, OpInv, HalfDone, OwnTemp
    <3>3. files'[o].copy = n /\ (pc'[o] = "unlinkTemp" => files'[o].temps > 0 /\ was[o].copy = 0)
      <4>1. CASE /\ PutEntry(o, [files[o] EXCEPT !.copy = n, !.temps = @ - 1])
                 /\ Goto(o, "sync")
        BY <1>2, <3>2, <4>1 DEF PutEntry, PutBytes, Files, QuotaTypeOK
      <4>2. CASE /\ files[o].copy = 0
                 /\ PutEntry(o, [files[o] EXCEPT !.copy = n])
                 /\ Goto(o, "unlinkTemp")
        BY <1>2, <3>2, <4>2 DEF PutEntry, PutBytes, Files, QuotaTypeOK
      <4> QED BY <3>1, <4>1, <4>2
    <3>4. pc'[o] \in {"sync", "unlinkTemp"}
      BY <1>2, <3>1 DEF QuotaTypeOK
    <3> QED BY <3>2, <3>3, <3>4 DEF HalfDone, OwnTemp
  <2>5. DirtyWhileMutating(o)'
    BY <1>2 DEF OpInv, QuotaTypeOK, DirtyWhileMutating, Mutating
  <2>6. Admitted(o)'
    BY <1>2 DEF OpInv, QuotaTypeOK, Admitted, Mutating
  <2> QED BY <2>1, <2>2, <2>3, <2>4, <2>5, <2>6 DEF OpInv
<1> QED BY <1>3, <1>4, <1>5, <1>6, <1>7 DEF QInv

\* The temporary name goes.
LEMMA UnlinkTempKeeps ==
    ASSUME QInv, NEW o \in Operation, UnlinkTemp(o)
    PROVE  QInv'
<1> USE QuotaAssumption DEF UnlinkTemp, Goto, At, disk, actors, scan, bounds
<1>1. /\ holder = o
      /\ \A q \in Operation \ {o} : pc[q] \in {"idle", "lock"}
    BY HolderAlone
<1>2. QuotaTypeOK /\ CounterExact /\ ScanLeads /\ OpInv(o)
    BY DEF QInv
<1>3. QuotaTypeOK'
  <2>1. files' \in [Operation -> Files] /\ was' \in [Operation -> Files]
    BY <1>2 DEF QuotaTypeOK, Files, OpInv, HalfDone, OwnTemp, PutEntry, PutBytes
  <2>2. usage' \in Total /\ scanned' \in Total
    BY <1>2 DEF QuotaTypeOK, Files, Total, PutEntry, PutBytes, BytesOf, EntriesOf,
                LogBytes, One
  <2>3. counter' \in [exists : BOOLEAN, dirty : BOOLEAN, bytes : Int, entries : Int]
    BY <1>2 DEF QuotaTypeOK, Total
  <2>4. current' \subseteq Operation \cup {Counter} /\ holder' \in Operation \cup {Nobody}
    BY <1>2 DEF QuotaTypeOK, PutEntry, PutBytes
  <2>5. /\ pc' \in [Operation -> Steps] /\ call' \in [Operation -> Kinds]
        /\ next' \in {"admit", "release"}
    BY <1>2 DEF QuotaTypeOK, Steps, Mutating, Kinds
  <2> QED BY <2>1, <2>2, <2>3, <2>4, <2>5 DEF QuotaTypeOK
<1>4. OneInside' /\ ScanLeads'
    BY <1>1, <1>2 DEF QuotaTypeOK, OneInside, ScanLeads, Mutating
<1>5. CounterExact'
    BY <1>2 DEF CounterExact, Trusted, OpInv, ScanIsExact, Uncounted, Ahead,
                DirtyWhileMutating, QuotaTypeOK, Total, PutEntry, PutBytes, Mutating
<1>6. \A q \in Operation \ {o} : OpInv(q)'
    BY <1>1, <1>2, OthersQuiet DEF QuotaTypeOK, PutEntry, PutBytes, Mutating
<1>7. OpInv(o)'
  <2>1. ReadIsCurrent(o)'
    BY <1>2 DEF OpInv, QuotaTypeOK, Files, ReadIsCurrent, BeforeMutation, LogAsRead,
                PutEntry, PutBytes
  <2>2. ScanIsExact(o)'
    BY <1>2 DEF OpInv, QuotaTypeOK, ScanIsExact, PutEntry, PutBytes
  <2>3. Uncounted(o)'
    BY <1>2 DEF OpInv, QuotaTypeOK, Total, Files, Uncounted, Ahead, One, DeltaOf,
                ReadIsCurrent, BeforeMutation, LogAsRead, HalfDone, OwnTemp, PutEntry,
                PutBytes, BytesOf, EntriesOf, LogBytes
  <2>4. HalfDone(o)'
    BY <1>2 DEF OpInv, QuotaTypeOK, Files, HalfDone, OwnTemp, PutEntry, PutBytes, Mutating
  <2>5. DirtyWhileMutating(o)'
    BY <1>2 DEF OpInv, QuotaTypeOK, DirtyWhileMutating, Mutating
  <2>6. Admitted(o)'
    BY <1>2 DEF OpInv, QuotaTypeOK, Admitted, Mutating
  <2> QED BY <2>1, <2>2, <2>3, <2>4, <2>5, <2>6 DEF OpInv
<1> QED BY <1>3, <1>4, <1>5, <1>6, <1>7 DEF QInv

\* The removed file was as large as it was read.
LEMMA UnlinkKeeps ==
    ASSUME QInv, NEW o \in Operation, Unlink(o)
    PROVE  QInv'
<1> USE QuotaAssumption DEF Unlink, Goto, At, disk, actors, scan, bounds
<1>1. /\ holder = o
      /\ \A q \in Operation \ {o} : pc[q] \in {"idle", "lock"}
    BY HolderAlone
<1>2. QuotaTypeOK /\ CounterExact /\ ScanLeads /\ OpInv(o)
    BY DEF QInv
<1>3. QuotaTypeOK'
  <2>1. files' \in [Operation -> Files] /\ was' \in [Operation -> Files]
    <3>1. files[o] \in Files
      BY <1>2 DEF QuotaTypeOK
    <3>2. /\ [files[o] EXCEPT !.exists = FALSE, !.committed = 0, !.tail = 0] \in Files
          /\ [files[o] EXCEPT !.copy = 0] \in Files
      BY <3>1 DEF Files
    <3>3. files' \in [Operation -> Files]
      BY <1>2, <3>2 DEF QuotaTypeOK, PutEntry, PutBytes
    <3>4. was' \in [Operation -> Files]
      BY <1>2, <3>1 DEF QuotaTypeOK
    <3> QED BY <3>3, <3>4
  <2>2. usage' \in Total /\ scanned' \in Total
    BY <1>2 DEF QuotaTypeOK, Files, Total, PutEntry, PutBytes, disk, BytesOf, EntriesOf,
                LogBytes, One
  <2>3. counter' \in [exists : BOOLEAN, dirty : BOOLEAN, bytes : Int, entries : Int]
    BY <1>2 DEF QuotaTypeOK, Total
  <2>4. current' \subseteq Operation \cup {Counter} /\ holder' \in Operation \cup {Nobody}
    BY <1>2 DEF QuotaTypeOK, PutEntry, PutBytes, disk
  <2>5. /\ pc' \in [Operation -> Steps] /\ call' \in [Operation -> Kinds]
        /\ next' \in {"admit", "release"}
    BY <1>2 DEF QuotaTypeOK, Steps, Mutating, Kinds
  <2> QED BY <2>1, <2>2, <2>3, <2>4, <2>5 DEF QuotaTypeOK
<1>4. OneInside' /\ ScanLeads'
    BY <1>1, <1>2 DEF QuotaTypeOK, OneInside, ScanLeads, Mutating
<1>5. CounterExact'
    BY <1>2 DEF CounterExact, Trusted, OpInv, ScanIsExact, Uncounted, Ahead,
                DirtyWhileMutating, QuotaTypeOK, Total, PutEntry, PutBytes, disk, Mutating
<1>6. \A q \in Operation \ {o} : OpInv(q)'
    BY <1>1, <1>2, OthersQuiet DEF QuotaTypeOK, PutEntry, PutBytes, disk, Mutating
<1>7. OpInv(o)'
  <2>1. ReadIsCurrent(o)'
    BY <1>2 DEF OpInv, QuotaTypeOK, Files, ReadIsCurrent, BeforeMutation, LogAsRead,
                PutEntry, PutBytes, disk
  <2>2. ScanIsExact(o)'
    BY <1>2 DEF OpInv, QuotaTypeOK, ScanIsExact, PutEntry, PutBytes, disk
  <2>3. Uncounted(o)'
    BY <1>2 DEF OpInv, QuotaTypeOK, Total, Files, Uncounted, Ahead, One, DeltaOf,
                ReadIsCurrent, BeforeMutation, LogAsRead, HalfDone, OwnTemp, PutEntry,
                PutBytes, disk, BytesOf, EntriesOf, LogBytes
  <2>4. HalfDone(o)'
    BY <1>2 DEF OpInv, QuotaTypeOK, Files, HalfDone, OwnTemp, PutEntry, PutBytes, disk,
                Mutating
  <2>5. DirtyWhileMutating(o)'
    BY <1>2 DEF OpInv, QuotaTypeOK, DirtyWhileMutating, Mutating
  <2>6. Admitted(o)'
    BY <1>2 DEF OpInv, QuotaTypeOK, Admitted, Mutating
  <2> QED BY <2>1, <2>2, <2>3, <2>4, <2>5, <2>6 DEF OpInv
<1> QED BY <1>3, <1>4, <1>5, <1>6, <1>7 DEF QInv

\* An fsync changes nothing that is counted.
LEMMA SyncKeeps ==
    ASSUME QInv, NEW o \in Operation, Sync(o)
    PROVE  QInv'
<1> USE QuotaAssumption DEF Sync, Goto, At, disk, actors, scan, bounds
<1>1. /\ holder = o
      /\ \A q \in Operation \ {o} : pc[q] \in {"idle", "lock"}
    BY HolderAlone
<1>2. QuotaTypeOK /\ CounterExact /\ ScanLeads /\ OpInv(o)
    BY DEF QInv
<1>3. QuotaTypeOK'
  <2>1. files' \in [Operation -> Files] /\ was' \in [Operation -> Files]
    BY <1>2 DEF QuotaTypeOK, Files, OpInv, HalfDone, OwnTemp
  <2>2. usage' \in Total /\ scanned' \in Total
    BY <1>2 DEF QuotaTypeOK, Files, Total
  <2>3. counter' \in [exists : BOOLEAN, dirty : BOOLEAN, bytes : Int, entries : Int]
    BY <1>2 DEF QuotaTypeOK, Total
  <2>4. current' \subseteq Operation \cup {Counter} /\ holder' \in Operation \cup {Nobody}
    BY <1>2 DEF QuotaTypeOK
  <2>5. /\ pc' \in [Operation -> Steps] /\ call' \in [Operation -> Kinds]
        /\ next' \in {"admit", "release"}
    BY <1>2 DEF QuotaTypeOK, Steps, Mutating, Kinds
  <2> QED BY <2>1, <2>2, <2>3, <2>4, <2>5 DEF QuotaTypeOK
<1>4. OneInside' /\ ScanLeads'
    BY <1>1, <1>2 DEF QuotaTypeOK, OneInside, ScanLeads, Mutating
<1>5. CounterExact'
    BY <1>2 DEF CounterExact, Trusted, OpInv, ScanIsExact, Uncounted, Ahead,
                DirtyWhileMutating, QuotaTypeOK, Total, Mutating
<1>6. \A q \in Operation \ {o} : OpInv(q)'
    BY <1>1, <1>2, OthersQuiet DEF QuotaTypeOK, Mutating
<1>7. OpInv(o)'
  <2>1. ReadIsCurrent(o)'
    BY <1>2 DEF OpInv, QuotaTypeOK, Files, ReadIsCurrent, BeforeMutation, LogAsRead
  <2>2. ScanIsExact(o)'
    BY <1>2 DEF OpInv, QuotaTypeOK, ScanIsExact
  <2>3. Uncounted(o)'
    BY <1>2 DEF OpInv, QuotaTypeOK, Total, Files, Uncounted, Ahead, One, DeltaOf,
                ReadIsCurrent, BeforeMutation, LogAsRead, HalfDone, OwnTemp
  <2>4. HalfDone(o)'
    BY <1>2 DEF OpInv, QuotaTypeOK, Files, HalfDone, OwnTemp, Mutating
  <2>5. DirtyWhileMutating(o)'
    BY <1>2 DEF OpInv, QuotaTypeOK, DirtyWhileMutating, Mutating
  <2>6. Admitted(o)'
    BY <1>2 DEF OpInv, QuotaTypeOK, Admitted, Mutating
  <2> QED BY <2>1, <2>2, <2>3, <2>4, <2>5, <2>6 DEF OpInv
<1> QED BY <1>3, <1>4, <1>5, <1>6, <1>7 DEF QInv

\* The new totals are what is there.
LEMMA SettleKeeps ==
    ASSUME QInv, NEW o \in Operation, Settle(o)
    PROVE  QInv'
<1> USE QuotaAssumption DEF Settle, Goto, At, disk, actors, scan, bounds
<1>1. /\ holder = o
      /\ \A q \in Operation \ {o} : pc[q] \in {"idle", "lock"}
    BY HolderAlone
<1>2. QuotaTypeOK /\ CounterExact /\ ScanLeads /\ OpInv(o)
    BY DEF QInv
<1>3. QuotaTypeOK'
  <2>1. files' \in [Operation -> Files] /\ was' \in [Operation -> Files]
    BY <1>2 DEF QuotaTypeOK, Files, OpInv, HalfDone, OwnTemp
  <2>2. usage' \in Total /\ scanned' \in Total
    BY <1>2 DEF QuotaTypeOK, Files, Total
  <2>3. counter' \in [exists : BOOLEAN, dirty : BOOLEAN, bytes : Int, entries : Int]
    <3>1. DeltaOf(o).bytes \in Int /\ DeltaOf(o).entries \in Int
      BY <1>2 DEF OpInv, Uncounted, Ahead, QuotaTypeOK, Total, Files, DeltaOf, Kinds, One,
                  LogBytes, HalfDone, Mutating
    <3> QED BY <1>2, <3>1 DEF QuotaTypeOK, SaveSettled, CounterOf
  <2>4. current' \subseteq Operation \cup {Counter} /\ holder' \in Operation \cup {Nobody}
    BY <1>2 DEF QuotaTypeOK, SaveSettled
  <2>5. /\ pc' \in [Operation -> Steps] /\ call' \in [Operation -> Kinds]
        /\ next' \in {"admit", "release"}
    BY <1>2 DEF QuotaTypeOK, Steps, Mutating, Kinds
  <2> QED BY <2>1, <2>2, <2>3, <2>4, <2>5 DEF QuotaTypeOK
<1>4. OneInside' /\ ScanLeads'
    BY <1>1, <1>2 DEF QuotaTypeOK, OneInside, ScanLeads, Mutating
<1>5. CounterExact'
    BY <1>2 DEF CounterExact, Trusted, OpInv, ScanIsExact, Uncounted, Ahead,
                DirtyWhileMutating, QuotaTypeOK, Total, SaveSettled, CounterOf, Mutating
<1>6. \A q \in Operation \ {o} : OpInv(q)'
    BY <1>1, <1>2, OthersQuiet DEF QuotaTypeOK, Mutating
<1>7. OpInv(o)'
  <2>1. ReadIsCurrent(o)'
    BY <1>2 DEF OpInv, QuotaTypeOK, Files, ReadIsCurrent, BeforeMutation, LogAsRead
  <2>2. ScanIsExact(o)'
    BY <1>2 DEF OpInv, QuotaTypeOK, ScanIsExact, SaveSettled
  <2>3. Uncounted(o)'
    BY <1>2 DEF OpInv, QuotaTypeOK, Total, Files, Uncounted, Ahead, One, DeltaOf,
                ReadIsCurrent, BeforeMutation, LogAsRead, HalfDone, OwnTemp, SaveSettled,
                CounterOf
  <2>4. HalfDone(o)'
    BY <1>2 DEF OpInv, QuotaTypeOK, Files, HalfDone, OwnTemp, Mutating
  <2>5. DirtyWhileMutating(o)'
    BY <1>2 DEF OpInv, QuotaTypeOK, DirtyWhileMutating, SaveSettled, CounterOf, Mutating
  <2>6. Admitted(o)'
    BY <1>2 DEF OpInv, QuotaTypeOK, Admitted, SaveSettled, CounterOf, Mutating
  <2> QED BY <2>1, <2>2, <2>3, <2>4, <2>5, <2>6 DEF OpInv
<1> QED BY <1>3, <1>4, <1>5, <1>6, <1>7 DEF QInv

\* The next holder finds a counter nobody is ahead of.
LEMMA ReleaseKeeps ==
    ASSUME QInv, NEW o \in Operation, Release(o)
    PROVE  QInv'
<1> USE QuotaAssumption DEF Release, Goto, At, disk, actors, scan, bounds
<1>1. /\ holder = o
      /\ \A q \in Operation \ {o} : pc[q] \in {"idle", "lock"}
    BY HolderAlone
<1>2. QuotaTypeOK /\ CounterExact /\ ScanLeads /\ OpInv(o)
    BY DEF QInv
<1>3. QuotaTypeOK'
  <2>1. files' \in [Operation -> Files] /\ was' \in [Operation -> Files]
    BY <1>2 DEF QuotaTypeOK, Files, OpInv, HalfDone, OwnTemp
  <2>2. usage' \in Total /\ scanned' \in Total
    BY <1>2 DEF QuotaTypeOK, Files, Total
  <2>3. counter' \in [exists : BOOLEAN, dirty : BOOLEAN, bytes : Int, entries : Int]
    BY <1>2 DEF QuotaTypeOK, Total
  <2>4. current' \subseteq Operation \cup {Counter} /\ holder' \in Operation \cup {Nobody}
    BY <1>2 DEF QuotaTypeOK
  <2>5. /\ pc' \in [Operation -> Steps] /\ call' \in [Operation -> Kinds]
        /\ next' \in {"admit", "release"}
    BY <1>2 DEF QuotaTypeOK, Steps, Mutating, Kinds
  <2> QED BY <2>1, <2>2, <2>3, <2>4, <2>5 DEF QuotaTypeOK
<1>4. OneInside' /\ ScanLeads'
    BY <1>1, <1>2 DEF QuotaTypeOK, OneInside, ScanLeads
<1>5. CounterExact'
    BY <1>2 DEF CounterExact, Trusted, OpInv, ScanIsExact, Uncounted, Ahead,
                DirtyWhileMutating, QuotaTypeOK, Total
<1>6. \A q \in Operation \ {o} : OpInv(q)'
    BY <1>1, <1>2, OthersQuiet DEF QuotaTypeOK
<1>7. OpInv(o)'
  <2>1. ReadIsCurrent(o)'
    BY <1>2 DEF OpInv, QuotaTypeOK, Files, ReadIsCurrent, BeforeMutation, LogAsRead
  <2>2. ScanIsExact(o)'
    BY <1>2 DEF OpInv, QuotaTypeOK, ScanIsExact
  <2>3. Uncounted(o)'
    BY <1>2 DEF OpInv, QuotaTypeOK, Uncounted
  <2>4. HalfDone(o)'
    BY <1>2 DEF OpInv, QuotaTypeOK, Files, HalfDone, OwnTemp, Mutating
  <2>5. DirtyWhileMutating(o)'
    BY <1>2 DEF OpInv, QuotaTypeOK, DirtyWhileMutating, Mutating
  <2>6. Admitted(o)'
    BY <1>2 DEF OpInv, QuotaTypeOK, Admitted
  <2> QED BY <2>1, <2>2, <2>3, <2>4, <2>5, <2>6 DEF OpInv
<1> QED BY <1>3, <1>4, <1>5, <1>6, <1>7 DEF QInv

\* What is said of an operation depends on no more than these.
LEMMA OpInvFrame ==
    ASSUME NEW q \in Operation, OpInv(q),
           pc'[q] = pc[q], call'[q] = call[q], was'[q] = was[q], files'[q] = files[q],
           UNCHANGED <<usage, current, counter, scanned, next>>
    PROVE  OpInv(q)'
<1>1. DeltaOf(q)' = DeltaOf(q)
    BY DEF DeltaOf
<1>2. /\ ReadIsCurrent(q)' /\ ScanIsExact(q)' /\ HalfDone(q)'
      /\ DirtyWhileMutating(q)' /\ Admitted(q)'
    BY DEF OpInv, ReadIsCurrent, BeforeMutation, LogAsRead, ScanIsExact, HalfDone,
           OwnTemp,
           DirtyWhileMutating, Admitted
<1>3. Uncounted(q)'
    BY <1>1 DEF OpInv, Uncounted, Ahead
<1> QED BY <1>2, <1>3 DEF OpInv

\* A call that begins, or takes the quota lock, changes nothing another looks at.
LEMMA BeginKeeps ==
    ASSUME QInv, NEW o \in Operation, NEW kind \in Kinds, Begin(o, kind)
    PROVE  QInv'
<1> USE DEF Begin, Goto, At, disk, scan
<1>1. /\ QuotaTypeOK /\ CounterExact /\ ScanLeads /\ OneInside
      /\ \A q \in Operation : OpInv(q)
    BY DEF QInv
<1>2. QuotaTypeOK'
    BY <1>1 DEF QuotaTypeOK, Steps
<1>3. OneInside' /\ ScanLeads'
    BY <1>1 DEF QuotaTypeOK, OneInside, ScanLeads
<1>4. CounterExact'
    BY <1>1 DEF CounterExact, Trusted
<1>5. ASSUME NEW q \in Operation PROVE OpInv(q)'
  <2>1. OpInv(q)
    BY <1>1
  <2>2. CASE q = o
    BY <1>1, <2>1, <2>2 DEF QuotaTypeOK, OpInv, ReadIsCurrent, BeforeMutation, LogAsRead,
                            ScanIsExact, Uncounted, Ahead,
               HalfDone, OwnTemp, DirtyWhileMutating, Admitted, Mutating
  <2>3. CASE q # o
    <3>1. pc'[q] = pc[q] /\ call'[q] = call[q] /\ was'[q] = was[q]
      BY <1>1, <2>3 DEF QuotaTypeOK
    <3> QED BY <2>1, <3>1, OpInvFrame
  <2> QED BY <2>2, <2>3
<1> QED BY <1>2, <1>3, <1>4, <1>5 DEF QInv

\* Whoever takes the quota lock finds everybody else outside.
LEMMA LockKeeps ==
    ASSUME QInv, NEW o \in Operation, Lock(o)
    PROVE  QInv'
<1> USE QuotaAssumption DEF Lock, Goto, At, disk, scan, bounds
<1>1. QuotaTypeOK /\ CounterExact /\ ScanLeads /\ OneInside /\ OpInv(o)
    BY DEF QInv
<1>2. \A q \in Operation : pc[q] \in {"idle", "lock"}
    BY <1>1 DEF OneInside
<1>3. QuotaTypeOK'
    BY <1>1 DEF QuotaTypeOK, Steps
<1>4. OneInside' /\ ScanLeads'
    BY <1>1, <1>2 DEF QuotaTypeOK, OneInside, ScanLeads
<1>5. CounterExact'
    BY <1>1 DEF CounterExact, Trusted
<1>6. \A q \in Operation \ {o} : OpInv(q)'
    BY <1>1, <1>2, OthersQuiet DEF QuotaTypeOK
<1>7. OpInv(o)'
    BY <1>1 DEF QuotaTypeOK, OpInv, ReadIsCurrent, BeforeMutation, LogAsRead, ScanIsExact,
                Uncounted, Ahead,
               HalfDone, OwnTemp, DirtyWhileMutating, Admitted, Mutating
<1> QED BY <1>3, <1>4, <1>5, <1>6, <1>7 DEF QInv

\* What a torn write or a withdrawn temporary file leaves is counted by nobody,
\* and the counter is dirty.
LEMMA TornFacts ==
    ASSUME QuotaTypeOK, NEW o \in Operation, Torn(o)
    PROVE  /\ files' \in [Operation -> Files] /\ usage' \in Total
           /\ current' \subseteq Operation \cup {Counter}
           /\ \A q \in Operation \ {o} : files'[q] = files[q]
           /\ files'[o].committed = files[o].committed
           /\ ~At(o, "write") => UNCHANGED disk
<1>1. files[o] \in Files /\ [files[o] EXCEPT !.tail = 1] \in Files
    BY FilesUpdate DEF QuotaTypeOK
<1>2. CASE UNCHANGED disk
    BY <1>2 DEF disk, QuotaTypeOK
<1>3. CASE At(o, "write") /\ PutSize(o, [files[o] EXCEPT !.tail = 1])
  <2>1. files' \in [Operation -> Files] /\ files'[o] = [files[o] EXCEPT !.tail = 1]
        /\ \A q \in Operation \ {o} : files'[q] = files[q]
    BY <1>1, <1>3 DEF PutSize, PutBytes, QuotaTypeOK
  <2>2. usage' \in Total
    BY <1>1, <1>3 DEF PutSize, PutBytes, QuotaTypeOK, Total, Files, BytesOf, EntriesOf,
                      LogBytes, One
  <2> QED BY <1>1, <1>3, <2>1, <2>2 DEF PutSize, QuotaTypeOK, Files
<1> QED BY <1>2, <1>3 DEF Torn

\* A process that dies leaves a dirty counter behind whatever it had begun.
LEMMA DieKeeps ==
    ASSUME QInv, NEW o \in Operation, Die(o)
    PROVE  QInv'
<1> USE QuotaAssumption DEF Die, Goto, At, scan
<1>1. /\ QuotaTypeOK /\ CounterExact /\ ScanLeads /\ OneInside
      /\ \A q \in Operation : OpInv(q)
    BY DEF QInv
<1>2. QuotaTypeOK'
  <2>1. files' \in [Operation -> Files] /\ usage' \in Total
        /\ current' \subseteq Operation \cup {Counter}
    BY <1>1, TornFacts
  <2> QED BY <1>1, <2>1 DEF QuotaTypeOK, Steps
<1>3. OneInside' /\ ScanLeads'
    BY <1>1 DEF QuotaTypeOK, OneInside, ScanLeads
<1>4. CounterExact'
  <2>1. CASE pc[o] = "write"
    BY <1>1, <2>1 DEF CounterExact, Trusted, OpInv, DirtyWhileMutating, Mutating
  <2>2. CASE pc[o] # "write"
    BY <1>1, <2>2, TornFacts DEF CounterExact, Trusted, disk
  <2> QED BY <2>1, <2>2
<1>5. ASSUME NEW q \in Operation PROVE OpInv(q)'
  <2>1. OpInv(q) /\ OpInv(o)
    BY <1>1
  <2>2. CASE q = o
    BY <1>1, <2>2 DEF QuotaTypeOK, OpInv, ReadIsCurrent, BeforeMutation, LogAsRead,
                      ScanIsExact, Uncounted, Ahead,
               HalfDone, OwnTemp, DirtyWhileMutating, Admitted, Mutating
  <2>3. CASE q # o
    <3>1. /\ pc'[q] = pc[q] /\ call'[q] = call[q] /\ was'[q] = was[q]
          /\ files'[q] = files[q]
      BY <1>1, <2>3, TornFacts DEF QuotaTypeOK
    <3>2. CASE pc[o] = "write"
      <4>1. pc[q] \in {"idle", "lock"}
        BY <1>1, <2>3, <3>2 DEF OneInside
      <4> QED BY <2>1, <3>1, <4>1 DEF OpInv, ReadIsCurrent, BeforeMutation, LogAsRead,
                                      ScanIsExact, Uncounted, Ahead,
               HalfDone, OwnTemp, DirtyWhileMutating, Admitted, Mutating
    <3>3. CASE pc[o] # "write"
      <4>1. UNCHANGED disk
        BY <1>1, <3>3, TornFacts
      <4> QED BY <2>1, <3>1, <4>1, OpInvFrame DEF disk
    <3> QED BY <3>2, <3>3
  <2> QED BY <2>2, <2>3
<1> QED BY <1>2, <1>3, <1>4, <1>5 DEF QInv

\* A mutation that throws leaves the counter dirty, or already exact.
LEMMA FailedKeeps ==
    ASSUME QInv, NEW o \in Operation, Failed(o)
    PROVE  QInv'
<1> USE QuotaAssumption DEF Goto, At
<1>1. QuotaTypeOK /\ CounterExact /\ ScanLeads /\ OneInside /\ OpInv(o)
    BY DEF QInv
<1>2. /\ holder = o /\ pc[o] \in Mutating
      /\ \A q \in Operation \ {o} : pc[q] \in {"idle", "lock"}
    BY HolderAlone DEF Failed, Mutating
<1>3. /\ next' = "release" /\ pc' = [pc EXCEPT ![o] = "scan"]
      /\ UNCHANGED <<holder, call, was, scanned>>
    BY DEF Failed
<1>4. /\ files' \in [Operation -> Files] /\ usage' \in Total
      /\ current' \subseteq Operation \cup {Counter}
      /\ \A q \in Operation \ {o} : files'[q] = files[q]
      /\ counter' \in [exists : BOOLEAN, dirty : BOOLEAN, bytes : Int, entries : Int]
      /\ CounterExact'
  <2>1. counter.dirty
    BY <1>1, <1>2 DEF OpInv, DirtyWhileMutating
  <2>2. CASE OwnTemp(o) /\ PutEntry(o, [files[o] EXCEPT !.temps = @ - 1]) /\ UNCHANGED counter
    <3>1. files[o] \in Files /\ [files[o] EXCEPT !.temps = @ - 1] \in Files
      BY <1>1, <2>2, FilesUpdate DEF QuotaTypeOK, OpInv, HalfDone
    <3>2. usage' \in Total
      BY <1>1, <2>2, <3>1 DEF PutEntry, PutBytes, QuotaTypeOK, Total, Files, BytesOf,
                              EntriesOf, LogBytes, One
    <3> QED BY <1>1, <2>1, <2>2, <3>1, <3>2
            DEF PutEntry, PutBytes, QuotaTypeOK, CounterExact, Trusted
  <2>3. CASE Torn(o) /\ UNCHANGED counter
    BY <1>1, <2>1, <2>3, TornFacts DEF QuotaTypeOK, CounterExact, Trusted
  <2>4. CASE At(o, "settle") /\ SaveSettled(o) /\ UNCHANGED <<files, usage>>
    <3>1. /\ Ahead(DeltaOf(o).bytes, DeltaOf(o).entries)
          /\ DeltaOf(o).bytes \in Int /\ DeltaOf(o).entries \in Int
      BY <1>1, <2>4 DEF OpInv, Uncounted, QuotaTypeOK, Total, Files, DeltaOf, Kinds, One,
                        LogBytes, HalfDone, Mutating
    <3> QED BY <1>1, <2>4, <3>1 DEF SaveSettled, CounterOf, CounterExact, Trusted, Ahead,
                                    QuotaTypeOK, Total
  <2> QED BY <2>2, <2>3, <2>4 DEF Failed
<1>5. QuotaTypeOK'
    BY <1>1, <1>3, <1>4 DEF QuotaTypeOK, Steps
<1>6. OneInside' /\ ScanLeads'
    BY <1>1, <1>2, <1>3 DEF QuotaTypeOK, OneInside, ScanLeads
<1>7. \A q \in Operation \ {o} : OpInv(q)'
    BY <1>1, <1>2, <1>3, <1>4, OthersQuiet DEF QuotaTypeOK
<1>8. OpInv(o)'
    BY <1>1, <1>3 DEF QuotaTypeOK, OpInv, ReadIsCurrent, BeforeMutation, LogAsRead,
                      ScanIsExact, Uncounted, Ahead,
               HalfDone, OwnTemp, DirtyWhileMutating, Admitted, Mutating
<1> QED BY <1>4, <1>5, <1>6, <1>7, <1>8 DEF QInv

\* A counter that could not be written is the old one or the new one.
LEMMA FailedCounterKeeps ==
    ASSUME QInv, NEW o \in Operation, FailedCounter(o)
    PROVE  QInv'
<1> USE QuotaAssumption DEF FailedCounter, Goto, At, scan
<1>1. QuotaTypeOK /\ CounterExact /\ ScanLeads /\ OneInside /\ OpInv(o)
    BY DEF QInv
<1>2. /\ holder = o
      /\ \A q \in Operation \ {o} : pc[q] \in {"idle", "lock"}
    BY HolderAlone
<1>3. QuotaTypeOK'
  <2>1. counter' \in [exists : BOOLEAN, dirty : BOOLEAN, bytes : Int, entries : Int]
    <3>1. CounterOf(scanned, FALSE) \in [exists : BOOLEAN, dirty : BOOLEAN,
                                         bytes : Int, entries : Int]
      BY <1>1 DEF QuotaTypeOK, Total, CounterOf
    <3>2. CounterOf(counter, TRUE) \in [exists : BOOLEAN, dirty : BOOLEAN,
                                        bytes : Int, entries : Int]
      BY <1>1 DEF QuotaTypeOK, CounterOf
    <3> QED BY <1>1, <3>1, <3>2 DEF QuotaTypeOK, SaveRebuilt
  <2>2. current' \subseteq Operation \cup {Counter}
    BY <1>1 DEF QuotaTypeOK, SaveRebuilt
  <2> QED BY <1>1, <2>1, <2>2 DEF QuotaTypeOK, Steps
<1>4. OneInside' /\ ScanLeads'
    BY <1>1, <1>2 DEF QuotaTypeOK, OneInside, ScanLeads
<1>5. CounterExact'
    BY <1>1 DEF CounterExact, Trusted, SaveRebuilt, CounterOf, OpInv, ScanIsExact
<1>6. \A q \in Operation \ {o} : OpInv(q)'
    BY <1>1, <1>2, OthersQuiet DEF QuotaTypeOK
<1>7. OpInv(o)'
    BY <1>1 DEF QuotaTypeOK, OpInv, ReadIsCurrent, BeforeMutation, LogAsRead, ScanIsExact,
                Uncounted, Ahead,
               HalfDone, OwnTemp, DirtyWhileMutating, Admitted, Mutating
<1> QED BY <1>3, <1>4, <1>5, <1>6, <1>7 DEF QInv

\* Entries removed from outside make every fingerprint stale.
LEMMA OutsideKeeps ==
    ASSUME QInv, NEW o \in Operation, Outside(o)
    PROVE  QInv'
<1> USE QuotaAssumption DEF actors, scan
<1>1. /\ QuotaTypeOK /\ CounterExact /\ ScanLeads /\ OneInside
      /\ \A q \in Operation : OpInv(q)
    BY DEF QInv
<1>2. /\ \A q \in Operation : pc[q] \notin Mutating \cup {"rebuild", "admit", "mark"}
      /\ UNCHANGED <<counter, holder, pc, call, was, scanned, next>>
    BY DEF Outside
<1>3. PICK f \in Files : /\ f.exists = files[o].exists /\ f.committed = files[o].committed
                         /\ f.tail = files[o].tail /\ PutEntry(o, f)
  <2>1. files[o] \in Files /\ [files[o] EXCEPT !.copy = 0] \in Files
        /\ (files[o].temps > 0 => [files[o] EXCEPT !.temps = @ - 1] \in Files)
    BY <1>1, FilesUpdate DEF QuotaTypeOK
  <2>2. CASE PutEntry(o, [files[o] EXCEPT !.copy = 0])
    BY <2>1, <2>2 DEF Files
  <2>3. CASE files[o].temps > 0 /\ PutEntry(o, [files[o] EXCEPT !.temps = @ - 1])
    BY <2>1, <2>3 DEF Files
  <2> QED BY <2>2, <2>3 DEF Outside
<1>4. current' = {} /\ files' = [files EXCEPT ![o] = f] /\ files' \in [Operation -> Files]
    BY <1>1, <1>3 DEF PutEntry, PutBytes, QuotaTypeOK
<1>5. usage' \in Total
    BY <1>1, <1>3 DEF PutEntry, PutBytes, QuotaTypeOK, Total, Files, BytesOf, EntriesOf,
                      LogBytes, One
<1>6. QuotaTypeOK' /\ OneInside' /\ ScanLeads' /\ CounterExact'
    BY <1>1, <1>2, <1>4, <1>5 DEF QuotaTypeOK, OneInside, ScanLeads, CounterExact, Trusted
<1>7. ASSUME NEW q \in Operation PROVE OpInv(q)'
  <2>1. OpInv(q) /\ pc[q] \notin Mutating \cup {"rebuild", "admit", "mark"}
    BY <1>1, <1>2
  <2>2. /\ files'[q].exists = files[q].exists /\ files'[q].committed = files[q].committed
        /\ files'[q].tail = files[q].tail
    BY <1>1, <1>3, <1>4 DEF QuotaTypeOK
  <2> QED BY <1>2, <1>4, <2>1, <2>2 DEF OpInv, ReadIsCurrent, BeforeMutation, LogAsRead,
                                        ScanIsExact, Uncounted, Ahead,
               HalfDone, OwnTemp, DirtyWhileMutating, Admitted, Mutating
<1> QED BY <1>6, <1>7 DEF QInv

\* An empty state root has no counter.
LEMMA QuotaInitHolds == QuotaInit => QInv
<1> SUFFICES ASSUME QuotaInit PROVE QInv
    OBVIOUS
<1> USE QuotaAssumption DEF QuotaInit
<1>1. NoFiles \in Files
    BY DEF NoFiles, Files
<1>2. QuotaTypeOK
    BY <1>1 DEF QuotaTypeOK, Total, Nothing, Steps, Kinds
<1>3. OneInside /\ CounterExact /\ ScanLeads
    BY DEF OneInside, CounterExact, Trusted, ScanLeads
<1>4. \A o \in Operation : OpInv(o)
    BY DEF OpInv, ReadIsCurrent, BeforeMutation, LogAsRead, ScanIsExact, Uncounted, Ahead,
               HalfDone, OwnTemp, DirtyWhileMutating, Admitted, Mutating
<1> QED BY <1>2, <1>3, <1>4 DEF QInv

\* Every step keeps the invariant.
LEMMA QuotaStep == QInv /\ [QuotaNext]_quotaVars => QInv'
<1> SUFFICES ASSUME QInv, [QuotaNext]_quotaVars PROVE QInv'
    OBVIOUS
<1>1. CASE UNCHANGED quotaVars
  <2>1. UNCHANGED <<files, usage, current, counter, holder, pc, call, was, scanned, next>>
    BY <1>1 DEF quotaVars, disk, actors, scan
  <2>2. \A q \in Operation : OpInv(q)'
    BY <2>1, OpInvFrame DEF QInv
  <2>3. QuotaTypeOK' /\ OneInside' /\ CounterExact' /\ ScanLeads'
    BY <2>1 DEF QInv, QuotaTypeOK, OneInside, CounterExact, Trusted, ScanLeads
  <2> QED BY <2>2, <2>3 DEF QInv
<1>2. ASSUME NEW o \in Operation, CallStep(o) PROVE QInv'
    BY <1>2, BeginKeeps, LockKeeps, LoadKeeps, ScanKeeps, CompareKeeps, RebuildKeeps,
       AdmitKeeps, MarkKeeps, SettleKeeps, ReleaseKeeps, OpenKeeps, TruncateKeeps,
       WriteKeeps, SyncKeeps, TempKeeps, PublishKeeps, UnlinkTempKeeps, UnlinkKeeps
       DEF CallStep
<1>3. ASSUME NEW o \in Operation, Fault(o) PROVE QInv'
    BY <1>3, FailedKeeps, FailedCounterKeeps DEF Fault
<1> QED BY <1>1, <1>2, <1>3, DieKeeps, OutsideKeeps DEF QuotaNext

\* The inductive invariant: past the quota lock there is one call, and at each
\* of its steps it is known what the counter does not show yet.
THEOREM QuotaInvariant == QuotaSpec => []QInv
<1>1. QuotaInit => QInv
    BY QuotaInitHolds
<1>2. QInv /\ [QuotaNext]_quotaVars => QInv'
    BY QuotaStep
<1> QED BY <1>1, <1>2, PTL DEF QuotaSpec

\* A counter that would be trusted is exact, for any operations, sizes, crashes
\* and faults (loadCurrentQuotaCounter, mutateQuotaTrackedState).
THEOREM QuotaCounterExact == QuotaSpec => []CounterExact
<1>1. QInv => CounterExact
    BY DEF QInv
<1> QED BY <1>1, QuotaInvariant, PTL

\* Only a write of the first record creates an operation, and its record was
\* admitted against a counter that is still exact.
LEMMA AdmittedFits ==
    ASSUME QInv, [QuotaNext]_quotaVars, NEW o \in Operation,
           files[o].committed = 0, files'[o].committed > 0
    PROVE  usage'.bytes <= MaxStateBytes
<1> USE QuotaAssumption
<1>1. QuotaTypeOK /\ OpInv(o)
    BY DEF QInv
<1>2. ASSUME NEW q \in Operation, NEW f,
             f.committed = files[q].committed \/ f.committed = 0, PutBytes(q, f)
      PROVE  FALSE
    BY <1>1, <1>2 DEF PutBytes, QuotaTypeOK, Files
<1>3. files' # files
    OBVIOUS
<1>4. PICK q \in Operation : CallStep(q) \/ Fault(q) \/ Die(q) \/ Outside(q)
    BY <1>3 DEF QuotaNext, quotaVars, disk
<1>5. files[q] \in Files
    BY <1>1 DEF QuotaTypeOK
<1>6. Write(q)
  <2>1. CASE CallStep(q)
    <3>1. ~Open(q)
      <4>1. [files[q] EXCEPT !.exists = TRUE].committed = files[q].committed
        BY <1>5 DEF Files
      <4> QED BY <1>2, <1>3, <4>1 DEF Open, disk, PutEntry
    <3>2. ~Truncate(q)
      <4>1. [files[q] EXCEPT !.tail = 0].committed = files[q].committed
        BY <1>5 DEF Files
      <4> QED BY <1>2, <4>1 DEF Truncate, PutSize
    <3>3. ~Temp(q) /\ ~UnlinkTemp(q)
      <4>1. /\ [files[q] EXCEPT !.temps = @ + 1].committed = files[q].committed
            /\ [files[q] EXCEPT !.temps = @ - 1].committed = files[q].committed
        BY <1>5 DEF Files
      <4> QED BY <1>2, <4>1 DEF Temp, UnlinkTemp, PutEntry
    <3>4. ~Publish(q)
      <4>1. ASSUME NEW n \in CopyBytes
            PROVE  /\ [files[q] EXCEPT !.copy = n, !.temps = @ - 1].committed = files[q].committed
                   /\ [files[q] EXCEPT !.copy = n].committed = files[q].committed
        BY <1>5 DEF Files
      <4> QED BY <1>2, <4>1 DEF Publish, PutEntry
    <3>5. ~Unlink(q)
      <4>1. /\ [files[q] EXCEPT !.exists = FALSE, !.committed = 0, !.tail = 0].committed = 0
            /\ [files[q] EXCEPT !.copy = 0].committed = files[q].committed
        BY <1>5 DEF Files
      <4> QED BY <1>2, <1>3, <4>1 DEF Unlink, disk, PutEntry
    <3> QED BY <1>3, <2>1, <3>1, <3>2, <3>3, <3>4, <3>5
            DEF CallStep, Begin, Lock, Load, Scan, Compare, Rebuild, Admit, Mark, Settle,
                Release, Sync, disk
  <2>2. ~Torn(q)
    <3>1. [files[q] EXCEPT !.tail = 1].committed = files[q].committed
      BY <1>5 DEF Files
    <3> QED BY <1>2, <1>3, <3>1 DEF Torn, disk, PutSize
  <2>3. /\ ~PutEntry(q, [files[q] EXCEPT !.temps = @ - 1])
        /\ ~PutEntry(q, [files[q] EXCEPT !.copy = 0])
    <3>1. /\ [files[q] EXCEPT !.temps = @ - 1].committed = files[q].committed
          /\ [files[q] EXCEPT !.copy = 0].committed = files[q].committed
      BY <1>5 DEF Files
    <3> QED BY <1>2, <3>1 DEF PutEntry
  <2> QED BY <1>3, <1>4, <2>1, <2>2, <2>3 DEF Fault, Failed, FailedCounter, Die, Outside
<1>7. q = o
    BY <1>1, <1>6 DEF Write, PutSize, PutBytes, QuotaTypeOK
<1>8. /\ usage.bytes = counter.bytes - was[o].tail
      /\ counter.bytes + Positive(RecordBytes - was[o].tail) <= MaxStateBytes
      /\ files[o].tail = 0
    BY <1>1, <1>6, <1>7 DEF Write, At, OpInv, Uncounted, Ahead, HalfDone, Admitted,
                            Creates,
                            QuotaTypeOK, Files, Total
<1>9. usage'.bytes = usage.bytes + RecordBytes
    BY <1>1, <1>6, <1>7, <1>8 DEF Write, PutSize, PutBytes, BytesOf, LogBytes,
                                  QuotaTypeOK, Files, Total
<1> QED BY <1>1, <1>8, <1>9 DEF Positive, QuotaTypeOK, Files, Total

\* No new operation passes the quota of the state root, with any number of
\* others created, grown and removed meanwhile (assertQuotaForNewOperation).
THEOREM QuotaAdmission == QuotaSpec => AdmissionWithinQuota
<1>1. QInv /\ [QuotaNext]_quotaVars
      => [\A o \in Operation :
             files[o].committed = 0 /\ files'[o].committed > 0
               => usage'.bytes <= MaxStateBytes]_quotaVars
    BY AdmittedFits
<1> QED BY <1>1, QuotaInvariant, PTL DEF QuotaSpec, AdmissionWithinQuota
=============================================================================
