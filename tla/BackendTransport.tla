--------------------------- MODULE BackendTransport ---------------------------
(***************************************************************************)
(* StdioBackendTransport (backend/client.ts): many callers' requests over  *)
(* the stdin and stdout of one child process at a time.  A call waits for  *)
(* the handshake, for the single slot of a backend that cannot multiplex,  *)
(* and for its turn to be written; it may be cancelled or time out at any  *)
(* of these points, and its answer may still arrive afterwards.  The child *)
(* may exit, hang, answer in any order or break the protocol, and is then  *)
(* replaced by the next generation.                                        *)
(*                                                                         *)
(* A call is an id and which use of that id it is.  The code keys every    *)
(* table by the id alone, and so do the actions here.                      *)
(***************************************************************************)
EXTENDS Integers, Sequences, SequencesExt, FiniteSets

CONSTANTS
    Caller,           \* request ids of callers
    Streams,          \* those used for streams
    Control,          \* the id of the handshake's own request
    NoChild,
    Modes,            \* what a hello may negotiate
    MaxInFlight, WriteQueueLimit, TombstoneLimit,
    WriteErrors,      \* whether a write that was begun may fail
    ReuseWhileWriting, \* whether an id is used again while a line of it is queued
    MaxUses,          \* bound: uses of one id
    MaxHellos,        \* bound: requests of the handshake
    MaxChildren,      \* bound: generations
    MaxUnknown        \* bound: answers with an id nobody asked for

Ids == Caller \cup {Control}

ASSUME TransportAssumption ==
    /\ Control \notin Caller /\ Streams \subseteq Caller
    /\ Modes \subseteq {"multiplexed", "single", "legacy", "failed", "rejected"}
    /\ {MaxInFlight, WriteQueueLimit, TombstoneLimit} \subseteq Nat \ {0}
    /\ MaxInFlight >= 2 /\ NoChild = 0
    /\ {MaxUses, MaxHellos, MaxChildren, MaxUnknown} \subseteq Nat
    /\ {WriteErrors, ReuseWhileWriting} \subseteq BOOLEAN

VARIABLES
    route,        \* where the call of each id is, and which use of the id it is
    waiting, active, \* waitingAdmissionIds and activeRequestIds
    slots,        \* legacyTail: callers in the queue for the single slot
    child, spawned,  \* the child process, as its generation, and the last one
    handshake, probes, \* handshakeState and the legacy probes made
    tails,        \* writeTail and retiredWriteTail: lines in the order of writing
    blocked,      \* recycleBlockedByWriteTeardown
    tombstones, tombstoneTimer, quarantined,
    owed,         \* calls the child has read and not answered
    closed, unknown

calls == <<route, waiting, active, slots>>
guards == <<tombstones, tombstoneTimer, quarantined>>
connection == <<child, spawned, handshake, probes, owed>>
transportVars == <<calls, guards, connection, tails, blocked, closed, unknown>>

\* handshake: waiting for it; slot: waiting for the single slot; pending: in
\* pendingResponses or pendingStreams.
Routes == {"idle", "handshake", "slot", "pending"}
Idle(i) == route[i].stage = "idle"
Pending(i) == route[i].stage = "pending"
At(i, s) == [route EXCEPT ![i].stage = s]
SingleFlight == handshake = "single"
Call(i) == [id |-> i, use |-> route[i].use]

\* Whether the tables hold a call under the id of line or answer l; the ids of the
\* handshake are always fresh.
Routed(l) == Pending(l.id) /\ (l.id = Control => l.use = route[Control].use)
Entombed(l) == \E c \in tombstones : c.id = l.id /\ (l.id = Control => c.use = l.use)
TombstonesWith(i, tombstone) == IF tombstone THEN tombstones \cup {Call(i)} ELSE tombstones
TombstonesFull(i, tombstone) ==
    tombstone /\ Call(i) \notin tombstones /\ Cardinality(tombstones) >= TombstoneLimit

-----------------------------------------------------------------------------
(* Lines to write *)

Lines == Range(tails.current) \cup Range(tails.retired)
Queued == Len(tails.current) + Len(tails.retired)
\* hasStartedWrite.
StartedWrite(i) == \E l \in Lines : l.id = i /\ l.started
\* admitWrite, and the turn of the line in writeTail.
Line(i, c) == [id |-> i, use |-> route[i].use, gen |-> c, started |-> FALSE]
WriteHasRoom == Queued < WriteQueueLimit
WithLine(l) == [tails EXCEPT !.current = Append(@, l)]

\* Mutant of RetiredTails: a replacement child is never refused.
RetiredTailsUnbounded(t) ==
    IF \E l \in Range(t.current) \cup Range(t.retired) : l.gen = child
    THEN [tails |-> [current |-> <<>>, retired |-> t.retired \o t.current], blocked |-> FALSE]
    ELSE [tails |-> t, blocked |-> blocked]

\* retireWriteLifecycle, with t the tails.
RetiredTails(t) ==
    IF \A l \in Range(t.current) \cup Range(t.retired) : l.gen # child
    THEN [tails |-> t, blocked |-> blocked]
    ELSE IF t.retired = <<>>
    THEN [tails |-> [current |-> <<>>, retired |-> t.current], blocked |-> blocked]
    ELSE [tails |-> t, blocked |-> TRUE]

\* releaseWrite and maybeUnblockWriteTeardown: the tails become t.
Unblocked(t) == blocked /\ ~(t.current = <<>> /\ t.retired = <<>>)

-----------------------------------------------------------------------------
(* The end of a call, and of a child *)

\* terminate and handleProcessFailure, with failAll: every call is rejected, state
\* is the handshake's and t the tails.
TerminatedTo(state, t) ==
    LET r == RetiredTails(t)
    IN  /\ route' = [i \in Ids |-> [route[i] EXCEPT !.stage = "idle"]]
        /\ waiting' = {} /\ active' = {} /\ slots' = <<>>
        /\ child' = NoChild /\ handshake' = state /\ probes' = 0 /\ owed' = {}
        /\ tombstones' = {} /\ tombstoneTimer' = FALSE /\ quarantined' = FALSE
        /\ tails' = r.tails /\ blocked' = r.blocked
        /\ UNCHANGED spawned
Terminated(t) == TerminatedTo("unknown", t)

\* A caller gives up its place in the queue for the single slot, where it has one.
SlotsWithout(i) ==
    IF i \in Range(slots) THEN RemoveAt(slots, CHOOSE n \in DOMAIN slots : slots[n] = i)
    ELSE slots

\* A call that never became pending is rejected.
Dropped(i) ==
    /\ route' = At(i, "idle")
    /\ waiting' = waiting \ {i} /\ active' = active \ {i}
    /\ slots' = SlotsWithout(i)

\* Mutant of Released: the admission of a call that leaves a tombstone is kept.
ReleasedOnAnswer(i, tombstone) ==
    /\ active' = IF tombstone THEN active ELSE active \ {i}
    /\ tombstones' = TombstonesWith(i, tombstone)
    /\ tombstoneTimer' = (tombstoneTimer \/ tombstone)

\* releaseRequestId, for a call that ends and may leave a tombstone.
Released(i, tombstone) ==
    /\ active' = active \ {i}
    /\ tombstones' = TombstonesWith(i, tombstone)
    /\ tombstoneTimer' = (tombstoneTimer \/ tombstone)

\* clearResponse and clearStream, with t the tails and answered what the child still
\* owes: the transport is recycled when the tombstones are full, or when it is
\* quarantined and this was the last call.
Finished(i, tombstone, t, answered) ==
    IF \/ TombstonesFull(i, tombstone)
       \/ quarantined /\ \A j \in Ids \ {i} : Idle(j)
    THEN Terminated(t)
    ELSE /\ route' = At(i, "idle") /\ slots' = SlotsWithout(i)
         /\ Released(i, tombstone)
         /\ tails' = t /\ blocked' = Unblocked(t)
         /\ owed' = answered
         /\ UNCHANGED <<waiting, child, spawned, handshake, probes, quarantined>>

-----------------------------------------------------------------------------
(* Calls *)

Load == Cardinality(waiting \cup active)

\* Mutant of CallerLimit: no slot is kept for the handshake.
CallerLimitFull == MaxInFlight

\* assertAdmissionCapacity, of a caller.
CallerLimit ==
    IF handshake = "unknown" /\ Control \notin active THEN MaxInFlight - 1 ELSE MaxInFlight

\* validateRequestId.
Usable(i) == /\ ~closed /\ ~quarantined
             /\ i \notin waiting \cup active /\ ~Entombed(Call(i))

\* request and stream, up to the wait for the handshake.
Request(i) ==
    /\ Usable(i) /\ Load < CallerLimit
    /\ child # NoChild \/ spawned < MaxChildren
    /\ handshake = "unknown" => route[Control].use < MaxHellos
    /\ route[i].use < MaxUses
    /\ ReuseWhileWriting \/ \A l \in Lines : l.id # i
    /\ route' = [route EXCEPT ![i] = [stage |-> "handshake", use |-> @.use + 1]]
    /\ waiting' = waiting \cup {i}
    /\ UNCHANGED <<active, slots, guards, connection, tails, blocked, closed, unknown>>

\* A request of the handshake to generation c, or the rejection of every caller that
\* waits for it.
HelloSent(c, n) ==
    LET hello == [id |-> Control, use |-> route[Control].use + 1, gen |-> c, started |-> FALSE]
    IN  IF Cardinality((waiting \cup active) \ {Control}) < MaxInFlight /\ WriteHasRoom
        THEN /\ route' = [route EXCEPT ![Control] = [stage |-> "pending", use |-> hello.use]]
             /\ active' = active \cup {Control}
             /\ tails' = WithLine(hello) /\ probes' = n
             /\ UNCHANGED <<waiting, slots>>
        ELSE /\ route' = [i \in Ids |-> [route[i] EXCEPT !.stage = "idle"]]
             /\ waiting' = {} /\ active' = active \ {Control} /\ probes' = 0
             /\ UNCHANGED <<slots, tails>>

\* ensureHandshake with no handshake under way, and start.
Negotiate(i) ==
    /\ route[i].stage = "handshake" /\ handshake = "unknown" /\ Idle(Control)
    /\ IF (blocked /\ child = NoChild) \/ (quarantined /\ child # NoChild)
       THEN Dropped(i) /\ UNCHANGED <<tails, connection>>
       ELSE LET c == IF child = NoChild THEN spawned + 1 ELSE child
            IN  /\ HelloSent(c, 0)
                /\ child' = c
                /\ spawned' = IF child = NoChild THEN c ELSE spawned
                /\ UNCHANGED <<handshake, owed>>
    /\ UNCHANGED <<guards, blocked, closed, unknown>>

\* ensureHandshake once an earlier hello was rejected.
Blocked(i) ==
    /\ route[i].stage = "handshake" /\ handshake = "blocked"
    /\ Dropped(i)
    /\ UNCHANGED <<guards, connection, tails, blocked, closed, unknown>>

\* The answer to the hello, and to the two probes of a legacy backend.
HelloAnswered(mode) ==
    LET hello == Call(Control)
        rest == owed \ {hello}
    IN  /\ Pending(Control) /\ hello \in owed
        /\ probes > 0 => mode \in {"legacy", "rejected"}
        /\ IF mode = "rejected" THEN TerminatedTo("blocked", tails)
           ELSE IF mode = "legacy" /\ probes < 2
           THEN /\ HelloSent(child, probes + 1) /\ owed' = rest
                /\ UNCHANGED <<guards, child, spawned, handshake, blocked>>
           ELSE IF quarantined /\ \A i \in Caller : Idle(i) THEN Terminated(tails)
           ELSE /\ handshake' = CASE mode = "multiplexed" -> "ready"
                                  [] mode \in {"single", "legacy"} -> "single"
                                  [] mode = "failed" -> "unknown"
                /\ route' = [i \in Ids |-> IF i = Control \/ mode = "failed"
                                           THEN [route[i] EXCEPT !.stage = "idle"] ELSE route[i]]
                /\ waiting' = IF mode = "failed" THEN {} ELSE waiting
                /\ active' = active \ {Control} /\ probes' = 0 /\ owed' = rest
                /\ UNCHANGED <<slots, guards, child, spawned, tails, blocked>>
        /\ UNCHANGED <<closed, unknown>>

\* The handshake is over, and the caller queues for the single slot: a request takes
\* its admission before, a stream after.
AwaitSlot(i) ==
    /\ route[i].stage = "handshake" /\ SingleFlight
    /\ IF i \notin Streams /\ quarantined THEN Dropped(i)
       ELSE /\ route' = At(i, "slot") /\ slots' = Append(slots, i)
            /\ IF i \in Streams THEN UNCHANGED <<waiting, active>>
               ELSE waiting' = waiting \ {i} /\ active' = active \cup {i}
    /\ UNCHANGED <<guards, connection, tails, blocked, closed, unknown>>

\* promoteWaitingAdmission, assertCanIssue, issueResponse or issueStream, and write.
\* A line too long for a frame, or beyond the write queue's limit, was not sent.
Issue(i) ==
    /\ \/ route[i].stage = "handshake" /\ handshake = "ready"
       \/ route[i].stage = "slot" /\ Head(slots) = i
    /\ \/ /\ ~quarantined /\ WriteHasRoom
          /\ route' = At(i, "pending")
          /\ waiting' = waiting \ {i} /\ active' = active \cup {i}
          /\ tails' = WithLine(Line(i, child))
          /\ UNCHANGED slots
       \/ Dropped(i) /\ UNCHANGED tails
    /\ UNCHANGED <<guards, connection, blocked, closed, unknown>>

-----------------------------------------------------------------------------
(* Writing *)

\* Mutant of MayWrite: a line whose call has ended is written all the same.
MayWriteUnrouted(l) ==
    /\ l.id # Control => ~closed /\ ~quarantined /\ handshake # "blocked" /\ child # NoChild
    /\ child = l.gen

\* The checks of a line whose turn it is.
MayWrite(l) ==
    /\ l.id # Control => ~closed /\ ~quarantined /\ handshake # "blocked" /\ child # NoChild
    /\ child = l.gen
    /\ Routed(l)

Turn(k) == tails[k] # <<>> /\ ~Head(tails[k]).started

\* writeLine: the child may read the line from now on.
WriteStart(k) ==
    /\ Turn(k) /\ MayWrite(Head(tails[k]))
    /\ tails' = [tails EXCEPT ![k] = <<[Head(@) EXCEPT !.started = TRUE]>> \o Tail(@)]
    /\ owed' = owed \cup {[id |-> Head(tails[k]).id, use |-> Head(tails[k]).use]}
    /\ UNCHANGED <<calls, guards, child, spawned, handshake, probes, blocked, closed, unknown>>

\* releaseWrite and the catch of issueResponse or issueStream, of a line that failed,
\* unsent or not.
WriteFailed(k, tombstone) ==
    LET t == [tails EXCEPT ![k] = Tail(@)]
        l == Head(tails[k])
    IN  IF ~Routed(l)
        THEN /\ tails' = t /\ blocked' = Unblocked(t)
             /\ UNCHANGED <<calls, guards, connection>>
        ELSE IF l.id # Control
        THEN Finished(l.id, tombstone, t, owed)
        ELSE IF TombstonesFull(Control, tombstone) THEN Terminated(t)
        ELSE \* The handshake fails and so does every caller that waits for it.
             /\ route' = [i \in Ids |-> [route[i] EXCEPT !.stage = "idle"]]
             /\ waiting' = {} /\ active' = {} /\ probes' = 0
             /\ tombstones' = TombstonesWith(Control, tombstone)
             /\ tombstoneTimer' = (tombstoneTimer \/ tombstone)
             /\ tails' = t /\ blocked' = Unblocked(t)
             /\ UNCHANGED <<slots, child, spawned, handshake, quarantined, owed>>

\* A line whose turn it is and that may not be written any more.
WriteRefused(k) ==
    /\ Turn(k) /\ ~MayWrite(Head(tails[k]))
    /\ WriteFailed(k, FALSE)
    /\ UNCHANGED <<closed, unknown>>

\* The callback of stdin.write.
WriteSettles(k) ==
    /\ tails[k] # <<>> /\ Head(tails[k]).started
    /\ LET t == [tails EXCEPT ![k] = Tail(@)]
       IN  \/ WriteErrors /\ WriteFailed(k, TRUE)
           \/ /\ tails' = t /\ blocked' = Unblocked(t)
              /\ UNCHANGED <<calls, guards, connection>>
    /\ UNCHANGED <<closed, unknown>>

-----------------------------------------------------------------------------
(* Answers *)

\* discardLateOrQuarantine, of an id that is not in any table; rest is still owed.
\* The bounded table of such ids only hastens the recycling.
Quarantine(rest) ==
    IF \A i \in Ids : Idle(i) THEN Terminated(tails)
    ELSE /\ quarantined' = TRUE /\ owed' = rest
         /\ UNCHANGED <<calls, tombstones, tombstoneTimer, child, spawned, handshake,
                        probes, tails, blocked>>

\* Mutant of LateAnswer: the timer is stopped and not set again.
LateAnswerStopsTimer(call, rest) ==
    /\ tombstones' = {c \in tombstones : c.id # call.id \/ (call.id = Control /\ c # call)}
    /\ tombstoneTimer' = FALSE
    /\ owed' = rest
    /\ UNCHANGED <<calls, quarantined, child, spawned, handshake, probes, tails, blocked>>

\* consumeTombstoneResponse and consumeTombstoneEvent.
LateAnswer(call, rest) ==
    /\ tombstones' = {c \in tombstones : c.id # call.id \/ (call.id = Control /\ c # call)}
    /\ tombstoneTimer' = (tombstones' # {})
    /\ owed' = rest
    /\ UNCHANGED <<calls, quarantined, child, spawned, handshake, probes, tails, blocked>>

\* handleResponse, and handleEvent of a terminal event.
Answered(call) ==
    /\ call \in owed /\ call # Call(Control)
    /\ LET rest == owed \ {call}
       IN  IF Routed(call) THEN Finished(call.id, FALSE, tails, rest)
           ELSE IF Entombed(call) THEN LateAnswer(call, rest)
           ELSE Quarantine(rest)
    /\ UNCHANGED <<closed, unknown>>

\* handleEvent of one more event than the stream's queue has room for.
StreamOverflows(i) ==
    /\ i \in Streams /\ Pending(i) /\ Call(i) \in owed
    /\ Finished(i, TRUE, tails, owed)
    /\ UNCHANGED <<closed, unknown>>

\* An answer to an id nobody asked for.
UnknownAnswered ==
    /\ child # NoChild /\ unknown < MaxUnknown
    /\ unknown' = unknown + 1
    /\ Quarantine(owed)
    /\ UNCHANGED closed

\* The child exits, or breaks the protocol and is terminated.
ChildEnds ==
    /\ child # NoChild
    /\ Terminated(tails)
    /\ UNCHANGED <<closed, unknown>>

-----------------------------------------------------------------------------
(* Timers, cancellation and close *)

\* Mutant of Expired: nothing is left to wait for the late answer.
ExpiredUnguarded(i, fatal) == Finished(i, FALSE, tails, owed)

\* A pending call ends early: with its line half written, or one of a backend that
\* serves one call at a time and it ran out of time, the child goes too.
Expired(i, fatal) ==
    IF fatal \/ StartedWrite(i) THEN Terminated(tails) ELSE Finished(i, TRUE, tails, owed)

\* Mutant of Timeout: the handshake has no deadline.
TimeoutOfCalls(i) ==
    /\ i # Control /\ Pending(i)
    /\ Expired(i, SingleFlight)
    /\ UNCHANGED <<closed, unknown>>

\* createDeadline.
Timeout(i) ==
    /\ Pending(i)
    /\ Expired(i, i = Control \/ SingleFlight)
    /\ UNCHANGED <<closed, unknown>>

\* cancel, and return of a stream's iterator.
Cancel(i) ==
    /\ ~Idle(i)
    /\ IF Pending(i) THEN Expired(i, FALSE)
       ELSE Dropped(i) /\ UNCHANGED <<guards, connection, tails, blocked>>
    /\ UNCHANGED <<closed, unknown>>

\* The timers of scheduleTombstoneRecycle and scheduleQuarantineRecycle.
TombstoneExpires ==
    /\ tombstoneTimer
    /\ Terminated(tails)
    /\ UNCHANGED <<closed, unknown>>
QuarantineExpires ==
    /\ quarantined
    /\ Terminated(tails)
    /\ UNCHANGED <<closed, unknown>>

Close ==
    /\ ~closed
    /\ closed' = TRUE
    /\ TerminatedTo(IF child = NoChild THEN handshake ELSE "unknown", tails)
    /\ UNCHANGED unknown

-----------------------------------------------------------------------------
TransportInit ==
    /\ route = [i \in Ids |-> [stage |-> "idle", use |-> 0]]
    /\ waiting = {} /\ active = {} /\ slots = <<>>
    /\ child = NoChild /\ spawned = 0 /\ handshake = "unknown" /\ probes = 0
    /\ tails = [current |-> <<>>, retired |-> <<>>] /\ blocked = FALSE
    /\ tombstones = {} /\ tombstoneTimer = FALSE /\ quarantined = FALSE
    /\ owed = {} /\ closed = FALSE /\ unknown = 0

TransportNext ==
    \/ \E i \in Caller : \/ Request(i) \/ Negotiate(i) \/ Blocked(i) \/ AwaitSlot(i)
                         \/ Issue(i) \/ StreamOverflows(i) \/ Cancel(i)
    \/ \E i \in Ids : Timeout(i)
    \/ \E mode \in Modes : HelloAnswered(mode)
    \/ \E k \in {"current", "retired"} : WriteStart(k) \/ WriteRefused(k) \/ WriteSettles(k)
    \/ \E call \in owed : Answered(call)
    \/ UnknownAnswered \/ ChildEnds \/ TombstoneExpires \/ QuarantineExpires \/ Close

TransportSpec == TransportInit /\ [][TransportNext]_transportVars

\* Timers fire and microtasks run; nothing is assumed of the child or of stdin.
TransportFairness ==
    /\ \A i \in Ids : WF_transportVars(Timeout(i))
    /\ \A i \in Caller : /\ WF_transportVars(Negotiate(i)) /\ WF_transportVars(Blocked(i))
                         /\ WF_transportVars(AwaitSlot(i)) /\ WF_transportVars(Issue(i))
    /\ WF_transportVars(TombstoneExpires) /\ WF_transportVars(QuarantineExpires)
TransportFairSpec == TransportSpec /\ TransportFairness

-----------------------------------------------------------------------------
(* Properties *)

LineType == [id : Ids, use : Nat, gen : Nat, started : BOOLEAN]

\* Type correctness.
TransportTypeOK ==
    /\ route \in [Ids -> [stage : Routes, use : Nat]]
    /\ waiting \subseteq Caller /\ active \subseteq Ids /\ slots \in Seq(Caller)
    /\ child \in 0..MaxChildren /\ spawned \in 0..MaxChildren
    /\ handshake \in {"unknown", "ready", "single", "blocked"} /\ probes \in 0..2
    /\ tails \in [{"current", "retired"} -> Seq(LineType)]
    /\ tombstones \subseteq [id : Ids, use : Nat]
    /\ {blocked, tombstoneTimer, quarantined, closed} \subseteq BOOLEAN
    /\ owed \subseteq [id : Ids, use : Nat]
    /\ unknown \in 0..MaxUnknown

\* Every terminal, cancellation, timeout, failed write and recycle gives its place
\* back: what is charged against maxInFlight is what is alive, so that a transport
\* cannot fill up with calls that are over.
AdmissionsAreLive ==
    /\ waiting = {i \in Caller : \/ route[i].stage = "handshake"
                                 \/ route[i].stage = "slot" /\ i \in Streams}
    /\ active = {i \in Ids : \/ Pending(i)
                             \/ route[i].stage = "slot" /\ i \notin Streams}
    /\ Range(slots) \subseteq {i \in Caller : ~Idle(i)}
    /\ Load <= MaxInFlight

\* Callers never take the place the next request of the handshake needs, before it
\* begins or between the probes of a legacy backend.
HelloHasRoom ==
    handshake = "unknown" => Cardinality((waiting \cup active) \ {Control}) < MaxInFlight

\* An answer that is still to come finds its own call, or a tombstone that drains
\* it: it is never taken for unknown, which would recycle a healthy child, nor given
\* to a later use of its id.
LateAnswersGuarded ==
    \A call \in owed : \/ Pending(call.id) /\ route[call.id].use = call.use
                       \/ Entombed(call)

\* "rather than being guessed into an active route": whatever ids callers choose, an
\* answer is not given to another call.
NoGuessedRoute ==
    \A call \in owed : Routed(call) => route[call.id].use = call.use

\* A call that was cancelled, timed out or rejected while its line was queued is not
\* written later, under whatever id it or another call goes.
EndedIsNeverWritten ==
    [][\A call \in owed' \ owed : Pending(call.id) /\ route[call.id].use = call.use]_transportVars

\* Replacing children whose stdin has not called back costs a bounded amount: the
\* lines of old and new generations together stay within the write queue's limit, and
\* are of at most two generations: one detached, and one that keeps the transport from
\* starting a third.  The refusal is lifted with the last of them.
WritesBounded ==
    /\ Queued <= WriteQueueLimit
    /\ Cardinality({l.gen : l \in Lines}) <= 2
    /\ blocked => Lines # {} /\ child = NoChild

\* "compatible older backends remain single-flight": such a backend has one caller's
\* request at a time.
OneAtSingleFlightBackend ==
    SingleFlight => Cardinality({call \in owed : call.id # Control}) <= 1

\* Every call ends, whatever the child and stdin do.
CallsSettle == \A i \in Caller : ~Idle(i) ~> Idle(i)

\* A tombstone is temporary: its id becomes usable again.
TombstonesGo == \A i \in Caller : Entombed(Call(i)) ~> ~Entombed(Call(i))
=============================================================================
