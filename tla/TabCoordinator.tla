---------------------------- MODULE TabCoordinator ----------------------------
(***************************************************************************)
(* The process-local scheduler of one browser (runtime/tab-coordinator.ts):*)
(* a ResourceActor per tab and one for the browser, each running a single  *)
(* callback at a time, and the BrowserGate above them, which lets either   *)
(* one browser callback or any number of tab callbacks touch the browser.  *)
(*                                                                         *)
(* A request is a slot that is used again when it is settled, so requests  *)
(* never stop coming.  Callers may abort a request, and its deadline may   *)
(* pass, at any moment: a queued one is dropped, one in flight is answered *)
(* at once while its callback keeps the actor until it settles             *)
(* ("quarantined").  Both drains are microtasks and so steps of their own. *)
(* removeExpiredQueued is the deadline of a queued request passing before  *)
(* the drain.                                                              *)
(***************************************************************************)
EXTENDS Integers, Sequences, SequencesExt, FiniteSets

CONSTANTS
    Request,        \* slots for requests
    Tab,            \* tab resources
    Browser,        \* the browser resource
    Nobody,
    Priority,       \* priorities in use, a subset of read, mutation, control
    Gates,          \* identities of successive BrowserGate objects
    MaxQueueSize, MaxConsecutiveReads, MaxConsecutiveMutations,
    MaxConsecutiveControls, MaxConsecutiveExclusives,
    Aging,          \* whether requests wait for as long as maxWaitMs
    MaxCancels      \* bound: requests aborted or past their deadline

Resource == Tab \cup {Browser}

ASSUME CoordinatorAssumption ==
    /\ Browser \notin Tab /\ Nobody \notin Request /\ Nobody \notin Gates
    /\ IsFiniteSet(Request) /\ Gates # {}
    /\ Priority \subseteq {"read", "mutation", "control"}
    /\ {MaxQueueSize, MaxConsecutiveReads, MaxConsecutiveMutations,
        MaxConsecutiveControls, MaxConsecutiveExclusives} \subseteq Nat \ {0}
    /\ Aging \in BOOLEAN /\ MaxCancels \in Nat

VARIABLES
    req,          \* the request in each slot
    actors,       \* resources with an actor in browserActors or tabActors
    queue, active, actorDrain, consecutive,  \* of each actor
    gate,         \* the gate in browserGates
    gates,        \* the state of each gate
    cancels

actorVars == <<actors, queue, active, actorDrain, consecutive>>
coordVars == <<req, actorVars, gate, gates, cancels>>

\* stage: where it is; gate: the one its admission closes over; failed: inFlightError,
\* it was cancelled after it started; aged: it has waited for maxWaitMs; awaitedBy:
\* the request whose callback waits for it.  History: overtaken, the exclusive turns
\* granted while it waited at the gate.
Stages == {"idle", "queued", "atGate", "rejected", "granted", "running"}
Requested(a, p, g, parent) ==
    [stage |-> "queued", on |-> a, priority |-> p, gate |-> g, failed |-> FALSE,
     aged |-> FALSE, awaitedBy |-> parent, overtaken |-> 0]
NoRequest == [Requested(Browser, "read", Nobody, Nobody) EXCEPT !.stage = "idle"]

-----------------------------------------------------------------------------
(* Gates *)

\* queued: reserved or started waiters; started: those their actor has begun.
EmptyGate == [queued |-> {}, started |-> {}, shared |-> {}, exclusive |-> {},
              accepted |-> 0, pending |-> 0, turns |-> 0, drain |-> FALSE]

IsExclusive(r) == req[r].on = Browser
ExclusiveOf(S) == {r \in S : IsExclusive(r)}
SharedOf(S) == {r \in S : ~IsExclusive(r)}

\* Mutant of GateIdle: reservations of requests still queued at their tab are not
\* counted.
GateIdleUnreserved(g) == g.queued = {} /\ g.exclusive = {} /\ g.shared = {}

GateIdle(g) ==
    g.queued = {} /\ g.exclusive = {} /\ g.shared = {} /\ g.accepted = 0
GateLoad(g) == Cardinality(g.queued) + g.pending

\* onAccepted: a browser request reserves its turn at once, a tab request a count.
Accepted(g, r, a) ==
    IF a = Browser THEN [g EXCEPT !.queued = @ \cup {r}]
    ELSE [g EXCEPT !.accepted = @ + 1, !.pending = @ + 1]

\* onStarted: reserve (for a tab) and start.
Started(g, r) ==
    [g EXCEPT !.queued = @ \cup {r}, !.started = @ \cup {r}, !.drain = TRUE,
              !.pending = IF IsExclusive(r) THEN @ ELSE @ - 1]

\* Mutant of Withdrawn: the gate is not drained again, so that tabs which waited
\* behind a browser request go on waiting when it is cancelled.
WithdrawnSilently(g, r) == [g EXCEPT !.queued = @ \ {r}, !.started = @ \ {r}]

\* cancel of a waiter that has no lease.
Withdrawn(g, r) ==
    [g EXCEPT !.queued = @ \ {r}, !.started = @ \ {r}, !.drain = TRUE]

\* onAbandoned, of a request that was accepted and has not started.
Abandoned(g, r) ==
    IF IsExclusive(r) THEN Withdrawn(g, r)
    ELSE [g EXCEPT !.accepted = @ - 1, !.pending = @ - 1]

\* The lease, if there is one, and onSettled.
SettledAt(g, r) ==
    [g EXCEPT !.shared = @ \ {r}, !.exclusive = @ \ {r},
              !.drain = @ \/ r \in g.shared \cup g.exclusive,
              !.accepted = IF IsExclusive(r) THEN @ ELSE @ - 1]

\* Mutants of Grants: an exclusive turn does not wait for the tabs to finish; tabs
\* do not wait for a browser request that is only reserved; exclusive turns are
\* not limited.
GrantsEagerly(g) ==
    IF g.exclusive # {} THEN {}
    ELSE IF ExclusiveOf(g.started) # {} THEN ExclusiveOf(g.started)
    ELSE IF ExclusiveOf(g.queued) # {} THEN {} ELSE SharedOf(g.started)
GrantsUnlimited(g) ==
    IF g.exclusive # {} \/ (g.shared # {} /\ ExclusiveOf(g.queued) # {}) THEN {}
    ELSE IF ExclusiveOf(g.started) # {} /\ g.shared = {} THEN ExclusiveOf(g.started)
    ELSE IF ExclusiveOf(g.queued) # {} THEN {} ELSE SharedOf(g.started)

\* drain: whom it grants.
Grants(g) ==
    IF g.exclusive # {} \/ (g.shared # {} /\ ExclusiveOf(g.queued) # {}) THEN {}
    ELSE IF SharedOf(g.started) # {} /\ g.turns >= MaxConsecutiveExclusives
         THEN SharedOf(g.started)
    ELSE IF ExclusiveOf(g.started) # {} /\ g.shared = {} THEN ExclusiveOf(g.started)
    ELSE IF ExclusiveOf(g.queued) # {} THEN {} ELSE SharedOf(g.started)

\* consecutiveExclusive afterwards; only a forced batch of tabs resets it.  It is
\* capped at the bound it is compared with.
TurnsAfter(g) ==
    IF ExclusiveOf(Grants(g)) # {}
    THEN IF g.turns < MaxConsecutiveExclusives THEN g.turns + 1 ELSE g.turns
    ELSE IF Grants(g) # {} /\ g.turns >= MaxConsecutiveExclusives THEN 0 ELSE g.turns

-----------------------------------------------------------------------------
(* Actors *)

NoTurns == [p \in Priority |-> 0]
Limit == [p \in Priority |->
    CASE p = "read" -> MaxConsecutiveReads [] p = "mutation" -> MaxConsecutiveMutations
      [] p = "control" -> MaxConsecutiveControls]

Waiting(a, p) == {r \in Range(queue[a]) : req[r].priority = p}
AgedOf(a) == {r \in Range(queue[a]) : req[r].aged}
Has(a, p) == Waiting(a, p) # {}

\* The first of the requests S in the queue, and the queue without one request.
FirstOf(a, S) ==
    LET at == {i \in DOMAIN queue[a] : queue[a][i] \in S}
    IN  queue[a][CHOOSE i \in at : \A j \in at : i <= j]
Without(a, r) == RemoveAt(queue[a], CHOOSE i \in DOMAIN queue[a] : queue[a][i] = r)
Turns(a, p) == IF p \in Priority THEN consecutive[a][p] ELSE 0

\* selectNext, of a queue with no aged request.
ByPriority(a) ==
    IF Has(a, "control")
       /\ (~Has(a, "mutation") \/ Turns(a, "control") < MaxConsecutiveControls)
    THEN "control"
    ELSE IF /\ Has(a, "mutation")
            /\ \/ ~Has(a, "read")
               \/ /\ Turns(a, "read") >= MaxConsecutiveReads
                  /\ Turns(a, "mutation") < MaxConsecutiveMutations
    THEN "mutation"
    ELSE IF Has(a, "read") THEN "read"
    ELSE IF Has(a, "mutation") THEN "mutation" ELSE "control"

\* Mutant of NextOf: requests are never selected by age.
NextUnaged(a) == FirstOf(a, Waiting(a, ByPriority(a)))

\* selectNext: the oldest aged request, else the first of the chosen priority.
NextOf(a) ==
    FirstOf(a, IF AgedOf(a) # {} THEN AgedOf(a) ELSE Waiting(a, ByPriority(a)))

\* recordSelection, each count capped at the bound it is compared with.
Recorded(counts, p) ==
    [q \in Priority |-> IF q # p THEN 0
                        ELSE IF counts[q] < Limit[q] THEN counts[q] + 1 ELSE counts[q]]

\* notifyIfIdle, onActorIdle and maybeCleanupGate, given the gate g that changed to
\* rec: an idle tab actor goes, and with the last work of the gate the browser's
\* actor and the gate itself.
Reclaim(a, g, rec) ==
    LET idle(b) == queue'[b] = <<>> /\ active'[b] = Nobody
        after == [gates EXCEPT ![g] = rec]
        free == gate # Nobody /\ GateIdle(after[gate]) /\ idle(Browser)
        gone == (IF idle(a) /\ a # Browser THEN {a} ELSE {})
                \cup (IF idle(a) /\ free THEN {Browser} ELSE {})
    IN  /\ gates' = after
        /\ actors' = actors \ gone
        /\ consecutive' = [b \in Resource |-> IF b \in gone THEN NoTurns ELSE consecutive[b]]
        /\ gate' = IF idle(a) /\ free THEN Nobody ELSE gate

-----------------------------------------------------------------------------
(* Requests *)

\* enqueue of the coordinator rejects a nested acquisition of any actor.
MayAcquire(parent) == parent = Nobody

Live(r) == req[r].stage # "idle"
InFlight(r) == req[r].stage \in {"atGate", "granted", "running"}
Unused(g) == g # gate /\ \A r \in Request : req[r].gate # g
\* getBrowserGate.
GateHere == IF gate # Nobody THEN gate ELSE CHOOSE g \in Gates : Unused(g)

\* enqueue; parent is the request whose callback it is called from.
Enqueue(r, a, p, parent) ==
    /\ ~Live(r)
    /\ parent # Nobody => req[parent].stage = "running"
    /\ MayAcquire(parent)
    /\ Len(queue[a]) < MaxQueueSize
    /\ LET g == GateHere
           here == IF gate = Nobody THEN EmptyGate ELSE gates[gate]
       IN  /\ GateLoad(here) < MaxQueueSize
           /\ gate' = g
           /\ gates' = [gates EXCEPT ![g] = Accepted(here, r, a)]
           /\ req' = [req EXCEPT ![r] = Requested(a, p, g, parent)]
    /\ actors' = actors \cup {a}
    /\ queue' = [queue EXCEPT ![a] = Append(@, r)]
    /\ actorDrain' = [actorDrain EXCEPT ![a] = @ \/ active[a] = Nobody]
    /\ UNCHANGED <<active, consecutive, cancels>>

\* enqueue of a request that is aborted or past its deadline already, or for which
\* the actor's queue or the gate has no room.  An actor or gate created for it goes
\* again, but a browser actor stays while its gate is in use.
Refuse ==
    /\ gate # Nobody /\ ~GateIdle(gates[gate])
    /\ actors' = actors \cup {Browser}
    /\ UNCHANGED <<req, queue, active, actorDrain, consecutive, gate, gates, cancels>>

Cancelled == cancels < MaxCancels /\ cancels' = cancels + 1

\* handleAbort and handleDeadline of a request that has not started.
CancelQueued(r) ==
    /\ req[r].stage = "queued"
    /\ Cancelled
    /\ req' = [req EXCEPT ![r] = NoRequest]
    /\ queue' = [queue EXCEPT ![req[r].on] = Without(req[r].on, r)]
    /\ actorDrain' = [actorDrain EXCEPT ![req[r].on] = @ \/ active[req[r].on] = Nobody]
    /\ UNCHANGED active
    /\ Reclaim(req[r].on, req[r].gate, Abandoned(gates[req[r].gate], r))

\* Mutant of CancelInFlight: a request waiting at the gate keeps its place there.
CancelKeepingPlace(r) ==
    /\ InFlight(r) /\ ~req[r].failed
    /\ Cancelled
    /\ req' = [req EXCEPT ![r].failed = TRUE,
                          ![r].stage = IF @ = "atGate" THEN "rejected" ELSE @]
    /\ UNCHANGED <<actorVars, gate, gates>>

\* handleAbort and handleDeadline of a request in flight: its caller is answered,
\* the signal withdraws it from the gate, and a callback that runs goes on.
CancelInFlight(r) ==
    /\ InFlight(r) /\ ~req[r].failed
    /\ Cancelled
    /\ req' = [req EXCEPT ![r].failed = TRUE,
                          ![r].stage = IF @ = "atGate" THEN "rejected" ELSE @]
    /\ gates' = IF req[r].stage # "atGate" THEN gates
                ELSE [gates EXCEPT ![req[r].gate] = Withdrawn(@, r)]
    /\ UNCHANGED <<actorVars, gate>>

\* The oldest request that has not waited for maxWaitMs has.
Age(r) ==
    /\ Aging
    /\ req[r].stage = "queued" /\ ~req[r].aged
    /\ LET a == req[r].on IN r = FirstOf(a, Range(queue[a]) \ AgedOf(a))
    /\ req' = [req EXCEPT ![r].aged = TRUE]
    /\ UNCHANGED <<actorVars, gate, gates, cancels>>

\* drain of an actor, and the admission's onStarted.
StartNext(a) ==
    /\ actorDrain[a]
    /\ actorDrain' = [actorDrain EXCEPT ![a] = FALSE]
    /\ IF active[a] # Nobody \/ queue[a] = <<>>
       THEN UNCHANGED <<req, queue, active, consecutive, gates>>
       ELSE LET r == NextOf(a)
            IN  /\ req' = [req EXCEPT ![r].stage = "atGate"]
                /\ queue' = [queue EXCEPT ![a] = Without(a, r)]
                /\ active' = [active EXCEPT ![a] = r]
                /\ consecutive' = [consecutive EXCEPT ![a] = Recorded(@, req[r].priority)]
                /\ gates' = [gates EXCEPT ![req[r].gate] = Started(@, r)]
    /\ UNCHANGED <<actors, gate, cancels>>

\* drain of a gate.
GateDrain(g) ==
    /\ gates[g].drain
    /\ LET granted == Grants(gates[g])
           bypassed == IF ExclusiveOf(granted) # {} THEN SharedOf(gates[g].started) ELSE {}
       IN  /\ gates' = [gates EXCEPT ![g] =
                [gates[g] EXCEPT !.drain = FALSE, !.turns = TurnsAfter(gates[g]),
                          !.queued = @ \ granted, !.started = @ \ granted,
                          !.shared = @ \cup SharedOf(granted),
                          !.exclusive = @ \cup ExclusiveOf(granted)]]
           /\ req' = [r \in Request |->
                [req[r] EXCEPT !.stage = IF r \in granted THEN "granted" ELSE @,
                               !.overtaken = IF r \in bypassed THEN @ + 1 ELSE @]]
    /\ UNCHANGED <<actorVars, gate, cancels>>

\* The lease arrives in execute, which calls the callback, cancelled or not.
CallBack(r) ==
    /\ req[r].stage = "granted"
    /\ req' = [req EXCEPT ![r].stage = "running"]
    /\ UNCHANGED <<actorVars, gate, gates, cancels>>

\* The end of execute: the callback settled, or the gate rejected the request.
Settle(r) ==
    /\ req[r].stage \in {"running", "rejected"}
    /\ \A s \in Request : req[s].awaitedBy # r
    /\ req' = [req EXCEPT ![r] = NoRequest]
    /\ active' = [active EXCEPT ![req[r].on] = Nobody]
    /\ actorDrain' = [actorDrain EXCEPT ![req[r].on] = TRUE]
    /\ UNCHANGED <<queue, cancels>>
    /\ Reclaim(req[r].on, req[r].gate, SettledAt(gates[req[r].gate], r))

-----------------------------------------------------------------------------
CoordInit ==
    /\ req = [r \in Request |-> NoRequest]
    /\ actors = {}
    /\ queue = [a \in Resource |-> <<>>] /\ active = [a \in Resource |-> Nobody]
    /\ actorDrain = [a \in Resource |-> FALSE]
    /\ consecutive = [a \in Resource |-> NoTurns]
    /\ gate = Nobody /\ gates = [g \in Gates |-> EmptyGate]
    /\ cancels = 0

CoordNext ==
    \/ \E r \in Request :
        \/ \E a \in Resource, p \in Priority, parent \in Request \cup {Nobody} :
              Enqueue(r, a, p, parent)
        \/ CancelQueued(r) \/ CancelInFlight(r) \/ Age(r)
        \/ CallBack(r) \/ Settle(r)
    \/ Refuse
    \/ \E a \in Resource : StartNext(a)
    \/ \E g \in Gates : GateDrain(g)

CoordSpec == CoordInit /\ [][CoordNext]_coordVars

\* Microtasks run, time passes, and callbacks settle: the class asks of its callers
\* that a callback performs one short browser operation.
CoordFairness ==
    /\ \A r \in Request : WF_coordVars(Age(r)) /\ WF_coordVars(CallBack(r))
                           /\ WF_coordVars(Settle(r))
    /\ \A a \in Resource : WF_coordVars(StartNext(a))
    /\ \A g \in Gates : WF_coordVars(GateDrain(g))
CoordFairSpec == CoordSpec /\ CoordFairness

-----------------------------------------------------------------------------
(* Properties *)

RequestType ==
    [stage : Stages, on : Resource, priority : Priority \cup {"read"},
     gate : Gates \cup {Nobody}, failed : BOOLEAN, aged : BOOLEAN,
     awaitedBy : Request \cup {Nobody}, overtaken : Nat]
GateType ==
    [queued : SUBSET Request, started : SUBSET Request, shared : SUBSET Request,
     exclusive : SUBSET Request, accepted : Nat, pending : Nat,
     turns : 0..MaxConsecutiveExclusives, drain : BOOLEAN]

\* Type correctness; the reservation counts never go below zero.
CoordTypeOK ==
    /\ req \in [Request -> RequestType]
    /\ actors \subseteq Resource
    /\ queue \in [Resource -> Seq(Request)]
    /\ active \in [Resource -> Request \cup {Nobody}]
    /\ actorDrain \in [Resource -> BOOLEAN]
    /\ consecutive \in [Resource -> [Priority -> Nat]]
    /\ gate \in Gates \cup {Nobody}
    /\ gates \in [Gates -> GateType]
    /\ cancels \in 0..MaxCancels

\* While a callback may touch the browser, cancelled or not, no other callback of
\* its tab does, and a browser callback is alone with the browser.
Using(r) == req[r].stage \in {"granted", "running"}
BrowserExclusive ==
    \A r, s \in Request : Using(r) /\ Using(s) /\ r # s =>
        req[r].on # req[s].on /\ Browser \notin {req[r].on, req[s].on}

\* The gate in the registry is the one every live request was admitted to: it is
\* never replaced under requests that still hold a closure over it.
OneGate == \A r \in Request : Live(r) => req[r].gate = gate

\* Every lease and every place in the gate's queue belongs to a request that will
\* give it back, and the reservation counts are those of the tab requests alive; a
\* gate that drifted would stay busy, or full, for good.
GateMatchesRequests ==
    \A g \in Gates :
        LET at(S) == {r \in Request : req[r].gate = g /\ req[r].stage \in S}
        IN  /\ gates[g].shared \cup gates[g].exclusive = at({"granted", "running"})
            /\ gates[g].started = at({"atGate"})
            /\ gates[g].queued = at({"atGate"}) \cup ExclusiveOf(at({"queued"}))
            /\ gates[g].pending = Cardinality(SharedOf(at({"queued"})))
            /\ gates[g].accepted = Cardinality(SharedOf(at(Stages \ {"idle"})))
            /\ GateLoad(gates[g]) <= MaxQueueSize

\* A tab that waits at the gate sees at most maxConsecutiveBrowserExclusives
\* browser turns before its own.
BypassBounded == \A r \in Request : req[r].overtaken <= MaxConsecutiveExclusives

\* Every accepted request is settled in the end: no mix of priorities, of browser and
\* tab turns and of deadlines and aborts that race a grant starves one, and no two
\* wait for each other.  (A slot is free again and again: the same as that its
\* requests, each live until it is settled, all lead to that.)
RequestsSettle == \A r \in Request : []<>~Live(r)

\* "Maximum consecutive controls before a waiting mutation is selected."
ControlsYieldToMutations ==
    [][\A a \in Resource :
          /\ active[a] = Nobody /\ active'[a] # Nobody
          /\ AgedOf(a) = {} /\ Has(a, "mutation")
          /\ Turns(a, "control") >= MaxConsecutiveControls
          => req[active'[a]].priority = "mutation"]_coordVars
=============================================================================
