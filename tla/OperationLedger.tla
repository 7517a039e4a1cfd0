--------------------------- MODULE OperationLedger ---------------------------
(***************************************************************************)
(* The durable state of one transactional operation and the events the     *)
(* journal accepts for it (operations/state-machine.ts).  The journal is   *)
(* an append-only log; every append is reduced against the whole committed *)
(* prefix under the operation lock, so one append is one atomic step here. *)
(*                                                                         *)
(* Digests, timestamps and provider identities are abstracted: an action   *)
(* of this module carries the digests of its own operation and target.     *)
(* What is kept is the control: phases and their legal edges, the action   *)
(* ledger (intent, then at most one receipt), the mutation boundary, the   *)
(* life of the target binding, and the ownership proof of a Send or a Work *)
(* steer (the baseline taken before it, the witness observed after it).    *)
(***************************************************************************)
EXTENDS Integers, FiniteSets

CONSTANT ActionId        \* identities of the actions an operation may record
CONSTANT NoAction        \* "no causal action named"

ASSUME NoActionAssumption == NoAction \notin ActionId

VARIABLES
    phase,               \* OperationPhase
    mutationBoundary,    \* MutationBoundary
    target,              \* life of the immutable target binding
    actions,             \* the action ledger
    ownershipBaselines,  \* actions with a durable baseline
    submissionWitnesses, \* actions with a durable witness
    receipt,             \* the terminal receipt: absent, or its content state
    capturePolicy,       \* immutable artifact policy of the request
    intentRevision       \* rank of the latest intent in the log

ledgerVars == <<phase, mutationBoundary, target, actions, ownershipBaselines,
                submissionWitnesses, receipt, capturePolicy, intentRevision>>

-----------------------------------------------------------------------------
Phases == {"prepared", "handoff_pending", "ready", "send_pending",
           "submitted", "generating", "capturing", "completed", "uncertain"}

OwnedPhases == {"submitted", "generating", "capturing", "completed"}

Boundaries == {"none", "handoff", "send", "control"}
BoundaryRank == [b \in Boundaries |->
                    CASE b = "none" -> 0 [] b = "handoff" -> 1
                      [] b = "send" -> 2 [] b = "control" -> 3]

\* configuration_set stands for the four set-to-value staging kinds and
\* local_output_commit for the local effects of capture; read-only kinds leave
\* no trace that any rule reads.
Kinds == {"configuration_set", "file_handoff", "send", "work_steer", "stop",
          "local_output_commit"}
Outcomes == {"satisfied", "not_satisfied", "uncertain"}

TargetLives == {"unbound", "fixed", "new_pending", "new_established"}
ReceiptStates == {"absent", "content_available", "content_expired"}

LegalEdges ==
    [p \in Phases |->
        CASE p = "prepared"        -> {"handoff_pending", "ready", "uncertain"}
          [] p = "handoff_pending" -> {"ready", "uncertain"}
          [] p = "ready"           -> {"send_pending", "uncertain"}
          [] p = "send_pending"    -> {"submitted", "uncertain"}
          [] p = "submitted"       -> {"generating", "capturing", "uncertain"}
          [] p = "generating"      -> {"capturing", "uncertain"}
          [] p = "capturing"       -> {"uncertain"}
          [] p = "completed"       -> {}
          [] p = "uncertain"       -> {"ready", "submitted", "generating",
                                       "capturing"}]

ActionPhase ==
    [k \in Kinds |->
        CASE k \in {"configuration_set", "file_handoff"} -> "prepared"
          [] k = "send"                                  -> "ready"
          [] k \in {"work_steer", "stop"}                -> "generating"
          [] k = "local_output_commit"                   -> "capturing"]

\* Mutant of SingleIntentKinds: a second Send is not refused.
HandoffOnlySingle == {"file_handoff"}

SingleIntentKinds == {"file_handoff", "send"}
OwnershipKinds == {"send", "work_steer"}

BoundaryForAction ==
    [k \in Kinds |->
        CASE k = "file_handoff"           -> "handoff"
          [] k = "send"                   -> "send"
          [] k \in {"work_steer", "stop"} -> "control"
          [] OTHER                        -> "none"]

\* Mutant of Intended: an intent is born with an outcome no receipt writes.
IntendedPending(k, n) == [kind |-> k, outcome |-> "pending", order |-> n]

Absent == [kind |-> "absent", outcome |-> "none", order |-> 0]
Intended(k, n) == [kind |-> k, outcome |-> "none", order |-> n]
ActionRecords == [kind: Kinds \cup {"absent"}, outcome: Outcomes \cup {"none"},
                  order: Nat]

Recorded == {a \in ActionId : actions[a].kind # "absent"}
OfKind(k) == {a \in ActionId : actions[a].kind = k}
OfKinds(K) == {a \in ActionId : actions[a].kind \in K}

HigherBoundary(b, c) == IF BoundaryRank[c] > BoundaryRank[b] THEN c ELSE b

-----------------------------------------------------------------------------
(* Guards of the reducer *)

\* requireDurableOriginalSendOwnership: the one original Send is satisfied and
\* carries both halves of its ownership proof.
OwnedSend ==
    \E s \in OfKind("send") :
        /\ OfKind("send") = {s}
        /\ actions[s].outcome = "satisfied"
        /\ s \in ownershipBaselines
        /\ s \in submissionWitnesses

CauseIs(cause, k, outcomes) ==
    /\ cause # NoAction
    /\ actions[cause].kind = k
    /\ actions[cause].outcome \in outcomes

\* Mutant of CausedTransition: uncertain is left on a Send's receipt only.
SendOnlyTransition(to, cause, evidence) ==
    /\ phase = "uncertain" => CauseIs(cause, "send", {"satisfied"})
    /\ to = "handoff_pending" =>
         CauseIs(cause, "file_handoff", {"none"}) /\ mutationBoundary = "handoff"
    /\ to = "send_pending" =>
         CauseIs(cause, "send", {"none"}) /\ mutationBoundary = "send"
    /\ to = "submitted" => CauseIs(cause, "send", {"satisfied"}) /\ OwnedSend
    /\ to = "ready" => evidence
    /\ to \in {"generating", "capturing"} => evidence /\ OwnedSend

\* assertCausalTransition
CausedTransition(to, cause, evidence) ==
    /\ phase = "uncertain" =>
         /\ cause # NoAction
         /\ actions[cause].outcome = "satisfied"
         /\ to = "ready" => actions[cause].kind = "file_handoff"
         /\ to \in {"generating", "capturing"} => actions[cause].kind = "send"
    /\ to = "handoff_pending" =>
         /\ CauseIs(cause, "file_handoff", {"none"})
         /\ mutationBoundary = "handoff"
    /\ to = "send_pending" =>
         /\ CauseIs(cause, "send", {"none"})
         /\ mutationBoundary = "send"
    /\ to = "submitted" => CauseIs(cause, "send", {"satisfied"}) /\ OwnedSend
    /\ to = "ready" /\ phase = "prepared" => evidence
    /\ to = "ready" /\ phase = "handoff_pending" =>
         CauseIs(cause, "file_handoff", {"satisfied"}) /\ evidence
    /\ to \in {"generating", "capturing"} => evidence /\ OwnedSend

\* applyPhaseChange
CanChangePhase(to, cause, evidence) ==
    /\ target = "unbound" => to = "uncertain"
    /\ target = "new_pending" => to \notin OwnedPhases
    /\ to \in LegalEdges[phase]
    /\ cause \in Recorded \cup {NoAction}
    /\ CausedTransition(to, cause, evidence)

\* applyActionIntent
CanIntend(a, k) ==
    /\ a \notin Recorded
    /\ phase = ActionPhase[k]
    /\ target # "unbound"
    /\ k \in SingleIntentKinds => OfKind(k) = {}

\* applyActionReceipt
CanReceipt(a) ==
    /\ a \in Recorded
    /\ actions[a].outcome = "none"

\* Mutant of CanWitness: a witness before the new conversation has an identity.
CanWitnessEarly(a) ==
    /\ actions[a].kind \in OwnershipKinds
    /\ actions[a].outcome \in {"none", "satisfied"}
    /\ a \in ownershipBaselines
    /\ target # "unbound"

\* validateSubmissionWitnessValues
CanWitness(a) ==
    /\ actions[a].kind \in OwnershipKinds
    /\ actions[a].outcome \in {"none", "satisfied"}
    /\ a \in ownershipBaselines
    /\ target \notin {"unbound", "new_pending"}

\* establishTarget
CanEstablish(a) ==
    /\ target = "new_pending"
    /\ actions[a].kind = "send"
    /\ actions[a].outcome # "not_satisfied"
    /\ phase \notin {"prepared", "handoff_pending", "completed"}

-----------------------------------------------------------------------------
(* The events of the journal *)

LedgerInit ==
    /\ phase = "prepared"
    /\ mutationBoundary = "none"
    /\ target = "unbound"
    /\ actions = [a \in ActionId |-> Absent]
    /\ ownershipBaselines = {}
    /\ submissionWitnesses = {}
    /\ receipt = "absent"
    /\ capturePolicy \in {"receipt_only", "transfer"}
    /\ intentRevision = 0

\* target_bound: the binding is immutable, and a new target starts pending.
TargetBound(life) ==
    /\ target = "unbound"
    /\ life \in {"fixed", "new_pending"}
    /\ target' = life
    /\ UNCHANGED <<phase, mutationBoundary, actions, ownershipBaselines,
                   submissionWitnesses, receipt, capturePolicy, intentRevision>>

\* target_established
TargetEstablished(a) ==
    /\ CanEstablish(a)
    /\ target' = "new_established"
    /\ UNCHANGED <<phase, mutationBoundary, actions, ownershipBaselines,
                   submissionWitnesses, receipt, capturePolicy, intentRevision>>

Intend(a, k) ==
    /\ CanIntend(a, k)
    /\ actions' = [actions EXCEPT ![a] = Intended(k, intentRevision + 1)]
    /\ intentRevision' = intentRevision + 1
    /\ mutationBoundary' = HigherBoundary(mutationBoundary, BoundaryForAction[k])

\* action_intent
ActionIntent(a, k) ==
    /\ Intend(a, k)
    /\ UNCHANGED <<phase, target, ownershipBaselines, submissionWitnesses,
                   receipt, capturePolicy>>

\* action_prepared: the intent and its ownership baseline in one event.
ActionPrepared(a, k) ==
    /\ k \in OwnershipKinds
    /\ Intend(a, k)
    /\ ownershipBaselines' = ownershipBaselines \cup {a}
    /\ UNCHANGED <<phase, target, submissionWitnesses, receipt, capturePolicy>>

\* artifact_transfer_intent
ArtifactTransferIntent(a) ==
    /\ capturePolicy = "transfer"
    /\ ActionIntent(a, "local_output_commit")

\* action_receipt and artifact_transfer_receipt (the latter while capturing)
ActionReceipt(a, outcome) ==
    /\ CanReceipt(a)
    /\ actions[a].kind = "local_output_commit" => phase = "capturing"
    /\ actions' = [actions EXCEPT ![a].outcome = outcome]
    /\ UNCHANGED <<phase, mutationBoundary, target, ownershipBaselines,
                   submissionWitnesses, receipt, capturePolicy, intentRevision>>

\* submission_witness (repeating one is an idempotent confirmation)
SubmissionWitness(a) ==
    /\ CanWitness(a)
    /\ submissionWitnesses' = submissionWitnesses \cup {a}
    /\ UNCHANGED <<phase, mutationBoundary, target, actions,
                   ownershipBaselines, receipt, capturePolicy, intentRevision>>

\* phase_changed
PhaseChanged(to, cause, evidence) ==
    /\ CanChangePhase(to, cause, evidence)
    /\ phase' = to
    /\ UNCHANGED <<mutationBoundary, target, actions, ownershipBaselines,
                   submissionWitnesses, receipt, capturePolicy, intentRevision>>

\* receipt_completed: under the transfer policy every transfer is settled, and
\* under receipt_only there is none.
ReceiptCompleted(content) ==
    /\ phase \in {"capturing", "uncertain"}
    /\ receipt = "absent"
    /\ target \notin {"unbound", "new_pending"}
    /\ OwnedSend
    /\ \A a \in OfKind("local_output_commit") :
          capturePolicy = "transfer" /\ actions[a].outcome # "none"
    /\ phase' = "completed"
    /\ receipt' = content
    /\ UNCHANGED <<mutationBoundary, target, actions, ownershipBaselines,
                   submissionWitnesses, capturePolicy, intentRevision>>

\* content_availability_changed: once, from available to unavailable.
ContentExpired ==
    /\ phase = "completed"
    /\ receipt = "content_available"
    /\ receipt' = "content_expired"
    /\ UNCHANGED <<phase, mutationBoundary, target, actions,
                   ownershipBaselines, submissionWitnesses, capturePolicy, intentRevision>>

-----------------------------------------------------------------------------
(* What the service and the control engine append *)

\* The receipts persistSubmissionEvidence, persistControlReceipt and the
\* transfer journal write.  The reducer would take any outcome; the callers
\* make a Send or a satisfied steer durable only behind its witness, a rejected
\* steer only without one, and a handoff only when its manifest is exact.  (The
\* one way round this, a steer called twice of which one call is rejected while
\* the other takes a foreign turn for its own, is shown by OperationService.)
ReceiptWritten(a, outcome) ==
    CASE actions[a].kind = "file_handoff" -> outcome = "satisfied"
      [] actions[a].kind = "send" ->
            outcome = "satisfied" /\ a \in submissionWitnesses
      [] actions[a].kind = "work_steer" ->
            \/ outcome = "satisfied" /\ a \in submissionWitnesses
            \/ outcome = "not_satisfied" /\ a \notin submissionWitnesses
      [] OTHER -> TRUE

\* appendPhaseConvergent is asked for "uncertain" only past a mutation
\* boundary (persistSubmissionEvidence, persistProgress).
PhaseWritten(to) == to = "uncertain" => mutationBoundary # "none"

\* The order the convergent appends compare phases by (phaseReached).
PhaseOrder ==
    [x \in Phases \ {"uncertain"} |->
        CASE x = "prepared" -> 0  [] x = "handoff_pending" -> 1
          [] x = "ready" -> 2     [] x = "send_pending" -> 3
          [] x = "submitted" -> 4 [] x = "generating" -> 5
          [] x = "capturing" -> 6 [] x = "completed" -> 7]

PhaseReached(current, desired) ==
    \/ current = desired
    \/ desired = "uncertain" /\ current = "completed"
    \/ "uncertain" \notin {current, desired} /\ PhaseOrder[current] > PhaseOrder[desired]

BindTarget == \E life \in {"fixed", "new_pending"} : TargetBound(life)
EstablishTarget == \E a \in ActionId : TargetEstablished(a)
StagingIntent == \E a \in ActionId : ActionIntent(a, "configuration_set")
HandoffIntent == \E a \in ActionId : ActionIntent(a, "file_handoff")
SendPrepared == \E a \in ActionId : ActionPrepared(a, "send")
SteerPrepared == \E a \in ActionId : ActionPrepared(a, "work_steer")
StopIntent == \E a \in ActionId : ActionIntent(a, "stop")
TransferIntent == \E a \in ActionId : ArtifactTransferIntent(a)
WriteReceipt ==
    \E a \in Recorded, outcome \in Outcomes :
        ReceiptWritten(a, outcome) /\ ActionReceipt(a, outcome)
WriteWitness == \E a \in Recorded : SubmissionWitness(a)
WritePhase ==
    \E to \in Phases, cause \in ActionId \cup {NoAction}, evidence \in BOOLEAN :
        PhaseWritten(to) /\ PhaseChanged(to, cause, evidence)
Complete ==
    \E content \in {"content_available", "content_expired"} :
        ReceiptCompleted(content)

LedgerNext ==
    \/ BindTarget
    \/ EstablishTarget
    \/ StagingIntent
    \/ HandoffIntent
    \/ SendPrepared
    \/ SteerPrepared
    \/ StopIntent
    \/ TransferIntent
    \/ WriteReceipt
    \/ WriteWitness
    \/ WritePhase
    \/ Complete
    \/ ContentExpired

LedgerSpec == LedgerInit /\ [][LedgerNext]_ledgerVars

-----------------------------------------------------------------------------
(* Recovery: what a restarted caller decides from the durable state and one *)
(* fresh observation of its target (operations/recovery.ts).                *)

TurnObservations == {"not_observed", "owned_user_turn", "owned_generating",
                     "owned_terminal", "ambiguous"}

NonRepeatable == {"file_handoff", "send", "work_steer", "stop"}

\* Mutant of PendingPhases: a Send intent is forgotten while the phase is ready.
PendingPhasesByPhase ==
    [k \in NonRepeatable |->
        CASE k = "file_handoff" -> {"prepared", "handoff_pending", "uncertain"}
          [] k = "send"         -> {"send_pending", "uncertain"}
          [] OTHER              -> {"generating", "uncertain"}]

\* The phases in which a durable intent still forbids a second action.
PendingPhases ==
    [k \in NonRepeatable |->
        CASE k = "file_handoff" -> {"prepared", "handoff_pending", "uncertain"}
          [] k = "send"         -> {"ready", "send_pending", "uncertain"}
          [] OTHER              -> {"generating", "uncertain"}]

\* Mutant of Latest: the sort of latestAction the other way round.
Earliest(S) == CHOOSE a \in S : \A b \in S : actions[a].order <= actions[b].order

Latest(S) == CHOOSE a \in S : \A b \in S : actions[b].order <= actions[a].order

PendingNonRepeatable ==
    {a \in OfKinds(NonRepeatable) : phase \in PendingPhases[actions[a].kind]}

Decision(kind, action) == [kind |-> kind, action |-> action]

OwnedTurnDecision(turn) ==
    CASE turn = "ambiguous"      -> Decision("enter_uncertain", NoAction)
      [] turn = "owned_terminal" -> Decision("capture_owned_turn", NoAction)
      [] OTHER                   -> Decision("continue_owned_turn", NoAction)

PendingActionDecision(a, turn) ==
    IF actions[a].kind = "file_handoff" \/ turn = "not_observed"
    THEN Decision("observe_action_postcondition", a)
    ELSE OwnedTurnDecision(turn)

ObserveLatest(S) == IF S = {} THEN Decision("block", NoAction)
                    ELSE Decision("observe_action_postcondition", Latest(S))

\* decideOperationRecovery, for a target observation that matches the binding.
OperationRecovery(turn) ==
    CASE phase = "completed" ->
            IF receipt = "absent" THEN Decision("block", NoAction)
            ELSE Decision("return_completed_receipt", NoAction)
      [] phase # "completed" /\ PendingNonRepeatable # {} ->
            PendingActionDecision(Latest(PendingNonRepeatable), turn)
      [] phase \in {"prepared", "ready"} /\ PendingNonRepeatable = {} ->
            Decision("continue_preparation", NoAction)
      [] phase = "handoff_pending" /\ PendingNonRepeatable = {} ->
            ObserveLatest(OfKind("file_handoff"))
      [] phase = "send_pending" /\ PendingNonRepeatable = {} ->
            ObserveLatest(OfKind("send"))
      [] phase = "capturing" ->
            IF turn = "owned_terminal"
            THEN Decision("capture_owned_turn", NoAction)
            ELSE Decision("enter_uncertain", NoAction)
      [] phase \in {"submitted", "generating"} /\ PendingNonRepeatable = {} ->
            OwnedTurnDecision(turn)
      [] phase = "uncertain" /\ PendingNonRepeatable = {} ->
            Decision("block", NoAction)

-----------------------------------------------------------------------------
(* Properties *)

TypeOK ==
    /\ phase \in Phases
    /\ mutationBoundary \in Boundaries
    /\ target \in TargetLives
    /\ actions \in [ActionId -> ActionRecords]
    /\ ownershipBaselines \subseteq ActionId
    /\ submissionWitnesses \subseteq ActionId
    /\ receipt \in ReceiptStates
    /\ capturePolicy \in {"receipt_only", "transfer"}
    /\ intentRevision \in Nat

\* The parts of validateStateCoherence, which every snapshot must pass when it
\* is written by compaction and when it is read back.

\* The boundary is the highest one any durable intent crossed.
BoundaryIsHighestIntent ==
    /\ \A a \in Recorded :
          BoundaryRank[BoundaryForAction[actions[a].kind]]
             <= BoundaryRank[mutationBoundary]
    /\ mutationBoundary # "none" =>
          \E a \in Recorded : BoundaryForAction[actions[a].kind] = mutationBoundary

\* At most one handoff and one original Send.
SingletonIntents ==
    \A a, b \in Recorded :
        actions[a].kind = actions[b].kind /\ actions[a].kind \in SingleIntentKinds
           => a = b

\* A baseline belongs to a Send or steer that was not left uncertain and, for a
\* Send, not rejected (validateOwnershipBaselineValues).
BaselinesProven ==
    \A a \in ownershipBaselines :
        \/ actions[a].kind = "send" /\ actions[a].outcome \in {"none", "satisfied"}
        \/ actions[a].kind = "work_steer" /\ actions[a].outcome # "uncertain"

\* A witness follows its baseline, on an action nobody rejected, once the
\* target has an identity (validateSubmissionWitnessValues).
WitnessesProven ==
    \A a \in submissionWitnesses :
        /\ a \in ownershipBaselines
        /\ actions[a].outcome \in {"none", "satisfied"}
        /\ target \in {"fixed", "new_established"}

\* An established new conversation names the one Send that created it.
EstablishedBySend ==
    target = "new_established" => \E s \in ActionId : OfKind("send") = {s}

TransfersAllowed ==
    OfKind("local_output_commit") # {} => capturePolicy = "transfer"

\* The phase agrees with the ledger.
PhaseBacked ==
    /\ phase = "handoff_pending" => OfKind("file_handoff") # {}
    /\ phase = "send_pending" => OfKind("send") # {}
    /\ phase \in OwnedPhases => OwnedSend /\ target \notin {"unbound", "new_pending"}
    /\ phase = "completed" <=> receipt # "absent"

\* Every state the service can append its way to is one the journal accepts
\* when it compacts or reloads: an operation is never bricked by its own log.
SnapshotReadable ==
    /\ BoundaryIsHighestIntent
    /\ SingletonIntents
    /\ BaselinesProven
    /\ WitnessesProven
    /\ EstablishedBySend
    /\ TransfersAllowed
    /\ PhaseBacked

\* "This function never authorizes replay of an action whose intent is already
\* durable": mayStart is answered only when the actions still ahead of the
\* phase have no intent (decideOperationRecovery).
RecoveryNeverRepeats ==
    \A turn \in TurnObservations :
        OperationRecovery(turn).kind = "continue_preparation" =>
            /\ OfKind("send") = {}
            /\ phase = "prepared" => OfKind("file_handoff") = {}

\* A restarted caller is never sent to settle the attachments while a Send, a
\* steer or a stop is durable: the later, further action is the one observed.
RecoveryObservesFurthest ==
    \A turn \in TurnObservations :
        LET d == OperationRecovery(turn)
        IN  /\ d.kind = "observe_action_postcondition"
            /\ actions[d.action].kind = "file_handoff"
            => OfKinds({"send", "work_steer", "stop"}) = {}

\* uncertain is left again by anyone who holds the proof of an owned Send, or,
\* before a Send exists, of the handoff.
UncertainIsNotATrap ==
    phase = "uncertain" =>
        /\ OwnedSend => \E s \in OfKind("send") : CanChangePhase("submitted", s, TRUE)
        /\ \A h \in OfKind("file_handoff") :
              actions[h].outcome = "satisfied" => CanChangePhase("ready", h, TRUE)

\* A proof of ownership, once durable, survives every later event, whatever
\* uncertainty, steer or stop follows it.
OwnershipIsPermanent == [][OwnedSend => OwnedSend']_ledgerVars
=============================================================================
