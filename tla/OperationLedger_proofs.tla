----------------------- MODULE OperationLedger_proofs -----------------------
(***************************************************************************)
(* Every durable state the service can reach is one the journal will read  *)
(* back, for any set of action identities.                                 *)
(***************************************************************************)
EXTENDS OperationLedger, TLAPS, WellFoundedInduction

\* An intent never removes an action of another kind.
LEMMA IntendKinds ==
    ASSUME TypeOK, NEW a \in ActionId, NEW k \in Kinds, Intend(a, k)
    PROVE  /\ \A b \in ActionId : b # a => actions'[b] = actions[b]
           /\ actions'[a] = Intended(k, intentRevision + 1)
           /\ actions[a].kind = "absent"
           /\ actions' \in [ActionId -> ActionRecords]
           /\ mutationBoundary' \in Boundaries
           /\ intentRevision' \in Nat
BY DEF TypeOK, Intend, CanIntend, Recorded, Intended, ActionRecords,
       HigherBoundary, Boundaries, BoundaryForAction, Kinds, Outcomes

\* Every event keeps the fields of the durable state in their ranges.
LEMMA LedgerTypeStep ==
    ASSUME TypeOK, [LedgerNext]_ledgerVars
    PROVE  TypeOK'
<1> USE DEF TypeOK
<1>1. CASE BindTarget
  BY <1>1 DEF BindTarget, TargetBound, TargetLives
<1>2. CASE EstablishTarget
  BY <1>2 DEF EstablishTarget, TargetEstablished, TargetLives
<1>3. ASSUME NEW a \in ActionId, NEW k \in Kinds, Intend(a, k),
             UNCHANGED <<phase, target, submissionWitnesses, receipt, capturePolicy>>,
             ownershipBaselines' \subseteq ActionId
      PROVE  TypeOK'
  BY <1>3, IntendKinds
<1>4. CASE StagingIntent \/ HandoffIntent \/ StopIntent \/ TransferIntent
  BY <1>3, <1>4 DEF StagingIntent, HandoffIntent, StopIntent, TransferIntent,
     ArtifactTransferIntent, ActionIntent, Kinds
<1>5. CASE SendPrepared \/ SteerPrepared
  BY <1>3, <1>5 DEF SendPrepared, SteerPrepared, ActionPrepared, Kinds
<1>6. CASE WriteReceipt
  BY <1>6 DEF WriteReceipt, Recorded, ActionReceipt, ActionRecords
<1>7. CASE WriteWitness
  BY <1>7 DEF WriteWitness, Recorded, SubmissionWitness
<1>8. CASE WritePhase
  BY <1>8 DEF WritePhase, PhaseChanged
<1>9. CASE Complete
  BY <1>9 DEF Complete, ReceiptCompleted, Phases, ReceiptStates
<1>10. CASE ContentExpired
  BY <1>10 DEF ContentExpired, ReceiptStates
<1>11. CASE UNCHANGED ledgerVars
  BY <1>11 DEF ledgerVars
<1> QED
  BY <1>1, <1>2, <1>4, <1>5, <1>6, <1>7, <1>8, <1>9, <1>10, <1>11
     DEF LedgerNext

\* Nothing the callers append leaves the durable state outside its types.
THEOREM LedgerTypeOK == LedgerSpec => []TypeOK
<1>1. LedgerInit => TypeOK
  BY DEF LedgerInit, TypeOK, Phases, Boundaries, TargetLives, ActionRecords,
         Absent, ReceiptStates, Outcomes
<1>2. TypeOK /\ [LedgerNext]_ledgerVars => TypeOK'
  BY LedgerTypeStep
<1> QED
  BY <1>1, <1>2, PTL DEF LedgerSpec

-----------------------------------------------------------------------------
(* The inductive step of SnapshotReadable, one lemma per group of actions *)

\* A fresh intent of kind k leaves the sets of every other kind as they were.
LEMMA IntendOfKind ==
    ASSUME TypeOK, NEW a \in ActionId, NEW k \in Kinds, Intend(a, k)
    PROVE  /\ OfKind(k)' = OfKind(k) \cup {a}
           /\ \A j \in Kinds : j # k => OfKind(j)' = OfKind(j)
           /\ Recorded' = Recorded \cup {a}
           /\ a \notin Recorded
<1>1. Intended(k, intentRevision + 1).kind = k /\ k # "absent"
  BY DEF Intended, Kinds
<1>2. \A j \in Kinds : a \notin OfKind(j)
  BY IntendKinds DEF OfKind, Kinds
<1>3. QED
  BY <1>1, <1>2, IntendKinds DEF OfKind, Recorded, Kinds

\* Nothing the coherence check reads is changed by adding the intent of a kind,
\* provided an owned phase is not where a Send is intended.
LEMMA IntentStep ==
    ASSUME TypeOK, SnapshotReadable,
           NEW a \in ActionId, NEW k \in Kinds, Intend(a, k),
           UNCHANGED <<phase, target, submissionWitnesses, receipt, capturePolicy>>,
           \/ ownershipBaselines' = ownershipBaselines
           \/ k \in OwnershipKinds /\ ownershipBaselines' = ownershipBaselines \cup {a},
           k = "local_output_commit" => capturePolicy = "transfer"
    PROVE  SnapshotReadable'
<1> USE DEF SnapshotReadable
<1>a. /\ \A b \in ActionId : b # a => actions'[b] = actions[b]
      /\ actions'[a].kind = k /\ actions'[a].outcome = "none"
      /\ a \notin Recorded /\ actions[a].kind = "absent"
  <2>1. /\ \A b \in ActionId : b # a => actions'[b] = actions[b]
        /\ actions'[a] = Intended(k, intentRevision + 1)
        /\ actions[a].kind = "absent"
    BY IntendKinds
  <2>2. actions'[a].kind = k /\ actions'[a].outcome = "none"
    BY <2>1 DEF Intended
  <2> QED
    BY <2>1, <2>2 DEF Recorded
<1>b. a \notin ownershipBaselines /\ a \notin submissionWitnesses
  BY <1>a DEF BaselinesProven, WitnessesProven
<1>1. BoundaryIsHighestIntent'
  <2>1. mutationBoundary' = HigherBoundary(mutationBoundary, BoundaryForAction[k])
    BY DEF Intend
  <2>2. BoundaryForAction[k] \in Boundaries /\ mutationBoundary \in Boundaries
    BY DEF BoundaryForAction, Boundaries, Kinds, TypeOK
  <2>3. \A b \in Boundaries : BoundaryRank[b] \in 0..3
    BY DEF Boundaries, BoundaryRank
  <2>4. \A b \in Recorded : BoundaryForAction[actions[b].kind] \in Boundaries
    BY DEF Recorded, BoundaryForAction, Boundaries, Kinds, TypeOK, ActionRecords
  <2>5. BoundaryRank[mutationBoundary] <= BoundaryRank[mutationBoundary']
        /\ BoundaryRank[BoundaryForAction[k]] <= BoundaryRank[mutationBoundary']
    BY <2>1, <2>2, <2>3 DEF HigherBoundary
  <2>6. \A b \in Recorded' :
            BoundaryRank[BoundaryForAction[actions'[b].kind]]
               <= BoundaryRank[mutationBoundary']
    <3> SUFFICES ASSUME NEW b \in Recorded'
                 PROVE  BoundaryRank[BoundaryForAction[actions'[b].kind]]
                           <= BoundaryRank[mutationBoundary']
      OBVIOUS
    <3>1. CASE b = a
      BY <3>1, <2>5, <1>a
    <3>2. CASE b # a
      <4>1. b \in Recorded /\ actions'[b] = actions[b]
        BY <3>2, <1>a, IntendOfKind DEF Recorded
      <4>2. BoundaryRank[BoundaryForAction[actions[b].kind]]
               <= BoundaryRank[mutationBoundary]
        BY <4>1 DEF BoundaryIsHighestIntent
      <4>3. mutationBoundary' \in Boundaries
        BY IntendKinds
      <4> QED
        BY <4>1, <4>2, <4>3, <2>2, <2>3, <2>4, <2>5
    <3> QED
      BY <3>1, <3>2
  <2>7. mutationBoundary' # "none" =>
            \E b \in Recorded' : BoundaryForAction[actions'[b].kind] = mutationBoundary'
    <3>1. CASE mutationBoundary' = mutationBoundary
      BY <3>1, <1>a, IntendOfKind DEF BoundaryIsHighestIntent, Recorded
    <3>2. CASE mutationBoundary' = BoundaryForAction[k]
      BY <3>2, <1>a, IntendOfKind
    <3> QED
      BY <3>1, <3>2, <2>1 DEF HigherBoundary
  <2> QED
    BY <2>6, <2>7 DEF BoundaryIsHighestIntent, Recorded
<1>2. SingletonIntents'
  BY <1>a DEF SingletonIntents, Recorded, Intend, CanIntend, OfKind
<1>3. BaselinesProven'
  BY <1>a, <1>b DEF BaselinesProven, OwnershipKinds, TypeOK
<1>4. WitnessesProven'
  BY <1>a, <1>b DEF WitnessesProven, TypeOK
<1>5. EstablishedBySend'
  <2>1. k = "send" => OfKind("send") = {}
    BY DEF Intend, CanIntend, SingleIntentKinds
  <2> QED
    BY <2>1, IntendOfKind DEF EstablishedBySend, Kinds
<1>6. TransfersAllowed'
  BY IntendOfKind DEF TransfersAllowed, Kinds
<1>7. PhaseBacked'
  <2>1. OfKind("send") \subseteq OfKind("send")'
        /\ OfKind("file_handoff") \subseteq OfKind("file_handoff")'
    BY <1>a DEF OfKind
  <2>2. OwnedSend => OwnedSend'
    <3> SUFFICES ASSUME OwnedSend PROVE OwnedSend'
      OBVIOUS
    <3>1. k # "send"
      BY DEF OwnedSend, Intend, CanIntend, SingleIntentKinds
    <3>2. OfKind("send")' = OfKind("send")
      BY <3>1, IntendOfKind DEF Kinds
    <3>3. \A s \in OfKind("send") : actions'[s] = actions[s]
      BY <1>a DEF OfKind
    <3> QED
      BY <3>2, <3>3 DEF OwnedSend
  <2> QED
    BY <2>1, <2>2 DEF PhaseBacked
<1> QED
  BY <1>1, <1>2, <1>3, <1>4, <1>5, <1>6, <1>7

\* Establishing the target needs the one Send it names.
LEMMA EstablishStep ==
    ASSUME TypeOK, SnapshotReadable, NEW a \in ActionId, TargetEstablished(a)
    PROVE  SnapshotReadable'
<1> USE DEF SnapshotReadable, TargetEstablished
<1>1. OfKind("send") = {a}
  BY DEF CanEstablish, OfKind, SingletonIntents, SingleIntentKinds, Recorded
<1>2. EstablishedBySend'
  BY <1>1 DEF EstablishedBySend, OfKind
<1>3. OwnedSend' <=> OwnedSend
  BY DEF OwnedSend, OfKind
<1>4. PhaseBacked'
  BY <1>3 DEF PhaseBacked, OfKind
<1>5. BoundaryIsHighestIntent' /\ SingletonIntents' /\ BaselinesProven'
        /\ WitnessesProven' /\ TransfersAllowed'
  BY DEF BoundaryIsHighestIntent, SingletonIntents, BaselinesProven,
         WitnessesProven, TransfersAllowed, Recorded, OfKind
<1> QED
  BY <1>2, <1>4, <1>5

\* A receipt settles one action and keeps every kind.
LEMMA ReceiptStep ==
    ASSUME TypeOK, SnapshotReadable, NEW a \in Recorded, NEW outcome \in Outcomes,
           ReceiptWritten(a, outcome), ActionReceipt(a, outcome)
    PROVE  SnapshotReadable'
<1> USE DEF SnapshotReadable
<1>1. /\ a \in ActionId
      /\ actions[a].outcome = "none"
      /\ actions'[a].kind = actions[a].kind
      /\ actions'[a].outcome = outcome
      /\ \A b \in ActionId : b # a => actions'[b] = actions[b]
      /\ UNCHANGED <<phase, mutationBoundary, target, ownershipBaselines,
                     submissionWitnesses, receipt, capturePolicy>>
  BY DEF ActionReceipt, CanReceipt, Recorded, TypeOK, ActionRecords
<1>2. /\ \A b \in ActionId : actions'[b].kind = actions[b].kind
      /\ Recorded' = Recorded
      /\ \A k \in Kinds : OfKind(k)' = OfKind(k)
  BY <1>1 DEF Recorded, OfKind
<1>3. BoundaryIsHighestIntent' /\ SingletonIntents'
  BY <1>1, <1>2 DEF BoundaryIsHighestIntent, SingletonIntents, Recorded
<1>4. BaselinesProven'
  BY <1>1, <1>2 DEF BaselinesProven, ReceiptWritten, TypeOK
<1>5. WitnessesProven'
  BY <1>1, <1>2 DEF WitnessesProven, BaselinesProven, ReceiptWritten, TypeOK
<1>6. EstablishedBySend' /\ TransfersAllowed'
  BY <1>1, <1>2 DEF EstablishedBySend, TransfersAllowed, Kinds
<1>7. PhaseBacked'
  <2>1. OwnedSend => OwnedSend'
    BY <1>1, <1>2 DEF OwnedSend, Kinds, OfKind
  <2> QED
    BY <2>1, <1>1, <1>2 DEF PhaseBacked, Kinds
<1> QED
  BY <1>3, <1>4, <1>5, <1>6, <1>7

\* A witness is written behind its baseline, on an action nobody rejected.
LEMMA WitnessStep ==
    ASSUME TypeOK, SnapshotReadable, NEW a \in Recorded, SubmissionWitness(a)
    PROVE  SnapshotReadable'
<1> USE DEF SnapshotReadable, SubmissionWitness
<1>1. WitnessesProven'
  BY DEF WitnessesProven, CanWitness, TypeOK, TargetLives
<1>2. BoundaryIsHighestIntent' /\ SingletonIntents' /\ BaselinesProven'
        /\ EstablishedBySend' /\ TransfersAllowed'
  BY DEF BoundaryIsHighestIntent, SingletonIntents, BaselinesProven,
         EstablishedBySend, TransfersAllowed, Recorded, OfKind
<1>3. OwnedSend => OwnedSend'
  BY DEF OwnedSend, OfKind
<1>4. PhaseBacked'
  BY <1>3 DEF PhaseBacked, OfKind
<1> QED
  BY <1>1, <1>2, <1>4

\* A phase is entered only with the ledger that backs it.
LEMMA PhaseStep ==
    ASSUME TypeOK, SnapshotReadable,
           NEW to \in Phases, NEW cause \in ActionId \cup {NoAction},
           NEW evidence \in BOOLEAN, PhaseChanged(to, cause, evidence)
    PROVE  SnapshotReadable'
<1> USE DEF SnapshotReadable, PhaseChanged
<1>1. BoundaryIsHighestIntent' /\ SingletonIntents' /\ BaselinesProven'
        /\ WitnessesProven' /\ EstablishedBySend' /\ TransfersAllowed'
  BY DEF BoundaryIsHighestIntent, SingletonIntents, BaselinesProven,
         WitnessesProven, EstablishedBySend, TransfersAllowed, Recorded, OfKind
<1>2. to # "completed" /\ phase # "completed"
  BY DEF CanChangePhase, LegalEdges, TypeOK, Phases
<1>3. OwnedSend' <=> OwnedSend
  BY DEF OwnedSend, OfKind
<1>4. to \in OwnedPhases => OwnedSend /\ target \notin {"unbound", "new_pending"}
  BY <1>2 DEF CanChangePhase, CausedTransition, OwnedPhases
<1>5. (to = "handoff_pending" => OfKind("file_handoff") # {})
        /\ (to = "send_pending" => OfKind("send") # {})
  BY NoActionAssumption
     DEF CanChangePhase, CausedTransition, CauseIs, OfKind, Recorded
<1>6. PhaseBacked'
  BY <1>2, <1>3, <1>4, <1>5 DEF PhaseBacked, OfKind
<1> QED
  BY <1>1, <1>6

\* Completing, expiring and binding touch no action.
LEMMA CompletionStep ==
    ASSUME TypeOK, SnapshotReadable,
           Complete \/ ContentExpired \/ BindTarget \/ UNCHANGED ledgerVars
    PROVE  SnapshotReadable'
<1> USE DEF SnapshotReadable
<1>1. actions' = actions /\ mutationBoundary' = mutationBoundary
        /\ ownershipBaselines' = ownershipBaselines
        /\ submissionWitnesses' = submissionWitnesses
        /\ capturePolicy' = capturePolicy
        /\ (target' = target \/ (target = "unbound" /\ target' \in {"fixed", "new_pending"}))
  BY DEF Complete, ReceiptCompleted, ContentExpired, BindTarget, TargetBound, ledgerVars
<1>2. BoundaryIsHighestIntent' /\ SingletonIntents' /\ BaselinesProven'
        /\ EstablishedBySend' /\ TransfersAllowed'
  BY <1>1 DEF BoundaryIsHighestIntent, SingletonIntents, BaselinesProven,
         EstablishedBySend, TransfersAllowed, Recorded, OfKind
<1>3. WitnessesProven'
  BY <1>1 DEF WitnessesProven
<1>4. OwnedSend' <=> OwnedSend
  BY <1>1 DEF OwnedSend, OfKind
<1>5. PhaseBacked'
  <2>1. CASE Complete
    BY <2>1, <1>4 DEF Complete, ReceiptCompleted, PhaseBacked
  <2>2. CASE ContentExpired
    BY <2>2, <1>4 DEF ContentExpired, PhaseBacked
  <2>3. CASE BindTarget
    BY <2>3, <1>1, <1>4 DEF BindTarget, TargetBound, PhaseBacked, OfKind
  <2>4. CASE UNCHANGED ledgerVars
    BY <2>4, <1>4 DEF ledgerVars, PhaseBacked, OfKind
  <2> QED
    BY <2>1, <2>2, <2>3, <2>4
<1> QED
  BY <1>2, <1>3, <1>5

\* Every event leaves a state the coherence check accepts.
LEMMA LedgerReadableStep ==
    ASSUME TypeOK, SnapshotReadable, [LedgerNext]_ledgerVars
    PROVE  SnapshotReadable'
<1>1. CASE BindTarget \/ Complete \/ ContentExpired \/ UNCHANGED ledgerVars
  BY <1>1, CompletionStep
<1>2. CASE EstablishTarget
  BY <1>2, EstablishStep DEF EstablishTarget
<1>3. CASE StagingIntent \/ HandoffIntent \/ StopIntent
  BY <1>3, IntentStep
     DEF StagingIntent, HandoffIntent, StopIntent, ActionIntent, Kinds
<1>4. CASE TransferIntent
  BY <1>4, IntentStep
     DEF TransferIntent, ArtifactTransferIntent, ActionIntent, Kinds
<1>5. CASE SendPrepared \/ SteerPrepared
  BY <1>5, IntentStep
     DEF SendPrepared, SteerPrepared, ActionPrepared, Kinds, OwnershipKinds
<1>6. CASE WriteReceipt
  BY <1>6, ReceiptStep DEF WriteReceipt
<1>7. CASE WriteWitness
  BY <1>7, WitnessStep DEF WriteWitness
<1>8. CASE WritePhase
  BY <1>8, PhaseStep DEF WritePhase
<1> QED
  BY <1>1, <1>2, <1>3, <1>4, <1>5, <1>6, <1>7, <1>8 DEF LedgerNext

\* A log with nothing but its creation is readable.
LEMMA LedgerReadableInit == LedgerInit => SnapshotReadable
  BY DEF LedgerInit, SnapshotReadable, BoundaryIsHighestIntent, SingletonIntents,
         BaselinesProven, WitnessesProven, EstablishedBySend, TransfersAllowed,
         PhaseBacked, Recorded, OfKind, Absent, OwnedPhases

\* Whatever the service appends, in any order, to any number of actions, the
\* journal can compact the result and read it back.
THEOREM LedgerReadable == LedgerSpec => []SnapshotReadable
<1>1. LedgerInit => SnapshotReadable
  BY LedgerReadableInit
<1>2. TypeOK /\ SnapshotReadable /\ [LedgerNext]_ledgerVars => SnapshotReadable'
  BY LedgerReadableStep
<1> QED
  BY <1>1, <1>2, LedgerTypeOK, PTL DEF LedgerSpec

-----------------------------------------------------------------------------
(* Ownership and recovery *)

\* No event takes an ownership proof back.
LEMMA LedgerOwnershipStep ==
    ASSUME TypeOK, SnapshotReadable, LedgerNext, OwnedSend
    PROVE  OwnedSend'
<1>1. ASSUME NEW a \in ActionId, NEW k \in Kinds, Intend(a, k),
             submissionWitnesses' = submissionWitnesses,
             ownershipBaselines \subseteq ownershipBaselines'
      PROVE  OwnedSend'
  <2>1. k # "send"
    BY <1>1 DEF OwnedSend, Intend, CanIntend, SingleIntentKinds
  <2>2. OfKind("send")' = OfKind("send")
    BY <1>1, <2>1, IntendOfKind DEF Kinds
  <2>3. \A s \in OfKind("send") : actions'[s] = actions[s]
    BY <1>1, IntendKinds DEF OfKind
  <2> QED
    BY <1>1, <2>2, <2>3 DEF OwnedSend
<1>2. CASE StagingIntent \/ HandoffIntent \/ StopIntent \/ TransferIntent
  BY <1>1, <1>2 DEF StagingIntent, HandoffIntent, StopIntent, TransferIntent,
     ArtifactTransferIntent, ActionIntent, Kinds
<1>3. CASE SendPrepared \/ SteerPrepared
  BY <1>1, <1>3 DEF SendPrepared, SteerPrepared, ActionPrepared, Kinds
<1>4. CASE WriteReceipt
  <2>1. PICK a \in Recorded, outcome \in Outcomes : ActionReceipt(a, outcome)
    BY <1>4 DEF WriteReceipt
  <2>2. \A b \in ActionId :
          /\ actions'[b].kind = actions[b].kind
          /\ actions[b].outcome # "none" => actions'[b] = actions[b]
    BY <2>1 DEF ActionReceipt, CanReceipt, Recorded, TypeOK, ActionRecords
  <2> QED
    BY <2>1, <2>2 DEF OwnedSend, OfKind, ActionReceipt
<1>5. CASE WriteWitness
  BY <1>5 DEF WriteWitness, SubmissionWitness, OwnedSend, OfKind
<1>6. CASE WritePhase \/ Complete \/ ContentExpired \/ BindTarget \/ EstablishTarget
  BY <1>6 DEF WritePhase, PhaseChanged, Complete, ReceiptCompleted, ContentExpired,
     BindTarget, TargetBound, EstablishTarget, TargetEstablished, OwnedSend, OfKind
<1> QED
  BY <1>2, <1>3, <1>4, <1>5, <1>6 DEF LedgerNext

\* Once the original Send is proven the operation's own, no event undoes it.
THEOREM LedgerOwnershipPermanent == LedgerSpec => OwnershipIsPermanent
<1>1. TypeOK /\ SnapshotReadable /\ [LedgerNext]_ledgerVars
        => [OwnedSend => OwnedSend']_ledgerVars
  BY LedgerOwnershipStep
<1> QED
  BY <1>1, LedgerTypeOK, LedgerReadable, PTL DEF LedgerSpec, OwnershipIsPermanent

\* A Send is intended only once preparation is over, and preparation is never
\* entered again.
SendAfterPreparation ==
    phase \in {"prepared", "handoff_pending"} => OfKind("send") = {}

\* No event prepares an operation again whose Send is intended.
LEMMA SendAfterPreparationStep ==
    ASSUME TypeOK, SendAfterPreparation, [LedgerNext]_ledgerVars
    PROVE  SendAfterPreparation'
<1>1. ASSUME NEW a \in ActionId, NEW k \in Kinds, Intend(a, k), phase' = phase
      PROVE  SendAfterPreparation'
  <2>1. CASE k = "send"
    BY <1>1, <2>1 DEF Intend, CanIntend, ActionPhase, Kinds, SendAfterPreparation
  <2>2. CASE k # "send"
    BY <1>1, <2>2, IntendOfKind DEF Kinds, SendAfterPreparation
  <2> QED
    BY <2>1, <2>2
<1>2. CASE StagingIntent \/ HandoffIntent \/ StopIntent \/ TransferIntent
  BY <1>1, <1>2 DEF StagingIntent, HandoffIntent, StopIntent, TransferIntent,
     ArtifactTransferIntent, ActionIntent, Kinds
<1>3. CASE SendPrepared \/ SteerPrepared
  BY <1>1, <1>3 DEF SendPrepared, SteerPrepared, ActionPrepared, Kinds
<1>4. CASE WriteReceipt
  <2>1. PICK a \in Recorded, outcome \in Outcomes : ActionReceipt(a, outcome)
    BY <1>4 DEF WriteReceipt
  <2>2. OfKind("send")' = OfKind("send") /\ phase' = phase
    BY <2>1 DEF ActionReceipt, CanReceipt, Recorded, TypeOK, ActionRecords, OfKind
  <2> QED
    BY <2>2 DEF SendAfterPreparation
<1>5. CASE WritePhase
  <2>1. PICK to \in Phases, cause \in ActionId \cup {NoAction}, evidence \in BOOLEAN :
          PhaseChanged(to, cause, evidence)
    BY <1>5 DEF WritePhase
  <2>2. to \in {"prepared", "handoff_pending"} => phase = "prepared"
    BY <2>1 DEF PhaseChanged, CanChangePhase, LegalEdges, TypeOK, Phases
  <2> QED
    BY <2>1, <2>2 DEF PhaseChanged, SendAfterPreparation, OfKind
<1>6. CASE \/ Complete \/ ContentExpired \/ BindTarget \/ EstablishTarget
           \/ WriteWitness \/ UNCHANGED ledgerVars
  BY <1>6 DEF Complete, ReceiptCompleted, ContentExpired, BindTarget, TargetBound,
     EstablishTarget, TargetEstablished, WriteWitness, SubmissionWitness, ledgerVars,
     SendAfterPreparation, OfKind
<1> QED
  BY <1>2, <1>3, <1>4, <1>5, <1>6 DEF LedgerNext

\* A fresh operation has no Send.
LEMMA SendAfterPreparationInit == LedgerInit => SendAfterPreparation
  BY DEF LedgerInit, SendAfterPreparation, OfKind, Absent

\* No Send is intended while the operation is being prepared.
LEMMA LedgerSendAfterPreparation == LedgerSpec => []SendAfterPreparation
<1>1. LedgerInit => SendAfterPreparation
  BY SendAfterPreparationInit
<1>2. TypeOK /\ SendAfterPreparation /\ [LedgerNext]_ledgerVars
        => SendAfterPreparation'
  BY SendAfterPreparationStep
<1> QED
  BY <1>1, <1>2, LedgerTypeOK, PTL DEF LedgerSpec

\* Recovery says "may start" only outside every pending intent.
LEMMA ContinuePreparation ==
    ASSUME TypeOK, NEW turn,
           OperationRecovery(turn).kind = "continue_preparation"
    PROVE  phase \in {"prepared", "ready"} /\ PendingNonRepeatable = {}
<1>1. \A S : ObserveLatest(S).kind # "continue_preparation"
  BY DEF ObserveLatest, Decision
<1>2. \A t : OwnedTurnDecision(t).kind # "continue_preparation"
  BY DEF OwnedTurnDecision, Decision
<1>3. \A a, t : PendingActionDecision(a, t).kind # "continue_preparation"
  BY <1>2 DEF PendingActionDecision, Decision
<1>4. CASE phase = "completed"
  BY <1>4 DEF OperationRecovery, Decision
<1>5. CASE phase # "completed" /\ PendingNonRepeatable # {}
  <2>1. CASE phase = "capturing"
    <3>1. \A k \in NonRepeatable : "capturing" \notin PendingPhases[k]
      BY DEF PendingPhases, NonRepeatable
    <3>2. PendingNonRepeatable = {}
      BY <2>1, <3>1 DEF PendingNonRepeatable, OfKinds
    <3> QED
      BY <1>5, <3>2
  <2>2. CASE phase # "capturing"
    <3>1. OperationRecovery(turn) = PendingActionDecision(Latest(PendingNonRepeatable), turn)
      BY <1>5, <2>2 DEF OperationRecovery
    <3> QED
      BY <3>1, <1>3
  <2> QED
    BY <2>1, <2>2
<1>6. CASE phase \notin {"completed", "prepared", "ready"} /\ PendingNonRepeatable = {}
  BY <1>6, <1>1, <1>2 DEF OperationRecovery, Decision, TypeOK, Phases
<1> QED
  BY <1>4, <1>5, <1>6

\* A restarted caller is told it may start a non-repeatable action only when no
\* intent for an action still ahead of it is durable.
THEOREM LedgerRecoveryNeverRepeats == LedgerSpec => []RecoveryNeverRepeats
<1>1. TypeOK /\ SendAfterPreparation => RecoveryNeverRepeats
  <2> SUFFICES ASSUME TypeOK, SendAfterPreparation, NEW turn \in TurnObservations,
                      OperationRecovery(turn).kind = "continue_preparation"
               PROVE  /\ OfKind("send") = {}
                      /\ phase = "prepared" => OfKind("file_handoff") = {}
    BY DEF RecoveryNeverRepeats
  <2>1. phase \in {"prepared", "ready"} /\ PendingNonRepeatable = {}
    BY ContinuePreparation
  <2>2. \A k \in NonRepeatable : phase \in PendingPhases[k] => OfKind(k) = {}
    BY <2>1 DEF PendingNonRepeatable, OfKinds, OfKind
  <2>3. "ready" \in PendingPhases["send"] /\ "prepared" \in PendingPhases["file_handoff"]
    BY DEF PendingPhases, NonRepeatable
  <2>4. {"send", "file_handoff"} \subseteq NonRepeatable
    BY DEF NonRepeatable
  <2> QED
    BY <2>1, <2>2, <2>3, <2>4 DEF SendAfterPreparation
<1> QED
  BY <1>1, LedgerTypeOK, LedgerSendAfterPreparation, PTL

-----------------------------------------------------------------------------
(* Uncertainty can be left *)

\* Nothing is intended for an operation without a target.
IntentsHaveTarget == Recorded # {} => target # "unbound"

\* No event intends an action before the target is bound.
LEMMA IntentsHaveTargetStep ==
    ASSUME TypeOK, IntentsHaveTarget, [LedgerNext]_ledgerVars
    PROVE  IntentsHaveTarget'
<1>1. ASSUME NEW a \in ActionId, NEW k \in Kinds, Intend(a, k), target' = target
      PROVE  IntentsHaveTarget'
  BY <1>1 DEF Intend, CanIntend, IntentsHaveTarget
<1>2. CASE StagingIntent \/ HandoffIntent \/ StopIntent \/ TransferIntent
  BY <1>1, <1>2 DEF StagingIntent, HandoffIntent, StopIntent, TransferIntent,
     ArtifactTransferIntent, ActionIntent, Kinds
<1>3. CASE SendPrepared \/ SteerPrepared
  BY <1>1, <1>3 DEF SendPrepared, SteerPrepared, ActionPrepared, Kinds
<1>4. CASE WriteReceipt
  <2>1. PICK a \in Recorded, o \in Outcomes : ActionReceipt(a, o)
    BY <1>4 DEF WriteReceipt
  <2> QED
    BY <2>1 DEF ActionReceipt, IntentsHaveTarget
<1>5. CASE \/ Complete \/ ContentExpired \/ BindTarget \/ EstablishTarget
           \/ WriteWitness \/ WritePhase \/ UNCHANGED ledgerVars
  BY <1>5 DEF Complete, ReceiptCompleted, ContentExpired, BindTarget, TargetBound,
     EstablishTarget, TargetEstablished, WriteWitness, SubmissionWitness, WritePhase,
     PhaseChanged, ledgerVars, IntentsHaveTarget, Recorded
<1> QED
  BY <1>2, <1>3, <1>4, <1>5 DEF LedgerNext

\* Uncertainty about an operation ends for whoever holds the proof of its Send
\* or, before a Send, of its handoff: the ledger takes the next phase.
THEOREM LedgerUncertainIsNotATrap == LedgerSpec => []UncertainIsNotATrap
<1>1. LedgerInit => IntentsHaveTarget
  BY DEF LedgerInit, IntentsHaveTarget, Recorded, Absent
<1>2. TypeOK /\ IntentsHaveTarget /\ [LedgerNext]_ledgerVars => IntentsHaveTarget'
  BY IntentsHaveTargetStep
<1>3. TypeOK /\ SnapshotReadable /\ IntentsHaveTarget => UncertainIsNotATrap
  <2> SUFFICES ASSUME TypeOK, SnapshotReadable, IntentsHaveTarget, phase = "uncertain"
               PROVE  /\ OwnedSend => \E s \in OfKind("send") :
                                         CanChangePhase("submitted", s, TRUE)
                      /\ \A h \in OfKind("file_handoff") :
                            actions[h].outcome = "satisfied"
                              => CanChangePhase("ready", h, TRUE)
    BY DEF UncertainIsNotATrap
  <2>1. {"submitted", "ready"} \subseteq LegalEdges[phase]
    BY DEF LegalEdges, Phases
  <2>2. ASSUME OwnedSend
        PROVE  \E s \in OfKind("send") : CanChangePhase("submitted", s, TRUE)
    <3>1. PICK s \in OfKind("send") : actions[s].outcome = "satisfied"
                                        /\ s \in submissionWitnesses
      BY <2>2 DEF OwnedSend
    <3>2. target \in {"fixed", "new_established"}
      BY <3>1 DEF SnapshotReadable, WitnessesProven
    <3>3. s \in Recorded /\ CauseIs(s, "send", {"satisfied"}) /\ s # NoAction
      BY <3>1, NoActionAssumption DEF OfKind, Recorded, CauseIs
    <3> QED
      BY <2>1, <2>2, <3>1, <3>2, <3>3 DEF CanChangePhase, CausedTransition
  <2>3. ASSUME NEW h \in OfKind("file_handoff"), actions[h].outcome = "satisfied"
        PROVE  CanChangePhase("ready", h, TRUE)
    <3>1. h \in Recorded /\ h # NoAction /\ actions[h].kind = "file_handoff"
      BY NoActionAssumption DEF OfKind, Recorded
    <3>2. target # "unbound"
      BY <3>1 DEF IntentsHaveTarget
    <3> QED
      BY <2>1, <2>3, <3>1, <3>2 DEF CanChangePhase, CausedTransition, OwnedPhases
  <2> QED
    BY <2>2, <2>3
<1> QED
  BY <1>1, <1>2, <1>3, LedgerTypeOK, LedgerReadable, PTL DEF LedgerSpec

-----------------------------------------------------------------------------
(* The latest of the pending actions is the furthest *)

FurtherKinds == {"send", "work_steer", "stop"}

\* Ranks are those of the log, and a handoff precedes all that comes after it.
RanksFollowLog ==
    /\ \A a \in Recorded : actions[a].order <= intentRevision
    /\ phase \in {"prepared", "handoff_pending"} => OfKinds(FurtherKinds) = {}
    /\ \A h \in OfKind("file_handoff"), x \in OfKinds(FurtherKinds) :
          actions[h].order < actions[x].order

\* Every event keeps the ranks in the order of the log.
LEMMA RanksFollowLogStep ==
    ASSUME TypeOK, RanksFollowLog, [LedgerNext]_ledgerVars
    PROVE  RanksFollowLog'
<1> USE DEF RanksFollowLog
<1>1. ASSUME NEW a \in ActionId, NEW k \in Kinds, Intend(a, k), phase' = phase
      PROVE  RanksFollowLog'
  <2>1. /\ \A b \in ActionId : b # a => actions'[b] = actions[b]
        /\ actions'[a].kind = k /\ actions'[a].order = intentRevision + 1
        /\ actions[a].kind = "absent"
        /\ intentRevision' = intentRevision + 1 /\ phase = ActionPhase[k]
    BY <1>1, IntendKinds DEF Intended, Intend, CanIntend
  <2>2. \A b \in ActionId : actions[b].order \in Nat
    BY DEF TypeOK, ActionRecords
  <2>3. /\ Recorded' = Recorded \cup {a}
        /\ OfKind("file_handoff")' \subseteq OfKind("file_handoff") \cup {a}
        /\ OfKinds(FurtherKinds)' \subseteq OfKinds(FurtherKinds) \cup {a}
        /\ k \notin FurtherKinds => OfKinds(FurtherKinds)' = OfKinds(FurtherKinds)
        /\ k # "file_handoff" => OfKind("file_handoff")' = OfKind("file_handoff")
    BY <2>1 DEF Recorded, OfKind, OfKinds, FurtherKinds, Kinds
  <2>4. k \in FurtherKinds => phase \notin {"prepared", "handoff_pending"}
    BY <2>1 DEF ActionPhase, FurtherKinds, Kinds
  <2>5. k = "file_handoff" => phase = "prepared" /\ k \notin FurtherKinds
    BY <2>1 DEF ActionPhase, FurtherKinds, Kinds
  <2>6. \A b \in Recorded : b \in ActionId /\ b # a
    BY <2>1 DEF Recorded
  <2>7. \A a1 \in Recorded' : actions'[a1].order <= intentRevision'
    BY <2>1, <2>2, <2>3, <2>6 DEF TypeOK
  <2>8. phase' \in {"prepared", "handoff_pending"} => OfKinds(FurtherKinds)' = {}
    BY <1>1, <2>3, <2>4
  <2>9. \A h \in OfKind("file_handoff"), x \in OfKinds(FurtherKinds) :
            h \in Recorded /\ x \in Recorded
    BY DEF OfKind, OfKinds, Recorded, FurtherKinds
  <2>10. \A h \in OfKind("file_handoff")', x \in OfKinds(FurtherKinds)' :
            actions'[h].order < actions'[x].order
    <3>1. CASE k = "file_handoff"
      <4>1. OfKinds(FurtherKinds)' = {}
        BY <2>3, <2>5, <3>1
      <4> QED
        BY <4>1
    <3>2. CASE k # "file_handoff"
      <4> SUFFICES ASSUME NEW h \in OfKind("file_handoff")',
                          NEW x \in OfKinds(FurtherKinds)'
                   PROVE  actions'[h].order < actions'[x].order
        OBVIOUS
      <4>1. h \in OfKind("file_handoff") /\ h \in Recorded /\ actions'[h] = actions[h]
        BY <2>1, <2>3, <2>6, <3>2 DEF OfKind, Recorded
      <4>2. CASE x = a
        BY <2>1, <2>2, <2>6, <4>1, <4>2 DEF TypeOK
      <4>3. CASE x # a
        <5>1. x \in OfKinds(FurtherKinds) /\ actions'[x] = actions[x]
          BY <2>1, <2>3, <4>3 DEF OfKinds
        <5> QED
          BY <4>1, <5>1
      <4> QED
        BY <4>2, <4>3
    <3> QED
      BY <3>1, <3>2
  <2> QED
    BY <2>7, <2>8, <2>10
<1>2. CASE StagingIntent \/ HandoffIntent \/ StopIntent \/ TransferIntent
  BY <1>1, <1>2 DEF StagingIntent, HandoffIntent, StopIntent, TransferIntent,
     ArtifactTransferIntent, ActionIntent, Kinds
<1>3. CASE SendPrepared \/ SteerPrepared
  BY <1>1, <1>3 DEF SendPrepared, SteerPrepared, ActionPrepared, Kinds
<1>4. CASE WriteReceipt
  <2>1. PICK a \in Recorded, o \in Outcomes : ActionReceipt(a, o)
    BY <1>4 DEF WriteReceipt
  <2>2. /\ \A b \in ActionId : actions'[b].kind = actions[b].kind
                                 /\ actions'[b].order = actions[b].order
        /\ phase' = phase /\ intentRevision' = intentRevision
    BY <2>1 DEF ActionReceipt, Recorded, TypeOK, ActionRecords
  <2> QED
    BY <2>2 DEF Recorded, OfKind, OfKinds
<1>5. CASE WritePhase
  <2>1. PICK to \in Phases, cause \in ActionId \cup {NoAction}, evidence \in BOOLEAN :
          PhaseChanged(to, cause, evidence)
    BY <1>5 DEF WritePhase
  <2>2. to \in {"prepared", "handoff_pending"} => phase = "prepared"
    BY <2>1 DEF PhaseChanged, CanChangePhase, LegalEdges, TypeOK, Phases
  <2> QED
    BY <2>1, <2>2 DEF PhaseChanged, Recorded, OfKind, OfKinds
<1>6. CASE \/ Complete \/ ContentExpired \/ BindTarget \/ EstablishTarget
           \/ WriteWitness \/ UNCHANGED ledgerVars
  BY <1>6 DEF Complete, ReceiptCompleted, ContentExpired, BindTarget, TargetBound,
     EstablishTarget, TargetEstablished, WriteWitness, SubmissionWitness, ledgerVars,
     Recorded, OfKind, OfKinds
<1> QED
  BY <1>2, <1>3, <1>4, <1>5, <1>6 DEF LedgerNext

\* A set of naturals has a least element.
LEMMA LeastOf ==
    ASSUME NEW T, T \subseteq Nat, T # {}
    PROVE  \E x \in T : \A y \in T : x <= y
<1>1. IsWellFoundedOn(OpToRel(<, Nat), Nat)
  BY NatLessThanWellFounded
<1>2. OpToRel(<, Nat) = {ss \in Nat \X Nat : ss[1] < ss[2]}
  BY DEF OpToRel
<1>3. PICK x \in T : \A y \in T : ~(<<y, x>> \in OpToRel(<, Nat))
  <2> DEFINE R == OpToRel(<, Nat)
  <2>1. IsWellFoundedOn(R, Nat)
    BY <1>1
  <2> HIDE DEF R
  <2>2. \E x \in T : \A y \in T : ~(<<y, x>> \in R)
    BY <2>1, WFMin
  <2> QED
    BY <2>2 DEF R
<1>4. \A y \in T : ~(y < x)
  BY <1>2, <1>3
<1> QED
  BY <1>4

\* latestAction finds the last of the actions it is given.
LEMMA LatestIsLast ==
    ASSUME TypeOK, \A a \in Recorded : actions[a].order <= intentRevision,
           NEW S, S \subseteq Recorded, S # {}
    PROVE  Latest(S) \in S /\ \A b \in S : actions[b].order <= actions[Latest(S)].order
<1> DEFINE T == {intentRevision - actions[a].order : a \in S}
<1>1. \A a \in S : actions[a].order \in Nat /\ actions[a].order <= intentRevision
  BY DEF TypeOK, ActionRecords, Recorded
<1>2. T \subseteq Nat /\ T # {} /\ intentRevision \in Nat
  BY <1>1 DEF TypeOK
<1>3. PICK x \in T : \A y \in T : x <= y
  BY <1>2, LeastOf
<1>4. PICK a \in S : x = intentRevision - actions[a].order
  BY <1>3
<1>5. \A b \in S : actions[b].order <= actions[a].order
  <2> TAKE b \in S
  <2>1. intentRevision - actions[a].order <= intentRevision - actions[b].order
    BY <1>3, <1>4
  <2> QED
    BY <1>1, <1>2, <2>1
<1> QED
  BY <1>5 DEF Latest

\* A restarted caller is sent to the furthest durable action, never back to the
\* attachments.
THEOREM LedgerRecoveryObservesFurthest == LedgerSpec => []RecoveryObservesFurthest
<1>1. LedgerInit => RanksFollowLog
  BY DEF LedgerInit, RanksFollowLog, Recorded, OfKind, OfKinds, Absent, FurtherKinds
<1>2. TypeOK /\ RanksFollowLog /\ [LedgerNext]_ledgerVars => RanksFollowLog'
  BY RanksFollowLogStep
<1>3. TypeOK /\ RanksFollowLog => RecoveryObservesFurthest
  <2> SUFFICES ASSUME TypeOK, RanksFollowLog, NEW turn \in TurnObservations,
                      OperationRecovery(turn).kind = "observe_action_postcondition",
                      actions[OperationRecovery(turn).action].kind = "file_handoff"
               PROVE  OfKinds(FurtherKinds) = {}
    BY DEF RecoveryObservesFurthest, FurtherKinds
  <2>1. \A t : OwnedTurnDecision(t).kind # "observe_action_postcondition"
    BY DEF OwnedTurnDecision, Decision
  <2>2. CASE phase \in {"prepared", "handoff_pending"}
    BY <2>2 DEF RanksFollowLog
  <2>3. CASE PendingNonRepeatable # {} /\ phase \notin {"completed", "capturing"}
    <3> DEFINE m == Latest(PendingNonRepeatable)
    <3>1. PendingNonRepeatable \subseteq Recorded
      BY DEF PendingNonRepeatable, OfKinds, Recorded, NonRepeatable
    <3>2. m \in PendingNonRepeatable
            /\ \A b \in PendingNonRepeatable : actions[b].order <= actions[m].order
      BY <2>3, <3>1, LatestIsLast DEF RanksFollowLog
    <3>3. OperationRecovery(turn) = PendingActionDecision(m, turn)
      BY <2>3 DEF OperationRecovery
    <3>4. OperationRecovery(turn).action = m
      BY <2>1, <3>3 DEF PendingActionDecision, Decision
    <3>5. m \in OfKind("file_handoff") /\ m \in ActionId
            /\ phase \in PendingPhases["file_handoff"]
      BY <3>2, <3>4 DEF PendingNonRepeatable, OfKinds, OfKind
    <3>6. phase \in {"prepared", "handoff_pending", "uncertain"}
      BY <3>5 DEF PendingPhases, NonRepeatable
    <3>7. CASE phase = "uncertain"
      <4>1. \A k \in FurtherKinds : k \in NonRepeatable /\ phase \in PendingPhases[k]
        BY <3>7 DEF FurtherKinds, NonRepeatable, PendingPhases
      <4>2. OfKinds(FurtherKinds) \subseteq PendingNonRepeatable
        BY <4>1 DEF OfKinds, PendingNonRepeatable
      <4>3. \A x \in OfKinds(FurtherKinds) :
              actions[m].order < actions[x].order /\ actions[x].order <= actions[m].order
        BY <3>2, <3>5, <4>2 DEF RanksFollowLog
      <4>4. \A b \in ActionId : actions[b].order \in Nat
        BY DEF TypeOK, ActionRecords
      <4> QED
        BY <3>5, <4>3, <4>4 DEF OfKinds
    <3> QED
      BY <2>2, <3>6, <3>7
  <2>4. CASE phase \in {"completed", "capturing"}
    <3>1. \A k \in NonRepeatable : "capturing" \notin PendingPhases[k]
      BY DEF PendingPhases, NonRepeatable
    <3>2. phase = "capturing" => PendingNonRepeatable = {}
      BY <3>1 DEF PendingNonRepeatable, OfKinds
    <3> QED
      BY <2>4, <3>2 DEF OperationRecovery, Decision
  <2>5. CASE PendingNonRepeatable = {} /\ phase = "send_pending"
    <3>1. "send" \in NonRepeatable /\ "send_pending" \in PendingPhases["send"]
      BY DEF PendingPhases, NonRepeatable
    <3>2. OfKind("send") = {}
      BY <2>5, <3>1 DEF PendingNonRepeatable, OfKinds, OfKind
    <3>3. OperationRecovery(turn) = ObserveLatest(OfKind("send"))
      BY <2>5 DEF OperationRecovery
    <3> QED
      BY <3>2, <3>3 DEF ObserveLatest, Decision
  <2>6. CASE /\ PendingNonRepeatable = {}
             /\ phase \in {"ready", "submitted", "generating", "uncertain"}
    BY <2>1, <2>6 DEF OperationRecovery, Decision
  <2> QED
    BY <2>2, <2>3, <2>4, <2>5, <2>6 DEF TypeOK, Phases
<1> QED
  BY <1>1, <1>2, <1>3, LedgerTypeOK, PTL DEF LedgerSpec
=============================================================================
