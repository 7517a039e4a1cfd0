-------------------------- MODULE SubmitOnce_proofs --------------------------
(***************************************************************************)
(* However many callers submit one operation, however often they crash and *)
(* lose acknowledgements, the browser is asked for the handoff and for the *)
(* Send at most once, and nothing is falsely submitted.                    *)
(***************************************************************************)
EXTENDS SubmitOnce, OperationLedger_proofs

\* Callers that hold the right to hand the files over: their own intent is the
\* durable one, and no handoff was made.
Handing == {"handoffReread", "handoffPhase", "handoff"}
\* Callers that hold the right to click.
Sending == {"sendPhase", "execute"}
\* Callers that found the manifest attached, if there is one.
Attached == {"readyReceipt", "readyPhase", "prepareSend", "persistSend"} \cup Sending
\* Callers that saw the turn of the Send.
Witnessing == {"establish", "establishWitness", "evidence", "witness"}
Settling == {"leaveReady", "sendReceipt", "submittedPhase"}
Over == {"idle", "report", "reportFirst"}

Handoffs == OfKind("file_handoff")
Sends == OfKind("send")

MemoType == [phase: Phases, newTarget: BOOLEAN, handoff: ActionId \cup {NoAction},
             handoffDone: BOOLEAN, sendDone: BOOLEAN, mark: BOOLEAN]

TypeInv ==
    /\ withManifest \in BOOLEAN
    /\ pc \in [Submitter -> Labels]
    /\ memo \in [Submitter -> MemoType]
    /\ outcome \in [Submitter -> {"none", "submitted", "blocked", "crashed",
                                  "operation_state_corrupt"}]
    /\ attachments \in {"absent", "partial", "exact"}
    /\ handoffs \in {0, 1} /\ clicks \in {0, 1} /\ turns \in {0, 1}

\* What the browser did is behind what the journal says, and the other way round.
SharedInv ==
    /\ clicks = 1 => Sends # {}
    /\ turns <= clicks
    /\ submissionWitnesses # {} => turns = 1
    /\ handoffs = 1 => Handoffs # {} /\ phase # "prepared"
    /\ attachments # "absent" => handoffs = 1
    /\ Handoffs # {} => withManifest
    /\ \A h \in Handoffs : actions[h].outcome = "satisfied" => handoffs = 1
    /\ withManifest /\ clicks = 1 => handoffs = 1
    /\ withManifest /\ (phase = "ready" \/ Sends # {}) =>
         Handoffs # {} /\ Settled("file_handoff", {"satisfied"})

\* What caller p relies on at label l with h for the handoff it knows of.
Claims(p, l, h) ==
    /\ l \in {"attach", "intendHandoff", "observeHandoff"} \cup Handing => withManifest
    /\ l \in Handing => Handoffs = {HandoffId(p)} /\ handoffs = 0
    /\ l = "handoff" => phase # "prepared"
    /\ l = "observeHandoff" => Handoffs = {HandoffId(p)}
    /\ h # NoAction => Handoffs = {h}
    /\ l \in Attached /\ withManifest =>
         handoffs = 1 /\ (clicks = 0 => attachments = "exact")
    /\ l \in Sending => Sends = {SendId(p)} /\ clicks = 0
    /\ l \in Witnessing \cup Settling => turns = 1
    /\ l \in Settling => Sends \subseteq submissionWitnesses

\* No other caller takes from p what it relies on.
CallerInv(p) ==
    /\ Claims(p, pc[p], memo[p].handoff)
    /\ outcome[p] = "submitted" => OwnedSend

LedgerInv == TypeOK /\ SnapshotReadable /\ SendAfterPreparation

SubmitInv == LedgerInv /\ TypeInv /\ SharedInv /\ \A p \in Submitter : CallerInv(p)

-----------------------------------------------------------------------------
(* What every event of the journal keeps, whoever appends it *)

\* Intents of the single kinds stay the ones they are, preparation is over for
\* good, witnesses and ownership stay.
LEMMA LedgerKeeps ==
    ASSUME LedgerInv, [LedgerNext]_ledgerVars
    PROVE  /\ LedgerInv'
           /\ Handoffs # {} => Handoffs' = Handoffs
           /\ Sends # {} => Sends' = Sends
           /\ phase # "prepared" => phase' # "prepared"
           /\ submissionWitnesses \subseteq submissionWitnesses'
           /\ OwnedSend => OwnedSend'
<1> USE DEF LedgerInv
<1>1. LedgerInv'
  BY LedgerTypeStep, LedgerReadableStep, SendAfterPreparationStep
<1>2. OwnedSend => OwnedSend'
  <2>1. CASE UNCHANGED ledgerVars
    BY <2>1 DEF ledgerVars, OwnedSend, OfKind
  <2> QED
    BY <2>1, LedgerOwnershipStep
<1> DEFINE Kept == /\ Handoffs # {} => Handoffs' = Handoffs
                   /\ Sends # {} => Sends' = Sends
                   /\ phase # "prepared" => phase' # "prepared"
                   /\ submissionWitnesses \subseteq submissionWitnesses'
<1>3. Kept
  <2> USE DEF Handoffs, Sends
  <2>1. ASSUME NEW a \in ActionId, NEW k \in Kinds, Intend(a, k), phase' = phase,
               submissionWitnesses' = submissionWitnesses
        PROVE  Kept
    <3>1. k \in {"file_handoff", "send"} => OfKind(k) = {}
      BY <2>1 DEF Intend, CanIntend, SingleIntentKinds
    <3>2. \A j \in {"file_handoff", "send"} : j # k => OfKind(j)' = OfKind(j)
      BY <2>1, IntendOfKind DEF Kinds
    <3> QED
      BY <2>1, <3>1, <3>2
  <2>2. CASE StagingIntent \/ HandoffIntent \/ StopIntent \/ TransferIntent
    BY <2>1, <2>2 DEF StagingIntent, HandoffIntent, StopIntent, TransferIntent,
       ArtifactTransferIntent, ActionIntent, Kinds
  <2>3. CASE SendPrepared \/ SteerPrepared
    BY <2>1, <2>3 DEF SendPrepared, SteerPrepared, ActionPrepared, Kinds
  <2>4. CASE WriteReceipt
    <3>1. PICK a \in Recorded, o \in Outcomes : ActionReceipt(a, o)
      BY <2>4 DEF WriteReceipt
    <3>2. /\ \A k \in Kinds : OfKind(k)' = OfKind(k)
          /\ phase' = phase /\ submissionWitnesses' = submissionWitnesses
      BY <3>1 DEF ActionReceipt, CanReceipt, Recorded, TypeOK, ActionRecords, OfKind
    <3> QED
      BY <3>2 DEF Kinds
  <2>5. CASE WritePhase
    <3>1. PICK to \in Phases, cause \in ActionId \cup {NoAction}, evidence \in BOOLEAN :
            PhaseChanged(to, cause, evidence)
      BY <2>5 DEF WritePhase
    <3>2. to # "prepared"
      BY <3>1 DEF PhaseChanged, CanChangePhase, LegalEdges, TypeOK, Phases
    <3> QED
      BY <3>1, <3>2 DEF PhaseChanged, OfKind
  <2>6. CASE \/ Complete \/ ContentExpired \/ BindTarget \/ EstablishTarget
             \/ WriteWitness \/ UNCHANGED ledgerVars
    BY <2>6 DEF Complete, ReceiptCompleted, ContentExpired, BindTarget, TargetBound,
       EstablishTarget, TargetEstablished, WriteWitness, SubmissionWitness, ledgerVars,
       OfKind
  <2> QED
    BY <2>2, <2>3, <2>4, <2>5, <2>6 DEF LedgerNext
<1> QED
  BY <1>1, <1>2, <1>3

-----------------------------------------------------------------------------
(* The events a submission appends *)

\* What a caller appends, with what it knows when it does.
SubmitEvent(q) ==
    \/ \E life \in {"fixed", "new_pending"} : TargetBound(life)
    \/ withManifest /\ ActionIntent(HandoffId(q), "file_handoff")
    \/ ActionPrepared(SendId(q), "send")
    \/ \E h \in Handoffs : handoffs = 1 /\ ActionReceipt(h, "satisfied")
    \/ \E s \in Sends : s \in submissionWitnesses /\ ActionReceipt(s, "satisfied")
    \/ \E s \in Sends : turns = 1 /\ SubmissionWitness(s)
    \/ \E s \in Sends : TargetEstablished(s)
    \/ \E to \in Phases, cause \in ActionId \cup {NoAction} :
          /\ to = "uncertain" => mutationBoundary # "none"
          /\ to = "ready" /\ withManifest => handoffs = 1
          /\ PhaseChanged(to, cause, TRUE)

\* One append at most, and the browser is not involved.
AppendOnly(q) ==
    /\ SubmitEvent(q) \/ UNCHANGED ledgerVars
    /\ UNCHANGED browserVars

\* The identities callers mint are ones an operation may record.
LEMMA IdsRecordable ==
    \A p \in Submitter : HandoffId(p) \in ActionId /\ SendId(p) \in ActionId
  BY SubmitAssumption

\* Each event a caller appends is one of the ledger's.
LEMMA SubmitEventIsLedgerStep ==
    ASSUME NEW q \in Submitter, SubmitEvent(q)
    PROVE  LedgerNext
<1>1. CASE \E life \in {"fixed", "new_pending"} : TargetBound(life)
  BY <1>1 DEF LedgerNext, BindTarget
<1>2. CASE ActionIntent(HandoffId(q), "file_handoff")
  BY <1>2, IdsRecordable DEF LedgerNext, HandoffIntent
<1>3. CASE ActionPrepared(SendId(q), "send")
  BY <1>3, IdsRecordable DEF LedgerNext, SendPrepared
<1>4. CASE \E h \in Handoffs : ActionReceipt(h, "satisfied")
  <2>1. PICK h \in Handoffs : ActionReceipt(h, "satisfied")
    BY <1>4
  <2>2. h \in Recorded /\ actions[h].kind = "file_handoff"
    BY DEF Handoffs, OfKind, Recorded
  <2>3. ReceiptWritten(h, "satisfied")
    BY <2>2 DEF ReceiptWritten
  <2> QED
    BY <2>1, <2>2, <2>3 DEF LedgerNext, WriteReceipt, Outcomes
<1>5. CASE \E s \in Sends : s \in submissionWitnesses /\ ActionReceipt(s, "satisfied")
  <2>1. PICK s \in Sends : s \in submissionWitnesses /\ ActionReceipt(s, "satisfied")
    BY <1>5
  <2>2. s \in Recorded /\ actions[s].kind = "send"
    BY DEF Sends, OfKind, Recorded
  <2>3. ReceiptWritten(s, "satisfied")
    BY <2>1, <2>2 DEF ReceiptWritten
  <2> QED
    BY <2>1, <2>2, <2>3 DEF LedgerNext, WriteReceipt, Outcomes
<1>6. CASE \E s \in Sends : SubmissionWitness(s)
  BY <1>6 DEF LedgerNext, WriteWitness, Sends, OfKind, Recorded
<1>7. CASE \E s \in Sends : TargetEstablished(s)
  BY <1>7 DEF LedgerNext, EstablishTarget, Sends, OfKind
<1>8. CASE \E to \in Phases, cause \in ActionId \cup {NoAction} :
              /\ to = "uncertain" => mutationBoundary # "none"
              /\ PhaseChanged(to, cause, TRUE)
  BY <1>8 DEF LedgerNext, WritePhase, PhaseWritten
<1> QED
  BY <1>1, <1>2, <1>3, <1>4, <1>5, <1>6, <1>7, <1>8 DEF SubmitEvent

\* A receipt keeps the kinds of all actions and settles one.
LEMMA ReceiptKeeps ==
    ASSUME TypeOK, NEW a \in ActionId, ActionReceipt(a, "satisfied")
    PROVE  /\ Handoffs' = Handoffs /\ Sends' = Sends
           /\ \A b \in ActionId : b # a => actions'[b] = actions[b]
           /\ actions'[a].outcome = "satisfied"
           /\ phase' = phase /\ submissionWitnesses' = submissionWitnesses
  BY DEF TypeOK, ActionReceipt, CanReceipt, ActionRecords, Handoffs, Sends, OfKind

\* No append of a caller makes the journal claim more than the browser did.
LEMMA AppendKeepsShared ==
    ASSUME SubmitInv, NEW q \in Submitter, AppendOnly(q), withManifest' = withManifest
    PROVE  SharedInv'
<1> USE DEF SubmitInv, LedgerInv, AppendOnly, browserVars
<1>0. /\ handoffs' = handoffs /\ clicks' = clicks /\ turns' = turns
      /\ attachments' = attachments
  OBVIOUS
<1>1. CASE UNCHANGED ledgerVars
  BY <1>0, <1>1 DEF ledgerVars, SharedInv, Handoffs, Sends, OfKind, Settled
<1>2. CASE \/ \E life \in {"fixed", "new_pending"} : TargetBound(life)
           \/ \E s \in Sends : TargetEstablished(s)
  BY <1>0, <1>2 DEF TargetBound, TargetEstablished, SharedInv, Handoffs, Sends,
     OfKind, Settled
<1>3. CASE withManifest /\ ActionIntent(HandoffId(q), "file_handoff")
  <2>1. /\ Intend(HandoffId(q), "file_handoff") /\ HandoffId(q) \in ActionId
        /\ phase' = phase /\ submissionWitnesses' = submissionWitnesses
    BY <1>3, IdsRecordable DEF ActionIntent
  <2>2. Handoffs' = {HandoffId(q)} /\ Sends' = Sends /\ Handoffs = {}
    BY <2>1, IntendOfKind DEF Handoffs, Sends, Kinds, Intend, CanIntend, SingleIntentKinds
  <2>3. actions'[HandoffId(q)].outcome = "none"
    BY <2>1, IntendKinds DEF Intended, Kinds
  <2>4. Sends = {} /\ phase = "prepared"
    BY <2>1 DEF Intend, CanIntend, ActionPhase, Kinds, SendAfterPreparation, Sends
  <2> QED
    BY <1>0, <1>3, <2>1, <2>2, <2>3, <2>4 DEF SharedInv
<1>4. CASE ActionPrepared(SendId(q), "send")
  <2>1. /\ Intend(SendId(q), "send") /\ SendId(q) \in ActionId
        /\ phase' = phase /\ submissionWitnesses' = submissionWitnesses
    BY <1>4, IdsRecordable DEF ActionPrepared
  <2>2. Handoffs' = Handoffs /\ Sends' = {SendId(q)} /\ Sends = {}
    BY <2>1, IntendOfKind DEF Handoffs, Sends, Kinds, Intend, CanIntend, SingleIntentKinds
  <2>3. \A h \in Handoffs : actions'[h] = actions[h]
    BY <2>1, IntendKinds DEF Handoffs, OfKind, Kinds
  <2>4. phase = "ready"
    BY <2>1 DEF Intend, CanIntend, ActionPhase, Kinds
  <2>5. Settled("file_handoff", {"satisfied"}) => Settled("file_handoff", {"satisfied"})'
    BY <2>2, <2>3 DEF Settled, Handoffs
  <2> QED
    BY <1>0, <2>1, <2>2, <2>3, <2>4, <2>5 DEF SharedInv
<1>5. CASE \E h \in Handoffs : handoffs = 1 /\ ActionReceipt(h, "satisfied")
  <2>1. PICK h \in Handoffs : handoffs = 1 /\ ActionReceipt(h, "satisfied")
    BY <1>5
  <2>2. h \in ActionId
    BY DEF Handoffs, OfKind
  <2>3. Settled("file_handoff", {"satisfied"}) => Settled("file_handoff", {"satisfied"})'
    BY <2>1, <2>2, ReceiptKeeps DEF Settled, Handoffs, OfKind
  <2> QED
    BY <1>0, <2>1, <2>2, <2>3, ReceiptKeeps DEF SharedInv
<1>6. CASE \E s \in Sends : s \in submissionWitnesses /\ ActionReceipt(s, "satisfied")
  <2>1. PICK s \in Sends : s \in submissionWitnesses /\ ActionReceipt(s, "satisfied")
    BY <1>6
  <2>2. s \in ActionId /\ s \notin Handoffs
    BY DEF Handoffs, Sends, OfKind
  <2>3. \A h \in Handoffs : actions'[h] = actions[h]
    BY <2>1, <2>2, ReceiptKeeps DEF Handoffs, OfKind
  <2>4. Settled("file_handoff", {"satisfied"}) => Settled("file_handoff", {"satisfied"})'
    BY <2>1, <2>2, <2>3, ReceiptKeeps DEF Settled, Handoffs
  <2> QED
    BY <1>0, <2>1, <2>2, <2>3, <2>4, ReceiptKeeps DEF SharedInv
<1>7. CASE \E s \in Sends : turns = 1 /\ SubmissionWitness(s)
  BY <1>0, <1>7 DEF SubmissionWitness, SharedInv, Handoffs, Sends, OfKind, Settled
<1>8. ASSUME NEW to \in Phases, NEW cause \in ActionId \cup {NoAction},
             to = "ready" /\ withManifest => handoffs = 1,
             PhaseChanged(to, cause, TRUE)
      PROVE  SharedInv'
  <2>1. /\ phase' = to /\ actions' = actions
        /\ submissionWitnesses' = submissionWitnesses
        /\ CausedTransition(to, cause, TRUE) /\ to \in LegalEdges[phase]
        /\ cause \in Recorded \cup {NoAction}
    BY <1>8 DEF PhaseChanged, CanChangePhase
  <2>2. /\ Handoffs' = Handoffs /\ Sends' = Sends
        /\ Settled("file_handoff", {"satisfied"})' <=> Settled("file_handoff", {"satisfied"})
    BY <2>1 DEF Handoffs, Sends, OfKind, Settled
  <2>3. to # "prepared"
    BY <2>1 DEF LegalEdges, TypeOK, Phases
  <2>4. \A a, b \in Handoffs : a = b
    BY DEF SnapshotReadable, SingletonIntents, SingleIntentKinds, Handoffs, OfKind, Recorded
  <2>5. ASSUME to = "ready", withManifest
        PROVE  Handoffs # {} /\ Settled("file_handoff", {"satisfied"})
    <3>1. phase \in {"handoff_pending", "uncertain"}
      <4>1. phase # "prepared"
        BY <1>8, <2>5 DEF SharedInv
      <4> QED
        BY <2>1, <2>5, <4>1 DEF LegalEdges, TypeOK, Phases
    <3>2. cause \in Handoffs /\ actions[cause].outcome = "satisfied"
      BY <2>1, <2>5, <3>1 DEF CausedTransition, CauseIs, Handoffs, OfKind, Recorded
    <3> QED
      BY <2>4, <3>2 DEF Settled, Handoffs
  <2> QED
    BY <1>0, <2>1, <2>2, <2>3, <2>5 DEF SharedInv
<1> QED
  BY <1>1, <1>2, <1>3, <1>4, <1>5, <1>6, <1>7, <1>8 DEF SubmitEvent

-----------------------------------------------------------------------------
(* The steps of one caller *)

\* A step that is q's alone.
CallerStep(q) ==
    /\ pc' \in [Submitter -> Labels]
    /\ memo' \in [Submitter -> MemoType]
    /\ outcome' \in [Submitter -> {"none", "submitted", "blocked", "crashed",
                                   "operation_state_corrupt"}]
    /\ withManifest' = withManifest
    /\ \A p \in Submitter \ {q} :
          pc'[p] = pc[p] /\ memo'[p] = memo[p] /\ outcome'[p] = outcome[p]

\* q goes on at label l and remembers what it did.
Moved(q, l) ==
    /\ CallerStep(q)
    /\ pc'[q] = l /\ memo'[q] = memo[q] /\ outcome'[q] = outcome[q]

\* q's call is over, without success.
Gone(q) ==
    /\ CallerStep(q)
    /\ pc'[q] \in Over /\ memo'[q].handoff = NoAction
    /\ outcome'[q] = outcome[q] \/ outcome'[q] # "submitted"

\* What a caller knows at the start of a call, and when it reports.
LEMMA BlankTyped ==
    /\ Blank \in MemoType /\ Blank.handoff = NoAction
    /\ [Blank EXCEPT !.mark = TRUE] \in MemoType
    /\ [Blank EXCEPT !.mark = TRUE].handoff = NoAction
  BY DEF Blank, MemoType, Phases

\* Going to a label moves one caller.
LEMMA GotoMoves ==
    ASSUME TypeInv, withManifest' = withManifest, NEW q \in Submitter,
           NEW l \in Labels, Goto(q, l), Keep
    PROVE  Moved(q, l)
  BY DEF TypeInv, Goto, Keep, Moved, CallerStep

\* A call that returns a blocker, or dies, is over.
LEMMA LeaveGoes ==
    ASSUME TypeInv, withManifest' = withManifest, NEW q \in Submitter,
           \/ \E mark : Leave(q, mark) \/ LeaveTwice(q, mark)
           \/ \E r \in {"blocked", "crashed", "operation_state_corrupt"} : Return(q, r)
    PROVE  Gone(q)
<1>1. ASSUME NEW r \in {"blocked", "crashed", "operation_state_corrupt"}, Return(q, r)
      PROVE  Gone(q)
  BY <1>1, BlankTyped DEF TypeInv, Return, Goto, Gone, CallerStep, Over, Labels
<1>2. ASSUME NEW l \in {"report", "reportFirst"}, Goto(q, l),
             memo' = [memo EXCEPT ![q] = [Blank EXCEPT !.mark = TRUE]],
             UNCHANGED outcome
      PROVE  Gone(q)
  BY <1>2, BlankTyped DEF TypeInv, Goto, Gone, CallerStep, Over, Labels
<1> QED
  BY <1>1, <1>2 DEF Leave, LeaveTwice

\* A caller whose call is over relies on nothing.
LEMMA GoneKeeps ==
    ASSUME SubmitInv, NEW q \in Submitter, Gone(q), OwnedSend => OwnedSend'
    PROVE  CallerInv(q)'
  BY DEF SubmitInv, CallerInv, Claims, Gone, Over, Handing, Sending, Attached, Witnessing, Settling

\* What another step may change of what caller p relies on.
Undisturbed(p) ==
    /\ handoffs' # handoffs =>
         Handoffs # {HandoffId(p)} /\ handoffs = 0 /\ handoffs' = 1
    /\ clicks' # clicks => Sends # {SendId(p)} /\ clicks = 0 /\ clicks' = 1
    /\ turns' >= turns /\ turns' \in {0, 1}
    /\ clicks' = 0 /\ attachments = "exact" => attachments' = "exact"

\* A step that leaves p undisturbed leaves p its claims.
LEMMA OthersKeep ==
    ASSUME SubmitInv, NEW p \in Submitter, [LedgerNext]_ledgerVars, Undisturbed(p),
           withManifest' = withManifest, pc'[p] = pc[p], memo'[p] = memo[p],
           outcome'[p] = outcome[p]
    PROVE  CallerInv(p)'
<1> USE DEF SubmitInv
<1>1. /\ Handoffs # {} => Handoffs' = Handoffs
      /\ Sends # {} => Sends' = Sends
      /\ phase # "prepared" => phase' # "prepared"
      /\ submissionWitnesses \subseteq submissionWitnesses'
      /\ OwnedSend => OwnedSend'
  BY LedgerKeeps
<1>2. CallerInv(p) /\ handoffs \in {0, 1} /\ clicks \in {0, 1} /\ turns \in {0, 1}
  BY DEF TypeInv
<1>3. turns = 1 => Sends # {}
  BY DEF TypeInv, SharedInv
<1>4. handoffs = 1 => handoffs' = 1
  BY <1>2 DEF Undisturbed
<1>5. clicks' = 0 => clicks = 0
  BY <1>2 DEF Undisturbed
<1>6. pc[p] \in Handing => Handoffs' = {HandoffId(p)} /\ handoffs' = 0
  BY <1>1, <1>2 DEF CallerInv, Claims, Undisturbed
<1>7. pc[p] \in Sending => Sends' = {SendId(p)} /\ clicks' = 0
  BY <1>1, <1>2 DEF CallerInv, Claims, Undisturbed
<1>8. turns = 1 => turns' = 1
  BY <1>2 DEF Undisturbed
<1>9. pc[p] \in Settling => Sends' \subseteq submissionWitnesses'
  BY <1>1, <1>2, <1>3 DEF CallerInv, Claims
<1>10. pc[p] \in Attached /\ withManifest =>
         handoffs' = 1 /\ (clicks' = 0 => attachments' = "exact")
  BY <1>2, <1>4, <1>5 DEF CallerInv, Claims, Undisturbed
<1>11. memo[p].handoff # NoAction => Handoffs' = {memo[p].handoff}
  BY <1>1, <1>2 DEF CallerInv, Claims
<1>12. pc[p] = "observeHandoff" => Handoffs' = {HandoffId(p)}
  BY <1>1, <1>2 DEF CallerInv, Claims
<1> QED
  BY <1>1, <1>2, <1>6, <1>7, <1>8, <1>9, <1>10, <1>11, <1>12 DEF CallerInv, Claims

\* A caller's step that asks nothing of the browser keeps the invariant if it
\* keeps what the caller itself relies on.
LEMMA CallerKeeps ==
    ASSUME SubmitInv, NEW q \in Submitter, AppendOnly(q), CallerStep(q), CallerInv(q)'
    PROVE  SubmitInv' /\ [LedgerNext]_ledgerVars
<1> USE DEF SubmitInv
<1>1. [LedgerNext]_ledgerVars
  BY SubmitEventIsLedgerStep DEF AppendOnly
<1>2. LedgerInv'
  BY <1>1, LedgerKeeps
<1>3. SharedInv'
  BY AppendKeepsShared DEF CallerStep
<1>4. TypeInv'
  BY DEF TypeInv, CallerStep, AppendOnly, browserVars
<1>5. ASSUME NEW p \in Submitter PROVE CallerInv(p)'
  <2>1. CASE p = q
    BY <2>1
  <2>2. CASE p # q
    <3>1. Undisturbed(p)
      BY DEF Undisturbed, AppendOnly, browserVars, TypeInv
    <3> QED
      BY <1>1, <2>2, <3>1, OthersKeep DEF CallerStep
  <2> QED
    BY <2>1, <2>2
<1> QED
  BY <1>1, <1>2, <1>3, <1>4, <1>5

\* What a caller's own append leaves as it was.
LEMMA AppendKeeps ==
    ASSUME SubmitInv, NEW q \in Submitter, AppendOnly(q)
    PROVE  /\ Handoffs # {} => Handoffs' = Handoffs
           /\ Sends # {} => Sends' = Sends
           /\ phase # "prepared" => phase' # "prepared"
           /\ submissionWitnesses \subseteq submissionWitnesses'
           /\ OwnedSend => OwnedSend'
           /\ handoffs' = handoffs /\ clicks' = clicks /\ turns' = turns
           /\ attachments' = attachments
<1>1. [LedgerNext]_ledgerVars
  BY SubmitEventIsLedgerStep DEF AppendOnly
<1> QED
  BY <1>1, LedgerKeeps DEF SubmitInv, AppendOnly, browserVars

-----------------------------------------------------------------------------
(* Every step of a program: it appends at most one event, and leaves the    *)
(* caller with claims that hold                                             *)

Sound(q) == AppendOnly(q) /\ CallerStep(q) /\ CallerInv(q)'

\* An append takes no claim from its caller.
LEMMA ClaimsKeep ==
    ASSUME SubmitInv, NEW q \in Submitter, AppendOnly(q), withManifest' = withManifest,
           NEW l \in Labels, NEW h, Claims(q, l, h)
    PROVE  Claims(q, l, h)'
<1>1. turns = 1 => Sends # {}
  BY DEF SubmitInv, TypeInv, SharedInv
<1> QED
  BY <1>1, AppendKeeps DEF Claims

\* A caller that goes on to a label whose claims hold already, or hold now.
LEMMA GoSound ==
    ASSUME SubmitInv, NEW q \in Submitter, AppendOnly(q), withManifest' = withManifest,
           NEW l \in Labels, Goto(q, l), Keep,
           Claims(q, l, memo[q].handoff) \/ Claims(q, l, memo[q].handoff)'
    PROVE  Sound(q)
<1>1. Moved(q, l)
  BY GotoMoves DEF SubmitInv
<1>2. Claims(q, l, memo[q].handoff)'
  BY ClaimsKeep, <1>1 DEF Moved, Keep
<1> QED
  BY <1>1, <1>2, AppendKeeps DEF Sound, Moved, CallerInv, SubmitInv

\* A caller that stops relies on nothing any more.
LEMMA StopSound ==
    ASSUME SubmitInv, NEW q \in Submitter, AppendOnly(q), withManifest' = withManifest,
           \/ \E mark : Leave(q, mark) \/ LeaveTwice(q, mark)
           \/ \E r \in {"blocked", "crashed", "operation_state_corrupt"} : Return(q, r)
    PROVE  Sound(q)
<1>1. Gone(q)
  BY LeaveGoes DEF SubmitInv
<1> QED
  BY <1>1, AppendKeeps, GoneKeeps DEF Gone, Sound

\* The one handoff and the one Send of an operation that has them.
LEMMA Singles ==
    ASSUME LedgerInv
    PROVE  /\ Handoffs # {} => TheHandoff \in ActionId /\ Handoffs = {TheHandoff}
           /\ Sends # {} => TheSend \in ActionId /\ Sends = {TheSend}
<1>1. /\ \A a, b \in Handoffs : a = b
      /\ \A a, b \in Sends : a = b
  BY DEF LedgerInv, SnapshotReadable, SingletonIntents, SingleIntentKinds, Handoffs,
     Sends, OfKind, Recorded
<1>2. Handoffs # {} => TheHandoff \in Handoffs
  BY DEF TheHandoff, Handoffs, OfKind
<1>3. Sends # {} => TheSend \in Sends
  BY DEF TheSend, Sends, OfKind
<1> QED
  BY <1>1, <1>2, <1>3 DEF Handoffs, Sends, OfKind

\* A call begins with no claims.
LEMMA BeginSound ==
    ASSUME SubmitInv, NEW q \in Submitter, withManifest' = withManifest, Begin(q)
    PROVE  Sound(q)
<1>1. AppendOnly(q)
  BY DEF Begin, AppendOnly, SubmitEvent
<1>2. CallerStep(q) /\ pc'[q] = "load" /\ memo'[q].handoff = NoAction
        /\ outcome'[q] = "none"
  BY BlankTyped DEF Begin, Goto, SubmitInv, TypeInv, CallerStep, Labels
<1>3. CallerInv(q)'
  BY <1>2 DEF CallerInv, Claims, Handing, Sending, Attached, Witnessing, Settling
<1> QED
  BY <1>1, <1>2, <1>3 DEF Sound

\* The snapshot names the one handoff the journal has.
LEMMA LoadSound ==
    ASSUME SubmitInv, NEW q \in Submitter, withManifest' = withManifest, Load(q)
    PROVE  Sound(q)
<1>1. AppendOnly(q)
  BY DEF Load, ReadOnly, AppendOnly
<1>2. CASE ~CoherentSubmission
  BY <1>1, <1>2, StopSound DEF Load
<1>3. CASE CoherentSubmission
  <2>1. PICK h \in ActionId \cup {NoAction} :
          /\ h = IF OfKind("file_handoff") = {} THEN NoAction ELSE TheHandoff
          /\ h # NoAction => Handoffs = {h}
    BY Singles DEF SubmitInv, Handoffs
  <2>2. PICK l \in {"reconcile", "stage"} : Goto(q, l)
    BY <1>3 DEF Load
  <2>3. phase \in Phases /\ TypeInv
    BY DEF SubmitInv, LedgerInv, TypeOK
  <2>4. PICK m \in MemoType : m.handoff = h /\ memo' = [memo EXCEPT ![q] = m]
    BY <1>3, <2>1, <2>3 DEF Load, MemoType
  <2>5. CallerStep(q) /\ pc'[q] = l /\ memo'[q].handoff = h /\ outcome'[q] = outcome[q]
    BY <1>3, <2>2, <2>3, <2>4 DEF Load, Goto, TypeInv, CallerStep, Labels
  <2>6. Claims(q, l, h)
    BY <2>1 DEF Claims, Handing, Sending, Attached, Witnessing, Settling
  <2>7. Claims(q, l, h)'
    BY <1>1, <2>6, ClaimsKeep DEF Labels
  <2> QED
    BY <1>1, <2>5, <2>7, AppendKeeps DEF Sound, CallerInv, SubmitInv
<1> QED
  BY <1>2, <1>3

\* Reading the page or the journal appends nothing.
LEMMA ReadsAppendNothing ==
    ASSUME NEW q \in Submitter, ReadOnly
    PROVE  AppendOnly(q)
  BY DEF ReadOnly, AppendOnly

\* Looking at the page and at the manifest.
LEMMA LookSound ==
    ASSUME SubmitInv, NEW q \in Submitter, withManifest' = withManifest,
           Stage(q) \/ Attach(q) \/ HandoffReread(q)
    PROVE  Sound(q)
<1>1. AppendOnly(q)
  BY ReadsAppendNothing DEF Stage, Attach, HandoffReread
<1>2. Claims(q, pc[q], memo[q].handoff)
  BY DEF SubmitInv, CallerInv
<1>3. CASE \E mark : Leave(q, mark)
  BY <1>1, <1>3, StopSound
<1>4. CASE Stage(q)
  <2>1. CASE Goto(q, IF withManifest THEN "attach" ELSE "readyReceipt") /\ Keep
    <3>1. PICK l \in {"attach", "readyReceipt"} :
            l = IF withManifest THEN "attach" ELSE "readyReceipt"
      OBVIOUS
    <3>2. Claims(q, l, memo[q].handoff)
      BY <1>2, <3>1 DEF Claims, Handing, Sending, Attached, Witnessing, Settling
    <3> QED
      BY <1>1, <2>1, <3>1, <3>2, GoSound DEF Labels
  <2> QED
    BY <1>3, <1>4, <2>1 DEF Stage
<1>5. CASE Attach(q)
  <2>1. withManifest
    BY <1>2, <1>5 DEF Attach, At, Claims
  <2>2. CASE attachments = "exact" /\ Goto(q, "readyReceipt") /\ Keep
    <3>1. handoffs = 1
      BY <2>2 DEF SubmitInv, SharedInv
    <3>2. Claims(q, "readyReceipt", memo[q].handoff)
      BY <1>2, <2>2, <3>1 DEF Claims, Handing, Sending, Attached, Witnessing, Settling
    <3> QED
      BY <1>1, <2>2, <3>2, GoSound DEF Labels
  <2>3. CASE Goto(q, "intendHandoff") /\ Keep
    <3>1. Claims(q, "intendHandoff", memo[q].handoff)
      BY <1>2, <2>1 DEF Claims, Handing, Sending, Attached, Witnessing, Settling
    <3> QED
      BY <1>1, <2>3, <3>1, GoSound DEF Labels
  <2>4. attachments \in {"absent", "partial", "exact"}
    BY DEF SubmitInv, TypeInv
  <2> QED
    BY <1>3, <1>5, <2>2, <2>3, <2>4 DEF Attach
<1>6. CASE HandoffReread(q)
  <2>1. PICK l \in {"handoffPhase", "handoff"} :
          l = IF phase = "prepared" THEN "handoffPhase" ELSE "handoff"
    OBVIOUS
  <2>2. Claims(q, l, memo[q].handoff)
    BY <1>2, <1>6, <2>1
       DEF HandoffReread, At, Claims, Handing, Sending, Attached, Witnessing, Settling
  <2> QED
    BY <1>1, <1>6, <2>1, <2>2, GoSound DEF HandoffReread, Labels
<1> QED
  BY <1>4, <1>5, <1>6

\* What a caller reads between its appends.
LEMMA ReadSound ==
    ASSUME SubmitInv, NEW q \in Submitter, withManifest' = withManifest,
           \/ PrepareSend(q) \/ ExecuteNothing(q) \/ Verify(q) \/ Reconcile(q)
    PROVE  Sound(q)
<1>1. AppendOnly(q)
  BY ReadsAppendNothing DEF PrepareSend, ExecuteNothing, Verify, Reconcile
<1>2. Claims(q, pc[q], memo[q].handoff)
  BY DEF SubmitInv, CallerInv
<1>3. CASE \E mark : Leave(q, mark) \/ LeaveTwice(q, mark)
  BY <1>1, <1>3, StopSound
<1>4. CASE At(q, "prepareSend") /\ Goto(q, "persistSend") /\ Keep
  <2>1. Claims(q, "persistSend", memo[q].handoff)
    BY <1>2, <1>4 DEF At, Claims, Handing, Sending, Attached, Witnessing, Settling
  <2> QED
    BY <1>1, <1>4, <2>1, GoSound DEF Labels
<1>5. CASE Goto(q, "verify") /\ Keep
  <2>1. Claims(q, "verify", memo[q].handoff)
    BY <1>2 DEF Claims, Handing, Sending, Attached, Witnessing, Settling
  <2> QED
    BY <1>1, <1>5, <2>1, GoSound DEF Labels
<1>6. CASE turns > 0 /\ Goto(q, "establish") /\ Keep
  <2>1. turns = 1
    BY <1>6 DEF SubmitInv, TypeInv
  <2>2. Claims(q, "establish", memo[q].handoff)
    BY <1>2, <2>1 DEF Claims, Handing, Sending, Attached, Witnessing, Settling
  <2> QED
    BY <1>1, <1>6, <2>2, GoSound DEF Labels
<1> QED
  BY <1>3, <1>4, <1>5, <1>6 DEF PrepareSend, ExecuteNothing, Verify, Reconcile

\* A handoff is taken for done only when the manifest is attached.
LEMMA ObserveHandoffSound ==
    ASSUME SubmitInv, NEW q \in Submitter, withManifest' = withManifest, ObserveHandoff(q)
    PROVE  Sound(q)
<1>1. AppendOnly(q)
  BY ReadsAppendNothing DEF ObserveHandoff
<1>2. Claims(q, "observeHandoff", memo[q].handoff)
  BY DEF SubmitInv, CallerInv, ObserveHandoff, At
<1>3. CASE \E mark \in BOOLEAN : Leave(q, mark)
  BY <1>1, <1>3, StopSound
<1>4. CASE /\ attachments = "exact"
           /\ Goto(q, "readyReceipt")
           /\ memo' = [memo EXCEPT ![q].handoff = HandoffId(q)]
           /\ UNCHANGED outcome
  <2>1. handoffs = 1
    BY <1>4 DEF SubmitInv, SharedInv
  <2>2. Claims(q, "readyReceipt", HandoffId(q))
    BY <1>2, <1>4, <2>1 DEF Claims, Handing, Sending, Attached, Witnessing, Settling
  <2>3. Claims(q, "readyReceipt", HandoffId(q))'
    BY <1>1, <2>2, ClaimsKeep DEF Labels
  <2>4. /\ CallerStep(q) /\ pc'[q] = "readyReceipt" /\ outcome'[q] = outcome[q]
        /\ memo'[q].handoff = HandoffId(q)
    BY <1>4, IdsRecordable DEF Goto, SubmitInv, TypeInv, CallerStep, Labels, MemoType
  <2> QED
    BY <1>1, <2>3, <2>4, AppendKeeps DEF Sound, CallerInv, SubmitInv, HandoffId
<1> QED
  BY <1>3, <1>4 DEF ObserveHandoff

\* Cancellation and crash end a call wherever it is.
LEMMA StopsSound ==
    ASSUME SubmitInv, NEW q \in Submitter, withManifest' = withManifest,
           Cancel(q) \/ Crash(q)
    PROVE  Sound(q)
<1>1. AppendOnly(q)
  BY DEF Cancel, Crash, ReadOnly, AppendOnly
<1>2. CASE Cancel(q)
  BY <1>1, <1>2, StopSound DEF Cancel
<1>3. CASE Crash(q)
  BY <1>1, <1>3, StopSound DEF Crash
<1> QED
  BY <1>2, <1>3

-----------------------------------------------------------------------------
(* The appends of the attachment and of the Send *)

\* The intent of a handoff gives its caller the right to hand the files over.
LEMMA IntentHands ==
    ASSUME SubmitInv, NEW q \in Submitter, withManifest' = withManifest,
           At(q, "intendHandoff"), UNCHANGED browserVars,
           ActionIntent(HandoffId(q), "file_handoff"), Keep,
           NEW l \in {"handoffReread", "handoffPhase"}
    PROVE  Claims(q, l, memo[q].handoff)'
<1>1. Claims(q, "intendHandoff", memo[q].handoff)
  BY DEF SubmitInv, CallerInv, At
<1>2. AppendOnly(q)
  BY <1>1 DEF AppendOnly, SubmitEvent, Claims
<1>3. Intend(HandoffId(q), "file_handoff") /\ HandoffId(q) \in ActionId
  BY IdsRecordable DEF ActionIntent
<1>4. Handoffs = {} /\ Handoffs' = {HandoffId(q)}
  BY <1>3, IntendOfKind DEF Handoffs, Kinds, Intend, CanIntend, SingleIntentKinds,
     SubmitInv, LedgerInv
<1>5. memo[q].handoff = NoAction
  BY <1>1, <1>4 DEF Claims
<1>6. handoffs = 0
  BY <1>4 DEF SubmitInv, TypeInv, SharedInv
<1> QED
  BY <1>1, <1>2, <1>4, <1>5, <1>6, AppendKeeps
     DEF Keep, Claims, Handing, Sending, Attached, Witnessing, Settling

\* The right to hand over is given only with the caller's own intent.
LEMMA HandoffIntentSound ==
    ASSUME SubmitInv, NEW q \in Submitter, withManifest' = withManifest,
           IntendHandoff(q) \/ IntendHandoffUnacknowledged(q)
    PROVE  Sound(q)
<1> USE DEF IntendHandoff, IntendHandoffUnacknowledged, JournalOnly
<1>1. At(q, "intendHandoff") /\ UNCHANGED browserVars
  OBVIOUS
<1>2. withManifest
  BY <1>1 DEF SubmitInv, CallerInv, Claims, At
<1>3. ActionIntent(HandoffId(q), "file_handoff") \/ UNCHANGED ledgerVars
  BY DEF Append
<1>4. AppendOnly(q)
  BY <1>1, <1>2, <1>3 DEF AppendOnly, SubmitEvent
<1>5. \/ Leave(q, FALSE)
      \/ \E l \in {"handoffReread", "handoffPhase"} :
            ActionIntent(HandoffId(q), "file_handoff") /\ Goto(q, l) /\ Keep
  BY DEF Append
<1>6. CASE Leave(q, FALSE)
  BY <1>4, <1>6, StopSound
<1>7. ASSUME NEW l \in {"handoffReread", "handoffPhase"},
             ActionIntent(HandoffId(q), "file_handoff"), Goto(q, l), Keep
      PROVE  Sound(q)
  BY <1>1, <1>4, <1>7, IntentHands, GoSound DEF Labels
<1> QED
  BY <1>5, <1>6, <1>7

\* Once the phase has left prepared, or had, the holder may hand over.
LEMMA HandoffPhaseSound ==
    ASSUME SubmitInv, NEW q \in Submitter, withManifest' = withManifest, HandoffPhase(q)
    PROVE  Sound(q)
<1> USE DEF HandoffPhase, JournalOnly
<1>1. Claims(q, "handoffPhase", memo[q].handoff) /\ UNCHANGED browserVars
  BY DEF SubmitInv, CallerInv, At
<1>2. \/ UNCHANGED ledgerVars
      \/ PhaseChanged("handoff_pending", HandoffId(q), TRUE)
  BY DEF AppendPhase, Append
<1>3. AppendOnly(q)
  BY <1>1, <1>2, IdsRecordable DEF AppendOnly, SubmitEvent, Phases
<1>4. CASE Leave(q, FALSE)
  BY <1>3, <1>4, StopSound
<1>5. CASE Goto(q, "handoff") /\ Keep /\ phase' # "prepared"
  <2>1. Claims(q, "handoffPhase", memo[q].handoff)'
    BY <1>1, <1>3, <1>5, ClaimsKeep DEF Labels, Keep
  <2>2. Claims(q, "handoff", memo[q].handoff)'
    BY <1>5, <2>1 DEF Claims, Handing, Sending, Attached, Witnessing, Settling
  <2> QED
    BY <1>3, <1>5, <2>2, GoSound DEF Labels
<1>6. PhaseReached(phase, "handoff_pending") => phase # "prepared"
  BY DEF PhaseReached, PhaseOrder, Phases
<1>7. CASE Goto(q, "handoff") /\ Keep /\ phase' = "prepared"
  <2>1. PhaseReached(phase, "handoff_pending") /\ phase' = phase
    BY <1>7 DEF AppendPhase, Append, Leave, Return, Goto, PhaseChanged, ledgerVars,
       SubmitInv, TypeInv
  <2> QED
    BY <1>6, <1>7, <2>1
<1> QED
  BY <1>4, <1>5, <1>7 DEF AppendPhase, Append

\* The handoff is called done only after it was made.
LEMMA ReadyReceiptSound ==
    ASSUME SubmitInv, NEW q \in Submitter, withManifest' = withManifest, ReadyReceipt(q)
    PROVE  Sound(q)
<1> USE DEF ReadyReceipt, JournalOnly
<1>1. Claims(q, "readyReceipt", memo[q].handoff) /\ UNCHANGED browserVars
  BY DEF SubmitInv, CallerInv, At
<1>2. \/ UNCHANGED ledgerVars
      \/ PastBoundary(q) /\ ActionReceipt(memo[q].handoff, "satisfied")
  BY DEF Append, Converged
<1>3. PastBoundary(q) => memo[q].handoff \in Handoffs /\ handoffs = 1
  BY <1>1 DEF PastBoundary, Claims, SubmitInv, SharedInv, Attached
<1>4. AppendOnly(q)
  BY <1>1, <1>2, <1>3 DEF AppendOnly, SubmitEvent
<1>5. CASE \E mark : Leave(q, mark)
  BY <1>4, <1>5, StopSound
<1>6. ASSUME NEW l \in {"readyPhase", "prepareSend"}, Goto(q, l), Keep
      PROVE  Sound(q)
  <2>1. Claims(q, l, memo[q].handoff)
    BY <1>1 DEF Claims, Handing, Sending, Attached, Witnessing, Settling
  <2> QED
    BY <1>4, <1>6, <2>1, GoSound DEF Labels
<1> QED
  BY <1>5, <1>6 DEF Append, Converged

\* ready is written by a caller that found the manifest attached.
LEMMA ReadyPhaseSound ==
    ASSUME SubmitInv, NEW q \in Submitter, withManifest' = withManifest, ReadyPhase(q)
    PROVE  Sound(q)
<1> USE DEF ReadyPhase, JournalOnly
<1>1. Claims(q, "readyPhase", memo[q].handoff) /\ UNCHANGED browserVars
  BY DEF SubmitInv, CallerInv, At
<1>2. \/ UNCHANGED ledgerVars
      \/ PhaseChanged("ready", memo[q].handoff, TRUE)
  BY DEF AppendPhase, Append
<1>3. withManifest => handoffs = 1
  BY <1>1 DEF Claims, Attached
<1>4. memo[q].handoff \in ActionId \cup {NoAction}
  BY DEF SubmitInv, TypeInv, MemoType
<1>5. AppendOnly(q)
  BY <1>1, <1>2, <1>3, <1>4 DEF AppendOnly, SubmitEvent, Phases
<1>6. CASE \E mark : Leave(q, mark)
  BY <1>5, <1>6, StopSound
<1>7. CASE Goto(q, "prepareSend") /\ Keep
  <2>1. Claims(q, "prepareSend", memo[q].handoff)
    BY <1>1 DEF Claims, Handing, Sending, Attached, Witnessing, Settling
  <2> QED
    BY <1>5, <1>7, <2>1, GoSound DEF Labels
<1> QED
  BY <1>6, <1>7 DEF AppendPhase, Append

\* The intent of a Send gives its caller the right to click.
LEMMA PersistSendSound ==
    ASSUME SubmitInv, NEW q \in Submitter, withManifest' = withManifest,
           PersistSend(q) \/ PersistSendUnacknowledged(q)
    PROVE  Sound(q)
<1> USE DEF PersistSend, PersistSendUnacknowledged, JournalOnly
<1>1. Claims(q, "persistSend", memo[q].handoff) /\ UNCHANGED browserVars
  BY DEF SubmitInv, CallerInv, At
<1>2. AppendOnly(q)
  BY <1>1 DEF AppendOnly, SubmitEvent, Append
<1>3. \/ \E mark : Leave(q, mark)
      \/ Goto(q, "sendConverge") /\ Keep
      \/ ActionPrepared(SendId(q), "send") /\ Goto(q, "sendPhase") /\ Keep
  BY DEF Append
<1>4. CASE \E mark : Leave(q, mark)
  BY <1>2, <1>4, StopSound
<1>5. CASE Goto(q, "sendConverge") /\ Keep
  <2>1. Claims(q, "sendConverge", memo[q].handoff)
    BY <1>1 DEF Claims, Handing, Sending, Attached, Witnessing, Settling
  <2> QED
    BY <1>2, <1>5, <2>1, GoSound DEF Labels
<1>6. CASE ActionPrepared(SendId(q), "send") /\ Goto(q, "sendPhase") /\ Keep
  <2>1. Intend(SendId(q), "send") /\ SendId(q) \in ActionId
    BY <1>6, IdsRecordable DEF ActionPrepared
  <2>2. Sends = {} /\ Sends' = {SendId(q)}
    BY <2>1, IntendOfKind DEF Sends, Kinds, Intend, CanIntend, SingleIntentKinds,
       SubmitInv, LedgerInv
  <2>3. clicks = 0
    BY <2>2 DEF SubmitInv, TypeInv, SharedInv
  <2>4. Claims(q, "persistSend", memo[q].handoff)'
    BY <1>1, <1>2, <1>6, ClaimsKeep DEF Labels, Keep
  <2>5. Claims(q, "sendPhase", memo[q].handoff)'
    BY <1>2, <2>2, <2>3, <2>4, AppendKeeps
       DEF Claims, Handing, Sending, Attached, Witnessing, Settling
  <2> QED
    BY <1>2, <1>6, <2>5, GoSound DEF Labels
<1> QED
  BY <1>3, <1>4, <1>5, <1>6

\* Only the caller of both appends goes on to the click.
LEMMA SendPhaseSound ==
    ASSUME SubmitInv, NEW q \in Submitter, withManifest' = withManifest,
           SendPhase(q) \/ SendConverge(q)
    PROVE  Sound(q)
<1> USE DEF SendPhase, SendConverge, JournalOnly
<1>1. Claims(q, pc[q], memo[q].handoff) /\ UNCHANGED browserVars
  BY DEF SubmitInv, CallerInv, At
<1>2. UNCHANGED ledgerVars \/ PhaseChanged("send_pending", SendId(q), TRUE)
  BY DEF AppendPhase, Append, Converged
<1>3. AppendOnly(q)
  BY <1>1, <1>2, IdsRecordable DEF AppendOnly, SubmitEvent, Phases
<1>4. \/ \E mark : Leave(q, mark)
      \/ pc[q] = "sendPhase" /\ Goto(q, "execute") /\ Keep
      \/ \E l \in {"sendConverge", "reconcile"} : Goto(q, l) /\ Keep
  BY DEF AppendPhase, Append, Converged, At
<1>5. CASE \E mark : Leave(q, mark)
  BY <1>3, <1>5, StopSound
<1>6. CASE pc[q] = "sendPhase" /\ Goto(q, "execute") /\ Keep
  <2>1. Claims(q, "execute", memo[q].handoff)
    BY <1>1, <1>6 DEF Claims, Handing, Sending, Attached, Witnessing, Settling
  <2> QED
    BY <1>3, <1>6, <2>1, GoSound DEF Labels
<1>7. ASSUME NEW l \in {"sendConverge", "reconcile"}, Goto(q, l), Keep
      PROVE  Sound(q)
  <2>1. Claims(q, l, memo[q].handoff)
    BY <1>1 DEF Claims, Handing, Sending, Attached, Witnessing, Settling
  <2> QED
    BY <1>3, <1>7, <2>1, GoSound DEF Labels
<1> QED
  BY <1>4, <1>5, <1>6, <1>7

-----------------------------------------------------------------------------
(* The appends of the ownership proof *)

\* Who saw the turn knows the one Send it is of.
LEMMA TheTurnsSend ==
    ASSUME SubmitInv, NEW q \in Submitter, pc[q] \in Witnessing \cup Settling
    PROVE  /\ turns = 1 /\ clicks = 1
           /\ TheSend \in Sends /\ TheSend \in ActionId /\ Sends = {TheSend}
           /\ mutationBoundary # "none"
<1>1. turns = 1
  BY DEF SubmitInv, CallerInv, Claims
<1>2. clicks = 1 /\ Sends # {}
  BY <1>1 DEF SubmitInv, TypeInv, SharedInv
<1>3. TheSend \in ActionId /\ Sends = {TheSend}
  BY <1>2, Singles DEF SubmitInv
<1>4. TheSend \in Recorded /\ actions[TheSend].kind = "send"
  BY <1>3 DEF Sends, OfKind, Recorded
<1>5. BoundaryRank[BoundaryForAction["send"]] <= BoundaryRank[mutationBoundary]
  BY <1>4 DEF SubmitInv, LedgerInv, SnapshotReadable, BoundaryIsHighestIntent
<1>6. BoundaryRank[BoundaryForAction["send"]] = 2 /\ BoundaryRank["none"] = 0
  BY DEF BoundaryRank, Boundaries, BoundaryForAction, Kinds
<1> QED
  BY <1>1, <1>2, <1>3, <1>5, <1>6

\* Goes on among the labels that need the turn only.
LEMMA WitnessingSound ==
    ASSUME SubmitInv, NEW q \in Submitter, withManifest' = withManifest, AppendOnly(q),
           pc[q] \in Witnessing \cup Settling,
           \/ \E mark : Leave(q, mark)
           \/ \E l \in {"evidence", "witness", "establishWitness"} : Goto(q, l) /\ Keep
    PROVE  Sound(q)
<1>1. CASE \E mark : Leave(q, mark)
  BY <1>1, StopSound
<1>2. ASSUME NEW l \in {"evidence", "witness", "establishWitness"}, Goto(q, l), Keep
      PROVE  Sound(q)
  <2>1. Claims(q, l, memo[q].handoff)
    BY DEF SubmitInv, CallerInv, Claims, Handing, Sending, Attached, Witnessing, Settling
  <2> QED
    BY <1>2, <2>1, GoSound DEF Labels
<1> QED
  BY <1>1, <1>2

\* The new target is established, and its witness written, of the one Send.
LEMMA EstablishSound ==
    ASSUME SubmitInv, NEW q \in Submitter, withManifest' = withManifest,
           Establish(q) \/ EstablishWitness(q)
    PROVE  Sound(q)
<1> USE DEF Establish, EstablishWitness, JournalOnly
<1>1. pc[q] \in Witnessing /\ UNCHANGED browserVars
  BY DEF At, Witnessing
<1>2. TheSend \in Sends /\ turns = 1
  BY <1>1, TheTurnsSend
<1>3. \/ UNCHANGED ledgerVars
      \/ TargetEstablished(TheSend) \/ SubmissionWitness(TheSend)
  BY DEF Append, AppendWitness, Converged
<1>4. AppendOnly(q)
  BY <1>1, <1>2, <1>3 DEF AppendOnly, SubmitEvent
<1>5. \/ \E mark : Leave(q, mark)
      \/ \E l \in {"evidence", "witness", "establishWitness"} : Goto(q, l) /\ Keep
  BY DEF Append, AppendWitness, Converged
<1> QED
  BY <1>1, <1>4, <1>5, WitnessingSound

\* After the witness: the phase and the receipt may follow.
LEMMA AfterWitnessSound ==
    ASSUME SubmitInv, NEW q \in Submitter, withManifest' = withManifest, AppendOnly(q),
           pc[q] \in Witnessing, NEW done \in BOOLEAN, AfterWitness(q, done),
           TheSend \in submissionWitnesses'
    PROVE  Sound(q)
<1>1. PICK l \in Settling : Goto(q, l)
  BY DEF AfterWitness, Settling
<1>2. CallerStep(q) /\ pc'[q] = l /\ memo'[q].handoff = memo[q].handoff
        /\ outcome'[q] = outcome[q]
  BY <1>1 DEF AfterWitness, Goto, SubmitInv, TypeInv, CallerStep, Labels, MemoType, Settling
<1>3. Claims(q, "witness", memo[q].handoff)
  BY DEF SubmitInv, CallerInv, Claims, Handing, Sending, Attached, Witnessing, Settling
<1>4. turns = 1 /\ Sends = {TheSend} /\ Sends # {}
  BY TheTurnsSend
<1>5. turns' = 1 /\ Sends' \subseteq submissionWitnesses'
  BY <1>4, AppendKeeps
<1>6. memo'[q].handoff # NoAction => Handoffs' = {memo'[q].handoff}
  BY <1>2, <1>3, AppendKeeps DEF Claims
<1>7. Claims(q, pc[q], memo[q].handoff)'
  BY <1>2, <1>5, <1>6 DEF Claims, Handing, Sending, Attached, Witnessing, Settling
<1> QED
  BY <1>2, <1>7, AppendKeeps DEF Sound, CallerInv, SubmitInv

\* The witness is durable before the caller settles anything.
LEMMA WitnessSound ==
    ASSUME SubmitInv, NEW q \in Submitter, withManifest' = withManifest,
           Evidence(q) \/ Witness(q)
    PROVE  Sound(q)
<1> USE DEF JournalOnly
<1>1. pc[q] \in Witnessing /\ UNCHANGED browserVars /\ memo[q] \in MemoType
  BY DEF Evidence, Witness, At, Witnessing, SubmitInv, TypeInv
<1>2. TheSend \in Sends /\ turns = 1
  BY <1>1, TheTurnsSend
<1>3. UNCHANGED ledgerVars \/ SubmissionWitness(TheSend)
  BY DEF Evidence, Witness, Append, AppendWitness, Converged
<1>4. AppendOnly(q)
  BY <1>1, <1>2, <1>3 DEF AppendOnly, SubmitEvent
<1>5. CASE \E mark : Leave(q, mark)
  BY <1>4, <1>5, StopSound
<1>6. ASSUME NEW done \in BOOLEAN, AfterWitness(q, done), TheSend \in submissionWitnesses'
      PROVE  Sound(q)
  BY <1>1, <1>4, <1>6, AfterWitnessSound
<1>7. CASE Witness(q)
  <2>1. memo[q].sendDone \in BOOLEAN
    BY <1>1 DEF MemoType
  <2>2. \/ Leave(q, TRUE)
        \/ AfterWitness(q, memo[q].sendDone) /\ TheSend \in submissionWitnesses'
    BY <1>7 DEF Witness, AppendWitness, Append, Converged, SubmissionWitness, ledgerVars
  <2> QED
    BY <1>5, <1>6, <2>1, <2>2
<1>8. CASE Evidence(q)
  <2> DEFINE done == actions[TheSend].outcome # "none"
  <2>1. CASE Converged(AfterWitness(q, done), Leave(q, TRUE))
               /\ TheSend \in submissionWitnesses
    <3>1. Leave(q, TRUE) \/ AfterWitness(q, done)
      BY <2>1 DEF Converged
    <3>2. TheSend \in submissionWitnesses'
      BY <2>1 DEF Converged, ledgerVars
    <3>3. done \in BOOLEAN
      OBVIOUS
    <3> QED
      BY <1>5, <1>6, <3>1, <3>2, <3>3
  <2>2. CASE /\ Goto(q, "witness")
             /\ memo' = [memo EXCEPT ![q].sendDone = done]
             /\ UNCHANGED <<outcome, ledgerVars>>
    <3>1. PICK d \in BOOLEAN : memo' = [memo EXCEPT ![q].sendDone = d]
      BY <2>2
    <3>2. [memo[q] EXCEPT !.sendDone = d] \in MemoType
      BY <1>1 DEF MemoType
    <3>3. CallerStep(q) /\ pc'[q] = "witness" /\ memo'[q].handoff = memo[q].handoff
            /\ outcome'[q] = outcome[q]
      BY <2>2, <3>1, <3>2 DEF Goto, SubmitInv, TypeInv, CallerStep, Labels, MemoType
    <3>4. Claims(q, pc[q], memo[q].handoff)'
      BY <1>1, <1>4, <3>3, AppendKeeps
         DEF SubmitInv, CallerInv, Claims, Handing, Sending, Attached, Witnessing, Settling
    <3> QED
      BY <1>4, <3>3, <3>4, AppendKeeps DEF Sound, CallerInv, SubmitInv
  <2> QED
    BY <1>8, <2>1, <2>2 DEF Evidence
<1> QED
  BY <1>7, <1>8

\* Goes on among the labels behind a durable witness.
LEMMA SettlingSound ==
    ASSUME SubmitInv, NEW q \in Submitter, withManifest' = withManifest, AppendOnly(q),
           pc[q] \in Settling,
           \/ \E mark : Leave(q, mark)
           \/ \E l \in Settling : Goto(q, l) /\ Keep
    PROVE  Sound(q)
<1>1. CASE \E mark : Leave(q, mark)
  BY <1>1, StopSound
<1>2. ASSUME NEW l \in Settling, Goto(q, l), Keep
      PROVE  Sound(q)
  <2>1. Claims(q, l, memo[q].handoff)
    BY DEF SubmitInv, CallerInv, Claims, Handing, Sending, Attached, Witnessing, Settling
  <2> QED
    BY <1>2, <2>1, GoSound DEF Labels, Settling
<1> QED
  BY <1>1, <1>2

\* The phase and the receipt follow the witness.
LEMMA SettleSound ==
    ASSUME SubmitInv, NEW q \in Submitter, withManifest' = withManifest,
           LeaveReady(q) \/ SendReceipt(q)
    PROVE  Sound(q)
<1> USE DEF LeaveReady, SendReceipt, JournalOnly
<1>1. pc[q] \in Settling /\ UNCHANGED browserVars
  BY DEF At, Settling
<1>2. TheSend \in Sends /\ TheSend \in ActionId /\ mutationBoundary # "none"
        /\ TheSend \in submissionWitnesses
  BY <1>1, TheTurnsSend DEF SubmitInv, CallerInv, Claims
<1>3. \/ UNCHANGED ledgerVars
      \/ ActionReceipt(TheSend, "satisfied")
      \/ \E to \in {"uncertain", "send_pending"} : PhaseChanged(to, TheSend, TRUE)
  BY DEF AppendPhase, Append, Converged
<1>4. AppendOnly(q)
  BY <1>1, <1>2, <1>3 DEF AppendOnly, SubmitEvent, Phases
<1>5. \/ \E mark : Leave(q, mark)
      \/ \E l \in Settling : Goto(q, l) /\ Keep
  BY DEF AppendPhase, Append, Converged, Settling
<1> QED
  BY <1>1, <1>4, <1>5, SettlingSound

\* submit answers "submitted" only of an owned Send.
LEMMA SubmittedSound ==
    ASSUME SubmitInv, NEW q \in Submitter, withManifest' = withManifest, SubmittedPhase(q)
    PROVE  Sound(q)
<1> USE DEF SubmittedPhase, JournalOnly
<1>1. pc[q] \in Settling /\ UNCHANGED browserVars
  BY DEF At, Settling
<1>2. TheSend \in ActionId
  BY <1>1, TheTurnsSend
<1>3. UNCHANGED ledgerVars \/ PhaseChanged("submitted", TheSend, TRUE)
  BY DEF AppendPhase, Append
<1>4. AppendOnly(q)
  BY <1>1, <1>2, <1>3 DEF AppendOnly, SubmitEvent, Phases
<1>5. CASE \E mark : Leave(q, mark)
  BY <1>4, <1>5, StopSound
<1>6. CASE Return(q, "submitted") /\ OwnedSend
  <2>1. OwnedSend'
    BY <1>4, <1>6, AppendKeeps
  <2>2. CallerStep(q) /\ pc'[q] = "idle" /\ memo'[q].handoff = NoAction
    BY <1>6, BlankTyped DEF Return, Goto, SubmitInv, TypeInv, CallerStep, Labels
  <2>3. CallerInv(q)'
    BY <2>1, <2>2 DEF CallerInv, Claims, Handing, Sending, Attached, Witnessing, Settling
  <2> QED
    BY <1>4, <2>2, <2>3 DEF Sound
<1>7. PhaseReached(phase, "submitted") => OwnedSend
  <2>1. PhaseReached(phase, "submitted") => phase \in OwnedPhases
    <3>1. phase \in Phases
      BY DEF SubmitInv, LedgerInv, TypeOK
    <3> QED
      BY <3>1 DEF PhaseReached, PhaseOrder, Phases, OwnedPhases
  <2> QED
    BY <2>1 DEF SubmitInv, LedgerInv, SnapshotReadable, PhaseBacked
<1>8. CanChangePhase("submitted", TheSend, TRUE) => OwnedSend
  BY DEF CanChangePhase, CausedTransition
<1> QED
  BY <1>5, <1>6, <1>7, <1>8 DEF AppendPhase, Append

\* Marking an operation uncertain takes nothing from anyone.
LEMMA ReportSound ==
    ASSUME SubmitInv, NEW q \in Submitter, withManifest' = withManifest,
           ReportFirst(q) \/ Report(q)
    PROVE  Sound(q)
<1> USE DEF ReportFirst, Report, JournalOnly
<1>1. pc[q] \in {"report", "reportFirst"} /\ UNCHANGED browserVars
  BY DEF At
<1>2. \/ UNCHANGED ledgerVars
      \/ mutationBoundary # "none" /\ PhaseChanged("uncertain", NoAction, TRUE)
  BY DEF MarkUncertain, AppendPhase, Append
<1>3. AppendOnly(q)
  BY <1>1, <1>2 DEF AppendOnly, SubmitEvent, Phases
<1>4. Return(q, "blocked") \/ (Goto(q, "report") /\ Keep)
  BY DEF MarkUncertain, AppendPhase, Append
<1>5. CASE Return(q, "blocked")
  BY <1>3, <1>5, StopSound
<1>6. CASE Goto(q, "report") /\ Keep
  <2>1. Claims(q, "report", memo[q].handoff)
    BY <1>1 DEF SubmitInv, CallerInv, Claims, Handing, Sending, Attached, Witnessing,
       Settling
  <2> QED
    BY <1>3, <1>6, <2>1, GoSound DEF Labels
<1> QED
  BY <1>4, <1>5, <1>6

-----------------------------------------------------------------------------
(* The steps the browser takes or is asked for *)

\* Callers mint identities of their own.
LEMMA IdsDiffer ==
    ASSUME NEW p, NEW q, p # q
    PROVE  {HandoffId(q)} # {HandoffId(p)} /\ {SendId(q)} # {SendId(p)}
<1>1. HandoffId(p)[1] = p /\ HandoffId(q)[1] = q /\ SendId(p)[1] = p /\ SendId(q)[1] = q
  BY DEF HandoffId, SendId
<1> QED
  BY <1>1

\* Nobody but the holder of the handoff's intent hands files over, and once.
LEMMA HandoffKeeps ==
    ASSUME SubmitInv, NEW q \in Submitter, withManifest' = withManifest, Handoff(q)
    PROVE  SubmitInv' /\ UNCHANGED ledgerVars /\ handoffs = 0 /\ clicks = 0 /\ handoffs' = 1
           /\ Handoffs # {} /\ clicks' = clicks
<1> USE DEF SubmitInv
<1>1. Claims(q, "handoff", memo[q].handoff)
  BY DEF Handoff, At, CallerInv
<1>2. /\ withManifest /\ Handoffs = {HandoffId(q)} /\ handoffs = 0 /\ phase # "prepared"
      /\ memo[q].handoff # NoAction => Handoffs = {memo[q].handoff}
  BY <1>1 DEF Claims, Handing
<1>3. clicks = 0
  BY <1>2 DEF SharedInv, TypeInv
<1>4. UNCHANGED ledgerVars /\ handoffs' = 1 /\ clicks' = clicks /\ turns' = turns
        /\ attachments = "absent"
  BY <1>2 DEF Handoff, SharedInv
<1>5. /\ Handoffs' = Handoffs /\ Sends' = Sends /\ phase' = phase /\ actions' = actions
      /\ submissionWitnesses' = submissionWitnesses
      /\ Settled("file_handoff", {"satisfied"})' <=> Settled("file_handoff", {"satisfied"})
      /\ OwnedSend' <=> OwnedSend
  BY <1>4 DEF ledgerVars, Handoffs, Sends, OfKind, Settled, OwnedSend
<1>6. LedgerInv'
  BY <1>4, LedgerKeeps
<1>7. Moved(q, "observeHandoff")
  BY GotoMoves DEF Handoff, Labels
<1>8. TypeInv'
  <2>1. attachments' \in {"absent", "partial", "exact"}
    BY DEF Handoff, TypeInv
  <2> QED
    BY <1>4, <1>7, <2>1 DEF TypeInv, Moved, CallerStep
<1>9. SharedInv'
  BY <1>2, <1>3, <1>4, <1>5 DEF SharedInv
<1>10. ASSUME NEW p \in Submitter PROVE CallerInv(p)'
  <2>1. CASE p = q
    BY <1>2, <1>5, <1>7, <2>1
       DEF Moved, CallerInv, Claims, Handing, Sending, Attached, Witnessing, Settling
  <2>2. CASE p # q
    <3>1. Handoffs # {HandoffId(p)}
      BY <1>2, <2>2, IdsDiffer
    <3>2. Undisturbed(p)
      BY <1>2, <1>3, <1>4, <3>1 DEF Undisturbed, TypeInv
    <3> QED
      BY <1>4, <1>7, <2>2, <3>2, OthersKeep DEF Moved, CallerStep
  <2> QED
    BY <2>1, <2>2
<1> QED
  BY <1>2, <1>3, <1>4, <1>6, <1>8, <1>9, <1>10

\* Nobody but the holder of the Send's intent clicks, once, on the manifest.
LEMMA ClickKeeps ==
    ASSUME SubmitInv, NEW q \in Submitter, withManifest' = withManifest, ExecuteClick(q)
    PROVE  SubmitInv' /\ UNCHANGED ledgerVars /\ clicks = 0 /\ clicks' = 1 /\ Sends # {}
           /\ (withManifest => attachments = "exact") /\ handoffs' = handoffs
<1> USE DEF SubmitInv
<1>1. Claims(q, "execute", memo[q].handoff)
  BY DEF ExecuteClick, At, CallerInv
<1>2. /\ Sends = {SendId(q)} /\ clicks = 0
      /\ withManifest => handoffs = 1 /\ attachments = "exact"
      /\ memo[q].handoff # NoAction => Handoffs = {memo[q].handoff}
  BY <1>1 DEF Claims, Sending, Attached
<1>3. turns = 0
  BY <1>2 DEF SharedInv, TypeInv
<1>4. UNCHANGED ledgerVars /\ handoffs' = handoffs /\ clicks' = 1 /\ turns' = turns
        /\ attachments' = attachments
  BY <1>2 DEF ExecuteClick
<1>5. /\ Handoffs' = Handoffs /\ Sends' = Sends /\ phase' = phase /\ actions' = actions
      /\ submissionWitnesses' = submissionWitnesses
      /\ Settled("file_handoff", {"satisfied"})' <=> Settled("file_handoff", {"satisfied"})
      /\ OwnedSend' <=> OwnedSend
  BY <1>4 DEF ledgerVars, Handoffs, Sends, OfKind, Settled, OwnedSend
<1>6. LedgerInv'
  BY <1>4, LedgerKeeps
<1>7. Moved(q, "verify")
  BY GotoMoves DEF ExecuteClick, Labels
<1>8. TypeInv'
  BY <1>4, <1>7 DEF TypeInv, Moved, CallerStep
<1>9. SharedInv'
  BY <1>2, <1>3, <1>4, <1>5 DEF SharedInv
<1>10. ASSUME NEW p \in Submitter PROVE CallerInv(p)'
  <2>1. CASE p = q
    BY <1>2, <1>5, <1>7, <2>1
       DEF Moved, CallerInv, Claims, Handing, Sending, Attached, Witnessing, Settling
  <2>2. CASE p # q
    <3>1. Sends # {SendId(p)}
      BY <1>2, <2>2, IdsDiffer
    <3>2. Undisturbed(p)
      BY <1>2, <1>4, <3>1 DEF Undisturbed, TypeInv
    <3> QED
      BY <1>4, <1>7, <2>2, <3>2, OthersKeep DEF Moved, CallerStep
  <2> QED
    BY <2>1, <2>2
<1> QED
  BY <1>2, <1>4, <1>6, <1>8, <1>9, <1>10

\* What the browser does by itself disturbs no caller.
LEMMA BrowserKeeps ==
    ASSUME SubmitInv, withManifest' = withManifest, UploadSettles \/ TurnAppears
    PROVE  SubmitInv' /\ UNCHANGED ledgerVars /\ clicks' = clicks /\ handoffs' = handoffs
<1> USE DEF SubmitInv
<1>1. UNCHANGED ledgerVars /\ clicks' = clicks /\ handoffs' = handoffs
        /\ UNCHANGED callerVars
  BY DEF UploadSettles, TurnAppears
<1>2. \/ turns' = turns /\ attachments = "partial" /\ attachments' = "exact"
      \/ turns = 0 /\ clicks = 1 /\ turns' = 1 /\ attachments' = "absent"
  BY DEF UploadSettles, TurnAppears, TypeInv
<1>3. /\ Handoffs' = Handoffs /\ Sends' = Sends /\ phase' = phase /\ actions' = actions
      /\ submissionWitnesses' = submissionWitnesses
      /\ Settled("file_handoff", {"satisfied"})' <=> Settled("file_handoff", {"satisfied"})
  BY <1>1 DEF ledgerVars, Handoffs, Sends, OfKind, Settled
<1>4. LedgerInv'
  BY <1>1, LedgerKeeps
<1>5. TypeInv'
  BY <1>1, <1>2 DEF TypeInv, callerVars
<1>6. SharedInv'
  BY <1>1, <1>2, <1>3 DEF SharedInv
<1>7. ASSUME NEW p \in Submitter PROVE CallerInv(p)'
  <2>1. Undisturbed(p)
    BY <1>1, <1>2 DEF Undisturbed, TypeInv
  <2> QED
    BY <1>1, <2>1, OthersKeep DEF callerVars
<1> QED
  BY <1>1, <1>4, <1>5, <1>6, <1>7

-----------------------------------------------------------------------------
(* The invariant *)

\* Before the first call nothing is claimed and nothing was done.
LEMMA SubmitInvInit == SubmitInit => SubmitInv
<1> SUFFICES ASSUME SubmitInit PROVE SubmitInv
  OBVIOUS
<1>1. LedgerInv
  BY LedgerReadableInit, SendAfterPreparationInit
     DEF SubmitInit, LedgerInit, LedgerInv, TypeOK, Phases, Boundaries, TargetLives,
         ActionRecords, Absent, ReceiptStates, Outcomes
<1>2. TypeInv
  BY BlankTyped DEF SubmitInit, TypeInv, Labels
<1>3. Handoffs = {} /\ Sends = {}
  BY DEF SubmitInit, LedgerInit, Handoffs, Sends, OfKind, Absent
<1>4. SharedInv
  BY <1>3 DEF SubmitInit, LedgerInit, SharedInv
<1>5. \A p \in Submitter : CallerInv(p)
  BY BlankTyped DEF SubmitInit, CallerInv, Claims, Handing, Sending, Attached, Witnessing,
     Settling
<1> QED
  BY <1>1, <1>2, <1>4, <1>5 DEF SubmitInv

\* The steps that are one caller's and ask nothing of the browser.
LEMMA ProgramSound ==
    ASSUME SubmitInv, NEW q \in Submitter, withManifest' = withManifest,
           \/ Begin(q) \/ Load(q) \/ Stage(q)
           \/ AttachmentStep(q) \/ SendStep(q) \/ ProofStep(q)
           \/ ReportFirst(q) \/ Report(q) \/ Cancel(q) \/ Crash(q),
           ~Handoff(q), ~ExecuteClick(q)
    PROVE  Sound(q)
<1>1. CASE AttachmentStep(q)
  BY <1>1, LookSound, HandoffIntentSound, HandoffPhaseSound, ObserveHandoffSound
     DEF AttachmentStep
<1>2. CASE SendStep(q)
  BY <1>2, ReadyReceiptSound, ReadyPhaseSound, ReadSound, PersistSendSound, SendPhaseSound
     DEF SendStep
<1>3. CASE ProofStep(q)
  BY <1>3, EstablishSound, WitnessSound, SettleSound, SubmittedSound DEF ProofStep
<1> QED
  BY <1>1, <1>2, <1>3, BeginSound, LoadSound, LookSound, ReportSound, StopsSound

\* What a step of the system does, seen from the journal and the browser.
BrowserAsked ==
    \/ clicks' = clicks /\ handoffs' = handoffs
    \/ /\ UNCHANGED ledgerVars /\ handoffs' = handoffs
       /\ clicks = 0 /\ clicks' = 1 /\ Sends # {}
       /\ withManifest => attachments = "exact"
    \/ /\ UNCHANGED ledgerVars /\ clicks' = clicks /\ clicks = 0
       /\ handoffs = 0 /\ handoffs' = 1 /\ Handoffs # {}

\* Every step keeps the invariant, appends what the ledger allows, and asks the
\* browser for nothing, for the one click or for the one handoff.
LEMMA SubmitStepKeeps ==
    ASSUME SubmitInv, [SubmitNext]_submitVars
    PROVE  /\ SubmitInv' /\ [LedgerNext]_ledgerVars /\ BrowserAsked
           /\ UNCHANGED ledgerVars \/ \E q \in Submitter : SubmitEvent(q)
<1> USE DEF BrowserAsked
<1>1. CASE UNCHANGED submitVars
  <2>1. UNCHANGED <<ledgerVars, callerVars, browserVars, withManifest>>
    BY <1>1 DEF submitVars
  <2>2. /\ Handoffs' = Handoffs /\ Sends' = Sends /\ OwnedSend' = OwnedSend
        /\ Settled("file_handoff", {"satisfied"})' <=> Settled("file_handoff", {"satisfied"})
    BY <2>1 DEF ledgerVars, Handoffs, Sends, OfKind, Settled, OwnedSend
  <2>3. LedgerInv'
    BY <2>1, LedgerKeeps DEF SubmitInv
  <2>4. TypeInv' /\ SharedInv'
    BY <2>1, <2>2 DEF SubmitInv, ledgerVars, callerVars, browserVars, TypeInv, SharedInv
  <2>5. ASSUME NEW p \in Submitter PROVE CallerInv(p)'
    <3>1. Undisturbed(p)
      BY <2>1 DEF Undisturbed, browserVars, SubmitInv, TypeInv
    <3> QED
      BY <2>1, <3>1, OthersKeep DEF callerVars
  <2> QED
    BY <2>1, <2>3, <2>4, <2>5 DEF SubmitInv, browserVars
<1>2. CASE SubmitNext
  <2>1. withManifest' = withManifest
    BY <1>2 DEF SubmitNext
  <2>2. CASE UploadSettles \/ TurnAppears
    BY <2>1, <2>2, BrowserKeeps
  <2>3. ASSUME NEW q \in Submitter,
               \/ Begin(q) \/ Load(q) \/ Stage(q)
               \/ AttachmentStep(q) \/ SendStep(q) \/ ProofStep(q)
               \/ ReportFirst(q) \/ Report(q) \/ Cancel(q) \/ Crash(q),
               ~Handoff(q), ~ExecuteClick(q)
        PROVE  /\ SubmitInv' /\ [LedgerNext]_ledgerVars /\ UNCHANGED browserVars
               /\ UNCHANGED ledgerVars \/ SubmitEvent(q)
    <3>1. Sound(q)
      BY <2>1, <2>3, ProgramSound
    <3> QED
      BY <3>1, CallerKeeps DEF Sound, AppendOnly
  <2>4. ASSUME NEW q \in Submitter, Handoff(q)
        PROVE  SubmitInv' /\ UNCHANGED ledgerVars /\ BrowserAsked
    BY <2>1, <2>4, HandoffKeeps
  <2>5. ASSUME NEW q \in Submitter, ExecuteClick(q)
        PROVE  SubmitInv' /\ UNCHANGED ledgerVars /\ BrowserAsked
    BY <2>1, <2>5, ClickKeeps
  <2> QED
    BY <1>2, <2>2, <2>3, <2>4, <2>5 DEF SubmitNext, SubmitStep, browserVars
<1> QED
  BY <1>1, <1>2

\* The inductive invariant of any number of submit calls.
LEMMA SubmitInvariance == SubmitSpec => []SubmitInv
<1>1. SubmitInv /\ [SubmitNext]_submitVars => SubmitInv'
  BY SubmitStepKeeps
<1> QED
  BY <1>1, SubmitInvInit, PTL DEF SubmitSpec

-----------------------------------------------------------------------------
(* The theorems *)

\* Any number of concurrent and repeated submits, crashes and failing appends
\* write one log the ledger allows.
THEOREM SubmitImplementsLedger == SubmitSpec => ImplementsLedger
<1>1. SubmitInit => LedgerInit
  BY DEF SubmitInit
<1>2. SubmitInv /\ [SubmitNext]_submitVars => [LedgerNext]_ledgerVars
  BY SubmitStepKeeps
<1> QED
  BY <1>1, <1>2, SubmitInvariance, PTL DEF SubmitSpec, ImplementsLedger, LedgerSpec

\* A proof of ownership stands for a turn that is there, and is needed for
\* telling a caller that its request was submitted.
THEOREM SubmitNotFalse == SubmitSpec => []NoFalseSubmission
<1>1. SubmitInv => NoFalseSubmission
  <2> SUFFICES ASSUME SubmitInv PROVE NoFalseSubmission
    OBVIOUS
  <2>1. OwnedSend => turns = 1
    BY DEF OwnedSend, SubmitInv, SharedInv
  <2> QED
    BY <2>1 DEF NoFalseSubmission, SubmitInv, CallerInv
<1> QED
  BY <1>1, SubmitInvariance, PTL

\* The manifest is attached when the Send is activated, and no file is handed
\* to the browser after.
THEOREM SubmitCarriesManifest == SubmitSpec => SendCarriesManifest
<1>1. SubmitInv /\ [SubmitNext]_submitVars
        => [ /\ clicks' # clicks /\ withManifest => attachments = "exact"
             /\ handoffs' # handoffs => clicks = 0 ]_submitVars
  BY SubmitStepKeeps DEF BrowserAsked
<1> QED
  BY <1>1, SubmitInvariance, PTL DEF SubmitSpec, SendCarriesManifest

\* The Send is activated at most once, behind its durable intent, and confirmed
\* only after it was.
THEOREM SubmitSendsOnce == SubmitSpec => SendIsOneShot
<1> USE DEF SendShot!Init, SendShot!Next, SendShot!Intend, SendShot!Activate,
            SendShot!Confirm, SendShot!vars
<1>1. SubmitInit => SendShot!Init
  BY DEF SubmitInit, LedgerInit, OwnedSend, OfKind, Absent
<1>2. SubmitInv /\ [SubmitNext]_submitVars => [SendShot!Next]_SendShot!vars
  <2> SUFFICES ASSUME SubmitInv, [SubmitNext]_submitVars
               PROVE  [SendShot!Next]_SendShot!vars
    OBVIOUS
  <2>1. SubmitInv' /\ [LedgerNext]_ledgerVars /\ BrowserAsked
    BY SubmitStepKeeps
  <2>2. (Sends # {} => Sends' # {}) /\ (OwnedSend => OwnedSend')
    BY <2>1, LedgerKeeps DEF SubmitInv
  <2>3. OwnedSend => Sends # {} /\ clicks = 1
    BY DEF OwnedSend, Sends, SubmitInv, SharedInv, TypeInv
  <2>4. OwnedSend' => Sends' # {} /\ clicks' = 1
    BY <2>1 DEF OwnedSend, Sends, SubmitInv, SharedInv, TypeInv
  <2>5. clicks = 1 => Sends # {}
    BY DEF SubmitInv, SharedInv
  <2>6. UNCHANGED ledgerVars => Sends' = Sends /\ (OwnedSend' <=> OwnedSend)
    BY DEF ledgerVars, Sends, OfKind, OwnedSend
  <2> DEFINE I == OfKind("send") # {}
  <2>11. /\ (OwnedSend <=> OwnedSend') => OwnedSend' = OwnedSend
         /\ OwnedSend' => OwnedSend' = TRUE
         /\ (I <=> I') => I' = I
         /\ I' => I' = TRUE
    BY DEF OwnedSend
  <2>7. CASE UNCHANGED ledgerVars /\ clicks = 0 /\ clicks' = 1 /\ Sends # {}
    <3>1. I /\ I' = I /\ ~OwnedSend /\ OwnedSend' = OwnedSend
      BY <2>3, <2>6, <2>7, <2>11 DEF Sends
    <3> QED
      BY <2>7, <3>1
  <2>8. CASE clicks' = clicks /\ Sends = {} /\ Sends' # {}
    <3>1. ~I /\ I' /\ ~OwnedSend /\ ~OwnedSend'
      BY <2>3, <2>4, <2>5, <2>8 DEF Sends
    <3>2. I' = TRUE /\ OwnedSend' = OwnedSend
      BY <3>1, <2>11
    <3> QED
      BY <2>8, <3>1, <3>2
  <2>9. CASE clicks' = clicks /\ (Sends = {} <=> Sends' = {}) /\ OwnedSend' = OwnedSend
    <3>1. I' = I
      BY <2>9, <2>11 DEF Sends
    <3> QED
      BY <2>9, <3>1
  <2>10. CASE clicks' = clicks /\ (Sends = {} <=> Sends' = {}) /\ ~OwnedSend /\ OwnedSend'
    <3>1. I' = I /\ I /\ clicks = 1
      BY <2>4, <2>10, <2>11 DEF Sends
    <3>2. OwnedSend' = TRUE
      BY <2>10, <2>11
    <3> QED
      BY <2>10, <3>1, <3>2
  <2> QED
    BY <2>1, <2>2, <2>6, <2>7, <2>8, <2>9, <2>10, <2>11 DEF BrowserAsked
<1> QED
  BY <1>1, <1>2, SubmitInvariance, PTL DEF SubmitSpec, SendIsOneShot, SendShot!Spec

HandoffDone == Handoffs # {} /\ Settled("file_handoff", {"satisfied"})

\* A receipt is never written over.
LEMMA HandoffStaysDone ==
    ASSUME LedgerInv, [LedgerNext]_ledgerVars, HandoffDone
    PROVE  HandoffDone'
<1> USE DEF LedgerInv, HandoffDone
<1>1. Handoffs' = Handoffs
  BY LedgerKeeps
<1>2. \A h \in Handoffs : actions'[h].outcome = "satisfied"
  <2> SUFFICES ASSUME NEW h \in Handoffs PROVE actions'[h].outcome = "satisfied"
    OBVIOUS
  <2>1. h \in ActionId /\ actions[h].outcome = "satisfied"
          /\ actions[h].kind = "file_handoff"
    BY DEF Settled, Handoffs, OfKind
  <2>2. ASSUME NEW a \in ActionId, NEW k \in Kinds, Intend(a, k)
        PROVE  actions'[h].outcome = "satisfied"
    BY <2>1, <2>2, IntendKinds
  <2>3. CASE StagingIntent \/ HandoffIntent \/ StopIntent \/ TransferIntent
    BY <2>2, <2>3 DEF StagingIntent, HandoffIntent, StopIntent, TransferIntent,
       ArtifactTransferIntent, ActionIntent, Kinds
  <2>4. CASE SendPrepared \/ SteerPrepared
    BY <2>2, <2>4 DEF SendPrepared, SteerPrepared, ActionPrepared, Kinds
  <2>5. CASE WriteReceipt
    BY <2>1, <2>5 DEF WriteReceipt, ActionReceipt, CanReceipt, Recorded, TypeOK
  <2>6. CASE \/ Complete \/ ContentExpired \/ BindTarget \/ EstablishTarget
             \/ WriteWitness \/ WritePhase \/ UNCHANGED ledgerVars
    BY <2>1, <2>6 DEF Complete, ReceiptCompleted, ContentExpired, BindTarget, TargetBound,
       EstablishTarget, TargetEstablished, WriteWitness, SubmissionWitness, WritePhase,
       PhaseChanged, ledgerVars
  <2> QED
    BY <2>3, <2>4, <2>5, <2>6 DEF LedgerNext
<1> QED
  BY <1>1, <1>2 DEF Settled, Handoffs

\* The files are handed over at most once, behind the durable intent, and the
\* handoff is confirmed only after it was made.
THEOREM SubmitHandsOverOnce == SubmitSpec => HandoffIsOneShot
<1> USE DEF HandoffShot!Init, HandoffShot!Next, HandoffShot!Intend, HandoffShot!Activate,
            HandoffShot!Confirm, HandoffShot!vars
<1>1. SubmitInit => HandoffShot!Init
  BY DEF SubmitInit, LedgerInit, OfKind, Absent
<1>2. SubmitInv /\ [SubmitNext]_submitVars => [HandoffShot!Next]_HandoffShot!vars
  <2> SUFFICES ASSUME SubmitInv, [SubmitNext]_submitVars
               PROVE  [HandoffShot!Next]_HandoffShot!vars
    OBVIOUS
  <2>1. SubmitInv' /\ [LedgerNext]_ledgerVars /\ BrowserAsked
    BY SubmitStepKeeps
  <2> DEFINE I == OfKind("file_handoff") # {}
             C == OfKind("file_handoff") # {} /\ Settled("file_handoff", {"satisfied"})
  <2>2. (I => I') /\ (C => C')
    BY <2>1, LedgerKeeps, HandoffStaysDone DEF SubmitInv, Handoffs, HandoffDone
  <2>3. C => I /\ handoffs = 1
    BY DEF Settled, Handoffs, SubmitInv, SharedInv
  <2>4. C' => I' /\ handoffs' = 1
    BY <2>1 DEF Settled, Handoffs, SubmitInv, SharedInv
  <2>5. handoffs = 1 => I
    BY DEF Handoffs, SubmitInv, SharedInv
  <2>6. UNCHANGED ledgerVars => I' = I /\ C' = C
    BY DEF ledgerVars, OfKind, Settled
  <2>7. /\ (C <=> C') => C' = C
        /\ C' => C' = TRUE
        /\ (I <=> I') => I' = I
        /\ I' => I' = TRUE
    BY DEF Settled
  <2> HIDE DEF I, C
  <2>8. CASE UNCHANGED ledgerVars /\ handoffs = 0 /\ handoffs' = 1 /\ I
    <3>1. I /\ I' = I /\ ~C /\ C' = C
      BY <2>3, <2>6, <2>8
    <3> QED
      BY <2>8, <3>1 DEF I, C
  <2>9. CASE handoffs' = handoffs /\ ~I /\ I'
    <3>1. ~I /\ I' = TRUE /\ C' = C
      BY <2>3, <2>4, <2>5, <2>7, <2>9
    <3> QED
      BY <2>9, <3>1 DEF I, C
  <2>10. CASE handoffs' = handoffs /\ (I <=> I') /\ (C <=> C')
    <3>1. I' = I /\ C' = C
      BY <2>7, <2>10
    <3> QED
      BY <2>10, <3>1 DEF I, C
  <2>11. CASE handoffs' = handoffs /\ (I <=> I') /\ ~C /\ C'
    <3>1. I' = I /\ I /\ handoffs = 1 /\ C' = TRUE
      BY <2>4, <2>7, <2>11
    <3> QED
      BY <2>11, <3>1 DEF I, C
  <2>12. \/ handoffs' = handoffs
         \/ UNCHANGED ledgerVars /\ handoffs = 0 /\ handoffs' = 1 /\ I
    BY <2>1 DEF BrowserAsked, I, Handoffs
  <2> QED
    BY <2>2, <2>8, <2>9, <2>10, <2>11, <2>12
<1> QED
  BY <1>1, <1>2, SubmitInvariance, PTL DEF SubmitSpec, HandoffIsOneShot, HandoffShot!Spec

\* What submissions write of their Sends: each with its baseline, its receipt
\* behind its witness, and no other control action beside it.
SendsProven ==
    /\ \A a \in ActionId : actions[a].kind \in {"absent", "file_handoff", "send"}
    /\ Sends \subseteq ownershipBaselines
    /\ \A s \in Sends : actions[s].outcome = "satisfied" => s \in submissionWitnesses

\* Every append keeps the proof of the Sends together.
LEMMA SendsProvenStep ==
    ASSUME LedgerInv, SendsProven, NEW q \in Submitter, SubmitEvent(q)
    PROVE  SendsProven'
<1> USE DEF LedgerInv
<1>1. CASE \/ \E life \in {"fixed", "new_pending"} : TargetBound(life)
           \/ \E s \in Sends : TargetEstablished(s)
           \/ \E s \in Sends : SubmissionWitness(s)
           \/ \E to \in Phases, cause \in ActionId \cup {NoAction} :
                 PhaseChanged(to, cause, TRUE)
  BY <1>1 DEF TargetBound, TargetEstablished, SubmissionWitness, PhaseChanged,
     SendsProven, Sends, OfKind
<1>2. CASE ActionIntent(HandoffId(q), "file_handoff")
  <2>1. Intend(HandoffId(q), "file_handoff") /\ HandoffId(q) \in ActionId
          /\ UNCHANGED <<ownershipBaselines, submissionWitnesses>>
    BY <1>2, IdsRecordable DEF ActionIntent
  <2>2. Sends' = Sends
    BY <2>1, IntendOfKind DEF Sends, Kinds
  <2>3. /\ \A b \in ActionId : b # HandoffId(q) => actions'[b] = actions[b]
        /\ actions'[HandoffId(q)].kind = "file_handoff"
        /\ HandoffId(q) \notin Sends
    BY <2>1, IntendKinds DEF Intended, Kinds, Sends, OfKind
  <2> QED
    BY <2>1, <2>2, <2>3 DEF SendsProven, Sends, OfKind
<1>3. CASE ActionPrepared(SendId(q), "send")
  <2>1. Intend(SendId(q), "send") /\ SendId(q) \in ActionId
          /\ ownershipBaselines' = ownershipBaselines \cup {SendId(q)}
    BY <1>3, IdsRecordable DEF ActionPrepared
  <2>2. Sends' = {SendId(q)}
    BY <2>1, IntendOfKind DEF Sends, Kinds, Intend, CanIntend, SingleIntentKinds
  <2>3. /\ \A b \in ActionId : b # SendId(q) => actions'[b] = actions[b]
        /\ actions'[SendId(q)].kind = "send" /\ actions'[SendId(q)].outcome = "none"
    BY <2>1, IntendKinds DEF Intended, Kinds
  <2> QED
    BY <2>1, <2>2, <2>3 DEF SendsProven
<1>4. ASSUME NEW a \in ActionId, ActionReceipt(a, "satisfied"),
             a \in Handoffs \/ a \in submissionWitnesses
      PROVE  SendsProven'
  <2>1. \A b \in ActionId : actions'[b].kind = actions[b].kind
    BY <1>4 DEF ActionReceipt, TypeOK, ActionRecords
  <2>2. a \in Handoffs => a \notin Sends
    BY DEF Handoffs, Sends, OfKind
  <2>3. Sends' = Sends /\ ownershipBaselines' = ownershipBaselines
          /\ submissionWitnesses' = submissionWitnesses
          /\ \A b \in ActionId : b # a => actions'[b] = actions[b]
    BY <1>4, ReceiptKeeps DEF ActionReceipt
  <2> QED
    BY <1>4, <2>1, <2>2, <2>3 DEF SendsProven, Sends, OfKind
<1> QED
  BY <1>1, <1>2, <1>3, <1>4 DEF SubmitEvent, Handoffs, Sends, OfKind

\* A turn the conversation shows is never beyond reach: the next submit resumes
\* by observing it, or a collector takes over.
THEOREM SubmitPostedRecoverable == SubmitSpec => []PostedTurnIsRecoverable
<1>1. SubmitInit => SendsProven
  BY DEF SubmitInit, LedgerInit, SendsProven, Sends, OfKind, Absent
<1>2. SubmitInv /\ SendsProven /\ [SubmitNext]_submitVars => SendsProven'
  <2> SUFFICES ASSUME SubmitInv, SendsProven, [SubmitNext]_submitVars
               PROVE  SendsProven'
    OBVIOUS
  <2>1. CASE UNCHANGED ledgerVars
    BY <2>1 DEF ledgerVars, SendsProven, Sends, OfKind
  <2> QED
    BY <2>1, SubmitStepKeeps, SendsProvenStep DEF SubmitInv
<1>3. SubmitInv /\ SendsProven => PostedTurnIsRecoverable
  <2> SUFFICES ASSUME SubmitInv, SendsProven, turns > 0, ~OwnedSend
               PROVE  CoherentSubmission
    BY DEF PostedTurnIsRecoverable
  <2> USE DEF SubmitInv, LedgerInv, Handoffs, Sends
  <2>1. turns = 1 /\ clicks = 1 /\ Sends # {}
    BY DEF TypeInv, SharedInv
  <2>2. withManifest => Handoffs # {} /\ Settled("file_handoff", {"satisfied"})
    BY <2>1 DEF SharedInv
  <2>3. phase \in {"ready", "send_pending", "uncertain"}
    <3>1. phase \notin {"prepared", "handoff_pending"} \cup OwnedPhases
      BY <2>1 DEF SendAfterPreparation, SnapshotReadable, PhaseBacked
    <3> QED
      BY <3>1 DEF TypeOK, Phases, OwnedPhases
  <2>4. PICK s \in Sends : Sends = {s}
    BY <2>1, Singles
  <2>5. s \in Recorded /\ s \in ActionId /\ actions[s].kind = "send"
          /\ s \in ownershipBaselines
    BY <2>4 DEF OfKind, Recorded, SendsProven
  <2>6. actions[s].outcome = "none"
    <3>1. actions[s].outcome \in {"none", "satisfied"}
      BY <2>5 DEF SnapshotReadable, BaselinesProven
    <3>2. actions[s].outcome # "satisfied"
      BY <2>4, <2>5 DEF SendsProven, OwnedSend
    <3> QED
      BY <3>1, <3>2
  <2>7. Settled("send", {"none"})
    BY <2>4, <2>6 DEF Settled
  <2>8. mutationBoundary = "send"
    <3>1. BoundaryRank[BoundaryForAction["send"]] <= BoundaryRank[mutationBoundary]
      BY <2>5 DEF SnapshotReadable, BoundaryIsHighestIntent
    <3>2. BoundaryRank[BoundaryForAction["send"]] = 2
            /\ BoundaryRank["none"] = 0 /\ BoundaryRank["handoff"] = 1
      BY DEF BoundaryRank, Boundaries, BoundaryForAction, Kinds
    <3>3. mutationBoundary \notin {"none", "handoff"}
      BY <3>1, <3>2
    <3>4. \A a \in Recorded : BoundaryForAction[actions[a].kind] # "control"
      BY DEF SendsProven, Recorded, BoundaryForAction, Kinds
    <3> QED
      BY <3>3, <3>4 DEF SnapshotReadable, BoundaryIsHighestIntent, TypeOK, Boundaries
  <2>9. SendBoundary
    BY <2>8 DEF SendBoundary, BoundaryRank, Boundaries
  <2>10. phase # "completed" /\ receipt = "absent"
    BY <2>3 DEF SnapshotReadable, PhaseBacked
  <2>11. CoherentUncertain
    BY <2>8 DEF CoherentUncertain
  <2>12. SingletonIntents /\ (Handoffs # {} => withManifest)
    BY DEF SnapshotReadable, SharedInv
  <2> QED
    BY <2>1, <2>2, <2>3, <2>7, <2>8, <2>9, <2>10, <2>11, <2>12
       DEF CoherentSubmission, OwnedPhases
<1> QED
  BY <1>1, <1>2, <1>3, SubmitInvariance, PTL DEF SubmitSpec
=============================================================================
