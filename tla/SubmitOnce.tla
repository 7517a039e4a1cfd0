------------------------------ MODULE SubmitOnce ------------------------------
(***************************************************************************)
(* Concurrent and repeated submit calls of one operation                   *)
(* (OperationService.submit and runAtomicSubmission), over the operation's *)
(* ledger.  Every caller works from a snapshot it read before it went to   *)
(* the browser; each journal append reloads, and is one atomic step; the   *)
(* browser acts and answers between them.  Callers crash anywhere and call *)
(* again, appends fail, and acknowledgements of committed appends are lost.*)
(*                                                                         *)
(* A request has no set-to-value staging here: stageRequest then appends   *)
(* nothing and the snapshot is reloaded.                                   *)
(***************************************************************************)
EXTENDS OperationLedger

CONSTANTS
    Submitter,     \* callers of submit, in one process or in several
    MaxCrashes,    \* bound: callers that die in the middle of a call
    MaxFaults      \* bound: appends that throw, committed or not

\* A caller mints the identities of the actions it may have to record.
HandoffId(p) == <<p, "file_handoff">>
SendId(p) == <<p, "send">>

ASSUME SubmitAssumption ==
    /\ ActionId = {HandoffId(p) : p \in Submitter} \cup {SendId(p) : p \in Submitter}
    /\ MaxCrashes \in Nat
    /\ MaxFaults \in Nat

VARIABLES
    withManifest, \* does the request carry files; it does not change
    pc,           \* where each caller is
    memo,         \* what it remembers of its snapshot and of its reads
    outcome,      \* what its latest call returned
    attachments,  \* the composer's files, against the manifest
    handoffs,     \* file handoffs executed in the browser
    clicks,       \* activations of the Send control
    turns,        \* user turns the provider shows for the operation
    crashes,
    faults

callerVars == <<pc, memo, outcome>>
browserVars == <<attachments, handoffs, clicks, turns>>
budgetVars == <<crashes, faults>>
submitVars == <<withManifest, ledgerVars, callerVars, browserVars, budgetVars>>

-----------------------------------------------------------------------------
Blank == [phase |-> "prepared", newTarget |-> FALSE, handoff |-> NoAction,
          handoffDone |-> FALSE, sendDone |-> FALSE, mark |-> FALSE]

TheSend == CHOOSE s \in ActionId : actions[s].kind = "send"
TheHandoff == CHOOSE h \in ActionId : actions[h].kind = "file_handoff"

Settled(k, outcomes) == \A a \in OfKind(k) : actions[a].outcome \in outcomes
SendBoundary == BoundaryRank[mutationBoundary] >= BoundaryRank["send"]

\* Mutant of CoherentUncertain: uncertainty about the Send itself is refused.
CoherentUncertainSettled ==
    /\ mutationBoundary # "none"
    /\ Settled("file_handoff", {"none", "satisfied"})
    /\ Settled("send", {"satisfied"})

CoherentUncertain ==
    /\ mutationBoundary # "none"
    /\ mutationBoundary = "handoff" =>
         Settled("file_handoff", {"none", "satisfied"})

\* coherentSubmissionState: the durable states a submit agrees to resume from.
CoherentSubmission ==
    LET handoff == OfKind("file_handoff")
        send    == OfKind("send")
    IN  /\ SingletonIntents
        /\ handoff # {} => withManifest /\ mutationBoundary # "none"
        /\ send # {} <=> SendBoundary
        /\ withManifest /\ phase # "prepared" => handoff # {}
        /\ mutationBoundary = "handoff" => handoff # {}
        /\ phase = "prepared" =>
             /\ send = {}
             /\ handoff # {} => mutationBoundary = "handoff"
             /\ Settled("file_handoff", {"none", "satisfied"})
        /\ phase = "handoff_pending" =>
             /\ send = {} /\ handoff # {} /\ mutationBoundary = "handoff"
             /\ Settled("file_handoff", {"none"})
        /\ phase = "ready" =>
             /\ withManifest => Settled("file_handoff", {"satisfied"})
             /\ Settled("send", {"none"})
             /\ send # {} => mutationBoundary = "send"
        /\ phase = "send_pending" =>
             send # {} /\ mutationBoundary = "send" /\ Settled("send", {"none"})
        /\ phase \in OwnedPhases => send # {} /\ Settled("send", {"satisfied"})
        /\ phase = "uncertain" => CoherentUncertain
        /\ phase = "completed" <=> receipt # "absent"

-----------------------------------------------------------------------------
(* Steps of a caller's program *)

At(p, label) == pc[p] = label
Goto(p, label) == pc' = [pc EXCEPT ![p] = label]
Keep == UNCHANGED <<memo, outcome>>

Return(p, result) ==
    /\ Goto(p, "idle")
    /\ memo' = [memo EXCEPT ![p] = Blank]
    /\ outcome' = [outcome EXCEPT ![p] = result]

\* The call returns a blocker; mark says whether it asks for "uncertain"
\* (observationRequired, past a boundary, an UNCERTAIN_SUBMISSION_BLOCKERS code).
Leave(p, mark) ==
    IF mark
    THEN /\ Goto(p, "report")
         /\ memo' = [memo EXCEPT ![p] = [Blank EXCEPT !.mark = TRUE]]
         /\ UNCHANGED outcome
    ELSE Return(p, "blocked")

\* runAtomicSubmission reports the blocker itself, and then submit does again.
LeaveTwice(p, mark) ==
    IF mark
    THEN /\ Goto(p, "reportFirst")
         /\ memo' = [memo EXCEPT ![p] = [Blank EXCEPT !.mark = TRUE]]
         /\ UNCHANGED outcome
    ELSE Return(p, "blocked")

\* An append that returns, or throws (uncommitted, or committed with its
\* acknowledgement lost and no reread possible).
Append(event, ok, failed) ==
    \/ event /\ ok /\ UNCHANGED faults
    \/ /\ faults < MaxFaults
       /\ faults' = faults + 1
       /\ event \/ UNCHANGED ledgerVars
       /\ failed

\* appendPhaseConvergent
AppendPhase(to, cause, ok, failed) ==
    IF PhaseReached(phase, to)
    THEN ok /\ UNCHANGED <<ledgerVars, faults>>
    ELSE IF CanChangePhase(to, cause, TRUE)
         THEN Append(PhaseChanged(to, cause, TRUE), ok, failed)
         ELSE failed /\ UNCHANGED <<ledgerVars, faults>>

\* What is already durable agrees with what this caller observed, or throws.
Converged(ok, failed) == (ok \/ failed) /\ UNCHANGED <<ledgerVars, faults>>

ReadOnly == UNCHANGED <<ledgerVars, browserVars, budgetVars>>
JournalOnly == UNCHANGED <<browserVars, crashes>>

PastBoundary(p) == memo[p].handoff # NoAction

-----------------------------------------------------------------------------
(* submit: bind the target, take the snapshot *)

\* ensureCreated and resolveAndBindTarget; a failed target probe only reports.
Begin(p) ==
    /\ At(p, "idle")
    /\ Goto(p, "load")
    /\ memo' = [memo EXCEPT ![p] = Blank]
    /\ outcome' = [outcome EXCEPT ![p] = "none"]
    /\ IF target = "unbound"
       THEN \E life \in {"fixed", "new_pending"} : TargetBound(life)
       ELSE UNCHANGED ledgerVars
    /\ UNCHANGED <<browserVars, budgetVars>>

\* The snapshot, checked for coherence.  A durable Send makes the rest of the
\* call observation only.
Load(p) ==
    /\ At(p, "load")
    /\ IF CoherentSubmission
       THEN /\ Goto(p, IF OfKind("send") # {} THEN "reconcile" ELSE "stage")
            /\ memo' = [memo EXCEPT ![p] =
                 [phase       |-> phase,
                  newTarget   |-> target = "new_pending",
                  handoff     |-> IF OfKind("file_handoff") = {} THEN NoAction
                                  ELSE TheHandoff,
                  handoffDone |-> OfKind("file_handoff") # {}
                                  /\ Settled("file_handoff", {"satisfied"}),
                  sendDone    |-> FALSE,
                  mark        |-> FALSE]]
            /\ UNCHANGED outcome
       ELSE Return(p, "operation_state_corrupt")
    /\ ReadOnly

\* observeStaging: the page is as requested, or the call is blocked.
Stage(p) ==
    /\ At(p, "stage")
    /\ \/ Goto(p, IF withManifest THEN "attach" ELSE "readyReceipt") /\ Keep
       \/ Leave(p, FALSE)
    /\ ReadOnly

-----------------------------------------------------------------------------
(* ensureAttachments *)

\* Mutant of Attach: whatever is attached is taken for the manifest.
AttachTrusting(p) ==
    /\ At(p, "attach")
    /\ Goto(p, "readyReceipt")
    /\ Keep
    /\ ReadOnly

Attach(p) ==
    /\ At(p, "attach")
    /\ \E observed \in {attachments, "unavailable"} :
          CASE observed = "exact" -> Goto(p, "readyReceipt") /\ Keep
            [] observed # "exact" /\ memo[p].handoff # NoAction -> Leave(p, TRUE)
            [] observed = "absent" /\ memo[p].handoff = NoAction ->
                 Goto(p, "intendHandoff") /\ Keep
            [] observed \in {"partial", "unavailable"} /\ memo[p].handoff = NoAction ->
                 Leave(p, FALSE)
    /\ ReadOnly

\* Mutant of IntendHandoff: another caller's intent is taken for one's own.
IntendHandoffShared(p) ==
    /\ At(p, "intendHandoff")
    /\ IF CanIntend(HandoffId(p), "file_handoff")
       THEN Append(ActionIntent(HandoffId(p), "file_handoff"),
                   Goto(p, "handoffPhase") /\ Keep, Leave(p, FALSE))
       ELSE Goto(p, "handoff") /\ Keep /\ UNCHANGED <<ledgerVars, faults>>
    /\ JournalOnly

\* persistActionIntent: a conflicting intent, or a phase past prepared, throws.
IntendHandoff(p) ==
    /\ At(p, "intendHandoff")
    /\ IF CanIntend(HandoffId(p), "file_handoff")
       THEN Append(ActionIntent(HandoffId(p), "file_handoff"),
                   Goto(p, "handoffPhase") /\ Keep, Leave(p, FALSE))
       ELSE Leave(p, FALSE) /\ UNCHANGED <<ledgerVars, faults>>
    /\ JournalOnly

\* The intent committed, its acknowledgement did not: the reread finds it.
IntendHandoffUnacknowledged(p) ==
    /\ At(p, "intendHandoff")
    /\ faults < MaxFaults
    /\ faults' = faults + 1
    /\ ActionIntent(HandoffId(p), "file_handoff")
    /\ Goto(p, "handoffReread")
    /\ Keep
    /\ JournalOnly

HandoffReread(p) ==
    /\ At(p, "handoffReread")
    /\ Goto(p, IF phase = "prepared" THEN "handoffPhase" ELSE "handoff")
    /\ Keep
    /\ ReadOnly

HandoffPhase(p) ==
    /\ At(p, "handoffPhase")
    /\ AppendPhase("handoff_pending", HandoffId(p),
                   Goto(p, "handoff") /\ Keep, Leave(p, FALSE))
    /\ JournalOnly

\* executeFileHandoffOnce, whatever it answers.
Handoff(p) ==
    /\ At(p, "handoff")
    /\ handoffs' = handoffs + 1
    /\ attachments' \in {attachments, "partial", "exact"}
    /\ Goto(p, "observeHandoff")
    /\ Keep
    /\ UNCHANGED <<ledgerVars, clicks, turns, budgetVars>>

ObserveHandoff(p) ==
    /\ At(p, "observeHandoff")
    /\ \/ /\ attachments = "exact"
          /\ Goto(p, "readyReceipt")
          /\ memo' = [memo EXCEPT ![p].handoff = HandoffId(p)]
          /\ UNCHANGED outcome
       \/ \E mark \in BOOLEAN : Leave(p, mark)
    /\ ReadOnly

-----------------------------------------------------------------------------
(* The ready phase and the prepared Send *)

\* The snapshot phases from which a caller may still make the operation ready.
MayBecomeReady(p) ==
    \/ memo[p].phase = "prepared"
    \/ PastBoundary(p) /\ memo[p].phase \in {"handoff_pending", "uncertain"}

\* persistSubmissionEvidence("phase"), its handoff receipt first.
ReadyReceipt(p) ==
    /\ At(p, "readyReceipt")
    /\ IF memo[p].phase = "ready"
       THEN Goto(p, "prepareSend") /\ Keep /\ UNCHANGED <<ledgerVars, faults>>
       ELSE IF ~MayBecomeReady(p)
       THEN Leave(p, FALSE) /\ UNCHANGED <<ledgerVars, faults>>
       ELSE IF ~PastBoundary(p) \/ memo[p].handoffDone
       THEN Goto(p, "readyPhase") /\ Keep /\ UNCHANGED <<ledgerVars, faults>>
       ELSE IF actions[memo[p].handoff].outcome = "none"
       THEN Append(ActionReceipt(memo[p].handoff, "satisfied"),
                   Goto(p, "readyPhase") /\ Keep, Leave(p, TRUE))
       ELSE Converged(Goto(p, "readyPhase") /\ Keep, Leave(p, TRUE))
    /\ JournalOnly

ReadyPhase(p) ==
    /\ At(p, "readyPhase")
    /\ AppendPhase("ready", memo[p].handoff,
                   Goto(p, "prepareSend") /\ Keep, Leave(p, PastBoundary(p)))
    /\ JournalOnly

\* prepareSend reads the page and keeps its capability in memory.
PrepareSend(p) ==
    /\ At(p, "prepareSend")
    /\ \/ Goto(p, "persistSend") /\ Keep
       \/ \E mark \in BOOLEAN : (mark => PastBoundary(p)) /\ Leave(p, mark)
    /\ ReadOnly

\* Mutant of PersistSend: a caller that finds another's Send executes it.
PersistSendConverging(p) ==
    /\ At(p, "persistSend")
    /\ IF CanIntend(SendId(p), "send")
       THEN Append(ActionPrepared(SendId(p), "send"),
                   Goto(p, "sendPhase") /\ Keep, Leave(p, TRUE))
       ELSE /\ IF OfKind("send") # {} THEN Goto(p, "execute") /\ Keep
               ELSE Leave(p, TRUE)
            /\ UNCHANGED <<ledgerVars, faults>>
    /\ JournalOnly

\* persistPreparedSend: intent and baseline in one event.  A Send of another
\* caller is stale_handle; a phase that left ready is an unexplained failure.
PersistSend(p) ==
    /\ At(p, "persistSend")
    /\ IF CanIntend(SendId(p), "send")
       THEN Append(ActionPrepared(SendId(p), "send"),
                   Goto(p, "sendPhase") /\ Keep, Leave(p, TRUE))
       ELSE Leave(p, OfKind("send") = {}) /\ UNCHANGED <<ledgerVars, faults>>
    /\ JournalOnly

PersistSendUnacknowledged(p) ==
    /\ At(p, "persistSend")
    /\ faults < MaxFaults
    /\ faults' = faults + 1
    /\ ActionPrepared(SendId(p), "send")
    /\ Goto(p, "sendConverge")
    /\ Keep
    /\ JournalOnly

\* The adjacent phase.  Only a caller both of whose appends returned executes.
SendPhase(p) ==
    /\ At(p, "sendPhase")
    /\ AppendPhase("send_pending", SendId(p),
                   Goto(p, "execute") /\ Keep, Goto(p, "sendConverge") /\ Keep)
    /\ JournalOnly

\* The reread after a lost acknowledgement: committed, executeAllowed false.
SendConverge(p) ==
    /\ At(p, "sendConverge")
    /\ IF phase = "ready"
       THEN AppendPhase("send_pending", SendId(p),
                        Goto(p, "reconcile") /\ Keep, Leave(p, TRUE))
       ELSE Converged(Goto(p, "reconcile") /\ Keep, Leave(p, TRUE))
    /\ JournalOnly

-----------------------------------------------------------------------------
(* executePreparedSend, verifyPreparedSend, recoverSend *)

ExecuteClick(p) ==
    /\ At(p, "execute")
    /\ clicks' = clicks + 1
    /\ Goto(p, "verify")
    /\ Keep
    /\ UNCHANGED <<ledgerVars, attachments, handoffs, turns, budgetVars>>

\* The final recheck refuses, or the port throws before the activation.
ExecuteNothing(p) ==
    /\ At(p, "execute")
    /\ \/ Goto(p, "verify") /\ Keep
       \/ \E mark \in BOOLEAN : LeaveTwice(p, mark)
    /\ ReadOnly

\* Mutant of Verify: the activation is taken for the submission.
VerifyTrusting(p) ==
    /\ At(p, "verify")
    /\ Goto(p, "establish")
    /\ Keep
    /\ ReadOnly

Verify(p) ==
    /\ At(p, "verify")
    /\ \/ turns > 0 /\ Goto(p, "establish") /\ Keep
       \/ \E mark \in BOOLEAN : LeaveTwice(p, mark)
    /\ ReadOnly

\* reconcileExistingSend: observe only.
Reconcile(p) ==
    /\ At(p, "reconcile")
    /\ \/ turns > 0 /\ Goto(p, "establish") /\ Keep
       \/ \E mark \in BOOLEAN : Leave(p, mark)
    /\ ReadOnly

-----------------------------------------------------------------------------
(* finishObserved *)

\* establishTarget, for a snapshot whose new conversation had no identity.
Establish(p) ==
    /\ At(p, "establish")
    /\ IF ~memo[p].newTarget
       THEN Goto(p, "evidence") /\ Keep /\ UNCHANGED <<ledgerVars, faults>>
       ELSE IF target = "new_established"
       THEN Converged(Goto(p, "establishWitness") /\ Keep, Leave(p, TRUE))
       ELSE Append(TargetEstablished(TheSend),
                   Goto(p, "establishWitness") /\ Keep, Leave(p, TRUE))
    /\ JournalOnly

AppendWitness(p, next) ==
    IF TheSend \in submissionWitnesses
    THEN Converged(next, Leave(p, TRUE))
    ELSE Append(SubmissionWitness(TheSend), next, Leave(p, TRUE))

EstablishWitness(p) ==
    /\ At(p, "establishWitness")
    /\ AppendWitness(p, Goto(p, "evidence") /\ Keep)
    /\ JournalOnly

\* Where persistSubmissionEvidence("receipt") goes on once a witness is durable.
AfterWitness(p, sendDone) ==
    /\ Goto(p, IF phase = "ready" THEN "leaveReady"
               ELSE IF sendDone THEN "submittedPhase" ELSE "sendReceipt")
    /\ memo' = [memo EXCEPT ![p].sendDone = sendDone]
    /\ UNCHANGED outcome

\* Mutant of Evidence: a missing witness is not appended.
EvidenceUnwitnessed(p) ==
    /\ At(p, "evidence")
    /\ Converged(AfterWitness(p, actions[TheSend].outcome # "none"), Leave(p, TRUE))
    /\ JournalOnly

Evidence(p) ==
    /\ At(p, "evidence")
    /\ LET sendDone == actions[TheSend].outcome # "none"
       IN  IF TheSend \in submissionWitnesses
           THEN Converged(AfterWitness(p, sendDone), Leave(p, TRUE))
           ELSE /\ Goto(p, "witness")
                /\ memo' = [memo EXCEPT ![p].sendDone = sendDone]
                /\ UNCHANGED <<outcome, ledgerVars, faults>>
    /\ JournalOnly

Witness(p) ==
    /\ At(p, "witness")
    /\ AppendWitness(p, AfterWitness(p, memo[p].sendDone))
    /\ JournalOnly

\* Back on the causal path: the missing send_pending, or through uncertain.
LeaveReady(p) ==
    /\ At(p, "leaveReady")
    /\ AppendPhase(IF memo[p].sendDone THEN "uncertain" ELSE "send_pending", TheSend,
                   Goto(p, IF memo[p].sendDone THEN "submittedPhase" ELSE "sendReceipt")
                   /\ Keep,
                   Leave(p, TRUE))
    /\ JournalOnly

SendReceipt(p) ==
    /\ At(p, "sendReceipt")
    /\ IF actions[TheSend].outcome = "none"
       THEN Append(ActionReceipt(TheSend, "satisfied"),
                   Goto(p, "submittedPhase") /\ Keep, Leave(p, TRUE))
       ELSE Converged(Goto(p, "submittedPhase") /\ Keep, Leave(p, TRUE))
    /\ JournalOnly

SubmittedPhase(p) ==
    /\ At(p, "submittedPhase")
    /\ AppendPhase("submitted", TheSend, Return(p, "submitted"), Leave(p, TRUE))
    /\ JournalOnly

-----------------------------------------------------------------------------
(* Blockers, cancellation, crashes, the browser *)

\* The blocker's "uncertain" phase; a failure to record it is swallowed.
MarkUncertain(done) ==
    IF phase \notin {"uncertain", "completed"} /\ mutationBoundary # "none"
    THEN AppendPhase("uncertain", NoAction, done, done)
    ELSE done /\ UNCHANGED <<ledgerVars, faults>>

ReportFirst(p) ==
    /\ At(p, "reportFirst")
    /\ MarkUncertain(Goto(p, "report") /\ Keep)
    /\ JournalOnly

Report(p) ==
    /\ At(p, "report")
    /\ MarkUncertain(Return(p, "blocked"))
    /\ JournalOnly

\* cancellationCode at the points where it is looked at.
Cancel(p) ==
    /\ pc[p] \in {"load", "intendHandoff", "handoff", "prepareSend", "persistSend",
                  "execute"}
    /\ Leave(p, CASE pc[p] = "load" -> mutationBoundary # "none"
                  [] pc[p] = "intendHandoff" -> FALSE
                  [] pc[p] \in {"handoff", "execute"} -> TRUE
                  [] pc[p] \in {"prepareSend", "persistSend"} -> PastBoundary(p))
    /\ ReadOnly

Crash(p) ==
    /\ pc[p] # "idle"
    /\ crashes < MaxCrashes
    /\ crashes' = crashes + 1
    /\ Return(p, "crashed")
    /\ UNCHANGED <<ledgerVars, browserVars, faults>>

\* A slow upload completes after the handoff call returned.
UploadSettles ==
    /\ attachments = "partial"
    /\ attachments' = "exact"
    /\ UNCHANGED <<ledgerVars, callerVars, handoffs, clicks, turns, budgetVars>>

\* The provider shows the user turn of an activation, which empties the composer.
TurnAppears ==
    /\ turns < clicks
    /\ turns' = turns + 1
    /\ attachments' = "absent"
    /\ UNCHANGED <<ledgerVars, callerVars, handoffs, clicks, budgetVars>>

SubmitInit ==
    /\ LedgerInit
    /\ capturePolicy = "receipt_only"
    /\ withManifest \in BOOLEAN
    /\ pc = [p \in Submitter |-> "idle"]
    /\ memo = [p \in Submitter |-> Blank]
    /\ outcome = [p \in Submitter |-> "none"]
    /\ attachments = "absent"
    /\ handoffs = 0
    /\ clicks = 0
    /\ turns = 0
    /\ crashes = 0
    /\ faults = 0

AttachmentStep(p) ==
    \/ Attach(p) \/ IntendHandoff(p) \/ IntendHandoffUnacknowledged(p)
    \/ HandoffReread(p) \/ HandoffPhase(p) \/ Handoff(p) \/ ObserveHandoff(p)
SendStep(p) ==
    \/ ReadyReceipt(p) \/ ReadyPhase(p) \/ PrepareSend(p) \/ PersistSend(p)
    \/ PersistSendUnacknowledged(p) \/ SendPhase(p) \/ SendConverge(p)
    \/ ExecuteClick(p) \/ ExecuteNothing(p) \/ Verify(p) \/ Reconcile(p)
ProofStep(p) ==
    \/ Establish(p) \/ EstablishWitness(p) \/ Evidence(p) \/ Witness(p)
    \/ LeaveReady(p) \/ SendReceipt(p) \/ SubmittedPhase(p)

SubmitStep ==
    \/ \E p \in Submitter :
          \/ Begin(p) \/ Load(p) \/ Stage(p)
          \/ AttachmentStep(p) \/ SendStep(p) \/ ProofStep(p)
          \/ ReportFirst(p) \/ Report(p) \/ Cancel(p) \/ Crash(p)
    \/ UploadSettles
    \/ TurnAppears
SubmitNext == SubmitStep /\ UNCHANGED withManifest

SubmitSpec == SubmitInit /\ [][SubmitNext]_submitVars

-----------------------------------------------------------------------------
(* Properties *)

Labels == {"idle", "load", "stage", "attach", "intendHandoff", "handoffReread",
           "handoffPhase", "handoff", "observeHandoff", "readyReceipt",
           "readyPhase", "prepareSend", "persistSend", "sendPhase",
           "sendConverge", "execute", "verify", "reconcile", "establish",
           "establishWitness", "evidence", "witness", "leaveReady",
           "sendReceipt", "submittedPhase", "reportFirst", "report"}

SubmitTypeOK ==
    /\ TypeOK
    /\ pc \in [Submitter -> Labels]
    /\ outcome \in [Submitter -> {"none", "submitted", "blocked", "crashed",
                                  "operation_state_corrupt"}]
    /\ attachments \in {"absent", "partial", "exact"}
    /\ handoffs \in Nat /\ clicks \in Nat /\ turns \in Nat

\* Send and file handoff are each one-shot: however many callers, retries,
\* crashes and lost acknowledgements, the browser is asked once, behind a
\* durable intent, and the journal confirms only what the browser did
\* (runAtomicSubmission, persistPreparedSend, persistActionIntent).
SendShot == INSTANCE OneShot WITH
    intended <- OfKind("send") # {}, activations <- clicks, confirmed <- OwnedSend
SendIsOneShot == SendShot!Spec

HandoffShot == INSTANCE OneShot WITH
    intended <- OfKind("file_handoff") # {}, activations <- handoffs,
    confirmed <- OfKind("file_handoff") # {} /\ Settled("file_handoff", {"satisfied"})
HandoffIsOneShot == HandoffShot!Spec

\* Every append of a submission is an event the journal accepts from callers in
\* its place, in the order the ledger allows.
ImplementsLedger == LedgerSpec

\* A proven Send has its one user turn in the conversation: neither an
\* activation nor another caller's optimism is taken for a submission.
NoFalseSubmission ==
    /\ OwnedSend => turns = 1
    /\ \A p \in Submitter : outcome[p] = "submitted" => OwnedSend

\* The Send is activated with the exact manifest attached, and no file is
\* handed to the browser once it was.
SendCarriesManifest ==
    [][ /\ clicks' # clicks /\ withManifest => attachments = "exact"
        /\ handoffs' # handoffs => clicks = 0
      ]_submitVars

\* A posted turn is never lost: the next submit resumes by observing it, unless
\* its ownership is proven already and a collector takes over.
PostedTurnIsRecoverable == turns > 0 => CoherentSubmission \/ OwnedSend

Quiet == \A p \in Submitter : At(p, "idle")

\* "That committed prefix is valid and must resume through observation only":
\* once no caller is at work any more, the next submit resumes from a handoff
\* whose receipt is absent or good, whatever the callers got to append.
HandoffPrefixResumes ==
    Quiet /\ phase \in {"prepared", "handoff_pending"} => CoherentSubmission

\* "These are the only legal durable snapshots at each non-repeatable boundary":
\* what callers can leave behind while a Send is pending, submit resumes from.
SendPrefixResumes == Quiet /\ phase = "send_pending" => CoherentSubmission
=============================================================================
