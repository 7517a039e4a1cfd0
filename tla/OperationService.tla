--------------------------- MODULE OperationService ---------------------------
(***************************************************************************)
(* What happens to an operation after its Send: collect calls observe the  *)
(* page and complete the operation (OperationService.collect and           *)
(* collectOperation), control calls steer a running Work answer or stop it *)
(* (runOperationControl).  All of them work from a snapshot of the journal *)
(* and from readings of a page that goes on without them; every append     *)
(* reloads and is one atomic step of the operation's ledger.               *)
(*                                                                         *)
(* The behaviours start where submit may leave a posted Send: its baseline *)
(* and witness are durable, its receipt and phase perhaps are not.  The    *)
(* target is fixed and nothing is transferred (policy receipt_only).       *)
(***************************************************************************)
EXTENDS OperationLedger

CONSTANTS
    TheSend,       \* the action that sent the prompt
    Collector,     \* callers of collect
    SteerCall,     \* calls of control, each a pair <<action, attempt>>:
    StopCall,      \*   attempts that name one action repeat one request
    Scenario,      \* sets of calls that are made together
    MaxText,       \* bound: how often one answer is seen to grow
    MaxMishaps     \* bound: calls that end in the middle, appends that throw,
                   \*   committed or not, and browser calls that fail

Steer == {p[1] : p \in SteerCall}
Stop == {p[1] : p \in StopCall}
ControlCall == SteerCall \cup StopCall
Caller == Collector \cup ControlCall
ActionOf(p) == p[1]
MaxTurns == 1 + Cardinality(SteerCall)

ASSUME ServiceAssumption ==
    /\ ActionId = {TheSend} \cup Steer \cup Stop
    /\ TheSend \notin Steer \cup Stop
    /\ Steer \cap Stop = {}
    /\ Collector \cap ControlCall = {} /\ IsFiniteSet(SteerCall)
    /\ \A calls \in Scenario : calls \subseteq Caller /\ calls \cap Collector # {}
    /\ MaxText \in Nat /\ MaxMishaps \in Nat

VARIABLES
    calls,        \* the calls that are made; it does not change
    pc,           \* where each call is
    memo,         \* what it remembers of its snapshot and of its readings
    baselineOf,   \* content of each durable baseline
    witnessOf,    \* the user turn each durable witness names (0: none)
    stopTurn,     \* the turn whose answer a durable stop is about
    receiptTurn,  \* the user turn the terminal receipt answers (0: none)
    userTurns,    \* user turns the page shows
    posting,      \* activated turns the page does not show yet
    answer,       \* the answer to the last one
    text,         \* how far each answer's text has got
    activations,  \* clicks made for each control action
    mishaps

callVars == <<calls, pc, memo>>
evidenceVars == <<baselineOf, witnessOf, stopTurn, receiptTurn>>
pageVars == <<userTurns, posting, answer, text>>
serviceVars == <<ledgerVars, callVars, evidenceVars, pageVars, activations, mishaps>>

-----------------------------------------------------------------------------
\* What a steer's baseline holds of the page: the user turns, and the answer
\* that is being generated, by the digest of its text.
Reading == [turns |-> userTurns, text |-> text[userTurns]]
NoReading == [turns |-> 0, text |-> 0]

Blank == [owner |-> NoAction, plan |-> {}, seen |-> "none", goal |-> "none",
          turn |-> 0, sendDone |-> FALSE, base |-> NoReading, result |-> "none"]

At(p, label) == pc[p] = label
Goto(p, label) == pc' = [pc EXCEPT ![p] = label] /\ UNCHANGED <<calls, memo>>
GotoWith(p, label, m) ==
    /\ pc' = [pc EXCEPT ![p] = label]
    /\ memo' = [memo EXCEPT ![p] = m]
    /\ UNCHANGED calls
Finish(p) == GotoWith(p, "idle", Blank)

Mishap == mishaps < MaxMishaps /\ mishaps' = mishaps + 1

JournalUnchanged == UNCHANGED <<ledgerVars, evidenceVars>>
ReadOnly == JournalUnchanged /\ UNCHANGED <<pageVars, activations, mishaps>>
JournalOnly == UNCHANGED <<pageVars, activations>>
KeepEvidence == UNCHANGED evidenceVars

\* An append that returns, or throws: uncommitted, or committed without an
\* acknowledgement.
Append(event, ok, failed) ==
    \/ event /\ ok /\ UNCHANGED mishaps
    \/ Mishap /\ (event \/ JournalUnchanged) /\ failed

NoAppend(next) == next /\ JournalUnchanged /\ UNCHANGED mishaps

\* appendPhaseConvergent
AppendPhase(to, ok, failed) ==
    IF PhaseReached(phase, to) THEN NoAppend(ok)
    ELSE IF CanChangePhase(to, TheSend, TRUE)
         THEN Append(PhaseChanged(to, TheSend, TRUE) /\ KeepEvidence, ok, failed)
         ELSE NoAppend(failed)

-----------------------------------------------------------------------------
(* Who owns the answer on the page *)

Fenced == OfKind("work_steer")
Unresolved(a) == actions[a].outcome \in {"none", "uncertain"}

Candidates == {a \in OfKinds(OwnershipKinds) :
                  actions[a].outcome \notin {"not_satisfied", "uncertain"}}

\* latestSubmissionOwnership: no fenced steer and no candidate lacks its witness.
OwnershipKnown ==
    /\ \A a \in Fenced : actions[a].outcome = "not_satisfied" \/ a \in submissionWitnesses
    /\ Candidates # {}
    /\ Candidates \subseteq submissionWitnesses

\* Settlement order is intent order: a steer is fenced behind settled ones only.
Owner == Latest(Candidates \cap submissionWitnesses)

\* analyzeDelta and classifyFreshOwnedUser, from the baseline of action a: what
\* it holds is unchanged, and exactly the witnessed user turn was added.
Classify(a) ==
    LET base == baselineOf[a]
    IN  CASE base.turns > 0 /\ text[base.turns] # base.text -> "ambiguous"
          [] OTHER ->
             CASE userTurns = base.turns -> "not_observed"
               [] userTurns > base.turns + 1 \/ witnessOf[a] # userTurns -> "ambiguous"
               [] OTHER -> CASE answer = "none" -> "owned_user_turn"
                             [] answer = "generating" -> "owned_generating"
                             [] answer = "terminal" -> "owned_terminal"

\* isCollectableState
Collectable ==
    \/ phase \in {"submitted", "generating", "capturing", "uncertain"}
    \/ phase \in {"ready", "send_pending"} /\ OfKind("send") # {}

\* The decisions of decideOperationRecovery for the snapshot, by observation.
Plan == {<<turn, OperationRecovery(turn).kind>> : turn \in TurnObservations}

\* What an owned user turn without an answer proves (decisionForPendingAction).
ProvenByUserTurn ==
    IF \/ phase = "generating"
       \/ PendingNonRepeatable # {} /\ actions[Latest(PendingNonRepeatable)].kind = "stop"
    THEN "generating" ELSE "submitted"

-----------------------------------------------------------------------------
(* collect *)

\* A completed operation is answered from its receipt.
ReturnReceipt(p) ==
    /\ p \in calls /\ At(p, "idle")
    /\ phase = "completed"
    /\ UNCHANGED serviceVars

\* readDurable.  A refusal changes nothing and is left out.
ReadDurable(p) ==
    /\ p \in calls /\ At(p, "idle")
    /\ phase # "completed"
    /\ Collectable
    /\ OwnershipKnown
    /\ GotoWith(p, "observe", [Blank EXCEPT !.owner = Owner, !.plan = Plan,
                                            !.seen = phase, !.goal = ProvenByUserTurn])
    /\ ReadOnly

\* observe, classify and decide, from the snapshot and a page read after it.
\* Progress the snapshot already shows is not persisted again.
Observe(p) ==
    /\ At(p, "observe")
    /\ LET turn == Classify(memo[p].owner)
           kind == (CHOOSE d \in memo[p].plan : d[1] = turn)[2]
           proven == IF turn = "owned_generating" THEN "generating" ELSE memo[p].goal
           Keep(goal) == GotoWith(p, "persist",
                            [Blank EXCEPT !.owner = memo[p].owner, !.goal = goal, !.turn =
                                IF goal = "capturing" THEN userTurns ELSE 0])
       IN  CASE kind = "capture_owned_turn" -> Keep("capturing")
             [] /\ kind = "continue_owned_turn"
                /\ turn # "not_observed"
                /\ ~PhaseReached(memo[p].seen, proven) -> Keep(proven)
             [] OTHER -> Finish(p)
    /\ ReadOnly

\* Mutant of StillOwner: what was observed is persisted for whoever owns it now.
AnyOwner(p) == TRUE

\* assertCollectorOwnership, on the reloaded state
StillOwner(p) == OwnershipKnown /\ Owner = memo[p].owner

\* persistProgress and persistTerminal reload and check that the turn observed
\* is still the latest owner's; what they see of the Send they remember.
Persist(p) ==
    /\ At(p, "persist")
    /\ IF /\ receipt = "absent"
          /\ StillOwner(p)
          /\ memo[p].goal # "capturing" => ~PhaseReached(phase, memo[p].goal)
       THEN GotoWith(p, CASE phase = "ready" -> "leaveReady"
                          [] phase # "ready" /\ actions[TheSend].outcome = "none" -> "sendReceipt"
                          [] OTHER -> "submitted",
                     [memo[p] EXCEPT !.owner = NoAction,
                                     !.sendDone = actions[TheSend].outcome = "satisfied"])
       ELSE Finish(p)
    /\ ReadOnly

\* Mutant of PhaseFromReady: a Send satisfied while ready is not quarantined.
SendPendingFromReady(p) == "send_pending"

\* The Send's phase event is missing: add it, or, when its receipt came first,
\* leave ready by way of uncertain.
PhaseFromReady(p) == IF memo[p].sendDone THEN "uncertain" ELSE "send_pending"

LeaveReady(p) ==
    /\ At(p, "leaveReady")
    /\ AppendPhase(PhaseFromReady(p),
                   Goto(p, IF memo[p].sendDone THEN "submitted" ELSE "sendReceipt"), Finish(p))
    /\ JournalOnly

\* appendActionReceiptConvergent.  Two observers derive different evidence for
\* one outcome: the later one may be refused.
SendReceipt(p) ==
    /\ At(p, "sendReceipt")
    /\ IF actions[TheSend].outcome = "none"
       THEN Append(ActionReceipt(TheSend, "satisfied") /\ KeepEvidence,
                   Goto(p, "submitted"), Finish(p))
       ELSE NoAppend(Goto(p, "submitted") \/ Finish(p))
    /\ JournalOnly

SubmittedPhase(p) ==
    /\ At(p, "submitted")
    /\ LET next == Goto(p, IF memo[p].goal = "capturing" THEN "capture" ELSE "generate")
       IN  IF phase \in {"send_pending", "uncertain"}
           THEN AppendPhase("submitted", next, Finish(p))
           ELSE NoAppend(next)
    /\ JournalOnly

GeneratingPhase(p) ==
    /\ At(p, "generate")
    /\ IF memo[p].goal = "generating" /\ phase = "submitted"
       THEN AppendPhase("generating", Finish(p), Finish(p))
       ELSE NoAppend(Finish(p))
    /\ JournalOnly

\* The end of advanceToCapturing.
CapturingPhase(p) ==
    /\ At(p, "capture")
    /\ IF phase \in {"submitted", "generating", "uncertain"}
       THEN AppendPhase("capturing", Goto(p, "complete"), Finish(p))
       ELSE NoAppend(IF phase \in {"capturing", "completed"} THEN Goto(p, "complete")
                                                             ELSE Finish(p))
    /\ JournalOnly

\* receipt_completed, with the turn that was observed.  A receipt another
\* collector wrote meanwhile is accepted or refused; both end the call.
CompleteOperation(p) ==
    /\ At(p, "complete")
    /\ IF receipt = "absent" /\ phase \in {"capturing", "uncertain"}
       THEN Append(/\ ReceiptCompleted("content_available")
                   /\ receiptTurn' = memo[p].turn
                   /\ UNCHANGED <<baselineOf, witnessOf, stopTurn>>,
                   Finish(p), Finish(p))
       ELSE NoAppend(Finish(p))
    /\ JournalOnly

CollectStep(p) ==
    \/ ReturnReceipt(p)
    \/ ReadDurable(p)
    \/ Observe(p)
    \/ Persist(p)
    \/ LeaveReady(p)
    \/ SendReceipt(p)
    \/ SubmittedPhase(p)
    \/ GeneratingPhase(p)
    \/ CapturingPhase(p)
    \/ CompleteOperation(p)

-----------------------------------------------------------------------------
(* control *)

Answering(turn) == turn = userTurns /\ answer = "generating"

\* readParent, validateParentSnapshot and, for an action that is not durable,
\* the reading that prepareSteer or observeTurn makes next: the answer asked
\* about must be generated.  (The journal is read again before it is appended
\* to, so a change between the two reads shows there.)
BeginControl(p) ==
    /\ p \in calls /\ At(p, "idle")
    /\ ActionOf(p) \notin Recorded
    /\ phase = "generating"
    /\ answer = "generating"
    /\ GotoWith(p, IF ActionOf(p) \in Steer THEN "fence" ELSE "intend",
                [Blank EXCEPT !.base = Reading])
    /\ ReadOnly

\* A durable action without an outcome is only observed: a steer in any phase,
\* a stop while the parent generates.  One with an outcome is answered from it.
ResumeControl(p) ==
    LET a == ActionOf(p)
    IN  /\ p \in calls /\ At(p, "idle")
        /\ a \in Recorded
        /\ actions[a].outcome = "none"
        /\ \/ a \in Steer /\ GotoWith(p, "verify", [Blank EXCEPT !.base = baselineOf[a]])
           \/ a \in Stop /\ phase = "generating" /\ Goto(p, "judge")
        /\ ReadOnly

\* priorWorkSteerDisposition: another steer's fate is not known.
SteerInDoubt(a) == {b \in Fenced \ {a} : Unresolved(b)}

\* Mutant of Converged: a fence found durable is taken for one's own.
ConvergedAcquired == "acquired"

\* same_action_recovery, or an append that threw: reload, and only observe.
Converged == "reload"

\* persistSteerIntentAndBaseline: the intent and its baseline in one append;
\* only its acknowledgement lets this call act.
FenceSteer(p) ==
    LET a == ActionOf(p)
    IN  /\ At(p, "fence")
        /\ IF a \in Fenced
           THEN NoAppend(IF baselineOf[a] = memo[p].base THEN Goto(p, Converged) ELSE Finish(p))
           ELSE IF SteerInDoubt(a) # {} THEN NoAppend(Finish(p))
           ELSE IF CanIntend(a, "work_steer")
           THEN Append(/\ ActionPrepared(a, "work_steer")
                       /\ baselineOf' = [baselineOf EXCEPT ![a] = memo[p].base]
                       /\ UNCHANGED <<witnessOf, stopTurn, receiptTurn>>,
                       Goto(p, "acquired"), Goto(p, Converged))
           ELSE NoAppend(Goto(p, Converged))
        /\ JournalOnly

\* reloadSteerAfterPersistenceFailure, reconcileExistingSteer
ReloadSteer(p) ==
    LET a == ActionOf(p)
    IN  /\ At(p, "reload")
        /\ IF a \in Fenced /\ actions[a].outcome = "none"
           THEN GotoWith(p, "verify", [memo[p] EXCEPT !.base = baselineOf[a]])
           ELSE Finish(p)
        /\ ReadOnly

\* The page still is what the baseline says.
Unmoved(p) == Reading = memo[p].base /\ answer = "generating"

\* executePrepared, up to the composer and the control.  A call cancelled by now,
\* or that misses a control, is rejected; a page that moved or cannot be read is
\* to be observed.
RecheckSteer(p) ==
    /\ At(p, "acquired")
    /\ \/ Unmoved(p) /\ Goto(p, "click") /\ UNCHANGED mishaps
       \/ GotoWith(p, "receipt", [Blank EXCEPT !.result = "not_satisfied"]) /\ UNCHANGED mishaps
       \/ ~Unmoved(p) /\ Goto(p, "verify") /\ UNCHANGED mishaps
       \/ Mishap /\ Goto(p, "verify")
    /\ JournalUnchanged
    /\ UNCHANGED <<pageVars, activations>>

\* fill and click: the click lands, or one of the two fails before it does.
ActivateSteer(p) ==
    /\ At(p, "click")
    /\ \/ /\ activations' = [activations EXCEPT ![ActionOf(p)] = @ + 1]
          /\ posting' = posting + 1
          /\ UNCHANGED mishaps
       \/ Mishap /\ UNCHANGED <<activations, posting>>
    /\ Goto(p, "verify")
    /\ JournalUnchanged
    /\ UNCHANGED <<userTurns, answer, text>>

\* verify and recover: exactly one user turn was added to the baseline.  A
\* reading that fails or is not complete settles nothing.
VerifySteer(p) ==
    /\ At(p, "verify")
    /\ \/ /\ userTurns = memo[p].base.turns + 1
          /\ GotoWith(p, "witness", [Blank EXCEPT !.turn = userTurns, !.result = "satisfied"])
       \/ Finish(p)
    /\ ReadOnly

\* appendSubmissionWitnessConvergent.  A witness carries the time of its own
\* call: one that is durable already matches only by coincidence.
WitnessSteer(p) ==
    LET a == ActionOf(p)
    IN  /\ At(p, "witness")
        /\ IF a \in submissionWitnesses
           THEN NoAppend((witnessOf[a] = memo[p].turn /\ Goto(p, "receipt")) \/ Finish(p))
           ELSE IF CanWitness(a)
           THEN Append(/\ SubmissionWitness(a)
                       /\ witnessOf' = [witnessOf EXCEPT ![a] = memo[p].turn]
                       /\ UNCHANGED <<baselineOf, stopTurn, receiptTurn>>,
                       Goto(p, "receipt"), Finish(p))
           ELSE NoAppend(Finish(p))
        /\ JournalOnly

\* persistOutcome; a receipt that is durable already ends the call either way.
ControlReceipt(p) ==
    LET a == ActionOf(p)
    IN  /\ At(p, "receipt")
        /\ IF CanReceipt(a)
           THEN Append(ActionReceipt(a, memo[p].result) /\ KeepEvidence, Finish(p), Finish(p))
           ELSE NoAppend(Finish(p))
        /\ JournalOnly

\* persistActionIntent: an intent of this action found durable counts as one's
\* own; an append that throws without committing refuses the call.
IntendStop(p) ==
    LET a == ActionOf(p)
    IN  /\ At(p, "intend")
        /\ IF a \in Recorded
           THEN NoAppend(IF stopTurn[a] = memo[p].base.turns THEN Goto(p, "act") ELSE Finish(p))
           ELSE IF CanIntend(a, "stop")
           THEN Append(/\ ActionIntent(a, "stop")
                       /\ stopTurn' = [stopTurn EXCEPT ![a] = memo[p].base.turns]
                       /\ UNCHANGED <<baselineOf, witnessOf, receiptTurn>>,
                       Goto(p, "act"),
                       IF a \in Recorded' THEN Goto(p, "act") ELSE Finish(p))
           ELSE NoAppend(Finish(p))
        /\ JournalOnly

\* executeControlOnce clicks the page's stop button, if there is one; a call
\* cancelled by now does not.
ActivateStop(p) ==
    /\ At(p, "act")
    /\ \/ /\ answer = "generating"
          /\ activations' = [activations EXCEPT ![ActionOf(p)] = @ + 1]
       \/ UNCHANGED activations
    /\ GotoWith(p, "judge", Blank)
    /\ JournalUnchanged
    /\ UNCHANGED <<pageVars, mishaps>>

\* observeControlPostcondition
JudgeStop(p) ==
    /\ At(p, "judge")
    /\ \E result \in {IF Answering(stopTurn[ActionOf(p)]) THEN "not_satisfied"
                      ELSE "satisfied", "uncertain"} :
          GotoWith(p, "receipt", [Blank EXCEPT !.result = result])
    /\ ReadOnly

ControlStep(p) ==
    \/ BeginControl(p)
    \/ ResumeControl(p)
    \/ FenceSteer(p)
    \/ ReloadSteer(p)
    \/ RecheckSteer(p)
    \/ ActivateSteer(p)
    \/ VerifySteer(p)
    \/ WitnessSteer(p)
    \/ IntendStop(p)
    \/ ActivateStop(p)
    \/ JudgeStop(p)
    \/ ControlReceipt(p)

-----------------------------------------------------------------------------
(* The page, and calls that end in the middle *)

PageChanges == JournalUnchanged /\ UNCHANGED <<callVars, activations, mishaps>>

\* An activated turn appears; what was being answered before is not any more.
TurnShown ==
    /\ posting > 0
    /\ posting' = posting - 1
    /\ userTurns' = userTurns + 1
    /\ answer' = "none"
    /\ UNCHANGED text
    /\ PageChanges

AnswerStarts ==
    /\ answer = "none"
    /\ answer' = "generating"
    /\ UNCHANGED <<userTurns, posting, text>>
    /\ PageChanges

AnswerStreams ==
    /\ answer = "generating"
    /\ text[userTurns] < MaxText
    /\ text' = [text EXCEPT ![userTurns] = @ + 1]
    /\ UNCHANGED <<userTurns, posting, answer>>
    /\ PageChanges

AnswerEnds ==
    /\ answer = "generating"
    /\ answer' = "terminal"
    /\ UNCHANGED <<userTurns, posting, text>>
    /\ PageChanges

\* A process dies, or a collector's reading fails or is cancelled.
EndCall(p) ==
    /\ ~At(p, "idle")
    /\ Mishap
    /\ Finish(p)
    /\ JournalUnchanged
    /\ UNCHANGED <<pageVars, activations>>

-----------------------------------------------------------------------------

\* What submit may leave of a Send whose turn it has seen.
LeftBySubmit == ({"ready", "send_pending", "uncertain"} \X {"none", "satisfied"})
                   \cup {<<"submitted", "satisfied">>}

ServiceInit ==
    /\ \E left \in LeftBySubmit :
          /\ phase = left[1]
          /\ actions = [a \in ActionId |->
                           IF a = TheSend
                           THEN [kind |-> "send", outcome |-> left[2], order |-> 1]
                           ELSE Absent]
    /\ mutationBoundary = "send"
    /\ target = "fixed"
    /\ ownershipBaselines = {TheSend}
    /\ submissionWitnesses = {TheSend}
    /\ receipt = "absent"
    /\ capturePolicy = "receipt_only"
    /\ intentRevision = 1
    /\ calls \in Scenario
    /\ pc = [p \in Caller |-> "idle"]
    /\ memo = [p \in Caller |-> Blank]
    /\ baselineOf = [a \in ActionId |-> NoReading]
    /\ witnessOf = [a \in ActionId |-> IF a = TheSend THEN 1 ELSE 0]
    /\ stopTurn = [a \in Stop |-> 0]
    /\ receiptTurn = 0
    /\ userTurns = 1
    /\ posting = 0
    /\ answer = "none"
    /\ text = [t \in 1 .. MaxTurns |-> 0]
    /\ activations = [a \in ActionId |-> 0]
    /\ mishaps = 0

ServiceNext ==
    \/ \E p \in Collector : CollectStep(p)
    \/ \E p \in ControlCall : ControlStep(p)
    \/ TurnShown
    \/ AnswerStarts
    \/ AnswerStreams
    \/ AnswerEnds
    \/ \E p \in Caller : EndCall(p)

\* A caller polls until it has the receipt; the provider answers in the end.
\* Nothing is assumed of control calls.
ServiceFairness ==
    /\ \A p \in Collector : WF_serviceVars(CollectStep(p))
    /\ WF_serviceVars(TurnShown)
    /\ WF_serviceVars(AnswerStarts)
    /\ WF_serviceVars(AnswerEnds)

ServiceSpec == ServiceInit /\ [][ServiceNext]_serviceVars /\ ServiceFairness

-----------------------------------------------------------------------------
(* Properties *)

Readings == [turns: 0 .. MaxTurns, text: 0 .. MaxText]
CollectorLabels == {"idle", "observe", "persist", "leaveReady", "sendReceipt",
                    "submitted", "generate", "capture", "complete"}
ControlLabels == {"idle", "fence", "reload", "acquired", "click", "verify",
                  "witness", "receipt", "intend", "act", "judge"}

ServiceTypeOK ==
    /\ TypeOK
    /\ calls \in Scenario
    /\ \A p \in Collector : pc[p] \in CollectorLabels
    /\ \A p \in ControlCall : pc[p] \in ControlLabels
    /\ \A p \in Caller : memo[p].base \in Readings
    /\ baselineOf \in [ActionId -> Readings]
    /\ witnessOf \in [ActionId -> 0 .. MaxTurns]
    /\ stopTurn \in [Stop -> 0 .. MaxTurns]
    /\ receiptTurn \in 0 .. MaxTurns
    /\ userTurns \in 1 .. MaxTurns
    /\ posting \in 0 .. MaxTurns
    /\ answer \in {"none", "generating", "terminal"}
    /\ text \in [1 .. MaxTurns -> 0 .. MaxText]
    /\ mishaps \in 0 .. MaxMishaps

\* "Missing evidence on a candidate is corruption, not a reason to fall back to
\* an older action": the terminal receipt is of the last turn the operation
\* caused, and no activated turn is still to appear behind it
\* (latestSubmissionOwnership, assertCollectorOwnership, executePrepared).
ReceiptIsOfLastTurn == receipt # "absent" => receiptTurn = userTurns /\ posting = 0

\* A steer is activated once, onto the turns its durable baseline has, with no
\* other turn on its way and no other steer in doubt: two callers never both
\* act on one reading of the page (persistSteerIntentAndBaseline).
SteerActsAlone ==
    [][\A a \in Steer :
          activations'[a] # activations[a] =>
             /\ activations[a] = 0
             /\ a \in ownershipBaselines
             /\ baselineOf[a].turns = userTurns
             /\ posting = 0
             /\ \A b \in Fenced \ {a} : ~Unresolved(b)]_serviceVars

\* As long as no steer is fenced, an operation submit left in any prefix is
\* completed by whoever collects it, two at a time and through failed appends
\* (persistProgress, advanceToCapturing).
UnsteeredIsCollected == <>(Fenced # {} \/ phase = "completed")

\* "A durable action intent authorizes at most one executeOnce call"
\* (runOperationControl, control.ts:528)
StopActsOnce == \A a \in Stop : activations[a] <= 1

\* "A failed final recheck is a durable, non-mutating rejection": a steer that was
\* fenced and not activated, without a failure, is rejected (runSteerPhases).
UnactivatedSteerIsRejected ==
    (\A p \in ControlCall : At(p, "idle")) /\ mishaps = 0 =>
       \A a \in Fenced : activations[a] = 0 => actions[a].outcome = "not_satisfied"

\* "Only after the exact post-action user-turn delta has been observed does the
\* journal append the immutable keyed witness": a steer that counts as satisfied
\* was activated (2026-08-16-transactional-operations.md:53, runSteerPhases).
SatisfiedSteerActed ==
    \A a \in Steer : actions[a].outcome = "satisfied" => activations[a] > 0
=============================================================================
