----------------------- MODULE OperationService_proofs ------------------------
(***************************************************************************)
(* Whatever calls are made together, however often they are repeated, end  *)
(* in the middle or lose an acknowledgement: a steer is activated once and *)
(* alone, and the terminal receipt is of the last turn the operation       *)
(* caused.                                                                 *)
(***************************************************************************)
EXTENDS OperationService, OperationLedger_proofs, FiniteSetTheorems

Labels == CollectorLabels \cup ControlLabels
SteerLabels == {"idle", "fence", "reload", "acquired", "click", "verify", "witness",
                "receipt"}
StopLabels == {"idle", "intend", "act", "judge", "receipt"}

RecoveryKinds == {"return_completed_receipt", "observe_action_postcondition",
                  "capture_owned_turn", "continue_owned_turn", "continue_preparation",
                  "enter_uncertain", "block"}
MemoType ==
    [owner: ActionId \cup {NoAction}, plan: SUBSET (TurnObservations \X RecoveryKinds),
     seen: Phases \cup {"none"}, goal: Phases \cup {"none"}, turn: 0 .. MaxTurns,
     sendDone: BOOLEAN, base: Readings, result: Outcomes \cup {"none"}]

Types ==
    /\ TypeOK
    /\ pc \in [Caller -> Labels]
    /\ memo \in [Caller -> MemoType]
    /\ baselineOf \in [ActionId -> Readings]
    /\ witnessOf \in [ActionId -> 0 .. MaxTurns]
    /\ userTurns \in 1 .. MaxTurns /\ posting \in Nat
    /\ answer \in {"none", "generating", "terminal"}
    /\ text \in [1 .. MaxTurns -> 0 .. MaxText]
    /\ activations \in [ActionId -> Nat]

\* Steers whose fate is not known, and the actions that own a turn for good.
Doubt == {a \in Fenced : actions[a].outcome = "none"}
Settled == {TheSend} \cup {a \in Fenced : actions[a].outcome = "satisfied"}
LastSettled == {c \in Settled : \A b \in Settled : actions[b].order <= actions[c].order}
Activated == {a \in Steer : activations[a] = 1}

\* What the journal says of the actions.
LedgerSound ==
    /\ actions[TheSend].kind = "send" /\ actions[TheSend].outcome \in {"none", "satisfied"}
    /\ TheSend \in submissionWitnesses
    /\ \A a \in Steer :
          /\ actions[a].kind \in {"absent", "work_steer"}
          /\ actions[a].outcome \in {"none", "satisfied", "not_satisfied"}
          /\ actions[a].outcome = "satisfied" => a \in submissionWitnesses
    /\ \A a \in Stop : actions[a].kind \in {"absent", "stop"}
    /\ \A a \in Recorded : actions[a].order <= intentRevision
    /\ submissionWitnesses \subseteq {TheSend} \cup Fenced
    /\ Fenced \subseteq ownershipBaselines

\* A steer in doubt is the only one, and the last.
OneInDoubt ==
    \A a \in Doubt, b \in {TheSend} \cup Fenced :
        b # a => b \notin Doubt /\ actions[b].order < actions[a].order

\* A baseline is not ahead of the page, and a witness is one turn after it.
EvidenceSound ==
    /\ witnessOf[TheSend] <= userTurns
    /\ \A a \in Fenced :
          /\ baselineOf[a].turns <= userTurns
          /\ a \in submissionWitnesses =>
                witnessOf[a] = baselineOf[a].turns + 1 /\ witnessOf[a] <= userTurns

\* Whose turn is the last: that of the steer in doubt once it was activated, or has
\* its witness; until then that of the action settled last.
TurnsOwned ==
    /\ \A a \in Steer :
          /\ activations[a] \in {0, 1}
          /\ activations[a] = 1 => a \in Fenced /\ actions[a].outcome # "not_satisfied"
    /\ \A a \in Doubt :
          /\ activations[a] = 1 => userTurns + posting = baselineOf[a].turns + 1
          /\ a \in submissionWitnesses => witnessOf[a] = userTurns /\ posting = 0
    /\ (\A a \in Doubt : activations[a] = 0) =>
          posting = 0 /\ \A c \in LastSettled : witnessOf[c] = userTurns

Counted == userTurns + posting <= 1 + Cardinality(Activated)

\* A call with label l and memory m that may yet activate its steer or reject it.
Holds(l, m) == l \in {"acquired", "click"} \/ (l = "receipt" /\ m.result = "not_satisfied")

OneHolder ==
    \A p, q \in SteerCall :
        /\ ActionOf(p) = ActionOf(q)
        /\ Holds(pc[p], memo[p]) /\ Holds(pc[q], memo[q])
        => p = q

\* What a steering call relies on at label l with memory m.
SteerClaim(p, l, m) ==
    /\ l \in SteerLabels
    /\ l = "fence" => m.base.turns <= userTurns
    /\ l \in {"acquired", "click", "verify"} =>
          ActionOf(p) \in Fenced /\ m.base = baselineOf[ActionOf(p)]
    /\ l = "click" => m.base.turns = userTurns
    /\ l \in {"acquired", "click"} /\ m.base.turns = userTurns =>
          actions[ActionOf(p)].outcome = "none"
    /\ l = "witness" =>
          /\ ActionOf(p) \in Fenced /\ m.result = "satisfied"
          /\ m.turn = baselineOf[ActionOf(p)].turns + 1 /\ m.turn <= userTurns
          /\ actions[ActionOf(p)].outcome = "none" => m.turn = userTurns /\ posting = 0
    /\ l = "receipt" =>
          /\ ActionOf(p) \in Fenced
          /\ \/ m.result = "satisfied" /\ ActionOf(p) \in submissionWitnesses
             \/ m.result = "not_satisfied"
    /\ Holds(l, m) => activations[ActionOf(p)] = 0

\* Turn n is answered, and no other is on its way.
Final(n) ==
    /\ n = userTurns /\ posting = 0 /\ answer = "terminal"
    /\ \A q \in SteerCall : pc[q] # "click"

PlanSound(plan) ==
    /\ \A d \in plan : d[2] = "capture_owned_turn" => d[1] = "owned_terminal"
    /\ \A t \in TurnObservations : \E d \in plan : d[1] = t

\* What a collecting call relies on.
CollectClaim(p, l, m) ==
    /\ l \in CollectorLabels
    /\ l = "observe" =>
          m.owner \in submissionWitnesses /\ m.goal # "capturing" /\ PlanSound(m.plan)
    /\ l = "persist" /\ m.goal = "capturing" =>
          /\ m.owner \in submissionWitnesses /\ m.turn = witnessOf[m.owner]
          /\ m.turn <= userTurns
          /\ m.turn = userTurns => answer = "terminal"
    /\ \/ l \in {"leaveReady", "sendReceipt", "submitted"} /\ m.goal = "capturing"
       \/ l \in {"capture", "complete"}
       => Final(m.turn)

CallsSound ==
    /\ \A p \in SteerCall : SteerClaim(p, pc[p], memo[p])
    /\ \A p \in StopCall : pc[p] \in StopLabels
    /\ \A p \in Collector : CollectClaim(p, pc[p], memo[p])

ReceiptFinal == receipt # "absent" => Final(receiptTurn)

Journal == LedgerSound /\ OneInDoubt
Page == EvidenceSound /\ TurnsOwned /\ Counted
ServiceInv == Types /\ Journal /\ Page /\ OneHolder /\ CallsSound /\ ReceiptFinal

-----------------------------------------------------------------------------
(* The calls and the actions they are about *)

\* What the assumptions say of who calls for what.
LEMMA Roles ==
    /\ TheSend \in ActionId /\ Steer \subseteq ActionId /\ Stop \subseteq ActionId
    /\ TheSend \notin Steer /\ TheSend \notin Stop
    /\ \A a \in Steer : a \notin Stop
    /\ \A a \in ActionId : a = TheSend \/ a \in Steer \/ a \in Stop
    /\ \A p \in SteerCall : ActionOf(p) \in Steer /\ p \in Caller
    /\ \A p \in StopCall : ActionOf(p) \in Stop /\ p \in Caller /\ p \notin SteerCall
    /\ \A p \in Collector : p \in Caller /\ p \notin SteerCall /\ p \notin StopCall
<1>1. \A p \in SteerCall : ActionOf(p) \in Steer
  BY DEF Steer, ActionOf
<1>2. \A p \in StopCall : ActionOf(p) \in Stop
  BY DEF Stop, ActionOf
<1>3. \A a \in Steer : a \notin Stop
  BY ServiceAssumption
<1>4. \A p \in StopCall : p \notin SteerCall
  BY <1>1, <1>2, <1>3
<1>5. /\ TheSend \in ActionId /\ Steer \subseteq ActionId /\ Stop \subseteq ActionId
      /\ TheSend \notin Steer /\ TheSend \notin Stop
      /\ \A a \in ActionId : a = TheSend \/ a \in Steer \/ a \in Stop
  BY ServiceAssumption
<1>6. \A p \in Collector : p \notin SteerCall /\ p \notin StopCall
  BY ServiceAssumption DEF ControlCall
<1>7. SteerCall \subseteq Caller /\ StopCall \subseteq Caller /\ Collector \subseteq Caller
  BY DEF Caller, ControlCall
<1> QED
  BY <1>1, <1>2, <1>3, <1>4, <1>5, <1>6, <1>7

\* Every turn after the Send's belongs to a call: there are steers for no more.
LEMMA TurnsBounded ==
    /\ MaxTurns \in Nat \ {0}
    /\ \A S \in SUBSET Steer : IsFiniteSet(S) /\ 1 + Cardinality(S) <= MaxTurns
<1> DEFINE f == [p \in SteerCall |-> ActionOf(p)]
<1>1. IsFiniteSet(SteerCall) /\ Cardinality(SteerCall) \in Nat
  BY ServiceAssumption, FS_CardinalityType
<1>2. f \in Surjection(SteerCall, Steer)
  BY DEF Surjection, Steer, ActionOf
<1>3. IsFiniteSet(Steer) /\ Cardinality(Steer) <= Cardinality(SteerCall)
  BY <1>1, <1>2, FS_Surjection
<1>4. ASSUME NEW S \in SUBSET Steer
      PROVE  IsFiniteSet(S) /\ 1 + Cardinality(S) <= MaxTurns
  <2>1. IsFiniteSet(S) /\ Cardinality(S) <= Cardinality(Steer)
    BY <1>3, <1>4, FS_Subset
  <2>2. Cardinality(S) \in Nat /\ Cardinality(Steer) \in Nat
    BY <1>3, <2>1, FS_CardinalityType
  <2> QED
    BY <1>1, <1>3, <2>1, <2>2 DEF MaxTurns
<1> QED
  BY <1>1, <1>4 DEF MaxTurns

\* Only steers are fenced, and only they can be in doubt.
LEMMA FencedAreSteers ==
    ASSUME TypeOK, LedgerSound
    PROVE  /\ Fenced = {a \in Steer : actions[a].kind = "work_steer"}
           /\ Fenced \subseteq Steer /\ Doubt \subseteq Fenced
           /\ \A a \in Fenced : a \in ActionId /\ a # TheSend
           /\ Settled \subseteq {TheSend} \cup Fenced
<1>1. \A a \in Fenced : a \in Steer
  BY Roles DEF Fenced, OfKind, LedgerSound
<1>2. \A a \in Steer : a \in ActionId
  BY Roles
<1> QED
  BY <1>1, <1>2, Roles DEF Fenced, OfKind, Doubt, Settled

-----------------------------------------------------------------------------
(* Steps that leave the steers and their evidence as they are *)

\* The ledger keeps what it says of every steer and adds nothing but stops.
SteersKept ==
    /\ \A a \in Steer : actions'[a] = actions[a] /\ activations'[a] = activations[a]
    /\ actions'[TheSend].kind = "send" /\ actions'[TheSend].outcome \in {"none", "satisfied"}
    /\ actions'[TheSend].order = actions[TheSend].order
    /\ \A a \in Stop : actions'[a].kind \in {"absent", "stop"}
    /\ \A a \in Stop : a \in Recorded' => actions'[a].order <= intentRevision'
    /\ intentRevision <= intentRevision'
    /\ UNCHANGED <<submissionWitnesses, ownershipBaselines, baselineOf, witnessOf>>

\* The page too stays as it is.
PageKept == UNCHANGED <<userTurns, posting, answer, text>>

\* The steers are the ones they were.
LEMMA SameSteers ==
    ASSUME TypeOK, LedgerSound, TypeOK', SteersKept
    PROVE  /\ Fenced' = Fenced /\ Doubt' = Doubt /\ Settled' = Settled
           /\ LastSettled' = LastSettled /\ Activated' = Activated
           /\ \A a \in {TheSend} \cup Fenced : actions'[a].order = actions[a].order
<1>1. Fenced' = Fenced
  BY Roles DEF Fenced, OfKind, LedgerSound, SteersKept
<1>2. \A a \in Fenced : a \in Steer
  BY FencedAreSteers
<1>3. \A a \in Fenced : actions'[a] = actions[a]
  BY <1>2 DEF SteersKept
<1>4. Doubt' = Doubt
  BY <1>1, <1>3 DEF Doubt
<1>5. Settled' = Settled
  BY <1>1, <1>3 DEF Settled
<1>6. \A a \in {TheSend} \cup Fenced : actions'[a].order = actions[a].order
  BY <1>3 DEF SteersKept
<1>7. \A a \in Settled : actions'[a].order = actions[a].order
  BY <1>6 DEF Settled
<1>8. LastSettled' = LastSettled
  BY <1>5, <1>7 DEF LastSettled
<1>9. Activated' = Activated
  BY DEF Activated, SteersKept
<1> QED
  BY <1>1, <1>4, <1>5, <1>6, <1>8, <1>9

\* The journal stays sound.
LEMMA JournalKept ==
    ASSUME TypeOK, Journal, TypeOK', SteersKept
    PROVE  Journal'
<1>1. LedgerSound
  BY DEF Journal
<1>2. /\ Fenced' = Fenced /\ Doubt' = Doubt
      /\ \A a \in {TheSend} \cup Fenced : actions'[a].order = actions[a].order
  BY <1>1, SameSteers
<1>3. \A a \in Steer :
          /\ actions'[a].kind \in {"absent", "work_steer"}
          /\ actions'[a].outcome \in {"none", "satisfied", "not_satisfied"}
          /\ actions'[a].outcome = "satisfied" => a \in submissionWitnesses'
  BY <1>1 DEF LedgerSound, SteersKept
<1>4. \A a \in Recorded' : actions'[a].order <= intentRevision'
  <2> SUFFICES ASSUME NEW a \in Recorded' PROVE actions'[a].order <= intentRevision'
    OBVIOUS
  <2>1. a \in ActionId /\ actions'[a].kind # "absent"
    BY DEF Recorded
  <2>2. CASE a \in Stop
    BY <2>2 DEF SteersKept
  <2>3. CASE a \notin Stop
    <3>1. a = TheSend \/ a \in Steer
      BY <2>1, <2>3, Roles
    <3>2. actions'[a].order = actions[a].order /\ actions[a].kind # "absent"
      BY <1>1, <2>1, <3>1 DEF SteersKept, LedgerSound
    <3>3. actions[a].order <= intentRevision
      BY <1>1, <2>1, <3>2 DEF LedgerSound, Recorded
    <3>4. actions[a].order \in Nat /\ intentRevision \in Nat /\ intentRevision' \in Nat
      BY <2>1 DEF TypeOK, ActionRecords
    <3> QED
      BY <3>2, <3>3, <3>4 DEF SteersKept
  <2> QED
    BY <2>2, <2>3
<1>5. LedgerSound'
  BY <1>1, <1>2, <1>3, <1>4 DEF LedgerSound, SteersKept
<1>6. OneInDoubt'
  <2>1. OneInDoubt
    BY DEF Journal
  <2>2. Doubt \subseteq Fenced
    BY DEF Doubt
  <2> QED
    BY <1>2, <2>1, <2>2 DEF OneInDoubt
<1> QED
  BY <1>5, <1>6 DEF Journal

\* So does what it says of the page.
LEMMA EvidenceKept ==
    ASSUME Types, Journal, Page, TypeOK', SteersKept, PageKept
    PROVE  Page'
<1>1. /\ Fenced' = Fenced /\ Doubt' = Doubt /\ LastSettled' = LastSettled
      /\ Activated' = Activated
  BY SameSteers DEF Types, Journal
<1>2. EvidenceSound'
  BY <1>1 DEF Page, EvidenceSound, SteersKept, PageKept
<1>3. TurnsOwned'
  <2>1. \A a \in Steer :
          /\ activations'[a] \in {0, 1}
          /\ activations'[a] = 1 => a \in Fenced' /\ actions'[a].outcome # "not_satisfied"
    BY <1>1 DEF Page, TurnsOwned, SteersKept
  <2>2. \A a \in Doubt' : activations'[a] = activations[a]
    BY <1>1, FencedAreSteers DEF SteersKept, Types, Journal
  <2>3. \A a \in Doubt' :
          /\ activations'[a] = 1 => userTurns' + posting' = baselineOf'[a].turns + 1
          /\ a \in submissionWitnesses' => witnessOf'[a] = userTurns' /\ posting' = 0
    BY <1>1, <2>2 DEF Page, TurnsOwned, SteersKept, PageKept
  <2>4. (\A a \in Doubt' : activations'[a] = 0) =>
          posting' = 0 /\ \A c \in LastSettled' : witnessOf'[c] = userTurns'
    BY <1>1, <2>2 DEF Page, TurnsOwned, SteersKept, PageKept
  <2> QED
    BY <2>1, <2>3, <2>4 DEF TurnsOwned
<1>4. Counted'
  BY <1>1 DEF Page, Counted, PageKept
<1> QED
  BY <1>2, <1>3, <1>4 DEF Page

-----------------------------------------------------------------------------
(* One call moves, the others stay *)

\* Call p goes to label l with memory m.
Moves(p, l, m) == pc' = [pc EXCEPT ![p] = l] /\ memo' = [memo EXCEPT ![p] = m]

\* Only the call that moves has a new label and memory.
LEMMA OneCallMoves ==
    ASSUME Types, NEW p \in Caller, NEW l \in Labels, NEW m \in MemoType, Moves(p, l, m)
    PROVE  /\ pc' \in [Caller -> Labels] /\ memo' \in [Caller -> MemoType]
           /\ pc'[p] = l /\ memo'[p] = m
           /\ \A q \in Caller : q # p => pc'[q] = pc[q] /\ memo'[q] = memo[q]
BY DEF Types, Moves

\* A step that makes no call a holder of its action leaves one holder.
LEMMA HoldersKept ==
    ASSUME Types, OneHolder, NEW p \in Caller, NEW l \in Labels, NEW m \in MemoType,
           Moves(p, l, m), p \in SteerCall /\ Holds(l, m) => Holds(pc[p], memo[p])
    PROVE  OneHolder'
<1>1. /\ pc'[p] = l /\ memo'[p] = m
      /\ \A q \in Caller : q # p => pc'[q] = pc[q] /\ memo'[q] = memo[q]
  BY OneCallMoves
<1>2. ASSUME NEW q \in SteerCall, Holds(pc'[q], memo'[q])
      PROVE  Holds(pc[q], memo[q])
  <2>1. q \in Caller
    BY Roles
  <2>2. CASE q = p
    BY <1>1, <1>2, <2>2
  <2>3. CASE q # p
    BY <1>1, <1>2, <2>1, <2>3
  <2> QED
    BY <2>2, <2>3
<1>3. SUFFICES ASSUME NEW q \in SteerCall, NEW r \in SteerCall, ActionOf(q) = ActionOf(r),
                      Holds(pc'[q], memo'[q]), Holds(pc'[r], memo'[r])
               PROVE  q = r
  BY DEF OneHolder, ActionOf, Holds
<1> QED
  BY <1>2, <1>3 DEF OneHolder

\* What a call relies on is kept with the steers and the page.
LEMMA SteerClaimKept ==
    ASSUME TypeOK, LedgerSound, TypeOK', SteersKept, PageKept,
           NEW q \in SteerCall, NEW k, NEW n, SteerClaim(q, k, n)
    PROVE  SteerClaim(q, k, n)'
<1>1. Fenced' = Fenced
  BY SameSteers
<1>2. ActionOf(q) \in Steer
  BY Roles
<1> DEFINE a == ActionOf(q)
<1>3. actions'[a] = actions[a] /\ activations'[a] = activations[a]
  BY <1>2 DEF SteersKept
<1> QED
  BY <1>1, <1>3 DEF SteerClaim, SteersKept, PageKept, ActionOf

\* A last turn stays the last while nobody comes to click.
LEMMA FinalKept ==
    ASSUME Types, NEW p \in Caller, NEW l \in Labels, NEW m \in MemoType,
           Moves(p, l, m), p \in SteerCall /\ l = "click" => answer # "terminal",
           PageKept, NEW n, Final(n)
    PROVE  Final(n)'
<1>1. /\ pc'[p] = l /\ \A q \in Caller : q # p => pc'[q] = pc[q]
  BY OneCallMoves
<1>2. \A q \in SteerCall : q \in Caller
  BY Roles
<1>3. \A q \in SteerCall : pc'[q] # "click"
  BY <1>1, <1>2 DEF Final
<1> QED
  BY <1>3 DEF Final, PageKept

\* What a collector relies on is kept too, while nobody comes to click.
LEMMA CollectClaimKept ==
    ASSUME Types, NEW p \in Caller, NEW l \in Labels, NEW m \in MemoType,
           Moves(p, l, m), p \in SteerCall /\ l = "click" => answer # "terminal",
           SteersKept, PageKept, NEW q \in Collector, NEW k, NEW n, CollectClaim(q, k, n)
    PROVE  CollectClaim(q, k, n)'
<1>1. Final(n.turn) => Final(n.turn)'
  BY FinalKept
<1>2. k = "observe" =>
        n.owner \in submissionWitnesses' /\ n.goal # "capturing" /\ PlanSound(n.plan)'
  BY DEF CollectClaim, SteersKept, PlanSound
<1>3. k = "persist" /\ n.goal = "capturing" =>
          /\ n.owner \in submissionWitnesses' /\ n.turn = witnessOf'[n.owner]
          /\ n.turn <= userTurns'
          /\ n.turn = userTurns' => answer' = "terminal"
  BY DEF CollectClaim, SteersKept, PageKept
<1> QED
  BY <1>1, <1>2, <1>3 DEF CollectClaim

\* All calls are sound again when the one that moved is and the others kept what
\* they rely on.
LEMMA CallsKept ==
    ASSUME Types, CallsSound, NEW p \in Caller, NEW l \in Labels, NEW m \in MemoType,
           Moves(p, l, m),
           p \in SteerCall => SteerClaim(p, l, m)',
           p \in StopCall => l \in StopLabels,
           p \in Collector => CollectClaim(p, l, m)',
           \A q \in SteerCall \ {p} : \A k, n :
               k = pc[q] /\ n = memo[q] => SteerClaim(q, k, n)',
           \A q \in Collector \ {p} : \A k, n :
               k = pc[q] /\ n = memo[q] => CollectClaim(q, k, n)'
    PROVE  CallsSound'
<1>1. /\ pc'[p] = l /\ memo'[p] = m
      /\ \A q \in Caller : q # p => pc'[q] = pc[q] /\ memo'[q] = memo[q]
  BY OneCallMoves
<1>2. ASSUME NEW q \in SteerCall PROVE SteerClaim(q, pc[q], memo[q])'
  <2>1. PICK k, n : k = pc'[q] /\ n = memo'[q]
    OBVIOUS
  <2>2. SteerClaim(q, k, n)'
    <3>1. CASE q = p
      BY <1>1, <2>1, <3>1
    <3>2. CASE q # p
      BY <1>1, <2>1, <3>2, Roles
    <3> QED
      BY <3>1, <3>2
  <2> QED
    BY <2>1, <2>2 DEF SteerClaim
<1>3. ASSUME NEW q \in Collector PROVE CollectClaim(q, pc[q], memo[q])'
  <2>1. PICK k, n : k = pc'[q] /\ n = memo'[q]
    OBVIOUS
  <2>2. CollectClaim(q, k, n)'
    <3>1. CASE q = p
      BY <1>1, <2>1, <3>1
    <3>2. CASE q # p
      BY <1>1, <2>1, <3>2, Roles
    <3> QED
      BY <3>1, <3>2
  <2> QED
    BY <2>1, <2>2 DEF CollectClaim, Final, PlanSound
<1>4. \A q \in StopCall : pc'[q] \in StopLabels
  BY <1>1, Roles DEF CallsSound
<1> QED
  BY <1>2, <1>3, <1>4 DEF CallsSound

\* A step of one call that keeps the steers, the page and a final receipt keeps the
\* invariant.
LEMMA QuietOrFinal ==
    ASSUME ServiceInv, NEW p \in Caller, NEW l \in Labels, NEW m \in MemoType,
           Moves(p, l, m), TypeOK', SteersKept, PageKept,
           activations' \in [ActionId -> Nat],
           ReceiptFinal',
           p \in SteerCall => SteerClaim(p, l, m),
           p \in SteerCall /\ Holds(l, m) => Holds(pc[p], memo[p]),
           p \in SteerCall /\ l = "click" => answer # "terminal",
           p \in StopCall => l \in StopLabels,
           p \in Collector => CollectClaim(p, l, m)
    PROVE  ServiceInv'
<1>1. Types /\ Journal /\ LedgerSound /\ Page /\ OneHolder /\ CallsSound /\ ReceiptFinal
  BY DEF ServiceInv, Journal
<1>2. TypeOK
  BY <1>1 DEF Types
<1>3. Types'
  <2>1. pc' \in [Caller -> Labels] /\ memo' \in [Caller -> MemoType]
    BY <1>1, OneCallMoves
  <2> QED
    BY <1>1, <2>1 DEF Types, SteersKept, PageKept
<1>4. Journal'
  BY <1>1, <1>2, JournalKept
<1>5. Page'
  BY <1>1, EvidenceKept
<1>6. OneHolder'
  BY <1>1, HoldersKept
<1>7. CallsSound'
  <2>1. p \in SteerCall => SteerClaim(p, l, m)'
    BY <1>1, <1>2, SteerClaimKept
  <2>2. p \in Collector => CollectClaim(p, l, m)'
    BY <1>1, CollectClaimKept
  <2>3. ASSUME NEW q \in SteerCall \ {p}, NEW k, NEW n, k = pc[q], n = memo[q]
        PROVE  SteerClaim(q, k, n)'
    <3>1. SteerClaim(q, k, n)
      BY <1>1, <2>3 DEF CallsSound
    <3> QED
      BY <1>1, <1>2, <3>1, SteerClaimKept
  <2>4. ASSUME NEW q \in Collector \ {p}, NEW k, NEW n, k = pc[q], n = memo[q]
        PROVE  CollectClaim(q, k, n)'
    <3>1. CollectClaim(q, k, n)
      BY <1>1, <2>4 DEF CallsSound
    <3> QED
      BY <1>1, <3>1, CollectClaimKept
  <2> QED
    BY <1>1, <2>1, <2>2, <2>3, <2>4, CallsKept
<1> QED
  BY <1>3, <1>4, <1>5, <1>6, <1>7 DEF ServiceInv

\* A receipt that is left alone stays final.
LEMMA QuietStep ==
    ASSUME ServiceInv, NEW p \in Caller, NEW l \in Labels, NEW m \in MemoType,
           Moves(p, l, m), TypeOK', SteersKept, PageKept,
           activations' \in [ActionId -> Nat],
           receipt' = receipt, receiptTurn' = receiptTurn,
           p \in SteerCall => SteerClaim(p, l, m),
           p \in SteerCall /\ Holds(l, m) => Holds(pc[p], memo[p]),
           p \in SteerCall /\ l = "click" => answer # "terminal",
           p \in StopCall => l \in StopLabels,
           p \in Collector => CollectClaim(p, l, m)
    PROVE  ServiceInv'
<1>1. Types /\ ReceiptFinal
  BY DEF ServiceInv
<1>2. PICK n : n = receiptTurn
  OBVIOUS
<1>3. Final(n) => Final(n)'
  BY <1>1, FinalKept
<1>4. receipt' # "absent" => Final(n)
  BY <1>1, <1>2 DEF ReceiptFinal
<1>5. ReceiptFinal'
  BY <1>2, <1>3, <1>4 DEF ReceiptFinal, Final
<1> QED
  BY <1>5, QuietOrFinal

\* A step that reads or changes nothing but calls keeps the steers.
LEMMA UnchangedLedger ==
    ASSUME ServiceInv, JournalUnchanged,
           \A a \in Steer : activations'[a] = activations[a]
    PROVE  TypeOK' /\ SteersKept
<1>1. TypeOK /\ LedgerSound
  BY DEF ServiceInv, Types, Journal
<1>2. TypeOK'
  BY <1>1 DEF JournalUnchanged, ledgerVars, TypeOK
<1>3. Recorded' = Recorded
  BY DEF JournalUnchanged, ledgerVars, Recorded
<1>4. \A a \in Recorded : actions[a].order <= intentRevision
  BY <1>1 DEF LedgerSound
<1>5. intentRevision <= intentRevision
  BY <1>1 DEF TypeOK
<1> QED
  BY <1>1, <1>2, <1>3, <1>4, <1>5
     DEF SteersKept, LedgerSound, JournalUnchanged, ledgerVars, evidenceVars

\* So does a phase event,
LEMMA PhaseLedger ==
    ASSUME ServiceInv, NEW to, NEW cause, NEW evidence,
           PhaseChanged(to, cause, evidence), UNCHANGED evidenceVars,
           UNCHANGED activations
    PROVE  TypeOK' /\ SteersKept /\ receipt' = receipt /\ receiptTurn' = receiptTurn
<1>1. TypeOK /\ LedgerSound
  BY DEF ServiceInv, Types, Journal
<1>2. phase \in Phases /\ to \in LegalEdges[phase]
  BY <1>1 DEF TypeOK, PhaseChanged, CanChangePhase
<1>3. to \in Phases
  BY <1>2 DEF LegalEdges, Phases
<1>4. TypeOK'
  BY <1>1, <1>3 DEF PhaseChanged, TypeOK
<1>5. Recorded' = Recorded
  BY DEF PhaseChanged, Recorded
<1>6. \A a \in Recorded : actions[a].order <= intentRevision
  BY <1>1 DEF LedgerSound
<1>7. intentRevision <= intentRevision
  BY <1>1 DEF TypeOK
<1> QED
  BY <1>1, <1>4, <1>5, <1>6, <1>7 DEF SteersKept, LedgerSound, PhaseChanged, evidenceVars

\* and a receipt of the Send or of a stop.
LEMMA ReceiptLedger ==
    ASSUME ServiceInv, NEW a \in ActionId \ Steer, NEW outcome \in Outcomes \cup {"none"},
           a = TheSend => outcome = "satisfied",
           ActionReceipt(a, outcome), UNCHANGED evidenceVars, UNCHANGED activations
    PROVE  TypeOK' /\ SteersKept /\ receipt' = receipt /\ receiptTurn' = receiptTurn
<1>1. TypeOK /\ LedgerSound
  BY DEF ServiceInv, Types, Journal
<1>2. actions \in [ActionId -> ActionRecords] /\ actions[a] \in ActionRecords
  BY <1>1 DEF TypeOK
<1>3. actions' = [actions EXCEPT ![a].outcome = outcome]
  BY DEF ActionReceipt
<1>4. \A b \in ActionId : /\ actions'[b].kind = actions[b].kind
                          /\ actions'[b].order = actions[b].order
                          /\ b # a => actions'[b] = actions[b]
  BY <1>2, <1>3 DEF ActionRecords
<1>5. actions'[a].outcome = outcome
  BY <1>2, <1>3 DEF ActionRecords
<1>6. actions' \in [ActionId -> ActionRecords]
  BY <1>2, <1>3 DEF ActionRecords
<1>7. TypeOK'
  BY <1>1, <1>6 DEF ActionReceipt, TypeOK
<1>8. Recorded' = Recorded
  BY <1>4 DEF Recorded
<1>9. \A b \in Recorded : actions'[b].order <= intentRevision
  BY <1>1, <1>4 DEF LedgerSound, Recorded
<1>10. \A b \in Steer : actions'[b] = actions[b]
  BY <1>4, Roles
<1>11. actions'[TheSend].outcome \in {"none", "satisfied"}
  BY <1>1, <1>4, <1>5, Roles DEF LedgerSound
<1>12. intentRevision <= intentRevision
  BY <1>1 DEF TypeOK
<1> QED
  BY <1>1, <1>4, <1>7, <1>8, <1>9, <1>10, <1>11, <1>12, Roles
     DEF SteersKept, LedgerSound, ActionReceipt, evidenceVars

-----------------------------------------------------------------------------
(* The steps of collect *)

\* A call starts from an empty memory.
LEMMA BlankTyped == Blank \in MemoType
<1>1. NoReading \in Readings
  BY ServiceAssumption, TurnsBounded DEF NoReading, Readings
<1>2. 0 \in 0 .. MaxTurns
  BY TurnsBounded
<1>3. {} \in SUBSET (TurnObservations \X RecoveryKinds)
  OBVIOUS
<1> QED
  BY <1>1, <1>2, <1>3 DEF Blank, MemoType

\* Going on and ending are moves.
LEMMA GotoMoves ==
    ASSUME Types, NEW p \in Caller, NEW l
    PROVE  /\ Goto(p, l) => Moves(p, l, memo[p])
           /\ \A m : GotoWith(p, l, m) => Moves(p, l, m)
           /\ Finish(p) => Moves(p, "idle", Blank)
           /\ memo[p] \in MemoType /\ pc[p] \in Labels
<1>1. memo \in [Caller -> MemoType] /\ pc \in [Caller -> Labels]
  BY DEF Types
<1>2. Goto(p, l) => Moves(p, l, memo[p])
  <2>1. [memo EXCEPT ![p] = memo[p]] = memo
    BY <1>1
  <2> QED
    BY <2>1 DEF Goto, Moves
<1> QED
  BY <1>1, <1>2 DEF GotoWith, Finish, Moves

\* A call that ends leaves everything else.
LEMMA FinishKeeps ==
    ASSUME ServiceInv, NEW p \in Caller, Finish(p), TypeOK', SteersKept, PageKept,
           activations' \in [ActionId -> Nat], receipt' = receipt, receiptTurn' = receiptTurn
    PROVE  ServiceInv'
<1>1. Moves(p, "idle", Blank)
  BY GotoMoves DEF ServiceInv
<1>2. "idle" \in Labels /\ Blank \in MemoType
  BY BlankTyped DEF Labels, CollectorLabels
<1>3. SteerClaim(p, "idle", Blank) /\ ~Holds("idle", Blank)
  BY DEF SteerClaim, Holds, SteerLabels
<1>4. "idle" \in StopLabels /\ CollectClaim(p, "idle", Blank)
  BY DEF StopLabels, CollectClaim, CollectorLabels
<1> QED
  BY <1>1, <1>2, <1>3, <1>4, QuietStep

\* A collector moves to a label whose claim it meets.
LEMMA CollectorKeeps ==
    ASSUME ServiceInv, NEW p \in Collector, NEW l \in Labels, NEW m \in MemoType,
           Moves(p, l, m), CollectClaim(p, l, m), TypeOK', SteersKept, PageKept,
           activations' = activations, receipt' = receipt, receiptTurn' = receiptTurn
    PROVE  ServiceInv'
<1>1. p \in Caller /\ p \notin SteerCall /\ p \notin StopCall
  BY Roles
<1>2. activations' \in [ActionId -> Nat]
  BY DEF ServiceInv, Types
<1> QED
  BY <1>1, <1>2, QuietStep

\* What a step that appends nothing and touches no page leaves alone.
LEMMA ReadOnlyKeeps ==
    ASSUME ServiceInv, ReadOnly \/ (JournalUnchanged /\ JournalOnly)
    PROVE  /\ TypeOK' /\ SteersKept /\ PageKept /\ activations' = activations
           /\ receipt' = receipt /\ receiptTurn' = receiptTurn
           /\ activations' \in [ActionId -> Nat]
<1>1. JournalUnchanged /\ activations' = activations
  BY DEF ReadOnly, JournalOnly
<1>2. TypeOK' /\ SteersKept
  BY <1>1, UnchangedLedger
<1>3. receipt' = receipt /\ receiptTurn' = receiptTurn
  BY <1>1 DEF JournalUnchanged, ledgerVars, evidenceVars
<1> QED
  BY <1>1, <1>2, <1>3 DEF ReadOnly, JournalOnly, PageKept, pageVars, ServiceInv, Types

\* The same with an append: the event of a phase, or none.
LEMMA PhaseAppendKeeps ==
    ASSUME ServiceInv, JournalOnly, NEW to,
           \/ PhaseChanged(to, TheSend, TRUE) /\ KeepEvidence
           \/ JournalUnchanged
    PROVE  /\ TypeOK' /\ SteersKept /\ PageKept /\ activations' = activations
           /\ receipt' = receipt /\ receiptTurn' = receiptTurn
<1>1. PageKept /\ activations' = activations
  BY DEF JournalOnly, PageKept, pageVars
<1>2. CASE PhaseChanged(to, TheSend, TRUE) /\ KeepEvidence
  BY <1>1, <1>2, PhaseLedger DEF KeepEvidence
<1>3. CASE JournalUnchanged
  <2>1. TypeOK' /\ SteersKept
    BY <1>1, <1>3, UnchangedLedger
  <2> QED
    BY <1>1, <1>3, <2>1 DEF JournalUnchanged, ledgerVars, evidenceVars
<1> QED
  BY <1>2, <1>3

\* The decisions the service acts on are those of decideOperationRecovery, and a
\* capture is decided for a terminal answer only.
LEMMA PlanIsSound ==
    ASSUME TypeOK
    PROVE  Plan \in SUBSET (TurnObservations \X RecoveryKinds) /\ PlanSound(Plan)
<1>1. ASSUME NEW t \in TurnObservations
      PROVE  /\ OperationRecovery(t).kind \in RecoveryKinds
             /\ OperationRecovery(t).kind = "capture_owned_turn" => t = "owned_terminal"
  <2>1. OwnedTurnDecision(t).kind \in RecoveryKinds
          /\ (OwnedTurnDecision(t).kind = "capture_owned_turn" => t = "owned_terminal")
    BY DEF OwnedTurnDecision, Decision, RecoveryKinds
  <2>2. \A a : PendingActionDecision(a, t).kind \in RecoveryKinds
          /\ (PendingActionDecision(a, t).kind = "capture_owned_turn" => t = "owned_terminal")
    BY <2>1 DEF PendingActionDecision, Decision, RecoveryKinds
  <2>3. \A S : ObserveLatest(S).kind \in RecoveryKinds \ {"capture_owned_turn"}
    BY DEF ObserveLatest, Decision, RecoveryKinds
  <2>4. CASE phase = "completed"
    BY <2>4 DEF OperationRecovery, Decision, RecoveryKinds
  <2>5. CASE phase # "completed" /\ PendingNonRepeatable # {}
    <3>1. \A k \in NonRepeatable : "capturing" \notin PendingPhases[k]
      BY DEF PendingPhases, NonRepeatable
    <3>2. phase # "capturing"
      BY <2>5, <3>1 DEF PendingNonRepeatable, OfKinds
    <3>3. OperationRecovery(t) = PendingActionDecision(Latest(PendingNonRepeatable), t)
      BY <2>5, <3>2 DEF OperationRecovery
    <3> QED
      BY <2>2, <3>3
  <2>6. CASE phase # "completed" /\ PendingNonRepeatable = {}
    <3>1. CASE phase \in {"prepared", "ready"}
      BY <2>6, <3>1 DEF OperationRecovery, Decision, RecoveryKinds
    <3>2. CASE phase = "handoff_pending"
      BY <2>3, <2>6, <3>2 DEF OperationRecovery
    <3>3. CASE phase = "send_pending"
      BY <2>3, <2>6, <3>3 DEF OperationRecovery
    <3>4. CASE phase = "capturing"
      BY <2>6, <3>4 DEF OperationRecovery, Decision, RecoveryKinds
    <3>5. CASE phase \in {"submitted", "generating"}
      BY <2>1, <2>6, <3>5 DEF OperationRecovery
    <3>6. CASE phase = "uncertain"
      BY <2>6, <3>6 DEF OperationRecovery, Decision, RecoveryKinds
    <3> QED
      BY <2>6, <3>1, <3>2, <3>3, <3>4, <3>5, <3>6 DEF TypeOK, Phases
  <2> QED
    BY <2>4, <2>5, <2>6
<1>2. \A d \in Plan : \E t \in TurnObservations :
          d = <<t, OperationRecovery(t).kind>> /\ d[1] = t /\ d[2] = OperationRecovery(t).kind
  BY DEF Plan
<1>3. \A t \in TurnObservations : \E d \in Plan : d[1] = t
  <2> SUFFICES ASSUME NEW t \in TurnObservations PROVE \E d \in Plan : d[1] = t
    OBVIOUS
  <2>1. <<t, OperationRecovery(t).kind>> \in Plan
    BY DEF Plan
  <2> QED
    BY <2>1
<1>4. Plan \in SUBSET (TurnObservations \X RecoveryKinds)
  BY <1>1, <1>2
<1>5. \A d \in Plan : d[2] = "capture_owned_turn" => d[1] = "owned_terminal"
  BY <1>1, <1>2
<1> QED
  BY <1>3, <1>4, <1>5 DEF PlanSound

\* Whose turn a collector answers with: as long as every steer's fate is witnessed,
\* the last owner's turn is the last turn, and nobody is about to add one.
LEMMA OwnersTurnIsLast ==
    ASSUME ServiceInv, OwnershipKnown
    PROVE  /\ Owner \in submissionWitnesses
           /\ witnessOf[Owner] = userTurns /\ posting = 0
           /\ \A q \in SteerCall : pc[q] # "click"
<1>1. /\ TypeOK /\ LedgerSound /\ OneInDoubt /\ EvidenceSound /\ TurnsOwned /\ CallsSound
      /\ witnessOf \in [ActionId -> 0 .. MaxTurns] /\ userTurns \in 1 .. MaxTurns
      /\ baselineOf \in [ActionId -> Readings]
  BY DEF ServiceInv, Types, Journal, Page
<1>2. /\ Fenced = {a \in Steer : actions[a].kind = "work_steer"}
      /\ Fenced \subseteq Steer /\ Doubt \subseteq Fenced
      /\ \A a \in Fenced : a \in ActionId /\ a # TheSend
  BY <1>1, FencedAreSteers
<1> DEFINE S == Candidates \cap submissionWitnesses
<1>3. S # {} /\ S \subseteq Recorded /\ S \subseteq {TheSend} \cup Fenced
  <2>1. S # {}
    BY DEF OwnershipKnown
  <2>2. \A a \in S : a \in ActionId /\ actions[a].kind \in {"send", "work_steer"}
    BY DEF Candidates, OfKinds, OwnershipKinds
  <2>3. \A a \in S : a \in Fenced \/ a = TheSend
    BY <1>1, <2>2, Roles DEF Fenced, OfKind, LedgerSound
  <2> QED
    BY <2>1, <2>2, <2>3 DEF Recorded
<1>4. Owner \in S /\ \A b \in S : actions[b].order <= actions[Owner].order
  <2>1. \A a \in Recorded : actions[a].order <= intentRevision
    BY <1>1 DEF LedgerSound
  <2> HIDE DEF S
  <2>2. Latest(S) \in S /\ \A b \in S : actions[b].order <= actions[Latest(S)].order
    BY <1>1, <1>3, <2>1, LatestIsLast
  <2> QED
    BY <2>2 DEF Owner, S
<1>5. \A a \in Doubt : a \in S /\ witnessOf[a] = userTurns /\ posting = 0
  <2> SUFFICES ASSUME NEW a \in Doubt
               PROVE  a \in S /\ witnessOf[a] = userTurns /\ posting = 0
    OBVIOUS
  <2>1. a \in Fenced /\ actions[a].outcome = "none"
    BY DEF Doubt
  <2>2. a \in submissionWitnesses
    BY <2>1 DEF OwnershipKnown
  <2>3. a \in Candidates
    BY <2>1 DEF Candidates, Fenced, OfKind, OfKinds, OwnershipKinds
  <2> QED
    BY <1>1, <2>2, <2>3 DEF TurnsOwned
<1>6. ASSUME NEW q \in SteerCall, pc[q] = "click" PROVE FALSE
  <2> DEFINE a == ActionOf(q)
  <2>1. /\ a \in Fenced /\ baselineOf[a].turns = userTurns
        /\ actions[a].outcome = "none"
    BY <1>1, <1>6 DEF CallsSound, SteerClaim
  <2>2. a \in Doubt /\ a \in S
    BY <1>5, <2>1 DEF Doubt
  <2>3. witnessOf[a] = baselineOf[a].turns + 1 /\ witnessOf[a] = userTurns
    BY <1>1, <1>5, <2>1, <2>2 DEF EvidenceSound
  <2> QED
    BY <1>1, <2>1, <2>3
<1>7. CASE Doubt = {}
  <2>1. posting = 0 /\ \A c \in LastSettled : witnessOf[c] = userTurns
    BY <1>1, <1>7 DEF TurnsOwned
  <2>2. Settled \subseteq S
    <3>1. \A a \in Settled : a \in submissionWitnesses
      BY <1>1, <1>2 DEF Settled, LedgerSound
    <3>2. \A a \in Settled : a \in Candidates
      BY <1>1, <1>2, Roles
         DEF Settled, LedgerSound, Candidates, OfKinds, OwnershipKinds, Fenced, OfKind
    <3> QED
      BY <3>1, <3>2
  <2>3. Owner \in Settled
    <3>1. CASE Owner = TheSend
      BY <3>1 DEF Settled
    <3>2. CASE Owner \in Fenced
      <4>1. actions[Owner].outcome \notin {"not_satisfied", "uncertain", "none"}
        BY <1>4, <1>7, <3>2 DEF Candidates, Doubt
      <4>2. actions[Owner].outcome = "satisfied"
        BY <1>1, <1>2, <3>2, <4>1 DEF LedgerSound
      <4> QED
        BY <3>2, <4>2 DEF Settled
    <3> QED
      BY <1>3, <1>4, <3>1, <3>2
  <2>4. Owner \in LastSettled
    BY <1>4, <2>2, <2>3 DEF LastSettled
  <2> QED
    BY <1>4, <1>6, <2>1, <2>4
<1>8. CASE Doubt # {}
  <2>1. PICK d \in Doubt : TRUE
    BY <1>8
  <2>2. d \in S /\ witnessOf[d] = userTurns /\ posting = 0
    BY <1>5, <2>1
  <2>3. Owner = d
    <3>1. actions[d].order <= actions[Owner].order
      BY <1>4, <2>2
    <3>2. Owner # d => actions[Owner].order < actions[d].order
      BY <1>1, <1>3, <1>4, <2>1 DEF OneInDoubt
    <3>3. d \in ActionId /\ Owner \in ActionId
      BY <1>2, <1>3, <1>4, <2>1, Roles
    <3>4. actions[d].order \in Nat /\ actions[Owner].order \in Nat
      BY <1>1, <3>3 DEF TypeOK, ActionRecords
    <3> QED
      BY <3>1, <3>2, <3>4
  <2> QED
    BY <1>4, <1>6, <2>2, <2>3
<1> QED
  BY <1>7, <1>8

\* What classify finds: nothing else than an observation, and a terminal answer only
\* to the witnessed turn.
LEMMA ClassifyFinds ==
    ASSUME Types, NEW a
    PROVE  /\ Classify(a) \in TurnObservations
           /\ Classify(a) = "owned_terminal" => witnessOf[a] = userTurns /\ answer = "terminal"
<1> DEFINE base == baselineOf[a]
<1>1. answer \in {"none", "generating", "terminal"}
  BY DEF Types
<1>2. CASE base.turns > 0 /\ text[base.turns] # base.text
  BY <1>2 DEF Classify, TurnObservations
<1>3. CASE ~(base.turns > 0 /\ text[base.turns] # base.text)
  <2>1. CASE userTurns = base.turns
    BY <1>3, <2>1 DEF Classify, TurnObservations
  <2>2. CASE userTurns # base.turns /\ (userTurns > base.turns + 1 \/ witnessOf[a] # userTurns)
    BY <1>3, <2>2 DEF Classify, TurnObservations
  <2>3. CASE userTurns # base.turns /\ ~(userTurns > base.turns + 1 \/ witnessOf[a] # userTurns)
    <3>1. Classify(a) = CASE answer = "none" -> "owned_user_turn"
                          [] answer = "generating" -> "owned_generating"
                          [] answer = "terminal" -> "owned_terminal"
      BY <1>3, <2>3 DEF Classify
    <3> QED
      BY <1>1, <2>3, <3>1 DEF TurnObservations
  <2> QED
    BY <2>1, <2>2, <2>3
<1> QED
  BY <1>2, <1>3

\* A snapshot names an owner whose witness is durable.
LEMMA ReadDurableKeeps ==
    ASSUME ServiceInv, NEW p \in Collector, ReadDurable(p)
    PROVE  ServiceInv'
<1> DEFINE m == [Blank EXCEPT !.owner = Owner, !.plan = Plan,
                              !.seen = phase, !.goal = ProvenByUserTurn]
<1>1. Types /\ TypeOK /\ p \in Caller
  BY Roles DEF ServiceInv, Types
<1>2. Owner \in submissionWitnesses
  BY OwnersTurnIsLast DEF ReadDurable
<1>3. Plan \in SUBSET (TurnObservations \X RecoveryKinds) /\ PlanSound(Plan)
  BY <1>1, PlanIsSound
<1>4. /\ m.owner = Owner /\ m.plan = Plan /\ m.goal = ProvenByUserTurn
      /\ m \in MemoType
  <2>1. Owner \in ActionId /\ phase \in Phases /\ ProvenByUserTurn \in Phases
    BY <1>1, <1>2 DEF TypeOK, ProvenByUserTurn, Phases
  <2>2. Blank \in MemoType
    BY BlankTyped
  <2> QED
    BY <1>3, <2>1, <2>2 DEF MemoType
<1>5. m.goal # "capturing"
  BY <1>4 DEF ProvenByUserTurn
<1>6. CollectClaim(p, "observe", m)
  BY <1>2, <1>3, <1>4, <1>5 DEF CollectClaim, CollectorLabels
<1>7. Moves(p, "observe", m)
  BY <1>1, GotoMoves DEF ReadDurable
<1>8. "observe" \in Labels
  BY DEF Labels, CollectorLabels
<1>9. ReadOnly
  BY DEF ReadDurable
<1> HIDE DEF m
<1> QED
  BY <1>4, <1>6, <1>7, <1>8, <1>9, ReadOnlyKeeps, CollectorKeeps

\* What is to be persisted was seen on the turn the owner witnessed.
LEMMA ObserveKeeps ==
    ASSUME ServiceInv, NEW p \in Collector, Observe(p)
    PROVE  ServiceInv'
<1>1. Types /\ p \in Caller /\ CallsSound
  BY Roles DEF ServiceInv
<1> DEFINE turn == Classify(memo[p].owner)
           kind == (CHOOSE d \in memo[p].plan : d[1] = turn)[2]
           proven == IF turn = "owned_generating" THEN "generating" ELSE memo[p].goal
           Kept(goal) == [Blank EXCEPT !.owner = memo[p].owner, !.goal = goal, !.turn =
                             IF goal = "capturing" THEN userTurns ELSE 0]
<1>2. memo[p] \in MemoType /\ pc[p] = "observe"
  BY <1>1 DEF Types, Observe, At
<1>3. /\ memo[p].owner \in submissionWitnesses
      /\ memo[p].goal # "capturing" /\ PlanSound(memo[p].plan)
  BY <1>1, <1>2 DEF CallsSound, CollectClaim
<1>4. kind = "capture_owned_turn" =>
        witnessOf[memo[p].owner] = userTurns /\ answer = "terminal"
  <2>1. turn \in TurnObservations
          /\ (turn = "owned_terminal" =>
                 witnessOf[memo[p].owner] = userTurns /\ answer = "terminal")
    BY <1>1, ClassifyFinds
  <2> HIDE DEF turn
  <2>2. (CHOOSE d \in memo[p].plan : d[1] = turn) \in memo[p].plan
          /\ (CHOOSE d \in memo[p].plan : d[1] = turn)[1] = turn
    BY <1>3, <2>1 DEF PlanSound
  <2> QED
    BY <1>3, <2>1, <2>2 DEF PlanSound
<1>5. ASSUME NEW goal \in Phases \cup {"none"}
      PROVE  /\ Kept(goal) \in MemoType /\ Kept(goal).goal = goal
             /\ Kept(goal).owner = memo[p].owner
             /\ goal = "capturing" => Kept(goal).turn = userTurns
  <2>1. Blank \in MemoType
    BY BlankTyped
  <2>2. memo[p].owner \in ActionId \cup {NoAction}
    BY <1>2 DEF MemoType
  <2>3. userTurns \in 0 .. MaxTurns /\ 0 \in 0 .. MaxTurns
    BY <1>1, TurnsBounded DEF Types
  <2> QED
    BY <2>1, <2>2, <2>3 DEF MemoType
<1>6. proven \in Phases \cup {"none"} /\ proven # "capturing"
  BY <1>2, <1>3 DEF MemoType, Phases
<1>7. \/ GotoWith(p, "persist", Kept("capturing")) /\ kind = "capture_owned_turn"
      \/ GotoWith(p, "persist", Kept(proven))
      \/ Finish(p)
  BY DEF Observe
<1>8. ReadOnly
  BY DEF Observe
<1> HIDE DEF turn, kind, proven, Kept
<1>9. "persist" \in Labels /\ "persist" \in CollectorLabels
  BY DEF Labels, CollectorLabels
<1>10. CASE GotoWith(p, "persist", Kept("capturing")) /\ kind = "capture_owned_turn"
  <2>1. "capturing" \in Phases
    BY DEF Phases
  <2>2. Kept("capturing") \in MemoType
          /\ Kept("capturing").owner = memo[p].owner /\ Kept("capturing").turn = userTurns
    BY <1>5, <2>1
  <2>3. userTurns <= userTurns
    BY <1>1 DEF Types
  <2>4. CollectClaim(p, "persist", Kept("capturing"))
    BY <1>3, <1>4, <1>9, <1>10, <2>2, <2>3 DEF CollectClaim
  <2>5. Moves(p, "persist", Kept("capturing"))
    BY <1>1, <1>10, GotoMoves
  <2> QED
    BY <1>8, <1>9, <2>2, <2>4, <2>5, ReadOnlyKeeps, CollectorKeeps
<1>11. CASE GotoWith(p, "persist", Kept(proven))
  <2>1. Kept(proven) \in MemoType /\ Kept(proven).goal # "capturing"
    BY <1>5, <1>6
  <2>2. CollectClaim(p, "persist", Kept(proven))
    BY <1>9, <2>1 DEF CollectClaim
  <2>3. Moves(p, "persist", Kept(proven))
    BY <1>1, <1>11, GotoMoves
  <2> QED
    BY <1>8, <1>9, <2>1, <2>2, <2>3, ReadOnlyKeeps, CollectorKeeps
<1>12. CASE Finish(p)
  BY <1>1, <1>8, <1>12, ReadOnlyKeeps, FinishKeeps
<1> QED
  BY <1>7, <1>10, <1>11, <1>12

\* A terminal turn that is persisted is the last one: its owner still is the last owner.
LEMMA PersistKeeps ==
    ASSUME ServiceInv, NEW p \in Collector, Persist(p)
    PROVE  ServiceInv'
<1>1. Types /\ p \in Caller /\ CallsSound
  BY Roles DEF ServiceInv
<1>2. memo[p] \in MemoType /\ pc[p] = "persist"
  BY <1>1 DEF Types, Persist, At
<1> DEFINE m == [memo[p] EXCEPT !.owner = NoAction,
                                !.sendDone = actions[TheSend].outcome = "satisfied"]
           l == CASE phase = "ready" -> "leaveReady"
                  [] phase # "ready" /\ actions[TheSend].outcome = "none" -> "sendReceipt"
                  [] OTHER -> "submitted"
<1>3. m \in MemoType /\ m.goal = memo[p].goal /\ m.turn = memo[p].turn
  <2>1. (actions[TheSend].outcome = "satisfied") \in BOOLEAN
    OBVIOUS
  <2> QED
    BY <1>2, <2>1 DEF MemoType
<1>4. l \in {"leaveReady", "sendReceipt", "submitted"}
  OBVIOUS
<1>5. \/ GotoWith(p, l, m) /\ StillOwner(p)
      \/ Finish(p)
  BY DEF Persist
<1>6. ReadOnly
  BY DEF Persist
<1> HIDE DEF l, m
<1>7. CASE GotoWith(p, l, m) /\ StillOwner(p)
  <2>1. l \in Labels /\ l \in CollectorLabels
    BY <1>4 DEF Labels, CollectorLabels
  <2>2. m.goal = "capturing" => Final(m.turn)
    <3>1. SUFFICES ASSUME memo[p].goal = "capturing" PROVE Final(memo[p].turn)
      BY <1>3
    <3>2. memo[p].turn = witnessOf[memo[p].owner]
            /\ (memo[p].turn = userTurns => answer = "terminal")
      BY <1>1, <1>2, <3>1 DEF CallsSound, CollectClaim
    <3> QED
      BY <1>7, <3>2, OwnersTurnIsLast DEF StillOwner, Final
  <2>3. CollectClaim(p, l, m)
    BY <1>4, <2>1, <2>2 DEF CollectClaim
  <2>4. Moves(p, l, m)
    BY <1>1, <1>7, GotoMoves
  <2> QED
    BY <1>3, <1>6, <2>1, <2>3, <2>4, ReadOnlyKeeps, CollectorKeeps
<1>8. CASE Finish(p)
  BY <1>1, <1>6, <1>8, ReadOnlyKeeps, FinishKeeps
<1> QED
  BY <1>5, <1>7, <1>8

\* An append on the way keeps what was found: the call goes on, or ends.
LEMMA AppendKeeps ==
    ASSUME ServiceInv, NEW p \in Collector, NEW l \in CollectorLabels,
           Goto(p, l) \/ Finish(p), CollectClaim(p, l, memo[p]),
           TypeOK', SteersKept, PageKept, activations' = activations,
           receipt' = receipt, receiptTurn' = receiptTurn
    PROVE  ServiceInv'
<1>1. Types /\ p \in Caller /\ l \in Labels
  BY Roles DEF ServiceInv, Labels
<1>2. CASE Goto(p, l)
  <2>1. Moves(p, l, memo[p]) /\ memo[p] \in MemoType
    BY <1>1, <1>2, GotoMoves
  <2> QED
    BY <1>1, <2>1, CollectorKeeps
<1>3. CASE Finish(p)
  BY <1>1, <1>3, FinishKeeps DEF Types
<1> QED
  BY <1>2, <1>3

\* The appends of persistProgress and persistTerminal.
LEMMA LeaveReadyKeeps ==
    ASSUME ServiceInv, NEW p \in Collector, LeaveReady(p)
    PROVE  ServiceInv'
<1>1. memo[p].goal = "capturing" => Final(memo[p].turn)
  BY DEF ServiceInv, CallsSound, CollectClaim, LeaveReady, At
<1> DEFINE l == IF memo[p].sendDone THEN "submitted" ELSE "sendReceipt"
<1>2. JournalOnly
        /\ (Goto(p, l) \/ Finish(p))
        /\ \/ PhaseChanged(PhaseFromReady(p), TheSend, TRUE) /\ KeepEvidence
           \/ JournalUnchanged
  BY DEF LeaveReady, AppendPhase, Append, NoAppend
<1>3. l \in CollectorLabels /\ CollectClaim(p, l, memo[p])
  BY <1>1 DEF CollectClaim, CollectorLabels
<1> HIDE DEF l
<1> QED
  BY <1>2, <1>3, PhaseAppendKeeps, AppendKeeps

\* The Send's receipt.
LEMMA SendReceiptKeeps ==
    ASSUME ServiceInv, NEW p \in Collector, SendReceipt(p)
    PROVE  ServiceInv'
<1>1. memo[p].goal = "capturing" => Final(memo[p].turn)
  BY DEF ServiceInv, CallsSound, CollectClaim, SendReceipt, At
<1>2. JournalOnly
        /\ (Goto(p, "submitted") \/ Finish(p))
        /\ \/ ActionReceipt(TheSend, "satisfied") /\ KeepEvidence
           \/ JournalUnchanged
  BY DEF SendReceipt, Append, NoAppend
<1>3. PageKept /\ activations' = activations
  BY <1>2 DEF JournalOnly, PageKept, pageVars
<1>4. TypeOK' /\ SteersKept /\ receipt' = receipt /\ receiptTurn' = receiptTurn
  <2>1. CASE ActionReceipt(TheSend, "satisfied") /\ KeepEvidence
    <3>1. TheSend \in ActionId \ Steer /\ "satisfied" \in Outcomes \cup {"none"}
      BY Roles DEF Outcomes
    <3> QED
      BY <1>3, <2>1, <3>1, ReceiptLedger DEF KeepEvidence
  <2>2. CASE JournalUnchanged
    <3>1. TypeOK' /\ SteersKept
      BY <1>3, <2>2, UnchangedLedger
    <3> QED
      BY <2>2, <3>1 DEF JournalUnchanged, ledgerVars, evidenceVars
  <2> QED
    BY <1>2, <2>1, <2>2
<1>5. "submitted" \in CollectorLabels /\ CollectClaim(p, "submitted", memo[p])
  BY <1>1 DEF CollectClaim, CollectorLabels
<1> QED
  BY <1>2, <1>3, <1>4, <1>5, AppendKeeps

\* The phase submitted,
LEMMA SubmittedKeeps ==
    ASSUME ServiceInv, NEW p \in Collector, SubmittedPhase(p)
    PROVE  ServiceInv'
<1>1. memo[p].goal = "capturing" => Final(memo[p].turn)
  BY DEF ServiceInv, CallsSound, CollectClaim, SubmittedPhase, At
<1> DEFINE l == IF memo[p].goal = "capturing" THEN "capture" ELSE "generate"
<1>2. JournalOnly
        /\ (Goto(p, l) \/ Finish(p))
        /\ \/ PhaseChanged("submitted", TheSend, TRUE) /\ KeepEvidence
           \/ JournalUnchanged
  BY DEF SubmittedPhase, AppendPhase, Append, NoAppend
<1>3. l \in CollectorLabels /\ CollectClaim(p, l, memo[p])
  BY <1>1 DEF CollectClaim, CollectorLabels
<1> HIDE DEF l
<1> QED
  BY <1>2, <1>3, PhaseAppendKeeps, AppendKeeps

\* the phase generating,
LEMMA GeneratingKeeps ==
    ASSUME ServiceInv, NEW p \in Collector, GeneratingPhase(p)
    PROVE  ServiceInv'
<1>1. JournalOnly /\ Finish(p)
        /\ \/ PhaseChanged("generating", TheSend, TRUE) /\ KeepEvidence
           \/ JournalUnchanged
  BY DEF GeneratingPhase, AppendPhase, Append, NoAppend
<1>2. "idle" \in CollectorLabels /\ CollectClaim(p, "idle", memo[p])
  BY DEF CollectClaim, CollectorLabels
<1> QED
  BY <1>1, <1>2, PhaseAppendKeeps, AppendKeeps

\* and the phase capturing.
LEMMA CapturingKeeps ==
    ASSUME ServiceInv, NEW p \in Collector, CapturingPhase(p)
    PROVE  ServiceInv'
<1>1. Final(memo[p].turn)
  BY DEF ServiceInv, CallsSound, CollectClaim, CapturingPhase, At
<1>2. JournalOnly
        /\ (Goto(p, "complete") \/ Finish(p))
        /\ \/ PhaseChanged("capturing", TheSend, TRUE) /\ KeepEvidence
           \/ JournalUnchanged
  BY DEF CapturingPhase, AppendPhase, Append, NoAppend
<1>3. "complete" \in CollectorLabels /\ CollectClaim(p, "complete", memo[p])
  BY <1>1 DEF CollectClaim, CollectorLabels
<1> QED
  BY <1>2, <1>3, PhaseAppendKeeps, AppendKeeps

\* The receipt a collector writes is of the turn it found final.
LEMMA CompleteKeeps ==
    ASSUME ServiceInv, NEW p \in Collector, CompleteOperation(p)
    PROVE  ServiceInv'
<1>1. Types /\ TypeOK /\ LedgerSound /\ p \in Caller /\ CallsSound
  BY Roles DEF ServiceInv, Types, Journal
<1>2. pc[p] = "complete" /\ JournalOnly /\ Finish(p)
        /\ \/ /\ ReceiptCompleted("content_available") /\ receiptTurn' = memo[p].turn
              /\ UNCHANGED <<baselineOf, witnessOf, stopTurn>>
           \/ JournalUnchanged
  BY DEF CompleteOperation, Append, NoAppend, At
<1>3. PageKept /\ activations' = activations /\ activations' \in [ActionId -> Nat]
  BY <1>1, <1>2 DEF JournalOnly, PageKept, pageVars, Types
<1>4. CASE JournalUnchanged
  <2>1. TypeOK' /\ SteersKept
    BY <1>3, <1>4, UnchangedLedger
  <2> QED
    BY <1>1, <1>2, <1>3, <1>4, <2>1, FinishKeeps
       DEF JournalUnchanged, ledgerVars, evidenceVars
<1>5. CASE /\ ReceiptCompleted("content_available") /\ receiptTurn' = memo[p].turn
           /\ UNCHANGED <<baselineOf, witnessOf, stopTurn>>
  <2>1. TypeOK'
    BY <1>1, <1>5 DEF ReceiptCompleted, TypeOK, Phases, ReceiptStates
  <2>2. SteersKept
    <3>1. Recorded' = Recorded
      BY <1>5 DEF ReceiptCompleted, Recorded
    <3>2. \A a \in Recorded : actions[a].order <= intentRevision
      BY <1>1 DEF LedgerSound
    <3>3. intentRevision <= intentRevision
      BY <1>1 DEF TypeOK
    <3> QED
      BY <1>1, <1>3, <1>5, <3>1, <3>2, <3>3 DEF SteersKept, LedgerSound, ReceiptCompleted
  <2>3. Moves(p, "idle", Blank) /\ "idle" \in Labels /\ Blank \in MemoType
    BY <1>1, <1>2, GotoMoves, BlankTyped DEF Labels, CollectorLabels
  <2>4. ReceiptFinal'
    <3>1. PICK n : n = memo[p].turn
      OBVIOUS
    <3>2. Final(n)
      BY <1>1, <1>2, <3>1 DEF CallsSound, CollectClaim
    <3>3. Final(n)'
      BY <1>1, <1>3, <2>3, <3>2, FinalKept
    <3> QED
      BY <1>5, <3>1, <3>3 DEF ReceiptFinal, Final
  <2>5. CollectClaim(p, "idle", Blank) /\ p \notin SteerCall /\ p \notin StopCall
    BY Roles DEF CollectClaim, CollectorLabels
  <2> QED
    BY <1>1, <1>3, <2>1, <2>2, <2>3, <2>4, <2>5, QuietOrFinal
<1> QED
  BY <1>2, <1>4, <1>5

\* Nothing happens.
LEMMA StutterKeeps ==
    ASSUME ServiceInv, UNCHANGED serviceVars
    PROVE  ServiceInv'
<1>1. /\ Types /\ Journal /\ Page /\ OneHolder /\ CallsSound /\ ReceiptFinal
  BY DEF ServiceInv
<1>2. /\ UNCHANGED ledgerVars /\ UNCHANGED callVars /\ UNCHANGED evidenceVars
      /\ UNCHANGED pageVars /\ UNCHANGED activations
  BY DEF serviceVars
<1>3. JournalUnchanged
  BY <1>2 DEF JournalUnchanged
<1>4. TypeOK' /\ SteersKept /\ PageKept
  BY <1>2, <1>3, UnchangedLedger DEF PageKept, pageVars
<1>5. Types'
  BY <1>1, <1>2, <1>4 DEF Types, callVars, evidenceVars, pageVars
<1>6. Journal'
  BY <1>1, <1>4, JournalKept DEF Types
<1>7. Page'
  BY <1>1, <1>4, EvidenceKept
<1>8. OneHolder'
  BY <1>1, <1>2 DEF OneHolder, callVars
<1>9. CallsSound'
  <2>1. ASSUME NEW q \in SteerCall PROVE SteerClaim(q, pc[q], memo[q])'
    <3>1. PICK k, n : k = pc[q] /\ n = memo[q]
      OBVIOUS
    <3>2. SteerClaim(q, k, n)
      BY <1>1, <3>1 DEF CallsSound
    <3>3. SteerClaim(q, k, n)'
      BY <1>1, <1>4, <3>2, SteerClaimKept DEF Types, Journal
    <3>4. k = pc'[q] /\ n = memo'[q]
      BY <1>2, <3>1 DEF callVars
    <3> QED
      BY <3>3, <3>4 DEF SteerClaim
  <2>2. ASSUME NEW q \in Collector PROVE CollectClaim(q, pc[q], memo[q])'
    BY <1>1, <1>2 DEF CallsSound, CollectClaim, callVars, evidenceVars, pageVars, Final,
                      PlanSound, ledgerVars
  <2> QED
    BY <1>1, <1>2, <2>1, <2>2 DEF CallsSound, callVars
<1>10. ReceiptFinal'
  BY <1>1, <1>2 DEF ReceiptFinal, Final, ledgerVars, evidenceVars, pageVars, callVars
<1> QED
  BY <1>5, <1>6, <1>7, <1>8, <1>9, <1>10 DEF ServiceInv

\* Every step of collect keeps the invariant.
LEMMA CollectKeeps ==
    ASSUME ServiceInv, NEW p \in Collector, CollectStep(p)
    PROVE  ServiceInv'
<1>1. CASE ReturnReceipt(p)
  BY <1>1, StutterKeeps DEF ReturnReceipt
<1> QED
  BY <1>1, ReadDurableKeeps, ObserveKeeps, PersistKeeps, LeaveReadyKeeps, SendReceiptKeeps,
     SubmittedKeeps, GeneratingKeeps, CapturingKeeps, CompleteKeeps DEF CollectStep

-----------------------------------------------------------------------------
(* The steps of control that leave the steers as they are *)

\* A call at a label of its own kind is of that kind.
LEMMA KindOfCall ==
    ASSUME ServiceInv, NEW p \in ControlCall
    PROVE  /\ p \in Caller /\ p \notin Collector
           /\ pc[p] \in {"fence", "reload", "acquired", "click", "verify", "witness"} =>
                 p \in SteerCall /\ p \notin StopCall
           /\ pc[p] \in {"intend", "act", "judge"} => p \in StopCall /\ p \notin SteerCall
<1>1. p \in SteerCall \/ p \in StopCall
  BY DEF ControlCall
<1>2. /\ p \in SteerCall => pc[p] \in SteerLabels
      /\ p \in StopCall => pc[p] \in StopLabels
  BY DEF ServiceInv, CallsSound, SteerClaim
<1> QED
  BY <1>1, <1>2, Roles DEF SteerLabels, StopLabels

\* A control call moves to a label whose claim it meets.
LEMMA ControlMoves ==
    ASSUME ServiceInv, NEW p \in ControlCall, NEW l \in Labels, NEW m \in MemoType,
           Moves(p, l, m), TypeOK', SteersKept, PageKept,
           activations' \in [ActionId -> Nat],
           receipt' = receipt, receiptTurn' = receiptTurn,
           p \in SteerCall => /\ SteerClaim(p, l, m)
                              /\ Holds(l, m) => Holds(pc[p], memo[p])
                              /\ l = "click" => answer # "terminal",
           p \in StopCall => l \in StopLabels
    PROVE  ServiceInv'
<1>1. p \in Caller /\ p \notin Collector
  BY KindOfCall
<1> QED
  BY <1>1, QuietStep

\* The same for one that only reads.
LEMMA ControlReads ==
    ASSUME ServiceInv, NEW p \in ControlCall, NEW l \in Labels, NEW m \in MemoType,
           Moves(p, l, m), ReadOnly \/ (JournalUnchanged /\ JournalOnly),
           p \in SteerCall => /\ SteerClaim(p, l, m)
                              /\ Holds(l, m) => Holds(pc[p], memo[p])
                              /\ l = "click" => answer # "terminal",
           p \in StopCall => l \in StopLabels
    PROVE  ServiceInv'
<1>1. /\ TypeOK' /\ SteersKept /\ PageKept
      /\ receipt' = receipt /\ receiptTurn' = receiptTurn
      /\ activations' \in [ActionId -> Nat]
  BY ReadOnlyKeeps
<1> QED
  BY <1>1, ControlMoves

\* A steer's baseline is a reading of the page.
LEMMA ReadingTyped == Types => Reading \in Readings
<1> SUFFICES ASSUME Types PROVE Reading \in Readings
  OBVIOUS
<1>1. userTurns \in 1 .. MaxTurns /\ text[userTurns] \in 0 .. MaxText
  BY DEF Types
<1>2. userTurns \in 0 .. MaxTurns
  BY <1>1, TurnsBounded
<1> QED
  BY <1>1, <1>2 DEF Reading, Readings

\* A new action starts from a reading of the page.
LEMMA BeginKeeps ==
    ASSUME ServiceInv, NEW p \in ControlCall, BeginControl(p)
    PROVE  ServiceInv'
<1> DEFINE l == IF ActionOf(p) \in Steer THEN "fence" ELSE "intend"
           m == [Blank EXCEPT !.base = Reading]
<1>1. Types /\ p \in Caller
  BY KindOfCall DEF ServiceInv
<1>2. m \in MemoType /\ m.base.turns = userTurns
  <2>1. Reading \in Readings /\ Blank \in MemoType
    BY <1>1, ReadingTyped, BlankTyped
  <2> QED
    BY <2>1 DEF MemoType, Reading
<1>3. l \in Labels
  BY DEF Labels, ControlLabels
<1>4. p \in SteerCall => SteerClaim(p, l, m)
  <2> SUFFICES ASSUME p \in SteerCall PROVE SteerClaim(p, l, m)
    OBVIOUS
  <2>1. l = "fence"
    BY Roles
  <2>2. userTurns <= userTurns
    BY <1>1 DEF Types
  <2> HIDE DEF l, m
  <2> QED
    BY <1>2, <2>1, <2>2 DEF SteerClaim, SteerLabels, Holds
<1>5. p \in StopCall => l \in StopLabels
  BY Roles DEF StopLabels
<1>6. Moves(p, l, m) /\ ReadOnly
  BY <1>1, GotoMoves DEF BeginControl
<1>7. l \in {"fence", "intend"}
  OBVIOUS
<1> HIDE DEF l, m
<1>8. ~Holds(l, m) /\ l # "click"
  BY <1>7 DEF Holds
<1> QED
  BY <1>2, <1>3, <1>4, <1>5, <1>6, <1>8, ControlReads

\* A durable action is only observed.
LEMMA ResumeKeeps ==
    ASSUME ServiceInv, NEW p \in ControlCall, ResumeControl(p)
    PROVE  ServiceInv'
<1> DEFINE a == ActionOf(p)
           m == [Blank EXCEPT !.base = baselineOf[a]]
<1>1. Types /\ LedgerSound /\ p \in Caller /\ ReadOnly
  BY KindOfCall DEF ServiceInv, Journal, ResumeControl
<1>2. a \in Recorded
  BY DEF ResumeControl
<1>3. CASE a \in Steer /\ GotoWith(p, "verify", m)
  <2>1. m \in MemoType /\ m.base = baselineOf[a]
    <3>1. baselineOf[a] \in Readings /\ Blank \in MemoType
      BY <1>1, <1>2, BlankTyped DEF Types, Recorded
    <3> QED
      BY <3>1 DEF MemoType
  <2>2. a \in Fenced
    BY <1>1, <1>2, <1>3 DEF LedgerSound, Recorded, Fenced, OfKind
  <2>3. Moves(p, "verify", m)
    BY <1>1, <1>3, GotoMoves
  <2>4. p \notin StopCall
    BY <1>3, Roles
  <2> HIDE DEF m
  <2>5. SteerClaim(p, "verify", m) /\ ~Holds("verify", m)
    BY <2>1, <2>2 DEF SteerClaim, SteerLabels, Holds
  <2>6. "verify" \in Labels
    BY DEF Labels, ControlLabels
  <2> QED
    BY <1>1, <2>1, <2>3, <2>4, <2>5, <2>6, ControlReads
<1>4. CASE a \in Stop /\ Goto(p, "judge")
  <2>1. Moves(p, "judge", memo[p]) /\ memo[p] \in MemoType
    BY <1>1, <1>4, GotoMoves
  <2>2. p \notin SteerCall
    BY <1>4, Roles
  <2>3. "judge" \in Labels /\ "judge" \in StopLabels
    BY DEF Labels, ControlLabels, StopLabels
  <2> QED
    BY <1>1, <2>1, <2>2, <2>3, ControlReads
<1> QED
  BY <1>3, <1>4 DEF ResumeControl

\* After a failed append a steer is only observed.
LEMMA ReloadKeeps ==
    ASSUME ServiceInv, NEW p \in ControlCall, ReloadSteer(p)
    PROVE  ServiceInv'
<1> DEFINE a == ActionOf(p)
           m == [memo[p] EXCEPT !.base = baselineOf[a]]
<1>1. Types /\ p \in Caller /\ ReadOnly /\ pc[p] = "reload"
  BY KindOfCall DEF ServiceInv, ReloadSteer, At
<1>2. p \in SteerCall /\ p \notin StopCall
  BY <1>1, KindOfCall
<1>3. CASE a \in Fenced /\ GotoWith(p, "verify", m)
  <2>1. m \in MemoType /\ m.base = baselineOf[a]
    <3>1. baselineOf[a] \in Readings /\ memo[p] \in MemoType
      BY <1>1, <1>3 DEF Types, Fenced, OfKind
    <3> QED
      BY <3>1 DEF MemoType
  <2>2. Moves(p, "verify", m)
    BY <1>1, <1>3, GotoMoves
  <2> HIDE DEF m
  <2>3. SteerClaim(p, "verify", m) /\ ~Holds("verify", m)
    BY <1>3, <2>1 DEF SteerClaim, SteerLabels, Holds
  <2>4. "verify" \in Labels
    BY DEF Labels, ControlLabels
  <2> QED
    BY <1>1, <1>2, <2>1, <2>2, <2>3, <2>4, ControlReads
<1>4. CASE Finish(p)
  BY <1>1, <1>4, ReadOnlyKeeps, FinishKeeps
<1> QED
  BY <1>3, <1>4 DEF ReloadSteer

\* A steer goes on to click only on the page its baseline was taken of.
LEMMA RecheckKeeps ==
    ASSUME ServiceInv, NEW p \in ControlCall, RecheckSteer(p)
    PROVE  ServiceInv'
<1> DEFINE a == ActionOf(p)
           rejected == [Blank EXCEPT !.result = "not_satisfied"]
<1>1. /\ Types /\ CallsSound /\ p \in Caller /\ pc[p] = "acquired"
      /\ JournalUnchanged /\ JournalOnly
  BY KindOfCall DEF ServiceInv, RecheckSteer, At, JournalOnly
<1>2. p \in SteerCall /\ p \notin StopCall
  BY <1>1, KindOfCall
<1>3. SteerClaim(p, "acquired", memo[p]) /\ Holds(pc[p], memo[p])
  BY <1>1, <1>2 DEF CallsSound, Holds
<1>4. memo[p] \in MemoType /\ "click" \in Labels /\ "verify" \in Labels /\ "receipt" \in Labels
  BY <1>1 DEF Types, Labels, ControlLabels
<1>5. CASE Unmoved(p) /\ Goto(p, "click")
  <2>1. Moves(p, "click", memo[p])
    BY <1>1, <1>5, GotoMoves
  <2>2. memo[p].base.turns = userTurns /\ answer # "terminal"
    BY <1>5 DEF Unmoved, Reading
  <2>3. SteerClaim(p, "click", memo[p])
    BY <1>3, <2>2 DEF SteerClaim, SteerLabels, Holds
  <2> QED
    BY <1>1, <1>2, <1>3, <1>4, <2>1, <2>2, <2>3, ControlReads
<1>6. CASE GotoWith(p, "receipt", rejected)
  <2>1. rejected \in MemoType /\ rejected.result = "not_satisfied"
    BY BlankTyped DEF MemoType, Outcomes
  <2>2. Moves(p, "receipt", rejected)
    BY <1>1, <1>6, GotoMoves
  <2> HIDE DEF rejected
  <2>3. SteerClaim(p, "receipt", rejected)
    BY <1>3, <2>1 DEF SteerClaim, SteerLabels, Holds
  <2> QED
    BY <1>1, <1>2, <1>3, <1>4, <2>1, <2>2, <2>3, ControlReads
<1>7. CASE Goto(p, "verify")
  <2>1. Moves(p, "verify", memo[p])
    BY <1>1, <1>7, GotoMoves
  <2>2. SteerClaim(p, "verify", memo[p]) /\ ~Holds("verify", memo[p])
    BY <1>3 DEF SteerClaim, SteerLabels, Holds
  <2> QED
    BY <1>1, <1>2, <1>4, <2>1, <2>2, ControlReads
<1> QED
  BY <1>5, <1>6, <1>7 DEF RecheckSteer

\* The turn a steer's witness names is its own only if no other was on its way.
LEMMA VerifyKeeps ==
    ASSUME ServiceInv, NEW p \in ControlCall, VerifySteer(p)
    PROVE  ServiceInv'
<1> DEFINE a == ActionOf(p)
           m == [Blank EXCEPT !.turn = userTurns, !.result = "satisfied"]
<1>1. /\ Types /\ TypeOK /\ LedgerSound /\ OneInDoubt /\ TurnsOwned /\ CallsSound
      /\ p \in Caller /\ pc[p] = "verify" /\ ReadOnly
  BY KindOfCall DEF ServiceInv, Types, Journal, Page, VerifySteer, At
<1>2. p \in SteerCall /\ p \notin StopCall
  BY <1>1, KindOfCall
<1>3. a \in Fenced /\ memo[p].base = baselineOf[a]
  BY <1>1, <1>2 DEF CallsSound, SteerClaim
<1>4. CASE userTurns = memo[p].base.turns + 1 /\ GotoWith(p, "witness", m)
  <2>1. m \in MemoType /\ m.turn = userTurns /\ m.result = "satisfied"
    <3>1. userTurns \in 0 .. MaxTurns
      BY <1>1, TurnsBounded DEF Types
    <3> QED
      BY <3>1, BlankTyped DEF MemoType, Outcomes
  <2>2. Moves(p, "witness", m)
    BY <1>1, <1>4, GotoMoves
  <2>3. userTurns = baselineOf[a].turns + 1 /\ userTurns <= userTurns
    BY <1>1, <1>3, <1>4 DEF Types
  <2>4. actions[a].outcome = "none" => posting = 0
    <3> SUFFICES ASSUME actions[a].outcome = "none" PROVE posting = 0
      OBVIOUS
    <3>1. a \in Doubt /\ a \in Steer
      BY <1>1, <1>3, FencedAreSteers DEF Doubt
    <3>2. CASE activations[a] = 1
      <4>1. userTurns + posting = baselineOf[a].turns + 1
        BY <1>1, <3>1, <3>2 DEF TurnsOwned
      <4>2. userTurns \in Nat /\ posting \in Nat
        BY <1>1, TurnsBounded DEF Types
      <4> QED
        BY <2>3, <4>1, <4>2
    <3>3. CASE activations[a] = 0
      <4>1. \A b \in Doubt : b = a
        BY <1>1, <1>3, <3>1 DEF OneInDoubt, Doubt
      <4> QED
        BY <1>1, <3>3, <4>1 DEF TurnsOwned
    <3> QED
      BY <1>1, <3>1, <3>2, <3>3 DEF TurnsOwned
  <2> HIDE DEF m
  <2>5. SteerClaim(p, "witness", m) /\ ~Holds("witness", m)
    BY <1>3, <2>1, <2>3, <2>4 DEF SteerClaim, SteerLabels, Holds
  <2>6. "witness" \in Labels
    BY DEF Labels, ControlLabels
  <2> QED
    BY <1>1, <1>2, <2>1, <2>2, <2>5, <2>6, ControlReads
<1>5. CASE Finish(p)
  BY <1>1, <1>5, ReadOnlyKeeps, FinishKeeps
<1> QED
  BY <1>4, <1>5 DEF VerifySteer

\* A stop's intent leaves the steers alone.
LEMMA IntendStopKeeps ==
    ASSUME ServiceInv, NEW p \in ControlCall, IntendStop(p)
    PROVE  ServiceInv'
<1> DEFINE a == ActionOf(p)
<1>1. Types /\ TypeOK /\ LedgerSound /\ p \in Caller /\ pc[p] = "intend" /\ JournalOnly
  BY KindOfCall DEF ServiceInv, Types, Journal, IntendStop, At
<1>2. p \in StopCall /\ p \notin SteerCall /\ a \in Stop
  BY <1>1, KindOfCall, Roles
<1>3. /\ Goto(p, "act") \/ Finish(p)
      /\ \/ /\ ActionIntent(a, "stop") /\ UNCHANGED <<baselineOf, witnessOf, receiptTurn>>
         \/ JournalUnchanged
  BY DEF IntendStop, Append, NoAppend
<1>4. PageKept /\ activations' = activations /\ activations' \in [ActionId -> Nat]
  BY <1>1 DEF JournalOnly, PageKept, pageVars, Types
<1>5. TypeOK' /\ SteersKept /\ receipt' = receipt /\ receiptTurn' = receiptTurn
  <2>1. CASE JournalUnchanged
    <3>1. TypeOK' /\ SteersKept
      BY <1>4, <2>1, UnchangedLedger
    <3> QED
      BY <2>1, <3>1 DEF JournalUnchanged, ledgerVars, evidenceVars
  <2>2. CASE ActionIntent(a, "stop") /\ UNCHANGED <<baselineOf, witnessOf, receiptTurn>>
    <3>1. /\ actions' = [actions EXCEPT ![a] = Intended("stop", intentRevision + 1)]
          /\ intentRevision' = intentRevision + 1 /\ a \in ActionId
      BY <1>2, <2>2, Roles DEF ActionIntent, Intend
    <3>2. intentRevision \in Nat /\ actions \in [ActionId -> ActionRecords]
      BY <1>1 DEF TypeOK
    <3>3. /\ Intended("stop", intentRevision + 1) \in ActionRecords
          /\ Intended("stop", intentRevision + 1).kind = "stop"
          /\ Intended("stop", intentRevision + 1).order = intentRevision + 1
      BY <3>2 DEF Intended, ActionRecords, Kinds
    <3>4. actions' \in [ActionId -> ActionRecords]
            /\ actions'[a] = Intended("stop", intentRevision + 1)
            /\ \A b \in ActionId : b # a => actions'[b] = actions[b]
      BY <3>1, <3>2, <3>3
    <3>5. mutationBoundary' \in Boundaries
      BY <1>1, <2>2 DEF ActionIntent, Intend, HigherBoundary, BoundaryForAction, Kinds,
                        Boundaries, TypeOK
    <3>6. TypeOK'
      BY <1>1, <2>2, <3>1, <3>2, <3>4, <3>5 DEF ActionIntent, TypeOK
    <3>7. \A b \in Steer : actions'[b] = actions[b]
      BY <1>2, <3>4, Roles
    <3>8. actions'[TheSend] = actions[TheSend]
      BY <1>2, <3>4, Roles
    <3>9. \A b \in Stop : actions'[b].kind \in {"absent", "stop"}
      BY <1>1, <3>3, <3>4, Roles DEF LedgerSound
    <3>10. \A b \in Stop : b \in Recorded' => actions'[b].order <= intentRevision'
      <4> SUFFICES ASSUME NEW b \in Stop, b \in Recorded'
                   PROVE  actions'[b].order <= intentRevision'
        OBVIOUS
      <4>1. CASE b = a
        BY <3>1, <3>2, <3>3, <3>4, <4>1
      <4>2. CASE b # a
        <5>1. b \in ActionId /\ actions'[b] = actions[b]
          BY <3>4, <4>2, Roles
        <5>2. b \in Recorded
          BY <5>1 DEF Recorded
        <5>3. actions[b].order <= intentRevision /\ actions[b].order \in Nat
          BY <1>1, <3>2, <5>1, <5>2 DEF LedgerSound, ActionRecords
        <5> QED
          BY <3>1, <3>2, <5>1, <5>3
      <4> QED
        BY <4>1, <4>2
    <3>11. intentRevision <= intentRevision'
      BY <3>1, <3>2
    <3>12. SteersKept
      BY <1>1, <1>4, <2>2, <3>7, <3>8, <3>9, <3>10, <3>11
         DEF SteersKept, LedgerSound, ActionIntent
    <3> QED
      BY <2>2, <3>6, <3>12 DEF ActionIntent
  <2> QED
    BY <1>3, <2>1, <2>2
<1>6. CASE Goto(p, "act")
  <2>1. Moves(p, "act", memo[p]) /\ memo[p] \in MemoType
    BY <1>1, <1>6, GotoMoves
  <2>2. "act" \in Labels /\ "act" \in StopLabels
    BY DEF Labels, ControlLabels, StopLabels
  <2> QED
    BY <1>2, <1>4, <1>5, <2>1, <2>2, ControlMoves
<1>7. CASE Finish(p)
  BY <1>1, <1>4, <1>5, <1>7, FinishKeeps
<1> QED
  BY <1>3, <1>6, <1>7

\* So does its click,
LEMMA ActivateStopKeeps ==
    ASSUME ServiceInv, NEW p \in ControlCall, ActivateStop(p)
    PROVE  ServiceInv'
<1> DEFINE a == ActionOf(p)
<1>1. Types /\ p \in Caller /\ pc[p] = "act" /\ JournalUnchanged
  BY KindOfCall DEF ServiceInv, ActivateStop, At
<1>2. p \in StopCall /\ p \notin SteerCall /\ a \in Stop
  BY <1>1, KindOfCall, Roles
<1>3. \/ activations' = [activations EXCEPT ![a] = @ + 1]
      \/ activations' = activations
  BY DEF ActivateStop
<1>4. a \in ActionId /\ a \notin Steer /\ activations \in [ActionId -> Nat]
  BY <1>1, <1>2, Roles DEF Types
<1>5. activations' \in [ActionId -> Nat]
        /\ \A b \in Steer : activations'[b] = activations[b]
  BY <1>3, <1>4, Roles
<1>6. TypeOK' /\ SteersKept
  BY <1>1, <1>5, UnchangedLedger
<1>7. PageKept /\ receipt' = receipt /\ receiptTurn' = receiptTurn
  BY <1>1 DEF ActivateStop, PageKept, pageVars, JournalUnchanged, ledgerVars, evidenceVars
<1>8. Moves(p, "judge", Blank) /\ Blank \in MemoType
  BY <1>1, GotoMoves, BlankTyped DEF ActivateStop
<1>9. "judge" \in Labels /\ "judge" \in StopLabels
  BY DEF Labels, ControlLabels, StopLabels
<1> QED
  BY <1>2, <1>5, <1>6, <1>7, <1>8, <1>9, ControlMoves

\* and what is observed of it.
LEMMA JudgeStopKeeps ==
    ASSUME ServiceInv, NEW p \in ControlCall, JudgeStop(p)
    PROVE  ServiceInv'
<1>1. Types /\ p \in Caller /\ pc[p] = "judge" /\ ReadOnly
  BY KindOfCall DEF ServiceInv, JudgeStop, At
<1>2. p \in StopCall /\ p \notin SteerCall
  BY <1>1, KindOfCall
<1>3. PICK result \in Outcomes : GotoWith(p, "receipt", [Blank EXCEPT !.result = result])
  BY DEF JudgeStop, Outcomes
<1> DEFINE m == [Blank EXCEPT !.result = result]
<1>4. m \in MemoType
  BY BlankTyped DEF MemoType
<1>5. Moves(p, "receipt", m)
  BY <1>1, <1>3, GotoMoves
<1> HIDE DEF m
<1>6. "receipt" \in Labels /\ "receipt" \in StopLabels
  BY DEF Labels, ControlLabels, StopLabels
<1> QED
  BY <1>1, <1>2, <1>4, <1>5, <1>6, ControlReads

\* A call that ends in the middle leaves what is durable.
LEMMA EndCallKeeps ==
    ASSUME ServiceInv, NEW p \in Caller, EndCall(p)
    PROVE  ServiceInv'
<1>1. JournalUnchanged /\ JournalOnly /\ Finish(p)
  BY DEF EndCall, JournalOnly
<1> QED
  BY <1>1, ReadOnlyKeeps, FinishKeeps

-----------------------------------------------------------------------------
(* The steps that fence a steer, witness it, settle it or activate it *)

\* A fence is put up when no steer is in doubt, around the last turn.
LEMMA FenceEventKeeps ==
    ASSUME ServiceInv, NEW p \in SteerCall, pc[p] = "fence",
           ActionOf(p) \notin Fenced, SteerInDoubt(ActionOf(p)) = {},
           ActionPrepared(ActionOf(p), "work_steer"),
           baselineOf' = [baselineOf EXCEPT ![ActionOf(p)] = memo[p].base],
           UNCHANGED <<witnessOf, stopTurn, receiptTurn>>, JournalOnly,
           Goto(p, "acquired") \/ Goto(p, "reload")
    PROVE  ServiceInv'
<1> DEFINE a == ActionOf(p)
<1>1. /\ Types /\ TypeOK /\ LedgerSound /\ OneInDoubt /\ EvidenceSound /\ TurnsOwned
      /\ Counted /\ OneHolder /\ CallsSound /\ ReceiptFinal
      /\ p \in Caller /\ p \notin StopCall /\ p \notin Collector
      /\ a \in Steer /\ a \in ActionId /\ a # TheSend
  BY Roles DEF ServiceInv, Types, Journal, Page
<1>2. /\ memo[p] \in MemoType /\ memo[p].base \in Readings /\ memo[p].base.turns <= userTurns
  <2>1. memo[p] \in MemoType
    BY <1>1 DEF Types
  <2>2. memo[p].base.turns <= userTurns
    BY <1>1 DEF CallsSound, SteerClaim
  <2> QED
    BY <2>1, <2>2 DEF MemoType
<1> DEFINE new == Intended("work_steer", intentRevision + 1)
<1>3. /\ actions' = [actions EXCEPT ![a] = new]
      /\ intentRevision' = intentRevision + 1 /\ a \notin Recorded
      /\ intentRevision \in Nat /\ actions \in [ActionId -> ActionRecords]
      /\ ownershipBaselines' = ownershipBaselines \cup {a}
      /\ submissionWitnesses' = submissionWitnesses /\ receipt' = receipt
  BY <1>1 DEF ActionPrepared, Intend, CanIntend, TypeOK
<1>4. /\ new \in ActionRecords /\ new.kind = "work_steer"
      /\ new.outcome = "none" /\ new.order = intentRevision + 1
  BY <1>3 DEF Intended, ActionRecords, Kinds
<1> HIDE DEF new
<1>5. /\ actions' \in [ActionId -> ActionRecords] /\ actions'[a] = new
      /\ \A b \in ActionId : b # a => actions'[b] = actions[b]
  BY <1>1, <1>3, <1>4
<1>6. TypeOK'
  <2>1. mutationBoundary' \in Boundaries
    BY <1>1 DEF ActionPrepared, Intend, HigherBoundary, BoundaryForAction, Kinds,
                Boundaries, TypeOK
  <2> QED
    BY <1>1, <1>3, <1>5, <2>1 DEF ActionPrepared, TypeOK
<1>7. /\ baselineOf' \in [ActionId -> Readings] /\ baselineOf'[a] = memo[p].base
      /\ \A b \in ActionId : b # a => baselineOf'[b] = baselineOf[b]
  BY <1>1, <1>2 DEF Types
<1>8. /\ userTurns' = userTurns /\ posting' = posting /\ answer' = answer /\ text' = text
      /\ activations' = activations /\ witnessOf' = witnessOf /\ receiptTurn' = receiptTurn
  BY DEF JournalOnly, pageVars
<1>9. PICK l \in {"acquired", "reload"} : Goto(p, l)
  OBVIOUS
<1>10. l \in Labels /\ Moves(p, l, memo[p])
  BY <1>1, <1>9, GotoMoves DEF Labels, ControlLabels
<1>11. /\ pc' \in [Caller -> Labels] /\ memo' \in [Caller -> MemoType]
       /\ pc'[p] = l /\ memo'[p] = memo[p]
       /\ \A q \in Caller : q # p => pc'[q] = pc[q] /\ memo'[q] = memo[q]
  BY <1>1, <1>2, <1>10, OneCallMoves
<1>12. Types'
  BY <1>1, <1>6, <1>7, <1>8, <1>11 DEF Types
<1>13. Fenced' = Fenced \cup {a}
  BY <1>1, <1>4, <1>5 DEF Fenced, OfKind
<1>14. \A b \in Fenced : b # a /\ b \in ActionId /\ actions'[b] = actions[b]
  BY <1>5 DEF Fenced, OfKind
<1>15. Doubt = {}
  BY <1>14 DEF Doubt, SteerInDoubt, Unresolved
<1>16. Doubt' = {a}
  BY <1>4, <1>5, <1>13, <1>14, <1>15 DEF Doubt
<1>17. Settled' = Settled
  BY <1>4, <1>5, <1>13, <1>14 DEF Settled
<1>18. a \notin submissionWitnesses /\ activations[a] = 0
  <2>1. a \notin submissionWitnesses
    BY <1>1 DEF LedgerSound
  <2>2. activations[a] # 1
    BY <1>1 DEF TurnsOwned
  <2> QED
    BY <1>1, <2>1, <2>2 DEF TurnsOwned
<1>19. actions'[TheSend] = actions[TheSend]
  BY <1>1, <1>5, Roles
<1>20. LastSettled' = LastSettled
  <2>1. \A b \in Settled : actions'[b] = actions[b]
    BY <1>14, <1>19 DEF Settled
  <2> QED
    BY <1>17, <2>1 DEF LastSettled
<1>21. \A b \in Recorded : b # a /\ actions'[b] = actions[b] /\ actions[b].order \in Nat
         /\ actions[b].order <= intentRevision
  BY <1>1, <1>3, <1>5 DEF Recorded, LedgerSound, ActionRecords
<1>22. LedgerSound'
  <2>1. \A b \in Steer :
          /\ actions'[b].kind \in {"absent", "work_steer"}
          /\ actions'[b].outcome \in {"none", "satisfied", "not_satisfied"}
          /\ actions'[b].outcome = "satisfied" => b \in submissionWitnesses
    <3> SUFFICES ASSUME NEW b \in Steer
                 PROVE  /\ actions'[b].kind \in {"absent", "work_steer"}
                        /\ actions'[b].outcome \in {"none", "satisfied", "not_satisfied"}
                        /\ actions'[b].outcome = "satisfied" => b \in submissionWitnesses
      OBVIOUS
    <3>1. CASE b = a
      BY <1>4, <1>5, <3>1
    <3>2. CASE b # a
      BY <1>1, <1>5, <3>2, Roles DEF LedgerSound
    <3> QED
      BY <3>1, <3>2
  <2>2. \A b \in Stop : actions'[b].kind \in {"absent", "stop"}
    BY <1>1, <1>5, Roles DEF LedgerSound
  <2>3. \A b \in Recorded' : actions'[b].order <= intentRevision'
    <3> SUFFICES ASSUME NEW b \in Recorded' PROVE actions'[b].order <= intentRevision'
      OBVIOUS
    <3>1. CASE b = a
      BY <1>3, <1>4, <1>5, <3>1
    <3>2. CASE b # a
      <4>1. b \in Recorded
        BY <1>5, <3>2 DEF Recorded
      <4> QED
        BY <1>3, <1>21, <4>1
    <3> QED
      BY <3>1, <3>2
  <2>4. actions'[TheSend].kind = "send" /\ actions'[TheSend].outcome \in {"none", "satisfied"}
    BY <1>1, <1>19 DEF LedgerSound
  <2>5. submissionWitnesses \subseteq {TheSend} \cup Fenced'
          /\ Fenced' \subseteq ownershipBaselines' /\ TheSend \in submissionWitnesses
    BY <1>1, <1>3, <1>13 DEF LedgerSound
  <2> QED
    BY <1>3, <2>1, <2>2, <2>3, <2>4, <2>5 DEF LedgerSound
<1>23. OneInDoubt'
  <2>1. \A b \in {TheSend} \cup Fenced : b \in Recorded /\ b # a
    BY <1>1, <1>14, Roles DEF Fenced, OfKind, Recorded, LedgerSound
  <2>2. \A b \in {TheSend} \cup Fenced : actions'[b].order < actions'[a].order
    BY <1>3, <1>4, <1>5, <1>21, <2>1
  <2> QED
    BY <1>13, <1>16, <2>2 DEF OneInDoubt
<1>24. EvidenceSound'
  BY <1>1, <1>2, <1>3, <1>7, <1>8, <1>13, <1>14, <1>18 DEF EvidenceSound
<1>25. TurnsOwned'
  <2>1. \A b \in Steer :
          /\ activations'[b] \in {0, 1}
          /\ activations'[b] = 1 => b \in Fenced' /\ actions'[b].outcome # "not_satisfied"
    BY <1>1, <1>8, <1>13, <1>14 DEF TurnsOwned
  <2>2. posting = 0 /\ \A c \in LastSettled : witnessOf[c] = userTurns
    BY <1>1, <1>15 DEF TurnsOwned
  <2> QED
    BY <1>3, <1>8, <1>16, <1>18, <1>20, <2>1, <2>2 DEF TurnsOwned
<1>26. Counted'
  BY <1>1, <1>8 DEF Counted, Activated
<1>27. \A q \in SteerCall : ActionOf(q) = a => ~Holds(pc[q], memo[q])
  BY <1>1 DEF CallsSound, SteerClaim, Holds
<1>28. OneHolder'
  <2> SUFFICES ASSUME NEW q \in SteerCall, NEW r \in SteerCall, ActionOf(q) = ActionOf(r),
                      Holds(pc'[q], memo'[q]), Holds(pc'[r], memo'[r])
               PROVE  q = r
    BY DEF OneHolder, ActionOf, Holds
  <2>1. q \in Caller /\ r \in Caller
    BY Roles
  <2>2. CASE q = p \/ r = p
    BY <1>11, <1>27, <2>1, <2>2
  <2>3. CASE q # p /\ r # p
    BY <1>1, <1>11, <2>1, <2>3 DEF OneHolder
  <2> QED
    BY <2>2, <2>3
<1>29. PICK m : m = memo[p]
  OBVIOUS
<1>30. SteerClaim(p, l, m)'
  <2>1. /\ a \in Fenced' /\ m = memo[p] /\ m.base = baselineOf'[a]
        /\ actions'[a].outcome = "none" /\ activations'[a] = 0
    BY <1>4, <1>5, <1>7, <1>8, <1>13, <1>18, <1>29
  <2> QED
    BY <1>9, <2>1 DEF SteerClaim, SteerLabels, Holds, ActionOf
<1>31. ASSUME NEW q \in SteerCall \ {p}, NEW k, NEW n, k = pc[q], n = memo[q]
       PROVE  SteerClaim(q, k, n)'
  <2>1. SteerClaim(q, k, n)
    BY <1>1, <1>31 DEF CallsSound
  <2> DEFINE b == ActionOf(q)
  <2>2. CASE b = a
    <3>1. k \in {"idle", "fence", "reload"}
      BY <1>1, <2>1, <2>2 DEF SteerClaim, SteerLabels
    <3> QED
      BY <1>8, <2>1, <3>1 DEF SteerClaim, Holds
  <2>3. CASE b # a
    <3>1. /\ b \in ActionId /\ actions'[b] = actions[b] /\ baselineOf'[b] = baselineOf[b]
          /\ b \in Fenced' <=> b \in Fenced
      BY <1>5, <1>7, <1>13, <2>3, Roles
    <3> QED
      BY <1>3, <1>8, <2>1, <3>1 DEF SteerClaim, ActionOf
  <2> QED
    BY <2>2, <2>3
<1>32. \A n : Final(n) => Final(n)'
  <2>1. \A q \in SteerCall : q \in Caller
    BY Roles
  <2>2. \A q \in SteerCall : pc[q] # "click" => pc'[q] # "click"
    BY <1>9, <1>11, <2>1
  <2> QED
    BY <1>8, <2>2 DEF Final
<1>33. ASSUME NEW q \in Collector \ {p}, NEW k, NEW n, k = pc[q], n = memo[q]
       PROVE  CollectClaim(q, k, n)'
  <2>1. CollectClaim(q, k, n)
    BY <1>1, <1>33 DEF CallsSound
  <2> QED
    BY <1>3, <1>8, <1>32, <2>1 DEF CollectClaim, PlanSound
<1>34. CallsSound'
  <2>1. Moves(p, l, m) /\ m \in MemoType
    BY <1>2, <1>10, <1>29
  <2> QED
    BY <1>1, <1>10, <1>30, <1>31, <1>33, <2>1, CallsKept
<1>35. ReceiptFinal'
  <2>1. PICK n : n = receiptTurn
    OBVIOUS
  <2>2. receipt' # "absent" => Final(n)'
    BY <1>1, <1>3, <1>32, <2>1 DEF ReceiptFinal
  <2> QED
    BY <1>8, <2>1, <2>2 DEF ReceiptFinal, Final
<1> QED
  BY <1>12, <1>22, <1>23, <1>24, <1>25, <1>26, <1>28, <1>34, <1>35
     DEF ServiceInv, Journal, Page

\* A witness names the last turn while its steer is in doubt.
LEMMA WitnessEventKeeps ==
    ASSUME ServiceInv, NEW p \in SteerCall, pc[p] = "witness",
           ActionOf(p) \notin submissionWitnesses, SubmissionWitness(ActionOf(p)),
           witnessOf' = [witnessOf EXCEPT ![ActionOf(p)] = memo[p].turn],
           UNCHANGED <<baselineOf, stopTurn, receiptTurn>>, JournalOnly,
           Goto(p, "receipt") \/ Finish(p)
    PROVE  ServiceInv'
<1> DEFINE a == ActionOf(p)
<1>1. /\ Types /\ TypeOK /\ LedgerSound /\ OneInDoubt /\ EvidenceSound /\ TurnsOwned
      /\ Counted /\ OneHolder /\ CallsSound /\ ReceiptFinal
      /\ p \in Caller /\ p \notin StopCall /\ p \notin Collector
      /\ a \in Steer /\ a \in ActionId /\ a # TheSend
  BY Roles DEF ServiceInv, Types, Journal, Page
<1>2. /\ a \in Fenced /\ memo[p].result = "satisfied"
      /\ memo[p].turn = baselineOf[a].turns + 1 /\ memo[p].turn <= userTurns
      /\ actions[a].outcome = "none" => memo[p].turn = userTurns /\ posting = 0
  BY <1>1 DEF CallsSound, SteerClaim
<1>3. /\ phase' = phase /\ actions' = actions /\ intentRevision' = intentRevision
      /\ ownershipBaselines' = ownershipBaselines /\ receipt' = receipt
      /\ submissionWitnesses' = submissionWitnesses \cup {a}
  BY DEF SubmissionWitness
<1>4. /\ userTurns' = userTurns /\ posting' = posting /\ answer' = answer /\ text' = text
      /\ activations' = activations /\ baselineOf' = baselineOf /\ receiptTurn' = receiptTurn
  BY DEF JournalOnly, pageVars
<1>5. memo[p] \in MemoType /\ memo[p].turn \in 0 .. MaxTurns
  BY <1>1 DEF Types, MemoType
<1>6. /\ witnessOf' \in [ActionId -> 0 .. MaxTurns] /\ witnessOf'[a] = memo[p].turn
      /\ \A b \in ActionId : b # a => witnessOf'[b] = witnessOf[b]
  BY <1>1, <1>5 DEF Types
<1>7. PICK l, m : /\ \/ l = "receipt" /\ m = memo[p]
                     \/ l = "idle" /\ m = Blank
                  /\ Moves(p, l, m) /\ m \in MemoType
  <2>1. \/ Moves(p, "receipt", memo[p])
        \/ Moves(p, "idle", Blank)
    BY <1>1, GotoMoves
  <2> QED
    BY <1>5, <2>1, BlankTyped
<1>8. l \in Labels
  BY <1>7 DEF Labels, CollectorLabels, ControlLabels
<1>9. /\ pc' \in [Caller -> Labels] /\ memo' \in [Caller -> MemoType]
      /\ pc'[p] = l /\ memo'[p] = m
      /\ \A q \in Caller : q # p => pc'[q] = pc[q] /\ memo'[q] = memo[q]
  BY <1>1, <1>7, <1>8, OneCallMoves
<1>10. ~Holds(l, m)
  BY <1>2, <1>7 DEF Holds
<1>11. Types'
  <2>1. TypeOK'
    BY <1>1, <1>3 DEF SubmissionWitness, TypeOK
  <2> QED
    BY <1>1, <1>4, <1>6, <1>9, <2>1 DEF Types
<1>12. /\ Fenced' = Fenced /\ Doubt' = Doubt /\ Settled' = Settled
       /\ LastSettled' = LastSettled /\ Recorded' = Recorded /\ Activated' = Activated
  BY <1>3, <1>4 DEF Fenced, OfKind, Doubt, Settled, LastSettled, Recorded, Activated
<1>13. LedgerSound'
  <2>1. \A b \in Steer : b \in submissionWitnesses => b \in submissionWitnesses'
    BY <1>3
  <2>2. TheSend \in submissionWitnesses'
          /\ submissionWitnesses' \subseteq {TheSend} \cup Fenced'
    BY <1>1, <1>2, <1>3, <1>12 DEF LedgerSound
  <2> QED
    BY <1>1, <1>3, <1>12, <2>1, <2>2 DEF LedgerSound
<1>14. OneInDoubt'
  BY <1>1, <1>3, <1>12 DEF OneInDoubt
<1>15. \A b \in Fenced : b \in ActionId
  BY DEF Fenced, OfKind
<1>16. EvidenceSound'
  <2>1. witnessOf'[TheSend] <= userTurns'
    BY <1>1, <1>4, <1>6, Roles DEF EvidenceSound
  <2>2. ASSUME NEW b \in Fenced, b \in submissionWitnesses'
        PROVE  witnessOf'[b] = baselineOf[b].turns + 1 /\ witnessOf'[b] <= userTurns
    <3>1. CASE b = a
      BY <1>2, <1>6, <3>1
    <3>2. CASE b # a
      BY <1>1, <1>3, <1>6, <1>15, <2>2, <3>2 DEF EvidenceSound
    <3> QED
      BY <3>1, <3>2
  <2>3. \A b \in Fenced : baselineOf[b].turns <= userTurns
    BY <1>1 DEF EvidenceSound
  <2> QED
    BY <1>4, <1>12, <2>1, <2>2, <2>3 DEF EvidenceSound
<1>17. TurnsOwned'
  <2>1. ASSUME NEW b \in Doubt, b \in submissionWitnesses'
        PROVE  witnessOf'[b] = userTurns /\ posting = 0
    <3>1. b \in Fenced /\ actions[b].outcome = "none"
      BY DEF Doubt
    <3>2. CASE b = a
      BY <1>2, <1>6, <3>1, <3>2
    <3>3. CASE b # a
      BY <1>1, <1>3, <1>6, <1>15, <2>1, <3>1, <3>3 DEF TurnsOwned
    <3> QED
      BY <3>2, <3>3
  <2>2. \A c \in LastSettled : c # a /\ c \in ActionId
    <3>1. \A c \in LastSettled : c \in Settled
      BY DEF LastSettled
    <3>2. \A c \in Settled : c # a /\ c \in ActionId
      BY <1>1, <1>15, Roles DEF Settled, LedgerSound, Fenced, OfKind
    <3> QED
      BY <3>1, <3>2
  <2>3. \A c \in LastSettled : witnessOf'[c] = witnessOf[c]
    BY <1>6, <2>2
  <2> QED
    BY <1>1, <1>3, <1>4, <1>12, <2>1, <2>3 DEF TurnsOwned
<1>18. Counted'
  BY <1>1, <1>4, <1>12 DEF Counted
<1>19. OneHolder'
  BY <1>1, <1>7, <1>8, <1>10, HoldersKept
<1>20. \A q \in SteerCall : \A k, n : SteerClaim(q, k, n) => SteerClaim(q, k, n)'
  <2> SUFFICES ASSUME NEW q \in SteerCall, NEW k, NEW n, SteerClaim(q, k, n)
               PROVE  SteerClaim(q, k, n)'
    OBVIOUS
  <2>1. \A b : b \in submissionWitnesses => b \in submissionWitnesses'
    BY <1>3
  <2> QED
    BY <1>3, <1>4, <1>12, <2>1 DEF SteerClaim, ActionOf
<1>21. SteerClaim(p, l, m)'
  <2>1. CASE l = "receipt" /\ m = memo[p]
    <3>1. a \in Fenced' /\ a \in submissionWitnesses' /\ m.result = "satisfied"
      BY <1>2, <1>3, <1>12, <2>1
    <3> QED
      BY <1>10, <2>1, <3>1 DEF SteerClaim, SteerLabels, ActionOf
  <2>2. CASE l = "idle"
    BY <1>10, <2>2 DEF SteerClaim, SteerLabels
  <2> QED
    BY <1>7, <2>1, <2>2
<1>22. \A n : Final(n) => Final(n)'
  <2>1. \A q \in SteerCall : q \in Caller
    BY Roles
  <2>2. \A q \in SteerCall : pc[q] # "click" => pc'[q] # "click"
    BY <1>7, <1>9, <2>1
  <2> QED
    BY <1>4, <2>2 DEF Final
<1>23. ASSUME NEW q \in Collector \ {p}, NEW k, NEW n, k = pc[q], n = memo[q]
       PROVE  CollectClaim(q, k, n)'
  <2>1. CollectClaim(q, k, n)
    BY <1>1, <1>23 DEF CallsSound
  <2>2. n.owner \in submissionWitnesses =>
          n.owner \in submissionWitnesses' /\ witnessOf'[n.owner] = witnessOf[n.owner]
    BY <1>1, <1>3, <1>6 DEF TypeOK
  <2> QED
    BY <1>4, <1>22, <2>1, <2>2 DEF CollectClaim, PlanSound
<1>24. CallsSound'
  <2>1. \A q \in SteerCall \ {p} : SteerClaim(q, pc[q], memo[q])
    BY <1>1 DEF CallsSound
  <2>2. \A q \in SteerCall \ {p} : \A k, n :
          k = pc[q] /\ n = memo[q] => SteerClaim(q, k, n)'
    BY <1>20, <2>1
  <2> QED
    BY <1>1, <1>7, <1>8, <1>21, <1>23, <2>2, CallsKept
<1>25. ReceiptFinal'
  <2>1. PICK n : n = receiptTurn
    OBVIOUS
  <2>2. receipt' # "absent" => Final(n)'
    BY <1>1, <1>3, <1>22, <2>1 DEF ReceiptFinal
  <2> QED
    BY <1>4, <2>1, <2>2 DEF ReceiptFinal, Final
<1> QED
  BY <1>11, <1>13, <1>14, <1>16, <1>17, <1>18, <1>19, <1>24, <1>25
     DEF ServiceInv, Journal, Page

\* A steer is settled by whoever still holds it, or by its witness.
LEMMA SettleEventKeeps ==
    ASSUME ServiceInv, NEW p \in SteerCall, pc[p] = "receipt",
           ActionReceipt(ActionOf(p), memo[p].result), KeepEvidence, JournalOnly, Finish(p)
    PROVE  ServiceInv'
<1> DEFINE a == ActionOf(p)
           result == memo[p].result
<1>1. /\ Types /\ TypeOK /\ LedgerSound /\ OneInDoubt /\ EvidenceSound /\ TurnsOwned
      /\ Counted /\ OneHolder /\ CallsSound /\ ReceiptFinal
      /\ p \in Caller /\ p \notin StopCall /\ p \notin Collector
      /\ a \in Steer /\ a \in ActionId /\ a # TheSend
  BY Roles DEF ServiceInv, Types, Journal, Page
<1>2. /\ a \in Fenced
      /\ \/ result = "satisfied" /\ a \in submissionWitnesses
         \/ result = "not_satisfied" /\ activations[a] = 0
  BY <1>1 DEF CallsSound, SteerClaim, Holds
<1>3. a \in Doubt /\ actions[a].outcome = "none"
  BY <1>2 DEF ActionReceipt, CanReceipt, Doubt
<1>4. actions \in [ActionId -> ActionRecords] /\ actions' = [actions EXCEPT ![a].outcome = result]
  BY <1>1 DEF ActionReceipt, TypeOK
<1> HIDE DEF result
<1>5. result \in Outcomes
  BY <1>2 DEF Outcomes
<1>6. \A b \in ActionId : /\ actions'[b].kind = actions[b].kind
                          /\ actions'[b].order = actions[b].order
                          /\ b # a => actions'[b] = actions[b]
  BY <1>1, <1>4 DEF ActionRecords
<1>7. actions'[a].outcome = result /\ actions' \in [ActionId -> ActionRecords]
  BY <1>1, <1>4, <1>5 DEF ActionRecords
<1>8. /\ phase' = phase /\ intentRevision' = intentRevision /\ receipt' = receipt
      /\ ownershipBaselines' = ownershipBaselines
      /\ submissionWitnesses' = submissionWitnesses
  BY DEF ActionReceipt
<1>9. /\ userTurns' = userTurns /\ posting' = posting /\ answer' = answer /\ text' = text
      /\ activations' = activations /\ baselineOf' = baselineOf /\ witnessOf' = witnessOf
      /\ receiptTurn' = receiptTurn
  BY DEF JournalOnly, pageVars, KeepEvidence, evidenceVars
<1>10. Moves(p, "idle", Blank) /\ "idle" \in Labels /\ Blank \in MemoType
  BY <1>1, GotoMoves, BlankTyped DEF Labels, CollectorLabels
<1>11. /\ pc' \in [Caller -> Labels] /\ memo' \in [Caller -> MemoType]
       /\ pc'[p] = "idle" /\ memo'[p] = Blank
       /\ \A q \in Caller : q # p => pc'[q] = pc[q] /\ memo'[q] = memo[q]
  BY <1>1, <1>10, OneCallMoves
<1>12. ~Holds("idle", Blank)
  BY DEF Holds
<1>13. Types'
  <2>1. TypeOK'
    BY <1>1, <1>7 DEF ActionReceipt, TypeOK
  <2> QED
    BY <1>1, <1>9, <1>11, <2>1 DEF Types
<1>14. Fenced' = Fenced /\ Recorded' = Recorded /\ Activated' = Activated
  BY <1>6, <1>9 DEF Fenced, OfKind, Recorded, Activated
<1>15. \A b \in Fenced : b \in ActionId
  BY DEF Fenced, OfKind
<1>16. \A b \in {TheSend} \cup Fenced : b # a =>
         /\ b \notin Doubt /\ actions[b].order < actions[a].order
  BY <1>1, <1>3 DEF OneInDoubt
<1>17. Doubt' = {}
  <2>1. ASSUME NEW b \in Doubt' PROVE FALSE
    <3>1. b \in Fenced /\ actions'[b].outcome = "none"
      BY <1>14 DEF Doubt
    <3>2. CASE b = a
      BY <1>2, <1>7, <3>1, <3>2
    <3>3. CASE b # a
      BY <1>6, <1>15, <1>16, <3>1, <3>3 DEF Doubt
    <3> QED
      BY <3>2, <3>3
  <2> QED
    BY <2>1
<1>18. LedgerSound'
  <2>1. \A b \in Steer :
          /\ actions'[b].kind \in {"absent", "work_steer"}
          /\ actions'[b].outcome \in {"none", "satisfied", "not_satisfied"}
          /\ actions'[b].outcome = "satisfied" => b \in submissionWitnesses
    <3> SUFFICES ASSUME NEW b \in Steer
                 PROVE  /\ actions'[b].kind \in {"absent", "work_steer"}
                        /\ actions'[b].outcome \in {"none", "satisfied", "not_satisfied"}
                        /\ actions'[b].outcome = "satisfied" => b \in submissionWitnesses
      OBVIOUS
    <3>1. CASE b = a
      BY <1>1, <1>2, <1>6, <1>7, <3>1 DEF LedgerSound
    <3>2. CASE b # a
      BY <1>1, <1>6, <3>2, Roles DEF LedgerSound
    <3> QED
      BY <3>1, <3>2
  <2>2. \A b \in Stop : actions'[b].kind \in {"absent", "stop"}
    BY <1>1, <1>6, Roles DEF LedgerSound
  <2>3. \A b \in Recorded : actions'[b].order <= intentRevision
    BY <1>1, <1>6 DEF LedgerSound, Recorded
  <2>4. actions'[TheSend].kind = "send" /\ actions'[TheSend].outcome \in {"none", "satisfied"}
    BY <1>1, <1>6, Roles DEF LedgerSound
  <2>5. submissionWitnesses \subseteq {TheSend} \cup Fenced
          /\ Fenced \subseteq ownershipBaselines /\ TheSend \in submissionWitnesses
    BY <1>1 DEF LedgerSound
  <2> QED
    BY <1>8, <1>14, <2>1, <2>2, <2>3, <2>4, <2>5 DEF LedgerSound
<1>19. OneInDoubt'
  BY <1>17 DEF OneInDoubt
<1>20. EvidenceSound'
  BY <1>1, <1>8, <1>9, <1>14 DEF EvidenceSound
<1>21. posting = 0 /\ \A c \in LastSettled' : witnessOf[c] = userTurns
  <2>1. CASE result = "satisfied" /\ a \in submissionWitnesses
    <3>1. posting = 0 /\ witnessOf[a] = userTurns
      BY <1>1, <1>3, <2>1 DEF TurnsOwned
    <3>2. a \in Settled'
      BY <1>2, <1>7, <1>14, <2>1 DEF Settled
    <3>3. ASSUME NEW c \in LastSettled' PROVE c = a
      <4>1. c \in {TheSend} \cup Fenced
        BY <1>14 DEF LastSettled, Settled
      <4>2. actions'[a].order <= actions'[c].order
        BY <3>2 DEF LastSettled
      <4>3. c \in ActionId
        BY <1>15, <4>1, Roles
      <4>4. actions[a].order <= actions[c].order
              /\ actions[a].order \in Nat /\ actions[c].order \in Nat
        BY <1>1, <1>4, <1>6, <4>2, <4>3 DEF ActionRecords
      <4> QED
        BY <1>16, <4>1, <4>4
    <3> QED
      BY <3>1, <3>3
  <2>2. CASE result = "not_satisfied" /\ activations[a] = 0
    <3>1. \A b \in Doubt : b = a
      BY <1>16 DEF Doubt
    <3>2. posting = 0 /\ \A c \in LastSettled : witnessOf[c] = userTurns
      BY <1>1, <2>2, <3>1 DEF TurnsOwned
    <3>3. Settled' = Settled
      <4>1. \A b \in Fenced : actions'[b].outcome = "satisfied" <=> actions[b].outcome = "satisfied"
        <5> SUFFICES ASSUME NEW b \in Fenced
                     PROVE  actions'[b].outcome = "satisfied" <=> actions[b].outcome = "satisfied"
          OBVIOUS
        <5>1. CASE b = a
          BY <1>3, <1>7, <2>2, <5>1
        <5>2. CASE b # a
          BY <1>6, <1>15, <5>2
        <5> QED
          BY <5>1, <5>2
      <4> QED
        BY <1>14, <4>1 DEF Settled
    <3>4. \A b \in Settled : actions'[b].order = actions[b].order
      BY <1>6, <1>15, Roles DEF Settled
    <3>5. LastSettled' = LastSettled
      BY <3>3, <3>4 DEF LastSettled
    <3> QED
      BY <3>2, <3>5
  <2> QED
    BY <1>2, <2>1, <2>2
<1>22. TurnsOwned'
  <2>1. ASSUME NEW b \in Steer
        PROVE  /\ activations'[b] \in {0, 1}
               /\ activations'[b] = 1 => b \in Fenced' /\ actions'[b].outcome # "not_satisfied"
    <3>1. CASE b = a
      BY <1>1, <1>2, <1>7, <1>9, <1>14, <3>1 DEF TurnsOwned
    <3>2. CASE b # a
      BY <1>1, <1>6, <1>9, <1>14, <3>2, Roles DEF TurnsOwned
    <3> QED
      BY <3>1, <3>2
  <2> QED
    BY <1>9, <1>17, <1>21, <2>1 DEF TurnsOwned
<1>23. Counted'
  BY <1>1, <1>9, <1>14 DEF Counted
<1>24. OneHolder'
  BY <1>1, <1>10, <1>12, HoldersKept
<1>25. ASSUME NEW q \in SteerCall \ {p}, NEW k, NEW n, k = pc[q], n = memo[q]
       PROVE  SteerClaim(q, k, n)'
  <2>1. SteerClaim(q, k, n)
    BY <1>1, <1>25 DEF CallsSound
  <2> DEFINE b == ActionOf(q)
  <2>2. CASE b = a
    <3>1. ~(k \in {"acquired", "click"} /\ n.base.turns = userTurns)
      <4> SUFFICES ASSUME k \in {"acquired", "click"}, n.base.turns = userTurns PROVE FALSE
        OBVIOUS
      <4>1. CASE result = "satisfied" /\ a \in submissionWitnesses
        <5>1. witnessOf[a] = userTurns /\ witnessOf[a] = baselineOf[a].turns + 1
          BY <1>1, <1>2, <1>3, <4>1 DEF TurnsOwned, EvidenceSound
        <5>2. n.base = baselineOf[a]
          BY <2>1, <2>2 DEF SteerClaim
        <5>3. userTurns \in Nat
          BY <1>1, TurnsBounded DEF Types
        <5> QED
          BY <5>1, <5>2, <5>3
      <4>2. CASE result = "not_satisfied"
        <5>1. Holds(pc[p], memo[p]) /\ Holds(pc[q], memo[q])
          BY <1>25, <4>2 DEF Holds, result
        <5> QED
          BY <1>1, <1>25, <2>2, <5>1 DEF OneHolder
      <4> QED
        BY <1>2, <4>1, <4>2
    <3>2. actions'[a].outcome # "none"
      BY <1>2, <1>7
    <3> QED
      BY <1>8, <1>9, <1>14, <2>1, <2>2, <3>1, <3>2 DEF SteerClaim, ActionOf
  <2>3. CASE b # a
    <3>1. actions'[b] = actions[b]
      BY <1>6, <2>3, Roles
    <3> QED
      BY <1>8, <1>9, <1>14, <2>1, <3>1 DEF SteerClaim, ActionOf
  <2> QED
    BY <2>2, <2>3
<1>26. SteerClaim(p, "idle", Blank)'
  BY <1>12 DEF SteerClaim, SteerLabels, Holds
<1>27. \A n : Final(n) => Final(n)'
  <2>1. \A q \in SteerCall : q \in Caller
    BY Roles
  <2>2. \A q \in SteerCall : pc[q] # "click" => pc'[q] # "click"
    BY <1>11, <2>1
  <2> QED
    BY <1>9, <2>2 DEF Final
<1>28. ASSUME NEW q \in Collector \ {p}, NEW k, NEW n, k = pc[q], n = memo[q]
       PROVE  CollectClaim(q, k, n)'
  <2>1. CollectClaim(q, k, n)
    BY <1>1, <1>28 DEF CallsSound
  <2> QED
    BY <1>8, <1>9, <1>27, <2>1 DEF CollectClaim, PlanSound
<1>29. CallsSound'
  BY <1>1, <1>10, <1>25, <1>26, <1>28, CallsKept
<1>30. ReceiptFinal'
  <2>1. PICK n : n = receiptTurn
    OBVIOUS
  <2>2. receipt' # "absent" => Final(n)'
    BY <1>1, <1>8, <1>27, <2>1 DEF ReceiptFinal
  <2> QED
    BY <1>9, <2>1, <2>2 DEF ReceiptFinal, Final
<1> QED
  BY <1>13, <1>18, <1>19, <1>20, <1>22, <1>23, <1>24, <1>29, <1>30
     DEF ServiceInv, Journal, Page

\* A click lands on the page its steer's baseline was taken of, with nothing on its
\* way and nobody else in doubt.
LEMMA ClickActsAlone ==
    ASSUME ServiceInv, NEW p \in SteerCall, pc[p] = "click"
    PROVE  /\ ActionOf(p) \in Doubt /\ activations[ActionOf(p)] = 0
           /\ ActionOf(p) \notin submissionWitnesses
           /\ baselineOf[ActionOf(p)].turns = userTurns /\ posting = 0
           /\ \A b \in Doubt : b = ActionOf(p)
<1> DEFINE a == ActionOf(p)
<1>1. /\ OneInDoubt /\ EvidenceSound /\ TurnsOwned /\ CallsSound
  BY DEF ServiceInv, Journal, Page
<1>2. /\ a \in Fenced /\ baselineOf[a].turns = userTurns
      /\ actions[a].outcome = "none" /\ activations[a] = 0
  BY <1>1 DEF CallsSound, SteerClaim, Holds
<1>3. a \in Doubt
  BY <1>2 DEF Doubt
<1>4. \A b \in Doubt : b = a
  BY <1>1, <1>3 DEF OneInDoubt, Doubt
<1>5. posting = 0
  BY <1>1, <1>2, <1>4 DEF TurnsOwned
<1>6. a \notin submissionWitnesses
  <2>1. userTurns \in Nat
    BY TurnsBounded DEF ServiceInv, Types
  <2> QED
    BY <1>1, <1>2, <2>1 DEF EvidenceSound
<1> QED
  BY <1>2, <1>3, <1>4, <1>5, <1>6

\* The click that lands keeps the invariant.
LEMMA ClickEventKeeps ==
    ASSUME ServiceInv, NEW p \in SteerCall, pc[p] = "click",
           activations' = [activations EXCEPT ![ActionOf(p)] = @ + 1],
           posting' = posting + 1, Goto(p, "verify"), JournalUnchanged,
           UNCHANGED <<userTurns, answer, text>>
    PROVE  ServiceInv'
<1> DEFINE a == ActionOf(p)
<1>1. /\ Types /\ TypeOK /\ LedgerSound /\ OneInDoubt /\ EvidenceSound /\ TurnsOwned
      /\ Counted /\ OneHolder /\ CallsSound /\ ReceiptFinal
      /\ p \in Caller /\ p \notin StopCall /\ p \notin Collector
      /\ a \in Steer /\ a \in ActionId
  BY Roles DEF ServiceInv, Types, Journal, Page
<1>2. /\ a \in Doubt /\ activations[a] = 0 /\ a \notin submissionWitnesses
      /\ baselineOf[a].turns = userTurns /\ posting = 0
      /\ \A b \in Doubt : b = a
  BY ClickActsAlone
<1>3. a \in Fenced /\ actions[a].outcome = "none" /\ memo[p].base = baselineOf[a]
  BY <1>1, <1>2 DEF Doubt, CallsSound, SteerClaim
<1>4. /\ UNCHANGED ledgerVars
      /\ actions' = actions /\ intentRevision' = intentRevision /\ receipt' = receipt
      /\ ownershipBaselines' = ownershipBaselines
      /\ submissionWitnesses' = submissionWitnesses
      /\ baselineOf' = baselineOf /\ witnessOf' = witnessOf /\ receiptTurn' = receiptTurn
  BY DEF JournalUnchanged, ledgerVars, evidenceVars
<1>5. /\ activations' \in [ActionId -> Nat] /\ activations'[a] = 1
      /\ \A b \in ActionId : b # a => activations'[b] = activations[b]
  BY <1>1, <1>2 DEF Types
<1>6. userTurns' = userTurns /\ posting' = 1 /\ answer' = answer /\ text' = text
        /\ userTurns \in Nat
  BY <1>1, <1>2, TurnsBounded DEF Types
<1>7. Moves(p, "verify", memo[p]) /\ "verify" \in Labels /\ memo[p] \in MemoType
  BY <1>1, GotoMoves DEF Labels, ControlLabels
<1>8. PICK m : m = memo[p]
  OBVIOUS
<1>9. /\ pc' \in [Caller -> Labels] /\ memo' \in [Caller -> MemoType]
      /\ pc'[p] = "verify" /\ memo'[p] = memo[p]
      /\ \A q \in Caller : q # p => pc'[q] = pc[q] /\ memo'[q] = memo[q]
  BY <1>1, <1>7, OneCallMoves
<1>10. Types'
  <2>1. TypeOK'
    BY <1>1, <1>4 DEF ledgerVars, TypeOK
  <2> QED
    BY <1>1, <1>4, <1>5, <1>6, <1>9, <2>1 DEF Types
<1>11. /\ Fenced' = Fenced /\ Doubt' = Doubt /\ LastSettled' = LastSettled
       /\ Recorded' = Recorded
  BY <1>4 DEF Fenced, OfKind, Doubt, Settled, LastSettled, Recorded
<1>12. LedgerSound'
  BY <1>1, <1>4, <1>11 DEF LedgerSound
<1>13. OneInDoubt'
  BY <1>1, <1>4, <1>11 DEF OneInDoubt
<1>14. EvidenceSound'
  BY <1>1, <1>4, <1>6, <1>11 DEF EvidenceSound
<1>15. TurnsOwned'
  <2>1. ASSUME NEW b \in Steer
        PROVE  /\ activations'[b] \in {0, 1}
               /\ activations'[b] = 1 => b \in Fenced' /\ actions'[b].outcome # "not_satisfied"
    <3>1. CASE b = a
      BY <1>3, <1>4, <1>5, <1>11, <3>1
    <3>2. CASE b # a
      BY <1>1, <1>4, <1>5, <1>11, <3>2, Roles DEF TurnsOwned
    <3> QED
      BY <3>1, <3>2
  <2>2. \A b \in Doubt' : b = a
    BY <1>2, <1>11
  <2>3. userTurns' + posting' = baselineOf'[a].turns + 1
    BY <1>2, <1>4, <1>6
  <2>4. ~(\A b \in Doubt' : activations'[b] = 0)
    BY <1>2, <1>5, <1>11
  <2>5. a \notin submissionWitnesses'
    BY <1>2, <1>4
  <2> QED
    BY <2>1, <2>2, <2>3, <2>4, <2>5 DEF TurnsOwned
<1>16. Counted'
  <2>1. Activated' = Activated \cup {a} /\ a \notin Activated
    BY <1>1, <1>2, <1>5, Roles DEF Activated
  <2>2. Activated \in SUBSET Steer
    BY DEF Activated
  <2>3. IsFiniteSet(Activated)
    BY <2>2, TurnsBounded
  <2>4. Cardinality(Activated') = Cardinality(Activated) + 1
    BY <2>1, <2>3, FS_AddElement
  <2>5. Cardinality(Activated) \in Nat
    BY <2>3, FS_CardinalityType
  <2> QED
    BY <1>1, <1>2, <1>6, <2>4, <2>5 DEF Counted
<1>17. ~Holds("verify", memo[p])
  BY DEF Holds
<1>18. OneHolder'
  BY <1>1, <1>7, <1>17, HoldersKept
<1>19. SteerClaim(p, "verify", m)'
  BY <1>3, <1>4, <1>8, <1>11 DEF SteerClaim, SteerLabels, Holds, ActionOf
<1>20. ASSUME NEW q \in SteerCall \ {p}, NEW k, NEW n, k = pc[q], n = memo[q]
       PROVE  SteerClaim(q, k, n)'
  <2>1. SteerClaim(q, k, n)
    BY <1>1, <1>20 DEF CallsSound
  <2> DEFINE b == ActionOf(q)
  <2>2. CASE b = a
    <3>1. ~Holds(k, n)
      <4>1. Holds(pc[p], memo[p])
        BY DEF Holds
      <4>2. ~Holds(pc[q], memo[q])
        BY <1>1, <1>20, <2>2, <4>1 DEF OneHolder
      <4> QED
        BY <1>20, <4>2
    <3>2. k # "witness"
      BY <1>2, <1>3, <1>6, <2>1, <2>2 DEF SteerClaim
    <3> QED
      BY <1>4, <1>6, <1>11, <2>1, <3>1, <3>2 DEF SteerClaim, Holds, ActionOf
  <2>3. CASE b # a
    <3>1. activations'[b] = activations[b]
      BY <1>5, <2>3, Roles
    <3>2. k = "witness" => actions[b].outcome # "none"
      BY <1>2, <2>1, <2>3 DEF SteerClaim, Doubt
    <3> QED
      BY <1>4, <1>6, <1>11, <2>1, <3>1, <3>2 DEF SteerClaim, ActionOf
  <2> QED
    BY <2>2, <2>3
<1>21. \A n : ~Final(n)
  BY DEF Final
<1>22. ASSUME NEW q \in Collector \ {p}, NEW k, NEW n, k = pc[q], n = memo[q]
       PROVE  CollectClaim(q, k, n)'
  <2>1. CollectClaim(q, k, n)
    BY <1>1, <1>22 DEF CallsSound
  <2> QED
    BY <1>4, <1>6, <1>21, <2>1 DEF CollectClaim, PlanSound
<1>23. CallsSound'
  <2>1. Moves(p, "verify", m) /\ m \in MemoType
    BY <1>7, <1>8
  <2> QED
    BY <1>1, <1>7, <1>19, <1>20, <1>22, <2>1, CallsKept
<1>24. ReceiptFinal'
  BY <1>1, <1>4, <1>21 DEF ReceiptFinal
<1> QED
  BY <1>10, <1>12, <1>13, <1>14, <1>15, <1>16, <1>18, <1>23, <1>24
     DEF ServiceInv, Journal, Page

-----------------------------------------------------------------------------
(* The page goes on *)

\* A change of a page whose last turn is not yet answered for good.
LEMMA PageStepKeeps ==
    ASSUME ServiceInv, PageChanges, posting > 0 \/ answer # "terminal",
           userTurns' \in 1 .. MaxTurns, posting' \in Nat,
           answer' \in {"none", "generating", "terminal"},
           text' \in [1 .. MaxTurns -> 0 .. MaxText],
           Page',
           \A q \in SteerCall : \A k, n : k = pc[q] /\ n = memo[q] => SteerClaim(q, k, n)',
           \A n \in 0 .. MaxTurns : n <= userTurns /\ (n = userTurns => answer = "terminal")
              => n <= userTurns' /\ (n = userTurns' => answer' = "terminal")
    PROVE  ServiceInv'
<1>1. /\ Types /\ TypeOK /\ LedgerSound /\ OneInDoubt /\ OneHolder /\ CallsSound
      /\ ReceiptFinal
  BY DEF ServiceInv, Types, Journal
<1>2. /\ UNCHANGED ledgerVars /\ actions' = actions /\ intentRevision' = intentRevision
      /\ ownershipBaselines' = ownershipBaselines /\ receipt' = receipt
      /\ submissionWitnesses' = submissionWitnesses
      /\ baselineOf' = baselineOf /\ witnessOf' = witnessOf /\ receiptTurn' = receiptTurn
      /\ pc' = pc /\ memo' = memo /\ activations' = activations
  BY DEF PageChanges, JournalUnchanged, ledgerVars, evidenceVars, callVars
<1>3. Types'
  <2>1. TypeOK'
    BY <1>1, <1>2 DEF ledgerVars, TypeOK
  <2> QED
    BY <1>1, <1>2, <2>1 DEF Types
<1>4. Fenced' = Fenced /\ Recorded' = Recorded /\ Doubt' = Doubt
  BY <1>2 DEF Fenced, OfKind, Recorded, Doubt
<1>5. LedgerSound' /\ OneInDoubt'
  BY <1>1, <1>2, <1>4 DEF LedgerSound, OneInDoubt
<1>6. OneHolder'
  BY <1>1, <1>2 DEF OneHolder
<1>7. \A n : ~Final(n)
  BY DEF Final
<1>8. ReceiptFinal'
  BY <1>1, <1>2, <1>7 DEF ReceiptFinal
<1>9. ASSUME NEW q \in SteerCall PROVE SteerClaim(q, pc[q], memo[q])'
  <2>1. PICK k, n : k = pc[q] /\ n = memo[q]
    OBVIOUS
  <2>2. SteerClaim(q, k, n)' /\ k = pc'[q] /\ n = memo'[q]
    BY <1>2, <2>1
  <2> QED
    BY <2>2 DEF SteerClaim
<1>10. ASSUME NEW q \in Collector PROVE CollectClaim(q, pc[q], memo[q])'
  <2>1. PICK k, n : k = pc[q] /\ n = memo[q]
    OBVIOUS
  <2>2. CollectClaim(q, k, n)
    BY <1>1, <2>1 DEF CallsSound
  <2>3. n \in MemoType
    BY <1>1, <2>1, Roles DEF Types
  <2>4. n.turn \in 0 .. MaxTurns
    BY <2>3 DEF MemoType
  <2>5. CollectClaim(q, k, n)'
    BY <1>2, <1>7, <2>2, <2>4 DEF CollectClaim, PlanSound
  <2>6. k = pc'[q] /\ n = memo'[q]
    BY <1>2, <2>1
  <2> QED
    BY <2>5, <2>6 DEF CollectClaim, Final, PlanSound
<1>11. \A q \in StopCall : pc'[q] \in StopLabels
  BY <1>1, <1>2 DEF CallsSound
<1> QED
  BY <1>3, <1>5, <1>6, <1>8, <1>9, <1>10, <1>11 DEF ServiceInv, Journal, CallsSound

\* The answer goes on under the last turn.
LEMMA AnswerStepKeeps ==
    ASSUME ServiceInv, PageChanges, answer # "terminal",
           userTurns' = userTurns, posting' = posting,
           answer' \in {"none", "generating", "terminal"},
           text' \in [1 .. MaxTurns -> 0 .. MaxText]
    PROVE  ServiceInv'
<1>1. Types /\ Page /\ CallsSound
  BY DEF ServiceInv
<1>2. /\ actions' = actions /\ submissionWitnesses' = submissionWitnesses
      /\ baselineOf' = baselineOf /\ witnessOf' = witnessOf /\ activations' = activations
  BY DEF PageChanges, JournalUnchanged, ledgerVars, evidenceVars
<1>3. /\ Fenced' = Fenced /\ Doubt' = Doubt /\ LastSettled' = LastSettled
      /\ Activated' = Activated
  BY <1>2 DEF Fenced, OfKind, Doubt, Settled, LastSettled, Activated
<1>4. EvidenceSound'
  BY <1>1, <1>2, <1>3 DEF Page, EvidenceSound
<1>5. TurnsOwned'
  BY <1>1, <1>2, <1>3 DEF Page, TurnsOwned
<1>6. Counted'
  BY <1>1, <1>3 DEF Page, Counted
<1>7. ASSUME NEW q \in SteerCall, NEW k, NEW n, k = pc[q], n = memo[q]
      PROVE  SteerClaim(q, k, n)'
  <2>1. SteerClaim(q, k, n)
    BY <1>1, <1>7 DEF CallsSound
  <2> QED
    BY <1>2, <1>3, <2>1 DEF SteerClaim
<1>8. userTurns' \in 1 .. MaxTurns /\ posting' \in Nat
  BY <1>1 DEF Types
<1> QED
  BY <1>4, <1>5, <1>6, <1>7, <1>8, PageStepKeeps DEF Page

\* An activated turn appears: it is the one the steer in doubt was activated for.
LEMMA TurnShownKeeps ==
    ASSUME ServiceInv, TurnShown
    PROVE  ServiceInv'
<1>1. /\ Types /\ TypeOK /\ LedgerSound /\ OneInDoubt /\ EvidenceSound /\ TurnsOwned
      /\ Counted /\ CallsSound
  BY DEF ServiceInv, Types, Journal, Page
<1>2. /\ posting > 0 /\ posting' = posting - 1 /\ userTurns' = userTurns + 1
      /\ answer' = "none" /\ text' = text /\ PageChanges
  BY DEF TurnShown
<1>3. /\ actions' = actions /\ submissionWitnesses' = submissionWitnesses
      /\ baselineOf' = baselineOf /\ witnessOf' = witnessOf /\ activations' = activations
  BY <1>2 DEF PageChanges, JournalUnchanged, ledgerVars, evidenceVars
<1>4. /\ Fenced' = Fenced /\ Doubt' = Doubt /\ LastSettled' = LastSettled
      /\ Activated' = Activated
  BY <1>3 DEF Fenced, OfKind, Doubt, Settled, LastSettled, Activated
<1>5. userTurns \in Nat /\ posting \in Nat /\ posting' \in Nat
  BY <1>1, <1>2, TurnsBounded DEF Types
<1>6. userTurns' \in 1 .. MaxTurns
  <2>1. Activated \in SUBSET Steer
    BY DEF Activated
  <2>2. IsFiniteSet(Activated) /\ 1 + Cardinality(Activated) <= MaxTurns
    BY <2>1, TurnsBounded
  <2>3. Cardinality(Activated) \in Nat /\ MaxTurns \in Nat
    BY <2>2, TurnsBounded, FS_CardinalityType
  <2> QED
    BY <1>1, <1>2, <1>5, <2>2, <2>3 DEF Counted
<1>7. PICK a \in Doubt : activations[a] # 0
  BY <1>1, <1>2 DEF TurnsOwned
<1>8. /\ a \in Steer /\ activations[a] = 1 /\ \A b \in Doubt : b = a
      /\ a \notin submissionWitnesses
  <2>1. a \in Steer
    BY <1>1, FencedAreSteers
  <2>2. \A b \in Doubt : b = a
    BY <1>1 DEF OneInDoubt, Doubt
  <2> QED
    BY <1>1, <1>2, <1>7, <2>1, <2>2 DEF TurnsOwned
<1>9. \A b \in Fenced : /\ b \in ActionId /\ baselineOf[b].turns \in Nat
                        /\ b \in submissionWitnesses => witnessOf[b] \in Nat
  BY <1>1, TurnsBounded DEF Types, Readings, Fenced, OfKind
<1>10. EvidenceSound'
  <2>1. witnessOf[TheSend] \in Nat
    BY <1>1, Roles, TurnsBounded DEF Types
  <2>2. \A x \in Nat : x <= userTurns => x <= userTurns + 1
    BY <1>5
  <2> QED
    BY <1>1, <1>2, <1>3, <1>4, <1>9, <2>1, <2>2 DEF EvidenceSound
<1>11. TurnsOwned'
  <2>1. userTurns' + posting' = userTurns + posting
    BY <1>2, <1>5
  <2>2. userTurns' + posting' = baselineOf'[a].turns + 1
    BY <1>1, <1>3, <1>8, <2>1 DEF TurnsOwned
  <2>3. a \in Doubt' /\ activations'[a] # 0 /\ a \notin submissionWitnesses'
          /\ \A b \in Doubt' : b = a
    BY <1>3, <1>4, <1>7, <1>8
  <2>4. \A b \in Steer :
          /\ activations'[b] \in {0, 1}
          /\ activations'[b] = 1 => b \in Fenced' /\ actions'[b].outcome # "not_satisfied"
    BY <1>1, <1>3, <1>4 DEF TurnsOwned
  <2> QED
    BY <2>2, <2>3, <2>4 DEF TurnsOwned
<1>12. Counted'
  <2>1. userTurns' + posting' = userTurns + posting
    BY <1>2, <1>5
  <2> QED
    BY <1>1, <1>4, <2>1 DEF Counted
<1>13. ASSUME NEW q \in SteerCall, NEW k, NEW n, k = pc[q], n = memo[q]
       PROVE  SteerClaim(q, k, n)'
  <2>1. SteerClaim(q, k, n)
    BY <1>1, <1>13 DEF CallsSound
  <2> DEFINE b == ActionOf(q)
  <2>2. k # "click"
    BY <1>2, <1>13, ClickActsAlone
  <2>3. k = "fence" => n.base.turns <= userTurns'
    <3>1. n \in MemoType
      BY <1>1, <1>13, Roles DEF Types
    <3>2. n.base.turns \in Nat
      BY <3>1, TurnsBounded DEF MemoType, Readings
    <3> QED
      BY <1>2, <1>5, <2>1, <3>2 DEF SteerClaim
  <2>4. k = "acquired" => n.base.turns # userTurns'
    <3> SUFFICES ASSUME k = "acquired" PROVE n.base.turns # userTurns'
      OBVIOUS
    <3>1. b \in Fenced /\ n.base = baselineOf[b]
      BY <2>1 DEF SteerClaim
    <3>2. baselineOf[b].turns <= userTurns /\ baselineOf[b].turns \in Nat
      BY <1>1, <1>9, <3>1 DEF EvidenceSound
    <3> QED
      BY <1>2, <1>5, <3>1, <3>2
  <2>5. k = "witness" => actions[b].outcome # "none" /\ n.turn <= userTurns'
    <3> SUFFICES ASSUME k = "witness"
                 PROVE  actions[b].outcome # "none" /\ n.turn <= userTurns'
      OBVIOUS
    <3>1. /\ actions[b].outcome # "none" /\ b \in Fenced
          /\ n.turn = baselineOf[b].turns + 1 /\ n.turn <= userTurns
      BY <1>2, <1>5, <2>1 DEF SteerClaim
    <3> QED
      BY <1>2, <1>5, <1>9, <3>1
  <2> QED
    BY <1>3, <1>4, <2>1, <2>2, <2>3, <2>4, <2>5 DEF SteerClaim, ActionOf
<1>14. \A n \in 0 .. MaxTurns : n <= userTurns
         => n <= userTurns' /\ (n = userTurns' => answer' = "terminal")
  BY <1>2, <1>5, TurnsBounded
<1>15. /\ answer' \in {"none", "generating", "terminal"}
       /\ text' \in [1 .. MaxTurns -> 0 .. MaxText]
  BY <1>1, <1>2 DEF Types
<1> QED
  BY <1>2, <1>5, <1>6, <1>10, <1>11, <1>12, <1>13, <1>14, <1>15, PageStepKeeps DEF Page

\* Whatever the page does keeps the invariant.
LEMMA PageKeeps ==
    ASSUME ServiceInv, TurnShown \/ AnswerStarts \/ AnswerStreams \/ AnswerEnds
    PROVE  ServiceInv'
<1>1. Types
  BY DEF ServiceInv
<1>2. CASE AnswerStarts
  BY <1>1, <1>2, AnswerStepKeeps DEF AnswerStarts, Types
<1>3. CASE AnswerStreams
  <2>1. text' = [text EXCEPT ![userTurns] = @ + 1] /\ text[userTurns] < MaxText
    BY <1>3 DEF AnswerStreams
  <2>2. text \in [1 .. MaxTurns -> 0 .. MaxText] /\ userTurns \in 1 .. MaxTurns
    BY <1>1 DEF Types
  <2>3. text[userTurns] + 1 \in 0 .. MaxText
    BY <2>1, <2>2, ServiceAssumption
  <2>4. text' \in [1 .. MaxTurns -> 0 .. MaxText]
    BY <2>1, <2>2, <2>3
  <2> QED
    BY <1>3, <2>4, AnswerStepKeeps DEF AnswerStreams
<1>4. CASE AnswerEnds
  BY <1>1, <1>4, AnswerStepKeeps DEF AnswerEnds, Types
<1> QED
  BY <1>2, <1>3, <1>4, TurnShownKeeps

-----------------------------------------------------------------------------
(* The remaining steps of control *)

\* Fencing, whether the append returns, throws or is refused.
LEMMA FenceKeeps ==
    ASSUME ServiceInv, NEW p \in ControlCall, FenceSteer(p)
    PROVE  ServiceInv'
<1> DEFINE a == ActionOf(p)
<1>1. Types /\ p \in Caller /\ pc[p] = "fence" /\ JournalOnly
  BY KindOfCall DEF ServiceInv, FenceSteer, At
<1>2. p \in SteerCall /\ p \notin StopCall
  BY <1>1, KindOfCall
<1>3. CASE JournalUnchanged /\ (Goto(p, "reload") \/ Finish(p))
  <2>1. CASE Goto(p, "reload")
    <3>1. Moves(p, "reload", memo[p]) /\ memo[p] \in MemoType
      BY <1>1, <2>1, GotoMoves
    <3>2. SteerClaim(p, "reload", memo[p]) /\ ~Holds("reload", memo[p])
      BY DEF SteerClaim, SteerLabels, Holds
    <3>3. "reload" \in Labels
      BY DEF Labels, ControlLabels
    <3> QED
      BY <1>1, <1>2, <1>3, <3>1, <3>2, <3>3, ControlReads
  <2>2. CASE Finish(p)
    BY <1>1, <1>3, <2>2, ReadOnlyKeeps, FinishKeeps
  <2> QED
    BY <1>3, <2>1, <2>2
<1>4. CASE /\ a \notin Fenced /\ SteerInDoubt(a) = {}
           /\ ActionPrepared(a, "work_steer")
           /\ baselineOf' = [baselineOf EXCEPT ![a] = memo[p].base]
           /\ UNCHANGED <<witnessOf, stopTurn, receiptTurn>>
           /\ Goto(p, "acquired") \/ Goto(p, "reload")
  BY <1>1, <1>2, <1>4, FenceEventKeeps
<1> QED
  BY <1>3, <1>4 DEF FenceSteer, Append, NoAppend, Converged

\* The click, whether it lands or fails.
LEMMA ActivateSteerKeeps ==
    ASSUME ServiceInv, NEW p \in ControlCall, ActivateSteer(p)
    PROVE  ServiceInv'
<1>1. /\ Types /\ CallsSound /\ p \in Caller /\ pc[p] = "click"
      /\ JournalUnchanged /\ Goto(p, "verify")
  BY KindOfCall DEF ServiceInv, ActivateSteer, At
<1>2. p \in SteerCall /\ p \notin StopCall
  BY <1>1, KindOfCall
<1>3. CASE activations' = activations /\ posting' = posting
  <2>1. JournalOnly
    BY <1>3 DEF ActivateSteer, JournalOnly, pageVars
  <2>2. Moves(p, "verify", memo[p]) /\ memo[p] \in MemoType
    BY <1>1, GotoMoves
  <2>3. SteerClaim(p, "click", memo[p])
    BY <1>1, <1>2 DEF CallsSound
  <2>4. SteerClaim(p, "verify", memo[p]) /\ ~Holds("verify", memo[p])
    BY <2>3 DEF SteerClaim, SteerLabels, Holds
  <2>5. "verify" \in Labels
    BY DEF Labels, ControlLabels
  <2> QED
    BY <1>1, <1>2, <2>1, <2>2, <2>4, <2>5, ControlReads
<1>4. CASE activations' = [activations EXCEPT ![ActionOf(p)] = @ + 1] /\ posting' = posting + 1
  BY <1>1, <1>2, <1>4, ClickEventKeeps DEF ActivateSteer
<1> QED
  BY <1>3, <1>4 DEF ActivateSteer

\* The witness, likewise.
LEMMA WitnessKeeps ==
    ASSUME ServiceInv, NEW p \in ControlCall, WitnessSteer(p)
    PROVE  ServiceInv'
<1> DEFINE a == ActionOf(p)
<1>1. Types /\ CallsSound /\ p \in Caller /\ pc[p] = "witness" /\ JournalOnly
  BY KindOfCall DEF ServiceInv, WitnessSteer, At
<1>2. p \in SteerCall /\ p \notin StopCall
  BY <1>1, KindOfCall
<1>3. CASE JournalUnchanged /\ a \in submissionWitnesses /\ Goto(p, "receipt")
  <2>1. Moves(p, "receipt", memo[p]) /\ memo[p] \in MemoType
    BY <1>1, <1>3, GotoMoves
  <2>2. SteerClaim(p, "witness", memo[p])
    BY <1>1, <1>2 DEF CallsSound
  <2>3. ~Holds("receipt", memo[p])
    BY <2>2 DEF SteerClaim, Holds
  <2>4. SteerClaim(p, "receipt", memo[p])
    BY <1>3, <2>2, <2>3 DEF SteerClaim, SteerLabels
  <2>5. "receipt" \in Labels
    BY DEF Labels, ControlLabels
  <2> QED
    BY <1>1, <1>2, <1>3, <2>1, <2>3, <2>4, <2>5, ControlReads
<1>4. CASE JournalUnchanged /\ Finish(p)
  BY <1>1, <1>4, ReadOnlyKeeps, FinishKeeps
<1>5. CASE /\ a \notin submissionWitnesses /\ SubmissionWitness(a)
           /\ witnessOf' = [witnessOf EXCEPT ![a] = memo[p].turn]
           /\ UNCHANGED <<baselineOf, stopTurn, receiptTurn>>
           /\ Goto(p, "receipt") \/ Finish(p)
  BY <1>1, <1>2, <1>5, WitnessEventKeeps
<1> QED
  BY <1>3, <1>4, <1>5 DEF WitnessSteer, Append, NoAppend

\* The receipt of a steer or a stop.
LEMMA ControlReceiptKeeps ==
    ASSUME ServiceInv, NEW p \in ControlCall, ControlReceipt(p)
    PROVE  ServiceInv'
<1> DEFINE a == ActionOf(p)
<1>1. Types /\ p \in Caller /\ pc[p] = "receipt" /\ JournalOnly /\ Finish(p)
  BY KindOfCall DEF ServiceInv, ControlReceipt, At, Append, NoAppend
<1>2. JournalUnchanged \/ (ActionReceipt(a, memo[p].result) /\ KeepEvidence)
  BY DEF ControlReceipt, Append, NoAppend
<1>3. CASE JournalUnchanged
  BY <1>1, <1>3, ReadOnlyKeeps, FinishKeeps
<1>4. CASE p \in SteerCall /\ ActionReceipt(a, memo[p].result) /\ KeepEvidence
  BY <1>1, <1>4, SettleEventKeeps
<1>5. CASE p \in StopCall /\ ActionReceipt(a, memo[p].result) /\ KeepEvidence
  <2>1. a \in ActionId \ Steer /\ a # TheSend
    BY <1>5, Roles
  <2>2. memo[p].result \in Outcomes \cup {"none"}
    <3>1. memo[p] \in MemoType
      BY <1>1 DEF Types
    <3> QED
      BY <3>1 DEF MemoType
  <2>3. /\ PageKept /\ activations' = activations /\ activations' \in [ActionId -> Nat]
    BY <1>1 DEF JournalOnly, PageKept, pageVars, Types
  <2>4. TypeOK' /\ SteersKept /\ receipt' = receipt /\ receiptTurn' = receiptTurn
    BY <1>5, <2>1, <2>2, <2>3, ReceiptLedger DEF KeepEvidence
  <2> QED
    BY <1>1, <2>3, <2>4, FinishKeeps
<1> QED
  BY <1>2, <1>3, <1>4, <1>5 DEF ControlCall

\* Every step of control keeps the invariant.
LEMMA ControlKeeps ==
    ASSUME ServiceInv, NEW p \in ControlCall, ControlStep(p)
    PROVE  ServiceInv'
BY BeginKeeps, ResumeKeeps, FenceKeeps, ReloadKeeps, RecheckKeeps, ActivateSteerKeeps,
   VerifyKeeps, WitnessKeeps, IntendStopKeeps, ActivateStopKeeps, JudgeStopKeeps,
   ControlReceiptKeeps DEF ControlStep

\* Every step keeps the invariant.
LEMMA ServiceStep == ServiceInv /\ [ServiceNext]_serviceVars => ServiceInv'
<1>1. ASSUME ServiceInv, ServiceNext PROVE ServiceInv'
  BY <1>1, CollectKeeps, ControlKeeps, PageKeeps, EndCallKeeps DEF ServiceNext
<1> QED
  BY <1>1, StutterKeeps

\* What submit leaves satisfies it.
LEMMA ServiceStart == ServiceInit => ServiceInv
<1> SUFFICES ASSUME ServiceInit PROVE ServiceInv
  OBVIOUS
<1>1. PICK left \in LeftBySubmit :
        /\ phase = left[1]
        /\ actions = [a \in ActionId |->
                         IF a = TheSend
                         THEN [kind |-> "send", outcome |-> left[2], order |-> 1]
                         ELSE Absent]
  BY DEF ServiceInit
<1>2. left[1] \in Phases /\ left[2] \in {"none", "satisfied"}
  BY DEF LeftBySubmit, Phases
<1>3. /\ actions[TheSend] = [kind |-> "send", outcome |-> left[2], order |-> 1]
      /\ \A a \in ActionId : a # TheSend => actions[a] = Absent
  BY <1>1, Roles
<1>4. /\ actions[TheSend].kind = "send" /\ actions[TheSend].outcome \in {"none", "satisfied"}
      /\ actions[TheSend].order = 1
  BY <1>2, <1>3
<1>5. Absent.kind = "absent" /\ Absent.outcome = "none" /\ Absent \in ActionRecords
  BY DEF Absent, ActionRecords
<1>6. actions \in [ActionId -> ActionRecords]
  <2>1. [kind |-> "send", outcome |-> left[2], order |-> 1] \in ActionRecords
    BY <1>2 DEF ActionRecords, Kinds, Outcomes
  <2> QED
    BY <1>1, <1>5, <2>1
<1>7. \A a \in Steer \cup Stop : a \in ActionId /\ a # TheSend /\ actions[a] = Absent
  BY <1>3, Roles
<1>8. Fenced = {} /\ Doubt = {} /\ Settled = {TheSend} /\ LastSettled \subseteq {TheSend}
  <2>1. Fenced = {}
    BY <1>3, <1>4, <1>5 DEF Fenced, OfKind
  <2> QED
    BY <2>1 DEF Doubt, Settled, LastSettled
<1>9. Recorded = {TheSend}
  BY <1>3, <1>4, <1>5, Roles DEF Recorded
<1>10. Types
  <2>1. TypeOK
    BY <1>1, <1>2, <1>6, Roles DEF ServiceInit, TypeOK, Boundaries, TargetLives, ReceiptStates
  <2>2. pc \in [Caller -> Labels] /\ memo \in [Caller -> MemoType]
    BY BlankTyped DEF ServiceInit, Labels, CollectorLabels
  <2>3. NoReading \in Readings
    BY ServiceAssumption, TurnsBounded DEF NoReading, Readings
  <2>4. baselineOf \in [ActionId -> Readings]
    BY <2>3 DEF ServiceInit
  <2>5. witnessOf \in [ActionId -> 0 .. MaxTurns] /\ userTurns \in 1 .. MaxTurns
    BY TurnsBounded DEF ServiceInit
  <2>6. text \in [1 .. MaxTurns -> 0 .. MaxText]
    BY ServiceAssumption DEF ServiceInit
  <2>7. posting \in Nat /\ answer \in {"none", "generating", "terminal"}
          /\ activations \in [ActionId -> Nat]
    BY DEF ServiceInit
  <2> QED
    BY <2>1, <2>2, <2>4, <2>5, <2>6, <2>7 DEF Types
<1>11. LedgerSound
  <2>1. /\ ownershipBaselines = {TheSend} /\ submissionWitnesses = {TheSend}
        /\ intentRevision = 1
    BY DEF ServiceInit
  <2>2. \A a \in Steer :
          /\ actions[a].kind \in {"absent", "work_steer"}
          /\ actions[a].outcome \in {"none", "satisfied", "not_satisfied"}
          /\ actions[a].outcome = "satisfied" => a \in submissionWitnesses
    BY <1>5, <1>7
  <2>3. \A a \in Stop : actions[a].kind \in {"absent", "stop"}
    BY <1>5, <1>7
  <2>4. \A a \in Recorded : actions[a].order <= intentRevision
    BY <1>4, <1>9, <2>1
  <2> QED
    BY <1>4, <1>8, <2>1, <2>2, <2>3, <2>4 DEF LedgerSound
<1>12. OneInDoubt
  BY <1>8 DEF OneInDoubt
<1>13. EvidenceSound
  BY <1>8, Roles DEF EvidenceSound, ServiceInit
<1>14. TurnsOwned
  BY <1>8, Roles DEF TurnsOwned, ServiceInit
<1>15. Counted
  <2>1. Activated = {}
    BY Roles DEF Activated, ServiceInit
  <2>2. Cardinality(Activated) = 0
    BY <2>1, FS_EmptySet
  <2> QED
    BY <2>2 DEF Counted, ServiceInit
<1>16. \A p \in Caller : pc[p] = "idle" /\ memo[p] = Blank
  BY DEF ServiceInit
<1>17. ~Holds("idle", Blank) /\ \A p : SteerClaim(p, "idle", Blank)
         /\ CollectClaim(p, "idle", Blank)
  BY DEF Holds, SteerClaim, SteerLabels, CollectClaim, CollectorLabels
<1>18. OneHolder
  BY <1>16, <1>17, Roles DEF OneHolder
<1>19. CallsSound
  BY <1>16, <1>17, Roles DEF CallsSound, StopLabels
<1>20. ReceiptFinal
  BY DEF ReceiptFinal, ServiceInit
<1> QED
  BY <1>10, <1>11, <1>12, <1>13, <1>14, <1>15, <1>18, <1>19, <1>20
     DEF ServiceInv, Journal, Page

\* The invariant holds of every behaviour.
LEMMA ServiceInvariant == ServiceSpec => []ServiceInv
BY ServiceStart, ServiceStep, PTL DEF ServiceSpec

-----------------------------------------------------------------------------
(* The theorems *)

\* "Missing evidence on a candidate is corruption, not a reason to fall back to
\* an older action": whatever is called, the terminal receipt is of the last turn the
\* operation caused, and no other is on its way (latestSubmissionOwnership,
\* assertCollectorOwnership).
THEOREM ReceiptOfLastTurn == ServiceSpec => []ReceiptIsOfLastTurn
<1>1. ServiceInv => ReceiptIsOfLastTurn
  BY DEF ServiceInv, ReceiptFinal, Final, ReceiptIsOfLastTurn
<1> QED
  BY <1>1, ServiceInvariant, PTL

\* However many steers are called, and each however often, one is activated at most
\* once, onto the turns its durable baseline has, with no turn on its way and no other
\* steer in doubt (persistSteerIntentAndBaseline, executePrepared).
THEOREM SteersActAlone == ServiceSpec => SteerActsAlone
<1>1. ASSUME ServiceInv, ServiceNext, NEW a \in Steer, activations'[a] # activations[a]
      PROVE  /\ activations[a] = 0
             /\ a \in ownershipBaselines
             /\ baselineOf[a].turns = userTurns
             /\ posting = 0
             /\ \A b \in Fenced \ {a} : ~Unresolved(b)
  <2>1. a \in ActionId /\ a \notin Stop /\ activations \in [ActionId -> Nat]
    BY <1>1, Roles DEF ServiceInv, Types
  <2>2. PICK p \in ControlCall : ActivateSteer(p) \/ ActivateStop(p)
    <3>1. activations' # activations
      BY <1>1
    <3>2. ASSUME NEW p \in Collector, CollectStep(p) PROVE activations' = activations
      BY <3>2 DEF CollectStep, ReturnReceipt, serviceVars, ReadDurable, ReadOnly, Observe,
           Persist, LeaveReady, SendReceipt, SubmittedPhase, GeneratingPhase, CapturingPhase,
           CompleteOperation, JournalOnly
    <3>3. ASSUME NEW p \in ControlCall, ControlStep(p), ~ActivateSteer(p), ~ActivateStop(p)
          PROVE  activations' = activations
      BY <3>3 DEF ControlStep, BeginControl, ReadOnly, ResumeControl, FenceSteer, JournalOnly,
           ReloadSteer, RecheckSteer, VerifySteer, WitnessSteer, IntendStop, JudgeStop,
           ControlReceipt
    <3>4. ~(TurnShown \/ AnswerStarts \/ AnswerStreams \/ AnswerEnds)
      BY <3>1 DEF TurnShown, AnswerStarts, AnswerStreams, AnswerEnds, PageChanges
    <3>5. \A p \in Caller : ~EndCall(p)
      BY <3>1 DEF EndCall
    <3> QED
      BY <1>1, <3>1, <3>2, <3>3, <3>4, <3>5 DEF ServiceNext
  <2>3. pc[p] = "click" /\ p \in SteerCall /\ a = ActionOf(p)
    <3>1. CASE ActivateSteer(p)
      <4>1. pc[p] = "click"
        BY <3>1 DEF ActivateSteer, At
      <4>2. p \in SteerCall
        BY <1>1, <4>1, KindOfCall
      <4>3. activations' = [activations EXCEPT ![ActionOf(p)] = @ + 1]
        BY <1>1, <3>1 DEF ActivateSteer
      <4> QED
        BY <1>1, <2>1, <4>1, <4>2, <4>3
    <3>2. CASE ActivateStop(p)
      <4>1. p \in StopCall
        BY <1>1, <3>2, KindOfCall DEF ActivateStop, At
      <4>2. ActionOf(p) # a
        BY <2>1, <4>1, Roles
      <4> QED
        BY <1>1, <2>1, <3>2, <4>2 DEF ActivateStop
    <3> QED
      BY <2>2, <3>1, <3>2
  <2>4. /\ a \in Doubt /\ activations[a] = 0
        /\ baselineOf[a].turns = userTurns /\ posting = 0
        /\ \A b \in Doubt : b = a
    BY <1>1, <2>3, ClickActsAlone
  <2>5. LedgerSound /\ TypeOK
    BY <1>1 DEF ServiceInv, Types, Journal
  <2>6. a \in ownershipBaselines
    BY <2>4, <2>5 DEF LedgerSound, Doubt
  <2>7. \A b \in Fenced \ {a} : ~Unresolved(b)
    <3> SUFFICES ASSUME NEW b \in Fenced \ {a} PROVE ~Unresolved(b)
      OBVIOUS
    <3>1. b \in Steer /\ b \notin Doubt
      BY <2>4, <2>5, FencedAreSteers
    <3> QED
      BY <2>5, <3>1 DEF LedgerSound, Doubt, Unresolved
  <2> QED
    BY <2>4, <2>6, <2>7
<1>2. ServiceInv /\ [ServiceNext]_serviceVars =>
        [\A a \in Steer :
            activations'[a] # activations[a] =>
               /\ activations[a] = 0
               /\ a \in ownershipBaselines
               /\ baselineOf[a].turns = userTurns
               /\ posting = 0
               /\ \A b \in Fenced \ {a} : ~Unresolved(b)]_serviceVars
  BY <1>1 DEF Steer
<1> QED
  BY <1>2, ServiceInvariant, PTL DEF ServiceSpec, SteerActsAlone
=============================================================================
