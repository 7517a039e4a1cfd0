------------------------ MODULE BackendTransport_proofs ------------------------
(***************************************************************************)
(* Whatever the child does and whenever calls are cancelled or run out of  *)
(* time: the transport's tables hold exactly the calls that are alive, the *)
(* handshake finds room, the lines of dead children stay bounded, and no   *)
(* answer or line reaches a call it does not belong to.  For any number of *)
(* callers, generations and limits.                                        *)
(***************************************************************************)
EXTENDS BackendTransport, FiniteSetTheorems, SequenceTheorems, TLAPS

Tails == {"current", "retired"}

\* The places callers and the handshake's request are charged for are finite, within
\* the limit, and leave the handshake its own while it is still to come.
CountInv ==
    /\ IsFiniteSet(waiting \cup active)
    /\ Load <= MaxInFlight
    /\ HelloHasRoom

\* The admission tables hold the calls that are alive.
PlaceInv ==
    /\ waiting = {i \in Caller : \/ route[i].stage = "handshake"
                                 \/ route[i].stage = "slot" /\ i \in Streams}
    /\ active = {i \in Ids : \/ Pending(i)
                             \/ route[i].stage = "slot" /\ i \notin Streams}

\* The stages of calls, the handshake and the child agree.
StageInv ==
    /\ route[Control].stage \in {"idle", "pending"}
    /\ Pending(Control) => handshake = "unknown"
    /\ handshake \in {"unknown", "blocked"} =>
          slots = <<>> /\ \A i \in Caller : route[i].stage \in {"idle", "handshake"}
    /\ handshake = "blocked" => child = NoChild
    /\ child <= spawned
    /\ child = NoChild =>
          /\ handshake \in {"unknown", "blocked"} /\ Idle(Control)
          /\ owed = {} /\ tombstones = {} /\ ~tombstoneTimer /\ ~quarantined
          /\ spawned < MaxChildren \/ \A i \in Caller : Idle(i)

\* The queue for the single slot holds each caller in it once.
SlotsInv ==
    /\ \A n \in 1..Len(slots) : route[slots[n]].stage \in {"slot", "pending"}
    /\ \A m, n \in 1..Len(slots) : slots[m] = slots[n] => m = n

\* The lines s are of one generation, of those up to sp.
OneGeneration(s, sp) ==
    \A p, q \in 1..Len(s) : s[p].gen = s[q].gen /\ s[p].gen \in 1..sp

\* The lines t of a transport whose child is c and whose last child is sp, with b when
\* no child is started: each tail is of one generation, the current one's that of the
\* child, until a second generation is detached.
TailsOK(t, c, b, sp) ==
    /\ t \in [{"current", "retired"} -> Seq(LineType)]
    /\ Len(t.current) + Len(t.retired) <= WriteQueueLimit
    /\ OneGeneration(t.current, sp) /\ OneGeneration(t.retired, sp)
    /\ \A p \in 1..Len(t.retired) : t.retired[p].gen # c
    /\ ~b => \A p \in 1..Len(t.current) : t.current[p].gen = c
    /\ b => c = NoChild
WriteInv == TailsOK(tails, child, blocked, spawned) /\ (blocked => Queued > 0)

\* The inductive invariant of the tables, the child and the lines to write.
TransportInv ==
    /\ TransportTypeOK
    /\ CountInv /\ PlaceInv /\ StageInv /\ SlotsInv /\ WriteInv

-----------------------------------------------------------------------------
(* Constants, sequences and finite sets *)

\* The bounds are numbers.
LEMMA Limits ==
    /\ MaxInFlight \in Nat /\ MaxInFlight >= 2 /\ NoChild = 0
    /\ WriteQueueLimit \in Nat /\ WriteQueueLimit >= 1
    /\ MaxChildren \in Nat /\ MaxUnknown \in Nat
    /\ Control \notin Caller /\ Streams \subseteq Caller /\ Control \in Ids /\ Caller \subseteq Ids
<1>1. \A x \in {MaxInFlight, WriteQueueLimit, TombstoneLimit} : x \in Nat /\ x # 0
  BY TransportAssumption
<1>2. \A x \in {MaxUses, MaxHellos, MaxChildren, MaxUnknown} : x \in Nat
  BY TransportAssumption
<1>3. /\ MaxInFlight \in Nat /\ WriteQueueLimit \in Nat /\ WriteQueueLimit # 0
      /\ MaxChildren \in Nat /\ MaxUnknown \in Nat
  BY <1>1, <1>2
<1> QED
  BY <1>3, TransportAssumption DEF Ids

\* The head and the tail of a sequence.
LEMMA HeadAndTail ==
    ASSUME NEW S, NEW s \in Seq(S), s # <<>>
    PROVE  /\ Len(s) \in Nat /\ Len(s) >= 1
           /\ Head(s) = s[1] /\ Head(s) \in S
           /\ Tail(s) \in Seq(S) /\ Len(Tail(s)) = Len(s) - 1
           /\ \A p \in 1..(Len(s) - 1) : p + 1 \in 1..Len(s) /\ Tail(s)[p] = s[p + 1]
<1>1. Len(s) \in Nat /\ Len(s) >= 1
  BY EmptySeq
<1>2. Head(s) = s[1] /\ Head(s) \in S
  BY <1>1, HeadTailProperties
<1>3. Tail(s) \in Seq(S) /\ Len(Tail(s)) = Len(s) - 1
  BY <1>1, HeadTailProperties
<1>4. \A p \in 1..(Len(s) - 1) : Tail(s)[p] = s[p + 1]
  BY <1>1, HeadTailProperties
<1> QED
  BY <1>1, <1>2, <1>3, <1>4

\* A sequence with its head replaced.
LEMMA NewHead ==
    ASSUME NEW S, NEW s \in Seq(S), s # <<>>, NEW x \in S
    PROVE  /\ <<x>> \o Tail(s) \in Seq(S)
           /\ Len(<<x>> \o Tail(s)) = Len(s)
           /\ (<<x>> \o Tail(s))[1] = x
           /\ \A p \in 2..Len(s) : (<<x>> \o Tail(s))[p] = s[p]
<1>1. /\ Len(s) \in Nat /\ Len(s) >= 1
      /\ Tail(s) \in Seq(S) /\ Len(Tail(s)) = Len(s) - 1
      /\ \A p \in 1..(Len(s) - 1) : Tail(s)[p] = s[p + 1]
  BY HeadAndTail
<1>2. <<x>> \in Seq(S) /\ Len(<<x>>) = 1 /\ <<x>>[1] = x
  OBVIOUS
<1>3. /\ <<x>> \o Tail(s) \in Seq(S)
      /\ Len(<<x>> \o Tail(s)) = Len(s)
  BY <1>1, <1>2, ConcatProperties
<1>4. (<<x>> \o Tail(s))[1] = x
  BY <1>1, <1>2, ConcatProperties
<1>5. ASSUME NEW p \in 2..Len(s) PROVE (<<x>> \o Tail(s))[p] = s[p]
  <2>1. p \in Nat /\ p > 1 /\ p - 1 \in 1..(Len(s) - 1)
    BY <1>1
  <2>2. (<<x>> \o Tail(s))[p] = Tail(s)[p - 1]
    BY <1>1, <1>2, <2>1, ConcatProperties
  <2> QED
    BY <1>1, <2>1, <2>2
<1> QED
  BY <1>3, <1>4, <1>5

\* A finite set with an element more, and its subsets.
LEMMA Counting ==
    ASSUME NEW S, IsFiniteSet(S)
    PROVE  /\ Cardinality(S) \in Nat
           /\ \A x : /\ IsFiniteSet(S \cup {x})
                     /\ Cardinality(S \cup {x}) =
                          IF x \in S THEN Cardinality(S) ELSE Cardinality(S) + 1
           /\ \A T \in SUBSET S : /\ IsFiniteSet(T) /\ Cardinality(T) \in Nat
                                  /\ Cardinality(T) <= Cardinality(S)
<1>1. Cardinality(S) \in Nat
  BY FS_CardinalityType
<1>2. \A x : /\ IsFiniteSet(S \cup {x})
             /\ Cardinality(S \cup {x}) =
                  IF x \in S THEN Cardinality(S) ELSE Cardinality(S) + 1
  BY FS_AddElement
<1>3. \A T \in SUBSET S : IsFiniteSet(T) /\ Cardinality(T) <= Cardinality(S)
  BY FS_Subset
<1>4. \A T \in SUBSET S : Cardinality(T) \in Nat
  BY <1>3, FS_CardinalityType
<1> QED
  BY <1>1, <1>2, <1>3, <1>4

\* Nothing new is charged for.
LEMMA Fewer ==
    ASSUME CountInv, waiting' \cup active' \subseteq waiting \cup active,
           handshake' = "unknown" =>
              handshake = "unknown" \/ waiting' \cup active' \subseteq {Control}
    PROVE  CountInv'
<1> DEFINE W == waiting \cup active
<1>1. IsFiniteSet(W) /\ IsFiniteSet(W') /\ Cardinality(W') <= Cardinality(W)
      /\ Cardinality(W) \in Nat /\ Cardinality(W') \in Nat
  BY Counting DEF CountInv
<1>2. Cardinality(W') <= MaxInFlight
  BY <1>1, TransportAssumption DEF CountInv, Load
<1>3. ASSUME handshake' = "unknown" PROVE Cardinality(W' \ {Control}) < MaxInFlight
  <2>1. CASE W' \subseteq {Control}
    <3>1. W' \ {Control} = {}
      BY <2>1
    <3> QED
      BY <3>1, FS_EmptySet, TransportAssumption
  <2>2. CASE handshake = "unknown"
    <3>1. /\ IsFiniteSet(W \ {Control}) /\ W' \ {Control} \subseteq W \ {Control}
          /\ Cardinality(W \ {Control}) < MaxInFlight
      BY <1>1, <2>2, Counting DEF CountInv, HelloHasRoom
    <3>2. /\ Cardinality(W' \ {Control}) <= Cardinality(W \ {Control})
          /\ Cardinality(W' \ {Control}) \in Nat /\ Cardinality(W \ {Control}) \in Nat
      BY <3>1, Counting
    <3> QED
      BY <3>1, <3>2, TransportAssumption
  <2> QED
    BY <1>3, <2>1, <2>2
<1> QED
  BY <1>1, <1>2, <1>3 DEF CountInv, Load, HelloHasRoom

-----------------------------------------------------------------------------
(* The lines to write *)

\* The tails t are those there are, or less the line whose turn it is.
Shrunk(t) ==
    \/ t = tails
    \/ \E k \in Tails : tails[k] # <<>> /\ t = [tails EXCEPT ![k] = Tail(@)]

\* Releasing a line keeps the order of generations.
LEMMA ShrunkTails ==
    ASSUME TailsOK(tails, child, blocked, spawned), NEW t, Shrunk(t)
    PROVE  TailsOK(t, child, blocked, spawned)
<1>1. CASE t = tails
  BY <1>1
<1>2. ASSUME NEW k \in Tails, tails[k] # <<>>, t = [tails EXCEPT ![k] = Tail(@)]
      PROVE  TailsOK(t, child, blocked, spawned)
  <2>1. /\ tails \in [Tails -> Seq(LineType)]
        /\ tails.current \in Seq(LineType) /\ tails.retired \in Seq(LineType)
        /\ Len(tails.current) \in Nat /\ Len(tails.retired) \in Nat
        /\ tails[k] \in Seq(LineType)
    BY DEF TailsOK, Tails
  <2>2. /\ Tail(tails[k]) \in Seq(LineType) /\ Len(Tail(tails[k])) = Len(tails[k]) - 1
        /\ \A p \in 1..(Len(tails[k]) - 1) :
              p + 1 \in 1..Len(tails[k]) /\ Tail(tails[k])[p] = tails[k][p + 1]
    BY <1>2, <2>1, HeadAndTail
  <2>3. t \in [Tails -> Seq(LineType)] /\ t[k] = Tail(tails[k])
        /\ \A j \in Tails : j # k => t[j] = tails[j]
    BY <1>2, <2>1, <2>2
  <2>4. \A j \in Tails : \A p \in 1..Len(t[j]) : \E q \in 1..Len(tails[j]) : t[j][p] = tails[j][q]
    BY <2>1, <2>2, <2>3
  <2>5. Len(t.current) + Len(t.retired) <= WriteQueueLimit
    <3>1. CASE k = "current"
      BY <2>1, <2>2, <2>3, <3>1, Limits DEF TailsOK, Tails
    <3>2. CASE k = "retired"
      BY <2>1, <2>2, <2>3, <3>2, Limits DEF TailsOK, Tails
    <3> QED
      BY <3>1, <3>2 DEF Tails
  <2>6. ASSUME NEW j \in Tails, OneGeneration(tails[j], spawned)
        PROVE  OneGeneration(t[j], spawned)
    <3> SUFFICES ASSUME NEW p \in 1..Len(t[j]), NEW q \in 1..Len(t[j])
                 PROVE  t[j][p].gen = t[j][q].gen /\ t[j][p].gen \in 1..spawned
      BY DEF OneGeneration
    <3>1. PICK m \in 1..Len(tails[j]) : t[j][p] = tails[j][m]
      BY <2>4
    <3>2. PICK n \in 1..Len(tails[j]) : t[j][q] = tails[j][n]
      BY <2>4
    <3> QED
      BY <2>6, <3>1, <3>2 DEF OneGeneration
  <2>7. (\A p \in 1..Len(tails.retired) : tails.retired[p].gen # child)
          => (\A p \in 1..Len(t.retired) : t.retired[p].gen # child)
    BY <2>4 DEF Tails
  <2>8. (\A p \in 1..Len(tails.current) : tails.current[p].gen = child)
          => (\A p \in 1..Len(t.current) : t.current[p].gen = child)
    BY <2>4 DEF Tails
  <2>9. OneGeneration(t.current, spawned) /\ OneGeneration(t.retired, spawned)
    BY <2>6 DEF TailsOK, Tails
  <2> QED
    BY <2>3, <2>5, <2>7, <2>8, <2>9 DEF TailsOK, Tails
<1> QED
  BY <1>1, <1>2 DEF Shrunk

\* The two tails, given one by one.
LEMMA BothTails ==
    ASSUME NEW S, NEW a \in S, NEW b \in S
    PROVE  [current |-> a, retired |-> b] \in [{"current", "retired"} -> S]
OBVIOUS

\* retireWriteLifecycle: once the child is gone no line is of the current
\* generation, and no third generation is let in beside two detached ones.
LEMMA RetiredOK ==
    ASSUME NEW t, TailsOK(t, child, blocked, spawned), child \in Nat, blocked \in BOOLEAN,
           blocked => Len(t.current) + Len(t.retired) > 0
    PROVE  /\ TailsOK(RetiredTails(t).tails, NoChild, RetiredTails(t).blocked, spawned)
           /\ RetiredTails(t).blocked =>
                 Len(RetiredTails(t).tails.current) + Len(RetiredTails(t).tails.retired) > 0
<1> USE Limits
<1>1. /\ t \in [Tails -> Seq(LineType)]
      /\ t.current \in Seq(LineType) /\ t.retired \in Seq(LineType)
      /\ Len(t.current) \in Nat /\ Len(t.retired) \in Nat
  BY DEF TailsOK, Tails
<1>2. /\ \A l \in Range(t.current) : \E p \in 1..Len(t.current) : l = t.current[p]
      /\ \A l \in Range(t.retired) : \E p \in 1..Len(t.retired) : l = t.retired[p]
      /\ \A p \in 1..Len(t.current) : t.current[p] \in Range(t.current)
      /\ \A p \in 1..Len(t.retired) : t.retired[p] \in Range(t.retired)
  BY <1>1, LenProperties DEF Range
<1>3. CASE \A l \in Range(t.current) \cup Range(t.retired) : l.gen # child
  <2>1. RetiredTails(t) = [tails |-> t, blocked |-> blocked]
    BY <1>3 DEF RetiredTails
  <2>2. ~blocked => Len(t.current) = 0
    BY <1>1, <1>2, <1>3 DEF TailsOK
  <2>3. \A q \in 1..Len(t.retired) : t.retired[q].gen # NoChild
    BY <1>1 DEF TailsOK, OneGeneration
  <2>4. ~blocked => \A q \in 1..Len(t.current) : t.current[q].gen = NoChild
    BY <1>1, <2>2
  <2>5. TailsOK(t, NoChild, blocked, spawned)
    BY <2>3, <2>4 DEF TailsOK
  <2>6. RetiredTails(t).tails = t /\ RetiredTails(t).blocked = blocked
    BY <2>1
  <2> QED
    BY <2>5, <2>6
<1>4. CASE ~\A l \in Range(t.current) \cup Range(t.retired) : l.gen # child
  <2>1. PICK l \in Range(t.current) \cup Range(t.retired) : l.gen = child
    BY <1>4
  <2>2. l \notin Range(t.retired)
    BY <1>2, <2>1 DEF TailsOK
  <2>3. PICK p \in 1..Len(t.current) : t.current[p].gen = child
    BY <1>2, <2>1, <2>2
  <2>4. Len(t.current) > 0 /\ child # NoChild /\ child \in 1..spawned
    BY <1>1, <2>3 DEF TailsOK, OneGeneration
  <2>5. ~blocked
    BY <2>4 DEF TailsOK
  <2>6. \A q \in 1..Len(t.current) : t.current[q].gen # NoChild
    BY <1>1, <2>3, <2>4 DEF TailsOK, OneGeneration
  <2>7. \A q \in 1..Len(t.retired) : t.retired[q].gen # NoChild
    BY <1>1 DEF TailsOK, OneGeneration
  <2>8. CASE t.retired = <<>>
    <3>1. RetiredTails(t) = [tails |-> [current |-> <<>>, retired |-> t.current],
                             blocked |-> blocked]
      BY <1>4, <2>8 DEF RetiredTails
    <3>2. Len(<<>>) = 0
      OBVIOUS
    <3>3. OneGeneration(<<>>, spawned) /\ OneGeneration(t.current, spawned)
      BY <3>2 DEF TailsOK, OneGeneration
    <3>4. /\ RetiredTails(t).tails \in [Tails -> Seq(LineType)]
          /\ RetiredTails(t).tails.current = <<>> /\ RetiredTails(t).tails.retired = t.current
          /\ RetiredTails(t).blocked = FALSE
      <4>1. <<>> \in Seq(LineType)
        OBVIOUS
      <4>2. /\ RetiredTails(t).tails = [current |-> <<>>, retired |-> t.current]
            /\ RetiredTails(t).blocked = FALSE
        BY <2>5, <3>1
      <4>3. [current |-> <<>>, retired |-> t.current] \in [Tails -> Seq(LineType)]
        BY <1>1, <4>1, BothTails DEF Tails
      <4> QED
        BY <4>2, <4>3
    <3>5. Len(t.retired) = 0 /\ Len(t.current) <= WriteQueueLimit
      BY <1>1, <2>8, <3>2 DEF TailsOK
    <3> QED
      BY <1>1, <2>5, <2>6, <3>2, <3>3, <3>4, <3>5 DEF TailsOK, Tails
  <2>9. CASE t.retired # <<>>
    <3>1. RetiredTails(t) = [tails |-> t, blocked |-> TRUE]
      BY <1>4, <2>9 DEF RetiredTails
    <3> QED
      BY <1>1, <2>4, <2>7, <3>1 DEF TailsOK, Tails
  <2> QED
    BY <2>8, <2>9
<1> QED
  BY <1>3, <1>4

\* Two numbers and a limit they do not reach.
LEMMA OneMore ==
    ASSUME NEW m \in Nat, NEW n \in Nat, NEW w \in Nat, m + n < w
    PROVE  m + 1 + n <= w
OBVIOUS

\* A line of the child's is admitted while there is room.
LEMMA LineAdded ==
    ASSUME TailsOK(tails, child, blocked, spawned), WriteHasRoom,
           NEW c, NEW sp \in Nat, c # NoChild, ~blocked, NEW l \in LineType,
           l.gen = c, c \in 1..sp,
           \/ c = child /\ sp = spawned
           \/ child = NoChild /\ spawned \in Nat /\ sp = spawned + 1 /\ c = sp
    PROVE  TailsOK(WithLine(l), c, FALSE, sp)
<1> USE Limits
<1>1. /\ tails \in [Tails -> Seq(LineType)]
      /\ tails.current \in Seq(LineType) /\ tails.retired \in Seq(LineType)
      /\ Len(tails.current) \in Nat /\ Len(tails.retired) \in Nat
  BY DEF TailsOK, Tails
<1>2. /\ Append(tails.current, l) \in Seq(LineType)
      /\ Len(Append(tails.current, l)) = Len(tails.current) + 1
      /\ \A p \in 1..Len(tails.current) : Append(tails.current, l)[p] = tails.current[p]
      /\ Append(tails.current, l)[Len(tails.current) + 1] = l
  BY <1>1, AppendProperties
<1>3. /\ WithLine(l) \in [Tails -> Seq(LineType)]
      /\ WithLine(l).current = Append(tails.current, l)
      /\ WithLine(l).retired = tails.retired
  BY <1>1, <1>2 DEF WithLine, Tails
<1>4. \A p \in 1..Len(tails.current) : tails.current[p].gen = child
  BY DEF TailsOK
<1>5. child = NoChild => Len(tails.current) = 0
  <2>1. \A p \in 1..Len(tails.current) : tails.current[p].gen # NoChild
    BY <1>1 DEF TailsOK, OneGeneration
  <2> QED
    BY <1>1, <1>4, <2>1
<1>6. \A p \in 1..(Len(tails.current) + 1) : Append(tails.current, l)[p].gen = c
  <2> TAKE p \in 1..(Len(tails.current) + 1)
  <2>1. CASE p \in 1..Len(tails.current)
    BY <1>1, <1>2, <1>4, <1>5, <2>1
  <2>2. CASE p = Len(tails.current) + 1
    BY <1>2, <2>2
  <2> QED
    BY <1>1, <2>1, <2>2
<1>7. OneGeneration(WithLine(l).current, sp)
  BY <1>2, <1>3, <1>6 DEF OneGeneration
<1>8. \A p, q \in 1..Len(tails.retired) :
         /\ tails.retired[p].gen = tails.retired[q].gen
         /\ tails.retired[p].gen \in 1..spawned /\ tails.retired[p].gen # child
  BY DEF TailsOK, OneGeneration
<1>9. \A p \in 1..Len(tails.retired) : tails.retired[p].gen # c
  BY <1>8
<1>10. OneGeneration(WithLine(l).retired, sp)
  BY <1>3, <1>8 DEF OneGeneration
<1>11. Len(tails.current) + 1 + Len(tails.retired) <= WriteQueueLimit
  BY <1>1, OneMore DEF WriteHasRoom, Queued
<1> QED
  BY <1>1, <1>2, <1>3, <1>6, <1>7, <1>9, <1>10, <1>11 DEF TailsOK, Tails

\* A line is handed to the child.
LEMMA LineStarted ==
    ASSUME TailsOK(tails, child, blocked, spawned), NEW k \in Tails, tails[k] # <<>>
    PROVE  TailsOK([tails EXCEPT ![k] = <<[Head(@) EXCEPT !.started = TRUE]>> \o Tail(@)],
                   child, blocked, spawned)
<1> DEFINE x == [Head(tails[k]) EXCEPT !.started = TRUE]
           t == [tails EXCEPT ![k] = <<x>> \o Tail(@)]
<1>1. /\ tails \in [Tails -> Seq(LineType)] /\ tails[k] \in Seq(LineType)
      /\ Len(tails.current) \in Nat /\ Len(tails.retired) \in Nat
  BY DEF TailsOK, Tails
<1>2. Len(tails[k]) >= 1 /\ Head(tails[k]) = tails[k][1] /\ Head(tails[k]) \in LineType
  BY <1>1, HeadAndTail
<1>3. x \in LineType /\ x.gen = tails[k][1].gen
  BY <1>2 DEF LineType
<1> HIDE DEF x
<1>4. /\ <<x>> \o Tail(tails[k]) \in Seq(LineType)
      /\ Len(<<x>> \o Tail(tails[k])) = Len(tails[k])
      /\ (<<x>> \o Tail(tails[k]))[1] = x
      /\ \A p \in 2..Len(tails[k]) : (<<x>> \o Tail(tails[k]))[p] = tails[k][p]
  BY <1>1, <1>3, NewHead
<1>5. /\ t \in [Tails -> Seq(LineType)] /\ \A j \in Tails : Len(t[j]) = Len(tails[j])
      /\ t[k] = <<x>> \o Tail(tails[k]) /\ \A j \in Tails : j # k => t[j] = tails[j]
  BY <1>1, <1>4
<1>6. \A j \in Tails : \A p \in 1..Len(t[j]) : t[j][p].gen = tails[j][p].gen
  <2> TAKE j \in Tails
  <2> TAKE p \in 1..Len(t[j])
  <2>1. CASE j = k /\ p = 1
    BY <1>3, <1>4, <1>5, <2>1
  <2>2. CASE j = k /\ p # 1
    <3>1. p \in 2..Len(tails[k])
      BY <1>1, <1>5, <2>2
    <3> QED
      BY <1>4, <1>5, <2>2, <3>1
  <2>3. CASE j # k
    BY <1>5, <2>3
  <2> QED
    BY <2>1, <2>2, <2>3
<1> HIDE DEF t
<1>7. ASSUME NEW j \in Tails, OneGeneration(tails[j], spawned)
      PROVE  OneGeneration(t[j], spawned)
  <2> SUFFICES ASSUME NEW p \in 1..Len(t[j]), NEW q \in 1..Len(t[j])
               PROVE  t[j][p].gen = t[j][q].gen /\ t[j][p].gen \in 1..spawned
    BY DEF OneGeneration
  <2>1. p \in 1..Len(tails[j]) /\ q \in 1..Len(tails[j])
    BY <1>5
  <2> QED
    BY <1>6, <1>7, <2>1 DEF OneGeneration
<1>8. OneGeneration(t.current, spawned) /\ OneGeneration(t.retired, spawned)
  BY <1>7 DEF TailsOK, Tails
<1>9. TailsOK(t, child, blocked, spawned)
  BY <1>5, <1>6, <1>8 DEF TailsOK, Tails
<1> QED
  BY <1>9 DEF x, t

-----------------------------------------------------------------------------
(* The ends of calls and children *)

\* The types of what is in the state, for the provers.
LEMMA Typed ==
    ASSUME TransportTypeOK
    PROVE  /\ \A i \in Ids : route[i] \in [stage : Routes, use : Nat]
           /\ child \in Nat /\ spawned \in Nat /\ child \in 0..MaxChildren /\ spawned \in 0..MaxChildren
           /\ probes \in 0..2
           /\ blocked \in BOOLEAN /\ tombstoneTimer \in BOOLEAN
           /\ quarantined \in BOOLEAN /\ closed \in BOOLEAN
           /\ tails.current \in Seq(LineType) /\ tails.retired \in Seq(LineType)
           /\ Len(tails.current) \in Nat /\ Len(tails.retired) \in Nat
           /\ Len(slots) \in Nat /\ \A n \in 1..Len(slots) : slots[n] \in Caller
<1>1. \A x \in {blocked, tombstoneTimer, quarantined, closed} : x \in BOOLEAN
  BY DEF TransportTypeOK
<1>2. tails.current \in Seq(LineType) /\ tails.retired \in Seq(LineType)
  BY DEF TransportTypeOK
<1>3. child \in Nat /\ spawned \in Nat
  BY Limits DEF TransportTypeOK
<1> QED
  BY <1>1, <1>2, <1>3 DEF TransportTypeOK

\* The end of a child: terminate and handleProcessFailure.
LEMMA TerminatedKeeps ==
    ASSUME TransportInv, NEW t, TailsOK(t, child, blocked, spawned),
           blocked => Len(t.current) + Len(t.retired) > 0,
           NEW state \in {"unknown", "blocked"}, TerminatedTo(state, t),
           closed' \in BOOLEAN, unknown' \in 0..MaxUnknown
    PROVE  TransportInv'
<1> DEFINE r == RetiredTails(t)
<1> USE Limits
<1>1. /\ route' = [i \in Ids |-> [route[i] EXCEPT !.stage = "idle"]]
      /\ waiting' = {} /\ active' = {} /\ slots' = <<>>
      /\ child' = NoChild /\ handshake' = state /\ probes' = 0 /\ owed' = {}
      /\ tombstones' = {} /\ tombstoneTimer' = FALSE /\ quarantined' = FALSE
      /\ tails' = r.tails /\ blocked' = r.blocked /\ spawned' = spawned
  BY DEF TerminatedTo
<1>2. /\ TailsOK(r.tails, NoChild, r.blocked, spawned)
      /\ r.blocked => Len(r.tails.current) + Len(r.tails.retired) > 0
      /\ r.blocked \in BOOLEAN
  <2>1. child \in Nat /\ blocked \in BOOLEAN
    BY Typed DEF TransportInv
  <2> QED
    BY <2>1, RetiredOK DEF RetiredTails
<1> HIDE DEF r
<1>3. \A i \in Ids : route'[i].stage = "idle" /\ route'[i].use \in Nat
  BY <1>1, Typed DEF TransportInv
<1>4. route' \in [Ids -> [stage : Routes, use : Nat]]
  <2>1. \A i \in Ids : [route[i] EXCEPT !.stage = "idle"] \in [stage : Routes, use : Nat]
    BY Typed DEF TransportInv, Routes
  <2> QED
    BY <1>1, <2>1
<1>5. TransportTypeOK'
  <2>1. {blocked', tombstoneTimer', quarantined', closed'} \subseteq BOOLEAN
    BY <1>1, <1>2
  <2>2. tails' \in [{"current", "retired"} -> Seq(LineType)]
    BY <1>1, <1>2 DEF TailsOK
  <2>3. child' \in 0..MaxChildren /\ spawned' \in 0..MaxChildren /\ probes' \in 0..2
    BY <1>1, Typed DEF TransportInv
  <2> QED
    BY <1>1, <1>4, <2>1, <2>2, <2>3 DEF TransportTypeOK
<1>6. CountInv'
  <2>1. waiting' \cup active' \subseteq waiting \cup active /\ waiting' \cup active' \subseteq {Control}
    BY <1>1
  <2> QED
    BY <2>1, Fewer DEF TransportInv
<1>7. PlaceInv'
  BY <1>1, <1>3 DEF PlaceInv, Pending
<1>8. StageInv'
  BY <1>1, <1>3, Typed DEF StageInv, Pending, Idle, TransportInv
<1>9. SlotsInv'
  BY <1>1 DEF SlotsInv
<1>10. WriteInv'
  BY <1>1, <1>2 DEF WriteInv, Queued
<1> QED
  BY <1>5, <1>6, <1>7, <1>8, <1>9, <1>10 DEF TransportInv

\* The end of a child while its lines are as they are, or less the one that failed.
LEMMA TerminatedShrunk ==
    ASSUME TransportInv, NEW t, Shrunk(t), t = tails \/ child # NoChild,
           NEW state \in {"unknown", "blocked"}, TerminatedTo(state, t),
           closed' \in BOOLEAN, unknown' \in 0..MaxUnknown
    PROVE  TransportInv'
<1>1. TailsOK(t, child, blocked, spawned)
  BY ShrunkTails DEF TransportInv, WriteInv
<1>2. blocked => t = tails
  BY DEF TransportInv, WriteInv, TailsOK
<1>3. blocked => Len(t.current) + Len(t.retired) > 0
  BY <1>2 DEF TransportInv, WriteInv, Queued
<1> QED
  BY <1>1, <1>3, TerminatedKeeps

\* RemoveAt closes the gap it leaves.
LEMMA RemoveAtClosesGap ==
    ASSUME NEW T, NEW s \in Seq(T), NEW i \in 1 .. Len(s)
    PROVE  /\ RemoveAt(s, i) \in Seq(T)
           /\ Len(RemoveAt(s, i)) = Len(s) - 1
           /\ \A j \in 1 .. Len(s) - 1 :
                 RemoveAt(s, i)[j] = s[IF j < i THEN j ELSE j + 1]
<1> DEFINE left == SubSeq(s, 1, i - 1)
           right == SubSeq(s, i + 1, Len(s))
<1>1. Len(s) \in Nat /\ i \in Nat /\ i >= 1 /\ i <= Len(s)
  BY LenProperties
<1>2. /\ left \in Seq(T) /\ Len(left) = i - 1
      /\ \A j \in 1 .. i - 1 : left[j] = s[j]
  BY <1>1, SubSeqProperties
<1>3. /\ right \in Seq(T) /\ Len(right) = Len(s) - i
      /\ \A j \in 1 .. Len(s) - i : right[j] = s[i + j]
  BY <1>1, SubSeqProperties
<1>4. RemoveAt(s, i) = left \o right
  BY DEF RemoveAt
<1> HIDE DEF left, right
<1>5. /\ left \o right \in Seq(T) /\ Len(left \o right) = Len(left) + Len(right)
      /\ \A j \in 1 .. Len(left) + Len(right) :
            (left \o right)[j] = IF j <= Len(left) THEN left[j] ELSE right[j - Len(left)]
  BY <1>2, <1>3, ConcatProperties
<1>6. ASSUME NEW j \in 1 .. Len(s) - 1
      PROVE  (left \o right)[j] = s[IF j < i THEN j ELSE j + 1]
  <2>1. CASE j < i
    BY <1>1, <1>2, <1>3, <1>5, <2>1
  <2>2. CASE ~(j < i)
    <3>1. j - (i - 1) \in 1 .. Len(s) - i /\ i + (j - (i - 1)) = j + 1
      BY <1>1, <2>2
    <3>2. (left \o right)[j] = right[j - (i - 1)]
      BY <1>1, <1>2, <1>3, <1>5, <2>2
    <3> QED
      BY <1>3, <2>2, <3>1, <3>2
  <2> QED
    BY <2>1, <2>2
<1> QED
  BY <1>1, <1>2, <1>3, <1>4, <1>5, <1>6

\* The queue for the single slot without one caller.
LEMMA SlotsLeft ==
    ASSUME TransportTypeOK, SlotsInv, NEW i \in Caller
    PROVE  /\ SlotsWithout(i) \in Seq(Caller)
           /\ \A n \in 1..Len(SlotsWithout(i)) :
                 SlotsWithout(i)[n] # i /\ \E m \in 1..Len(slots) : SlotsWithout(i)[n] = slots[m]
           /\ \A m, n \in 1..Len(SlotsWithout(i)) :
                 SlotsWithout(i)[m] = SlotsWithout(i)[n] => m = n
<1>1. slots \in Seq(Caller) /\ Len(slots) \in Nat /\ DOMAIN slots = 1..Len(slots)
  BY DEF TransportTypeOK
<1>2. CASE i \notin Range(slots)
  <2>1. SlotsWithout(i) = slots
    BY <1>2 DEF SlotsWithout
  <2>2. \A n \in 1..Len(slots) : slots[n] # i
    BY <1>1, <1>2 DEF Range
  <2> QED
    BY <1>1, <2>1, <2>2 DEF SlotsInv
<1>3. CASE i \in Range(slots)
  <2>1. PICK k \in 1..Len(slots) : k = (CHOOSE n \in DOMAIN slots : slots[n] = i) /\ slots[k] = i
    BY <1>1, <1>3 DEF Range
  <2> DEFINE w == RemoveAt(slots, k)
  <2>2. SlotsWithout(i) = w
    BY <1>3, <2>1 DEF SlotsWithout
  <2>3. /\ w \in Seq(Caller) /\ Len(w) = Len(slots) - 1
        /\ \A n \in 1..Len(slots) - 1 : w[n] = slots[IF n < k THEN n ELSE n + 1]
    BY <1>1, RemoveAtClosesGap
  <2> HIDE DEF w
  <2>4. \A n \in 1..Len(slots) : slots[n] = i => n = k
    BY <2>1 DEF SlotsInv
  <2> DEFINE old(n) == IF n < k THEN n ELSE n + 1
  <2>5. \A n \in 1..Len(slots) - 1 : old(n) \in 1..Len(slots) /\ old(n) # k /\ w[n] = slots[old(n)]
    BY <1>1, <2>3
  <2>6. \A m, n \in 1..Len(slots) - 1 : old(m) = old(n) => m = n
    BY <1>1
  <2> HIDE DEF old
  <2>7. \A n \in 1..Len(slots) - 1 : w[n] # i /\ \E m \in 1..Len(slots) : w[n] = slots[m]
    BY <2>4, <2>5
  <2>8. \A m, n \in 1..Len(slots) - 1 : w[m] = w[n] => m = n
    BY <2>5, <2>6 DEF SlotsInv
  <2> QED
    BY <2>2, <2>3, <2>7, <2>8
<1> QED
  BY <1>2, <1>3

\* A caller that is done leaves every table and the queue.
LEMMA CallerLeaves ==
    ASSUME TransportInv, NEW i \in Caller, Dropped(i), UNCHANGED <<child, spawned, handshake>>
    PROVE  /\ route' \in [Ids -> [stage : Routes, use : Nat]]
           /\ route'[i].stage = "idle" /\ route'[i].use = route[i].use
           /\ \A j \in Ids : j # i => route'[j] = route[j]
           /\ slots' \in Seq(Caller) /\ (slots = <<>> => slots' = <<>>)
           /\ CountInv' /\ PlaceInv' /\ SlotsInv'
<1> USE Limits
<1>1. /\ route' = [route EXCEPT ![i].stage = "idle"]
      /\ waiting' = waiting \ {i} /\ active' = active \ {i}
      /\ slots' = SlotsWithout(i)
  BY DEF Dropped, At
<1>2. /\ route'[i].stage = "idle" /\ route'[i].use = route[i].use
      /\ \A j \in Ids : j # i => route'[j] = route[j]
      /\ route' \in [Ids -> [stage : Routes, use : Nat]]
  <2>1. route \in [Ids -> [stage : Routes, use : Nat]] /\ i \in Ids
    BY DEF TransportInv, TransportTypeOK
  <2> QED
    BY <1>1, <2>1 DEF Routes
<1>3. /\ slots' \in Seq(Caller)
      /\ \A n \in 1..Len(slots') : slots'[n] # i /\ \E m \in 1..Len(slots) : slots'[n] = slots[m]
      /\ \A m, n \in 1..Len(slots') : slots'[m] = slots'[n] => m = n
  <2> DEFINE w == SlotsWithout(i)
  <2>1. TransportTypeOK /\ SlotsInv
    BY DEF TransportInv
  <2>2. /\ w \in Seq(Caller)
        /\ \A n \in 1..Len(w) : w[n] # i /\ \E m \in 1..Len(slots) : w[n] = slots[m]
        /\ \A m, n \in 1..Len(w) : w[m] = w[n] => m = n
    BY <2>1, SlotsLeft
  <2>3. slots' = w
    BY <1>1
  <2> HIDE DEF w
  <2> QED
    BY <2>2, <2>3
<1>4. CountInv'
  <2>1. waiting' \cup active' \subseteq waiting \cup active
    BY <1>1
  <2> QED
    BY <2>1, Fewer DEF TransportInv
<1>5. PlaceInv'
  BY <1>1, <1>2 DEF PlaceInv, Pending, TransportInv
<1>6. SlotsInv'
  <2>1. ASSUME NEW n \in 1..Len(slots')
        PROVE  route'[slots'[n]].stage \in {"slot", "pending"}
    <3>1. PICK m \in 1..Len(slots) : slots'[n] = slots[m] /\ slots'[n] # i
      BY <1>3
    <3>2. slots[m] \in Ids /\ route[slots[m]].stage \in {"slot", "pending"}
      BY Typed DEF SlotsInv, TransportInv
    <3> QED
      BY <1>2, <3>1, <3>2
  <2> QED
    BY <1>3, <2>1 DEF SlotsInv
<1>7. slots = <<>> => slots' = <<>>
  <2>1. slots = <<>> => ~\E m \in 1..Len(slots) : TRUE
    BY EmptySeq
  <2>2. Len(slots') = 0 => slots' = <<>>
    BY <1>3, EmptySeq
  <2>3. Len(slots') \in Nat
    BY <1>3
  <2> QED
    BY <1>3, <2>1, <2>2, <2>3
<1> QED
  BY <1>2, <1>3, <1>4, <1>5, <1>6, <1>7

\* The end of a call that is not in the tables of pending ones.
LEMMA DroppedKeeps ==
    ASSUME TransportInv, NEW i \in Caller, Dropped(i),
           UNCHANGED <<guards, connection, tails, blocked, closed, unknown>>
    PROVE  TransportInv'
<1> USE Limits DEF guards, connection
<1>1. /\ route' \in [Ids -> [stage : Routes, use : Nat]]
      /\ route'[i].stage = "idle"
      /\ \A j \in Ids : j # i => route'[j] = route[j]
      /\ slots' \in Seq(Caller) /\ (slots = <<>> => slots' = <<>>)
      /\ CountInv' /\ PlaceInv' /\ SlotsInv'
  BY CallerLeaves
<1>2. TransportTypeOK'
  BY <1>1 DEF TransportInv, TransportTypeOK, Dropped
<1>3. StageInv'
  BY <1>1 DEF StageInv, Pending, Idle, TransportInv
<1>4. WriteInv'
  BY DEF WriteInv, Queued, TransportInv
<1> QED
  BY <1>1, <1>2, <1>3, <1>4 DEF TransportInv

\* A caller is pending only while there is a child, and with a child no child is
\* refused.
LEMMA PendingHasChild ==
    ASSUME TransportInv
    PROVE  /\ \A i \in Ids : Pending(i) => child # NoChild
           /\ \A i \in Caller : Pending(i) => i \notin waiting
           /\ quarantined \/ tombstoneTimer \/ owed # {} => child # NoChild
           /\ child # NoChild => ~blocked
<1>1. ASSUME NEW i \in Ids, Pending(i) PROVE child # NoChild
  <2>1. CASE i = Control
    BY <1>1, <2>1 DEF TransportInv, StageInv, Idle, Pending
  <2>2. CASE i \in Caller
    BY <1>1, <2>2 DEF TransportInv, StageInv, Pending
  <2> QED
    BY <2>1, <2>2 DEF Ids
<1> QED
  BY <1>1 DEF TransportInv, StageInv, PlaceInv, WriteInv, TailsOK, Pending

\* The end of a pending call: clearResponse and clearStream.
LEMMA FinishedKeeps ==
    ASSUME TransportInv, NEW i \in Caller, Pending(i), NEW tombstone \in BOOLEAN,
           NEW t, Shrunk(t), NEW answered \in SUBSET owed, Finished(i, tombstone, t, answered),
           closed' \in BOOLEAN, unknown' \in 0..MaxUnknown
    PROVE  TransportInv'
<1> USE Limits
<1>1. child # NoChild /\ blocked = FALSE /\ i \notin waiting
  BY PendingHasChild, Typed DEF TransportInv
<1>2. CASE Terminated(t)
  BY <1>1, <1>2, TerminatedShrunk DEF Terminated
<1>3. CASE ~(TombstonesFull(i, tombstone) \/ (quarantined /\ \A j \in Ids \ {i} : Idle(j)))
  <2>1. /\ route' = At(i, "idle") /\ slots' = SlotsWithout(i)
        /\ Released(i, tombstone)
        /\ tails' = t /\ blocked' = Unblocked(t)
        /\ owed' = answered
        /\ UNCHANGED <<waiting, child, spawned, handshake, probes, quarantined>>
    BY <1>3 DEF Finished
  <2>2. Dropped(i)
    BY <1>1, <2>1 DEF Dropped, Released
  <2>3. /\ route' \in [Ids -> [stage : Routes, use : Nat]]
        /\ route'[i].stage = "idle"
        /\ \A j \in Ids : j # i => route'[j] = route[j]
        /\ slots' \in Seq(Caller) /\ (slots = <<>> => slots' = <<>>)
        /\ CountInv' /\ PlaceInv' /\ SlotsInv'
    BY <2>1, <2>2, CallerLeaves
  <2>4. blocked' = FALSE /\ TailsOK(t, child, blocked, spawned)
    BY <1>1, <2>1, ShrunkTails DEF Unblocked, TransportInv, WriteInv
  <2>5. WriteInv'
    BY <1>1, <2>1, <2>4 DEF WriteInv
  <2>6. tombstones' \subseteq [id : Ids, use : Nat] /\ tombstoneTimer' \in BOOLEAN
    <3>1. Call(i) \in [id : Ids, use : Nat]
      BY Typed DEF Call, TransportInv
    <3> QED
      BY <2>1, <3>1, Typed DEF Released, TombstonesWith, TransportInv, TransportTypeOK
  <2>7. TransportTypeOK'
    <3>1. {blocked', tombstoneTimer', quarantined', closed'} \subseteq BOOLEAN
      BY <2>1, <2>4, <2>6, Typed DEF TransportInv
    <3>2. tails' \in [{"current", "retired"} -> Seq(LineType)]
      BY <2>1, <2>4 DEF TailsOK
    <3>3. waiting' \subseteq Caller /\ active' \subseteq Ids /\ owed' \subseteq [id : Ids, use : Nat]
      BY <2>1 DEF Released, TransportInv, TransportTypeOK
    <3> QED
      BY <2>1, <2>3, <2>6, <3>1, <3>2, <3>3 DEF TransportInv, TransportTypeOK
  <2>8. StageInv'
    BY <1>1, <2>1, <2>3 DEF StageInv, Pending, Idle, TransportInv
  <2> QED
    BY <2>3, <2>5, <2>7, <2>8 DEF TransportInv
<1> QED
  BY <1>2, <1>3 DEF Finished

-----------------------------------------------------------------------------
(* The steps of callers and of the handshake *)

\* Steps that leave the calls, the child and the lines as they are.
LEMMA GuardsKeep ==
    ASSUME TransportInv,
           UNCHANGED <<calls, child, spawned, handshake, probes, tails, blocked>>,
           child # NoChild \/ UNCHANGED <<guards, owed>>,
           tombstones' \subseteq [id : Ids, use : Nat], tombstoneTimer' \in BOOLEAN,
           quarantined' \in BOOLEAN, owed' \subseteq [id : Ids, use : Nat],
           closed' \in BOOLEAN, unknown' \in 0..MaxUnknown
    PROVE  TransportInv'
<1> USE DEF calls, guards
<1>1. TransportTypeOK'
  <2>1. {blocked', tombstoneTimer', quarantined', closed'} \subseteq BOOLEAN
    BY Typed DEF TransportInv
  <2> QED
    BY <2>1 DEF TransportInv, TransportTypeOK
<1>2. CountInv'
  BY Fewer DEF TransportInv
<1>3. PlaceInv' /\ SlotsInv'
  BY DEF PlaceInv, SlotsInv, Pending, TransportInv
<1>4. StageInv'
  BY DEF StageInv, Pending, Idle, TransportInv
<1>5. WriteInv'
  BY DEF WriteInv, Queued, TransportInv
<1> QED
  BY <1>1, <1>2, <1>3, <1>4, <1>5 DEF TransportInv

\* request and stream.
LEMMA RequestKeeps == ASSUME TransportInv, NEW i \in Caller, Request(i) PROVE TransportInv'
<1> USE Limits
<1>1. /\ route' = [route EXCEPT ![i] = [stage |-> "handshake", use |-> route[i].use + 1]]
      /\ waiting' = waiting \cup {i}
      /\ i \notin waiting \cup active /\ Load < CallerLimit
      /\ child # NoChild \/ spawned < MaxChildren
      /\ UNCHANGED <<active, slots, guards, connection, tails, blocked, closed, unknown>>
  BY DEF Request, Usable
<1>2. /\ route'[i].stage = "handshake"
      /\ \A j \in Ids : j # i => route'[j] = route[j]
      /\ route' \in [Ids -> [stage : Routes, use : Nat]]
  <2>1. [stage |-> "handshake", use |-> route[i].use + 1] \in [stage : Routes, use : Nat]
    BY Typed DEF TransportInv, Routes
  <2> QED
    BY <1>1, <2>1 DEF TransportInv, TransportTypeOK
<1>3. TransportTypeOK'
  BY <1>1, <1>2 DEF TransportInv, TransportTypeOK, guards, connection
<1>4. Idle(i)
  BY <1>1, Typed DEF TransportInv, PlaceInv, Idle, Pending, Routes
<1>5. CountInv'
  <2> DEFINE W == waiting \cup active
  <2>1. /\ IsFiniteSet(W) /\ Cardinality(W) \in Nat
        /\ Cardinality(W) < CallerLimit /\ CallerLimit \in {MaxInFlight - 1, MaxInFlight}
    BY <1>1, Counting DEF TransportInv, CountInv, CallerLimit, Load
  <2>2. W' = W \cup {i} /\ IsFiniteSet(W') /\ Cardinality(W') = Cardinality(W) + 1
    BY <1>1, <2>1, Counting
  <2>3. Cardinality(W') <= MaxInFlight
    BY <2>1, <2>2
  <2>4. ASSUME handshake = "unknown" PROVE Cardinality(W' \ {Control}) < MaxInFlight
    <3>1. CASE Control \in active
      <4>1. IsFiniteSet(W' \ {Control}) /\ Control \in W' /\ Cardinality(W' \ {Control}) \in Nat
        BY <1>1, <2>2, <3>1, Counting
      <4>2. (W' \ {Control}) \cup {Control} = W'
        BY <4>1
      <4>3. Cardinality(W') = Cardinality(W' \ {Control}) + 1
        BY <4>1, <4>2, Counting
      <4> QED
        BY <2>2, <2>3, <4>1, <4>3
    <3>2. CASE Control \notin active
      <4>1. CallerLimit = MaxInFlight - 1
        BY <2>4, <3>2 DEF CallerLimit
      <4>2. Cardinality(W' \ {Control}) <= Cardinality(W') /\ Cardinality(W' \ {Control}) \in Nat
        BY <2>2, Counting
      <4> QED
        BY <2>1, <2>2, <4>1, <4>2
    <3> QED
      BY <3>1, <3>2
  <2> QED
    BY <1>1, <2>2, <2>3, <2>4 DEF CountInv, Load, HelloHasRoom, connection
<1>6. PlaceInv'
  BY <1>1, <1>2, <1>4 DEF PlaceInv, Pending, Idle, TransportInv
<1>7. SlotsInv'
  <2>1. \A n \in 1..Len(slots) : slots[n] # i /\ slots[n] \in Ids
    BY <1>4, Typed DEF SlotsInv, TransportInv, Idle
  <2> QED
    BY <1>1, <1>2, <2>1 DEF SlotsInv, TransportInv
<1>8. StageInv'
  BY <1>1, <1>2 DEF StageInv, Pending, Idle, TransportInv, guards, connection
<1>9. WriteInv'
  <2>1. UNCHANGED <<tails, child, blocked, spawned>>
    BY <1>1 DEF connection
  <2> QED
    BY <2>1 DEF WriteInv, Queued, TransportInv
<1> QED
  BY <1>3, <1>5, <1>6, <1>7, <1>8, <1>9 DEF TransportInv

\* The next generation's child, or the one there is.
NextChild(c) ==
    \/ c = child /\ child # NoChild /\ spawned' = spawned
    \/ child = NoChild /\ ~blocked /\ spawned < MaxChildren /\ c = spawned + 1 /\ spawned' = c

\* The lines there are when a child is started.
LEMMA ChildAdded ==
    ASSUME TransportInv, NEW c, NextChild(c)
    PROVE  TailsOK(tails, c, FALSE, spawned') /\ c \in 1..spawned' /\ c \in 1..MaxChildren
           /\ blocked = FALSE
<1> USE Limits
<1>1. /\ child \in Nat /\ spawned \in Nat /\ child <= spawned /\ blocked \in BOOLEAN
      /\ spawned <= MaxChildren
      /\ Len(tails.current) \in Nat /\ Len(tails.retired) \in Nat
  BY Typed DEF TransportInv, StageInv
<1>2. TailsOK(tails, child, blocked, spawned)
  BY DEF TransportInv, WriteInv
<1>3. CASE c = child /\ child # NoChild /\ spawned' = spawned
  <2>1. blocked = FALSE
    BY <1>1, <1>3, PendingHasChild
  <2>2. TailsOK(tails, c, FALSE, spawned')
    BY <1>2, <1>3, <2>1 DEF TailsOK
  <2>3. child \in 1..spawned /\ child \in 1..MaxChildren
    BY <1>1, <1>3
  <2> QED
    BY <1>3, <2>1, <2>2, <2>3
<1>4. CASE child = NoChild /\ ~blocked /\ spawned < MaxChildren /\ c = spawned + 1 /\ spawned' = c
  <2>1. \A p \in 1..Len(tails.current) : tails.current[p].gen = NoChild
    BY <1>2, <1>4 DEF TailsOK
  <2>2. \A p \in 1..Len(tails.current) : tails.current[p].gen # NoChild
    BY <1>1, <1>2 DEF TailsOK, OneGeneration
  <2>3. Len(tails.current) = 0
    BY <1>1, <2>1, <2>2
  <2>4. \A p, q \in 1..Len(tails.retired) :
           /\ tails.retired[p].gen = tails.retired[q].gen
           /\ tails.retired[p].gen \in 1..spawned
    BY <1>2 DEF TailsOK, OneGeneration
  <2>5. OneGeneration(tails.current, c) /\ OneGeneration(tails.retired, c)
    BY <1>1, <1>4, <2>3, <2>4 DEF OneGeneration
  <2>6. \A p \in 1..Len(tails.retired) : tails.retired[p].gen # c
    BY <1>1, <1>4, <2>4
  <2>7. TailsOK(tails, c, FALSE, c)
    BY <1>2, <2>3, <2>5, <2>6 DEF TailsOK
  <2>8. TailsOK(tails, c, FALSE, spawned')
    BY <1>4, <2>7
  <2>9. c \in 1..spawned' /\ c \in 1..MaxChildren /\ blocked = FALSE
    BY <1>1, <1>4
  <2> QED
    BY <2>8, <2>9
<1> QED
  BY <1>3, <1>4 DEF NextChild

\* A hello or a legacy probe.
LEMMA HelloSentKeeps ==
    ASSUME TransportInv, handshake = "unknown", NEW c, NextChild(c), child' = c,
           NEW n \in 0..2, HelloSent(c, n), owed' \subseteq owed,
           UNCHANGED <<guards, handshake, blocked, closed, unknown>>
    PROVE  TransportInv'
<1> USE Limits DEF guards
<1>1. /\ TailsOK(tails, c, FALSE, spawned') /\ c \in 1..spawned' /\ c \in 1..MaxChildren
      /\ blocked = FALSE /\ spawned' \in 0..MaxChildren /\ spawned' \in Nat
  <2>1. spawned' \in 0..MaxChildren
    BY Typed DEF TransportInv, NextChild
  <2>2. /\ TailsOK(tails, c, FALSE, spawned') /\ c \in 1..spawned' /\ c \in 1..MaxChildren
        /\ blocked = FALSE
    BY ChildAdded
  <2>3. spawned' \in Nat
    BY <2>1
  <2> QED
    BY <2>1, <2>2, <2>3
<1>2. /\ slots = <<>> /\ \A i \in Caller : route[i].stage \in {"idle", "handshake"}
      /\ active \subseteq {Control} /\ Control \notin waiting
  BY DEF TransportInv, StageInv, PlaceInv, Pending, Ids
<1> DEFINE use == route[Control].use + 1
           hello == [id |-> Control, use |-> use, gen |-> c, started |-> FALSE]
           W == waiting \cup active
<1>3. use \in Nat /\ hello \in LineType
  BY <1>1, Typed DEF TransportInv, LineType
<1>4. CASE /\ Cardinality(W \ {Control}) < MaxInFlight /\ WriteHasRoom
           /\ route' = [route EXCEPT ![Control] = [stage |-> "pending", use |-> use]]
           /\ active' = active \cup {Control}
           /\ tails' = WithLine(hello) /\ probes' = n
           /\ UNCHANGED <<waiting, slots>>
  <2>1. /\ route' \in [Ids -> [stage : Routes, use : Nat]]
        /\ route'[Control].stage = "pending"
        /\ \A i \in Caller : route'[i] = route[i]
    <3>1. [stage |-> "pending", use |-> use] \in [stage : Routes, use : Nat]
      BY <1>3 DEF Routes
    <3> QED
      BY <1>4, <3>1 DEF TransportInv, TransportTypeOK
  <2>2. TailsOK(tails', c, FALSE, spawned')
    <3>1. \/ c = child /\ spawned' = spawned
          \/ child = NoChild /\ spawned \in Nat /\ spawned' = spawned + 1 /\ c = spawned'
      BY Typed DEF NextChild, TransportInv
    <3>2. TailsOK(tails, child, blocked, spawned) /\ hello.gen = c /\ c # NoChild
      BY <1>1 DEF TransportInv, WriteInv
    <3> HIDE DEF hello
    <3>3. TailsOK(WithLine(hello), c, FALSE, spawned')
      BY <1>1, <1>3, <1>4, <3>1, <3>2, LineAdded
    <3> QED
      BY <1>4, <3>3
  <2>3. TransportTypeOK'
    <3>1. tails' \in [{"current", "retired"} -> Seq(LineType)]
      BY <2>2 DEF TailsOK
    <3>2. {blocked', tombstoneTimer', quarantined', closed'} \subseteq BOOLEAN
      BY Typed DEF TransportInv
    <3>3. child' \in 0..MaxChildren /\ probes' \in 0..2
      BY <1>1, <1>4
    <3> QED
      BY <1>1, <1>4, <2>1, <3>1, <3>2, <3>3 DEF TransportInv, TransportTypeOK
  <2>4. CountInv'
    <3> DEFINE U == W \ {Control}
    <3>1. IsFiniteSet(U) /\ Cardinality(U) \in Nat /\ Cardinality(U) < MaxInFlight /\ Control \notin U
      BY <1>4, Counting DEF TransportInv, CountInv
    <3>2. waiting' \cup active' = U \cup {Control} /\ (waiting' \cup active') \ {Control} = U
      BY <1>4
    <3> HIDE DEF U
    <3>3. IsFiniteSet(U \cup {Control}) /\ Cardinality(U \cup {Control}) = Cardinality(U) + 1
      BY <3>1, Counting
    <3> QED
      BY <3>1, <3>2, <3>3 DEF CountInv, Load, HelloHasRoom
  <2>5. PlaceInv'
    <3>1. waiting' = {i \in Caller : \/ route'[i].stage = "handshake"
                                     \/ route'[i].stage = "slot" /\ i \in Streams}
      BY <1>4, <2>1 DEF TransportInv, PlaceInv
    <3>2. active' = {Control}
      BY <1>2, <1>4
    <3>3. \A i \in Ids : i \in {Control} <=> \/ route'[i].stage = "pending"
                                             \/ route'[i].stage = "slot" /\ i \notin Streams
      BY <1>2, <2>1 DEF Ids
    <3> QED
      BY <3>1, <3>2, <3>3 DEF PlaceInv, Pending
  <2>6. StageInv'
    BY <1>1, <1>2, <1>4, <2>1 DEF StageInv, Pending, Idle
  <2>7. SlotsInv'
    BY <1>2, <1>4 DEF SlotsInv
  <2>8. WriteInv'
    BY <1>1, <2>2 DEF WriteInv
  <2> QED
    BY <2>3, <2>4, <2>5, <2>6, <2>7, <2>8 DEF TransportInv
<1>5. CASE /\ route' = [i \in Ids |-> [route[i] EXCEPT !.stage = "idle"]]
           /\ waiting' = {} /\ active' = active \ {Control} /\ probes' = 0
           /\ UNCHANGED <<slots, tails>>
  <2>1. /\ route' \in [Ids -> [stage : Routes, use : Nat]]
        /\ \A i \in Ids : route'[i].stage = "idle"
    <3>1. \A i \in Ids : [route[i] EXCEPT !.stage = "idle"] \in [stage : Routes, use : Nat]
      BY Typed DEF TransportInv, Routes
    <3>2. \A i \in Ids : [route[i] EXCEPT !.stage = "idle"].stage = "idle"
      BY Typed DEF TransportInv
    <3> QED
      BY <1>5, <3>1, <3>2
  <2>2. active' = {}
    BY <1>2, <1>5
  <2>3. TransportTypeOK'
    <3>1. {blocked', tombstoneTimer', quarantined', closed'} \subseteq BOOLEAN
      BY Typed DEF TransportInv
    <3>2. child' \in 0..MaxChildren /\ probes' \in 0..2
      BY <1>1, <1>5
    <3> QED
      BY <1>1, <1>5, <2>1, <2>2, <3>1, <3>2 DEF TransportInv, TransportTypeOK
  <2>4. CountInv'
    BY <1>5, <2>2, Fewer DEF TransportInv
  <2>5. PlaceInv'
    BY <1>5, <2>1, <2>2 DEF PlaceInv, Pending
  <2>6. StageInv'
    BY <1>1, <1>2, <1>5, <2>1 DEF StageInv, Pending, Idle
  <2>7. SlotsInv'
    BY <1>2, <1>5 DEF SlotsInv
  <2>8. WriteInv'
    BY <1>1, <1>5 DEF WriteInv
  <2> QED
    BY <2>3, <2>4, <2>5, <2>6, <2>7, <2>8 DEF TransportInv
<1> QED
  BY <1>4, <1>5 DEF HelloSent

\* ensureHandshake with no handshake under way.
LEMMA NegotiateKeeps == ASSUME TransportInv, NEW i \in Caller, Negotiate(i) PROVE TransportInv'
<1> USE Limits DEF Negotiate
<1>1. CASE (blocked /\ child = NoChild) \/ (quarantined /\ child # NoChild)
  BY <1>1, DroppedKeeps
<1>2. CASE ~((blocked /\ child = NoChild) \/ (quarantined /\ child # NoChild))
  <2> DEFINE c == IF child = NoChild THEN spawned + 1 ELSE child
  <2>1. /\ HelloSent(c, 0) /\ child' = c
        /\ spawned' = IF child = NoChild THEN c ELSE spawned
        /\ UNCHANGED <<guards, handshake, owed, blocked, closed, unknown>>
    BY <1>2
  <2>2. child = NoChild => spawned < MaxChildren
    BY DEF TransportInv, StageInv, Idle
  <2>3. NextChild(c)
    BY <1>2, <2>1, <2>2 DEF NextChild
  <2> HIDE DEF c
  <2> QED
    BY <2>1, <2>3, HelloSentKeeps
<1> QED
  BY <1>1, <1>2

\* ensureHandshake once an earlier hello was rejected.
LEMMA BlockedKeeps == ASSUME TransportInv, NEW i \in Caller, Blocked(i) PROVE TransportInv'
BY DroppedKeeps DEF Blocked

\* The answer to a hello or to a legacy probe.
LEMMA HelloAnsweredKeeps ==
    ASSUME TransportInv, NEW mode \in Modes, HelloAnswered(mode) PROVE TransportInv'
<1> USE Limits DEF guards
<1> DEFINE rest == owed \ {Call(Control)}
<1>1. Pending(Control) /\ rest \subseteq owed /\ UNCHANGED <<closed, unknown>>
  BY DEF HelloAnswered
<1>2. /\ child # NoChild /\ handshake = "unknown" /\ slots = <<>>
      /\ \A i \in Caller : route[i].stage \in {"idle", "handshake"}
      /\ active = {Control}
  <2>1. child # NoChild
    BY <1>1, PendingHasChild
  <2>2. /\ handshake = "unknown" /\ slots = <<>>
        /\ \A i \in Caller : route[i].stage \in {"idle", "handshake"}
    BY <1>1 DEF TransportInv, StageInv
  <2>3. active = {Control}
    BY <1>1, <2>2 DEF TransportInv, PlaceInv, Pending, Ids
  <2> QED
    BY <2>1, <2>2, <2>3
<1>3. closed' \in BOOLEAN /\ unknown' \in 0..MaxUnknown
  BY <1>1, Typed DEF TransportInv, TransportTypeOK
<1>4. CASE TerminatedTo("blocked", tails) \/ Terminated(tails)
  BY <1>3, <1>4, TerminatedShrunk DEF Terminated, Shrunk
<1>5. CASE /\ HelloSent(child, probes + 1) /\ owed' = rest /\ probes < 2
           /\ UNCHANGED <<guards, child, spawned, handshake, blocked>>
  <2>1. probes + 1 \in 0..2
    BY <1>5, Typed DEF TransportInv
  <2>2. NextChild(child)
    BY <1>2, <1>5 DEF NextChild
  <2> QED
    BY <1>1, <1>2, <1>5, <2>1, <2>2, HelloSentKeeps
<1>6. CASE /\ mode # "rejected"
           /\ handshake' = CASE mode = "multiplexed" -> "ready"
                             [] mode \in {"single", "legacy"} -> "single"
                             [] mode = "failed" -> "unknown"
           /\ route' = [i \in Ids |-> IF i = Control \/ mode = "failed"
                                      THEN [route[i] EXCEPT !.stage = "idle"] ELSE route[i]]
           /\ waiting' = IF mode = "failed" THEN {} ELSE waiting
           /\ active' = active \ {Control} /\ probes' = 0 /\ owed' = rest
           /\ UNCHANGED <<slots, guards, child, spawned, tails, blocked>>
  <2>1. /\ mode = "failed" \/ mode \in {"multiplexed", "single", "legacy"}
        /\ handshake' = IF mode = "failed" THEN "unknown"
                        ELSE IF mode = "multiplexed" THEN "ready" ELSE "single"
    BY <1>6, TransportAssumption
  <2>2. /\ \A i \in Ids : [route[i] EXCEPT !.stage = "idle"] \in [stage : Routes, use : Nat]
        /\ \A i \in Ids : [route[i] EXCEPT !.stage = "idle"].stage = "idle"
    BY Typed DEF TransportInv, Routes
  <2>3. /\ route' \in [Ids -> [stage : Routes, use : Nat]]
        /\ route'[Control].stage = "idle"
        /\ \A i \in Caller : IF mode = "failed" THEN route'[i].stage = "idle"
                                                ELSE route'[i] = route[i]
    BY <1>6, <2>2, Typed DEF TransportInv
  <2>4. active' = {}
    BY <1>2, <1>6
  <2>5. TransportTypeOK'
    <3>1. {blocked', tombstoneTimer', quarantined', closed'} \subseteq BOOLEAN
      BY <1>3, <1>6, Typed DEF TransportInv
    <3>2. handshake' \in {"unknown", "ready", "single", "blocked"}
      BY <2>1
    <3>3. waiting' \subseteq Caller /\ probes' \in 0..2
      BY <1>6 DEF TransportInv, TransportTypeOK
    <3> QED
      BY <1>1, <1>3, <1>6, <2>3, <2>4, <3>1, <3>2, <3>3 DEF TransportInv, TransportTypeOK
  <2>6. CountInv'
    BY <1>2, <1>6, <2>4, Fewer DEF TransportInv
  <2>7. PlaceInv'
    <3>1. \A i \in Ids : route'[i].stage \in {"idle", "handshake"}
      BY <1>2, <2>3 DEF Ids
    <3>2. waiting' = {i \in Caller : route'[i].stage = "handshake"}
      BY <1>2, <1>6, <2>3 DEF TransportInv, PlaceInv
    <3> QED
      BY <2>4, <3>1, <3>2 DEF PlaceInv, Pending
  <2>8. StageInv'
    BY <1>2, <1>6, <2>1, <2>3 DEF TransportInv, StageInv, Pending, Idle
  <2>9. SlotsInv'
    BY <1>2, <1>6 DEF SlotsInv
  <2>10. WriteInv'
    BY <1>6 DEF TransportInv, WriteInv, Queued
  <2> QED
    BY <2>5, <2>6, <2>7, <2>8, <2>9, <2>10 DEF TransportInv
<1>7. \/ TerminatedTo("blocked", tails) \/ Terminated(tails)
      \/ /\ HelloSent(child, probes + 1) /\ owed' = rest /\ probes < 2
         /\ UNCHANGED <<guards, child, spawned, handshake, blocked>>
      \/ /\ mode # "rejected"
         /\ handshake' = CASE mode = "multiplexed" -> "ready"
                           [] mode \in {"single", "legacy"} -> "single"
                           [] mode = "failed" -> "unknown"
         /\ route' = [i \in Ids |-> IF i = Control \/ mode = "failed"
                                    THEN [route[i] EXCEPT !.stage = "idle"] ELSE route[i]]
         /\ waiting' = IF mode = "failed" THEN {} ELSE waiting
         /\ active' = active \ {Control} /\ probes' = 0 /\ owed' = rest
         /\ UNCHANGED <<slots, guards, child, spawned, tails, blocked>>
  BY ZenonT(30) DEF HelloAnswered
<1> QED
  BY <1>4, <1>5, <1>6, <1>7

\* A caller that is served next keeps its admission and may change tables.
LEMMA CallerMoves ==
    ASSUME TransportInv, NEW i \in Caller, route[i].stage \in {"handshake", "slot"},
           handshake \in {"ready", "single"}, NEW s \in {"slot", "pending"},
           route' = At(i, s), UNCHANGED <<child, spawned, handshake, owed, guards>>,
           waiting' \cup active' = waiting \cup active, waiting' \subseteq Caller,
           \A j \in Ids : j # i => /\ j \in waiting' <=> j \in waiting
                                   /\ j \in active' <=> j \in active,
           i \in waiting' <=> (s = "slot" /\ i \in Streams),
           i \in active' <=> (s = "pending" \/ i \notin Streams)
    PROVE  /\ route' \in [Ids -> [stage : Routes, use : Nat]]
           /\ route'[i].stage = s
           /\ \A j \in Ids : j # i => route'[j] = route[j]
           /\ CountInv' /\ PlaceInv' /\ StageInv'
<1> USE Limits
<1>1. /\ route' \in [Ids -> [stage : Routes, use : Nat]]
      /\ route'[i].stage = s
      /\ \A j \in Ids : j # i => route'[j] = route[j]
  BY DEF TransportInv, TransportTypeOK, Routes, At
<1>2. CountInv'
  BY Fewer DEF TransportInv
<1>3. PlaceInv'
  <2>1. active' \subseteq Ids
    BY DEF TransportInv, PlaceInv
  <2>2. \A j \in Ids : j \in waiting' <=>
            /\ j \in Caller
            /\ route'[j].stage = "handshake" \/ (route'[j].stage = "slot" /\ j \in Streams)
    BY <1>1 DEF TransportInv, PlaceInv
  <2>3. \A j \in Ids : j \in active' <=>
            (route'[j].stage = "pending" \/ (route'[j].stage = "slot" /\ j \notin Streams))
    BY <1>1 DEF TransportInv, PlaceInv, Pending
  <2> QED
    BY <2>1, <2>2, <2>3 DEF PlaceInv, Pending
<1>4. StageInv'
  BY <1>1 DEF TransportInv, StageInv, Pending, Idle, guards
<1> QED
  BY <1>1, <1>2, <1>3, <1>4

\* The wait for the single slot.
LEMMA AwaitSlotKeeps == ASSUME TransportInv, NEW i \in Caller, AwaitSlot(i) PROVE TransportInv'
<1> USE Limits
<1>1. /\ route[i].stage = "handshake" /\ handshake = "single"
      /\ UNCHANGED <<guards, connection, tails, blocked, closed, unknown>>
  BY DEF AwaitSlot, SingleFlight
<1>2. CASE Dropped(i)
  BY <1>1, <1>2, DroppedKeeps
<1>3. CASE /\ route' = At(i, "slot") /\ slots' = Append(slots, i)
           /\ IF i \in Streams THEN UNCHANGED <<waiting, active>>
              ELSE waiting' = waiting \ {i} /\ active' = active \cup {i}
  <2>1. i \in waiting /\ i \notin active
    BY <1>1 DEF TransportInv, PlaceInv, Pending
  <2>2. /\ route' \in [Ids -> [stage : Routes, use : Nat]]
        /\ route'[i].stage = "slot"
        /\ \A j \in Ids : j # i => route'[j] = route[j]
        /\ CountInv' /\ PlaceInv' /\ StageInv'
    <3>1. waiting \subseteq Caller
      BY DEF TransportInv, TransportTypeOK
    <3>2. UNCHANGED <<child, spawned, handshake, owed, guards>>
      BY <1>1 DEF connection
    <3>3. CASE i \in Streams
      BY <1>1, <1>3, <2>1, <3>1, <3>2, <3>3, CallerMoves
    <3>4. CASE i \notin Streams
      BY <1>1, <1>3, <2>1, <3>1, <3>2, <3>4, CallerMoves
    <3> QED
      BY <3>3, <3>4
  <2>3. /\ slots' \in Seq(Caller) /\ Len(slots') = Len(slots) + 1 /\ Len(slots) \in Nat
        /\ slots'[Len(slots) + 1] = i
        /\ \A n \in 1..Len(slots) : slots'[n] = slots[n] /\ slots[n] # i /\ slots[n] \in Ids
    <3>1. slots \in Seq(Caller) /\ Len(slots) \in Nat
      BY DEF TransportInv, TransportTypeOK
    <3>2. \A n \in 1..Len(slots) : slots[n] # i /\ slots[n] \in Ids
      BY <1>1, Typed DEF TransportInv, SlotsInv
    <3> QED
      BY <1>3, <3>1, <3>2, AppendProperties
  <2>4. SlotsInv'
    <3>1. \A n \in 1..(Len(slots) + 1) : n \in 1..Len(slots) \/ n = Len(slots) + 1
      BY <2>3
    <3>2. \A n \in 1..Len(slots') : route'[slots'[n]].stage \in {"slot", "pending"}
      BY <2>2, <2>3, <3>1 DEF TransportInv, SlotsInv
    <3>3. \A m, n \in 1..Len(slots') : slots'[m] = slots'[n] => m = n
      BY <2>3, <3>1 DEF TransportInv, SlotsInv
    <3> QED
      BY <3>2, <3>3 DEF SlotsInv
  <2>5. TransportTypeOK'
    <3>1. waiting' \subseteq Caller /\ active' \subseteq Ids
      BY <1>3, <2>1 DEF TransportInv, TransportTypeOK
    <3> QED
      BY <1>1, <2>2, <2>3, <3>1 DEF TransportInv, TransportTypeOK, guards, connection
  <2>6. WriteInv'
    BY <1>1 DEF TransportInv, WriteInv, Queued, connection
  <2> QED
    BY <2>2, <2>4, <2>5, <2>6 DEF TransportInv
<1> QED
  BY <1>2, <1>3 DEF AwaitSlot

\* The turn of a caller: its request is queued to be written, or rejected.
LEMMA IssueKeeps == ASSUME TransportInv, NEW i \in Caller, Issue(i) PROVE TransportInv'
<1> USE Limits
<1>1. /\ route[i].stage \in {"handshake", "slot"}
      /\ handshake = "ready" \/ route[i].stage = "slot"
      /\ UNCHANGED <<guards, connection, blocked, closed, unknown>>
  BY DEF Issue
<1>2. CASE Dropped(i) /\ UNCHANGED tails
  BY <1>1, <1>2, DroppedKeeps
<1>3. CASE /\ WriteHasRoom
           /\ route' = At(i, "pending")
           /\ waiting' = waiting \ {i} /\ active' = active \cup {i}
           /\ tails' = WithLine(Line(i, child))
           /\ UNCHANGED slots
  <2>1. handshake \in {"ready", "single"} /\ child # NoChild /\ blocked = FALSE
    <3>1. handshake \in {"ready", "single"}
      BY <1>1 DEF TransportInv, StageInv, TransportTypeOK
    <3>2. child # NoChild
      BY <3>1 DEF TransportInv, StageInv
    <3> QED
      BY <3>1, <3>2, PendingHasChild, Typed DEF TransportInv
  <2>2. i \in waiting \cup active
    BY <1>1 DEF TransportInv, PlaceInv
  <2>3. /\ route' \in [Ids -> [stage : Routes, use : Nat]]
        /\ route'[i].stage = "pending"
        /\ \A j \in Ids : j # i => route'[j] = route[j]
        /\ CountInv' /\ PlaceInv' /\ StageInv'
    <3>1. waiting \subseteq Caller
      BY DEF TransportInv, TransportTypeOK
    <3>2. UNCHANGED <<child, spawned, handshake, owed, guards>>
      BY <1>1 DEF connection
    <3> QED
      BY <1>1, <1>3, <2>1, <2>2, <3>1, <3>2, CallerMoves
  <2>4. WriteInv'
    <3> DEFINE l == Line(i, child)
    <3>1. child \in Nat /\ spawned \in Nat /\ child <= spawned
      BY Typed DEF TransportInv, StageInv
    <3>2. l \in LineType /\ l.gen = child /\ child \in 1..spawned
      BY <2>1, <3>1, Typed DEF TransportInv, LineType, Line
    <3>3. TailsOK(tails, child, blocked, spawned)
      BY DEF TransportInv, WriteInv
    <3> HIDE DEF l
    <3>4. TailsOK(WithLine(l), child, FALSE, spawned)
      BY <1>3, <2>1, <3>1, <3>2, <3>3, LineAdded
    <3>5. tails' = WithLine(l) /\ UNCHANGED <<child, spawned, blocked>>
      BY <1>1, <1>3 DEF connection, l
    <3> QED
      BY <2>1, <3>4, <3>5 DEF WriteInv
  <2>5. SlotsInv'
    <3>1. \A n \in 1..Len(slots) : slots[n] \in Ids
      BY Typed DEF TransportInv
    <3> QED
      BY <1>3, <2>3, <3>1 DEF TransportInv, SlotsInv
  <2>6. TransportTypeOK'
    <3>1. waiting' \subseteq Caller /\ active' \subseteq Ids
      BY <1>3, <2>2 DEF TransportInv, TransportTypeOK
    <3>2. tails' \in [{"current", "retired"} -> Seq(LineType)]
      BY <2>4 DEF WriteInv, TailsOK
    <3> QED
      BY <1>1, <1>3, <2>3, <3>1, <3>2 DEF TransportInv, TransportTypeOK, guards, connection
  <2> QED
    BY <2>3, <2>4, <2>5, <2>6 DEF TransportInv
<1> QED
  BY <1>2, <1>3 DEF Issue

-----------------------------------------------------------------------------
(* The steps of writing, answering and timing out *)

\* A step that only changes the lines, to ones in order.
LEMMA LinesKeep ==
    ASSUME TransportInv, UNCHANGED <<calls, guards, child, spawned, handshake, probes>>,
           TailsOK(tails', child, blocked', spawned), blocked' \in BOOLEAN,
           blocked' => Len(tails'.current) + Len(tails'.retired) > 0,
           owed' \subseteq [id : Ids, use : Nat], child = NoChild => owed' = owed,
           UNCHANGED <<closed, unknown>>
    PROVE  TransportInv'
<1> USE DEF calls, guards
<1>1. TransportTypeOK'
  <2>1. {blocked', tombstoneTimer', quarantined', closed'} \subseteq BOOLEAN
    BY Typed DEF TransportInv
  <2>2. tails' \in [{"current", "retired"} -> Seq(LineType)]
    BY DEF TailsOK
  <2> QED
    BY <2>1, <2>2 DEF TransportInv, TransportTypeOK
<1>2. CountInv'
  BY Fewer DEF TransportInv
<1>3. PlaceInv' /\ SlotsInv'
  BY DEF PlaceInv, SlotsInv, Pending, TransportInv
<1>4. StageInv'
  BY DEF StageInv, Pending, Idle, TransportInv
<1>5. WriteInv'
  BY DEF WriteInv, Queued
<1> QED
  BY <1>1, <1>2, <1>3, <1>4, <1>5 DEF TransportInv

\* The line whose turn it is, gone.
LEMMA LineGone ==
    ASSUME TransportInv, NEW k \in Tails, tails[k] # <<>>, NEW t,
           t = [tails EXCEPT ![k] = Tail(@)]
    PROVE  /\ Shrunk(t) /\ TailsOK(t, child, Unblocked(t), spawned)
           /\ Unblocked(t) \in BOOLEAN
           /\ Unblocked(t) => Len(t.current) + Len(t.retired) > 0
<1>1. Shrunk(t)
  BY DEF Shrunk
<1>2. TailsOK(t, child, blocked, spawned)
  BY <1>1, ShrunkTails DEF TransportInv, WriteInv
<1>3. /\ t.current \in Seq(LineType) /\ t.retired \in Seq(LineType)
      /\ Len(t.current) \in Nat /\ Len(t.retired) \in Nat
  BY <1>2 DEF TailsOK
<1>4. t.current = <<>> \/ Len(t.current) > 0
  BY <1>3, EmptySeq
<1>5. t.retired = <<>> \/ Len(t.retired) > 0
  BY <1>3, EmptySeq
<1>6. Unblocked(t) => Len(t.current) + Len(t.retired) > 0
  <2> DEFINE m == Len(t.current)
             n == Len(t.retired)
  <2>1. Unblocked(t) => t.current # <<>> \/ t.retired # <<>>
    BY DEF Unblocked
  <2>2. Unblocked(t) => m > 0 \/ n > 0
    BY <1>4, <1>5, <2>1
  <2>3. m \in Nat /\ n \in Nat
    BY <1>3
  <2> HIDE DEF m, n
  <2>4. Unblocked(t) => m + n > 0
    BY <2>2, <2>3
  <2> QED
    BY <2>4 DEF m, n
<1>7. TailsOK(t, child, Unblocked(t), spawned)
  <2>1. CASE blocked /\ (t.current = <<>> /\ t.retired = <<>>)
    <3>1. \A p \in 1..Len(t.current) : t.current[p].gen = child
      <4>1. Len(t.current) = 0
        BY <2>1, EmptySeq
      <4> QED
        BY <4>1
    <3> QED
      BY <1>2, <2>1, <3>1 DEF TailsOK, Unblocked
  <2>2. CASE ~(blocked /\ (t.current = <<>> /\ t.retired = <<>>))
    <3>1. Unblocked(t) = blocked
      BY <2>2, Typed DEF Unblocked, TransportInv
    <3> QED
      BY <1>2, <3>1
  <2> QED
    BY <2>1, <2>2
<1> QED
  BY <1>1, <1>6, <1>7, Typed DEF Unblocked, TransportInv

\* A line is handed to the child.
LEMMA WriteStartKeeps ==
    ASSUME TransportInv, NEW k \in Tails, WriteStart(k) PROVE TransportInv'
<1> USE Limits
<1>1. /\ tails[k] # <<>> /\ child = Head(tails[k]).gen
      /\ tails' = [tails EXCEPT ![k] = <<[Head(@) EXCEPT !.started = TRUE]>> \o Tail(@)]
      /\ owed' = owed \cup {[id |-> Head(tails[k]).id, use |-> Head(tails[k]).use]}
      /\ UNCHANGED <<calls, guards, child, spawned, handshake, probes, blocked, closed, unknown>>
  BY DEF WriteStart, Turn, MayWrite
<1>2. TailsOK(tails, child, blocked, spawned)
  BY DEF TransportInv, WriteInv
<1>3. /\ tails[k] \in Seq(LineType) /\ Head(tails[k]) \in LineType
      /\ Head(tails[k]) = tails[k][1] /\ 1 \in 1..Len(tails[k])
  <2>1. tails[k] \in Seq(LineType)
    BY <1>2 DEF TailsOK, Tails
  <2> QED
    BY <1>1, <2>1, HeadAndTail
<1>4. child # NoChild
  <2>1. OneGeneration(tails[k], spawned)
    BY <1>2 DEF TailsOK, Tails
  <2> QED
    BY <1>1, <1>3, <2>1, Typed DEF OneGeneration, TransportInv
<1>5. blocked = FALSE
  BY <1>4, PendingHasChild, Typed DEF TransportInv
<1>6. TailsOK(tails', child, blocked', spawned)
  BY <1>1, <1>2, LineStarted
<1>7. owed' \subseteq [id : Ids, use : Nat]
  <2>1. [id |-> Head(tails[k]).id, use |-> Head(tails[k]).use] \in [id : Ids, use : Nat]
    BY <1>3 DEF LineType
  <2> QED
    BY <1>1, <2>1 DEF TransportInv, TransportTypeOK
<1> QED
  BY <1>1, <1>4, <1>5, <1>6, <1>7, LinesKeep

\* A line that failed, and its call with it.
LEMMA WriteFailedKeeps ==
    ASSUME TransportInv, NEW k \in Tails, tails[k] # <<>>, NEW tombstone \in BOOLEAN,
           WriteFailed(k, tombstone), UNCHANGED <<closed, unknown>>
    PROVE  TransportInv'
<1> USE Limits
<1> DEFINE t == [tails EXCEPT ![k] = Tail(@)]
           l == Head(tails[k])
<1>1. /\ Shrunk(t) /\ TailsOK(t, child, Unblocked(t), spawned)
      /\ Unblocked(t) \in BOOLEAN
      /\ Unblocked(t) => Len(t.current) + Len(t.retired) > 0
  BY LineGone
<1>2. l \in LineType
  <2>1. tails[k] \in Seq(LineType)
    BY DEF TransportInv, TransportTypeOK, Tails
  <2> QED
    BY <2>1, HeadAndTail
<1>3. closed' \in BOOLEAN /\ unknown' \in 0..MaxUnknown
  BY Typed DEF TransportInv, TransportTypeOK
<1>4. \/ /\ ~Routed(l) /\ tails' = t /\ blocked' = Unblocked(t)
         /\ UNCHANGED <<calls, guards, connection>>
      \/ Routed(l) /\ l.id # Control /\ Finished(l.id, tombstone, t, owed)
      \/ Routed(l) /\ l.id = Control /\ Terminated(t)
      \/ /\ Routed(l) /\ l.id = Control
         /\ route' = [i \in Ids |-> [route[i] EXCEPT !.stage = "idle"]]
         /\ waiting' = {} /\ active' = {} /\ probes' = 0
         /\ tombstones' = TombstonesWith(Control, tombstone)
         /\ tombstoneTimer' = (tombstoneTimer \/ tombstone)
         /\ tails' = t /\ blocked' = Unblocked(t)
         /\ UNCHANGED <<slots, child, spawned, handshake, quarantined, owed>>
  BY DEF WriteFailed
<1> HIDE DEF t, l
<1>5. CASE /\ tails' = t /\ blocked' = Unblocked(t)
           /\ UNCHANGED <<calls, guards, connection>>
  <2>1. owed' \subseteq [id : Ids, use : Nat]
    BY <1>5 DEF connection, TransportInv, TransportTypeOK
  <2> QED
    BY <1>1, <1>5, <2>1, LinesKeep DEF connection
<1>6. CASE Routed(l) /\ l.id # Control /\ Finished(l.id, tombstone, t, owed)
  <2>1. l.id \in Caller /\ Pending(l.id)
    BY <1>2, <1>6 DEF LineType, Ids, Routed
  <2> QED
    BY <1>1, <1>3, <1>6, <2>1, FinishedKeeps
<1>7. CASE Routed(l) /\ l.id = Control /\ Terminated(t)
  <2>1. child # NoChild
    BY <1>7, PendingHasChild DEF Routed
  <2> QED
    BY <1>1, <1>3, <1>7, <2>1, TerminatedShrunk DEF Terminated
<1>8. CASE /\ Routed(l) /\ l.id = Control
           /\ route' = [i \in Ids |-> [route[i] EXCEPT !.stage = "idle"]]
           /\ waiting' = {} /\ active' = {} /\ probes' = 0
           /\ tombstones' = TombstonesWith(Control, tombstone)
           /\ tombstoneTimer' = (tombstoneTimer \/ tombstone)
           /\ tails' = t /\ blocked' = Unblocked(t)
           /\ UNCHANGED <<slots, child, spawned, handshake, quarantined, owed>>
  <2>1. /\ child # NoChild /\ handshake = "unknown" /\ slots = <<>>
    BY <1>8, PendingHasChild DEF Routed, TransportInv, StageInv
  <2>2. /\ route' \in [Ids -> [stage : Routes, use : Nat]]
        /\ \A i \in Ids : route'[i].stage = "idle"
    <3>1. /\ \A i \in Ids : [route[i] EXCEPT !.stage = "idle"] \in [stage : Routes, use : Nat]
          /\ \A i \in Ids : [route[i] EXCEPT !.stage = "idle"].stage = "idle"
      BY Typed DEF TransportInv, Routes
    <3> QED
      BY <1>8, <3>1
  <2>3. TransportTypeOK'
    <3>1. Call(Control) \in [id : Ids, use : Nat]
      BY Typed DEF Call, TransportInv
    <3>2. tombstones' \subseteq [id : Ids, use : Nat]
      BY <1>8, <3>1 DEF TombstonesWith, TransportInv, TransportTypeOK
    <3>3. {blocked', tombstoneTimer', quarantined', closed'} \subseteq BOOLEAN
      BY <1>1, <1>3, <1>8, Typed DEF TransportInv
    <3>4. tails' \in [{"current", "retired"} -> Seq(LineType)] /\ probes' \in 0..2
      BY <1>1, <1>8 DEF TailsOK
    <3> QED
      BY <1>3, <1>8, <2>2, <3>2, <3>3, <3>4 DEF TransportInv, TransportTypeOK
  <2>4. CountInv'
    BY <1>8, Fewer DEF TransportInv
  <2>5. PlaceInv'
    BY <1>8, <2>2 DEF PlaceInv, Pending
  <2>6. StageInv'
    BY <1>8, <2>1, <2>2 DEF TransportInv, StageInv, Pending, Idle
  <2>7. SlotsInv'
    BY <1>8, <2>1 DEF SlotsInv
  <2>8. WriteInv'
    BY <1>1, <1>8 DEF WriteInv, Queued
  <2> QED
    BY <2>3, <2>4, <2>5, <2>6, <2>7, <2>8 DEF TransportInv
<1> QED
  BY <1>4, <1>5, <1>6, <1>7, <1>8

\* A line that may not be written any more, and the callback of a write.
LEMMA WritesKeep ==
    ASSUME TransportInv, NEW k \in Tails, WriteRefused(k) \/ WriteSettles(k)
    PROVE  TransportInv'
<1> DEFINE t == [tails EXCEPT ![k] = Tail(@)]
<1>1. CASE WriteRefused(k)
  BY <1>1, WriteFailedKeeps DEF WriteRefused, Turn
<1>2. CASE WriteSettles(k)
  <2>1. tails[k] # <<>> /\ UNCHANGED <<closed, unknown>>
    BY <1>2 DEF WriteSettles
  <2>2. CASE WriteFailed(k, TRUE)
    BY <2>1, <2>2, WriteFailedKeeps
  <2>3. CASE tails' = t /\ blocked' = Unblocked(t) /\ UNCHANGED <<calls, guards, connection>>
    <3>1. /\ TailsOK(t, child, Unblocked(t), spawned) /\ Unblocked(t) \in BOOLEAN
          /\ Unblocked(t) => Len(t.current) + Len(t.retired) > 0
      BY <2>1, LineGone
    <3> HIDE DEF t
    <3>2. owed' \subseteq [id : Ids, use : Nat]
      BY <2>3 DEF connection, TransportInv, TransportTypeOK
    <3> QED
      BY <2>1, <2>3, <3>1, <3>2, LinesKeep DEF connection
  <2> QED
    BY <1>2, <2>2, <2>3 DEF WriteSettles
<1> QED
  BY <1>1, <1>2

\* A child's end that no line failing is the cause of.
LEMMA EndKeeps ==
    ASSUME TransportInv, NEW state \in {"unknown", "blocked"}, TerminatedTo(state, tails),
           closed' \in BOOLEAN, unknown' \in 0..MaxUnknown
    PROVE  TransportInv'
BY TerminatedShrunk DEF Shrunk

\* discardLateOrQuarantine.
LEMMA QuarantineKeeps ==
    ASSUME TransportInv, NEW rest \in SUBSET owed, Quarantine(rest), child # NoChild,
           closed' \in BOOLEAN, unknown' \in 0..MaxUnknown
    PROVE  TransportInv'
<1>1. CASE Terminated(tails)
  BY <1>1, EndKeeps DEF Terminated
<1>2. CASE /\ quarantined' = TRUE /\ owed' = rest
           /\ UNCHANGED <<calls, tombstones, tombstoneTimer, child, spawned, handshake,
                          probes, tails, blocked>>
  <2>1. /\ tombstones' \subseteq [id : Ids, use : Nat] /\ tombstoneTimer' \in BOOLEAN
        /\ quarantined' \in BOOLEAN /\ owed' \subseteq [id : Ids, use : Nat]
    BY <1>2, Typed DEF TransportInv, TransportTypeOK
  <2> QED
    BY <1>2, <2>1, GuardsKeep
<1> QED
  BY <1>1, <1>2 DEF Quarantine

\* handleResponse, and handleEvent of a terminal event.
LEMMA AnsweredKeeps ==
    ASSUME TransportInv, NEW call \in owed, Answered(call) PROVE TransportInv'
<1> DEFINE rest == owed \ {call}
<1>1. /\ call # Call(Control) /\ rest \subseteq owed /\ child # NoChild
      /\ call \in [id : Ids, use : Nat]
      /\ closed' \in BOOLEAN /\ unknown' \in 0..MaxUnknown
  BY PendingHasChild, Typed DEF Answered, TransportInv, TransportTypeOK
<1>2. CASE Routed(call) /\ Finished(call.id, FALSE, tails, rest)
  <2>1. call.id # Control
    BY <1>1, <1>2 DEF Routed, Call
  <2>2. call.id \in Caller /\ Pending(call.id)
    BY <1>1, <1>2, <2>1 DEF Routed, Ids
  <2> HIDE DEF rest
  <2> QED
    BY <1>1, <1>2, <2>2, FinishedKeeps DEF Shrunk
<1>3. CASE LateAnswer(call, rest)
  <2>1. /\ tombstones' \subseteq [id : Ids, use : Nat] /\ tombstoneTimer' \in BOOLEAN
        /\ owed' = rest /\ quarantined' = quarantined
        /\ UNCHANGED <<calls, child, spawned, handshake, probes, tails, blocked>>
    BY <1>3 DEF LateAnswer, TransportInv, TransportTypeOK
  <2>2. quarantined' \in BOOLEAN /\ owed' \subseteq [id : Ids, use : Nat]
    BY <1>1, <2>1, Typed DEF TransportInv, TransportTypeOK
  <2> QED
    BY <1>1, <2>1, <2>2, GuardsKeep
<1>4. CASE Quarantine(rest)
  BY <1>1, <1>4, QuarantineKeeps
<1> QED
  BY <1>2, <1>3, <1>4 DEF Answered

\* A call that ends early.
LEMMA ExpiredKeeps ==
    ASSUME TransportInv, NEW i \in Ids, Pending(i), NEW fatal \in BOOLEAN,
           i = Control => fatal, Expired(i, fatal), UNCHANGED <<closed, unknown>>
    PROVE  TransportInv'
<1>1. closed' \in BOOLEAN /\ unknown' \in 0..MaxUnknown
  BY Typed DEF TransportInv, TransportTypeOK
<1>2. CASE Terminated(tails)
  BY <1>1, <1>2, EndKeeps DEF Terminated
<1>3. CASE ~fatal /\ Finished(i, TRUE, tails, owed)
  <2>1. i \in Caller
    BY <1>3 DEF Ids
  <2> QED
    BY <1>1, <1>3, <2>1, FinishedKeeps DEF Shrunk
<1> QED
  BY <1>2, <1>3 DEF Expired

\* The callers' steps keep the invariant.
LEMMA CallerKeeps ==
    ASSUME TransportInv, NEW i \in Caller,
           \/ Request(i) \/ Negotiate(i) \/ Blocked(i) \/ AwaitSlot(i)
           \/ Issue(i) \/ StreamOverflows(i) \/ Cancel(i)
    PROVE  TransportInv'
<1> USE Limits
<1>1. CASE Request(i)
  BY <1>1, RequestKeeps
<1>2. CASE Negotiate(i)
  BY <1>2, NegotiateKeeps
<1>3. CASE Blocked(i)
  BY <1>3, BlockedKeeps
<1>4. CASE AwaitSlot(i)
  BY <1>4, AwaitSlotKeeps
<1>5. CASE Issue(i)
  BY <1>5, IssueKeeps
<1>6. CASE StreamOverflows(i)
  <2>1. closed' \in BOOLEAN /\ unknown' \in 0..MaxUnknown
    BY <1>6, Typed DEF StreamOverflows, TransportInv, TransportTypeOK
  <2> QED
    BY <1>6, <2>1, FinishedKeeps DEF StreamOverflows, Shrunk
<1>7. CASE Cancel(i)
  <2>1. CASE Pending(i)
    BY <1>7, <2>1, ExpiredKeeps DEF Cancel
  <2>2. CASE ~Pending(i)
    BY <1>7, <2>2, DroppedKeeps DEF Cancel
  <2> QED
    BY <2>1, <2>2
<1> QED
  BY <1>1, <1>2, <1>3, <1>4, <1>5, <1>6, <1>7

\* TransportInv is inductive.
LEMMA TransportInvInductive ==
    ASSUME TransportInv, [TransportNext]_transportVars PROVE TransportInv'
<1> USE Limits
<1>1. ASSUME NEW i \in Caller,
             \/ Request(i) \/ Negotiate(i) \/ Blocked(i) \/ AwaitSlot(i)
             \/ Issue(i) \/ StreamOverflows(i) \/ Cancel(i)
      PROVE  TransportInv'
  BY <1>1, CallerKeeps
<1>2. ASSUME NEW i \in Ids, Timeout(i) PROVE TransportInv'
  <2>1. (i = Control \/ SingleFlight) \in BOOLEAN
    BY DEF SingleFlight
  <2> QED
    BY <1>2, <2>1, ExpiredKeeps DEF Timeout
<1>3. ASSUME NEW mode \in Modes, HelloAnswered(mode) PROVE TransportInv'
  BY <1>3, HelloAnsweredKeeps
<1>4. ASSUME NEW k \in Tails, WriteStart(k) \/ WriteRefused(k) \/ WriteSettles(k)
      PROVE  TransportInv'
  BY <1>4, WriteStartKeeps, WritesKeep
<1>5. ASSUME NEW call \in owed, Answered(call) PROVE TransportInv'
  BY <1>5, AnsweredKeeps
<1>6. CASE UnknownAnswered
  <2>1. unknown' \in 0..MaxUnknown /\ closed' \in BOOLEAN
    BY <1>6, Typed DEF UnknownAnswered, TransportInv, TransportTypeOK
  <2> QED
    BY <1>6, <2>1, QuarantineKeeps DEF UnknownAnswered
<1>7. CASE ChildEnds \/ TombstoneExpires \/ QuarantineExpires
  <2>1. Terminated(tails) /\ UNCHANGED <<closed, unknown>>
    BY <1>7 DEF ChildEnds, TombstoneExpires, QuarantineExpires
  <2>2. closed' \in BOOLEAN /\ unknown' \in 0..MaxUnknown
    BY <2>1, Typed DEF TransportInv, TransportTypeOK
  <2> QED
    BY <2>1, <2>2, EndKeeps DEF Terminated
<1>8. CASE Close
  <2>1. (IF child = NoChild THEN handshake ELSE "unknown") \in {"unknown", "blocked"}
    BY DEF TransportInv, StageInv
  <2>2. closed' \in BOOLEAN /\ unknown' \in 0..MaxUnknown
    BY <1>8 DEF Close, TransportInv, TransportTypeOK
  <2> QED
    BY <1>8, <2>1, <2>2, EndKeeps DEF Close
<1>9. CASE UNCHANGED transportVars
  <2>1. /\ UNCHANGED <<calls, guards, child, spawned, handshake, probes, owed, tails, blocked>>
        /\ UNCHANGED <<closed, unknown>>
    BY <1>9 DEF transportVars, connection
  <2>2. /\ owed \subseteq [id : Ids, use : Nat] /\ tombstones \subseteq [id : Ids, use : Nat]
        /\ tombstoneTimer \in BOOLEAN /\ quarantined \in BOOLEAN
        /\ closed \in BOOLEAN /\ unknown \in 0..MaxUnknown
    BY Typed DEF TransportInv, TransportTypeOK
  <2> QED
    BY <2>1, <2>2, GuardsKeep DEF guards
<1> QED
  BY <1>1, <1>2, <1>3, <1>4, <1>5, <1>6, <1>7, <1>8, <1>9 DEF TransportNext, Tails

\* A transport starts with no calls, no child and no lines.
LEMMA TransportInvInit == ASSUME TransportInit PROVE TransportInv
<1> USE Limits DEF TransportInit
<1>1. \A i \in Ids : route[i].stage = "idle" /\ route[i] \in [stage : Routes, use : Nat]
  BY DEF Routes
<1>2. Len(<<>>) = 0 /\ tails.current = <<>> /\ tails.retired = <<>>
      /\ tails \in [Tails -> Seq(LineType)]
  <2>1. <<>> \in Seq(LineType)
    OBVIOUS
  <2> QED
    BY <2>1, BothTails DEF Tails
<1>3. TransportTypeOK
  <2>1. route \in [Ids -> [stage : Routes, use : Nat]]
    BY <1>1
  <2>2. slots \in Seq(Caller) /\ child \in 0..MaxChildren /\ spawned \in 0..MaxChildren
        /\ unknown \in 0..MaxUnknown /\ probes \in 0..2
    OBVIOUS
  <2>3. {blocked, tombstoneTimer, quarantined, closed} \subseteq BOOLEAN
    OBVIOUS
  <2> QED
    BY <1>2, <2>1, <2>2, <2>3 DEF TransportTypeOK, Tails
<1>4. CountInv
  <2>1. waiting \cup active = {} /\ (waiting \cup active) \ {Control} = {}
    OBVIOUS
  <2> QED
    BY <2>1, FS_EmptySet DEF CountInv, Load, HelloHasRoom
<1>5. PlaceInv
  BY <1>1 DEF PlaceInv, Pending
<1>6. StageInv
  BY <1>1 DEF StageInv, Pending, Idle
<1>7. SlotsInv
  BY DEF SlotsInv
<1>8. WriteInv
  BY <1>2 DEF WriteInv, TailsOK, OneGeneration, Tails
<1> QED
  BY <1>3, <1>4, <1>5, <1>6, <1>7, <1>8 DEF TransportInv

-----------------------------------------------------------------------------
(* What the tables, the handshake and the lines promise *)

\* The tables, the child and the lines stay as the invariant says.
LEMMA Invariant == TransportSpec => []TransportInv
<1>1. TransportInit => TransportInv
  BY TransportInvInit
<1>2. TransportInv /\ [TransportNext]_transportVars => TransportInv'
  BY TransportInvInductive
<1> QED
  BY <1>1, <1>2, PTL DEF TransportSpec

\* Type correctness of the transport, for any callers and limits.
THEOREM TransportTypes == TransportSpec => []TransportTypeOK
<1>1. TransportInv => TransportTypeOK
  BY DEF TransportInv
<1> QED
  BY <1>1, Invariant, PTL

\* Every terminal, cancellation, timeout, failed write and recycle gives its place
\* back: what is charged against maxInFlight is what is alive, and never more than it.
THEOREM AdmissionsLive == TransportSpec => []AdmissionsAreLive
<1>1. TransportInv => AdmissionsAreLive
  <2> SUFFICES ASSUME TransportInv PROVE AdmissionsAreLive
    OBVIOUS
  <2>1. \A n \in 1..Len(slots) : slots[n] \in Caller /\ ~Idle(slots[n])
    BY Typed DEF TransportInv, SlotsInv, Idle
  <2>2. slots \in Seq(Caller) /\ DOMAIN slots = 1..Len(slots)
    BY DEF TransportInv, TransportTypeOK
  <2>3. Range(slots) \subseteq {i \in Caller : ~Idle(i)}
    BY <2>1, <2>2 DEF Range
  <2> QED
    BY <2>3 DEF TransportInv, CountInv, PlaceInv, AdmissionsAreLive
<1> QED
  BY <1>1, Invariant, PTL

\* Callers never take the place the next request of the handshake needs.
THEOREM HelloNotCrowdedOut == TransportSpec => []HelloHasRoom
<1>1. TransportInv => HelloHasRoom
  BY DEF TransportInv, CountInv
<1> QED
  BY <1>1, Invariant, PTL

\* The lines of a tail are of one generation at most.
LEMMA GenerationsOf ==
    ASSUME NEW s \in Seq(LineType), NEW sp, OneGeneration(s, sp)
    PROVE  \E g : \A l \in Range(s) : l.gen = g
<1>1. \A l \in Range(s) : \E p \in 1..Len(s) : l = s[p]
  BY LenProperties DEF Range
<1>2. CASE \E p \in 1..Len(s) : TRUE
  <2>1. PICK p \in 1..Len(s) : TRUE
    BY <1>2
  <2>2. \A l \in Range(s) : l.gen = s[p].gen
    BY <1>1 DEF OneGeneration
  <2> QED
    BY <2>2
<1> QED
  BY <1>1, <1>2

\* Replacing children whose stdin has not called back costs a bounded amount, however
\* many are replaced: one queue's worth of lines, of two generations; and a transport
\* that refuses to start a third has lines left to wait for.
THEOREM ReplacingIsBounded == TransportSpec => []WritesBounded
<1>1. TransportInv => WritesBounded
  <2> SUFFICES ASSUME TransportInv PROVE WritesBounded
    OBVIOUS
  <2>1. /\ tails.current \in Seq(LineType) /\ tails.retired \in Seq(LineType)
        /\ OneGeneration(tails.current, spawned) /\ OneGeneration(tails.retired, spawned)
    BY Typed DEF TransportInv, WriteInv, TailsOK
  <2>2. PICK g : \A l \in Range(tails.current) : l.gen = g
    BY <2>1, GenerationsOf
  <2>3. PICK h : \A l \in Range(tails.retired) : l.gen = h
    BY <2>1, GenerationsOf
  <2>4. {l.gen : l \in Lines} \subseteq {g} \cup {h}
    BY <2>2, <2>3 DEF Lines
  <2>5. IsFiniteSet({g}) /\ Cardinality({g}) = 1
    BY FS_Singleton
  <2>6. IsFiniteSet({g} \cup {h}) /\ Cardinality({g} \cup {h}) \in 1..2
    <3> DEFINE G == {g}
    <3>1. IsFiniteSet(G) /\ Cardinality(G) = 1
      BY <2>5
    <3> HIDE DEF G
    <3>2. IsFiniteSet(G \cup {h}) /\ Cardinality(G \cup {h}) \in 1..2
      BY <3>1, Counting
    <3> QED
      BY <3>2 DEF G
  <2>7. Cardinality({l.gen : l \in Lines}) <= 2
    <3> DEFINE G == {g} \cup {h}
               L == {l.gen : l \in Lines}
    <3>1. IsFiniteSet(G) /\ Cardinality(G) \in 1..2 /\ L \subseteq G
      BY <2>4, <2>6
    <3> HIDE DEF G, L
    <3>2. Cardinality(L) \in Nat /\ Cardinality(L) <= Cardinality(G)
      BY <3>1, Counting
    <3>3. Cardinality(L) <= 2
      BY <3>1, <3>2
    <3> QED
      BY <3>3 DEF L
  <2>8. Queued <= WriteQueueLimit
    BY DEF TransportInv, WriteInv, TailsOK, Queued
  <2>9. ASSUME blocked PROVE Lines # {} /\ child = NoChild
    <3>1. Len(tails.current) > 0 \/ Len(tails.retired) > 0
      <4> DEFINE m == Len(tails.current)
                 n == Len(tails.retired)
      <4>1. m \in Nat /\ n \in Nat
        BY Typed DEF TransportInv
      <4>2. m + n > 0
        BY <2>9 DEF TransportInv, WriteInv, Queued
      <4> HIDE DEF m, n
      <4>3. m > 0 \/ n > 0
        BY <4>1, <4>2
      <4> QED
        BY <4>3 DEF m, n
    <3>2. \A s \in Seq(LineType) : Len(s) > 0 => s[1] \in Range(s)
      BY LenProperties DEF Range
    <3>3. Lines # {}
      BY <2>1, <3>1, <3>2 DEF Lines
    <3> QED
      BY <2>9, <3>3 DEF TransportInv, WriteInv, TailsOK
  <2> QED
    BY <2>7, <2>8, <2>9 DEF WritesBounded
<1> QED
  BY <1>1, Invariant, PTL

-----------------------------------------------------------------------------
(* Late answers and queued lines *)

\* With the routes r and the owed calls o: line l is of the use its id is in, or of
\* an earlier request of the handshake's; its caller did not come back while it is queued; and it is not owed before it is
\* written.
LineFacts(l, r, o) ==
    /\ l.use <= r[l.id].use
    /\ l.id \in Caller => l.use = r[l.id].use /\ r[l.id].stage \in {"idle", "pending"}
    /\ ~l.started => [id |-> l.id, use |-> l.use] \notin o

\* No call has two lines in t.
OncePerCall(t) ==
    \A k, j \in Tails : \A p \in 1..Len(t[k]) : \A q \in 1..Len(t[j]) :
        t[k][p].id = t[j][q].id /\ t[k][p].use = t[j][q].use => k = j /\ p = q

LinesInv ==
    /\ \A k \in Tails : \A p \in 1..Len(tails[k]) : LineFacts(tails[k][p], route, owed)
    /\ OncePerCall(tails)

\* What is owed is of the use its id is in, or of an earlier request of the
\* handshake's; an id with a tombstone is not in use.
OwedInv ==
    /\ \A call \in owed : /\ call.use <= route[call.id].use
                          /\ call.id \in Caller => call.use = route[call.id].use
    /\ \A c \in tombstones : c.id \in Caller => Idle(c.id)
    /\ LateAnswersGuarded

\* The inductive invariant of what is still to be answered or written.
GuardInv == LinesInv /\ OwedInv

\* Every line of t2 is one of t1's.
From(t2, t1) ==
    \A k \in Tails : \A p \in 1..Len(t2[k]) :
        \E j \in Tails : \E q \in 1..Len(t1[j]) : t2[k][p] = t1[j][q]

\* Lines of lines.
LEMMA FromTwice == ASSUME NEW t1, NEW t2, NEW t3, From(t3, t2), From(t2, t1) PROVE From(t3, t1)
<1> SUFFICES ASSUME NEW k \in Tails, NEW p \in 1..Len(t3[k])
             PROVE  \E j \in Tails : \E q \in 1..Len(t1[j]) : t3[k][p] = t1[j][q]
  BY DEF From
<1>1. PICK j \in Tails : \E q \in 1..Len(t2[j]) : t3[k][p] = t2[j][q]
  BY DEF From
<1>2. PICK q \in 1..Len(t2[j]) : t3[k][p] = t2[j][q]
  BY <1>1
<1>3. \E i \in Tails : \E n \in 1..Len(t1[i]) : t2[j][q] = t1[i][n]
  BY DEF From
<1> QED
  BY <1>2, <1>3

\* A line that leaves its tail.
LEMMA ShrunkOnce ==
    ASSUME tails \in [Tails -> Seq(LineType)], OncePerCall(tails), NEW t, Shrunk(t)
    PROVE  OncePerCall(t) /\ From(t, tails)
<1>1. CASE t = tails
  BY <1>1 DEF From
<1>2. ASSUME NEW k \in Tails, tails[k] # <<>>, t = [tails EXCEPT ![k] = Tail(@)]
      PROVE  OncePerCall(t) /\ From(t, tails)
  <2> DEFINE was(j, p) == IF j = k THEN p + 1 ELSE p
  <2>1. /\ tails[k] \in Seq(LineType) /\ Len(tails[k]) \in Nat
        /\ Len(Tail(tails[k])) = Len(tails[k]) - 1
        /\ \A p \in 1..(Len(tails[k]) - 1) :
              p + 1 \in 1..Len(tails[k]) /\ Tail(tails[k])[p] = tails[k][p + 1]
    BY <1>2, HeadAndTail
  <2>2. /\ t[k] = Tail(tails[k])
        /\ \A j \in Tails : j # k => t[j] = tails[j]
    BY <1>2
  <2>3. \A j \in Tails : \A p \in 1..Len(t[j]) :
           was(j, p) \in 1..Len(tails[j]) /\ t[j][p] = tails[j][was(j, p)]
    BY <2>1, <2>2
  <2>4. \A j \in Tails : Len(t[j]) \in Nat
    BY <2>1, <2>2, LenProperties
  <2>5. ASSUME NEW j \in Tails, NEW i \in Tails, NEW p \in 1..Len(t[j]), NEW q \in 1..Len(t[i]),
               t[j][p].id = t[i][q].id, t[j][p].use = t[i][q].use
        PROVE  j = i /\ p = q
    <3> DEFINE m == was(j, p)
               n == was(i, q)
    <3>1. /\ m \in 1..Len(tails[j]) /\ t[j][p] = tails[j][m]
          /\ n \in 1..Len(tails[i]) /\ t[i][q] = tails[i][n]
      BY <2>3
    <3> HIDE DEF m, n
    <3>2. tails[j][m].id = tails[i][n].id /\ tails[j][m].use = tails[i][n].use
      BY <2>5, <3>1
    <3>3. j = i /\ m = n
      BY <3>1, <3>2 DEF OncePerCall
    <3>4. j = i /\ was(j, p) = was(i, q)
      BY <3>3 DEF m, n
    <3> QED
      BY <2>4, <3>4
  <2>6. OncePerCall(t)
    BY <2>5 DEF OncePerCall
  <2> HIDE DEF was
  <2> QED
    BY <2>3, <2>6 DEF From
<1> QED
  BY <1>1, <1>2 DEF Shrunk

\* The lines of a child that is gone.
LEMMA RetiredOnce ==
    ASSUME NEW t \in [Tails -> Seq(LineType)], OncePerCall(t)
    PROVE  OncePerCall(RetiredTails(t).tails) /\ From(RetiredTails(t).tails, t)
<1>1. CASE RetiredTails(t).tails = t
  BY <1>1 DEF From
<1>2. CASE RetiredTails(t).tails = [current |-> <<>>, retired |-> t.current]
  <2> DEFINE r == RetiredTails(t).tails
  <2>1. Len(r.current) = 0 /\ r.retired = t.current
    BY <1>2
  <2> HIDE DEF r
  <2>2. \A k \in Tails : \A p \in 1..Len(r[k]) : k = "retired" /\ r[k] = t.current
    BY <2>1 DEF Tails
  <2>3. OncePerCall(r)
    BY <2>2 DEF OncePerCall, Tails
  <2>4. From(r, t)
    BY <2>2 DEF From, Tails
  <2> QED
    BY <2>3, <2>4 DEF r
<1> QED
  BY <1>1, <1>2 DEF RetiredTails

\* Steps that add no line, and neither owe anything new nor bring back a caller whose
\* line is queued.
LEMMA LinesKept ==
    ASSUME TransportTypeOK, LinesInv, From(tails', tails), OncePerCall(tails'), owed' \subseteq owed,
           \A i \in Caller : /\ route'[i].use = route[i].use
                             /\ route[i].stage \in {"idle", "pending"}
                                  => route'[i].stage \in {"idle", "pending"},
           route'[Control].use \in {route[Control].use, route[Control].use + 1}
    PROVE  LinesInv'
<1> USE Limits
<1>1. ASSUME NEW k \in Tails, NEW p \in 1..Len(tails'[k]) PROVE LineFacts(tails'[k][p], route', owed')
  <2>1. PICK j \in Tails : \E q \in 1..Len(tails[j]) : tails'[k][p] = tails[j][q]
    BY <1>1 DEF From
  <2>2. PICK q \in 1..Len(tails[j]) : tails'[k][p] = tails[j][q]
    BY <2>1
  <2> DEFINE l == tails[j][q]
  <2>3. LineFacts(l, route, owed)
    BY DEF LinesInv
  <2>4. l \in LineType
    <3>1. tails[j] \in Seq(LineType)
      BY DEF TransportTypeOK, Tails
    <3> QED
      BY <3>1
  <2> HIDE DEF l
  <2>5. l.use \in Nat /\ l.id \in Ids /\ route[l.id].use \in Nat
    BY <2>4, Typed DEF LineType
  <2>6. l.use <= route'[l.id].use
    <3>1. route'[l.id].use \in {route[l.id].use, route[l.id].use + 1}
      BY <2>5 DEF Ids
    <3> QED
      BY <2>3, <2>5, <3>1 DEF LineFacts
  <2>7. LineFacts(l, route', owed')
    BY <2>3, <2>6 DEF LineFacts
  <2> QED
    BY <2>2, <2>7 DEF l
<1> QED
  BY <1>1 DEF LinesInv

\* Steps that owe nothing new, remove no tombstone, and leave one for whatever is owed
\* of a call they end.
LEMMA OwedKept ==
    ASSUME TransportTypeOK, OwedInv, owed' \subseteq owed, tombstones \subseteq tombstones',
           \A i \in Caller : route'[i].use = route[i].use /\ (Idle(i) => Idle(i)'),
           route'[Control].use \in {route[Control].use, route[Control].use + 1},
           \A c \in tombstones' \ tombstones : c.id \in Caller => Idle(c.id)',
           \A call \in owed' : Pending(call.id) /\ route[call.id].use = call.use =>
               \/ route'[call.id] = route[call.id]
               \/ Entombed(call)'
    PROVE  OwedInv'
<1> USE Limits
<1>1. \A call \in owed : call.id \in Ids /\ call.use \in Nat /\ route[call.id].use \in Nat
  BY Typed DEF TransportTypeOK
<1>2. \A call \in owed' : /\ call.use <= route'[call.id].use
                          /\ call.id \in Caller => call.use = route'[call.id].use
  BY <1>1 DEF OwedInv, Ids
<1>3. \A c \in tombstones' : c.id \in Caller => Idle(c.id)'
  BY DEF OwedInv
<1>4. ASSUME NEW call \in owed'
      PROVE  (Pending(call.id) /\ route[call.id].use = call.use)' \/ Entombed(call)'
  <2>1. CASE Entombed(call)
    BY <2>1 DEF Entombed
  <2>2. CASE Pending(call.id) /\ route[call.id].use = call.use
    BY <2>2 DEF Pending
  <2> QED
    BY <2>1, <2>2 DEF OwedInv, LateAnswersGuarded
<1> QED
  BY <1>2, <1>3, <1>4 DEF OwedInv, LateAnswersGuarded

\* The tails, less the line whose turn it is.
LEMMA ShrunkLines ==
    ASSUME TransportInv, LinesInv, NEW t, Shrunk(t)
    PROVE  t \in [Tails -> Seq(LineType)] /\ OncePerCall(t) /\ From(t, tails)
<1>1. t \in [Tails -> Seq(LineType)]
  BY ShrunkTails DEF TransportInv, WriteInv, TailsOK, Tails
<1>2. tails \in [Tails -> Seq(LineType)]
  BY DEF TransportInv, TransportTypeOK, Tails
<1> QED
  BY <1>1, <1>2, ShrunkOnce DEF LinesInv

\* The end of a child.
LEMMA TerminatedGuards ==
    ASSUME TransportInv, GuardInv, NEW t, Shrunk(t), NEW state, TerminatedTo(state, t)
    PROVE  GuardInv'
<1>1. t \in [Tails -> Seq(LineType)] /\ OncePerCall(t) /\ From(t, tails)
  BY ShrunkLines DEF GuardInv
<1>2. OncePerCall(tails') /\ From(tails', t)
  BY <1>1, RetiredOnce DEF TerminatedTo
<1>3. From(tails', tails)
  BY <1>1, <1>2, FromTwice
<1>4. \A i \in Ids : route'[i].stage = "idle" /\ route'[i].use = route[i].use
  BY Typed DEF TerminatedTo, TransportInv
<1>5. owed' = {} /\ tombstones' = {}
  BY DEF TerminatedTo
<1>6. LinesInv'
  BY <1>2, <1>3, <1>4, <1>5, LinesKept, Limits DEF GuardInv, TransportInv
<1>7. OwedInv'
  BY <1>5 DEF OwedInv, LateAnswersGuarded
<1> QED
  BY <1>6, <1>7 DEF GuardInv

\* A call that did not become pending ends.
LEMMA DroppedGuards ==
    ASSUME TransportInv, GuardInv, NEW i \in Caller, ~Pending(i), route' = At(i, "idle"),
           UNCHANGED <<guards, owed, tails>>
    PROVE  GuardInv'
<1> USE Limits DEF guards
<1>1. /\ route'[i].stage = "idle" /\ route'[i].use = route[i].use
      /\ \A j \in Ids : j # i => route'[j] = route[j]
  BY DEF At, TransportInv, TransportTypeOK
<1>2. LinesInv'
  <2>1. From(tails', tails) /\ OncePerCall(tails')
    BY DEF From, GuardInv, LinesInv
  <2> QED
    BY <1>1, <2>1, LinesKept DEF GuardInv, TransportInv
<1>3. OwedInv'
  <2>1. \A call \in owed : call.id \in Ids
    BY DEF TransportInv, TransportTypeOK
  <2> QED
    BY <1>1, <2>1, OwedKept DEF GuardInv, TransportInv, Idle
<1> QED
  BY <1>2, <1>3 DEF GuardInv

\* The end of a pending call: what is still to come of it meets a tombstone.
LEMMA FinishedGuards ==
    ASSUME TransportInv, GuardInv, NEW i \in Caller, NEW tombstone \in BOOLEAN,
           NEW t, Shrunk(t), NEW answered \in SUBSET owed, Finished(i, tombstone, t, answered),
           tombstone \/ \A call \in answered : call.id # i
    PROVE  GuardInv'
<1> USE Limits
<1>1. CASE Terminated(t)
  BY <1>1, TerminatedGuards DEF Terminated
<1>2. CASE /\ route' = At(i, "idle") /\ tails' = t /\ owed' = answered
           /\ tombstones' = TombstonesWith(i, tombstone)
  <2>1. /\ route'[i].stage = "idle" /\ route'[i].use = route[i].use
        /\ \A j \in Ids : j # i => route'[j] = route[j]
    BY <1>2 DEF At, TransportInv, TransportTypeOK
  <2>2. LinesInv'
    <3>1. From(tails', tails) /\ OncePerCall(tails')
      BY <1>2, ShrunkLines DEF GuardInv
    <3> QED
      BY <1>2, <2>1, <3>1, LinesKept DEF GuardInv, TransportInv
  <2>3. OwedInv'
    <3>1. \A call \in owed : call.id \in Ids
      BY DEF TransportInv, TransportTypeOK
    <3>2. \A c \in tombstones' \ tombstones : c.id = i
      BY <1>2 DEF TombstonesWith, Call
    <3>3. ASSUME NEW call \in owed', call.id = i PROVE Entombed(call)'
      <4>1. Call(i) \in tombstones'
        BY <1>2, <3>3 DEF TombstonesWith
      <4> QED
        BY <3>3, <4>1 DEF Entombed, Call
    <3>4. tombstones \subseteq tombstones' /\ owed' \subseteq owed
      BY <1>2 DEF TombstonesWith
    <3> QED
      BY <2>1, <3>1, <3>2, <3>3, <3>4, OwedKept DEF GuardInv, TransportInv, Idle
  <2> QED
    BY <2>2, <2>3 DEF GuardInv
<1> QED
  BY <1>1, <1>2 DEF Finished, Released

-----------------------------------------------------------------------------
(* The steps and what is still to come *)

\* An id that is used again has no line queued and nothing owed.
LEMMA RequestGuards ==
    ASSUME TransportInv, GuardInv, ~ReuseWhileWriting, NEW i \in Caller, Request(i)
    PROVE  GuardInv'
<1> USE Limits
<1>1. /\ route' = [route EXCEPT ![i] = [stage |-> "handshake", use |-> route[i].use + 1]]
      /\ i \notin waiting \cup active /\ ~Entombed(Call(i))
      /\ \A l \in Lines : l.id # i
      /\ UNCHANGED <<owed, tombstones, tails>>
  BY DEF Request, Usable, guards, connection
<1>2. /\ \A j \in Ids : j # i => route'[j] = route[j]
      /\ Idle(i) /\ ~Pending(i)
  BY <1>1, Typed DEF TransportInv, TransportTypeOK, PlaceInv, Pending, Idle, Routes
<1>3. \A c \in tombstones : c.id # i
  BY <1>1 DEF Entombed, Call
<1>4. \A call \in owed : call.id # i
  BY <1>2, <1>3 DEF GuardInv, OwedInv, LateAnswersGuarded, Entombed
<1>5. \A k \in Tails : \A p \in 1..Len(tails[k]) : tails[k][p].id # i /\ tails[k][p].id \in Ids
  <2> TAKE k \in Tails
  <2> TAKE p \in 1..Len(tails[k])
  <2>1. tails[k] \in Seq(LineType) /\ tails[k][p] \in LineType
    BY DEF TransportInv, TransportTypeOK, Tails
  <2>2. tails[k][p] \in Range(tails[k])
    BY <2>1, LenProperties DEF Range
  <2> QED
    BY <1>1, <2>1, <2>2 DEF Lines, LineType, Tails
<1>6. LinesInv'
  BY <1>1, <1>2, <1>5 DEF GuardInv, LinesInv, LineFacts, OncePerCall
<1>7. OwedInv'
  <2>1. \A call \in owed : call.id \in Ids /\ route'[call.id] = route[call.id]
    BY <1>2, <1>4 DEF TransportInv, TransportTypeOK
  <2>2. \A c \in tombstones : c.id \in Ids /\ route'[c.id] = route[c.id]
    BY <1>2, <1>3 DEF TransportInv, TransportTypeOK
  <2> QED
    BY <1>1, <2>1, <2>2
      DEF GuardInv, OwedInv, LateAnswersGuarded, Entombed, Pending, Idle
<1> QED
  BY <1>6, <1>7 DEF GuardInv

\* One line more, of a call that has none and is owed nothing.
LEMMA LineOnce ==
    ASSUME TransportInv, LinesInv, NEW l \in LineType,
           \A k \in Tails : \A p \in 1..Len(tails[k]) :
               tails[k][p].id # l.id \/ tails[k][p].use # l.use,
           LineFacts(l, route', owed'), tails' = WithLine(l),
           \A k \in Tails : \A p \in 1..Len(tails[k]) : LineFacts(tails[k][p], route', owed')
    PROVE  LinesInv'
<1>1. /\ tails \in [Tails -> Seq(LineType)] /\ tails.current \in Seq(LineType)
      /\ \A k \in Tails : Len(tails[k]) \in Nat
  <2>1. tails \in [Tails -> Seq(LineType)]
    BY DEF TransportInv, TransportTypeOK, Tails
  <2> QED
    BY <2>1, LenProperties DEF Tails
<1> DEFINE n == Len(tails.current) + 1
<1>2. /\ tails'["current"] = Append(tails.current, l) /\ tails'["retired"] = tails["retired"]
      /\ Len(tails'["current"]) = n /\ tails'["current"][n] = l
      /\ \A p \in 1..Len(tails.current) : tails'["current"][p] = tails["current"][p]
  BY <1>1, AppendProperties DEF WithLine, Tails
<1>3. ASSUME NEW k \in Tails, NEW p \in 1..Len(tails'[k])
      PROVE  \/ k = "current" /\ p = n /\ tails'[k][p] = l
             \/ p \in 1..Len(tails[k]) /\ tails'[k][p] = tails[k][p]
  BY <1>1, <1>2 DEF Tails
<1> HIDE DEF n
<1>4. ASSUME NEW k \in Tails, NEW p \in 1..Len(tails'[k])
      PROVE  LineFacts(tails'[k][p], route', owed')
  BY <1>3
<1>5. ASSUME NEW k \in Tails, NEW j \in Tails,
             NEW p \in 1..Len(tails'[k]), NEW q \in 1..Len(tails'[j]),
             tails'[k][p].id = tails'[j][q].id, tails'[k][p].use = tails'[j][q].use
      PROVE  k = j /\ p = q
  <2>1. \/ k = "current" /\ p = n /\ tails'[k][p] = l
        \/ p \in 1..Len(tails[k]) /\ tails'[k][p] = tails[k][p]
    BY <1>3
  <2>2. \/ j = "current" /\ q = n /\ tails'[j][q] = l
        \/ q \in 1..Len(tails[j]) /\ tails'[j][q] = tails[j][q]
    BY <1>3
  <2>3. CASE tails'[k][p] = l
    BY <1>5, <2>1, <2>2, <2>3
  <2>4. CASE tails'[j][q] = l
    BY <1>5, <2>1, <2>2, <2>4
  <2>5. CASE /\ p \in 1..Len(tails[k]) /\ tails'[k][p] = tails[k][p]
             /\ q \in 1..Len(tails[j]) /\ tails'[j][q] = tails[j][q]
    <3>1. tails[k][p].id = tails[j][q].id /\ tails[k][p].use = tails[j][q].use
      BY <1>5, <2>5
    <3> QED
      BY <2>5, <3>1 DEF LinesInv, OncePerCall
  <2> QED
    BY <2>1, <2>2, <2>3, <2>4, <2>5
<1> QED
  BY <1>4, <1>5 DEF LinesInv, OncePerCall

\* A hello or a legacy probe, once what the last one is owed is answered or drained by
\* a tombstone.
LEMMA HelloSentGuards ==
    ASSUME TransportInv, GuardInv, handshake = "unknown", NEW c, NextChild(c),
           NEW n \in 0..2, HelloSent(c, n), owed' \subseteq owed,
           Idle(Control) \/ Call(Control) \notin owed',
           UNCHANGED guards
    PROVE  GuardInv'
<1> USE Limits DEF guards
<1>1. \A i \in Caller : route[i].stage \in {"idle", "handshake"}
  BY DEF TransportInv, StageInv
<1>2. \A call \in owed' : ~(Pending(call.id) /\ route[call.id].use = call.use)
  <2> SUFFICES ASSUME NEW call \in owed', Pending(call.id), route[call.id].use = call.use
               PROVE  FALSE
    OBVIOUS
  <2>1. call \in [id : Ids, use : Nat]
    BY DEF TransportInv, TransportTypeOK
  <2>2. call.id = Control
    BY <1>1, <2>1 DEF Pending, Ids
  <2>3. call = Call(Control)
    BY <2>1, <2>2 DEF Call
  <2> QED
    BY <2>2, <2>3 DEF Idle, Pending
<1> DEFINE use == route[Control].use + 1
           hello == [id |-> Control, use |-> use, gen |-> c, started |-> FALSE]
<1>3. use \in Nat /\ route[Control].use \in Nat /\ hello \in LineType
  <2>1. c \in 1..MaxChildren
    BY ChildAdded
  <2> QED
    BY <2>1, Typed DEF TransportInv, LineType
<1>4. CASE /\ route' = [route EXCEPT ![Control] = [stage |-> "pending", use |-> use]]
           /\ tails' = WithLine(hello)
  <2>1. route'[Control].use = use /\ \A i \in Caller : route'[i] = route[i]
    BY <1>4 DEF TransportInv, TransportTypeOK
  <2>2. OwedInv'
    BY <1>2, <2>1, OwedKept DEF GuardInv, TransportInv, Idle
  <2>3. \A k \in Tails : \A p \in 1..Len(tails[k]) :
           /\ tails[k][p] \in LineType
           /\ LineFacts(tails[k][p], route, owed)
    <3>1. \A k \in Tails : tails[k] \in Seq(LineType)
      BY DEF TransportInv, TransportTypeOK, Tails
    <3> QED
      BY <3>1 DEF GuardInv, LinesInv
  <2>4. ASSUME NEW k \in Tails, NEW p \in 1..Len(tails[k])
        PROVE  /\ LineFacts(tails[k][p], route', owed')
               /\ tails[k][p].id # Control \/ tails[k][p].use # use
    <3> DEFINE l == tails[k][p]
    <3>1. l \in LineType /\ LineFacts(l, route, owed)
      BY <2>3
    <3> HIDE DEF l, use
    <3>2. l.use \in Nat /\ l.id \in Ids
      BY <3>1 DEF LineType
    <3>3. LineFacts(l, route', owed')
      BY <1>3, <2>1, <3>1, <3>2 DEF LineFacts, Ids, use
    <3>4. l.id # Control \/ l.use # use
      BY <1>3, <3>1, <3>2 DEF LineFacts, use
    <3> QED
      BY <3>3, <3>4 DEF l
  <2>5. LineFacts(hello, route', owed')
    <3>1. [id |-> Control, use |-> use] \notin owed
      <4>1. \A call \in owed : call.use <= route[call.id].use
        BY DEF GuardInv, OwedInv
      <4> QED
        BY <1>3, <4>1
    <3> QED
      BY <1>3, <2>1, <3>1 DEF LineFacts
  <2>6. LinesInv'
    <3>1. hello.id = Control /\ hello.use = use
      OBVIOUS
    <3> HIDE DEF hello, use
    <3> QED
      BY <1>3, <1>4, <2>4, <2>5, <3>1, LineOnce DEF GuardInv
  <2> QED
    BY <2>2, <2>6 DEF GuardInv
<1>5. CASE route' = [i \in Ids |-> [route[i] EXCEPT !.stage = "idle"]] /\ tails' = tails
  <2>1. \A i \in Ids : route'[i].stage = "idle" /\ route'[i].use = route[i].use
    BY <1>5, Typed DEF TransportInv
  <2>2. From(tails', tails) /\ OncePerCall(tails')
    BY <1>5 DEF From, GuardInv, LinesInv
  <2>3. LinesInv'
    BY <2>1, <2>2, LinesKept DEF GuardInv, TransportInv
  <2>4. OwedInv'
    BY <1>2, <2>1, OwedKept DEF GuardInv, TransportInv, Idle
  <2> QED
    BY <2>3, <2>4 DEF GuardInv
<1> QED
  BY <1>4, <1>5 DEF HelloSent

\* ensureHandshake with no handshake under way.
LEMMA NegotiateGuards ==
    ASSUME TransportInv, GuardInv, NEW i \in Caller, Negotiate(i) PROVE GuardInv'
<1> USE Limits DEF Negotiate
<1>1. CASE Dropped(i) /\ UNCHANGED <<tails, connection>>
  BY <1>1, DroppedGuards DEF Dropped, connection, Pending
<1>2. CASE ~((blocked /\ child = NoChild) \/ (quarantined /\ child # NoChild))
  <2> DEFINE c == IF child = NoChild THEN spawned + 1 ELSE child
  <2>1. /\ HelloSent(c, 0) /\ child' = c
        /\ spawned' = IF child = NoChild THEN c ELSE spawned
        /\ handshake = "unknown" /\ Idle(Control)
        /\ UNCHANGED <<guards, owed>>
    BY <1>2
  <2>2. child = NoChild => spawned < MaxChildren
    BY DEF TransportInv, StageInv, Idle
  <2>3. NextChild(c)
    BY <1>2, <2>1, <2>2 DEF NextChild
  <2> HIDE DEF c
  <2> QED
    BY <2>1, <2>3, HelloSentGuards
<1> QED
  BY <1>1, <1>2

\* The answer to a hello or to a legacy probe.
LEMMA HelloAnsweredGuards ==
    ASSUME TransportInv, GuardInv, NEW mode \in Modes, HelloAnswered(mode) PROVE GuardInv'
<1> USE Limits
<1> DEFINE rest == owed \ {Call(Control)}
<1>1. /\ Pending(Control) /\ handshake = "unknown" /\ child # NoChild
      /\ \A i \in Caller : route[i].stage \in {"idle", "handshake"}
  BY PendingHasChild DEF HelloAnswered, TransportInv, StageInv
<1>2. CASE TerminatedTo("blocked", tails) \/ Terminated(tails)
  BY <1>2, TerminatedGuards DEF Terminated, Shrunk
<1>3. CASE /\ HelloSent(child, probes + 1) /\ owed' = rest /\ probes < 2
           /\ UNCHANGED <<guards, spawned>>
  <2>1. probes + 1 \in 0..2 /\ NextChild(child)
    BY <1>1, <1>3, Typed DEF TransportInv, NextChild
  <2> QED
    BY <1>1, <1>3, <2>1, HelloSentGuards
<1>4. CASE /\ route' = [i \in Ids |-> IF i = Control \/ mode = "failed"
                                      THEN [route[i] EXCEPT !.stage = "idle"] ELSE route[i]]
           /\ owed' = rest /\ UNCHANGED <<guards, tails>>
  <2>1. /\ \A i \in Ids : route'[i].use = route[i].use
        /\ \A i \in Caller : route'[i] = route[i] \/ route'[i].stage = "idle"
    BY <1>4, Typed DEF TransportInv
  <2>2. From(tails', tails) /\ OncePerCall(tails')
    BY <1>4 DEF From, GuardInv, LinesInv
  <2>3. LinesInv'
    BY <1>4, <2>1, <2>2, LinesKept DEF GuardInv, TransportInv
  <2>4. \A call \in rest : ~(Pending(call.id) /\ route[call.id].use = call.use)
    <3> SUFFICES ASSUME NEW call \in rest, Pending(call.id), route[call.id].use = call.use
                 PROVE  FALSE
      OBVIOUS
    <3>1. call \in [id : Ids, use : Nat]
      BY DEF TransportInv, TransportTypeOK
    <3>2. call.id = Control
      BY <1>1, <3>1 DEF Pending, Ids
    <3>3. call = Call(Control)
      BY <3>1, <3>2 DEF Call
    <3> QED
      BY <3>3
  <2>5. OwedInv'
    BY <1>4, <2>1, <2>4, OwedKept DEF GuardInv, TransportInv, Idle, guards
  <2> QED
    BY <2>3, <2>5 DEF GuardInv
<1>5. \/ TerminatedTo("blocked", tails) \/ Terminated(tails)
      \/ /\ HelloSent(child, probes + 1) /\ owed' = rest /\ probes < 2
         /\ UNCHANGED <<guards, spawned>>
      \/ /\ route' = [i \in Ids |-> IF i = Control \/ mode = "failed"
                                    THEN [route[i] EXCEPT !.stage = "idle"] ELSE route[i]]
         /\ owed' = rest /\ UNCHANGED <<guards, tails>>
  BY ZenonT(30) DEF HelloAnswered
<1> QED
  BY <1>2, <1>3, <1>4, <1>5

\* The wait for the single slot, and the turn of a caller.
LEMMA AwaitSlotGuards ==
    ASSUME TransportInv, GuardInv, NEW i \in Caller, AwaitSlot(i) PROVE GuardInv'
<1> USE Limits DEF AwaitSlot
<1>1. CASE Dropped(i)
  BY <1>1, DroppedGuards DEF Dropped, connection, Pending
<1>2. CASE route' = At(i, "slot")
  <2>1. /\ route'[i].use = route[i].use /\ route[i].stage = "handshake"
        /\ \A j \in Ids : j # i => route'[j] = route[j]
        /\ UNCHANGED <<tails, owed, tombstones>>
    BY <1>2 DEF At, TransportInv, TransportTypeOK, guards, connection
  <2>2. From(tails', tails) /\ OncePerCall(tails')
    BY <2>1 DEF From, GuardInv, LinesInv
  <2>3. LinesInv'
    BY <2>1, <2>2, LinesKept DEF GuardInv, TransportInv
  <2>4. \A call \in owed : call.id \in Ids
    BY DEF TransportInv, TransportTypeOK
  <2>5. OwedInv'
    BY <2>1, <2>4, OwedKept DEF GuardInv, TransportInv, Idle, Pending
  <2> QED
    BY <2>3, <2>5 DEF GuardInv
<1> QED
  BY <1>1, <1>2

\* The turn of a caller.
LEMMA IssueGuards ==
    ASSUME TransportInv, GuardInv, NEW i \in Caller, Issue(i) PROVE GuardInv'
<1> USE Limits
<1>1. /\ route[i].stage \in {"handshake", "slot"}
      /\ UNCHANGED <<guards, owed>>
  BY DEF Issue, connection
<1>2. CASE Dropped(i) /\ UNCHANGED tails
  BY <1>1, <1>2, DroppedGuards DEF Dropped, Pending
<1>3. CASE route' = At(i, "pending") /\ tails' = WithLine(Line(i, child))
  <2> DEFINE l == Line(i, child)
  <2>1. /\ route'[i].use = route[i].use /\ route'[i].stage = "pending"
        /\ route[i].use \in Nat
        /\ \A j \in Ids : j # i => route'[j] = route[j]
    BY <1>3, Typed DEF At, TransportInv, TransportTypeOK
  <2>2. \A c \in tombstones : c.id # i
    BY <1>1 DEF GuardInv, OwedInv, Idle
  <2>3. \A call \in owed : call.id # i /\ call.id \in Ids
    <3>1. \A call \in owed : call.id \in Ids
      BY DEF TransportInv, TransportTypeOK
    <3> QED
      BY <1>1, <2>2, <3>1 DEF GuardInv, OwedInv, LateAnswersGuarded, Entombed, Pending
  <2>4. OwedInv'
    <3>1. \A c \in tombstones : c.id \in Ids /\ route'[c.id] = route[c.id]
      BY <2>1, <2>2 DEF TransportInv, TransportTypeOK
    <3> QED
      BY <1>1, <2>1, <2>3, <3>1
        DEF GuardInv, OwedInv, LateAnswersGuarded, Entombed, Pending, Idle, guards
  <2>5. \A k \in Tails : \A p \in 1..Len(tails[k]) :
           tails[k][p].id # i /\ tails[k][p].id \in Ids /\ LineFacts(tails[k][p], route, owed)
    <3>1. \A k \in Tails : tails[k] \in Seq(LineType)
      BY DEF TransportInv, TransportTypeOK, Tails
    <3>2. \A k \in Tails : \A p \in 1..Len(tails[k]) : tails[k][p].id \in Ids
      <4> TAKE j \in Tails
      <4> TAKE p \in 1..Len(tails[j])
      <4>1. tails[j][p] \in LineType
        BY <3>1
      <4> QED
        BY <4>1 DEF LineType
    <3> QED
      BY <1>1, <3>2 DEF GuardInv, LinesInv, LineFacts
  <2>6. \A k \in Tails : \A p \in 1..Len(tails[k]) : LineFacts(tails[k][p], route', owed')
    BY <1>1, <2>1, <2>5 DEF LineFacts
  <2>7. l \in LineType /\ l.id = i /\ LineFacts(l, route', owed')
    BY <1>1, <2>1, <2>3, Typed DEF LineFacts, Line, LineType, TransportInv
  <2>8. LinesInv'
    <3>1. tails' = WithLine(l)
      BY <1>3
    <3> HIDE DEF l
    <3> QED
      BY <2>5, <2>6, <2>7, <3>1, LineOnce DEF GuardInv
  <2> QED
    BY <2>4, <2>8 DEF GuardInv
<1> QED
  BY <1>2, <1>3 DEF Issue

\* What the child is newly owed is the line it is handed.
LEMMA NewlyOwed ==
    ASSUME TransportInv, GuardInv, NEW k \in Tails, WriteStart(k)
    PROVE  LET l == Head(tails[k])
               call == [id |-> l.id, use |-> l.use]
           IN  /\ tails[k] \in Seq(LineType) /\ Len(tails[k]) \in Nat
               /\ 1 \in 1..Len(tails[k]) /\ l = tails[k][1] /\ l \in LineType
               /\ owed' = owed \cup {call} /\ ~l.started
               /\ Pending(l.id) /\ route[l.id].use = l.use
<1> DEFINE l == Head(tails[k])
<1>1. /\ tails[k] # <<>> /\ ~l.started /\ Routed(l)
      /\ owed' = owed \cup {[id |-> l.id, use |-> l.use]}
  BY DEF WriteStart, Turn, MayWrite
<1>2. tails[k] \in Seq(LineType)
  BY DEF TransportInv, TransportTypeOK, Tails
<1>3. /\ Len(tails[k]) \in Nat /\ Len(tails[k]) >= 1
      /\ l = tails[k][1] /\ l \in LineType
  BY <1>1, <1>2, HeadAndTail
<1>4. 1 \in 1..Len(tails[k])
  BY <1>3
<1>5. LineFacts(l, route, owed)
  BY <1>3, <1>4 DEF GuardInv, LinesInv
<1>6. route[l.id].use = l.use
  BY <1>1, <1>3, <1>5 DEF LineFacts, Routed, LineType, Ids
<1> QED
  BY <1>1, <1>2, <1>3, <1>4, <1>6 DEF Routed

\* A line is handed to the child, which now owes its call an answer.
LEMMA WriteStartGuards ==
    ASSUME TransportInv, GuardInv, NEW k \in Tails, WriteStart(k) PROVE GuardInv'
<1> USE Limits
<1> DEFINE l == Head(tails[k])
           call == [id |-> l.id, use |-> l.use]
           x == [l EXCEPT !.started = TRUE]
<1>1. /\ tails[k] \in Seq(LineType) /\ Len(tails[k]) \in Nat
      /\ 1 \in 1..Len(tails[k]) /\ l = tails[k][1] /\ l \in LineType
      /\ owed' = owed \cup {call} /\ ~l.started
      /\ Pending(l.id) /\ route[l.id].use = l.use
  BY NewlyOwed
<1>2. /\ tails' = [tails EXCEPT ![k] = <<x>> \o Tail(@)]
      /\ tails[k] # <<>> /\ UNCHANGED <<route, tombstones>>
  BY DEF WriteStart, Turn, calls, guards
<1>3. /\ x \in LineType /\ x.id = l.id /\ x.use = l.use /\ x.started
  BY <1>1 DEF LineType
<1> HIDE DEF x
<1>4. /\ Len(<<x>> \o Tail(tails[k])) = Len(tails[k])
      /\ (<<x>> \o Tail(tails[k]))[1] = x
      /\ \A p \in 2..Len(tails[k]) : (<<x>> \o Tail(tails[k]))[p] = tails[k][p]
  BY <1>1, <1>2, <1>3, NewHead
<1>5. tails \in [Tails -> Seq(LineType)]
  BY DEF TransportInv, TransportTypeOK, Tails
<1>6. /\ tails'[k] = <<x>> \o Tail(tails[k])
      /\ \A j \in Tails : j # k => tails'[j] = tails[j]
      /\ \A j \in Tails : Len(tails'[j]) = Len(tails[j])
  BY <1>2, <1>4, <1>5
<1>7. ASSUME NEW j \in Tails, NEW p \in 1..Len(tails[j])
      PROVE  IF j = k /\ p = 1 THEN tails'[j][p] = x ELSE tails'[j][p] = tails[j][p]
  <2>1. CASE j = k /\ p # 1
    <3>1. p \in 2..Len(tails[k])
      BY <1>1, <2>1
    <3> QED
      BY <1>4, <1>6, <2>1, <3>1
  <2>2. CASE ~(j = k /\ p # 1)
    BY <1>4, <1>6, <2>2
  <2> QED
    BY <2>1, <2>2
<1>8. ASSUME NEW j \in Tails, NEW p \in 1..Len(tails[j])
      PROVE  tails'[j][p].id = tails[j][p].id /\ tails'[j][p].use = tails[j][p].use
  BY <1>1, <1>3, <1>7
<1>9. OncePerCall(tails')
  <2>1. ASSUME NEW j \in Tails, NEW i \in Tails,
               NEW p \in 1..Len(tails'[j]), NEW q \in 1..Len(tails'[i]),
               tails'[j][p].id = tails'[i][q].id, tails'[j][p].use = tails'[i][q].use
        PROVE  j = i /\ p = q
    <3>1. p \in 1..Len(tails[j]) /\ q \in 1..Len(tails[i])
      BY <1>6
    <3>2. tails[j][p].id = tails[i][q].id /\ tails[j][p].use = tails[i][q].use
      BY <1>8, <2>1, <3>1
    <3> QED
      BY <3>1, <3>2 DEF GuardInv, LinesInv, OncePerCall
  <2> QED
    BY <2>1 DEF OncePerCall
<1>10. ASSUME NEW j \in Tails, NEW p \in 1..Len(tails'[j])
       PROVE  LineFacts(tails'[j][p], route', owed')
  <2>1. p \in 1..Len(tails[j]) /\ LineFacts(tails[j][p], route, owed)
    BY <1>6 DEF GuardInv, LinesInv
  <2>2. CASE j = k /\ p = 1
    BY <1>1, <1>2, <1>3, <1>7, <2>1, <2>2 DEF LineFacts
  <2>3. CASE ~(j = k /\ p = 1)
    <3>1. tails'[j][p] = tails[j][p]
      BY <1>7, <2>1, <2>3
    <3>2. tails[j][p].id # l.id \/ tails[j][p].use # l.use
      BY <1>1, <2>1, <2>3 DEF GuardInv, LinesInv, OncePerCall
    <3> QED
      BY <1>1, <1>2, <2>1, <3>1, <3>2 DEF LineFacts
  <2> QED
    BY <2>2, <2>3
<1>11. LinesInv'
  BY <1>9, <1>10 DEF LinesInv
<1>12. OwedInv'
  <2>1. call.id = l.id /\ call.use = l.use /\ l.use \in Nat
    BY <1>1 DEF LineType
  <2> HIDE DEF call, l
  <2> QED
    BY <1>1, <1>2, <2>1
      DEF GuardInv, OwedInv, LateAnswersGuarded, Entombed, Pending, Idle
<1> QED
  BY <1>11, <1>12 DEF GuardInv

\* A line that failed: nothing is owed of it yet, or its call leaves a tombstone.
LEMMA WriteFailedGuards ==
    ASSUME TransportInv, GuardInv, NEW k \in Tails, tails[k] # <<>>, NEW tombstone \in BOOLEAN,
           tombstone \/ ~Head(tails[k]).started, WriteFailed(k, tombstone)
    PROVE  GuardInv'
<1> USE Limits
<1> DEFINE t == [tails EXCEPT ![k] = Tail(@)]
           l == Head(tails[k])
<1>1. Shrunk(t)
  BY LineGone
<1>2. /\ l \in LineType /\ LineFacts(l, route, owed)
  <2>1. tails[k] \in Seq(LineType)
    BY DEF TransportInv, TransportTypeOK, Tails
  <2>2. /\ Len(tails[k]) \in Nat /\ Len(tails[k]) >= 1
        /\ l = tails[k][1] /\ l \in LineType
    BY <2>1, HeadAndTail
  <2>3. 1 \in 1..Len(tails[k])
    BY <2>2
  <2> QED
    BY <2>2, <2>3 DEF GuardInv, LinesInv
<1>3. tombstone \/ [id |-> l.id, use |-> l.use] \notin owed
  BY <1>2 DEF LineFacts
<1>4. \A call \in owed : call \in [id : Ids, use : Nat]
  BY DEF TransportInv, TransportTypeOK
<1>5. \/ /\ tails' = t /\ UNCHANGED <<calls, guards, connection>>
      \/ Routed(l) /\ l.id # Control /\ Finished(l.id, tombstone, t, owed)
      \/ Terminated(t)
      \/ /\ Routed(l) /\ l.id = Control
         /\ route' = [i \in Ids |-> [route[i] EXCEPT !.stage = "idle"]]
         /\ tombstones' = TombstonesWith(Control, tombstone)
         /\ tails' = t /\ UNCHANGED owed
  BY DEF WriteFailed
<1> HIDE DEF t, l
<1>6. OncePerCall(t) /\ From(t, tails)
  BY <1>1, ShrunkLines DEF GuardInv
<1>7. CASE tails' = t /\ UNCHANGED <<calls, guards, connection>>
  <2>1. UNCHANGED <<route, owed, tombstones>>
    BY <1>7 DEF calls, guards, connection
  <2>2. LinesInv'
    BY <1>6, <1>7, <2>1, LinesKept DEF GuardInv, TransportInv
  <2>3. OwedInv'
    BY <2>1 DEF GuardInv, OwedInv, LateAnswersGuarded, Entombed, Pending, Idle
  <2> QED
    BY <2>2, <2>3 DEF GuardInv
<1>8. CASE Routed(l) /\ l.id # Control /\ Finished(l.id, tombstone, t, owed)
  <2>1. l.id \in Caller
    BY <1>2, <1>8 DEF LineType, Ids
  <2>2. l.use = route[l.id].use
    BY <1>2, <2>1 DEF LineFacts
  <2>3. tombstone \/ \A call \in owed : call.id # l.id
    BY <1>3, <1>4, <2>1, <2>2 DEF GuardInv, OwedInv
  <2> QED
    BY <1>1, <1>8, <2>1, <2>3, FinishedGuards
<1>9. CASE Terminated(t)
  BY <1>1, <1>9, TerminatedGuards DEF Terminated
<1>10. CASE /\ Routed(l) /\ l.id = Control
            /\ route' = [i \in Ids |-> [route[i] EXCEPT !.stage = "idle"]]
            /\ tombstones' = TombstonesWith(Control, tombstone)
            /\ tails' = t /\ UNCHANGED owed
  <2>1. \A i \in Ids : route'[i].stage = "idle" /\ route'[i].use = route[i].use
    BY <1>10, Typed DEF TransportInv
  <2>2. LinesInv'
    BY <1>6, <1>10, <2>1, LinesKept DEF GuardInv, TransportInv
  <2>3. \A i \in Caller : ~Pending(i)
    BY <1>10 DEF TransportInv, StageInv, Routed, Pending
  <2>4. ASSUME NEW call \in owed, Pending(call.id), route[call.id].use = call.use
        PROVE  Entombed(call)'
    <3>1. call = [id |-> Control, use |-> l.use] /\ call = Call(Control)
      BY <1>4, <1>10, <2>3, <2>4 DEF Routed, Ids, Call
    <3>2. call \in tombstones'
      BY <1>3, <1>10, <3>1 DEF TombstonesWith
    <3> QED
      BY <3>2 DEF Entombed
  <2>5. tombstones \subseteq tombstones' /\ \A c \in tombstones' \ tombstones : c.id = Control
    BY <1>10 DEF TombstonesWith, Call
  <2>6. OwedInv'
    BY <1>10, <2>1, <2>4, <2>5, OwedKept DEF GuardInv, TransportInv, Idle
  <2> QED
    BY <2>2, <2>6 DEF GuardInv
<1> QED
  BY <1>5, <1>7, <1>8, <1>9, <1>10

\* A line that may not be written any more, and the callback of a write.
LEMMA WritesGuards ==
    ASSUME TransportInv, GuardInv, NEW k \in Tails, WriteRefused(k) \/ WriteSettles(k)
    PROVE  GuardInv'
<1> USE Limits
<1> DEFINE t == [tails EXCEPT ![k] = Tail(@)]
<1>1. CASE WriteRefused(k)
  BY <1>1, WriteFailedGuards DEF WriteRefused, Turn
<1>2. CASE WriteSettles(k)
  <2>1. tails[k] # <<>>
    BY <1>2 DEF WriteSettles
  <2>2. CASE WriteFailed(k, TRUE)
    BY <2>1, <2>2, WriteFailedGuards
  <2>3. CASE tails' = t /\ UNCHANGED <<calls, guards, connection>>
    <3>1. OncePerCall(t) /\ From(t, tails)
      BY <2>1, LineGone, ShrunkLines DEF GuardInv
    <3> HIDE DEF t
    <3>2. UNCHANGED <<route, owed, tombstones>>
      BY <2>3 DEF calls, guards, connection
    <3>3. LinesInv'
      BY <2>3, <3>1, <3>2, LinesKept DEF GuardInv, TransportInv
    <3>4. OwedInv'
      BY <3>2 DEF GuardInv, OwedInv, LateAnswersGuarded, Entombed, Pending, Idle
    <3> QED
      BY <3>3, <3>4 DEF GuardInv
  <2> QED
    BY <1>2, <2>2, <2>3 DEF WriteSettles
<1> QED
  BY <1>1, <1>2

\* discardLateOrQuarantine, of an id that is in no table.
LEMMA QuarantineGuards ==
    ASSUME TransportInv, GuardInv, NEW rest \in SUBSET owed, Quarantine(rest) PROVE GuardInv'
<1>1. CASE Terminated(tails)
  BY <1>1, TerminatedGuards DEF Terminated, Shrunk
<1>2. CASE owed' = rest /\ UNCHANGED <<route, tombstones, tails>>
  <2>1. From(tails', tails) /\ OncePerCall(tails')
    BY <1>2 DEF From, GuardInv, LinesInv
  <2>2. LinesInv'
    BY <1>2, <2>1, LinesKept DEF GuardInv, TransportInv
  <2>3. OwedInv'
    BY <1>2 DEF GuardInv, OwedInv, LateAnswersGuarded, Entombed, Pending, Idle
  <2> QED
    BY <2>2, <2>3 DEF GuardInv
<1> QED
  BY <1>1, <1>2 DEF Quarantine, calls

\* A late answer takes its tombstone with it, and no other call's.
LEMMA LateAnswerGuards ==
    ASSUME TransportInv, GuardInv, NEW call \in owed, ~Routed(call),
           LateAnswer(call, owed \ {call})
    PROVE  GuardInv'
<1>1. /\ tombstones' = {c \in tombstones : c.id # call.id \/ (call.id = Control /\ c # call)}
      /\ owed' = owed \ {call} /\ UNCHANGED <<route, tails>>
  BY DEF LateAnswer, calls
<1>2. /\ \A c \in owed : c \in [id : Ids, use : Nat]
      /\ \A c \in tombstones : c \in [id : Ids, use : Nat]
  BY DEF TransportInv, TransportTypeOK
<1>3. LinesInv'
  <2>1. From(tails', tails) /\ OncePerCall(tails')
    BY <1>1 DEF From, GuardInv, LinesInv
  <2> QED
    BY <1>1, <2>1, LinesKept DEF GuardInv, TransportInv
<1>4. ASSUME NEW c \in owed', Entombed(c) PROVE Entombed(c)'
  <2>1. PICK x \in tombstones : x.id = c.id /\ (c.id = Control => x.use = c.use)
    BY <1>4 DEF Entombed
  <2>2. c \in [id : Ids, use : Nat] /\ call \in [id : Ids, use : Nat] /\ c # call
        /\ x \in [id : Ids, use : Nat]
    BY <1>1, <1>2
  <2>3. CASE c.id # call.id
    BY <1>1, <2>1, <2>3 DEF Entombed
  <2>4. CASE c.id = call.id
    <3>1. c.use # call.use
      BY <2>2, <2>4
    <3>2. call.id = Control
      BY <1>1, <2>2, <2>4, <3>1 DEF GuardInv, OwedInv, Ids
    <3> QED
      BY <1>1, <2>1, <2>4, <3>1, <3>2 DEF Entombed
  <2> QED
    BY <2>3, <2>4
<1>5. OwedInv'
  BY <1>1, <1>4 DEF GuardInv, OwedInv, LateAnswersGuarded, Pending, Idle
<1> QED
  BY <1>3, <1>5 DEF GuardInv

\* handleResponse, and handleEvent of a terminal event.
LEMMA AnsweredGuards ==
    ASSUME TransportInv, GuardInv, NEW call \in owed, Answered(call) PROVE GuardInv'
<1> DEFINE rest == owed \ {call}
<1>1. call # Call(Control) /\ rest \subseteq owed
  BY DEF Answered
<1>2. \A c \in owed : c \in [id : Ids, use : Nat]
  BY DEF TransportInv, TransportTypeOK
<1>3. CASE Routed(call) /\ Finished(call.id, FALSE, tails, rest)
  <2>1. call.id \in Caller
    BY <1>1, <1>2, <1>3 DEF Routed, Call, Ids
  <2>2. \A c \in rest : c.id # call.id
    BY <1>2, <2>1 DEF GuardInv, OwedInv
  <2> HIDE DEF rest
  <2> QED
    BY <1>1, <1>3, <2>1, <2>2, FinishedGuards DEF Shrunk
<1>4. CASE ~Routed(call) /\ LateAnswer(call, rest)
  BY <1>4, LateAnswerGuards
<1>5. CASE Quarantine(rest)
  BY <1>1, <1>5, QuarantineGuards
<1> QED
  BY <1>3, <1>4, <1>5 DEF Answered

\* A call that ends early, and what may still come of it.
LEMMA ExpiredGuards ==
    ASSUME TransportInv, GuardInv, NEW i \in Ids, NEW fatal \in BOOLEAN,
           i = Control => fatal, Expired(i, fatal)
    PROVE  GuardInv'
<1>1. CASE Terminated(tails)
  BY <1>1, TerminatedGuards DEF Terminated, Shrunk
<1>2. CASE ~fatal /\ Finished(i, TRUE, tails, owed)
  <2>1. i \in Caller
    BY <1>2 DEF Ids
  <2> QED
    BY <1>2, <2>1, FinishedGuards DEF Shrunk
<1> QED
  BY <1>1, <1>2 DEF Expired

\* The callers' steps.
LEMMA CallerGuards ==
    ASSUME TransportInv, GuardInv, ~ReuseWhileWriting, NEW i \in Caller,
           \/ Request(i) \/ Negotiate(i) \/ Blocked(i) \/ AwaitSlot(i)
           \/ Issue(i) \/ StreamOverflows(i) \/ Cancel(i)
    PROVE  GuardInv'
<1> USE Limits
<1>1. CASE Request(i)
  BY <1>1, RequestGuards
<1>2. CASE Negotiate(i)
  BY <1>2, NegotiateGuards
<1>3. CASE Blocked(i)
  BY <1>3, DroppedGuards DEF Blocked, Dropped, connection, Pending
<1>4. CASE AwaitSlot(i)
  BY <1>4, AwaitSlotGuards
<1>5. CASE Issue(i)
  BY <1>5, IssueGuards
<1>6. CASE StreamOverflows(i)
  BY <1>6, FinishedGuards DEF StreamOverflows, Shrunk
<1>7. CASE Cancel(i)
  <2>1. CASE Pending(i)
    BY <1>7, <2>1, ExpiredGuards DEF Cancel
  <2>2. CASE ~Pending(i)
    BY <1>7, <2>2, DroppedGuards DEF Cancel, Dropped, connection
  <2> QED
    BY <2>1, <2>2
<1> QED
  BY <1>1, <1>2, <1>3, <1>4, <1>5, <1>6, <1>7

\* GuardInv is inductive, with TransportInv.
LEMMA GuardInvInductive ==
    ASSUME TransportInv, GuardInv, ~ReuseWhileWriting, [TransportNext]_transportVars
    PROVE  GuardInv'
<1> USE Limits
<1>1. ASSUME NEW i \in Caller,
             \/ Request(i) \/ Negotiate(i) \/ Blocked(i) \/ AwaitSlot(i)
             \/ Issue(i) \/ StreamOverflows(i) \/ Cancel(i)
      PROVE  GuardInv'
  BY <1>1, CallerGuards
<1>2. ASSUME NEW i \in Ids, Timeout(i) PROVE GuardInv'
  <2>1. (i = Control \/ SingleFlight) \in BOOLEAN
    BY DEF SingleFlight
  <2> QED
    BY <1>2, <2>1, ExpiredGuards DEF Timeout
<1>3. ASSUME NEW mode \in Modes, HelloAnswered(mode) PROVE GuardInv'
  BY <1>3, HelloAnsweredGuards
<1>4. ASSUME NEW k \in Tails, WriteStart(k) \/ WriteRefused(k) \/ WriteSettles(k)
      PROVE  GuardInv'
  BY <1>4, WriteStartGuards, WritesGuards
<1>5. ASSUME NEW call \in owed, Answered(call) PROVE GuardInv'
  BY <1>5, AnsweredGuards
<1>6. CASE UnknownAnswered
  BY <1>6, QuarantineGuards DEF UnknownAnswered
<1>7. CASE ChildEnds \/ TombstoneExpires \/ QuarantineExpires
  <2>1. Terminated(tails)
    BY <1>7 DEF ChildEnds, TombstoneExpires, QuarantineExpires
  <2> QED
    BY <2>1, TerminatedGuards DEF Terminated, Shrunk
<1>8. CASE Close
  BY <1>8, TerminatedGuards DEF Close, Shrunk
<1>9. CASE UNCHANGED transportVars
  <2>1. UNCHANGED <<route, owed, tombstones, tails>>
    BY <1>9 DEF transportVars, calls, guards, connection
  <2>2. From(tails', tails) /\ OncePerCall(tails')
    BY <2>1 DEF From, GuardInv, LinesInv
  <2>3. LinesInv'
    BY <2>1, <2>2, LinesKept DEF GuardInv, TransportInv
  <2>4. OwedInv'
    BY <2>1 DEF GuardInv, OwedInv, LateAnswersGuarded, Entombed, Pending, Idle
  <2> QED
    BY <2>3, <2>4 DEF GuardInv
<1> QED
  BY <1>1, <1>2, <1>3, <1>4, <1>5, <1>6, <1>7, <1>8, <1>9 DEF TransportNext, Tails

\* Nothing is owed and no line is queued at first.
LEMMA GuardInvInit == ASSUME TransportInit PROVE GuardInv
<1>1. tails.current = <<>> /\ tails.retired = <<>> /\ Len(<<>>) = 0
  BY DEF TransportInit
<1>2. LinesInv
  BY <1>1 DEF LinesInv, OncePerCall, Tails
<1>3. OwedInv
  BY DEF TransportInit, OwedInv, LateAnswersGuarded
<1> QED
  BY <1>2, <1>3 DEF GuardInv

\* What is owed and queued stays as the invariant says, while no id is used again with
\* a line of it queued.
LEMMA GuardInvariant == ASSUME ~ReuseWhileWriting PROVE TransportSpec => [](TransportInv /\ GuardInv)
<1>1. TransportInit => TransportInv /\ GuardInv
  BY TransportInvInit, GuardInvInit
<1>2. (TransportInv /\ GuardInv) /\ [TransportNext]_transportVars => (TransportInv /\ GuardInv)'
  BY TransportInvInductive, GuardInvInductive
<1> QED
  BY <1>1, <1>2, PTL DEF TransportSpec

\* An answer that is still to come finds its own call, or a tombstone that drains it,
\* in whatever order calls end and answers come, and across the handshakes of one
\* child.
THEOREM LateAnswersFindTheirCall ==
    ASSUME ~ReuseWhileWriting PROVE TransportSpec => []LateAnswersGuarded
<1>1. TransportInv /\ GuardInv => LateAnswersGuarded
  BY DEF GuardInv, OwedInv
<1> QED
  BY <1>1, GuardInvariant, PTL

\* An answer is given to no call but its own, while no id is used again with a line of
\* it queued: that reuse is the only way in which one goes astray.
THEOREM NoRouteIsGuessed ==
    ASSUME ~ReuseWhileWriting PROVE TransportSpec => []NoGuessedRoute
<1>1. TransportInv /\ GuardInv => NoGuessedRoute
  <2> SUFFICES ASSUME TransportInv, GuardInv, NEW call \in owed, Routed(call)
               PROVE  route[call.id].use = call.use
    BY DEF NoGuessedRoute
  <2>1. call.id \in Ids
    BY DEF TransportInv, TransportTypeOK
  <2> QED
    BY <2>1 DEF GuardInv, OwedInv, Routed, Ids
<1> QED
  BY <1>1, GuardInvariant, PTL

\* A step that owes an answer more owes it of a call that is alive.
LEMMA OwedOfLiveCalls ==
    ASSUME TransportInv, GuardInv, [TransportNext]_transportVars
    PROVE  \A call \in owed' \ owed : Pending(call.id) /\ route[call.id].use = call.use
<1>1. CASE \E k \in Tails : WriteStart(k)
  <2>1. PICK k \in Tails : WriteStart(k)
    BY <1>1
  <2> DEFINE l == Head(tails[k])
  <2>2. /\ owed' = owed \cup {[id |-> l.id, use |-> l.use]}
        /\ Pending(l.id) /\ route[l.id].use = l.use
    BY <2>1, NewlyOwed
  <2> HIDE DEF l
  <2>3. \A call \in owed' \ owed : call.id = l.id /\ call.use = l.use
    BY <2>2
  <2> QED
    BY <2>2, <2>3
<1>2. CASE ~\E k \in Tails : WriteStart(k)
  <2> SUFFICES owed' \subseteq owed
    OBVIOUS
  <2>1. ASSUME NEW i, NEW tombstone, NEW t, NEW answered \in SUBSET owed,
               Finished(i, tombstone, t, answered)
        PROVE  owed' \subseteq owed
    BY <2>1 DEF Finished, Terminated, TerminatedTo
  <2>2. ASSUME NEW i, NEW fatal, Expired(i, fatal) PROVE owed' \subseteq owed
    BY <2>1, <2>2 DEF Expired, Terminated, TerminatedTo
  <2>3. ASSUME NEW rest \in SUBSET owed, Quarantine(rest) PROVE owed' \subseteq owed
    BY <2>3 DEF Quarantine, Terminated, TerminatedTo
  <2>4. ASSUME NEW k \in Tails, NEW tombstone, WriteFailed(k, tombstone) PROVE owed' \subseteq owed
    BY <2>1, <2>4 DEF WriteFailed, Terminated, TerminatedTo, connection
  <2>5. ASSUME NEW i \in Caller,
               \/ Request(i) \/ Negotiate(i) \/ Blocked(i) \/ AwaitSlot(i)
               \/ Issue(i) \/ StreamOverflows(i) \/ Cancel(i)
        PROVE  owed' \subseteq owed
    <3>1. CASE Request(i) \/ Negotiate(i) \/ Blocked(i) \/ AwaitSlot(i) \/ Issue(i)
      BY <3>1 DEF Request, Negotiate, Blocked, AwaitSlot, Issue, connection
    <3>2. CASE StreamOverflows(i)
      BY <2>1, <3>2 DEF StreamOverflows
    <3>3. CASE Cancel(i)
      BY <2>2, <3>3 DEF Cancel, connection
    <3> QED
      BY <2>5, <3>1, <3>2, <3>3
  <2>6. ASSUME NEW i \in Ids, Timeout(i) PROVE owed' \subseteq owed
    BY <2>2, <2>6 DEF Timeout
  <2>7. ASSUME NEW mode \in Modes, HelloAnswered(mode) PROVE owed' \subseteq owed
    BY <2>7 DEF HelloAnswered, Terminated, TerminatedTo
  <2>8. ASSUME NEW k \in Tails, WriteRefused(k) \/ WriteSettles(k) PROVE owed' \subseteq owed
    BY <2>4, <2>8 DEF WriteRefused, WriteSettles, connection
  <2>9. ASSUME NEW call \in owed, Answered(call) PROVE owed' \subseteq owed
    <3>1. owed \ {call} \subseteq owed
      OBVIOUS
    <3> QED
      BY <2>1, <2>3, <2>9, <3>1 DEF Answered, LateAnswer
  <2>10. CASE UnknownAnswered
    BY <2>3, <2>10 DEF UnknownAnswered
  <2>11. CASE ChildEnds \/ TombstoneExpires \/ QuarantineExpires \/ Close
    BY <2>11 DEF ChildEnds, TombstoneExpires, QuarantineExpires, Close, Terminated, TerminatedTo
  <2>12. CASE UNCHANGED transportVars
    BY <2>12 DEF transportVars, connection
  <2> QED
    BY <1>2, <2>5, <2>6, <2>7, <2>8, <2>9, <2>10, <2>11, <2>12 DEF TransportNext, Tails
<1> QED
  BY <1>1, <1>2

\* A call that was cancelled, timed out or rejected while its line was queued is not
\* written later.
THEOREM EndedCallsAreNotWritten ==
    ASSUME ~ReuseWhileWriting PROVE TransportSpec => EndedIsNeverWritten
<1>1. /\ TransportInv /\ GuardInv
      /\ [TransportNext]_transportVars
      => [\A call \in owed' \ owed : Pending(call.id) /\ route[call.id].use = call.use]_transportVars
  BY OwedOfLiveCalls
<1> QED
  BY <1>1, GuardInvariant, PTL DEF TransportSpec, EndedIsNeverWritten

=============================================================================
