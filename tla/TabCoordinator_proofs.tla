------------------------ MODULE TabCoordinator_proofs ------------------------
(***************************************************************************)
(* However many requests, tabs and priorities there are: the browser is    *)
(* not shared with an exclusive callback, a gate is not replaced under     *)
(* live requests, its books are those of the requests, and a tab that      *)
(* waits at it is overtaken a bounded number of times.                     *)
(***************************************************************************)
EXTENDS TabCoordinator, FiniteSetTheorems, SequenceTheorems, WellFoundedInduction, TLAPS

Held == {"atGate", "rejected", "granted", "running"}
Alive == Stages \ {"idle"}
Leased == {"granted", "running"}

\* An actor's queue holds its queued requests, each once, and its active one is
\* the one that was started and has not settled.
Placement ==
    /\ \A a \in Resource : Range(queue[a]) =
          {r \in Request : req[r].stage = "queued" /\ req[r].on = a}
    /\ \A a \in Resource : \A i, j \in 1 .. Len(queue[a]) :
          queue[a][i] = queue[a][j] => i = j
    /\ \A a \in Resource, r \in Request :
          active[a] = r <=> req[r].stage \in Held /\ req[r].on = a

\* A live request has a gate, and a slot that is free has none.
Gated == \A r \in Request : req[r].gate \in Gates <=> Live(r)

\* The requests of gate g at the given stages, those of tabs among them, and what
\* GateMatchesRequests says of one gate.
Placed(g, S) == {r \in Request : req[r].gate = g /\ req[r].stage \in S}
TabsPlaced(g, S) == SharedOf(Placed(g, S))
Matches(g) ==
    /\ gates[g].shared \cup gates[g].exclusive = Placed(g, Leased)
    /\ gates[g].started = Placed(g, {"atGate"})
    /\ gates[g].queued = Placed(g, {"atGate"}) \cup ExclusiveOf(Placed(g, {"queued"}))
    /\ gates[g].pending = Cardinality(TabsPlaced(g, {"queued"}))
    /\ gates[g].accepted = Cardinality(TabsPlaced(g, Alive))
    /\ GateLoad(gates[g]) <= MaxQueueSize

\* Leases are of one sort at a time: tabs, or the browser.
OneSort(g) ==
    /\ \A r \in gates[g].shared : ~IsExclusive(r)
    /\ \A r \in gates[g].exclusive : IsExclusive(r)
    /\ gates[g].shared = {} \/ gates[g].exclusive = {}

\* The turns a waiting request was overtaken by are counted against the gate.
TurnsCounted ==
    \A r \in Request :
        /\ req[r].overtaken <= MaxConsecutiveExclusives
        /\ req[r].stage = "atGate" => req[r].overtaken <= gates[req[r].gate].turns
        /\ req[r].stage \in {"idle", "queued"} \/ IsExclusive(r) => req[r].overtaken = 0

Books == \A g \in Gates : Matches(g) /\ OneSort(g)

CoordInv == CoordTypeOK /\ Placement /\ Gated /\ Books /\ OneGate /\ TurnsCounted

-----------------------------------------------------------------------------
(* Queues *)

\* A set of naturals has a least element.
LEMMA LeastOf ==
    ASSUME NEW T, T \subseteq Nat, T # {}
    PROVE  \E x \in T : \A y \in T : x <= y
<1>1. IsWellFoundedOn(OpToRel(<, Nat), Nat)
  BY NatLessThanWellFounded
<1>2. OpToRel(<, Nat) = {ss \in Nat \X Nat : ss[1] < ss[2]}
  BY DEF OpToRel
<1>3. PICK x \in T : \A y \in T : ~(<<y, x>> \in OpToRel(<, Nat))
  <2> DEFINE R == OpToRel(<, Nat)
  <2>1. IsWellFoundedOn(R, Nat)
    BY <1>1
  <2> HIDE DEF R
  <2>2. \E x \in T : \A y \in T : ~(<<y, x>> \in R)
    BY <2>1, WFMin
  <2> QED
    BY <2>2 DEF R
<1>4. \A y \in T : ~(y < x)
  BY <1>2, <1>3
<1> QED
  BY <1>4

\* RemoveAt closes the gap it leaves.
LEMMA RemoveAtClosesGap ==
    ASSUME NEW T, NEW s \in Seq(T), NEW i \in 1 .. Len(s)
    PROVE  /\ RemoveAt(s, i) \in Seq(T)
           /\ Len(RemoveAt(s, i)) = Len(s) - 1
           /\ \A j \in 1 .. Len(s) - 1 :
                 RemoveAt(s, i)[j] = s[IF j < i THEN j ELSE j + 1]
<1> DEFINE left == SubSeq(s, 1, i - 1)
           right == SubSeq(s, i + 1, Len(s))
<1>1. Len(s) \in Nat /\ i \in Nat /\ i >= 1 /\ i <= Len(s)
  BY LenProperties
<1>2. /\ left \in Seq(T) /\ Len(left) = i - 1
      /\ \A j \in 1 .. i - 1 : left[j] = s[j]
  BY <1>1, SubSeqProperties
<1>3. /\ right \in Seq(T) /\ Len(right) = Len(s) - i
      /\ \A j \in 1 .. Len(s) - i : right[j] = s[i + j]
  BY <1>1, SubSeqProperties
<1>4. RemoveAt(s, i) = left \o right
  BY DEF RemoveAt
<1> HIDE DEF left, right
<1>5. /\ left \o right \in Seq(T) /\ Len(left \o right) = Len(left) + Len(right)
      /\ \A j \in 1 .. Len(left) + Len(right) :
            (left \o right)[j] = IF j <= Len(left) THEN left[j] ELSE right[j - Len(left)]
  BY <1>2, <1>3, ConcatProperties
<1>6. ASSUME NEW j \in 1 .. Len(s) - 1
      PROVE  (left \o right)[j] = s[IF j < i THEN j ELSE j + 1]
  <2>1. CASE j < i
    BY <1>1, <1>2, <1>3, <1>5, <2>1
  <2>2. CASE ~(j < i)
    <3>1. j - (i - 1) \in 1 .. Len(s) - i /\ i + (j - (i - 1)) = j + 1
      BY <1>1, <2>2
    <3>2. (left \o right)[j] = right[j - (i - 1)]
      BY <1>1, <1>2, <1>3, <1>5, <2>2
    <3> QED
      BY <1>3, <2>2, <3>1, <3>2
  <2> QED
    BY <2>1, <2>2
<1> QED
  BY <1>1, <1>2, <1>3, <1>4, <1>5, <1>6

\* The first of some queued requests is one of them.
LEMMA FirstIsOne ==
    ASSUME NEW a, NEW S, queue[a] \in Seq(Request), S \cap Range(queue[a]) # {}
    PROVE  FirstOf(a, S) \in S \cap Range(queue[a])
<1> DEFINE at == {i \in DOMAIN queue[a] : queue[a][i] \in S}
<1>1. DOMAIN queue[a] = 1 .. Len(queue[a]) /\ Len(queue[a]) \in Nat
  BY LenProperties
<1>2. at \subseteq Nat /\ at # {}
  BY <1>1 DEF Range
<1>3. \E i \in at : \A j \in at : i <= j
  BY <1>2, LeastOf
<1> QED
  BY <1>3 DEF FirstOf, Range

\* Without takes one request out of a queue that has it once.
LEMMA WithoutOne ==
    ASSUME NEW a, NEW r \in Range(queue[a]), queue[a] \in Seq(Request),
           \A i, j \in 1 .. Len(queue[a]) : queue[a][i] = queue[a][j] => i = j
    PROVE  /\ Without(a, r) \in Seq(Request)
           /\ Range(Without(a, r)) = Range(queue[a]) \ {r}
           /\ \A i, j \in 1 .. Len(Without(a, r)) :
                 Without(a, r)[i] = Without(a, r)[j] => i = j
<1> DEFINE s == queue[a]
           i == CHOOSE k \in DOMAIN s : s[k] = r
           w == RemoveAt(s, i)
<1>1. DOMAIN s = 1 .. Len(s) /\ Len(s) \in Nat
  BY LenProperties
<1>2. i \in 1 .. Len(s) /\ s[i] = r
  BY <1>1 DEF Range
<1>3. Without(a, r) = w
  BY DEF Without
<1> HIDE DEF i
<1>4. /\ w \in Seq(Request) /\ Len(w) = Len(s) - 1
      /\ \A j \in 1 .. Len(s) - 1 : w[j] = s[IF j < i THEN j ELSE j + 1]
  BY <1>2, RemoveAtClosesGap
<1> HIDE DEF w
<1> DEFINE old(j) == IF j < i THEN j ELSE j + 1
<1>5. /\ DOMAIN w = 1 .. Len(s) - 1
      /\ \A j \in 1 .. Len(s) - 1 : old(j) \in 1 .. Len(s) /\ old(j) # i
      /\ \A j, k \in 1 .. Len(s) - 1 : old(j) = old(k) => j = k
  BY <1>1, <1>2, <1>4, LenProperties
<1>6. ASSUME NEW k \in 1 .. Len(s), k # i
      PROVE  \E j \in 1 .. Len(s) - 1 : old(j) = k
  <2>1. CASE k < i
    <3>1. k \in 1 .. Len(s) - 1 /\ old(k) = k
      BY <1>1, <1>2, <2>1
    <3> QED
      BY <3>1
  <2>2. CASE k > i
    <3>1. k - 1 \in 1 .. Len(s) - 1 /\ old(k - 1) = k
      BY <1>1, <1>2, <2>2
    <3> QED
      BY <3>1
  <2> QED
    BY <1>1, <1>2, <1>6, <2>1, <2>2
<1>7. \A j \in 1 .. Len(s) - 1 : w[j] = s[old(j)]
  BY <1>4
<1> HIDE DEF old
<1>8. \A x : x \in Range(w) <=> x \in Range(s) /\ x # r
  <2>1. ASSUME NEW x \in Range(w)
        PROVE  x \in Range(s) /\ x # r
    <3>1. PICK j \in 1 .. Len(s) - 1 : x = w[j]
      BY <1>5 DEF Range
    <3> QED
      BY <1>1, <1>2, <1>5, <1>7, <3>1 DEF Range
  <2>2. ASSUME NEW x \in Range(s), x # r
        PROVE  x \in Range(w)
    <3>1. PICK k \in 1 .. Len(s) : x = s[k]
      BY <1>1 DEF Range
    <3>2. PICK j \in 1 .. Len(s) - 1 : old(j) = k
      BY <1>2, <1>6, <2>2, <3>1
    <3> QED
      BY <1>5, <1>7, <3>1, <3>2 DEF Range
  <2> QED
    BY <2>1, <2>2
<1>9. ASSUME NEW j \in 1 .. Len(w), NEW k \in 1 .. Len(w), w[j] = w[k]
      PROVE  j = k
  <2>1. j \in 1 .. Len(s) - 1 /\ k \in 1 .. Len(s) - 1
    BY <1>4
  <2>2. s[old(j)] = s[old(k)]
    BY <1>7, <1>9, <2>1
  <2>3. old(j) = old(k)
    BY <1>5, <2>1, <2>2
  <2> QED
    BY <1>5, <2>1, <2>3
<1> QED
  BY <1>3, <1>4, <1>8, <1>9

\* An actor with a queue has a next request, one of its own.
LEMMA NextIsQueued ==
    ASSUME CoordTypeOK, Placement, NEW a \in Resource, queue[a] # <<>>
    PROVE  NextOf(a) \in Range(queue[a])
<1>1. queue[a] \in Seq(Request) /\ Range(queue[a]) # {}
  <2>1. queue[a] \in Seq(Request)
    BY DEF CoordTypeOK
  <2>2. 1 \in DOMAIN queue[a]
    BY <2>1, EmptySeq, LenProperties
  <2> QED
    BY <2>1, <2>2 DEF Range
<1>2. \A r \in Range(queue[a]) : req[r].priority \in {"read", "mutation", "control"}
  <2>1. \A r \in Range(queue[a]) : r \in Request
    BY DEF Placement
  <2>2. \A r \in Request : req[r].priority \in Priority \cup {"read"}
    BY DEF CoordTypeOK, RequestType
  <2> QED
    BY <2>1, <2>2, CoordinatorAssumption
<1>3. AgedOf(a) # {} \/ Waiting(a, ByPriority(a)) # {}
  BY <1>1, <1>2 DEF ByPriority, Has, Waiting
<1>4. AgedOf(a) \subseteq Range(queue[a]) /\ Waiting(a, ByPriority(a)) \subseteq Range(queue[a])
  BY DEF AgedOf, Waiting
<1> HIDE DEF AgedOf, Waiting
<1>5. CASE AgedOf(a) # {}
  BY <1>1, <1>4, <1>5, FirstIsOne DEF NextOf
<1>6. CASE AgedOf(a) = {}
  BY <1>1, <1>3, <1>4, <1>6, FirstIsOne DEF NextOf
<1> QED
  BY <1>5, <1>6

-----------------------------------------------------------------------------
(* One request moves *)

\* Request r becomes q and the others stay.
Moves(r, q) ==
    /\ req \in [Request -> RequestType] /\ q \in RequestType
    /\ req' = [req EXCEPT ![r] = q]

\* When one request changes, each gate gains or loses that one at most.
LEMMA OneMoves ==
    ASSUME NEW r \in Request, req' \in [Request -> RequestType],
           req \in [Request -> RequestType],
           \A s \in Request : s # r => req'[s] = req[s],
           NEW g, NEW S
    PROVE  /\ Placed(g, S)' =
                IF req'[r].gate = g /\ req'[r].stage \in S
                THEN Placed(g, S) \cup {r} ELSE Placed(g, S) \ {r}
           /\ TabsPlaced(g, S)' =
                IF req'[r].gate = g /\ req'[r].stage \in S /\ req'[r].on # Browser
                THEN TabsPlaced(g, S) \cup {r} ELSE TabsPlaced(g, S) \ {r}
           /\ ExclusiveOf(Placed(g, S))' =
                IF req'[r].gate = g /\ req'[r].stage \in S /\ req'[r].on = Browser
                THEN ExclusiveOf(Placed(g, S)) \cup {r}
                ELSE ExclusiveOf(Placed(g, S)) \ {r}
<1>1. Placed(g, S)' = {s \in Request : req'[s].gate = g /\ req'[s].stage \in S}
  BY DEF Placed
<1>2. TabsPlaced(g, S)' = {s \in Request : req'[s].gate = g /\ req'[s].stage \in S
                                              /\ req'[s].on # Browser}
  BY DEF TabsPlaced, SharedOf, Placed, IsExclusive
<1>3. ExclusiveOf(Placed(g, S))' =
         {s \in Request : req'[s].gate = g /\ req'[s].stage \in S /\ req'[s].on = Browser}
  BY DEF ExclusiveOf, Placed, IsExclusive
<1>4. /\ Placed(g, S) = {s \in Request : req[s].gate = g /\ req[s].stage \in S}
      /\ TabsPlaced(g, S) = {s \in Request : req[s].gate = g /\ req[s].stage \in S
                                              /\ req[s].on # Browser}
      /\ ExclusiveOf(Placed(g, S)) =
         {s \in Request : req[s].gate = g /\ req[s].stage \in S /\ req[s].on = Browser}
  BY DEF TabsPlaced, ExclusiveOf, SharedOf, Placed, IsExclusive
<1>5. Placed(g, S)' =
         IF req'[r].gate = g /\ req'[r].stage \in S
         THEN Placed(g, S) \cup {r} ELSE Placed(g, S) \ {r}
  BY <1>1, <1>4
<1>6. TabsPlaced(g, S)' =
         IF req'[r].gate = g /\ req'[r].stage \in S /\ req'[r].on # Browser
         THEN TabsPlaced(g, S) \cup {r} ELSE TabsPlaced(g, S) \ {r}
  BY <1>2, <1>4
<1>7. ExclusiveOf(Placed(g, S))' =
         IF req'[r].gate = g /\ req'[r].stage \in S /\ req'[r].on = Browser
         THEN ExclusiveOf(Placed(g, S)) \cup {r} ELSE ExclusiveOf(Placed(g, S)) \ {r}
  BY <1>3, <1>4
<1> QED
  BY <1>5, <1>6, <1>7

\* The same for the requests at a gate alone.
LEMMA PlacedMove ==
    ASSUME NEW r \in Request, NEW q, Moves(r, q), NEW g, NEW S
    PROVE  Placed(g, S)' =
              IF q.gate = g /\ q.stage \in S
              THEN Placed(g, S) \cup {r} ELSE Placed(g, S) \ {r}
<1>1. /\ req' \in [Request -> RequestType] /\ req'[r] = q
      /\ \A s \in Request : s # r => req'[s] = req[s]
      /\ req \in [Request -> RequestType]
  BY DEF Moves
<1>2. Placed(g, S)' =
         IF req'[r].gate = g /\ req'[r].stage \in S
         THEN Placed(g, S) \cup {r} ELSE Placed(g, S) \ {r}
  BY <1>1, OneMoves
<1> QED
  BY <1>1, <1>2

\* The same for the requests of the tabs at a gate alone.
LEMMA TabsMove ==
    ASSUME NEW r \in Request, NEW q, Moves(r, q), NEW g, NEW S
    PROVE  TabsPlaced(g, S)' =
              IF q.gate = g /\ q.stage \in S /\ q.on # Browser
              THEN TabsPlaced(g, S) \cup {r} ELSE TabsPlaced(g, S) \ {r}
<1>1. /\ req' \in [Request -> RequestType] /\ req'[r] = q
      /\ \A s \in Request : s # r => req'[s] = req[s]
      /\ req \in [Request -> RequestType]
  BY DEF Moves
<1>2. TabsPlaced(g, S)' =
         IF req'[r].gate = g /\ req'[r].stage \in S /\ req'[r].on # Browser
         THEN TabsPlaced(g, S) \cup {r} ELSE TabsPlaced(g, S) \ {r}
  BY <1>1, OneMoves
<1> QED
  BY <1>1, <1>2

\* The same for the requests of the browser at a gate alone.
LEMMA ExclusiveMove ==
    ASSUME NEW r \in Request, NEW q, Moves(r, q), NEW g, NEW S
    PROVE  ExclusiveOf(Placed(g, S))' =
              IF q.gate = g /\ q.stage \in S /\ q.on = Browser
              THEN ExclusiveOf(Placed(g, S)) \cup {r} ELSE ExclusiveOf(Placed(g, S)) \ {r}
<1>1. /\ req' \in [Request -> RequestType] /\ req'[r] = q
      /\ \A s \in Request : s # r => req'[s] = req[s]
      /\ req \in [Request -> RequestType]
  BY DEF Moves
<1>2. ExclusiveOf(Placed(g, S))' =
         IF req'[r].gate = g /\ req'[r].stage \in S /\ req'[r].on = Browser
         THEN ExclusiveOf(Placed(g, S)) \cup {r} ELSE ExclusiveOf(Placed(g, S)) \ {r}
  BY <1>1, OneMoves
<1> QED
  BY <1>1, <1>2

\* There are finitely many requests to count.
LEMMA PlacedFinite ==
    ASSUME NEW g, NEW S
    PROVE  /\ Placed(g, S) \subseteq Request /\ TabsPlaced(g, S) \subseteq Request
           /\ IsFiniteSet(Placed(g, S)) /\ IsFiniteSet(TabsPlaced(g, S))
<1>1. Placed(g, S) \subseteq Request /\ TabsPlaced(g, S) \subseteq Request
  BY DEF Placed, TabsPlaced, SharedOf
<1> QED
  BY <1>1, FS_Subset, CoordinatorAssumption

\* A gate no request of which changes is left as it is.
LEMMA OtherGate ==
    ASSUME NEW r \in Request, NEW q, Moves(r, q), NEW g \in Gates, gates'[g] = gates[g],
           req[r].gate # g, q.gate # g, Matches(g), OneSort(g)
    PROVE  Matches(g)' /\ OneSort(g)'
<1>1. \A S : r \notin Placed(g, S) /\ r \notin TabsPlaced(g, S)
               /\ r \notin ExclusiveOf(Placed(g, S))
  BY DEF Placed, TabsPlaced, SharedOf, ExclusiveOf
<1>2. ASSUME NEW S
      PROVE  /\ Placed(g, S)' = Placed(g, S) /\ TabsPlaced(g, S)' = TabsPlaced(g, S)
             /\ ExclusiveOf(Placed(g, S))' = ExclusiveOf(Placed(g, S))
  <2>1. r \notin Placed(g, S) /\ r \notin TabsPlaced(g, S)
          /\ r \notin ExclusiveOf(Placed(g, S))
    BY <1>1
  <2>2. Placed(g, S)' = Placed(g, S)
    BY <2>1, PlacedMove
  <2>3. TabsPlaced(g, S)' = TabsPlaced(g, S)
    <3>1. TabsPlaced(g, S)' = TabsPlaced(g, S) \ {r}
      BY TabsMove
    <3> QED
      BY <2>1, <3>1
  <2>4. ExclusiveOf(Placed(g, S))' = ExclusiveOf(Placed(g, S))
    BY <2>1, ExclusiveMove
  <2> QED
    BY <2>2, <2>3, <2>4
<1>3. Matches(g)'
  BY <1>2 DEF Matches, GateLoad
<1>4. gates[g].shared \cup gates[g].exclusive \subseteq Request \ {r}
  BY <1>1 DEF Matches, Placed
<1>5. OneSort(g)'
  BY <1>4 DEF Moves, OneSort, IsExclusive
<1> QED
  BY <1>3, <1>5

\* The fields of requests and gates have their types.
LEMMA FieldsTyped ==
    ASSUME CoordTypeOK
    PROVE  /\ \A r \in Request :
                 /\ req[r] \in RequestType
                 /\ req[r].stage \in Stages /\ req[r].on \in Resource
                 /\ req[r].gate \in Gates \cup {Nobody} /\ req[r].overtaken \in Nat
                 /\ req[r].priority \in Priority \cup {"read"}
           /\ \A g \in Gates :
                 /\ gates[g] \in GateType
                 /\ gates[g].accepted \in Nat /\ gates[g].pending \in Nat
                 /\ gates[g].turns \in 0 .. MaxConsecutiveExclusives
                 /\ gates[g].queued \subseteq Request /\ gates[g].started \subseteq Request
                 /\ gates[g].shared \subseteq Request /\ gates[g].exclusive \subseteq Request
           /\ MaxConsecutiveExclusives \in Nat \ {0} /\ MaxQueueSize \in Nat \ {0}
           /\ Browser \in Resource /\ Nobody \notin Request /\ Nobody \notin Gates
<1>1. /\ MaxConsecutiveExclusives \in Nat \ {0} /\ MaxQueueSize \in Nat \ {0}
      /\ Browser \in Resource /\ Nobody \notin Request /\ Nobody \notin Gates
  BY CoordinatorAssumption DEF Resource
<1>2. ASSUME NEW r \in Request
      PROVE  /\ req[r] \in RequestType
             /\ req[r].stage \in Stages /\ req[r].on \in Resource
             /\ req[r].gate \in Gates \cup {Nobody} /\ req[r].overtaken \in Nat
             /\ req[r].priority \in Priority \cup {"read"}
  BY DEF CoordTypeOK, RequestType
<1>3. ASSUME NEW g \in Gates
      PROVE  /\ gates[g] \in GateType
             /\ gates[g].accepted \in Nat /\ gates[g].pending \in Nat
             /\ gates[g].turns \in 0 .. MaxConsecutiveExclusives
             /\ gates[g].queued \subseteq Request /\ gates[g].started \subseteq Request
             /\ gates[g].shared \subseteq Request /\ gates[g].exclusive \subseteq Request
  BY DEF CoordTypeOK, GateType
<1> QED
  BY <1>1, <1>2, <1>3

\* A step within a stage the books do not tell apart leaves them right.
LEMMA SameStageKeepsBooks ==
    ASSUME NEW r \in Request, NEW q, Moves(r, q), q.gate = req[r].gate, q.on = req[r].on,
           \/ q.stage = req[r].stage
           \/ req[r].stage = "granted" /\ q.stage = "running",
           gates' = gates, Books
    PROVE  Books'
<1> SUFFICES ASSUME NEW g \in Gates PROVE Matches(g)' /\ OneSort(g)'
  BY DEF Books
<1>1. ASSUME NEW S \in {{"atGate"}, {"queued"}, Leased, Alive}
      PROVE  /\ Placed(g, S)' = Placed(g, S) /\ TabsPlaced(g, S)' = TabsPlaced(g, S)
             /\ ExclusiveOf(Placed(g, S))' = ExclusiveOf(Placed(g, S))
  <2>1. q.stage \in S <=> req[r].stage \in S
    BY <1>1 DEF Stages, Alive, Leased
  <2>2. /\ r \in Placed(g, S) <=> q.gate = g /\ q.stage \in S
        /\ r \in TabsPlaced(g, S) <=>
              q.gate = g /\ q.stage \in S /\ q.on # Browser
        /\ r \in ExclusiveOf(Placed(g, S)) <=>
              q.gate = g /\ q.stage \in S /\ q.on = Browser
    BY <2>1 DEF Placed, TabsPlaced, SharedOf, ExclusiveOf, IsExclusive
  <2>3. Placed(g, S)' = Placed(g, S)
    BY <2>2, PlacedMove
  <2>4. TabsPlaced(g, S)' = TabsPlaced(g, S)
    BY <2>2, TabsMove
  <2>5. ExclusiveOf(Placed(g, S))' = ExclusiveOf(Placed(g, S))
    BY <2>2, ExclusiveMove
  <2> QED
    BY <2>3, <2>4, <2>5
<1>2. Matches(g)'
  <2>1. Matches(g)
    BY DEF Books
  <2> QED
    BY <1>1, <2>1 DEF Matches, GateLoad
<1>3. OneSort(g)'
  <2>1. gates[g].shared \cup gates[g].exclusive \subseteq Request
    BY DEF Books, Matches, Placed
  <2>2. \A s \in Request : IsExclusive(s)' <=> IsExclusive(s)
    BY DEF IsExclusive, Moves
  <2> QED
    BY <2>1, <2>2 DEF Books, OneSort
<1> QED
  BY <1>2, <1>3

\* A gate is given up only with nobody at it.
LEMMA ReclaimKeepsGate ==
    ASSUME NEW r \in Request, NEW a \in Resource, NEW g \in Gates, NEW rec,
           Reclaim(a, g, rec), CoordTypeOK, CoordTypeOK', Placement', Gated', Books',
           OneGate, \A s \in Request : s # r => req'[s] = req[s], ~Live(r)'
    PROVE  OneGate'
<1> SUFFICES ASSUME NEW s \in Request, Live(s)', gate' # gate
             PROVE  FALSE
  BY DEF OneGate, Live
<1>a. gate # Nobody
  BY DEF Reclaim
<1>2. PICK h \in Gates : h = gate
  BY <1>a DEF CoordTypeOK
<1>1. /\ GateIdle(gates'[h]) /\ queue'[Browser] = <<>> /\ active'[Browser] = Nobody
  BY <1>2 DEF Reclaim
<1>3. s # r /\ req'[s].gate = h
  BY <1>2 DEF OneGate, Live
<1>4. Matches(h)' /\ req'[s].stage \in Alive
  <2>1. req'[s] \in RequestType
    BY DEF CoordTypeOK
  <2> QED
    BY <1>2, <2>1 DEF Books, Live, RequestType, Alive
<1>5. TabsPlaced(h, Alive)' = {}
  <2>1. TabsPlaced(h, Alive)' \subseteq Request
    BY DEF TabsPlaced, Placed, SharedOf
  <2>2. Cardinality(TabsPlaced(h, Alive)') = 0
    BY <1>1, <1>4 DEF Matches, GateIdle
  <2>3. IsFiniteSet(TabsPlaced(h, Alive)')
    BY <2>1, FS_Subset, CoordinatorAssumption
  <2> QED
    BY <2>2, <2>3, FS_EmptySet
<1>6. s \in Placed(h, Alive)'
  BY <1>3, <1>4 DEF Placed
<1>7. req'[s].on = Browser
  BY <1>5, <1>6 DEF TabsPlaced, SharedOf, IsExclusive
<1>8. req'[s].stage \notin Held
  <2>1. active'[Browser] # s
    BY <1>1, CoordinatorAssumption
  <2> QED
    BY <1>7, <2>1 DEF Placement, Resource
<1>9. req'[s].stage = "queued"
  BY <1>4, <1>8 DEF Stages, Held, Alive
<1>10. s \in ExclusiveOf(Placed(h, {"queued"}))'
  BY <1>3, <1>7, <1>9 DEF ExclusiveOf, Placed, IsExclusive
<1> QED
  BY <1>1, <1>4, <1>10 DEF Matches, GateIdle

-----------------------------------------------------------------------------
(* Steps of the requests *)

\* A step that leaves a request where it is.
LEMMA SameStageKeeps ==
    ASSUME CoordInv, NEW r \in Request, NEW q \in RequestType,
           req' = [req EXCEPT ![r] = q], q.gate = req[r].gate, q.on = req[r].on,
           q.overtaken = req[r].overtaken,
           \/ q.stage = req[r].stage
           \/ req[r].stage = "granted" /\ q.stage = "running",
           UNCHANGED <<actorVars, gate, gates>>, cancels' \in 0 .. MaxCancels
    PROVE  CoordInv'
<1> USE DEF CoordInv
<1>1. req \in [Request -> RequestType] /\ req' \in [Request -> RequestType]
  BY DEF CoordTypeOK
<1>2. req'[r] = q /\ \A s \in Request : s # r => req'[s] = req[s]
  BY <1>1
<1>3. CoordTypeOK'
  BY <1>1 DEF CoordTypeOK, actorVars
<1>4. \A s \in Request :
        /\ req'[s].gate = req[s].gate /\ req'[s].on = req[s].on
        /\ req'[s].overtaken = req[s].overtaken
        /\ req'[s].stage \in Held <=> req[s].stage \in Held
        /\ \A l \in {"idle", "queued", "atGate"} : req'[s].stage = l <=> req[s].stage = l
  BY <1>2 DEF Held
<1>5. Placement'
  BY <1>4 DEF Placement, actorVars
<1>6. Gated' /\ OneGate'
  BY <1>4 DEF Gated, OneGate, Live
<1>7. Books'
  <2>1. Moves(r, q)
    BY <1>1 DEF Moves
  <2> QED
    BY <2>1, SameStageKeepsBooks
<1>8. TurnsCounted'
  BY <1>4 DEF TurnsCounted, IsExclusive
<1> QED
  BY <1>3, <1>5, <1>6, <1>7, <1>8

\* The lease arriving is such a step.
LEMMA CallBackKeeps ==
    ASSUME CoordInv, NEW r \in Request, CallBack(r)
    PROVE  CoordInv'
<1> DEFINE q == [req[r] EXCEPT !.stage = "running"]
<1>1. req[r] \in RequestType
  BY FieldsTyped DEF CoordInv
<1>2. q \in RequestType /\ q.gate = req[r].gate /\ q.on = req[r].on
      /\ q.overtaken = req[r].overtaken /\ q.stage = "running"
  BY <1>1 DEF RequestType, Stages
<1>3. req' = [req EXCEPT ![r] = q]
  BY DEF CallBack
<1>4. req[r].stage = "granted" /\ UNCHANGED <<actorVars, gate, gates, cancels>>
  BY DEF CallBack
<1> HIDE DEF q
<1> QED
  BY <1>2, <1>3, <1>4, SameStageKeeps DEF CoordInv, CoordTypeOK

\* So is the passing of maxWaitMs.
LEMMA AgeKeeps ==
    ASSUME CoordInv, NEW r \in Request, Age(r)
    PROVE  CoordInv'
<1> DEFINE q == [req[r] EXCEPT !.aged = TRUE]
<1>1. req[r] \in RequestType
  BY FieldsTyped DEF CoordInv
<1>2. q \in RequestType /\ q.gate = req[r].gate /\ q.on = req[r].on
      /\ q.overtaken = req[r].overtaken /\ q.stage = req[r].stage
  BY <1>1 DEF RequestType
<1>3. req' = [req EXCEPT ![r] = q]
  BY DEF Age
<1>4. UNCHANGED <<actorVars, gate, gates, cancels>>
  BY DEF Age
<1> HIDE DEF q
<1> QED
  BY <1>2, <1>3, <1>4, SameStageKeeps DEF CoordInv, CoordTypeOK

\* A request cancelled in flight keeps its actor; at the gate it gives up its place.
LEMMA CancelInFlightKeeps ==
    ASSUME CoordInv, NEW r \in Request, CancelInFlight(r)
    PROVE  CoordInv'
<1> DEFINE q == [req[r] EXCEPT !.failed = TRUE,
                               !.stage = IF @ = "atGate" THEN "rejected" ELSE @]
<1>1. req[r] \in RequestType /\ req \in [Request -> RequestType]
  BY FieldsTyped DEF CoordInv, CoordTypeOK
<1>2. q \in RequestType /\ q.gate = req[r].gate /\ q.on = req[r].on
      /\ q.overtaken = req[r].overtaken
      /\ q.stage = IF req[r].stage = "atGate" THEN "rejected" ELSE req[r].stage
  BY <1>1 DEF RequestType, Stages
<1>3. req' = [req EXCEPT ![r] = q]
  BY DEF CancelInFlight
<1>4. cancels' \in 0 .. MaxCancels
  BY CoordinatorAssumption DEF CancelInFlight, Cancelled, CoordInv, CoordTypeOK
<1>5. UNCHANGED <<actorVars, gate>>
  BY DEF CancelInFlight
<1>6. gates' = IF req[r].stage # "atGate" THEN gates
               ELSE [gates EXCEPT ![req[r].gate] = Withdrawn(@, r)]
  BY DEF CancelInFlight
<1> HIDE DEF q
<1>7. CASE req[r].stage # "atGate"
  BY <1>2, <1>3, <1>4, <1>5, <1>6, <1>7, SameStageKeeps
<1>8. CASE req[r].stage = "atGate"
  <2> USE DEF CoordInv
  <2>a. Moves(r, q)
    BY <1>1, <1>2, <1>3 DEF Moves
  <2>1. PICK g \in Gates : g = req[r].gate
    BY <1>8 DEF Gated, Live
  <2>2. /\ req' \in [Request -> RequestType] /\ req'[r] = q
        /\ \A s \in Request : s # r => req'[s] = req[s]
    BY <1>1, <1>2, <1>3
  <2>3. /\ q.stage = "rejected" /\ gates' = [gates EXCEPT ![g] = Withdrawn(@, r)]
    BY <1>2, <1>6, <1>8, <2>1
  <2>4. /\ gates'[g].queued = gates[g].queued \ {r}
        /\ gates'[g].started = gates[g].started \ {r}
        /\ gates'[g].drain = TRUE
        /\ gates'[g].shared = gates[g].shared /\ gates'[g].exclusive = gates[g].exclusive
        /\ gates'[g].accepted = gates[g].accepted /\ gates'[g].pending = gates[g].pending
        /\ gates'[g].turns = gates[g].turns
        /\ gates'[g] \in GateType
        /\ \A h \in Gates : h # g => gates'[h] = gates[h]
    <3>1. gates \in [Gates -> GateType] /\ gates[g] \in GateType
      BY DEF CoordTypeOK
    <3>2. gates'[g] = Withdrawn(gates[g], r)
            /\ \A h \in Gates : h # g => gates'[h] = gates[h]
      BY <2>1, <2>3, <3>1
    <3> QED
      BY <3>1, <3>2 DEF Withdrawn, GateType
  <2>5. CoordTypeOK'
    <3>1. gates' \in [Gates -> GateType]
      BY <2>1, <2>3, <2>4 DEF CoordTypeOK
    <3> QED
      BY <1>4, <1>5, <2>2, <3>1 DEF CoordTypeOK, actorVars
  <2>6. \A s \in Request :
          /\ req'[s].gate = req[s].gate /\ req'[s].on = req[s].on
          /\ req'[s].overtaken = req[s].overtaken
          /\ req'[s].stage \in Held <=> req[s].stage \in Held
          /\ \A l \in {"idle", "queued"} : req'[s].stage = l <=> req[s].stage = l
          /\ req'[s].stage = "atGate" => req[s].stage = "atGate"
    BY <1>2, <1>8, <2>2, <2>3 DEF Held
  <2>7. Placement'
    BY <1>5, <2>6 DEF Placement, actorVars
  <2>8. Gated' /\ OneGate'
    BY <1>5, <2>6 DEF Gated, OneGate, Live
  <2>9. Matches(g)' /\ OneSort(g)'
    <3>1. Matches(g) /\ OneSort(g) /\ IsFiniteSet(gates[g].queued)
      <4>1. gates[g].queued \subseteq Request
        BY <2>1, FieldsTyped
      <4> QED
        BY <2>1, <4>1, FS_Subset, CoordinatorAssumption DEF Books
    <3>2. /\ Placed(g, Leased)' = Placed(g, Leased)
          /\ Placed(g, {"atGate"})' = Placed(g, {"atGate"}) \ {r}
      <4>1. r \notin Placed(g, Leased) /\ q.stage \notin Leased
        BY <1>8, <2>3 DEF Placed, Leased
      <4>2. Placed(g, Leased)' = Placed(g, Leased)
        BY <2>a, <4>1, PlacedMove
      <4>3. Placed(g, {"atGate"})' = Placed(g, {"atGate"}) \ {r}
        BY <2>a, <2>3, PlacedMove
      <4> QED
        BY <4>2, <4>3
    <3>3. /\ ExclusiveOf(Placed(g, {"queued"}))' = ExclusiveOf(Placed(g, {"queued"}))
          /\ r \notin ExclusiveOf(Placed(g, {"queued"}))
      <4>1. r \notin ExclusiveOf(Placed(g, {"queued"}))
        BY <1>8 DEF Placed, ExclusiveOf
      <4>2. ExclusiveOf(Placed(g, {"queued"}))' = ExclusiveOf(Placed(g, {"queued"})) \ {r}
        BY <2>a, <2>3, ExclusiveMove
      <4> QED
        BY <4>1, <4>2
    <3>4. TabsPlaced(g, {"queued"})' = TabsPlaced(g, {"queued"})
      <4>1. r \notin TabsPlaced(g, {"queued"})
        BY <1>8 DEF Placed, TabsPlaced, SharedOf
      <4>2. TabsPlaced(g, {"queued"})' = TabsPlaced(g, {"queued"}) \ {r}
        BY <2>a, <2>3, TabsMove
      <4> QED
        BY <4>1, <4>2
    <3>5. TabsPlaced(g, Alive)' = TabsPlaced(g, Alive)
      <4>1. /\ r \in TabsPlaced(g, Alive) <=> req[r].on # Browser
            /\ q.stage \in Alive
        BY <1>8, <2>1, <2>3 DEF Placed, TabsPlaced, SharedOf, IsExclusive, Stages, Alive
      <4>2. TabsPlaced(g, Alive)' =
              IF q.gate = g /\ q.stage \in Alive /\ q.on # Browser
              THEN TabsPlaced(g, Alive) \cup {r}
              ELSE TabsPlaced(g, Alive) \ {r}
        BY <2>a, TabsMove
      <4> QED
        BY <1>2, <2>1, <4>1, <4>2
    <3>6. Cardinality(gates'[g].queued) <= Cardinality(gates[g].queued)
            /\ Cardinality(gates'[g].queued) \in Nat
            /\ Cardinality(gates[g].queued) \in Nat
      BY <2>4, <3>1, FS_Subset, FS_CardinalityType
    <3>7. GateLoad(gates'[g]) <= MaxQueueSize
      BY <2>1, <2>4, <3>1, <3>6, FieldsTyped DEF GateLoad, Matches
    <3>8. Matches(g)'
      BY <2>4, <3>1, <3>2, <3>3, <3>4, <3>5, <3>7 DEF Matches
    <3>9. OneSort(g)'
      <4>1. gates[g].shared \subseteq Request /\ gates[g].exclusive \subseteq Request
        BY <2>1, FieldsTyped
      <4> QED
        BY <2>4, <2>6, <3>1, <4>1 DEF OneSort, IsExclusive
    <3> QED
      BY <3>8, <3>9
  <2>10. Books'
    <3> SUFFICES ASSUME NEW h \in Gates, h # g PROVE Matches(h)' /\ OneSort(h)'
      BY <2>9 DEF Books
    <3>1. gates'[h] = gates[h] /\ req[r].gate # h /\ q.gate # h
            /\ Matches(h) /\ OneSort(h)
      BY <1>2, <2>1, <2>4 DEF Books
    <3> QED
      BY <2>a, <3>1, OtherGate
  <2>11. TurnsCounted'
    <3>1. \A h \in Gates : gates'[h].turns = gates[h].turns
      BY <2>4
    <3>2. \A s \in Request : req[s].stage = "atGate" => req[s].gate \in Gates
      BY DEF Gated, Live
    <3> QED
      BY <2>6, <3>1, <3>2 DEF TurnsCounted, IsExclusive
  <2> QED
    BY <2>5, <2>7, <2>8, <2>10, <2>11
<1> QED
  BY <1>7, <1>8

\* One request less, or one more, in a count.
LEMMA CountOne ==
    ASSUME NEW g, NEW S, NEW r
    PROVE  /\ Cardinality(TabsPlaced(g, S)) \in Nat
           /\ r \in TabsPlaced(g, S) =>
                /\ Cardinality(TabsPlaced(g, S)) - 1 \in Nat
                /\ Cardinality(TabsPlaced(g, S) \ {r}) = Cardinality(TabsPlaced(g, S)) - 1
           /\ r \notin TabsPlaced(g, S) =>
                Cardinality(TabsPlaced(g, S) \cup {r}) = Cardinality(TabsPlaced(g, S)) + 1
<1> DEFINE T == TabsPlaced(g, S)
<1>1. IsFiniteSet(T)
  BY PlacedFinite
<1> HIDE DEF T
<1>2. /\ Cardinality(T) \in Nat
      /\ IsFiniteSet(T \ {r}) /\ Cardinality(T \ {r}) \in Nat
  BY <1>1, FS_CardinalityType, FS_RemoveElement
<1>3. r \in T => Cardinality(T \ {r}) = Cardinality(T) - 1
  BY <1>1, FS_RemoveElement
<1>4. r \notin T => Cardinality(T \cup {r}) = Cardinality(T) + 1
  BY <1>1, FS_AddElement
<1> QED
  BY <1>2, <1>3, <1>4 DEF T

\* The places of a gate's queue can be counted.
LEMMA QueueFinite ==
    ASSUME CoordTypeOK, NEW g \in Gates
    PROVE  IsFiniteSet(gates[g].queued) /\ Cardinality(gates[g].queued) \in Nat
<1>1. gates[g].queued \subseteq Request
  BY FieldsTyped
<1> QED
  BY <1>1, FS_Subset, FS_CardinalityType, CoordinatorAssumption

\* Reclaiming keeps the types.
LEMMA ReclaimTyped ==
    ASSUME CoordTypeOK, NEW a \in Resource, NEW g \in Gates, NEW rec \in GateType,
           Reclaim(a, g, rec)
    PROVE  /\ gates' = [gates EXCEPT ![g] = rec] /\ gates' \in [Gates -> GateType]
           /\ actors' \subseteq Resource /\ gate' \in Gates \cup {Nobody}
           /\ consecutive' \in [Resource -> [Priority -> Nat]]
<1>1. gates' = [gates EXCEPT ![g] = rec] /\ gates' \in [Gates -> GateType]
  BY DEF Reclaim, CoordTypeOK
<1>2. actors' \subseteq Resource /\ gate' \in Gates \cup {Nobody}
  BY DEF Reclaim, CoordTypeOK
<1>3. consecutive' \in [Resource -> [Priority -> Nat]]
  <2>1. NoTurns \in [Priority -> Nat]
    BY DEF NoTurns
  <2>2. \E gone : consecutive' =
           [b \in Resource |-> IF b \in gone THEN NoTurns ELSE consecutive[b]]
    BY DEF Reclaim
  <2> QED
    BY <2>1, <2>2 DEF CoordTypeOK
<1> QED
  BY <1>1, <1>2, <1>3

\* A free slot is a request.
LEMMA NoRequestTyped ==
    /\ NoRequest \in RequestType /\ NoRequest.stage = "idle" /\ NoRequest.gate = Nobody
    /\ NoRequest.overtaken = 0
<1>1. Browser \in Resource
  BY DEF Resource
<1>2. Requested(Browser, "read", Nobody, Nobody) \in RequestType
  BY <1>1 DEF Requested, RequestType, Stages
<1>3. NoRequest \in RequestType /\ NoRequest.stage = "idle"
  BY <1>2 DEF NoRequest, RequestType, Stages
<1>4. NoRequest.gate = Nobody /\ NoRequest.overtaken = 0
  BY DEF NoRequest, Requested
<1> QED
  BY <1>3, <1>4

\* A request that leaves gives up what it had, once.
LEMMA SettleKeeps ==
    ASSUME CoordInv, NEW r \in Request, Settle(r)
    PROVE  CoordInv'
<1> USE DEF CoordInv
<1>1. /\ req[r].stage \in {"running", "rejected"}
      /\ req' = [req EXCEPT ![r] = NoRequest]
      /\ active' = [active EXCEPT ![req[r].on] = Nobody]
      /\ actorDrain' = [actorDrain EXCEPT ![req[r].on] = TRUE]
      /\ UNCHANGED <<queue, cancels>>
      /\ Reclaim(req[r].on, req[r].gate, SettledAt(gates[req[r].gate], r))
  BY DEF Settle
<1>2. PICK g \in Gates : g = req[r].gate
  BY <1>1 DEF Gated, Live
<1>3. PICK a \in Resource : a = req[r].on
  BY FieldsTyped
<1> DEFINE rec == SettledAt(gates[g], r)
<1>4. Moves(r, NoRequest) /\ ~Live(r)'
      /\ \A s \in Request : s # r => req'[s] = req[s]
  BY <1>1, NoRequestTyped DEF Moves, CoordTypeOK, Live
<1>5. r \in TabsPlaced(g, Alive) <=> a # Browser
  BY <1>1, <1>2, <1>3 DEF TabsPlaced, SharedOf, Placed, IsExclusive, Alive, Stages
<1>6. /\ rec.shared = gates[g].shared \ {r} /\ rec.exclusive = gates[g].exclusive \ {r}
      /\ rec.queued = gates[g].queued /\ rec.started = gates[g].started
      /\ rec.pending = gates[g].pending /\ rec.turns = gates[g].turns
      /\ rec.accepted = IF a = Browser THEN gates[g].accepted ELSE gates[g].accepted - 1
      /\ rec \in GateType
  <2>1. gates[g] \in GateType /\ gates[g].accepted = Cardinality(TabsPlaced(g, Alive))
    BY FieldsTyped DEF Books, Matches
  <2>2. a # Browser => gates[g].accepted - 1 \in Nat
    BY <1>5, <2>1, CountOne
  <2> DEFINE n == IF a = Browser THEN gates[g].accepted ELSE gates[g].accepted - 1
             d == gates[g].drain \/ r \in gates[g].shared \cup gates[g].exclusive
  <2>3. rec = [gates[g] EXCEPT
                  !.shared = gates[g].shared \ {r}, !.exclusive = gates[g].exclusive \ {r},
                  !.drain = d, !.accepted = n]
    BY <1>3 DEF SettledAt, IsExclusive
  <2>4. n \in Nat /\ n = IF a = Browser THEN gates[g].accepted ELSE gates[g].accepted - 1
    BY <2>1, <2>2, FieldsTyped
  <2>5. d \in BOOLEAN
    BY <2>1 DEF GateType
  <2> HIDE DEF n, d, rec
  <2>6. gates[g].shared \ {r} \subseteq Request /\ gates[g].exclusive \ {r} \subseteq Request
    BY FieldsTyped
  <2>7. rec \in GateType
    BY <2>1, <2>3, <2>4, <2>5, <2>6 DEF GateType
  <2>8. /\ rec.shared = gates[g].shared \ {r} /\ rec.exclusive = gates[g].exclusive \ {r}
        /\ rec.queued = gates[g].queued /\ rec.started = gates[g].started
        /\ rec.pending = gates[g].pending /\ rec.turns = gates[g].turns
        /\ rec.accepted = n
    BY <2>1, <2>3 DEF GateType
  <2> QED
    BY <2>4, <2>7, <2>8
<1> HIDE DEF rec
<1>7. Reclaim(a, g, rec)
  BY <1>1, <1>2, <1>3 DEF rec
<1>8. /\ gates' = [gates EXCEPT ![g] = rec] /\ gates' \in [Gates -> GateType]
      /\ actors' \subseteq Resource /\ gate' \in Gates \cup {Nobody}
      /\ consecutive' \in [Resource -> [Priority -> Nat]]
  BY <1>6, <1>7, ReclaimTyped
<1>9. gates'[g] = rec /\ \A h \in Gates : h # g => gates'[h] = gates[h]
  BY <1>8 DEF CoordTypeOK
<1>10. CoordTypeOK'
  <2>1. req' \in [Request -> RequestType]
    BY <1>4 DEF Moves
  <2> QED
    BY <1>1, <1>8, <2>1 DEF CoordTypeOK
<1>11. Placement'
  <2>1. \A s \in Request : s = r \/ req'[s] = req[s]
    BY <1>4
  <2>2. req'[r].stage = "idle"
    BY <1>4, NoRequestTyped DEF Moves
  <2>3. \A b \in Resource : active'[b] = IF b = a THEN Nobody ELSE active[b]
    BY <1>1, <1>3 DEF CoordTypeOK
  <2>4. active[a] = r /\ Nobody \notin Request
    BY <1>1, <1>3, CoordinatorAssumption DEF Placement, Held
  <2>5. \A b \in Resource, s \in Request :
           active'[b] = s <=> req'[s].stage \in Held /\ req'[s].on = b
    BY <1>3, <2>1, <2>2, <2>3, <2>4 DEF Placement, Held
  <2>6. \A b \in Resource : {s \in Request : req'[s].stage = "queued" /\ req'[s].on = b}
                          = {s \in Request : req[s].stage = "queued" /\ req[s].on = b}
    BY <1>1, <2>1, <2>2
  <2>7. queue' = queue
    BY <1>1
  <2> QED
    BY <2>5, <2>6, <2>7 DEF Placement
<1>12. Gated'
  BY <1>4, NoRequestTyped, CoordinatorAssumption DEF Gated, Moves, Live
<1>13. Matches(g)' /\ OneSort(g)'
  <2>1. Matches(g) /\ OneSort(g)
    BY DEF Books
  <2>2. /\ Placed(g, Leased)' = Placed(g, Leased) \ {r}
        /\ Placed(g, {"atGate"})' = Placed(g, {"atGate"}) \ {r}
        /\ ExclusiveOf(Placed(g, {"queued"}))' = ExclusiveOf(Placed(g, {"queued"})) \ {r}
        /\ TabsPlaced(g, {"queued"})' = TabsPlaced(g, {"queued"}) \ {r}
        /\ TabsPlaced(g, Alive)' = TabsPlaced(g, Alive) \ {r}
    <3>1. NoRequest.gate # g
      BY NoRequestTyped, CoordinatorAssumption
    <3>2. Placed(g, Leased)' = Placed(g, Leased) \ {r}
      BY <1>4, <3>1, PlacedMove
    <3>3. Placed(g, {"atGate"})' = Placed(g, {"atGate"}) \ {r}
      BY <1>4, <3>1, PlacedMove
    <3>4. ExclusiveOf(Placed(g, {"queued"}))' = ExclusiveOf(Placed(g, {"queued"})) \ {r}
      BY <1>4, <3>1, ExclusiveMove
    <3>5. TabsPlaced(g, {"queued"})' = TabsPlaced(g, {"queued"}) \ {r}
      BY <1>4, <3>1, TabsMove
    <3>6. TabsPlaced(g, Alive)' = TabsPlaced(g, Alive) \ {r}
      BY <1>4, <3>1, TabsMove
    <3> QED
      BY <3>2, <3>3, <3>4, <3>5, <3>6
  <2>3. /\ r \notin Placed(g, {"atGate"}) /\ r \notin ExclusiveOf(Placed(g, {"queued"}))
        /\ r \notin TabsPlaced(g, {"queued"})
    BY <1>1 DEF Placed, ExclusiveOf, TabsPlaced, SharedOf
  <2>4. gates'[g].accepted = Cardinality(TabsPlaced(g, Alive)')
    <3>1. CASE a = Browser
      BY <1>5, <1>6, <1>9, <2>1, <2>2, <3>1 DEF Matches
    <3>2. CASE a # Browser
      BY <1>5, <1>6, <1>9, <2>1, <2>2, <3>2, CountOne DEF Matches
    <3> QED
      BY <3>1, <3>2
  <2>5. GateLoad(gates'[g]) <= MaxQueueSize
    BY <1>6, <1>9, <2>1 DEF Matches, GateLoad
  <2>6. Matches(g)'
    <3>1. gates'[g].shared \cup gates'[g].exclusive = Placed(g, Leased)'
      BY <1>6, <1>9, <2>1, <2>2 DEF Matches
    <3>2. gates'[g].started = Placed(g, {"atGate"})'
      BY <1>6, <1>9, <2>1, <2>2, <2>3 DEF Matches
    <3>3. gates'[g].queued =
            Placed(g, {"atGate"})' \cup ExclusiveOf(Placed(g, {"queued"}))'
      BY <1>6, <1>9, <2>1, <2>2, <2>3 DEF Matches
    <3>4. TabsPlaced(g, {"queued"})' = TabsPlaced(g, {"queued"})
      BY <2>2, <2>3
    <3>5. gates'[g].pending = Cardinality(TabsPlaced(g, {"queued"})')
      BY <1>6, <1>9, <2>1, <3>4 DEF Matches
    <3> QED
      BY <2>4, <2>5, <3>1, <3>2, <3>3, <3>5 DEF Matches
  <2>7. OneSort(g)'
    <3>1. \A s \in gates'[g].shared \cup gates'[g].exclusive : IsExclusive(s)' <=> IsExclusive(s)
      BY <1>4, <1>6, <1>9, FieldsTyped DEF IsExclusive
    <3> QED
      BY <1>6, <1>9, <2>1, <3>1 DEF OneSort
  <2> QED
    BY <2>6, <2>7
<1>14. Books'
  <2> SUFFICES ASSUME NEW h \in Gates, h # g PROVE Matches(h)' /\ OneSort(h)'
    BY <1>13 DEF Books
  <2>1. gates'[h] = gates[h] /\ req[r].gate # h /\ NoRequest.gate # h
          /\ Matches(h) /\ OneSort(h)
    BY <1>2, <1>9, NoRequestTyped, CoordinatorAssumption DEF Books
  <2> QED
    BY <1>4, <2>1, OtherGate
<1>15. OneGate'
  BY <1>4, <1>7, <1>10, <1>11, <1>12, <1>14, ReclaimKeepsGate
<1>16. TurnsCounted'
  <2>1. \A h \in Gates : gates'[h].turns = gates[h].turns
    BY <1>6, <1>9
  <2>2. \A s \in Request : req[s].stage = "atGate" => req[s].gate \in Gates
    BY DEF Gated, Live
  <2>3. req'[r] = NoRequest /\ MaxConsecutiveExclusives \in Nat
    BY <1>4, FieldsTyped DEF Moves
  <2>4. ASSUME NEW s \in Request
        PROVE  /\ req'[s].overtaken <= MaxConsecutiveExclusives
               /\ req'[s].stage = "atGate" =>
                    req'[s].overtaken <= gates'[req'[s].gate].turns
               /\ req'[s].stage \in {"idle", "queued"} \/ req'[s].on = Browser
                    => req'[s].overtaken = 0
    <3>1. CASE s = r
      BY <2>3, <3>1, NoRequestTyped
    <3>2. CASE s # r
      BY <1>4, <2>1, <2>2, <3>2 DEF TurnsCounted, IsExclusive
    <3> QED
      BY <3>1, <3>2
  <2> QED
    BY <2>4 DEF TurnsCounted, IsExclusive
<1> QED
  BY <1>10, <1>11, <1>12, <1>14, <1>15, <1>16

\* A request cancelled in the queue gives back what it reserved.
LEMMA CancelQueuedKeeps ==
    ASSUME CoordInv, NEW r \in Request, CancelQueued(r)
    PROVE  CoordInv'
<1> USE DEF CoordInv
<1>1. /\ req[r].stage = "queued"
      /\ req' = [req EXCEPT ![r] = NoRequest]
      /\ queue' = [queue EXCEPT ![req[r].on] = Without(req[r].on, r)]
      /\ actorDrain' =
            [actorDrain EXCEPT ![req[r].on] = @ \/ active[req[r].on] = Nobody]
      /\ UNCHANGED active
      /\ Reclaim(req[r].on, req[r].gate, Abandoned(gates[req[r].gate], r))
  BY DEF CancelQueued
<1>2. PICK g \in Gates : g = req[r].gate
  BY <1>1 DEF Gated, Live
<1>3. PICK a \in Resource : a = req[r].on
  BY FieldsTyped
<1> DEFINE rec == Abandoned(gates[g], r)
<1>4. Moves(r, NoRequest) /\ ~Live(r)'
      /\ \A s \in Request : s # r => req'[s] = req[s]
  BY <1>1, NoRequestTyped DEF Moves, CoordTypeOK, Live
<1>5. /\ r \in TabsPlaced(g, Alive) <=> a # Browser
      /\ r \in TabsPlaced(g, {"queued"}) <=> a # Browser
      /\ r \in ExclusiveOf(Placed(g, {"queued"})) <=> a = Browser
      /\ r \notin Placed(g, {"atGate"}) /\ r \notin Placed(g, Leased)
  BY <1>1, <1>2, <1>3 DEF TabsPlaced, SharedOf, ExclusiveOf, Placed, IsExclusive, Alive,
     Stages, Leased
<1>6. /\ rec.shared = gates[g].shared /\ rec.exclusive = gates[g].exclusive
      /\ rec.queued = IF a = Browser THEN gates[g].queued \ {r} ELSE gates[g].queued
      /\ rec.started = IF a = Browser THEN gates[g].started \ {r} ELSE gates[g].started
      /\ rec.turns = gates[g].turns
      /\ rec.pending = IF a = Browser THEN gates[g].pending ELSE gates[g].pending - 1
      /\ rec.accepted = IF a = Browser THEN gates[g].accepted ELSE gates[g].accepted - 1
      /\ rec \in GateType
  <2>1. /\ gates[g] \in GateType /\ gates[g].accepted = Cardinality(TabsPlaced(g, Alive))
        /\ gates[g].pending = Cardinality(TabsPlaced(g, {"queued"}))
    BY FieldsTyped DEF Books, Matches
  <2>2. a # Browser => gates[g].accepted - 1 \in Nat /\ gates[g].pending - 1 \in Nat
    BY <1>5, <2>1, CountOne
  <2>3. CASE a = Browser
    <3>1. rec = [gates[g] EXCEPT !.queued = gates[g].queued \ {r},
                                 !.started = gates[g].started \ {r}, !.drain = TRUE]
      BY <1>3, <2>3 DEF Abandoned, Withdrawn, IsExclusive
    <3> QED
      BY <2>1, <2>3, <3>1 DEF GateType
  <2>4. CASE a # Browser
    <3>1. rec = [gates[g] EXCEPT !.accepted = gates[g].accepted - 1,
                                 !.pending = gates[g].pending - 1]
      BY <1>3, <2>4 DEF Abandoned, IsExclusive
    <3> QED
      BY <2>1, <2>2, <2>4, <3>1 DEF GateType
  <2> QED
    BY <2>3, <2>4
<1> HIDE DEF rec
<1>7. Reclaim(a, g, rec)
  BY <1>1, <1>2, <1>3 DEF rec
<1>8. /\ gates' = [gates EXCEPT ![g] = rec] /\ gates' \in [Gates -> GateType]
      /\ actors' \subseteq Resource /\ gate' \in Gates \cup {Nobody}
      /\ consecutive' \in [Resource -> [Priority -> Nat]]
  BY <1>6, <1>7, ReclaimTyped
<1>9. gates'[g] = rec /\ \A h \in Gates : h # g => gates'[h] = gates[h]
  BY <1>8 DEF CoordTypeOK
<1>10. /\ Without(a, r) \in Seq(Request)
       /\ Range(Without(a, r)) = Range(queue[a]) \ {r}
       /\ \A i, j \in 1 .. Len(Without(a, r)) :
             Without(a, r)[i] = Without(a, r)[j] => i = j
  <2>1. r \in Range(queue[a]) /\ queue[a] \in Seq(Request)
    BY <1>1, <1>3 DEF Placement, CoordTypeOK
  <2>2. \A i, j \in 1 .. Len(queue[a]) : queue[a][i] = queue[a][j] => i = j
    BY DEF Placement
  <2> QED
    BY <2>1, <2>2, WithoutOne
<1>11. queue' = [queue EXCEPT ![a] = Without(a, r)]
  BY <1>1, <1>3
<1>12. CoordTypeOK'
  <2>1. req' \in [Request -> RequestType]
    BY <1>4 DEF Moves
  <2>2. queue' \in [Resource -> Seq(Request)]
    BY <1>10, <1>11 DEF CoordTypeOK
  <2>3. cancels' \in 0 .. MaxCancels
    BY CoordinatorAssumption DEF CancelQueued, Cancelled, CoordTypeOK
  <2> QED
    BY <1>1, <1>8, <2>1, <2>2, <2>3 DEF CoordTypeOK
<1>13. Placement'
  <2>1. \A s \in Request : s = r \/ req'[s] = req[s]
    BY <1>4
  <2>2. req'[r].stage = "idle"
    BY <1>4, NoRequestTyped DEF Moves
  <2>3. \A b \in Resource : queue'[b] = IF b = a THEN Without(a, r) ELSE queue[b]
    BY <1>11 DEF CoordTypeOK
  <2>4. \A b \in Resource, s \in Request :
           active'[b] = s <=> req'[s].stage \in Held /\ req'[s].on = b
    BY <1>1, <2>1, <2>2 DEF Placement, Held
  <2>5. ASSUME NEW b \in Resource
        PROVE  Range(queue'[b]) =
                  {s \in Request : req'[s].stage = "queued" /\ req'[s].on = b}
    <3>1. Range(queue[b]) = {s \in Request : req[s].stage = "queued" /\ req[s].on = b}
      BY DEF Placement
    <3>2. {s \in Request : req'[s].stage = "queued" /\ req'[s].on = b} =
             {s \in Request : req[s].stage = "queued" /\ req[s].on = b} \ {r}
      BY <2>1, <2>2
    <3>3. CASE b = a
      BY <1>10, <2>3, <3>1, <3>2, <3>3
    <3>4. CASE b # a
      <4>1. r \notin Range(queue[b])
        BY <1>3, <3>1, <3>4
      <4> QED
        BY <2>3, <3>1, <3>2, <3>4, <4>1
    <3> QED
      BY <3>3, <3>4
  <2>6. ASSUME NEW b \in Resource
        PROVE  \A i, j \in 1 .. Len(queue'[b]) : queue'[b][i] = queue'[b][j] => i = j
    <3>1. CASE b = a
      <4>1. queue'[b] = Without(a, r)
        BY <2>3, <3>1
      <4> QED
        BY <1>10, <4>1
    <3>2. CASE b # a
      <4>1. queue'[b] = queue[b]
        BY <2>3, <3>2
      <4> QED
        BY <4>1 DEF Placement
    <3> QED
      BY <3>1, <3>2
  <2> QED
    BY <2>4, <2>5, <2>6 DEF Placement
<1>14. Gated'
  BY <1>4, NoRequestTyped, CoordinatorAssumption DEF Gated, Moves, Live
<1>15. Matches(g)' /\ OneSort(g)'
  <2>1. Matches(g) /\ OneSort(g)
    BY DEF Books
  <2>a. NoRequest.gate # g
    BY NoRequestTyped, CoordinatorAssumption
  <2>2. Placed(g, Leased)' = Placed(g, Leased) \ {r}
    BY <1>4, <2>a, PlacedMove
  <2>3. Placed(g, {"atGate"})' = Placed(g, {"atGate"}) \ {r}
    BY <1>4, <2>a, PlacedMove
  <2>4. ExclusiveOf(Placed(g, {"queued"}))' = ExclusiveOf(Placed(g, {"queued"})) \ {r}
    BY <1>4, <2>a, ExclusiveMove
  <2>5. TabsPlaced(g, {"queued"})' = TabsPlaced(g, {"queued"}) \ {r}
    BY <1>4, <2>a, TabsMove
  <2>6. TabsPlaced(g, Alive)' = TabsPlaced(g, Alive) \ {r}
    BY <1>4, <2>a, TabsMove
  <2>7. /\ gates'[g].accepted = Cardinality(TabsPlaced(g, Alive)')
        /\ gates'[g].pending = Cardinality(TabsPlaced(g, {"queued"})')
    <3>1. CASE a = Browser
      BY <1>5, <1>6, <1>9, <2>1, <2>5, <2>6, <3>1 DEF Matches
    <3>2. CASE a # Browser
      BY <1>5, <1>6, <1>9, <2>1, <2>5, <2>6, <3>2, CountOne DEF Matches
    <3> QED
      BY <3>1, <3>2
  <2>8. GateLoad(gates'[g]) <= MaxQueueSize
    <3>1. /\ IsFiniteSet(gates[g].queued) /\ Cardinality(gates[g].queued) \in Nat
          /\ gates[g].pending \in Nat /\ MaxQueueSize \in Nat
      BY QueueFinite, FieldsTyped
    <3>2. gates'[g].queued \subseteq gates[g].queued /\ gates'[g].pending <= gates[g].pending
            /\ gates'[g].pending \in Nat
      BY <1>6, <1>8, <1>9, <3>1 DEF GateType
    <3>3. Cardinality(gates'[g].queued) <= Cardinality(gates[g].queued)
            /\ Cardinality(gates'[g].queued) \in Nat
      BY <3>1, <3>2, FS_Subset, FS_CardinalityType
    <3> QED
      BY <2>1, <3>1, <3>2, <3>3 DEF Matches, GateLoad
  <2>9. Matches(g)'
    <3>1. gates'[g].shared \cup gates'[g].exclusive = Placed(g, Leased)'
      BY <1>5, <1>6, <1>9, <2>1, <2>2 DEF Matches
    <3>2. gates'[g].started = Placed(g, {"atGate"})'
      BY <1>5, <1>6, <1>9, <2>1, <2>3 DEF Matches
    <3>3. gates'[g].queued =
            Placed(g, {"atGate"})' \cup ExclusiveOf(Placed(g, {"queued"}))'
      BY <1>5, <1>6, <1>9, <2>1, <2>3, <2>4 DEF Matches
    <3> QED
      BY <2>7, <2>8, <3>1, <3>2, <3>3 DEF Matches
  <2>10. OneSort(g)'
    <3>1. r \notin gates[g].shared \cup gates[g].exclusive
      BY <1>5, <2>1 DEF Matches
    <3>2. \A s \in gates[g].shared \cup gates[g].exclusive : IsExclusive(s)' <=> IsExclusive(s)
      BY <1>4, <3>1, FieldsTyped DEF IsExclusive
    <3> QED
      BY <1>6, <1>9, <2>1, <3>2 DEF OneSort
  <2> QED
    BY <2>9, <2>10
<1>16. Books'
  <2> SUFFICES ASSUME NEW h \in Gates, h # g PROVE Matches(h)' /\ OneSort(h)'
    BY <1>15 DEF Books
  <2>1. gates'[h] = gates[h] /\ req[r].gate # h /\ NoRequest.gate # h
          /\ Matches(h) /\ OneSort(h)
    BY <1>2, <1>9, NoRequestTyped, CoordinatorAssumption DEF Books
  <2> QED
    BY <1>4, <2>1, OtherGate
<1>17. OneGate'
  BY <1>4, <1>7, <1>12, <1>13, <1>14, <1>16, ReclaimKeepsGate
<1>18. TurnsCounted'
  <2>1. \A h \in Gates : gates'[h].turns = gates[h].turns
    BY <1>6, <1>9
  <2>2. \A s \in Request : req[s].stage = "atGate" => req[s].gate \in Gates
    BY DEF Gated, Live
  <2>3. req'[r] = NoRequest /\ MaxConsecutiveExclusives \in Nat
    BY <1>4, FieldsTyped DEF Moves
  <2>4. ASSUME NEW s \in Request
        PROVE  /\ req'[s].overtaken <= MaxConsecutiveExclusives
               /\ req'[s].stage = "atGate" =>
                    req'[s].overtaken <= gates'[req'[s].gate].turns
               /\ req'[s].stage \in {"idle", "queued"} \/ req'[s].on = Browser
                    => req'[s].overtaken = 0
    <3>1. CASE s = r
      BY <2>3, <3>1, NoRequestTyped
    <3>2. CASE s # r
      BY <1>4, <2>1, <2>2, <3>2 DEF TurnsCounted, IsExclusive
    <3> QED
      BY <3>1, <3>2
  <2> QED
    BY <2>4 DEF TurnsCounted, IsExclusive
<1> QED
  BY <1>12, <1>13, <1>14, <1>16, <1>17, <1>18

\* Books are about the requests and the gates alone.
LEMMA UnchangedBooks ==
    ASSUME Books, UNCHANGED <<req, gates>>
    PROVE  Books'
<1> SUFFICES ASSUME NEW g \in Gates PROVE Matches(g)' /\ OneSort(g)'
  BY DEF Books
<1>1. \A S : /\ Placed(g, S)' = Placed(g, S) /\ TabsPlaced(g, S)' = TabsPlaced(g, S)
            /\ ExclusiveOf(Placed(g, S))' = ExclusiveOf(Placed(g, S))
  BY DEF Placed, TabsPlaced, SharedOf, ExclusiveOf, IsExclusive
<1>2. Matches(g)'
  BY <1>1 DEF Books, Matches, GateLoad
<1>3. OneSort(g)'
  BY DEF Books, OneSort, IsExclusive
<1> QED
  BY <1>2, <1>3

\* A drain that starts a request turns its reservation into a place at the gate.
LEMMA StartNextKeeps ==
    ASSUME CoordInv, NEW a \in Resource, StartNext(a)
    PROVE  CoordInv'
<1> USE DEF CoordInv
<1>1. CASE active[a] # Nobody \/ queue[a] = <<>>
  <2>1. /\ actorDrain' = [actorDrain EXCEPT ![a] = FALSE]
        /\ UNCHANGED <<req, queue, active, consecutive, gates, actors, gate, cancels>>
    BY <1>1 DEF StartNext
  <2>2. CoordTypeOK'
    BY <2>1 DEF CoordTypeOK
  <2>3. Placement' /\ Gated' /\ OneGate' /\ TurnsCounted'
    BY <2>1 DEF Placement, Gated, OneGate, TurnsCounted, Live, IsExclusive
  <2>4. Books'
    BY <2>1, UnchangedBooks
  <2> QED
    BY <2>2, <2>3, <2>4
<1>2. CASE active[a] = Nobody /\ queue[a] # <<>>
  <2>1. PICK r \in Request : r \in Range(queue[a]) /\ r = NextOf(a)
    BY <1>2, NextIsQueued DEF Placement
  <2>2. /\ r \in Request /\ req[r].stage = "queued" /\ req[r].on = a
        /\ req[r] \in RequestType
    BY <2>1, FieldsTyped DEF Placement
  <2>3. PICK g \in Gates : g = req[r].gate
    BY <2>2 DEF Gated, Live
  <2>4. /\ actorDrain' = [actorDrain EXCEPT ![a] = FALSE]
        /\ req' = [req EXCEPT ![r].stage = "atGate"]
        /\ queue' = [queue EXCEPT ![a] = Without(a, r)]
        /\ active' = [active EXCEPT ![a] = r]
        /\ consecutive' = [consecutive EXCEPT ![a] = Recorded(@, req[r].priority)]
        /\ gates' = [gates EXCEPT ![g] = Started(gates[g], r)]
        /\ UNCHANGED <<actors, gate, cancels>>
    BY <1>2, <2>1, <2>3 DEF StartNext
  <2> DEFINE q == [req[r] EXCEPT !.stage = "atGate"]
             rec == Started(gates[g], r)
  <2>5. /\ q \in RequestType /\ q.stage = "atGate" /\ q.gate = g /\ q.on = a
        /\ q.overtaken = req[r].overtaken /\ req' = [req EXCEPT ![r] = q]
    BY <2>2, <2>3, <2>4 DEF RequestType, Stages
  <2> HIDE DEF q
  <2>m. Moves(r, q)
    BY <2>5 DEF Moves, CoordTypeOK
  <2>6. Moves(r, q) /\ req'[r] = q /\ \A s \in Request : s # r => req'[s] = req[s]
    BY <2>5, <2>m DEF CoordTypeOK
  <2>7. /\ r \in TabsPlaced(g, {"queued"}) <=> a # Browser
        /\ r \in TabsPlaced(g, Alive) <=> a # Browser
        /\ r \in ExclusiveOf(Placed(g, {"queued"})) <=> a = Browser
        /\ r \notin Placed(g, {"atGate"}) /\ r \notin Placed(g, Leased)
        /\ q.stage \in Alive /\ q.stage \notin Leased
    BY <2>2, <2>3, <2>5 DEF TabsPlaced, SharedOf, ExclusiveOf, Placed, IsExclusive, Alive,
       Stages, Leased
  <2>8. /\ rec.shared = gates[g].shared /\ rec.exclusive = gates[g].exclusive
        /\ rec.queued = gates[g].queued \cup {r}
        /\ rec.started = gates[g].started \cup {r}
        /\ rec.turns = gates[g].turns /\ rec.accepted = gates[g].accepted
        /\ rec.pending = IF a = Browser THEN gates[g].pending ELSE gates[g].pending - 1
        /\ rec \in GateType
    <3>1. gates[g] \in GateType /\ gates[g].pending = Cardinality(TabsPlaced(g, {"queued"}))
      BY FieldsTyped DEF Books, Matches
    <3>2. a # Browser => gates[g].pending - 1 \in Nat
      BY <2>7, <3>1, CountOne
    <3> DEFINE n == IF a = Browser THEN gates[g].pending ELSE gates[g].pending - 1
    <3>3. rec = [gates[g] EXCEPT
                    !.queued = gates[g].queued \cup {r},
                    !.started = gates[g].started \cup {r}, !.drain = TRUE,
                    !.pending = n]
      BY <2>2 DEF Started, IsExclusive
    <3>4. n \in Nat
      BY <3>1, <3>2, FieldsTyped
    <3>5. n = IF a = Browser THEN gates[g].pending ELSE gates[g].pending - 1
      OBVIOUS
    <3> HIDE DEF n, rec
    <3>6. gates[g].queued \cup {r} \subseteq Request /\ gates[g].started \cup {r} \subseteq Request
      BY <2>2, FieldsTyped
    <3>7. rec \in GateType
      BY <3>1, <3>3, <3>4, <3>6 DEF GateType
    <3>8. /\ rec.shared = gates[g].shared /\ rec.exclusive = gates[g].exclusive
          /\ rec.queued = gates[g].queued \cup {r}
          /\ rec.started = gates[g].started \cup {r}
          /\ rec.turns = gates[g].turns /\ rec.accepted = gates[g].accepted
          /\ rec.pending = n
      BY <3>1, <3>3 DEF GateType
    <3> QED
      BY <3>5, <3>7, <3>8
  <2> HIDE DEF rec
  <2>9. /\ gates' = [gates EXCEPT ![g] = rec] /\ gates' \in [Gates -> GateType]
        /\ gates'[g] = rec /\ \A h \in Gates : h # g => gates'[h] = gates[h]
    BY <2>4, <2>8 DEF CoordTypeOK, rec
  <2>10. /\ Without(a, r) \in Seq(Request)
         /\ Range(Without(a, r)) = Range(queue[a]) \ {r}
         /\ \A i, j \in 1 .. Len(Without(a, r)) :
               Without(a, r)[i] = Without(a, r)[j] => i = j
    <3>1. \A i, j \in 1 .. Len(queue[a]) : queue[a][i] = queue[a][j] => i = j
      BY DEF Placement
    <3>2. queue[a] \in Seq(Request)
      BY DEF CoordTypeOK
    <3> QED
      BY <2>1, <3>1, <3>2, WithoutOne
  <2>11. CoordTypeOK'
    <3>1. req' \in [Request -> RequestType]
      BY <2>6 DEF Moves
    <3>2. queue' \in [Resource -> Seq(Request)]
      BY <2>4, <2>10 DEF CoordTypeOK
    <3>3. consecutive' \in [Resource -> [Priority -> Nat]]
      <4>1. consecutive[a] \in [Priority -> Nat]
        BY DEF CoordTypeOK
      <4>2. Recorded(consecutive[a], req[r].priority) \in [Priority -> Nat]
        BY <4>1 DEF Recorded
      <4> QED
        BY <2>4, <4>2 DEF CoordTypeOK
    <3>4. active' \in [Resource -> Request \cup {Nobody}]
      BY <2>2, <2>4 DEF CoordTypeOK
    <3> QED
      BY <2>4, <2>9, <3>1, <3>2, <3>3, <3>4 DEF CoordTypeOK
  <2>12. Placement'
    <3>1. \A s \in Request : s = r \/ req'[s] = req[s]
      BY <2>6
    <3>2. req'[r].stage = "atGate" /\ req'[r].on = a
      BY <2>5, <2>6
    <3>3. \A b \in Resource :
             /\ queue'[b] = IF b = a THEN Without(a, r) ELSE queue[b]
             /\ active'[b] = IF b = a THEN r ELSE active[b]
      BY <2>4 DEF CoordTypeOK
    <3>4. ASSUME NEW b \in Resource, NEW s \in Request
          PROVE  active'[b] = s <=> req'[s].stage \in Held /\ req'[s].on = b
      <4>1. active[a] # s /\ active[b] # r
        BY <1>2, <2>2, CoordinatorAssumption DEF Placement, Held
      <4> QED
        BY <3>1, <3>2, <3>3, <4>1 DEF Placement, Held
    <3>5. ASSUME NEW b \in Resource
          PROVE  Range(queue'[b]) =
                    {s \in Request : req'[s].stage = "queued" /\ req'[s].on = b}
      <4>1. Range(queue[b]) = {s \in Request : req[s].stage = "queued" /\ req[s].on = b}
        BY DEF Placement
      <4>2. {s \in Request : req'[s].stage = "queued" /\ req'[s].on = b} =
               {s \in Request : req[s].stage = "queued" /\ req[s].on = b} \ {r}
        BY <3>1, <3>2
      <4>3. CASE b = a
        BY <2>10, <3>3, <4>1, <4>2, <4>3
      <4>4. CASE b # a
        <5>1. r \notin Range(queue[b])
          BY <2>2, <4>1, <4>4
        <5> QED
          BY <3>3, <4>1, <4>2, <4>4, <5>1
      <4> QED
        BY <4>3, <4>4
    <3>6. ASSUME NEW b \in Resource
          PROVE  \A i, j \in 1 .. Len(queue'[b]) : queue'[b][i] = queue'[b][j] => i = j
      <4>1. CASE b = a
        <5>1. queue'[b] = Without(a, r)
          BY <3>3, <4>1
        <5> QED
          BY <2>10, <5>1
      <4>2. CASE b # a
        <5>1. queue'[b] = queue[b]
          BY <3>3, <4>2
        <5> QED
          BY <5>1 DEF Placement
      <4> QED
        BY <4>1, <4>2
    <3> QED
      BY <3>4, <3>5, <3>6 DEF Placement
  <2>13. Gated' /\ OneGate'
    BY <2>2, <2>3, <2>4, <2>5, <2>6 DEF Gated, OneGate, Live
  <2>14. Matches(g)' /\ OneSort(g)'
    <3>1. Matches(g) /\ OneSort(g)
      BY DEF Books
    <3>2. Placed(g, Leased)' = Placed(g, Leased)
      <4>1. q.stage \notin Leased /\ r \notin Placed(g, Leased)
        BY <2>7
      <4> QED
        BY <2>m, <4>1, PlacedMove
    <3>3. Placed(g, {"atGate"})' = Placed(g, {"atGate"}) \cup {r}
      BY <2>5, <2>m, PlacedMove
    <3>4. ExclusiveOf(Placed(g, {"queued"}))' = ExclusiveOf(Placed(g, {"queued"})) \ {r}
      BY <2>5, <2>m, ExclusiveMove
    <3>5. TabsPlaced(g, {"queued"})' = TabsPlaced(g, {"queued"}) \ {r}
      BY <2>5, <2>m, TabsMove
    <3>6. TabsPlaced(g, Alive)' = TabsPlaced(g, Alive)
      <4>1. CASE a = Browser
        <5>1. TabsPlaced(g, Alive)' = TabsPlaced(g, Alive) \ {r}
          BY <2>5, <2>m, <4>1, TabsMove
        <5> QED
          BY <2>7, <4>1, <5>1
      <4>2. CASE a # Browser
        <5>1. TabsPlaced(g, Alive)' = TabsPlaced(g, Alive) \cup {r}
          BY <2>5, <2>m, <2>7, <4>2, TabsMove
        <5> QED
          BY <2>7, <4>2, <5>1
      <4> QED
        BY <4>1, <4>2
    <3>7. gates'[g].pending = Cardinality(TabsPlaced(g, {"queued"})')
      <4>1. CASE a = Browser
        BY <2>7, <2>8, <2>9, <3>1, <3>5, <4>1 DEF Matches
      <4>2. CASE a # Browser
        BY <2>7, <2>8, <2>9, <3>1, <3>5, <4>2, CountOne DEF Matches
      <4> QED
        BY <4>1, <4>2
    <3>8. GateLoad(gates'[g]) <= MaxQueueSize
      <4>1. /\ IsFiniteSet(gates[g].queued) /\ Cardinality(gates[g].queued) \in Nat
            /\ gates[g].pending \in Nat /\ MaxQueueSize \in Nat
        BY QueueFinite, FieldsTyped
      <4>2. r \in gates[g].queued <=> a = Browser
        BY <2>7, <3>1 DEF Matches
      <4>3. Cardinality(gates'[g].queued) =
              IF a = Browser THEN Cardinality(gates[g].queued)
              ELSE Cardinality(gates[g].queued) + 1
        BY <2>8, <2>9, <4>1, <4>2, FS_AddElement
      <4> QED
        BY <2>8, <2>9, <3>1, <4>1, <4>3 DEF Matches, GateLoad
    <3>9. Matches(g)'
      <4>1. gates'[g].queued =
              Placed(g, {"atGate"})' \cup ExclusiveOf(Placed(g, {"queued"}))'
        BY <2>8, <2>9, <3>1, <3>3, <3>4 DEF Matches
      <4>2. gates'[g].shared \cup gates'[g].exclusive = Placed(g, Leased)'
        BY <2>8, <2>9, <3>1, <3>2 DEF Matches
      <4>3. gates'[g].started = Placed(g, {"atGate"})'
        BY <2>8, <2>9, <3>1, <3>3 DEF Matches
      <4>4. gates'[g].accepted = Cardinality(TabsPlaced(g, Alive)')
        BY <2>8, <2>9, <3>1, <3>6 DEF Matches
      <4> QED
        BY <3>7, <3>8, <4>1, <4>2, <4>3, <4>4 DEF Matches
    <3>10. OneSort(g)'
      <4>1. \A s \in gates[g].shared \cup gates[g].exclusive :
               s \in Request /\ (IsExclusive(s)' <=> IsExclusive(s))
        BY <2>2, <2>5, <2>6, FieldsTyped DEF IsExclusive
      <4> QED
        BY <2>8, <2>9, <3>1, <4>1 DEF OneSort
    <3> QED
      BY <3>9, <3>10
  <2>15. Books'
    <3> SUFFICES ASSUME NEW h \in Gates, h # g PROVE Matches(h)' /\ OneSort(h)'
      BY <2>14 DEF Books
    <3>1. gates'[h] = gates[h] /\ req[r].gate # h /\ q.gate # h
            /\ Matches(h) /\ OneSort(h)
      BY <2>3, <2>5, <2>9 DEF Books
    <3> QED
      BY <2>2, <2>6, <3>1, OtherGate
  <2>16. TurnsCounted'
    <3>1. \A h \in Gates : gates'[h].turns = gates[h].turns
      BY <2>8, <2>9
    <3>2. \A s \in Request : req[s].stage = "atGate" => req[s].gate \in Gates
      BY DEF Gated, Live
    <3>3. req[r].overtaken = 0 /\ gates[g].turns \in Nat /\ MaxConsecutiveExclusives \in Nat
      BY <2>2, FieldsTyped DEF TurnsCounted
    <3>4. ASSUME NEW s \in Request
          PROVE  /\ req'[s].overtaken <= MaxConsecutiveExclusives
                 /\ req'[s].stage = "atGate" =>
                      req'[s].overtaken <= gates'[req'[s].gate].turns
                 /\ req'[s].stage \in {"idle", "queued"} \/ req'[s].on = Browser
                      => req'[s].overtaken = 0
      <4>1. CASE s = r
        BY <2>5, <2>6, <3>1, <3>3, <4>1
      <4>2. CASE s # r
        BY <2>6, <3>1, <3>2, <4>2 DEF TurnsCounted, IsExclusive
      <4> QED
        BY <4>1, <4>2
    <3> QED
      BY <3>4 DEF TurnsCounted, IsExclusive
  <2> QED
    BY <2>11, <2>12, <2>13, <2>15, <2>16
<1> QED
  BY <1>1, <1>2

\* An accepted request reserves its place in the one gate.
LEMMA EnqueueKeeps ==
    ASSUME CoordInv, NEW r \in Request, NEW a \in Resource, NEW p \in Priority,
           NEW parent \in Request \cup {Nobody}, Enqueue(r, a, p, parent)
    PROVE  CoordInv'
<1> USE DEF CoordInv
<1> DEFINE here == IF gate = Nobody THEN EmptyGate ELSE gates[gate]
           rec == Accepted(here, r, a)
<1>1. PICK g \in Gates : g = GateHere /\ (gate # Nobody => g = gate)
  <2>1. CASE gate # Nobody
    BY <2>1 DEF GateHere, CoordTypeOK
  <2>2. CASE gate = Nobody
    <3>1. \A s \in Request : req[s].gate \notin Gates
      BY <2>2, CoordinatorAssumption DEF OneGate, Gated
    <3>2. \A h \in Gates : Unused(h)
      BY <2>2, <3>1, CoordinatorAssumption DEF Unused
    <3>3. \E h \in Gates : Unused(h)
      BY <3>2, CoordinatorAssumption
    <3> QED
      BY <2>2, <3>3 DEF GateHere
  <2> QED
    BY <2>1, <2>2
<1> DEFINE q == Requested(a, p, g, parent)
<1>2. /\ ~Live(r) /\ GateLoad(here) < MaxQueueSize
      /\ gate' = g /\ gates' = [gates EXCEPT ![g] = rec]
      /\ req' = [req EXCEPT ![r] = q]
      /\ actors' = actors \cup {a} /\ queue' = [queue EXCEPT ![a] = Append(@, r)]
      /\ actorDrain' = [actorDrain EXCEPT ![a] = @ \/ active[a] = Nobody]
      /\ UNCHANGED <<active, consecutive, cancels>>
  BY <1>1 DEF Enqueue
<1>3. /\ q \in RequestType /\ q.stage = "queued" /\ q.gate = g /\ q.on = a
      /\ q.overtaken = 0
  BY DEF Requested, RequestType, Stages
<1> HIDE DEF q
<1>m. Moves(r, q)
  BY <1>2, <1>3 DEF Moves, CoordTypeOK
<1>4. /\ req'[r] = q /\ \A s \in Request : s # r => req'[s] = req[s]
      /\ req[r].stage = "idle" /\ q.stage \in Alive /\ q.stage \notin Leased
  BY <1>2, <1>3 DEF CoordTypeOK, Live, Alive, Leased, Stages
<1>5. /\ r \notin Placed(g, {"atGate"}) /\ r \notin Placed(g, Leased)
      /\ r \notin ExclusiveOf(Placed(g, {"queued"}))
      /\ r \notin TabsPlaced(g, {"queued"}) /\ r \notin TabsPlaced(g, Alive)
  BY <1>4 DEF Placed, ExclusiveOf, TabsPlaced, SharedOf, Leased, Alive
\* A new gate starts with the books of one that has no requests.
<1>6. /\ here.shared \cup here.exclusive = Placed(g, Leased)
      /\ here.started = Placed(g, {"atGate"})
      /\ here.queued = Placed(g, {"atGate"}) \cup ExclusiveOf(Placed(g, {"queued"}))
      /\ here.pending = Cardinality(TabsPlaced(g, {"queued"}))
      /\ here.accepted = Cardinality(TabsPlaced(g, Alive))
      /\ \A s \in here.shared : ~IsExclusive(s)
      /\ \A s \in here.exclusive : IsExclusive(s)
      /\ here.shared = {} \/ here.exclusive = {}
      /\ here \in GateType
  <2>1. CASE gate # Nobody
    <3>1. Matches(g) /\ OneSort(g) /\ here = gates[g] /\ gates[g] \in GateType
      BY <1>1, <2>1, FieldsTyped DEF Books
    <3> QED
      BY <3>1 DEF Matches, OneSort
  <2>2. CASE gate = Nobody
    <3>1. \A s \in Request : req[s].gate # g
      BY <2>2, CoordinatorAssumption DEF OneGate, Gated
    <3>2. /\ Placed(g, Leased) = {} /\ Placed(g, {"atGate"}) = {}
          /\ ExclusiveOf(Placed(g, {"queued"})) = {}
          /\ TabsPlaced(g, {"queued"}) = {} /\ TabsPlaced(g, Alive) = {}
      BY <3>1 DEF Placed, ExclusiveOf, TabsPlaced, SharedOf
    <3>3. EmptyGate \in GateType
      BY FieldsTyped DEF EmptyGate, GateType
    <3> QED
      BY <2>2, <3>2, <3>3, FS_EmptySet DEF EmptyGate
  <2> QED
    BY <2>1, <2>2
<1> HIDE DEF here
<1>7. /\ rec.shared = here.shared /\ rec.exclusive = here.exclusive
      /\ rec.started = here.started /\ rec.turns = here.turns
      /\ rec.queued = IF a = Browser THEN here.queued \cup {r} ELSE here.queued
      /\ rec.pending = IF a = Browser THEN here.pending ELSE here.pending + 1
      /\ rec.accepted = IF a = Browser THEN here.accepted ELSE here.accepted + 1
      /\ rec \in GateType
  <2>1. CASE a = Browser
    <3>1. rec = [here EXCEPT !.queued = here.queued \cup {r}]
      BY <2>1 DEF Accepted
    <3> QED
      BY <1>6, <2>1, <3>1 DEF GateType
  <2>2. CASE a # Browser
    <3>1. rec = [here EXCEPT !.accepted = here.accepted + 1,
                             !.pending = here.pending + 1]
      BY <2>2 DEF Accepted
    <3>2. here.accepted + 1 \in Nat /\ here.pending + 1 \in Nat
      BY <1>6 DEF GateType
    <3> HIDE DEF rec
    <3>3. rec \in GateType
      BY <1>6, <3>1, <3>2 DEF GateType
    <3>4. /\ rec.shared = here.shared /\ rec.exclusive = here.exclusive
          /\ rec.started = here.started /\ rec.turns = here.turns
          /\ rec.queued = here.queued /\ rec.pending = here.pending + 1
          /\ rec.accepted = here.accepted + 1
      BY <1>6, <3>1 DEF GateType
    <3> QED
      BY <2>2, <3>3, <3>4
  <2> QED
    BY <2>1, <2>2
<1> HIDE DEF rec
<1>8. /\ gates' \in [Gates -> GateType] /\ gates'[g] = rec
      /\ \A h \in Gates : h # g => gates'[h] = gates[h]
  BY <1>2, <1>7 DEF CoordTypeOK
<1>9. /\ Append(queue[a], r) \in Seq(Request) /\ queue[a] \in Seq(Request)
      /\ Len(queue[a]) \in Nat /\ Len(Append(queue[a], r)) = Len(queue[a]) + 1
      /\ \A i \in 1 .. Len(queue[a]) : Append(queue[a], r)[i] = queue[a][i]
      /\ Append(queue[a], r)[Len(queue[a]) + 1] = r
      /\ r \notin Range(queue[a])
  <2>1. queue[a] \in Seq(Request)
    BY DEF CoordTypeOK
  <2>2. r \notin Range(queue[a])
    BY <1>4 DEF Placement
  <2> QED
    BY <2>1, <2>2, AppendProperties, LenProperties
<1>10. /\ Range(Append(queue[a], r)) = Range(queue[a]) \cup {r}
       /\ \A i, j \in 1 .. Len(Append(queue[a], r)) :
             Append(queue[a], r)[i] = Append(queue[a], r)[j] => i = j
  <2> DEFINE s == queue[a]
             t == Append(s, r)
  <2>1. /\ DOMAIN s = 1 .. Len(s) /\ DOMAIN t = 1 .. Len(s) + 1 /\ Len(s) \in Nat
        /\ Len(t) = Len(s) + 1
        /\ \A i \in 1 .. Len(s) : t[i] = s[i] /\ s[i] # r
        /\ t[Len(s) + 1] = r
        /\ \A i, j \in 1 .. Len(s) : s[i] = s[j] => i = j
    <3>1. DOMAIN s = 1 .. Len(s) /\ DOMAIN t = 1 .. Len(s) + 1
      BY <1>9, LenProperties
    <3>2. \A i \in 1 .. Len(s) : s[i] # r
      BY <1>9, <3>1 DEF Range
    <3>3. \A i, j \in 1 .. Len(s) : s[i] = s[j] => i = j
      BY DEF Placement
    <3> QED
      BY <1>9, <3>1, <3>2, <3>3
  <2> HIDE DEF s, t
  <2>2. Range(t) = Range(s) \cup {r}
    <3>1. \A x : x \in Range(t) => x \in Range(s) \cup {r}
      BY <2>1 DEF Range
    <3>2. \A x : x \in Range(s) => x \in Range(t)
      BY <2>1 DEF Range
    <3>3. r \in Range(t)
      BY <2>1 DEF Range
    <3> QED
      BY <3>1, <3>2, <3>3
  <2>3. \A i, j \in 1 .. Len(t) : t[i] = t[j] => i = j
    BY <2>1
  <2> QED
    BY <2>2, <2>3 DEF s, t
<1>11. CoordTypeOK'
  <2>1. req' \in [Request -> RequestType]
    BY <1>m DEF Moves
  <2>2. queue' \in [Resource -> Seq(Request)]
    BY <1>2, <1>9 DEF CoordTypeOK
  <2> QED
    BY <1>2, <1>8, <2>1, <2>2 DEF CoordTypeOK
<1>12. Placement'
  <2>1. \A s \in Request : s = r \/ req'[s] = req[s]
    BY <1>4
  <2>2. req'[r].stage = "queued" /\ req'[r].on = a
    BY <1>3, <1>4
  <2>3. \A b \in Resource : queue'[b] = IF b = a THEN Append(queue[a], r) ELSE queue[b]
    BY <1>2 DEF CoordTypeOK
  <2>4. \A b \in Resource, s \in Request :
           active'[b] = s <=> req'[s].stage \in Held /\ req'[s].on = b
    BY <1>2, <1>4, <2>1, <2>2 DEF Placement, Held
  <2>5. ASSUME NEW b \in Resource
        PROVE  Range(queue'[b]) =
                  {s \in Request : req'[s].stage = "queued" /\ req'[s].on = b}
    <3>1. Range(queue[b]) = {s \in Request : req[s].stage = "queued" /\ req[s].on = b}
      BY DEF Placement
    <3>2. {s \in Request : req'[s].stage = "queued" /\ req'[s].on = b} =
             IF b = a THEN {s \in Request : req[s].stage = "queued" /\ req[s].on = b} \cup {r}
             ELSE {s \in Request : req[s].stage = "queued" /\ req[s].on = b}
      BY <1>4, <2>1, <2>2
    <3> QED
      BY <1>10, <2>3, <3>1, <3>2
  <2>6. ASSUME NEW b \in Resource
        PROVE  \A i, j \in 1 .. Len(queue'[b]) : queue'[b][i] = queue'[b][j] => i = j
    <3>1. CASE b = a
      <4>1. queue'[b] = Append(queue[a], r)
        BY <2>3, <3>1
      <4> QED
        BY <1>10, <4>1
    <3>2. CASE b # a
      <4>1. queue'[b] = queue[b]
        BY <2>3, <3>2
      <4> QED
        BY <4>1 DEF Placement
    <3> QED
      BY <3>1, <3>2
  <2> QED
    BY <2>4, <2>5, <2>6 DEF Placement
<1>13. Gated' /\ OneGate'
  <2>1. \A s \in Request : Live(s) => gate # Nobody
    BY CoordinatorAssumption DEF OneGate, Gated
  <2> QED
    BY <1>1, <1>2, <1>3, <1>4, <2>1 DEF Gated, OneGate, Live
<1>14. Matches(g)' /\ OneSort(g)'
  <2>m. /\ req' \in [Request -> RequestType] /\ req \in [Request -> RequestType]
        /\ \A s \in Request : s # r => req'[s] = req[s]
        /\ req'[r].gate = g /\ req'[r].stage = "queued" /\ req'[r].on = a
        /\ req'[r].stage \in Alive
    BY <1>3, <1>4, <1>m DEF Moves
  <2>1. Placed(g, Leased)' = Placed(g, Leased)
    <3>1. q.stage \notin Leased /\ r \notin Placed(g, Leased)
      BY <1>4, <1>5
    <3> QED
      BY <1>m, <3>1, PlacedMove
  <2>2. Placed(g, {"atGate"})' = Placed(g, {"atGate"})
    <3>1. q.stage \notin {"atGate"} /\ r \notin Placed(g, {"atGate"})
      BY <1>3, <1>5
    <3> QED
      BY <1>m, <3>1, PlacedMove
  <2>3. ExclusiveOf(Placed(g, {"queued"}))' =
           IF a = Browser THEN ExclusiveOf(Placed(g, {"queued"})) \cup {r}
           ELSE ExclusiveOf(Placed(g, {"queued"})) \ {r}
    <3>1. ExclusiveOf(Placed(g, {"queued"}))' =
             IF req'[r].gate = g /\ req'[r].stage \in {"queued"} /\ req'[r].on = Browser
             THEN ExclusiveOf(Placed(g, {"queued"})) \cup {r} ELSE ExclusiveOf(Placed(g, {"queued"})) \ {r}
      BY <2>m, OneMoves
    <3> QED
      BY <2>m, <3>1
  <2>4. TabsPlaced(g, {"queued"})' =
           IF a # Browser THEN TabsPlaced(g, {"queued"}) \cup {r}
           ELSE TabsPlaced(g, {"queued"}) \ {r}
    <3>1. TabsPlaced(g, {"queued"})' =
             IF req'[r].gate = g /\ req'[r].stage \in {"queued"} /\ req'[r].on # Browser
             THEN TabsPlaced(g, {"queued"}) \cup {r} ELSE TabsPlaced(g, {"queued"}) \ {r}
      BY <2>m, OneMoves
    <3> QED
      BY <2>m, <3>1
  <2>5. TabsPlaced(g, Alive)' =
           IF a # Browser THEN TabsPlaced(g, Alive) \cup {r}
           ELSE TabsPlaced(g, Alive) \ {r}
    <3>1. TabsPlaced(g, Alive)' =
             IF req'[r].gate = g /\ req'[r].stage \in Alive /\ req'[r].on # Browser
             THEN TabsPlaced(g, Alive) \cup {r} ELSE TabsPlaced(g, Alive) \ {r}
      BY <2>m, OneMoves
    <3> QED
      BY <2>m, <3>1
  <2>6. /\ gates'[g].accepted = Cardinality(TabsPlaced(g, Alive)')
        /\ gates'[g].pending = Cardinality(TabsPlaced(g, {"queued"})')
    <3>1. CASE a = Browser
      <4>1. TabsPlaced(g, Alive)' = TabsPlaced(g, Alive)
              /\ TabsPlaced(g, {"queued"})' = TabsPlaced(g, {"queued"})
        BY <1>5, <2>4, <2>5, <3>1
      <4> QED
        BY <1>6, <1>7, <1>8, <3>1, <4>1
    <3>2. CASE a # Browser
      BY <1>5, <1>6, <1>7, <1>8, <2>4, <2>5, <3>2, CountOne
    <3> QED
      BY <3>1, <3>2
  <2>7. GateLoad(gates'[g]) <= MaxQueueSize
    <3>1. here.queued \subseteq Request /\ here.pending \in Nat /\ MaxQueueSize \in Nat
      BY <1>6, FieldsTyped DEF GateType
    <3>2. IsFiniteSet(here.queued) /\ Cardinality(here.queued) \in Nat
      BY <3>1, FS_Subset, FS_CardinalityType, CoordinatorAssumption
    <3>3. Cardinality(here.queued \cup {r}) = Cardinality(here.queued) + 1
      BY <1>5, <1>6, <3>2, FS_AddElement
    <3> QED
      BY <1>2, <1>7, <1>8, <3>1, <3>2, <3>3 DEF GateLoad
  <2>8. gates'[g].queued =
          Placed(g, {"atGate"})' \cup ExclusiveOf(Placed(g, {"queued"}))'
    BY <1>5, <1>6, <1>7, <1>8, <2>2, <2>3
  <2>9. Matches(g)'
    BY <1>6, <1>7, <1>8, <2>1, <2>2, <2>6, <2>7, <2>8 DEF Matches
  <2>10. OneSort(g)'
    <3>1. here.shared \cup here.exclusive \subseteq Request \ {r}
      BY <1>5, <1>6 DEF Placed
    <3>2. \A s \in here.shared \cup here.exclusive : IsExclusive(s)' <=> IsExclusive(s)
      BY <1>4, <3>1 DEF IsExclusive
    <3> QED
      BY <1>6, <1>7, <1>8, <3>2 DEF OneSort
  <2> QED
    BY <2>9, <2>10
<1>15. Books'
  <2> SUFFICES ASSUME NEW h \in Gates, h # g PROVE Matches(h)' /\ OneSort(h)'
    BY <1>14 DEF Books
  <2>1. gates'[h] = gates[h] /\ req[r].gate # h /\ q.gate # h
          /\ Matches(h) /\ OneSort(h)
    BY <1>2, <1>3, <1>8, FieldsTyped DEF Books, Gated
  <2> QED
    BY <1>m, <2>1, OtherGate
<1>16. TurnsCounted'
  <2>1. ASSUME NEW s \in Request
        PROVE  /\ req'[s].overtaken <= MaxConsecutiveExclusives
               /\ req'[s].stage = "atGate" =>
                    req'[s].overtaken <= gates'[req'[s].gate].turns
               /\ req'[s].stage \in {"idle", "queued"} \/ req'[s].on = Browser
                    => req'[s].overtaken = 0
    <3>1. CASE s = r
      BY <1>3, <1>4, <3>1, FieldsTyped
    <3>2. CASE s # r
      <4>1. req'[s] = req[s]
        BY <1>4, <3>2
      <4>2. ASSUME req[s].stage = "atGate"
            PROVE  gates'[req[s].gate].turns = gates[req[s].gate].turns
        <5>1. req[s].gate = g /\ gate = g
          BY <1>1, <4>2, CoordinatorAssumption DEF OneGate, Gated, Live
        <5>2. here = gates[g]
          BY <5>1, CoordinatorAssumption DEF here
        <5> QED
          BY <1>7, <1>8, <5>1, <5>2
      <4> QED
        BY <4>1, <4>2 DEF TurnsCounted, IsExclusive
    <3> QED
      BY <3>1, <3>2
  <2> QED
    BY <2>1 DEF TurnsCounted, IsExclusive
<1> QED
  BY <1>11, <1>12, <1>13, <1>15, <1>16

\* A gate grants tabs, or the browser when nobody holds a lease; the browser only
\* while waiting tabs have not been overtaken too often.
LEMMA GrantsOneSort ==
    ASSUME CoordTypeOK, NEW g \in Gates
    PROVE  /\ Grants(gates[g]) \subseteq gates[g].started
           /\ ExclusiveOf(Grants(gates[g])) # {} =>
                /\ gates[g].shared = {} /\ gates[g].exclusive = {}
                /\ Grants(gates[g]) = ExclusiveOf(gates[g].started)
                /\ SharedOf(gates[g].started) = {}
                     \/ gates[g].turns < MaxConsecutiveExclusives
           /\ ExclusiveOf(Grants(gates[g])) = {} /\ Grants(gates[g]) # {} =>
                gates[g].exclusive = {} /\ Grants(gates[g]) = SharedOf(gates[g].started)
<1> DEFINE started == gates[g].started
           granted == Grants(gates[g])
<1>1. gates[g].turns \in Nat /\ MaxConsecutiveExclusives \in Nat
  BY FieldsTyped
<1>2. /\ SharedOf(started) \subseteq started /\ ExclusiveOf(started) \subseteq started
      /\ ExclusiveOf(SharedOf(started)) = {} /\ ExclusiveOf({}) = {}
      /\ ExclusiveOf(ExclusiveOf(started)) = ExclusiveOf(started)
  BY DEF SharedOf, ExclusiveOf
<1>3. \/ granted = {}
      \/ granted = SharedOf(started) /\ gates[g].exclusive = {}
      \/ /\ granted = ExclusiveOf(started) /\ ExclusiveOf(started) # {}
         /\ gates[g].shared = {} /\ gates[g].exclusive = {}
         /\ SharedOf(started) = {} \/ gates[g].turns < MaxConsecutiveExclusives
  BY <1>1 DEF Grants
<1> HIDE DEF granted, started
<1>4. CASE granted = {}
  BY <1>2, <1>4 DEF granted
<1>5. CASE granted = SharedOf(started) /\ gates[g].exclusive = {}
  BY <1>2, <1>5 DEF granted, started
<1>6. CASE /\ granted = ExclusiveOf(started) /\ ExclusiveOf(started) # {}
           /\ gates[g].shared = {} /\ gates[g].exclusive = {}
           /\ SharedOf(started) = {} \/ gates[g].turns < MaxConsecutiveExclusives
  BY <1>2, <1>6 DEF granted, started
<1> QED
  BY <1>3, <1>4, <1>5, <1>6

\* The tabs an exclusive turn of a gate overtakes.
Bypassed(g) ==
    IF ExclusiveOf(Grants(gates[g])) # {} THEN SharedOf(gates[g].started) ELSE {}

\* What a drain of the gate does to the requests and to the gate.
LEMMA DrainEffect ==
    ASSUME CoordTypeOK, NEW g \in Gates, GateDrain(g)
    PROVE  /\ req' \in [Request -> RequestType]
           /\ \A r \in Request :
                /\ req'[r].gate = req[r].gate /\ req'[r].on = req[r].on
                /\ req'[r].stage = IF r \in Grants(gates[g]) THEN "granted" ELSE req[r].stage
                /\ req'[r].overtaken = IF r \in Bypassed(g) THEN req[r].overtaken + 1
                                       ELSE req[r].overtaken
           /\ gates' \in [Gates -> GateType]
           /\ gates'[g].queued = gates[g].queued \ Grants(gates[g])
           /\ gates'[g].started = gates[g].started \ Grants(gates[g])
           /\ gates'[g].shared = gates[g].shared \cup SharedOf(Grants(gates[g]))
           /\ gates'[g].exclusive = gates[g].exclusive \cup ExclusiveOf(Grants(gates[g]))
           /\ gates'[g].accepted = gates[g].accepted /\ gates'[g].pending = gates[g].pending
           /\ gates'[g].turns = TurnsAfter(gates[g])
           /\ \A h \in Gates : h # g => gates'[h] = gates[h]
           /\ UNCHANGED <<actorVars, gate, cancels>>
<1> DEFINE granted == Grants(gates[g])
           bypassed == Bypassed(g)
           move(r) == [req[r] EXCEPT
                          !.stage = IF r \in granted THEN "granted" ELSE @,
                          !.overtaken = IF r \in bypassed THEN @ + 1 ELSE @]
           rec == [gates[g] EXCEPT
                     !.drain = FALSE, !.turns = TurnsAfter(gates[g]),
                     !.queued = @ \ granted, !.started = @ \ granted,
                     !.shared = @ \cup SharedOf(granted),
                     !.exclusive = @ \cup ExclusiveOf(granted)]
<1>1. /\ gates' = [gates EXCEPT ![g] = rec]
      /\ req' = [r \in Request |-> move(r)]
      /\ UNCHANGED <<actorVars, gate, cancels>>
  <2>1. gates' = [gates EXCEPT ![g] = rec]
    BY DEF GateDrain
  <2>2. req' = [r \in Request |-> move(r)]
    BY DEF GateDrain, Bypassed
  <2>3. UNCHANGED <<actorVars, gate, cancels>>
    BY DEF GateDrain
  <2> QED
    BY <2>1, <2>2, <2>3
<1> HIDE DEF granted, bypassed
<1>2. ASSUME NEW r \in Request
      PROVE  /\ move(r) \in RequestType
             /\ move(r).gate = req[r].gate /\ move(r).on = req[r].on
             /\ move(r).stage = IF r \in granted THEN "granted" ELSE req[r].stage
             /\ move(r).overtaken = IF r \in bypassed THEN req[r].overtaken + 1
                                    ELSE req[r].overtaken
  <2>1. req[r] \in RequestType
    BY FieldsTyped
  <2>2. PICK st \in Stages : st = IF r \in granted THEN "granted" ELSE req[r].stage
    BY <2>1 DEF RequestType, Stages
  <2>3. PICK n \in Nat : n = IF r \in bypassed THEN req[r].overtaken + 1
                             ELSE req[r].overtaken
    BY <2>1 DEF RequestType
  <2>4. move(r) = [req[r] EXCEPT !.stage = st, !.overtaken = n]
    BY <2>1, <2>2, <2>3
  <2> HIDE DEF move
  <2> QED
    BY <2>1, <2>2, <2>3, <2>4 DEF RequestType
<1>3. /\ rec \in GateType
      /\ rec.queued = gates[g].queued \ granted
      /\ rec.started = gates[g].started \ granted
      /\ rec.shared = gates[g].shared \cup SharedOf(granted)
      /\ rec.exclusive = gates[g].exclusive \cup ExclusiveOf(granted)
      /\ rec.accepted = gates[g].accepted /\ rec.pending = gates[g].pending
      /\ rec.turns = TurnsAfter(gates[g])
  <2>1. gates[g] \in GateType
    BY FieldsTyped
  <2>2. PICK n \in 0 .. MaxConsecutiveExclusives : n = TurnsAfter(gates[g])
    <3>1. /\ gates[g].turns \in 0 .. MaxConsecutiveExclusives
          /\ MaxConsecutiveExclusives \in Nat
      BY FieldsTyped
    <3> QED
      BY <3>1 DEF TurnsAfter
  <2>3. granted \subseteq Request
    BY GrantsOneSort, FieldsTyped DEF granted
  <2>4. PICK sh \in SUBSET Request : sh = gates[g].shared \cup SharedOf(granted)
    BY <2>3, FieldsTyped DEF SharedOf
  <2>5. PICK ex \in SUBSET Request : ex = gates[g].exclusive \cup ExclusiveOf(granted)
    BY <2>3, FieldsTyped DEF ExclusiveOf
  <2>6. PICK qu \in SUBSET Request : qu = gates[g].queued \ granted
    BY FieldsTyped
  <2>7. PICK sta \in SUBSET Request : sta = gates[g].started \ granted
    BY FieldsTyped
  <2>8. rec = [gates[g] EXCEPT !.drain = FALSE, !.turns = n, !.queued = qu, !.started = sta,
                               !.shared = sh, !.exclusive = ex]
    BY <2>1, <2>2, <2>4, <2>5, <2>6, <2>7
  <2> HIDE DEF rec
  <2>9. rec \in GateType
    BY <2>1, <2>8 DEF GateType
  <2>10. /\ rec.queued = qu /\ rec.started = sta /\ rec.shared = sh /\ rec.exclusive = ex
         /\ rec.accepted = gates[g].accepted /\ rec.pending = gates[g].pending
         /\ rec.turns = n
    BY <2>1, <2>8 DEF GateType
  <2> QED
    BY <2>2, <2>4, <2>5, <2>6, <2>7, <2>9, <2>10
<1> HIDE DEF move, rec
<1>4. req' \in [Request -> RequestType] /\ \A r \in Request : req'[r] = move(r)
  BY <1>1, <1>2
<1>5. gates' \in [Gates -> GateType] /\ gates'[g] = rec
        /\ \A h \in Gates : h # g => gates'[h] = gates[h]
  BY <1>1, <1>3 DEF CoordTypeOK
<1> QED
  BY <1>1, <1>2, <1>3, <1>4, <1>5 DEF granted, bypassed

\* A drain turns places at the gate into leases, all of one sort, and counts the turn.
LEMMA GateDrainKeeps ==
    ASSUME CoordInv, NEW g \in Gates, GateDrain(g)
    PROVE  CoordInv'
<1> USE DEF CoordInv
<1> DEFINE granted == Grants(gates[g])
<1>1. /\ req' \in [Request -> RequestType]
      /\ gates' \in [Gates -> GateType]
      /\ \A h \in Gates : h # g => gates'[h] = gates[h]
      /\ UNCHANGED <<actorVars, gate, cancels>>
  BY DrainEffect
<1>2. \A r \in Request :
        /\ req'[r].gate = req[r].gate /\ req'[r].on = req[r].on
        /\ req'[r].stage = IF r \in granted THEN "granted" ELSE req[r].stage
        /\ req'[r].overtaken = IF r \in Bypassed(g) THEN req[r].overtaken + 1
                               ELSE req[r].overtaken
  BY DrainEffect
<1>3. /\ gates'[g].queued = gates[g].queued \ granted
      /\ gates'[g].started = gates[g].started \ granted
      /\ gates'[g].shared = gates[g].shared \cup SharedOf(granted)
      /\ gates'[g].exclusive = gates[g].exclusive \cup ExclusiveOf(granted)
      /\ gates'[g].accepted = gates[g].accepted /\ gates'[g].pending = gates[g].pending
      /\ gates'[g].turns = TurnsAfter(gates[g])
  BY DrainEffect
<1>4. /\ granted \subseteq gates[g].started
      /\ ExclusiveOf(granted) # {} =>
           /\ gates[g].shared = {} /\ gates[g].exclusive = {}
           /\ granted = ExclusiveOf(gates[g].started)
           /\ SharedOf(gates[g].started) = {} \/ gates[g].turns < MaxConsecutiveExclusives
      /\ ExclusiveOf(granted) = {} /\ granted # {} =>
           gates[g].exclusive = {} /\ granted = SharedOf(gates[g].started)
  BY GrantsOneSort
<1>5. Bypassed(g) = IF ExclusiveOf(granted) # {} THEN SharedOf(gates[g].started) ELSE {}
  BY DEF Bypassed
<1>6. TurnsAfter(gates[g]) =
        IF ExclusiveOf(granted) # {}
        THEN IF gates[g].turns < MaxConsecutiveExclusives
             THEN gates[g].turns + 1 ELSE gates[g].turns
        ELSE IF granted # {} /\ gates[g].turns >= MaxConsecutiveExclusives
             THEN 0 ELSE gates[g].turns
  BY DEF TurnsAfter
<1> HIDE DEF granted
<1>7. \A s \in gates[g].started : s \in Request /\ req[s].stage = "atGate" /\ req[s].gate = g
  BY DEF Books, Matches, Placed
<1>8. \A r \in Request :
        /\ r \in granted => req[r].stage = "atGate" /\ req[r].gate = g
        /\ req'[r].stage \in Held <=> req[r].stage \in Held
        /\ \A l \in {"idle", "queued"} : req'[r].stage = l <=> req[r].stage = l
        /\ req'[r].stage = "atGate" <=> req[r].stage = "atGate" /\ r \notin granted
        /\ req'[r].stage \in Leased <=> req[r].stage \in Leased \/ r \in granted
        /\ req'[r].stage \in Alive <=> req[r].stage \in Alive
  BY <1>2, <1>4, <1>7 DEF Held, Leased, Alive, Stages
<1>9. CoordTypeOK'
  BY <1>1 DEF CoordTypeOK, actorVars
<1>10. Placement'
  BY <1>1, <1>2, <1>8 DEF Placement, actorVars
<1>11. Gated' /\ OneGate'
  BY <1>1, <1>2, <1>8 DEF Gated, OneGate, Live
<1>12. ASSUME NEW h
       PROVE  /\ TabsPlaced(h, {"queued"})' = TabsPlaced(h, {"queued"})
              /\ TabsPlaced(h, Alive)' = TabsPlaced(h, Alive)
              /\ ExclusiveOf(Placed(h, {"queued"}))' = ExclusiveOf(Placed(h, {"queued"}))
              /\ Placed(h, {"atGate"})' = Placed(h, {"atGate"}) \ granted
              /\ h # g => Placed(h, {"atGate"})' = Placed(h, {"atGate"})
              /\ h # g => Placed(h, Leased)' = Placed(h, Leased)
              /\ Placed(g, Leased)' = Placed(g, Leased) \cup granted
  <2>1. granted \subseteq Request
    BY <1>4, <1>7
  <2>2. TabsPlaced(h, {"queued"})' = TabsPlaced(h, {"queued"})
    BY <1>2, <1>8 DEF TabsPlaced, SharedOf, Placed, IsExclusive
  <2>3. TabsPlaced(h, Alive)' = TabsPlaced(h, Alive)
    BY <1>2, <1>8 DEF TabsPlaced, SharedOf, Placed, IsExclusive
  <2>4. ExclusiveOf(Placed(h, {"queued"}))' = ExclusiveOf(Placed(h, {"queued"}))
    BY <1>2, <1>8 DEF ExclusiveOf, Placed, IsExclusive
  <2>5. Placed(h, {"atGate"})' = Placed(h, {"atGate"}) \ granted
    BY <1>2, <1>8 DEF Placed
  <2>6. h # g => Placed(h, {"atGate"})' = Placed(h, {"atGate"})
    BY <1>2, <1>8 DEF Placed
  <2>7. h # g => Placed(h, Leased)' = Placed(h, Leased)
    BY <1>2, <1>8 DEF Placed
  <2>8. Placed(g, Leased)' = Placed(g, Leased) \cup granted
    BY <1>2, <1>8, <2>1 DEF Placed
  <2> QED
    BY <2>2, <2>3, <2>4, <2>5, <2>6, <2>7, <2>8
<1>13. \A s \in Request : IsExclusive(s)' <=> IsExclusive(s)
  BY <1>2 DEF IsExclusive
<1>14. Matches(g)'
  <2>1. Matches(g)
    BY DEF Books
  <2>2. SharedOf(granted) \cup ExclusiveOf(granted) = granted
    BY DEF SharedOf, ExclusiveOf
  <2>3. gates'[g].shared \cup gates'[g].exclusive = Placed(g, Leased)'
    BY <1>3, <1>12, <2>1, <2>2 DEF Matches
  <2>4. gates'[g].started = Placed(g, {"atGate"})'
    BY <1>3, <1>12, <2>1 DEF Matches
  <2>5. gates'[g].queued =
          Placed(g, {"atGate"})' \cup ExclusiveOf(Placed(g, {"queued"}))'
    <3>1. granted \cap ExclusiveOf(Placed(g, {"queued"})) = {}
      BY <1>8 DEF ExclusiveOf, Placed
    <3> QED
      BY <1>3, <1>12, <2>1, <3>1 DEF Matches
  <2>6. GateLoad(gates'[g]) <= MaxQueueSize
    <3>1. IsFiniteSet(gates[g].queued) /\ Cardinality(gates[g].queued) \in Nat
      BY QueueFinite
    <3>2. /\ Cardinality(gates'[g].queued) <= Cardinality(gates[g].queued)
          /\ Cardinality(gates'[g].queued) \in Nat
      BY <1>3, <3>1, FS_Subset, FS_CardinalityType
    <3> QED
      BY <1>3, <2>1, <3>1, <3>2, FieldsTyped DEF Matches, GateLoad
  <2>7. /\ gates'[g].pending = Cardinality(TabsPlaced(g, {"queued"})')
        /\ gates'[g].accepted = Cardinality(TabsPlaced(g, Alive)')
    BY <1>3, <1>12, <2>1 DEF Matches
  <2> QED
    BY <2>3, <2>4, <2>5, <2>6, <2>7 DEF Matches
<1>15. OneSort(g)'
  <2>1. OneSort(g) /\ granted \subseteq Request
    BY <1>4, <1>7 DEF Books
  <2>2. \A s \in SharedOf(granted) : s \in Request /\ ~IsExclusive(s)
    BY <2>1 DEF SharedOf
  <2>3. \A s \in ExclusiveOf(granted) : s \in Request /\ IsExclusive(s)
    BY <2>1 DEF ExclusiveOf
  <2>4. /\ \A s \in gates'[g].shared : ~IsExclusive(s)'
        /\ \A s \in gates'[g].exclusive : IsExclusive(s)'
    BY <1>3, <1>13, <2>1, <2>2, <2>3, FieldsTyped DEF OneSort
  <2>5. gates'[g].shared = {} \/ gates'[g].exclusive = {}
    <3>1. CASE ExclusiveOf(granted) # {}
      <4>1. SharedOf(granted) = {}
        BY <1>4, <3>1 DEF SharedOf, ExclusiveOf
      <4> QED
        BY <1>3, <1>4, <3>1, <4>1
    <3>2. CASE ExclusiveOf(granted) = {} /\ granted # {}
      BY <1>3, <1>4, <3>2
    <3>3. CASE granted = {}
      <4>1. SharedOf(granted) = {} /\ ExclusiveOf(granted) = {}
        BY <3>3 DEF SharedOf, ExclusiveOf
      <4> QED
        BY <1>3, <2>1, <4>1 DEF OneSort
    <3> QED
      BY <3>1, <3>2, <3>3
  <2> QED
    BY <2>4, <2>5 DEF OneSort
<1>16. Books'
  <2> SUFFICES ASSUME NEW h \in Gates, h # g PROVE Matches(h)' /\ OneSort(h)'
    BY <1>14, <1>15 DEF Books
  <2>1. gates'[h] = gates[h] /\ Matches(h) /\ OneSort(h)
    BY <1>1 DEF Books
  <2>2. Matches(h)'
    BY <1>12, <2>1 DEF Matches, GateLoad
  <2>3. OneSort(h)'
    BY <1>13, <2>1, FieldsTyped DEF OneSort
  <2> QED
    BY <2>2, <2>3
<1>17. TurnsCounted'
  <2>1. gates[g].turns \in Nat /\ MaxConsecutiveExclusives \in Nat
          /\ gates[g].turns <= MaxConsecutiveExclusives
    BY FieldsTyped
  <2>2. ASSUME NEW s \in Request
        PROVE  /\ req'[s].overtaken <= MaxConsecutiveExclusives
               /\ req'[s].stage = "atGate" =>
                    req'[s].overtaken <= gates'[req'[s].gate].turns
               /\ req'[s].stage \in {"idle", "queued"} \/ req'[s].on = Browser
                    => req'[s].overtaken = 0
    <3>1. /\ req[s].overtaken <= MaxConsecutiveExclusives /\ req[s].overtaken \in Nat
          /\ req[s].stage = "atGate" => req[s].overtaken <= gates[req[s].gate].turns
          /\ req[s].stage \in {"idle", "queued"} \/ req[s].on = Browser
               => req[s].overtaken = 0
      BY FieldsTyped DEF TurnsCounted, IsExclusive
    <3>2. CASE s \in Bypassed(g)
      <4>1. /\ ExclusiveOf(granted) # {} /\ s \in gates[g].started
            /\ SharedOf(gates[g].started) # {} /\ req[s].on # Browser
        BY <1>5, <3>2 DEF SharedOf, IsExclusive
      <4>2. /\ req[s].stage = "atGate" /\ req[s].gate = g
            /\ gates[g].turns < MaxConsecutiveExclusives
            /\ gates'[g].turns = gates[g].turns + 1
        BY <1>3, <1>4, <1>6, <1>7, <4>1
      <4>3. req'[s].overtaken = req[s].overtaken + 1 /\ req'[s].gate = g
              /\ req'[s].on = req[s].on /\ req'[s].stage \notin {"idle", "queued"}
        BY <1>2, <1>8, <3>2, <4>2
      <4> QED
        BY <2>1, <3>1, <4>1, <4>2, <4>3
    <3>3. CASE s \notin Bypassed(g)
      <4>1. /\ req'[s].overtaken = req[s].overtaken /\ req'[s].gate = req[s].gate
            /\ req'[s].on = req[s].on
            /\ req'[s].stage \in {"idle", "queued"} => req[s].stage \in {"idle", "queued"}
        BY <1>2, <1>8, <3>3
      <4>2. ASSUME req'[s].stage = "atGate"
            PROVE  req'[s].overtaken <= gates'[req'[s].gate].turns
        <5>1. req[s].stage = "atGate" /\ s \notin granted
          BY <1>8, <4>2
        <5>2. CASE req[s].gate # g
          <6>1. PICK h \in Gates : h = req[s].gate
            BY <5>1 DEF Gated, Live
          <6> QED
            BY <1>1, <3>1, <4>1, <5>1, <5>2, <6>1
        <5>3. CASE req[s].gate = g /\ req[s].on = Browser
          <6>1. gates'[g].turns \in Nat
            BY <1>3, <1>6, <2>1
          <6> QED
            BY <3>1, <4>1, <5>3, <6>1
        <5>4. CASE req[s].gate = g /\ req[s].on # Browser
          <6>1. s \in SharedOf(gates[g].started)
            BY <5>1, <5>4 DEF Books, Matches, Placed, SharedOf, IsExclusive
          <6>2. ExclusiveOf(granted) = {} /\ granted = {}
            BY <1>4, <1>5, <3>3, <5>1, <6>1
          <6>3. gates'[g].turns = gates[g].turns
            BY <1>3, <1>6, <6>2
          <6> QED
            BY <3>1, <4>1, <5>1, <5>4, <6>3
        <5> QED
          BY <5>2, <5>3, <5>4
      <4> QED
        BY <3>1, <4>1, <4>2
    <3> QED
      BY <3>2, <3>3
  <2> QED
    BY <2>2 DEF TurnsCounted, IsExclusive
<1> QED
  BY <1>9, <1>10, <1>11, <1>16, <1>17

\* A request that is refused leaves nothing but an actor of the browser.
LEMMA RefuseKeeps ==
    ASSUME CoordInv, Refuse
    PROVE  CoordInv'
<1> USE DEF CoordInv
<1>1. /\ UNCHANGED <<req, queue, active, actorDrain, consecutive, gate, gates, cancels>>
      /\ actors' = actors \cup {Browser}
  BY DEF Refuse
<1>2. CoordTypeOK'
  BY <1>1 DEF CoordTypeOK, Resource
<1>3. Placement' /\ Gated' /\ OneGate' /\ TurnsCounted'
  BY <1>1 DEF Placement, Gated, OneGate, TurnsCounted, Live, IsExclusive
<1>4. Books'
  BY <1>1, UnchangedBooks
<1> QED
  BY <1>2, <1>3, <1>4

-----------------------------------------------------------------------------
(* The invariant *)

\* The invariant holds when nothing is requested.
LEMMA CoordInvInit ==
    ASSUME CoordInit
    PROVE  CoordInv
<1>1. \A r \in Request : req[r] = NoRequest
  BY DEF CoordInit
<1>2. \A g \in Gates : gates[g] = EmptyGate
  BY DEF CoordInit
<1>3. CoordTypeOK
  <2>1. req \in [Request -> RequestType]
    BY NoRequestTyped DEF CoordInit
  <2>2. queue \in [Resource -> Seq(Request)]
    BY EmptySeq DEF CoordInit
  <2>3. consecutive \in [Resource -> [Priority -> Nat]]
    BY DEF CoordInit, NoTurns
  <2>4. gates \in [Gates -> GateType]
    <3>1. EmptyGate \in GateType
      BY CoordinatorAssumption DEF EmptyGate, GateType
    <3> QED
      BY <3>1 DEF CoordInit
  <2>5. cancels \in 0 .. MaxCancels
    BY CoordinatorAssumption DEF CoordInit
  <2>6. active \in [Resource -> Request \cup {Nobody}]
          /\ actorDrain \in [Resource -> BOOLEAN] /\ actors \subseteq Resource
          /\ gate \in Gates \cup {Nobody}
    BY DEF CoordInit
  <2> QED
    BY <2>1, <2>2, <2>3, <2>4, <2>5, <2>6 DEF CoordTypeOK
<1>4. Placement
  <2>1. \A a \in Resource : queue[a] = <<>> /\ active[a] = Nobody
    BY DEF CoordInit
  <2>2. Range(<<>>) = {}
    BY EmptySeq DEF Range
  <2>3. \A r \in Request : req[r].stage = "idle"
    BY <1>1, NoRequestTyped
  <2>4. \A a \in Resource : Range(queue[a]) =
           {r \in Request : req[r].stage = "queued" /\ req[r].on = a}
    BY <2>1, <2>2, <2>3
  <2>5. \A a \in Resource : \A i, j \in 1 .. Len(queue[a]) :
           queue[a][i] = queue[a][j] => i = j
    BY <2>1, EmptySeq
  <2>6. \A a \in Resource, r \in Request :
           active[a] = r <=> req[r].stage \in Held /\ req[r].on = a
    BY <2>1, <2>3, CoordinatorAssumption DEF Held
  <2> QED
    BY <2>4, <2>5, <2>6 DEF Placement
<1>5. Gated /\ OneGate
  BY <1>1, NoRequestTyped, CoordinatorAssumption DEF Gated, OneGate, Live
<1>6. Books
  <2> SUFFICES ASSUME NEW g \in Gates PROVE Matches(g) /\ OneSort(g)
    BY DEF Books
  <2>1. \A r \in Request : req[r].gate # g
    BY <1>1, NoRequestTyped, CoordinatorAssumption
  <2>2. /\ Placed(g, Leased) = {} /\ Placed(g, {"atGate"}) = {}
        /\ ExclusiveOf(Placed(g, {"queued"})) = {}
        /\ TabsPlaced(g, {"queued"}) = {} /\ TabsPlaced(g, Alive) = {}
    BY <2>1 DEF Placed, TabsPlaced, SharedOf, ExclusiveOf
  <2>3. Cardinality({}) = 0 /\ MaxQueueSize \in Nat
    BY FS_EmptySet, CoordinatorAssumption
  <2>4. Matches(g)
    <3>1. /\ gates[g].queued = {} /\ gates[g].started = {} /\ gates[g].shared = {}
          /\ gates[g].exclusive = {} /\ gates[g].pending = 0 /\ gates[g].accepted = 0
      BY <1>2 DEF EmptyGate
    <3>2. GateLoad(gates[g]) <= MaxQueueSize
      BY <2>3, <3>1 DEF GateLoad
    <3> QED
      BY <2>2, <2>3, <3>1, <3>2 DEF Matches
  <2>5. OneSort(g)
    BY <1>2 DEF OneSort, EmptyGate
  <2> QED
    BY <2>4, <2>5
<1>7. TurnsCounted
  BY <1>1, NoRequestTyped, CoordinatorAssumption DEF TurnsCounted
<1> QED
  BY <1>3, <1>4, <1>5, <1>6, <1>7 DEF CoordInv

\* Every step keeps it.
LEMMA CoordInvStep ==
    ASSUME CoordInv, [CoordNext]_coordVars
    PROVE  CoordInv'
<1>1. ASSUME NEW r \in Request, NEW a \in Resource, NEW p \in Priority,
             NEW parent \in Request \cup {Nobody}, Enqueue(r, a, p, parent)
      PROVE  CoordInv'
  BY <1>1, EnqueueKeeps
<1>2. ASSUME NEW r \in Request, CancelQueued(r)
      PROVE  CoordInv'
  BY <1>2, CancelQueuedKeeps
<1>3. ASSUME NEW r \in Request, CancelInFlight(r)
      PROVE  CoordInv'
  BY <1>3, CancelInFlightKeeps
<1>4. ASSUME NEW r \in Request, Age(r)
      PROVE  CoordInv'
  BY <1>4, AgeKeeps
<1>5. ASSUME NEW r \in Request, CallBack(r)
      PROVE  CoordInv'
  BY <1>5, CallBackKeeps
<1>6. ASSUME NEW r \in Request, Settle(r)
      PROVE  CoordInv'
  BY <1>6, SettleKeeps
<1>7. CASE Refuse
  BY <1>7, RefuseKeeps
<1>8. ASSUME NEW a \in Resource, StartNext(a)
      PROVE  CoordInv'
  BY <1>8, StartNextKeeps
<1>9. ASSUME NEW g \in Gates, GateDrain(g)
      PROVE  CoordInv'
  BY <1>9, GateDrainKeeps
<1>10. CASE UNCHANGED coordVars
  <2>1. UNCHANGED <<req, actors, queue, active, actorDrain, consecutive, gate, gates, cancels>>
    BY <1>10 DEF coordVars, actorVars
  <2>2. CoordTypeOK'
    BY <2>1 DEF CoordInv, CoordTypeOK
  <2>3. Placement' /\ Gated' /\ OneGate' /\ TurnsCounted'
    BY <2>1 DEF CoordInv, Placement, Gated, OneGate, TurnsCounted, Live, IsExclusive
  <2>4. Books'
    BY <2>1, UnchangedBooks DEF CoordInv
  <2> QED
    BY <2>2, <2>3, <2>4 DEF CoordInv
<1> QED
  BY <1>1, <1>2, <1>3, <1>4, <1>5, <1>6, <1>7, <1>8, <1>9, <1>10 DEF CoordNext

\* The invariant holds throughout.
LEMMA CoordInvHolds == CoordSpec => []CoordInv
<1>1. CoordInit => CoordInv
  BY CoordInvInit
<1>2. CoordInv /\ [CoordNext]_coordVars => CoordInv'
  BY CoordInvStep
<1> QED
  BY <1>1, <1>2, PTL DEF CoordSpec

-----------------------------------------------------------------------------
(* What the coordinator promises *)

\* Type correctness; what is reserved at a gate never drops below zero, whatever is
\* cancelled, and in whatever order.
THEOREM CoordinatorTypes == CoordSpec => []CoordTypeOK
<1>1. CoordInv => CoordTypeOK
  BY DEF CoordInv
<1> QED
  BY <1>1, CoordInvHolds, PTL

\* maybeCleanupGate gives a gate up only when no request holds a closure over it, so
\* getBrowserGate never makes a second one beside it.
THEOREM GateNotReplaced == CoordSpec => []OneGate
<1>1. CoordInv => OneGate
  BY DEF CoordInv
<1> QED
  BY <1>1, CoordInvHolds, PTL

\* Leases, places and reservation counts of a gate are those of its requests, however
\* they start, settle and are cancelled: nothing is given back twice, or never.
THEOREM BooksBalance == CoordSpec => []GateMatchesRequests
<1>1. CoordInv => GateMatchesRequests
  BY DEF CoordInv, Books, Matches, GateMatchesRequests, Placed, TabsPlaced, Leased, Alive
<1> QED
  BY <1>1, CoordInvHolds, PTL

\* consecutiveExclusive, with its reset, bounds the exclusive turns of the browser a
\* tab waits for, whoever else keeps arriving.
THEOREM OvertakingBounded == CoordSpec => []BypassBounded
<1>1. CoordInv => BypassBounded
  BY DEF CoordInv, TurnsCounted, BypassBounded
<1> QED
  BY <1>1, CoordInvHolds, PTL

\* The serial actors and the one gate above them keep every callback alone with its
\* tab and a browser callback alone with the browser, also a cancelled one that is
\* still running.
THEOREM BrowserNotShared == CoordSpec => []BrowserExclusive
<1>1. ASSUME CoordInv, NEW r \in Request, NEW s \in Request, Using(r), Using(s), r # s
      PROVE  req[r].on # req[s].on /\ Browser \notin {req[r].on, req[s].on}
  <2>1. req[r].on \in Resource /\ req[s].on \in Resource
    BY <1>1, FieldsTyped DEF CoordInv
  <2>2. req[r].stage \in Held /\ req[s].stage \in Held
    BY <1>1 DEF Using, Held
  <2>3. active[req[r].on] = r /\ active[req[s].on] = s
    BY <1>1, <2>1, <2>2 DEF CoordInv, Placement
  <2>4. req[r].on # req[s].on
    BY <1>1, <2>3
  <2>5. PICK g \in Gates : g = req[r].gate /\ g = req[s].gate
    BY <1>1 DEF CoordInv, OneGate, Gated, Using, Live
  <2>6. r \in gates[g].shared \cup gates[g].exclusive
          /\ s \in gates[g].shared \cup gates[g].exclusive
    <3>1. r \in Placed(g, Leased) /\ s \in Placed(g, Leased)
      BY <1>1, <2>5 DEF Placed, Leased, Using
    <3>2. Matches(g)
      BY <1>1 DEF CoordInv, Books
    <3> QED
      BY <3>1, <3>2 DEF Matches
  <2>7. IsExclusive(r) <=> IsExclusive(s)
    BY <1>1, <2>6 DEF CoordInv, Books, OneSort
  <2> QED
    BY <2>4, <2>7 DEF IsExclusive
<1>2. CoordInv => BrowserExclusive
  BY <1>1 DEF BrowserExclusive
<1> QED
  BY <1>2, CoordInvHolds, PTL

=============================================================================
