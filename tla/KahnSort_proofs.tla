-------------------------- MODULE KahnSort_proofs --------------------------
(***************************************************************************)
(* Theorems about KahnSort: the sort is exact for every definition,         *)
(* whatever ids and edges it lists, from every order of the map.            *)
(***************************************************************************)
EXTENDS KahnSort, TLAPS, FiniteSetTheorems, NaturalsInduction

-----------------------------------------------------------------------------
(* Facts about lists.                                                       *)

Once(s) == \A i, j \in DOMAIN s : s[i] = s[j] => i = j

\* A list that got one more member at its end (queue = append(queue, next)).
LEMMA Appended ==
  ASSUME NEW S, NEW s \in Seq(S), NEW x \in S
  PROVE  /\ Append(s, x) \in Seq(S)
         /\ Elements(Append(s, x)) = Elements(s) \union {x}
         /\ Once(s) /\ x \notin Elements(s) => Once(Append(s, x))
<1>1. /\ Append(s, x) \in Seq(S)
      /\ DOMAIN Append(s, x) = 1 .. Len(s) + 1
      /\ DOMAIN s = 1 .. Len(s) /\ Len(s) \in Nat
      /\ \A i \in 1 .. Len(s) : Append(s, x)[i] = s[i]
      /\ Append(s, x)[Len(s) + 1] = x
  OBVIOUS
<1>2. Elements(Append(s, x)) = Elements(s) \union {x}
  BY <1>1 DEF Elements
<1>3. Once(s) /\ x \notin Elements(s) => Once(Append(s, x))
  BY <1>1 DEF Elements, Once
<1> QED
  BY <1>1, <1>2, <1>3

\* A list that lost its first member (cur := queue[0]; queue = queue[1:]).
LEMMA Popped ==
  ASSUME NEW S, NEW s \in Seq(S), s # <<>>
  PROVE  /\ Head(s) \in S /\ Tail(s) \in Seq(S)
         /\ Elements(s) = Elements(Tail(s)) \union {Head(s)}
         /\ Once(s) => Once(Tail(s)) /\ Head(s) \notin Elements(Tail(s))
<1>1. /\ Head(s) \in S /\ Tail(s) \in Seq(S)
      /\ Len(s) \in Nat \ {0} /\ DOMAIN s = 1 .. Len(s)
      /\ Head(s) = s[1]
      /\ DOMAIN Tail(s) = 1 .. Len(s) - 1
      /\ \A i \in 1 .. Len(s) - 1 : Tail(s)[i] = s[i + 1]
  OBVIOUS
<1>2. Elements(s) = Elements(Tail(s)) \union {Head(s)}
  <2>1. ASSUME NEW x \in Elements(s)
        PROVE  x \in Elements(Tail(s)) \union {Head(s)}
    <3>1. PICK i \in 1 .. Len(s) : x = s[i]
      BY <1>1, <2>1 DEF Elements
    <3>2. CASE i = 1
      BY <1>1, <3>1, <3>2
    <3>3. CASE i # 1
      <4>1. i - 1 \in 1 .. Len(s) - 1 /\ x = Tail(s)[i - 1]
        BY <1>1, <3>1, <3>3
      <4> QED
        BY <1>1, <4>1 DEF Elements
    <3> QED
      BY <3>2, <3>3
  <2>2. ASSUME NEW x \in Elements(Tail(s)) \union {Head(s)}
        PROVE  x \in Elements(s)
    BY <1>1, <2>2 DEF Elements
  <2> QED
    BY <2>1, <2>2
<1>3. Once(s) => Once(Tail(s))
  BY <1>1 DEF Once
<1>4. Once(s) => Head(s) \notin Elements(Tail(s))
  BY <1>1 DEF Once, Elements
<1> QED
  BY <1>1, <1>2, <1>3, <1>4

\* A list has as many members as positions exactly when none is repeated.
LEMMA CountedOnce ==
  ASSUME NEW S, NEW s \in Seq(S)
  PROVE  /\ IsFiniteSet(Elements(s))
         /\ Cardinality(Elements(s)) \in Nat
         /\ Cardinality(Elements(s)) <= Len(s)
         /\ Cardinality(Elements(s)) = Len(s) <=> Once(s)
<1>1. Len(s) \in Nat /\ DOMAIN s = 1 .. Len(s) /\ s \in [1 .. Len(s) -> Elements(s)]
  BY DEF Elements
<1>2. s \in Surjection(1 .. Len(s), Elements(s))
  BY <1>1 DEF Surjection, Elements
<1>3. IsFiniteSet(1 .. Len(s)) /\ Cardinality(1 .. Len(s)) = Len(s)
  BY <1>1, FS_Interval
<1>4. s \in Injection(1 .. Len(s), Elements(s)) <=> Once(s)
  BY <1>1 DEF Injection, IsInjective, Once
<1>5. /\ IsFiniteSet(Elements(s))
      /\ Cardinality(Elements(s)) <= Cardinality(1 .. Len(s))
      /\ Cardinality(Elements(s)) = Cardinality(1 .. Len(s))
            <=> s \in Injection(1 .. Len(s), Elements(s))
  BY <1>2, <1>3, FS_Surjection
<1> QED
  BY <1>3, <1>4, <1>5, FS_CardinalityType

\* A listing of a set holds all of it (the seeds of the queue).
LEMMA ListingsAreComplete ==
  ASSUME NEW S, IsFiniteSet(S), NEW s \in Listings(S)
  PROVE  s \in Seq(S) /\ Once(s) /\ Elements(s) = S
<1>1. Cardinality(S) \in Nat
  BY FS_CardinalityType
<1>2. s \in [1 .. Cardinality(S) -> S] /\ Once(s)
  BY DEF Listings, Once
<1>3. s \in Seq(S) /\ Len(s) = Cardinality(S)
  BY <1>1, <1>2
<1>4. Elements(s) \in SUBSET S
  BY <1>2 DEF Elements
<1>5. Cardinality(Elements(s)) = Cardinality(S)
  BY <1>2, <1>3, CountedOnce
<1> QED
  BY <1>2, <1>3, <1>4, <1>5, FS_Subset

\* Dag counts as this module does.
LEMMA SameCardinality ==
  ASSUME NEW S
  PROVE  D!Cardinality(S) = Cardinality(S)
BY DEF D!Cardinality, Cardinality

-----------------------------------------------------------------------------
(* The inductive invariant.                                                 *)

Typed ==
  /\ nodes \in Seq(Names) /\ edges \in Seq(Names \X Names)
  /\ pc \in Places
  /\ k \in 1 .. Len(edges) + 1
  /\ cur \in Ids \union {NoId}
  /\ inDegree \in [Ids -> 0 .. Len(edges)]
  /\ queue \in Seq(Ids) /\ sorted \in Seq(Ids)

\* The edges into n that were counted so far, and those that are left to follow.
CountedInto(n) == {i \in 1 .. k - 1 : edges[i][2] = n}

LeftInto(n) ==
  {i \in DOMAIN edges :
      /\ edges[i][2] = n
      /\ \/ edges[i][1] \notin Elements(sorted)
         \/ pc = "relax" /\ edges[i][1] = cur /\ i >= k}

\* The edge loop.
Counting ==
  pc = "edges" =>
    /\ queue = <<>> /\ sorted = <<>>
    /\ \A i \in 1 .. k - 1 : Known(edges[i])
    /\ \A n \in Ids : inDegree[n] = Cardinality(CountedInto(n))

\* The main loop: the queue and the result hold the nodes with nothing left.
Sorting ==
  pc \in {"loop", "relax"} =>
    /\ \A i \in DOMAIN edges : Known(edges[i])
    /\ \A n \in Ids : inDegree[n] = Cardinality(LeftInto(n))
    /\ \A n \in Ids :
        inDegree[n] = 0 <=> n \in Elements(sorted) \union Elements(queue)
    /\ pc = "relax" => cur \in Elements(sorted)

Distinct ==
  /\ Once(sorted) /\ Once(queue)
  /\ Elements(sorted) \intersect Elements(queue) = {}

\* Each node of the result comes after the origins of its edges.
Ordered ==
  \A p \in DOMAIN sorted : \A i \in DOMAIN edges :
    edges[i][2] = sorted[p] => \E q \in 1 .. p - 1 : sorted[q] = edges[i][1]

IInv ==
  Typed /\ Counting /\ Sorting /\ Distinct /\ Ordered
    /\ ResultIsTopological /\ ErrorIsJustified

\* Sets of positions are finite and no larger than the list of edges.
LEMMA PositionsAreFinite ==
  ASSUME Typed, NEW T \in SUBSET DOMAIN edges
  PROVE  IsFiniteSet(T) /\ Cardinality(T) \in 0 .. Len(edges)
<1>1. Len(edges) \in Nat /\ DOMAIN edges = 1 .. Len(edges)
  BY DEF Typed
<1>2. IsFiniteSet(DOMAIN edges) /\ Cardinality(DOMAIN edges) = Len(edges)
  BY <1>1, FS_Interval
<1> QED
  BY <1>1, <1>2, FS_Subset, FS_CardinalityType

\* There are finitely many ids.
LEMMA IdsAreFinite ==
  ASSUME Typed
  PROVE  /\ IsFiniteSet(Ids) /\ Cardinality(Ids) \in Nat
         /\ Cardinality(Ids) <= Len(nodes)
         /\ Cardinality(Ids) = Len(nodes) <=> Once(nodes)
BY CountedOnce DEF Typed, Ids

\* In the main loop a counter of 0 means that every edge's origin is sorted.
LEMMA NothingLeft ==
  ASSUME Typed, Sorting, pc \in {"loop", "relax"},
         NEW n \in Ids
  PROVE  inDegree[n] = 0 <=> LeftInto(n) = {}
<1>1. LeftInto(n) \in SUBSET DOMAIN edges
  BY DEF LeftInto
<1>2. IsFiniteSet(LeftInto(n))
  BY <1>1, PositionsAreFinite
<1> QED
  BY <1>2, FS_EmptySet DEF Sorting

-----------------------------------------------------------------------------
(* The steps                                                               *)

LEMMA Initially == Init => IInv
<1> SUFFICES ASSUME Init
             PROVE  IInv
  OBVIOUS
<1> USE DEF Init
<1>1. nodes \in Seq(Names) /\ edges \in Seq(Names \X Names)
  BY KahnAssumption
<1>2. Len(edges) \in Nat
  BY <1>1
<1>3. Typed
  BY <1>1, <1>2 DEF Typed, Places
<1>4. \A n \in Ids : CountedInto(n) = {}
  BY DEF CountedInto
<1>5. Counting
  BY <1>4, FS_EmptySet DEF Counting
<1>6. Elements(<<>>) = {} /\ Once(<<>>)
  BY DEF Elements, Once
<1>7. Distinct
  BY <1>6 DEF Distinct
<1> QED
  BY <1>3, <1>5, <1>7 DEF IInv, Sorting, Ordered, ResultIsTopological, ErrorIsJustified

\* The input is constant, and what depends on nothing else.
LEMMA InputStays ==
  ASSUME IInv, UNCHANGED input
  PROVE  Ids' = Ids /\ edges' = edges /\ nodes' = nodes /\ WellFormed' = WellFormed
         /\ (D!TopoOrders)' = D!TopoOrders
BY DEF input, Ids, WellFormed, Known, D!TopoOrders, D!Covers, D!Respects

LEMMA AddEdgeKeeps ==
  ASSUME IInv, AddEdge
  PROVE  IInv'
<1> USE DEF AddEdge
<1>0. Typed /\ Counting
  BY DEF IInv
<1>1. /\ Ids' = Ids /\ edges' = edges /\ nodes' = nodes
      /\ Len(edges) \in Nat /\ DOMAIN edges = 1 .. Len(edges)
      /\ k \in 1 .. Len(edges) /\ k' = k + 1
  BY <1>0, InputStays DEF Typed
<1>2. edges[k][2] \in Ids
  BY DEF Known
<1>3. ASSUME NEW n \in Ids
      PROVE  inDegree'[n] = Cardinality(CountedInto(n)')
  <2>1. CountedInto(n) \in SUBSET DOMAIN edges /\ k \notin CountedInto(n)
    BY <1>1 DEF CountedInto
  <2>2. IsFiniteSet(CountedInto(n)) /\ inDegree[n] = Cardinality(CountedInto(n))
    BY <1>0, <2>1, PositionsAreFinite DEF Counting
  <2>3. CASE n = edges[k][2]
    <3>1. CountedInto(n)' = CountedInto(n) \union {k}
      BY <1>1, <2>3 DEF CountedInto
    <3>2. Cardinality(CountedInto(n) \union {k}) = Cardinality(CountedInto(n)) + 1
      BY <2>1, <2>2, FS_AddElement
    <3>3. inDegree'[n] = inDegree[n] + 1
      BY <1>0, <2>3 DEF Typed
    <3> QED
      BY <2>2, <3>1, <3>2, <3>3
  <2>4. CASE n # edges[k][2]
    <3>1. CountedInto(n)' = CountedInto(n)
      BY <1>1, <2>4 DEF CountedInto
    <3> QED
      BY <1>0, <2>2, <2>4, <3>1 DEF Typed
  <2> QED
    BY <2>3, <2>4
<1>4. Typed'
  <2>1. ASSUME NEW n \in Ids
        PROVE  inDegree'[n] \in 0 .. Len(edges)
    <3>1. CountedInto(n)' \in SUBSET DOMAIN edges
      BY <1>1 DEF CountedInto
    <3> QED
      BY <1>0, <1>3, <3>1, PositionsAreFinite
  <2>2. inDegree' \in [Ids -> 0 .. Len(edges)]
    BY <1>0, <1>2, <2>1 DEF Typed
  <2> QED
    BY <1>0, <1>1, <2>2 DEF Typed
<1>5. \A i \in 1 .. k' - 1 : Known(edges[i])
  BY <1>0, <1>1 DEF Counting
<1>6. Counting'
  BY <1>0, <1>1, <1>3, <1>5 DEF Counting, Known
<1>7. sorted' = sorted /\ queue' = queue /\ pc' = "edges"
  OBVIOUS
<1>8. Distinct' /\ Ordered'
  BY <1>1, <1>7 DEF IInv, Distinct, Ordered, Once, Elements
<1>9. Sorting' /\ ResultIsTopological' /\ ErrorIsJustified'
  BY <1>7 DEF Sorting, ResultIsTopological, ErrorIsJustified
<1> QED
  BY <1>4, <1>6, <1>8, <1>9 DEF IInv

\* An edge that names an unknown id makes the definition malformed.
LEMMA UnknownNodeKeeps ==
  ASSUME IInv, UnknownNode
  PROVE  IInv'
<1> USE DEF UnknownNode
<1>0. Typed
  BY DEF IInv
<1>1. /\ Ids' = Ids /\ edges' = edges /\ nodes' = nodes /\ WellFormed' = WellFormed
  BY InputStays
<1>2. ~WellFormed
  BY <1>0 DEF WellFormed, Typed
<1> QED
  BY <1>1, <1>2
     DEF IInv, Typed, Places, Counting, Sorting, Distinct, Ordered, Once, Elements,
         ResultIsTopological, ErrorIsJustified

\* The counters of the edge loop are what is left when nothing is sorted.
LEMMA SeedKeeps ==
  ASSUME IInv, Seed
  PROVE  IInv'
<1> DEFINE Z == {n \in Ids : inDegree[n] = 0}
<1>0. Typed /\ Counting /\ pc = "edges" /\ sorted = <<>> /\ k > Len(edges)
      /\ pc' = "loop" /\ UNCHANGED <<input, k, cur, inDegree, sorted>>
      /\ queue' \in Listings(Z)
  BY DEF IInv, Seed, Counting
<1>1. /\ Ids' = Ids /\ edges' = edges /\ nodes' = nodes
      /\ Len(edges) \in Nat /\ DOMAIN edges = 1 .. Len(edges)
      /\ k = Len(edges) + 1
  BY <1>0, InputStays DEF Typed
<1>2. IsFiniteSet(Z) /\ Z \subseteq Ids
  BY <1>0, IdsAreFinite, FS_Subset
<1>3. queue' \in Seq(Z) /\ Once(queue') /\ Elements(queue') = Z
  <2> HIDE DEF Z
  <2> QED
    BY <1>0, <1>2, ListingsAreComplete
<1>4. queue' \in Seq(Ids)
  BY <1>2, <1>3
<1>5. Elements(sorted) = {} /\ Once(sorted)
  BY <1>0 DEF Elements, Once
<1>6. Typed'
  BY <1>0, <1>1, <1>4 DEF Typed, Places
<1>7. \A n \in Ids : LeftInto(n)' = CountedInto(n)
  BY <1>0, <1>1, <1>5 DEF LeftInto, CountedInto
<1>8. Sorting'
  <2>1. \A i \in DOMAIN edges : Known(edges[i])
    BY <1>0, <1>1 DEF Counting
  <2>2. \A n \in Ids : inDegree[n] = Cardinality(CountedInto(n))
    BY <1>0 DEF Counting
  <2>3. \A n \in Ids : inDegree[n] = 0 <=> n \in Elements(sorted) \union Elements(queue')
    BY <1>3, <1>5
  <2> QED
    BY <1>0, <1>1, <1>7, <2>1, <2>2, <2>3 DEF Sorting, Known
<1>9. Distinct' /\ Counting' /\ Ordered'
  BY <1>0, <1>3, <1>5 DEF Distinct, Counting, Ordered
<1> QED
  BY <1>0, <1>6, <1>8, <1>9 DEF IInv, ResultIsTopological, ErrorIsJustified

\* The head of the queue has nothing left, so the origins of its edges are sorted.
LEMMA PopKeeps ==
  ASSUME IInv, Pop
  PROVE  IInv'
<1> DEFINE h == Head(queue)
<1>0. /\ Typed /\ Sorting /\ Distinct /\ Ordered
      /\ pc = "loop" /\ queue # <<>>
      /\ pc' = "relax" /\ k' = 1 /\ cur' = h
      /\ queue' = Tail(queue) /\ sorted' = Append(sorted, h)
      /\ UNCHANGED <<input, inDegree>>
  BY DEF IInv, Pop
<1>1. /\ Ids' = Ids /\ edges' = edges /\ nodes' = nodes
      /\ Len(edges) \in Nat /\ DOMAIN edges = 1 .. Len(edges)
  BY <1>0, InputStays DEF Typed
<1>2. /\ h \in Ids /\ queue' \in Seq(Ids)
      /\ Elements(queue) = Elements(queue') \union {h}
      /\ Once(queue') /\ h \notin Elements(queue')
  BY <1>0, Popped DEF Typed, Distinct
<1>3. h \notin Elements(sorted)
  BY <1>0, <1>2 DEF Distinct
<1>4. /\ sorted' \in Seq(Ids) /\ Once(sorted')
      /\ Elements(sorted') = Elements(sorted) \union {h}
  <2> HIDE DEF h
  <2> QED
    BY <1>0, <1>2, <1>3, Appended DEF Typed, Distinct
<1> HIDE DEF h
<1>5. Typed'
  BY <1>0, <1>1, <1>2, <1>4 DEF Typed, Places
<1>6. Distinct'
  BY <1>0, <1>2, <1>3, <1>4 DEF Distinct
<1>7. \A n \in Ids : LeftInto(n)' = LeftInto(n)
  BY <1>0, <1>1, <1>3, <1>4 DEF LeftInto
<1>8. Sorting'
  <2>1. \A n \in Ids :
          n \in Elements(sorted') \union Elements(queue')
            <=> n \in Elements(sorted) \union Elements(queue)
    BY <1>2, <1>4
  <2>2. cur' \in Elements(sorted')
    BY <1>0, <1>4
  <2> QED
    BY <1>0, <1>1, <1>7, <2>1, <2>2 DEF Sorting, Known
<1>9. Ordered'
  <2> SUFFICES ASSUME NEW p \in DOMAIN sorted', NEW i \in DOMAIN edges,
                      edges[i][2] = sorted'[p]
               PROVE  \E q \in 1 .. p - 1 : sorted'[q] = edges[i][1]
    BY <1>1 DEF Ordered
  <2>1. /\ Len(sorted) \in Nat /\ DOMAIN sorted = 1 .. Len(sorted)
        /\ DOMAIN sorted' = 1 .. Len(sorted) + 1
        /\ \A q \in 1 .. Len(sorted) : sorted'[q] = sorted[q]
        /\ sorted'[Len(sorted) + 1] = h
    BY <1>0, <1>2, SMTT(60) DEF Typed
  <2>2. CASE p \in DOMAIN sorted
    <3>1. PICK q \in 1 .. p - 1 : sorted[q] = edges[i][1]
      BY <1>0, <2>1, <2>2 DEF Ordered
    <3> QED
      BY <2>1, <2>2, <3>1
  <2>3. CASE p = Len(sorted) + 1
    <3>1. edges[i][2] = h /\ inDegree[h] = 0
      BY <1>0, <1>2, <2>1, <2>3 DEF Sorting
    <3>2. LeftInto(h) = {}
      BY <1>0, <1>2, <3>1, NothingLeft
    <3>3. edges[i][1] \in Elements(sorted)
      BY <3>1, <3>2 DEF LeftInto
    <3>4. PICK q \in DOMAIN sorted : sorted[q] = edges[i][1]
      BY <3>3 DEF Elements
    <3> QED
      BY <2>1, <2>3, <3>4
  <2> QED
    BY <2>1, <2>2, <2>3
<1> QED
  BY <1>0, <1>5, <1>6, <1>8, <1>9 DEF IInv, Counting, ResultIsTopological, ErrorIsJustified

\* Following an edge takes one from what its target waits for.
LEMMA RelaxKeeps ==
  ASSUME IInv, Relax
  PROVE  IInv'
<1> DEFINE next == edges[k][2]
<1>0. /\ Typed /\ Sorting /\ Distinct /\ Ordered
      /\ pc = "relax" /\ k <= Len(edges) /\ edges[k][1] = cur
      /\ inDegree' = [inDegree EXCEPT ![next] = @ - 1]
      /\ queue' = IF inDegree[next] = 1 THEN Append(queue, next) ELSE queue
      /\ k' = k + 1
      /\ UNCHANGED <<input, pc, cur, sorted>>
  BY DEF IInv, Relax
<1>1. /\ Ids' = Ids /\ edges' = edges /\ nodes' = nodes
      /\ Len(edges) \in Nat /\ DOMAIN edges = 1 .. Len(edges)
      /\ k \in DOMAIN edges
  <2>1. Ids' = Ids /\ edges' = edges /\ nodes' = nodes
    BY InputStays DEF Relax
  <2> QED
    BY <1>0, <2>1 DEF Typed
<1>2. next \in Ids /\ cur \in Elements(sorted)
  BY <1>0, <1>1 DEF Sorting, Known
<1>3. /\ k \in LeftInto(next)
      /\ \A n \in Ids : n = next => LeftInto(n)' = LeftInto(n) \ {k}
  <2>1. k \in LeftInto(next)
    BY <1>0, <1>1 DEF LeftInto
  <2>2. ASSUME NEW n \in Ids, n = next
        PROVE  LeftInto(n)' = LeftInto(n) \ {k}
    BY <1>0, <1>1, <1>2, <2>2 DEF LeftInto
  <2> QED
    BY <2>1, <2>2
<1>4. \A n \in Ids : n # next => LeftInto(n)' = LeftInto(n)
  BY <1>0, <1>1, <1>2 DEF LeftInto
<1> HIDE DEF next
<1>5. inDegree[next] \in Nat \ {0} /\ Cardinality(LeftInto(next) \ {k}) = inDegree[next] - 1
  <2>1. LeftInto(next) \in SUBSET DOMAIN edges
    BY DEF LeftInto
  <2>2. IsFiniteSet(LeftInto(next))
    BY <1>0, <2>1, PositionsAreFinite
  <2>3. Cardinality(LeftInto(next) \ {k}) = Cardinality(LeftInto(next)) - 1
    BY <1>3, <2>2, FS_RemoveElement
  <2>4. inDegree[next] # 0
    BY <1>0, <1>2, <1>3, NothingLeft
  <2>5. inDegree[next] \in Nat /\ inDegree[next] = Cardinality(LeftInto(next))
    BY <1>0, <1>2 DEF Typed, Sorting
  <2> QED
    BY <1>3, <2>3, <2>4, <2>5
<1>6. /\ inDegree' \in [Ids -> 0 .. Len(edges)]
      /\ inDegree'[next] = inDegree[next] - 1
      /\ \A n \in Ids : n # next => inDegree'[n] = inDegree[n]
  BY <1>0, <1>2, <1>5 DEF Typed
<1>7. next \notin Elements(sorted) \union Elements(queue)
  BY <1>0, <1>2, <1>5 DEF Sorting
<1>8. /\ queue' \in Seq(Ids) /\ Once(queue')
      /\ Elements(queue') = IF inDegree[next] = 1 THEN Elements(queue) \union {next}
                            ELSE Elements(queue)
  BY <1>0, <1>2, <1>7, Appended DEF Typed, Distinct
<1>9. Typed'
  BY <1>0, <1>1, <1>6, <1>8 DEF Typed
<1>10. Distinct'
  BY <1>0, <1>7, <1>8 DEF Distinct
<1>11. Sorting'
  <2>1. \A n \in Ids : inDegree'[n] = Cardinality(LeftInto(n)')
    <3> TAKE n \in Ids
    <3>1. CASE n = next
      BY <1>3, <1>5, <1>6, <3>1
    <3>2. CASE n # next
      BY <1>0, <1>4, <1>6, <3>2 DEF Sorting
    <3> QED
      BY <3>1, <3>2
  <2>2. \A n \in Ids : inDegree'[n] = 0
                         <=> n \in Elements(sorted) \union Elements(queue')
    <3> TAKE n \in Ids
    <3>1. CASE n = next
      BY <1>5, <1>6, <1>7, <1>8, <3>1
    <3>2. CASE n # next
      BY <1>0, <1>6, <1>8, <3>2 DEF Sorting
    <3> QED
      BY <3>1, <3>2
  <2> QED
    BY <1>0, <1>1, <1>2, <2>1, <2>2 DEF Sorting, Known
<1>12. Ordered'
  BY <1>0, <1>1 DEF Ordered
<1> QED
  BY <1>0, <1>9, <1>10, <1>11, <1>12
     DEF IInv, Counting, ResultIsTopological, ErrorIsJustified

\* An edge of another origin, and the end of the list, change nothing that is left.
LEMMA SkipKeeps ==
  ASSUME IInv, Skip \/ EndOfAdj
  PROVE  IInv'
<1>0. /\ Typed /\ Sorting /\ Distinct /\ Ordered
      /\ pc = "relax" /\ pc' \in {"loop", "relax"}
      /\ UNCHANGED <<input, cur, inDegree, queue, sorted>>
  BY DEF IInv, Skip, EndOfAdj
<1>1. /\ Ids' = Ids /\ edges' = edges /\ nodes' = nodes
      /\ Len(edges) \in Nat /\ DOMAIN edges = 1 .. Len(edges)
      /\ k \in 1 .. Len(edges) + 1
  BY <1>0, InputStays DEF Typed
<1>2. Typed'
  BY <1>0, <1>1 DEF Typed, Places, Skip, EndOfAdj
<1>3. \A n \in Ids : LeftInto(n)' = LeftInto(n)
  <2>1. CASE Skip
    BY <1>0, <1>1, <2>1 DEF LeftInto, Skip
  <2>2. CASE EndOfAdj
    BY <1>0, <1>1, <2>2 DEF LeftInto, EndOfAdj
  <2> QED
    BY <2>1, <2>2
<1>4. Sorting'
  BY <1>0, <1>1, <1>3 DEF Sorting, Known
<1>5. Distinct' /\ Ordered'
  BY <1>0, <1>1 DEF Distinct, Ordered
<1> QED
  BY <1>0, <1>2, <1>4, <1>5 DEF IInv, Counting, ResultIsTopological, ErrorIsJustified

\* Some nodes that all have a parent among themselves are in no order: the first of
\* them would come after its parent.
LEMMA StuckNodesHaveNoOrder ==
  ASSUME Typed, NEW S \in SUBSET Ids, S # {},
         \A n \in S : \E m \in S : <<m, n>> \in Elements(edges)
  PROVE  D!TopoOrders = {}
<1> SUFFICES ASSUME NEW order \in D!TopoOrders
             PROVE  FALSE
  OBVIOUS
<1> DEFINE N == Cardinality(Ids)
           T == {i \in 1 .. N : order[i] \in S}
           R == {ss \in Nat \X Nat : ss[1] < ss[2]}
<1>0. IsWellFoundedOn(R, Nat)
  BY NatLessThanWellFounded DEF OpToRel
<1>1. N \in Nat
  BY IdsAreFinite
<1>2. DOMAIN order = 1 .. N /\ D!Covers(order) /\ D!Respects(order)
  BY SameCardinality DEF D!TopoOrders
<1>3. T \subseteq Nat /\ T # {}
  BY <1>1, <1>2 DEF D!Covers
<1>4. PICK i \in T : \A j \in T : ~(<<j, i>> \in R)
  <2> HIDE DEF R, T
  <2> QED
    BY <1>0, <1>3, WFMin
<1>5. PICK m \in S : <<m, order[i]>> \in Elements(edges)
  OBVIOUS
<1>6. PICK j \in T : order[j] = m
  BY <1>2 DEF D!Covers
<1>7. j < i
  BY <1>2, <1>5, <1>6 DEF D!Respects
<1> QED
  BY <1>1, <1>3, <1>4, <1>6, <1>7

\* A full result is an order of nodes whose ids are unique.
LEMMA FullResult ==
  ASSUME Typed, Sorting, Distinct, Ordered, pc = "loop", Complete
  PROVE  WellFormed /\ sorted \in D!TopoOrders
<1>1. /\ Len(sorted) \in Nat /\ DOMAIN sorted = 1 .. Len(sorted)
      /\ Elements(sorted) \in SUBSET Ids
      /\ Cardinality(Elements(sorted)) = Len(sorted)
  <2>1. sorted \in Seq(Ids) /\ Once(sorted)
    BY DEF Typed, Distinct
  <2>2. Elements(sorted) \in SUBSET Ids
    BY <2>1 DEF Elements
  <2> QED
    BY <2>1, <2>2, CountedOnce
<1>2. /\ Cardinality(Ids) = Len(sorted) /\ Once(nodes) /\ Elements(sorted) = Ids
  <2>1. Cardinality(Elements(sorted)) <= Cardinality(Ids)
    BY <1>1, IdsAreFinite, FS_Subset
  <2>2. Cardinality(Ids) = Len(nodes) /\ Len(sorted) = Len(nodes)
    BY <1>1, <2>1, IdsAreFinite DEF Complete, Typed
  <2> QED
    BY <1>1, <2>2, IdsAreFinite, FS_Subset
<1>3. WellFormed
  BY <1>2 DEF WellFormed, Once, Sorting
<1>4. sorted \in [1 .. Cardinality(Ids) -> Ids]
  BY <1>1, <1>2 DEF Typed
<1>5. D!Covers(sorted)
  BY <1>2 DEF D!Covers, Distinct, Once, Elements
<1>6. D!Respects(sorted)
  <2> SUFFICES ASSUME NEW p \in DOMAIN sorted, NEW q \in DOMAIN sorted,
                      <<sorted[q], sorted[p]>> \in Elements(edges)
               PROVE  q < p
    BY DEF D!Respects
  <2>1. PICK i \in DOMAIN edges : edges[i] = <<sorted[q], sorted[p]>>
    BY DEF Elements
  <2>2. PICK o \in 1 .. p - 1 : sorted[o] = sorted[q]
    BY <2>1 DEF Ordered
  <2>3. o = q
    BY <1>1, <2>2 DEF Distinct, Once
  <2> QED
    BY <1>1, <2>2, <2>3
<1> QED
  BY <1>3, <1>4, <1>5, <1>6, SameCardinality DEF D!TopoOrders

\* When the queue is empty, the nodes that are missing wait for each other.
LEMMA ShortResult ==
  ASSUME Typed, Sorting, Distinct, pc = "loop", queue = <<>>, ~Complete, WellFormed
  PROVE  D!TopoOrders = {}
<1> DEFINE S == Ids \ Elements(sorted)
<1>1. S # {}
  <2> SUFFICES ASSUME Ids \subseteq Elements(sorted)
               PROVE  FALSE
    OBVIOUS
  <2>1. Elements(sorted) = Ids
    BY DEF Typed, Elements
  <2>2. Cardinality(Ids) = Len(sorted)
    BY <2>1, CountedOnce DEF Typed, Distinct
  <2>3. Cardinality(Ids) = Len(nodes)
    BY IdsAreFinite DEF WellFormed, Once
  <2> QED
    BY <2>2, <2>3 DEF Complete
<1>2. ASSUME NEW n \in S
      PROVE  \E m \in S : <<m, n>> \in Elements(edges)
  <2>1. Elements(queue) = {}
    BY DEF Elements
  <2>2. inDegree[n] # 0
    BY <1>2, <2>1 DEF Sorting
  <2>3. PICK i \in LeftInto(n) : TRUE
    BY <1>2, <2>2, NothingLeft
  <2>4. i \in DOMAIN edges /\ edges[i][2] = n /\ edges[i][1] \in S
    BY <2>3 DEF LeftInto, Sorting, Known
  <2>5. edges[i] = <<edges[i][1], n>>
    BY <2>4 DEF Typed
  <2> QED
    BY <2>4, <2>5 DEF Elements
<1> HIDE DEF S
<1>3. S \in SUBSET Ids
  BY DEF S
<1> QED
  BY <1>1, <1>2, <1>3, StuckNodesHaveNoOrder

LEMMA ReturnKeeps ==
  ASSUME IInv, Return
  PROVE  IInv'
<1>0. /\ Typed /\ Sorting /\ Distinct /\ Ordered
      /\ pc = "loop" /\ queue = <<>>
      /\ pc' = IF Complete THEN "ok" ELSE "error"
      /\ UNCHANGED <<input, k, cur, inDegree, queue, sorted>>
  BY DEF IInv, Return
<1>1. /\ Ids' = Ids /\ edges' = edges /\ nodes' = nodes
      /\ WellFormed' = WellFormed /\ (D!TopoOrders)' = D!TopoOrders
  BY <1>0, InputStays
<1>2. Typed'
  BY <1>0, <1>1 DEF Typed, Places
<1>3. Distinct' /\ Ordered'
  BY <1>0, <1>1 DEF Distinct, Ordered
<1>4. ResultIsTopological' /\ ErrorIsJustified'
  <2>1. CASE Complete
    BY <1>0, <1>1, <2>1, FullResult DEF ResultIsTopological, ErrorIsJustified
  <2>2. CASE ~Complete
    BY <1>0, <1>1, <2>2, ShortResult DEF ResultIsTopological, ErrorIsJustified
  <2> QED
    BY <2>1, <2>2
<1> QED
  BY <1>0, <1>2, <1>3, <1>4 DEF IInv, Counting, Sorting

LEMMA StutterKeeps ==
  ASSUME IInv, UNCHANGED vars
  PROVE  IInv'
<1>1. /\ Ids' = Ids /\ WellFormed' = WellFormed /\ (D!TopoOrders)' = D!TopoOrders
      /\ UNCHANGED <<nodes, edges, pc, k, cur, inDegree, queue, sorted>>
  BY InputStays DEF vars, input
<1>2. \A n \in Ids : LeftInto(n)' = LeftInto(n) /\ CountedInto(n)' = CountedInto(n)
  BY <1>1 DEF LeftInto, CountedInto
<1> QED
  BY <1>1, <1>2
     DEF IInv, Typed, Counting, Sorting, Distinct, Ordered, Known,
         ResultIsTopological, ErrorIsJustified

THEOREM KahnInvariance == Spec => []IInv
<1>1. IInv /\ [Next]_vars => IInv'
  BY AddEdgeKeeps, UnknownNodeKeeps, SeedKeeps, PopKeeps, RelaxKeeps, SkipKeeps,
     ReturnKeeps, StutterKeeps DEF Next
<1> QED
  BY Initially, <1>1, PTL DEF Spec

-----------------------------------------------------------------------------
(* The properties, for every definition.                                    *)

\* Every variable keeps its type, and no counter leaves 0 .. Len(edges) (inDegree of
\* TopologicalSort).
THEOREM KahnTypes == Spec => []TypeOK
<1>1. IInv => TypeOK
  <2> SUFFICES ASSUME IInv PROVE TypeOK
    OBVIOUS
  <2>1. Typed
    BY DEF IInv
  <2> QED
    BY <2>1 DEF TypeOK, Typed
<1> QED
  BY KahnInvariance, <1>1, PTL

\* The counters of the main loop are what is left to follow.
THEOREM CountersAreExact == Spec => []InDegreeIsWhatIsLeft
<1>1. IInv => InDegreeIsWhatIsLeft
  BY DEF IInv, Sorting, InDegreeIsWhatIsLeft, LeftInto
<1> QED
  BY KahnInvariance, <1>1, PTL

\* No node is in the queue or the result twice, not even once in each.
THEOREM NobodyIsQueuedTwice == Spec => []QueuedOnce
<1>1. IInv => QueuedOnce
  <2> SUFFICES ASSUME IInv PROVE QueuedOnce
    OBVIOUS
  <2> DEFINE all == sorted \o queue
  <2>1. sorted \in Seq(Ids) /\ queue \in Seq(Ids) /\ Distinct
    BY DEF IInv, Typed
  <2>2. /\ Len(sorted) \in Nat /\ Len(queue) \in Nat
        /\ DOMAIN sorted = 1 .. Len(sorted) /\ DOMAIN queue = 1 .. Len(queue)
        /\ DOMAIN all = 1 .. Len(sorted) + Len(queue)
        /\ \A i \in DOMAIN all : all[i] = IF i <= Len(sorted) THEN sorted[i]
                                          ELSE queue[i - Len(sorted)]
    BY <2>1
  <2> HIDE DEF all
  <2>3. ASSUME NEW i \in DOMAIN all, NEW j \in DOMAIN all, all[i] = all[j], i <= Len(sorted)
        PROVE  i = j
    <3>1. all[i] = sorted[i] /\ i \in DOMAIN sorted
      BY <2>2, <2>3
    <3>2. all[i] \in Elements(sorted)
      BY <3>1 DEF Elements
    <3>3. CASE j <= Len(sorted)
      <4>1. all[j] = sorted[j] /\ j \in DOMAIN sorted
        BY <2>2, <3>3
      <4> QED
        BY <2>1, <2>3, <3>1, <4>1 DEF Distinct, Once
    <3>4. CASE ~(j <= Len(sorted))
      <4>1. all[j] = queue[j - Len(sorted)] /\ j - Len(sorted) \in DOMAIN queue
        BY <2>2, <3>4
      <4>2. all[j] \in Elements(queue)
        BY <4>1 DEF Elements
      <4> QED
        BY <2>1, <2>3, <3>2, <4>2 DEF Distinct
    <3> QED
      BY <3>3, <3>4
  <2>4. ASSUME NEW i \in DOMAIN all, NEW j \in DOMAIN all, all[i] = all[j],
               ~(i <= Len(sorted)), ~(j <= Len(sorted))
        PROVE  i = j
    <3>1. /\ all[i] = queue[i - Len(sorted)] /\ i - Len(sorted) \in DOMAIN queue
          /\ all[j] = queue[j - Len(sorted)] /\ j - Len(sorted) \in DOMAIN queue
      BY <2>2, <2>4
    <3>2. i - Len(sorted) = j - Len(sorted)
      BY <2>1, <2>4, <3>1 DEF Distinct, Once
    <3> QED
      BY <2>2, <3>2
  <2> QED
    BY <2>3, <2>4 DEF QueuedOnce, all
<1> QED
  BY KahnInvariance, <1>1, PTL

\* Whatever the definition, the result is one of Dag's topological orders.
THEOREM ResultsAreOrders == Spec => []ResultIsTopological
<1>1. IInv => ResultIsTopological
  BY DEF IInv
<1> QED
  BY KahnInvariance, <1>1, PTL

\* Whatever the definition, an error means that it is malformed or has no order.
THEOREM ErrorsAreJustified == Spec => []ErrorIsJustified
<1>1. IInv => ErrorIsJustified
  BY DEF IInv
<1> QED
  BY KahnInvariance, <1>1, PTL
=============================================================================
