-------------------------- MODULE NodeData_proofs --------------------------
(***************************************************************************)
(* What the recursive functions of Lookup and NodeSearch compute, for paths, *)
(* strings and names of any length.  Such a function is the CHOOSE of one   *)
(* that meets its equation: each part shows first that there is one, by     *)
(* induction on how far it meets it, and then reasons with the equation.    *)
(***************************************************************************)
EXTENDS Lookup, NodeSearch, WellFoundedInduction, TLAPS

\* Induction, over a set instead of a predicate.
LEMMA Induction ==
    ASSUME NEW T, 0 \in T, \A n \in Nat : n \in T => n + 1 \in T
    PROVE  \A n \in Nat : n \in T
<1> DEFINE Out == {n \in Nat : n \notin T}
           R == {ss \in Nat \X Nat : ss[1] < ss[2]}
<1> SUFFICES ASSUME Out # {} PROVE FALSE
  OBVIOUS
<1>1. IsWellFoundedOn(R, Nat)
  BY NatLessThanWellFounded DEF OpToRel
<1>2. PICK m \in Out : \A n \in Out : <<n, m>> \notin R
  <2> HIDE DEF R
  <2>1. Out \subseteq Nat
    OBVIOUS
  <2> HIDE DEF Out
  <2> QED
    BY <1>1, <2>1, WFMin
<1>3. m # 0 /\ m \in Nat /\ m - 1 \in Nat
  OBVIOUS
<1>4. <<m - 1, m>> \in R
  BY <1>3
<1>5. m - 1 \notin Out
  BY <1>2, <1>4
<1> QED
  BY <1>3, <1>5

-----------------------------------------------------------------------------
(* Dot paths                                                               *)

ValueStep(data, keys, f) ==
    [i \in 0 .. Len(keys) |-> IF i = 0 THEN data ELSE Member(f[i - 1], keys[i])]

Values(data, keys) == CHOOSE f : f = ValueStep(data, keys, f)

LEMMA ResolveDotPathIs ==
    ASSUME NEW data, NEW path
    PROVE  ResolveDotPath(data, path) = Values(data, Keys(path))[Len(Keys(path))]
BY DEF ResolveDotPath, Values, ValueStep

LEMMA ValuesEquation ==
    ASSUME NEW data, NEW keys, Len(keys) \in Nat
    PROVE  Values(data, keys) = ValueStep(data, keys, Values(data, keys))
<1> DEFINE N == Len(keys)
           Upto(f, n) == \A i \in 0 .. N : i <= n => f[i] = ValueStep(data, keys, f)[i]
           T == {n \in Nat : \E f : f = [i \in 0 .. N |-> f[i]] /\ Upto(f, n)}
<1>1. 0 \in T
  <2> DEFINE f == [i \in 0 .. N |-> data]
  <2>1. Upto(f, 0)
    BY DEF ValueStep
  <2> QED
    BY <2>1
<1>2. ASSUME NEW n \in Nat, n \in T PROVE n + 1 \in T
  <2>1. PICK f : Upto(f, n)
    BY <1>2
  <2> DEFINE g == ValueStep(data, keys, f)
  <2>2. \A i \in 0 .. N : g[i] = IF i = 0 THEN data ELSE Member(f[i - 1], keys[i])
    BY DEF ValueStep
  <2>3. \A i \in 0 .. N : ValueStep(data, keys, g)[i] =
            IF i = 0 THEN data ELSE Member(g[i - 1], keys[i])
    BY DEF ValueStep
  <2>4. g = [i \in 0 .. N |-> g[i]]
    BY DEF ValueStep
  <2> HIDE DEF g
  <2>5. Upto(g, n + 1)
    <3> SUFFICES ASSUME NEW i \in 0 .. N, i <= n + 1
                 PROVE  g[i] = ValueStep(data, keys, g)[i]
      OBVIOUS
    <3>1. CASE i = 0
      BY <3>1, <2>2, <2>3
    <3>2. CASE i # 0
      <4>1. i - 1 \in 0 .. N /\ i - 1 <= n
        BY <3>2
      <4>2. f[i - 1] = g[i - 1]
        BY <4>1, <2>1, <2>2, <2>3 DEF g
      <4> QED
        BY <3>2, <4>2, <2>2, <2>3
    <3> QED
      BY <3>1, <3>2
  <2> HIDE DEF Upto
  <2> QED
    BY <2>4, <2>5
<1>3. N \in T
  <2> HIDE DEF T
  <2> QED
    BY <1>1, <1>2, Induction
<1>4. PICK f : f = [i \in 0 .. N |-> f[i]] /\ Upto(f, N)
  BY <1>3
<1>5. \A i \in 0 .. N : f[i] = ValueStep(data, keys, f)[i]
  BY <1>4
<1>6. f = ValueStep(data, keys, f)
  BY <1>4, <1>5 DEF ValueStep
<1> QED
  BY <1>6 DEF Values

\* One call of resolveDotPath.
KeysAt(path, f, i) ==
    LET j == Trimmed(path, i) IN
    IF j = Len(path) /\ path[j] \in {"$", Empty} THEN <<>> ELSE <<path[j]>> \o f[j + 1]

KeysStep(path, f) ==
    [i \in 1 .. Len(path) + 1 |-> IF i > Len(path) THEN <<>> ELSE KeysAt(path, f, i)]

KeysFrom(path) == CHOOSE f : f = KeysStep(path, f)

LEMMA KeysIs == ASSUME NEW path PROVE Keys(path) = KeysFrom(path)[1]
BY DEF Keys, KeysFrom, KeysStep, KeysAt

LEMMA KeysEquation ==
    ASSUME NEW path, Len(path) \in Nat
    PROVE  KeysFrom(path) = KeysStep(path, KeysFrom(path))
<1> DEFINE N == Len(path)
           D == 1 .. N + 1
           Upto(f, n) == \A i \in D : N + 1 - i <= n => f[i] = KeysStep(path, f)[i]
           T == {n \in Nat : \E f : f = [i \in D |-> f[i]] /\ Upto(f, n)}
<1>0. \A i \in 1 .. N : Trimmed(path, i) \in i .. N
  BY DEF Trimmed
<1>1. 0 \in T
  <2> DEFINE f == [i \in D |-> <<>>]
  <2>1. Upto(f, 0)
    BY DEF KeysStep
  <2> QED
    BY <2>1
<1>2. ASSUME NEW n \in Nat, n \in T PROVE n + 1 \in T
  <2>1. PICK f : Upto(f, n)
    BY <1>2
  <2> DEFINE g == KeysStep(path, f)
  <2>2. g = [i \in D |-> g[i]]
    BY DEF KeysStep
  <2>3. Upto(g, n + 1)
    <3> SUFFICES ASSUME NEW i \in D, N + 1 - i <= n + 1
                 PROVE  g[i] = KeysStep(path, g)[i]
      OBVIOUS
    <3>1. CASE i > N
      BY <3>1 DEF KeysStep
    <3>2. CASE i <= N
      <4> DEFINE j == Trimmed(path, i)
      <4>1. j + 1 \in D /\ N + 1 - (j + 1) <= n
        BY <3>2, <1>0
      <4>2. f[j + 1] = g[j + 1]
        BY <4>1, <2>1
      <4>3. g[i] = KeysAt(path, f, i)
        BY <3>2 DEF KeysStep
      <4> HIDE DEF g
      <4>4. KeysStep(path, g)[i] = KeysAt(path, g, i)
        BY <3>2 DEF KeysStep
      <4>5. KeysAt(path, f, i) = KeysAt(path, g, i)
        BY <4>2 DEF KeysAt
      <4> QED
        BY <4>3, <4>4, <4>5
    <3> QED
      BY <3>1, <3>2
  <2> HIDE DEF Upto, g
  <2> QED
    BY <2>2, <2>3
<1>3. N \in T
  <2> HIDE DEF T
  <2> QED
    BY <1>1, <1>2, Induction
<1>4. PICK f : f = [i \in D |-> f[i]] /\ Upto(f, N)
  BY <1>3
<1>5. \A i \in D : f[i] = KeysStep(path, f)[i]
  BY <1>4
<1>6. f = KeysStep(path, f)
  BY <1>4, <1>5 DEF KeysStep
<1> QED
  BY <1>6 DEF KeysFrom

LEMMA KeysUnfold ==
    ASSUME NEW path, Len(path) \in Nat
    PROVE  /\ KeysFrom(path)[Len(path) + 1] = <<>>
           /\ \A i \in 1 .. Len(path) : KeysFrom(path)[i] = KeysAt(path, KeysFrom(path), i)
<1> DEFINE f == KeysFrom(path)
<1>1. f = KeysStep(path, f)
  BY KeysEquation
<1> HIDE DEF f
<1>2. \A i \in 1 .. Len(path) + 1 : f[i] =
        IF i > Len(path) THEN <<>> ELSE KeysAt(path, f, i)
  BY <1>1 DEF KeysStep
<1> QED
  BY <1>2 DEF f

\* resolveDotPath can be given any keys without dots, those that are empty or called
\* "$" included.
LEMMA SegmentsHaveAPath ==
    ASSUME NEW keys \in Seq(Segments)
    PROVE  /\ PathTo(keys) \in Seq(Segments) /\ PathTo(keys) # <<>>
           /\ Keys(PathTo(keys)) = keys
<1> DEFINE N == Len(keys)
           path == PathTo(keys)
           K == KeysFrom(path)
           T == {n \in Nat : n <= N => K[2 * (N - n) + 1] = SubSeq(keys, N - n + 1, N)}
<1>0. path \in Seq(Segments) /\ path # <<>>
  <2>1. N \in Nat /\ DOMAIN path = 1 .. 2 * N + 1
    BY DEF PathTo
  <2>2. ASSUME NEW i \in 1 .. 2 * N + 1 PROVE path[i] \in Segments
    <3>1. CASE i % 2 = 1
      BY <3>1, LookupAssumption DEF PathTo
    <3>2. CASE i % 2 # 1
      <4>1. i \div 2 \in 1 .. N
        BY <2>1, <3>2
      <4>2. path[i] = keys[i \div 2]
        BY <3>2 DEF PathTo
      <4> QED
        BY <4>1, <4>2
    <3> QED
      BY <3>1, <3>2
  <2>3. path = [i \in 1 .. 2 * N + 1 |-> path[i]]
    BY DEF PathTo
  <2> HIDE DEF path
  <2>4. path \in [1 .. 2 * N + 1 -> Segments]
    BY <2>2, <2>3
  <2> QED
    BY <2>1, <2>4
<1>1. N \in Nat /\ Len(path) = 2 * N + 1
  BY DEF PathTo
<1>2. \A k \in 0 .. N : path[2 * k + 1] = "$"
  BY <1>1 DEF PathTo
<1>3. \A k \in 0 .. N - 1 : path[2 * k + 2] = keys[k + 1]
  BY <1>1 DEF PathTo
<1> HIDE DEF path
<1>4. 0 \in T
  <2>1. Trimmed(path, 2 * N + 1) = 2 * N + 1
    BY <1>1 DEF Trimmed
  <2>2. path[2 * N + 1] = "$" /\ 2 * N + 1 \in 1 .. Len(path)
    BY <1>1, <1>2
  <2>3. K[2 * N + 1] = KeysAt(path, K, 2 * N + 1)
    BY <1>1, <2>2, KeysUnfold
  <2> HIDE DEF K
  <2>4. K[2 * N + 1] = <<>>
    BY <1>1, <2>1, <2>2, <2>3 DEF KeysAt
  <2>5. SubSeq(keys, N + 1, N) = <<>> /\ N - 0 = N
    BY <1>1
  <2> QED
    BY <1>1, <2>4, <2>5
<1>5. ASSUME NEW n \in Nat, n \in T PROVE n + 1 \in T
  <2> SUFFICES ASSUME n + 1 <= N
               PROVE  K[2 * (N - (n + 1)) + 1] = SubSeq(keys, N - (n + 1) + 1, N)
    OBVIOUS
  <2> DEFINE k == N - (n + 1)
  <2>1. k \in 0 .. N - 1 /\ N - n = k + 1
    BY <1>1
  <2>2. K[2 * (k + 1) + 1] = SubSeq(keys, k + 2, N)
    BY <1>1, <1>5, <2>1
  <2> HIDE DEF k
  <2>3. Trimmed(path, 2 * k + 1) = 2 * k + 2
    <3>0. k \in 0 .. N
      BY <1>1, <2>1
    <3>1. path[2 * k + 1] = "$"
      BY <1>2, <3>0
    <3>2. 2 * k + 1 < Len(path)
      BY <1>1, <2>1
    <3> QED
      BY <2>1, <3>1, <3>2 DEF Trimmed
  <2>4. 2 * k + 2 # Len(path) /\ 2 * k + 1 \in 1 .. Len(path)
    BY <1>1, <2>1
  <2>5. K[2 * k + 1] = KeysAt(path, K, 2 * k + 1)
    BY <1>1, <2>4, KeysUnfold
  <2>6. 2 * k + 2 + 1 = 2 * (k + 1) + 1
    BY <2>1
  <2> HIDE DEF K
  <2>7. K[2 * k + 1] = <<keys[k + 1]>> \o SubSeq(keys, k + 2, N)
    BY <1>3, <2>1, <2>2, <2>3, <2>4, <2>5, <2>6 DEF KeysAt
  <2>8. <<keys[k + 1]>> \o SubSeq(keys, k + 2, N) = SubSeq(keys, k + 1, N)
    BY <1>1, <2>1
  <2> QED
    BY <2>1, <2>7, <2>8 DEF k
<1>6. N \in T
  <2> HIDE DEF T
  <2> QED
    BY <1>1, <1>4, <1>5, Induction
<1>7. K[1] = SubSeq(keys, 1, N)
  BY <1>1, <1>6
<1> QED
  BY <1>0, <1>7, KeysIs DEF path

\* resolveDotPath looks up nothing else than what is between the dots of its path.
LEMMA KeysAreSegments ==
    ASSUME NEW path \in Seq(Segments)
    PROVE  Keys(path) \in Seq(Segments)
<1> DEFINE N == Len(path)
           K == KeysFrom(path)
           T == {n \in Nat : \A i \in 1 .. N + 1 : N + 1 - i <= n => K[i] \in Seq(Segments)}
<1>0. N \in Nat
  OBVIOUS
<1>1. 0 \in T
  <2>1. K[N + 1] = <<>>
    BY KeysUnfold
  <2>2. <<>> \in Seq(Segments)
    OBVIOUS
  <2>3. \A i \in 1 .. N + 1 : N + 1 - i <= 0 => i = N + 1
    BY <1>0
  <2> HIDE DEF K
  <2> QED
    BY <2>1, <2>2, <2>3
<1>2. ASSUME NEW n \in Nat, n \in T PROVE n + 1 \in T
  <2> SUFFICES ASSUME NEW i \in 1 .. N + 1, N + 1 - i <= n + 1
               PROVE  K[i] \in Seq(Segments)
    OBVIOUS
  <2>1. CASE i = N + 1
    <3>1. K[N + 1] = <<>>
      BY KeysUnfold
    <3>2. <<>> \in Seq(Segments)
      OBVIOUS
    <3> HIDE DEF K
    <3> QED
      BY <2>1, <3>1, <3>2
  <2>2. CASE i # N + 1
    <3> DEFINE j == Trimmed(path, i)
    <3>1. i \in 1 .. N /\ j \in i .. N
      BY <1>0, <2>2 DEF Trimmed
    <3>2. j + 1 \in 1 .. N + 1 /\ N + 1 - (j + 1) <= n
      BY <1>0, <3>1
    <3>3. K[i] = KeysAt(path, K, i)
      BY <3>1, KeysUnfold
    <3>4. path[j] \in Segments
      <4> HIDE DEF j
      <4> QED
        BY <1>0, <3>1
    <3> HIDE DEF K
    <3>5. K[j + 1] \in Seq(Segments)
      BY <1>2, <3>2
    <3>6. K[i] = <<>> \/ K[i] = <<path[j]>> \o K[j + 1]
      BY <3>3 DEF KeysAt
    <3>7. \A e \in Segments, tail \in Seq(Segments) : <<e>> \o tail \in Seq(Segments)
      OBVIOUS
    <3>8. <<>> \in Seq(Segments)
      OBVIOUS
    <3> HIDE DEF j
    <3> QED
      BY <3>4, <3>5, <3>6, <3>7, <3>8, Zenon
  <2> QED
    BY <2>1, <2>2
<1>3. N \in T
  <2> HIDE DEF T
  <2> QED
    BY <1>0, <1>1, <1>2, Induction
<1>4. K[1] \in Seq(Segments)
  BY <1>0, <1>3
<1> QED
  BY <1>4, KeysIs

\* What the paths of a config can name at all: any sequence of keys without dots, those
\* that are empty or called "$" included, and no other.  A field whose name has a dot in
\* it is out of reach, at any depth.
THEOREM PathsNameSegments ==
    {Keys(path) : path \in Seq(Segments) \ {<<>>}} = Seq(Segments)
<1>1. \A path \in Seq(Segments) : Keys(path) \in Seq(Segments)
  BY KeysAreSegments
<1>2. \A keys \in Seq(Segments) :
        PathTo(keys) \in Seq(Segments) \ {<<>>} /\ Keys(PathTo(keys)) = keys
  BY SegmentsHaveAPath
<1> QED
  BY <1>1, <1>2, Zenon

LEMMA KeysOfTail ==
    ASSUME NEW S, NEW path \in Seq(S), NEW m \in 1 .. Len(path) + 1,
           \A i \in m .. Len(path) : path[i] # "$", path[Len(path)] # Empty
    PROVE  KeysFrom(path)[m] = SubSeq(path, m, Len(path))
<1> DEFINE N == Len(path)
           K == KeysFrom(path)
           T == {n \in Nat : n <= N + 1 - m => K[N + 1 - n] = SubSeq(path, N + 1 - n, N)}
<1>0. N \in Nat /\ m \in Nat
  OBVIOUS
<1>1. 0 \in T
  <2>1. K[N + 1] = <<>>
    BY KeysUnfold
  <2>2. SubSeq(path, N + 1, N) = <<>> /\ N + 1 - 0 = N + 1
    OBVIOUS
  <2> HIDE DEF K
  <2> QED
    BY <2>1, <2>2
<1>2. ASSUME NEW n \in Nat, n \in T PROVE n + 1 \in T
  <2> SUFFICES ASSUME n + 1 <= N + 1 - m
               PROVE  K[N + 1 - (n + 1)] = SubSeq(path, N + 1 - (n + 1), N)
    OBVIOUS
  <2> DEFINE i == N + 1 - (n + 1)
  <2>1. i \in m .. N /\ i \in 1 .. N /\ i + 1 = N + 1 - n
    BY <1>0
  <2>2. K[i + 1] = SubSeq(path, i + 1, N)
    BY <1>0, <1>2, <2>1
  <2>3. K[i] = KeysAt(path, K, i)
    BY <2>1, KeysUnfold
  <2> HIDE DEF i, K
  <2>4. path[i] # "$" /\ (i = Len(path) => path[i] # Empty)
    BY <2>1
  <2>5. Trimmed(path, i) = i
    BY <2>4 DEF Trimmed
  <2>6. K[i] = <<path[i]>> \o SubSeq(path, i + 1, N)
    BY <2>2, <2>3, <2>4, <2>5 DEF KeysAt
  <2>7. <<path[i]>> \o SubSeq(path, i + 1, N) = SubSeq(path, i, N)
    BY <2>1
  <2> QED
    BY <2>6, <2>7 DEF i
<1>3. N + 1 - m \in T
  <2> HIDE DEF T
  <2> QED
    BY <1>0, <1>1, <1>2, Induction
<1>4. N + 1 - m <= N + 1 - m /\ N + 1 - (N + 1 - m) = m
  BY <1>0
<1> HIDE DEF K
<1>5. K[m] = SubSeq(path, m, N)
  BY <1>3, <1>4
<1> QED
  BY <1>5 DEF K

\* A path without "$" that does not end in a dot is read as it stands, with or without
\* "$." before it.
THEOREM LeadingDollarIsOptional ==
    ASSUME NEW S, NEW path \in Seq(S), path # <<>>,
           \A i \in DOMAIN path : path[i] # "$", path[Len(path)] # Empty
    PROVE  Keys(path) = path /\ Keys(<<"$">> \o path) = path
<1>1. Keys(path) = path
  <2>1. 1 \in 1 .. Len(path) + 1 /\ \A i \in 1 .. Len(path) : path[i] # "$"
    OBVIOUS
  <2>2. KeysFrom(path)[1] = SubSeq(path, 1, Len(path))
    BY <2>1, KeysOfTail
  <2> QED
    BY <2>2, KeysIs
<1> DEFINE whole == <<"$">> \o path
           K == KeysFrom(whole)
<1>2. /\ whole \in Seq(S \union {"$"}) /\ Len(whole) = Len(path) + 1
      /\ whole[1] = "$" /\ \A i \in 2 .. Len(whole) : whole[i] = path[i - 1]
  OBVIOUS
<1>3. K[1] = KeysAt(whole, K, 1)
  <2>1. Len(whole) \in Nat /\ 1 \in 1 .. Len(whole)
    BY <1>2
  <2> HIDE DEF whole
  <2> QED
    BY <2>1, KeysUnfold
<1>4. Keys(whole) = path
  <2>1. /\ Len(whole) \in Nat /\ 2 <= Len(whole) /\ whole[2] = path[1] /\ path[1] # "$"
        /\ whole[Len(whole)] = path[Len(path)] /\ whole[Len(whole)] # Empty
    BY <1>2
  <2>2. K[3] = SubSeq(whole, 3, Len(whole))
    <3> HIDE DEF whole
    <3>1. 3 \in 1 .. Len(whole) + 1
      BY <2>1
    <3>2. \A i \in 3 .. Len(whole) : whole[i] # "$"
      BY <1>2
    <3> QED
      BY <1>2, <2>1, <3>1, <3>2, KeysOfTail
  <2> HIDE DEF K
  <2>3. Trimmed(whole, 1) = 2
    <3> HIDE DEF whole
    <3> QED
      BY <1>2, <2>1 DEF Trimmed
  <2>4. K[1] = <<path[1]>> \o SubSeq(whole, 3, Len(whole))
    <3> HIDE DEF whole
    <3> QED
      BY <1>3, <2>1, <2>2, <2>3 DEF KeysAt
  <2>5. <<path[1]>> \o SubSeq(whole, 3, Len(whole)) = path
    OBVIOUS
  <2> QED
    BY <2>4, <2>5, KeysIs DEF K
<1> QED
  BY <1>1, <1>4

LEMMA ValuesUnfold ==
    ASSUME NEW data, NEW keys, Len(keys) \in Nat
    PROVE  /\ Values(data, keys)[0] = data
           /\ \A i \in 1 .. Len(keys) :
                Values(data, keys)[i] = Member(Values(data, keys)[i - 1], keys[i])
<1> DEFINE f == Values(data, keys)
<1>1. f = ValueStep(data, keys, f)
  BY ValuesEquation
<1> HIDE DEF f
<1>2. \A i \in 0 .. Len(keys) : f[i] = IF i = 0 THEN data ELSE Member(f[i - 1], keys[i])
  BY <1>1 DEF ValueStep
<1> QED
  BY <1>2 DEF f

\* Keys of any depth go on from where the first one leads.
LEMMA FirstKey ==
    ASSUME NEW data, NEW key \in Segments, NEW keys \in Seq(Segments)
    PROVE  ResolveDotPath(data, PathTo(<<key>> \o keys)) =
           ResolveDotPath(Member(data, key), PathTo(keys))
<1> DEFINE all == <<key>> \o keys
           V == Values(data, all)
           W == Values(Member(data, key), keys)
           T == {n \in Nat : n <= Len(keys) => V[n + 1] = W[n]}
<1>1. /\ all \in Seq(Segments) /\ Len(all) = Len(keys) + 1 /\ Len(keys) \in Nat
      /\ all[1] = key /\ \A i \in 1 .. Len(keys) : all[i + 1] = keys[i]
  OBVIOUS
<1> HIDE DEF all
<1>2. /\ V[0] = data /\ \A i \in 1 .. Len(all) : V[i] = Member(V[i - 1], all[i])
      /\ W[0] = Member(data, key)
      /\ \A i \in 1 .. Len(keys) : W[i] = Member(W[i - 1], keys[i])
  BY <1>1, ValuesUnfold
<1> HIDE DEF V, W
<1>3. 0 \in T
  BY <1>1, <1>2
<1>4. ASSUME NEW n \in Nat, n \in T PROVE n + 1 \in T
  <2> SUFFICES ASSUME n + 1 <= Len(keys) PROVE V[n + 1 + 1] = W[n + 1]
    OBVIOUS
  <2>1. n + 1 \in 1 .. Len(keys) /\ n + 1 + 1 \in 1 .. Len(all)
    BY <1>1
  <2>2. V[n + 1] = W[n] /\ n + 1 + 1 - 1 = n + 1 /\ n + 1 - 1 = n
    BY <1>1, <1>4
  <2> QED
    BY <1>1, <1>2, <2>1, <2>2
<1>5. Len(keys) \in T
  <2> HIDE DEF T
  <2> QED
    BY <1>1, <1>3, <1>4, Induction
<1>6. V[Len(all)] = W[Len(keys)]
  BY <1>1, <1>5
<1> QED
  BY <1>1, <1>6, ResolveDotPathIs, SegmentsHaveAPath DEF V, W, all

LEMMA NoKeys == ASSUME NEW data PROVE ResolveDotPath(data, PathTo(<<>>)) = data
<1>1. <<>> \in Seq(Segments) /\ Len(<<>>) = 0
  OBVIOUS
<1>2. Keys(PathTo(<<>>)) = <<>>
  BY <1>1, SegmentsHaveAPath
<1>3. Values(data, <<>>)[0] = data
  BY <1>1, ValuesUnfold
<1> QED
  BY <1>1, <1>2, <1>3, ResolveDotPathIs

\* Wherever the input of an execution is wrapped under the key "$", whatever can be
\* found in it by keys without dots can still be found, at any depth.
THEOREM WrappedDataIsReachable ==
    ASSUME NEW data, NEW keys \in Seq(Segments),
           IsObject([obj |-> [k \in {"$"} |-> data]])
    PROVE  ResolveDotPath([obj |-> [k \in {"$"} |-> data]], PathTo(<<"$">> \o keys)) =
           ResolveDotPath(data, PathTo(keys))
<1> DEFINE wrapped == [obj |-> [k \in {"$"} |-> data]]
<1>1. Member(wrapped, "$") = data
  <2>1. ~IsArray(wrapped)
    BY DEF IsObject, IsArray
  <2>2. IsObject(wrapped) /\ "$" \in DOMAIN wrapped.obj /\ wrapped.obj["$"] = data
    OBVIOUS
  <2> HIDE DEF wrapped
  <2> QED
    BY <2>1, <2>2 DEF Member, Field
<1>2. "$" \in Segments
  BY LookupAssumption
<1> HIDE DEF wrapped
<1>3. ResolveDotPath(wrapped, PathTo(<<"$">> \o keys)) =
      ResolveDotPath(Member(wrapped, "$"), PathTo(keys))
  BY <1>2, FirstKey
<1> QED
  BY <1>1, <1>3 DEF wrapped

-----------------------------------------------------------------------------
(* Templates                                                               *)

PartsStep(string, ns, f) ==
    [i \in 0 .. Len(string) |->
        IF i = 0 THEN <<>>
        ELSE IF Written(string[i], ns) = Null THEN f[i - 1]
        ELSE Append(f[i - 1], Written(string[i], ns))]

Parts(string, ns) == CHOOSE f : f = PartsStep(string, ns, f)

LEMMA ResolveIs ==
    ASSUME NEW string, NEW ns
    PROVE  Resolve(string, ns).str = Parts(string, ns)[Len(string)]
BY DEF Resolve, Parts, PartsStep

LEMMA PartsEquation ==
    ASSUME NEW string, NEW ns, Len(string) \in Nat
    PROVE  Parts(string, ns) = PartsStep(string, ns, Parts(string, ns))
<1> DEFINE N == Len(string)
           Upto(f, n) == \A i \in 0 .. N : i <= n => f[i] = PartsStep(string, ns, f)[i]
           T == {n \in Nat : \E f : f = [i \in 0 .. N |-> f[i]] /\ Upto(f, n)}
<1>1. 0 \in T
  <2> DEFINE f == [i \in 0 .. N |-> <<>>]
  <2>1. Upto(f, 0)
    BY DEF PartsStep
  <2> QED
    BY <2>1
<1>2. ASSUME NEW n \in Nat, n \in T PROVE n + 1 \in T
  <2>1. PICK f : Upto(f, n)
    BY <1>2
  <2> DEFINE g == PartsStep(string, ns, f)
  <2>2. g = [i \in 0 .. N |-> g[i]]
    BY DEF PartsStep
  <2>3. Upto(g, n + 1)
    <3> SUFFICES ASSUME NEW i \in 0 .. N, i <= n + 1
                 PROVE  g[i] = PartsStep(string, ns, g)[i]
      OBVIOUS
    <3>1. CASE i = 0
      BY <3>1 DEF PartsStep
    <3>2. CASE i # 0
      <4>1. i - 1 \in 0 .. N /\ i - 1 <= n
        BY <3>2
      <4>2. f[i - 1] = g[i - 1]
        BY <4>1, <2>1
      <4>3. g[i] = IF Written(string[i], ns) = Null THEN f[i - 1]
                   ELSE Append(f[i - 1], Written(string[i], ns))
        BY <3>2 DEF PartsStep
      <4> HIDE DEF g
      <4> QED
        BY <3>2, <4>2, <4>3 DEF PartsStep
    <3> QED
      BY <3>1, <3>2
  <2> HIDE DEF Upto, g
  <2> QED
    BY <2>2, <2>3
<1>3. N \in T
  <2> HIDE DEF T
  <2> QED
    BY <1>1, <1>2, Induction
<1>4. PICK f : f = [i \in 0 .. N |-> f[i]] /\ Upto(f, N)
  BY <1>3
<1>5. \A i \in 0 .. N : f[i] = PartsStep(string, ns, f)[i]
  BY <1>4
<1>6. f = PartsStep(string, ns, f)
  BY <1>4, <1>5 DEF PartsStep
<1> QED
  BY <1>6 DEF Parts

LEMMA PartsUnfold ==
    ASSUME NEW string, NEW ns, Len(string) \in Nat
    PROVE  /\ Parts(string, ns)[0] = <<>>
           /\ \A i \in 1 .. Len(string) :
                Parts(string, ns)[i] =
                    IF Written(string[i], ns) = Null THEN Parts(string, ns)[i - 1]
                    ELSE Append(Parts(string, ns)[i - 1], Written(string[i], ns))
<1> DEFINE f == Parts(string, ns)
<1>1. f = PartsStep(string, ns, f)
  BY PartsEquation
<1> HIDE DEF f
<1>2. \A i \in 0 .. Len(string) : f[i] =
        IF i = 0 THEN <<>>
        ELSE IF Written(string[i], ns) = Null THEN f[i - 1]
        ELSE Append(f[i - 1], Written(string[i], ns))
  BY <1>1 DEF PartsStep
<1> QED
  BY <1>2 DEF f

\* Resolve leaves nothing out of a template but the references without a value, and
\* adds, repeats and moves nothing, however many references it has.
THEOREM ResolveWritesInOrder ==
    ASSUME NEW S, NEW string \in Seq(S), NEW ns
    PROVE  WritesInOrder(Resolve(string, ns).str, string, ns)
<1> DEFINE N == Len(string)
           C == Contributing(string, ns)
           W(i) == Written(string[i], ns)
           U == {W(i) : i \in DOMAIN string}
           P == Parts(string, ns)
           Good(n) ==
             /\ P[n] \in Seq(U)
             /\ \A k \in 1 .. Len(P[n]) : \E i \in C : i <= n /\ Len(P[i]) = k
             /\ \A i \in C : i <= n =>
                    Len(P[i]) \in 1 .. Len(P[n]) /\ P[n][Len(P[i])] = W(i)
             /\ \A i, j \in C : i < j /\ j <= n => Len(P[i]) < Len(P[j])
           T == {n \in Nat : n <= N => Good(n)}
<1>1. N \in Nat /\ DOMAIN string = 1 .. N /\ C \subseteq 1 .. N
  BY DEF Contributing
<1>2. /\ P[0] = <<>>
      /\ \A i \in 1 .. N : P[i] = IF W(i) = Null THEN P[i - 1] ELSE Append(P[i - 1], W(i))
  BY <1>1, PartsUnfold
<1>3. \A i \in 1 .. N : (i \in C <=> W(i) # Null) /\ W(i) \in U
  BY <1>1 DEF Contributing
<1> HIDE DEF P, U, C, W
<1>4. 0 \in T
  <2>1. <<>> \in Seq(U) /\ Len(<<>>) = 0
    OBVIOUS
  <2>2. \A i \in C : ~(i <= 0)
    BY <1>1
  <2>3. \A i, j \in C : ~(i < j /\ j <= 0)
    BY <1>1
  <2>4. P[0] \in Seq(U) /\ 1 .. Len(P[0]) = {}
    BY <1>2, <2>1
  <2>5. Good(0)
    BY <2>2, <2>3, <2>4
  <2> HIDE DEF Good
  <2> QED
    BY <2>5
<1>5. ASSUME NEW n \in Nat, n \in T PROVE n + 1 \in T
  <2> SUFFICES ASSUME n + 1 <= N PROVE Good(n + 1)
    OBVIOUS
  <2> DEFINE m == n + 1
  <2>1. m \in 1 .. N /\ m - 1 = n /\ m \in Nat
    BY <1>1
  <2>2. Good(n)
    BY <1>1, <1>5
  <2>3. \A i \in C : i <= m <=> i <= n \/ i = m
    BY <1>1
  <2> HIDE DEF m
  <2>4. CASE W(m) = Null
    <3>1. P[m] = P[n] /\ m \notin C
      BY <1>2, <1>3, <2>1, <2>4
    <3> QED
      BY <2>2, <2>3, <3>1 DEF m
  <2>5. CASE W(m) # Null
    <3> DEFINE L == Len(P[n])
    <3>1. P[m] = Append(P[n], W(m)) /\ m \in C /\ W(m) \in U
      BY <1>2, <1>3, <2>1, <2>5
    <3>2. /\ P[m] \in Seq(U) /\ Len(P[m]) = L + 1 /\ P[m][L + 1] = W(m) /\ L \in Nat
          /\ \A k \in 1 .. L : P[m][k] = P[n][k]
      BY <2>2, <3>1
    <3>3. \A i \in C : i <= m => Len(P[i]) \in 1 .. Len(P[m]) /\ P[m][Len(P[i])] = W(i)
      BY <2>2, <2>3, <3>2
    <3>4. \A k \in 1 .. Len(P[m]) : \E i \in C : i <= m /\ Len(P[i]) = k
      <4> SUFFICES ASSUME NEW k \in 1 .. Len(P[m])
                   PROVE  \E i \in C : i <= m /\ Len(P[i]) = k
        OBVIOUS
      <4>1. CASE k = L + 1
        BY <2>1, <3>1, <3>2, <4>1
      <4>2. CASE k # L + 1
        <5>1. k \in 1 .. L
          BY <3>2, <4>2
        <5>2. PICK i \in C : i <= n /\ Len(P[i]) = k
          BY <2>2, <5>1
        <5> QED
          BY <2>3, <5>2
      <4> QED
        BY <4>1, <4>2
    <3>5. \A i, j \in C : i < j /\ j <= m => Len(P[i]) < Len(P[j])
      <4> SUFFICES ASSUME NEW i \in C, NEW j \in C, i < j, j <= m
                   PROVE  Len(P[i]) < Len(P[j])
        OBVIOUS
      <4>1. CASE j = m
        <5>1. i <= n
          BY <1>1, <2>1, <4>1
        <5> QED
          BY <2>2, <3>2, <4>1, <5>1
      <4>2. CASE j <= n
        BY <2>2, <4>2
      <4> QED
        BY <2>3, <4>1, <4>2
    <3> QED
      BY <3>2, <3>3, <3>4, <3>5 DEF m
  <2> QED
    BY <2>4, <2>5
<1>6. Good(N)
  <2>1. N \in T
    <3> HIDE DEF T
    <3> QED
      BY <1>1, <1>4, <1>5, Induction
  <2> QED
    BY <1>1, <2>1
<1> DEFINE str == P[N]
           pos == [i \in C |-> Len(P[i])]
<1>7. \A i \in C : i <= N /\ i \in Int
  BY <1>1
<1>8. str \in Seq(U) /\ DOMAIN str = 1 .. Len(str)
  BY <1>6
<1>9. pos \in [C -> DOMAIN str]
  BY <1>6, <1>7, <1>8
<1>10. /\ \A k \in DOMAIN str : \E i \in C : pos[i] = k
       /\ \A i \in C : str[pos[i]] = W(i)
       /\ \A i, j \in C : i < j => pos[i] < pos[j]
  BY <1>6, <1>7, <1>8
<1> HIDE DEF pos, str
<1>11. WritesInOrder(str, string, ns)
  BY <1>9, <1>10 DEF WritesInOrder, C, W
<1> QED
  BY <1>11, ResolveIs DEF str, P

\* A body string of references only that is JSON becomes the value of the first one.
LEMMA ResolveStringOfOne ==
    ASSUME NEW string, NEW ns, Len(string) = 1, DOMAIN string = {1}, IsRef(string[1]),
           Written(string[1], ns) # Null
    PROVE  ResolveString(string, ns) = Written(string[1], ns)
<1> DEFINE First(i) == IsRef(string[i]) /\ \A j \in 1 .. i - 1 : ~IsRef(string[j])
<1>1. IsExact(string)
  BY DEF IsExact
<1>2. (CHOOSE i \in DOMAIN string : First(i)) = 1
  <2>1. First(1)
    OBVIOUS
  <2> HIDE DEF First
  <2> QED
    BY <2>1
<1>3. ResolveExact(string, ns) = Referred(string[1], ns)
  BY <1>2 DEF ResolveExact
<1> QED
  BY <1>1, <1>3 DEF ResolveString, Written

-----------------------------------------------------------------------------
(* Searches                                                                *)

\* The places of s from which the rest matches the pattern from j on.
LikeAt(s, pattern, f, j) ==
    IF j > Len(pattern) THEN {Len(s) + 1}
    ELSE CASE pattern[j] = "\\" ->
                {i \in 1 .. Len(s) : /\ j < Len(pattern)
                                     /\ Fold(s[i]) = Fold(pattern[j + 1])
                                     /\ i + 1 \in f[j + 2]}
           [] pattern[j] = "%" ->
                {i \in 1 .. Len(s) + 1 : \E k \in i .. Len(s) + 1 : k \in f[j + 1]}
           [] OTHER ->
                {i \in 1 .. Len(s) : /\ \/ pattern[j] = "_"
                                        \/ Fold(s[i]) = Fold(pattern[j])
                                     /\ i + 1 \in f[j + 1]}

LikeStep(s, pattern, f) == [j \in 1 .. Len(pattern) + 1 |-> LikeAt(s, pattern, f, j)]

Starts(s, pattern) == CHOOSE f : f = LikeStep(s, pattern, f)

LEMMA LikeIs ==
    ASSUME NEW s, NEW pattern PROVE Like(s, pattern) <=> 1 \in Starts(s, pattern)[1]
BY DEF Like, Starts, LikeStep, LikeAt

LEMMA StartsEquation ==
    ASSUME NEW s, NEW pattern, Len(s) \in Nat, Len(pattern) \in Nat
    PROVE  Starts(s, pattern) = LikeStep(s, pattern, Starts(s, pattern))
<1> DEFINE N == Len(pattern)
           D == 1 .. N + 1
           Upto(f, n) == \A j \in D : N + 1 - j <= n => f[j] = LikeAt(s, pattern, f, j)
           T == {n \in Nat : \E f : f = [j \in D |-> f[j]] /\ Upto(f, n)}
<1>1. 0 \in T
  <2> DEFINE f == [j \in D |-> {Len(s) + 1}]
  <2>1. \A j \in D : N + 1 - j <= 0 => j > N
    OBVIOUS
  <2>2. \A j \in D : f[j] = {Len(s) + 1}
    OBVIOUS
  <2>3. f = [j \in D |-> f[j]]
    OBVIOUS
  <2> HIDE DEF f
  <2>4. Upto(f, 0)
    BY <2>1, <2>2 DEF LikeAt
  <2> HIDE DEF Upto
  <2> QED
    BY <2>3, <2>4
<1>2. ASSUME NEW n \in Nat, n \in T PROVE n + 1 \in T
  <2>1. PICK f : Upto(f, n)
    BY <1>2
  <2> DEFINE g == LikeStep(s, pattern, f)
  <2>2. g = [j \in D |-> g[j]]
    BY DEF LikeStep
  <2>3. \A j \in D : g[j] = LikeAt(s, pattern, f, j)
    BY DEF LikeStep
  <2> HIDE DEF g
  <2>4. Upto(g, n + 1)
    <3> SUFFICES ASSUME NEW j \in D, N + 1 - j <= n + 1
                 PROVE  g[j] = LikeAt(s, pattern, g, j)
      OBVIOUS
    <3>1. CASE j > N
      BY <2>3, <3>1 DEF LikeAt
    <3>2. CASE j <= N
      <4>1. f[j + 1] = g[j + 1]
        BY <2>1, <2>3, <3>2
      <4>2. j < N => f[j + 2] = g[j + 2]
        BY <2>1, <2>3, <3>2
      <4>3. LikeAt(s, pattern, f, j) = LikeAt(s, pattern, g, j)
        BY <3>2, <4>1, <4>2 DEF LikeAt
      <4> QED
        BY <2>3, <4>3
    <3> QED
      BY <3>1, <3>2
  <2> HIDE DEF Upto
  <2> QED
    BY <2>2, <2>4
<1>3. N \in T
  <2> HIDE DEF T
  <2> QED
    BY <1>1, <1>2, Induction
<1>4. PICK f : f = [j \in D |-> f[j]] /\ Upto(f, N)
  BY <1>3
<1>5. \A j \in D : f[j] = LikeAt(s, pattern, f, j)
  BY <1>4
<1>6. f = LikeStep(s, pattern, f)
  BY <1>4, <1>5 DEF LikeStep
<1> QED
  BY <1>6 DEF Starts

LEMMA StartsUnfold ==
    ASSUME NEW s, NEW pattern, Len(s) \in Nat, Len(pattern) \in Nat
    PROVE  \A j \in 1 .. Len(pattern) + 1 :
                Starts(s, pattern)[j] = LikeAt(s, pattern, Starts(s, pattern), j)
<1> DEFINE f == Starts(s, pattern)
<1>1. f = LikeStep(s, pattern, f)
  BY StartsEquation
<1> HIDE DEF f
<1> QED
  BY <1>1 DEF LikeStep, f

\* PostgreSQL folds at least the letters that toLower does.
LEMMA FoldsMore ==
    ASSUME NEW c, NEW d, ToLower(c) = ToLower(d)
    PROVE  Fold(c) = Fold(d)
BY NodeSearchAssumption DEF Fold, ToLower

LEMMA Pattern ==
    ASSUME NEW q \in Seq(STRING)
    PROVE  /\ Len(q) \in Nat /\ Len(PatternOf(q)) = Len(q) + 2
           /\ PatternOf(q)[1] = "%" /\ PatternOf(q)[Len(q) + 2] = "%"
           /\ \A j \in 1 .. Len(q) : PatternOf(q)[j + 1] = q[j]
BY DEF PatternOf

\* Behind the query anything may follow.
LEMMA AnythingFollows ==
    ASSUME NEW name \in Seq(STRING), NEW q \in Seq(STRING)
    PROVE  Starts(name, PatternOf(q))[Len(q) + 2] = 1 .. Len(name) + 1
<1> DEFINE p == PatternOf(q)
           F == Starts(name, p)
           N == Len(name)
           L == Len(q)
<1>1. Len(p) = L + 2 /\ p[L + 2] = "%" /\ L \in Nat /\ N \in Nat
  BY Pattern
<1> HIDE DEF p, L, N
<1>2. F[L + 3] = LikeAt(name, p, F, L + 3) /\ F[L + 2] = LikeAt(name, p, F, L + 2)
  BY <1>1, StartsUnfold DEF N
<1> HIDE DEF F
<1>3. F[L + 3] = {N + 1}
  <2>1. L + 3 > Len(p)
    BY <1>1
  <2> QED
    BY <1>2, <2>1 DEF LikeAt, N
<1>4. F[L + 2] = {i \in 1 .. N + 1 : \E k \in i .. N + 1 : k \in {N + 1}}
  <2>1. ~(L + 2 > Len(p)) /\ p[L + 2] # "\\" /\ L + 2 + 1 = L + 3
    BY <1>1
  <2> QED
    BY <1>1, <1>2, <1>3, <2>1 DEF LikeAt, N
<1>5. \A i \in 1 .. N + 1 : N + 1 \in i .. N + 1
  BY <1>1
<1>6. F[L + 2] = 1 .. N + 1
  BY <1>4, <1>5
<1> QED
  BY <1>6 DEF F, p, L, N

\* Whatever the search of the built-in nodes finds, the one of the custom nodes finds,
\* wherever it stands in the name and whatever wildcards there are in the query.
THEOREM ListedFindsMore ==
    ASSUME NEW name \in Seq(STRING), NEW q \in Seq(STRING),
           \A j \in DOMAIN q : q[j] # "\\", ContainsInsensitive(name, q)
    PROVE  Listed(name, q)
<1> DEFINE p == PatternOf(q)
           F == Starts(name, p)
           N == Len(name)
           L == Len(q)
<1>1. PICK o \in 0 .. N - L : \A j \in 1 .. L : Fold(name[o + j]) = Fold(q[j])
  <2>1. CASE q = <<>>
    BY <2>1
  <2>2. CASE q # <<>>
    BY <2>2, FoldsMore DEF ContainsInsensitive
  <2> QED
    BY <2>1, <2>2
<1>2. /\ N \in Nat /\ L \in Nat /\ L <= N /\ Len(p) = L + 2 /\ p[1] = "%"
      /\ \A j \in 1 .. L : p[j + 1] = q[j] /\ q[j] # "\\"
  BY <1>1, Pattern
<1>3. F[L + 2] = 1 .. N + 1
  BY AnythingFollows
<1> HIDE DEF p
<1>4. \A j \in 1 .. L + 3 : F[j] = LikeAt(name, p, F, j)
  BY <1>2, StartsUnfold
<1> HIDE DEF F
<1> DEFINE T == {n \in Nat : n <= L => o + 1 + (L - n) \in F[(L - n) + 2]}
<1>5. 0 \in T
  BY <1>1, <1>2, <1>3
<1>6. ASSUME NEW n \in Nat, n \in T PROVE n + 1 \in T
  <2> SUFFICES ASSUME n + 1 <= L
               PROVE  o + 1 + (L - (n + 1)) \in F[(L - (n + 1)) + 2]
    OBVIOUS
  <2> DEFINE d == L - (n + 1)
             i == o + d + 1
  <2>1. d \in 0 .. L - 1 /\ L - n = d + 1 /\ i \in 1 .. N
    BY <1>1, <1>2
  <2>2. i + 1 \in F[d + 3]
    BY <1>1, <1>2, <1>6, <2>1
  <2>3. p[d + 2] = q[d + 1] /\ q[d + 1] # "\\"
    <3> HIDE DEF d
    <3>1. d + 1 \in 1 .. L /\ (d + 1) + 1 = d + 2
      BY <1>2, <2>1
    <3>2. p[(d + 1) + 1] = q[d + 1] /\ q[d + 1] # "\\"
      BY <1>2, <3>1
    <3> QED
      BY <3>1, <3>2
  <2>4. Fold(name[i]) = Fold(p[d + 2])
    BY <1>1, <1>2, <2>1, <2>3
  <2>5. F[d + 2] = LikeAt(name, p, F, d + 2)
    BY <1>2, <1>4, <2>1
  <2> HIDE DEF d, i
  <2>6. i \in F[d + 2]
    <3>1. ~(d + 2 > Len(p)) /\ p[d + 2] # "\\" /\ d + 2 + 1 = d + 3
      BY <1>2, <2>1, <2>3
    <3>2. CASE p[d + 2] = "%"
      <4>1. F[d + 2] = {x \in 1 .. N + 1 : \E k \in x .. N + 1 : k \in F[d + 3]}
        BY <2>5, <3>1, <3>2 DEF LikeAt
      <4>2. i \in 1 .. N + 1 /\ i + 1 \in i .. N + 1
        BY <1>2, <2>1
      <4> QED
        BY <2>2, <4>1, <4>2
    <3>3. CASE p[d + 2] # "%"
      <4>1. F[d + 2] = {x \in 1 .. N : /\ \/ p[d + 2] = "_"
                                         \/ Fold(name[x]) = Fold(p[d + 2])
                                      /\ x + 1 \in F[d + 3]}
        BY <2>5, <3>1, <3>3 DEF LikeAt
      <4> QED
        BY <2>1, <2>2, <2>4, <4>1
    <3> QED
      BY <3>2, <3>3
  <2> QED
    BY <1>1, <1>2, <2>1, <2>6 DEF d, i
<1>7. o + 1 \in F[2]
  <2>1. L \in T
    <3> HIDE DEF T
    <3> QED
      BY <1>2, <1>5, <1>6, Induction
  <2> QED
    BY <1>1, <1>2, <2>1
<1>8. F[1] = {x \in 1 .. N + 1 : \E k \in x .. N + 1 : k \in F[2]}
  <2>1. F[1] = LikeAt(name, p, F, 1)
    BY <1>2, <1>4
  <2> QED
    BY <1>2, <2>1 DEF LikeAt
<1>9. 1 \in F[1]
  BY <1>1, <1>2, <1>7, <1>8
<1> QED
  BY <1>9, LikeIs DEF Listed, F, p

\* The characters that mean something else to ILIKE.
Special(c) == c = "\\" \/ c = "%" \/ c = "_"

\* A query without such characters is only found where it stands in the name.
THEOREM ListedFindsNoMore ==
    ASSUME NEW name \in Seq(STRING), NEW q \in Seq(STRING),
           \A j \in DOMAIN q : ~Special(q[j]), Listed(name, q)
    PROVE  \E o \in 0 .. Len(name) - Len(q) :
              \A j \in DOMAIN q : Fold(name[o + j]) = Fold(q[j])
<1> DEFINE p == PatternOf(q)
           F == Starts(name, p)
           N == Len(name)
           L == Len(q)
<1>2. /\ N \in Nat /\ L \in Nat /\ Len(p) = L + 2 /\ p[1] = "%"
      /\ \A j \in 1 .. L : p[j + 1] = q[j] /\ ~Special(q[j])
  BY Pattern
<1>3. F[L + 2] = 1 .. N + 1
  BY AnythingFollows
<1>4. 1 \in F[1]
  BY LikeIs DEF Listed
<1>0. DOMAIN q = 1 .. L
  OBVIOUS
<1>5. \A j \in 1 .. L + 3 : F[j] = LikeAt(name, p, F, j)
  <2> HIDE DEF p
  <2> QED
    BY <1>2, StartsUnfold
<1> HIDE DEF F, p, N, L
<1> DEFINE Stands(i, d) ==
             /\ i \in 1 .. N + 1 /\ i + (L - d) <= N + 1
             /\ \A j \in d + 1 .. L : Fold(name[i - d - 1 + j]) = Fold(q[j])
           T == {n \in Nat : n <= L => \A i \in F[(L - n) + 2] : Stands(i, L - n)}
<1>6. 0 \in T
  BY <1>2, <1>3
<1>7. ASSUME NEW n \in Nat, n \in T PROVE n + 1 \in T
  <2> SUFFICES ASSUME n + 1 <= L, NEW i \in F[(L - (n + 1)) + 2]
               PROVE  Stands(i, L - (n + 1))
    OBVIOUS
  <2> DEFINE d == L - (n + 1)
  <2>1. d \in 0 .. L - 1 /\ L - n = d + 1 /\ d + 1 \in 1 .. L /\ d + 2 \in 1 .. L + 3
        /\ ~(d + 2 > Len(p)) /\ d + 2 + 1 = d + 3 /\ (d + 1) + 2 = d + 3
    BY <1>2
  <2>2. \A k \in F[d + 3] : Stands(k, d + 1)
    BY <1>2, <1>7, <2>1
  <2>4. i \in LikeAt(name, p, F, d + 2)
    BY <1>5, <2>1
  <2> HIDE DEF d
  <2>3. p[d + 2] = q[d + 1] /\ ~Special(q[d + 1])
    <3>1. p[(d + 1) + 1] = q[d + 1]
      BY <1>2, <2>1
    <3>2. (d + 1) + 1 = d + 2
      BY <2>1
    <3> QED
      BY <1>2, <2>1, <3>1, <3>2
  <2>5. i \in 1 .. N /\ Fold(name[i]) = Fold(q[d + 1]) /\ i + 1 \in F[d + 3]
    BY <2>1, <2>3, <2>4 DEF LikeAt, Special, N
  <2>6. Stands(i + 1, d + 1)
    BY <2>2, <2>5
  <2>7. Stands(i, d)
    <3>1. i \in 1 .. N + 1 /\ i + (L - d) <= N + 1
      BY <1>2, <2>1, <2>5, <2>6
    <3>2. ASSUME NEW j \in d + 1 .. L PROVE Fold(name[i - d - 1 + j]) = Fold(q[j])
      <4>1. CASE j = d + 1
        <5>1. i - d - 1 + j = i
          BY <2>1, <2>5, <4>1
        <5> QED
          BY <2>5, <4>1, <5>1
      <4>2. CASE j # d + 1
        <5>0. d \in Nat /\ i \in Nat /\ j \in Nat /\ L \in Nat
          BY <1>2, <2>1, <2>5
        <5>1. j \in (d + 1) + 1 .. L /\ (i + 1) - (d + 1) - 1 + j = i - d - 1 + j
          BY <4>2, <5>0
        <5>2. Fold(name[(i + 1) - (d + 1) - 1 + j]) = Fold(q[j])
          BY <2>6, <5>1
        <5> QED
          BY <5>1, <5>2
      <4> QED
        BY <4>1, <4>2
    <3> QED
      BY <3>1, <3>2
  <2> QED
    BY <2>7 DEF d
<1>8. \A i \in F[2] : Stands(i, 0)
  <2>1. L \in T
    <3> HIDE DEF T
    <3> QED
      BY <1>2, <1>6, <1>7, Induction
  <2>2. L <= L /\ L - L = 0
    BY <1>2
  <2> QED
    BY <2>1, <2>2
<1>9. PICK i \in 1 .. N + 1 : i \in F[2]
  <2>1. F[1] = LikeAt(name, p, F, 1)
    BY <1>2, <1>5
  <2>2. F[1] = {x \in 1 .. N + 1 : \E k \in x .. N + 1 : k \in F[2]}
    BY <1>2, <2>1 DEF LikeAt, N
  <2> QED
    BY <1>2, <1>4, <2>2
<1>10. Stands(i, 0)
  BY <1>8, <1>9
<1>11. /\ i - 1 \in 0 .. N - L
       /\ \A j \in 1 .. L : Fold(name[(i - 1) + j]) = Fold(q[j])
  <2>1. \A j \in 1 .. L : j \in 0 + 1 .. L /\ i - 0 - 1 + j = (i - 1) + j
    BY <1>2
  <2> QED
    BY <1>2, <1>10, <2>1
<1> QED
  BY <1>0, <1>11 DEF N, L
=============================================================================
