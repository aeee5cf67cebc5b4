------------------------- MODULE ResultStoreProofs -------------------------
(***************************************************************************)
(* Proofs about token deltas and the result store, for every set of        *)
(* documents, every engine, every bound and any number of steps.           *)
(***************************************************************************)
EXTENDS ResultStore, SequenceTheorems, FiniteSetTheorems, WellFoundedInduction, TLAPS

---------------------------------------------------------------------------
(* Token deltas *)

\* A set of numbers that is not empty has a least one.
LEMMA LeastExists ==
  ASSUME NEW S \in SUBSET Nat, S # {}
  PROVE  \E m \in S : \A y \in S : m =< y
<1>1. PICK m \in S : \A y \in S : <<y, m>> \notin OpToRel(<, Nat)
  BY NatLessThanWellFounded, WFMin
<1>2. \A y \in S : ~(y < m)
  BY <1>1 DEF OpToRel
<1> QED
  BY <1>2

LEMMA MinOfNumbers ==
  ASSUME NEW S \in SUBSET Nat, S # {}
  PROVE  Min(S) \in S /\ \A y \in S : Min(S) =< y
BY LeastExists DEF Min

\* One whose members do not exceed n has a greatest one: what they lack of n
\* has a least one.
LEMMA MaxOfBounded ==
  ASSUME NEW n \in Nat, NEW S \in SUBSET (0..n), S # {}
  PROVE  Max(S) \in S /\ \A y \in S : Max(S) >= y
<1> DEFINE lacking == {n - x : x \in S}
<1>1. lacking \in SUBSET Nat /\ lacking # {}
  <2>1. \A x \in S : x \in Nat /\ x <= n
    OBVIOUS
  <2>2. \A x \in S : n - x \in Nat
    BY <2>1
  <2> QED
    BY <2>2
<1>2. PICK m \in lacking : \A k \in lacking : m =< k
  BY <1>1, LeastExists
<1>3. PICK x \in S : m = n - x
  OBVIOUS
<1>4. \A y \in S : x >= y
  BY <1>2, <1>3
<1> QED
  BY <1>4 DEF Max

LEMMA MinOfTwo ==
  ASSUME NEW a \in Nat, NEW b \in Nat
  PROVE  /\ Min({a, b}) \in Nat
         /\ Min({a, b}) <= a
         /\ Min({a, b}) <= b
<1>1. \E x \in {a, b} : \A y \in {a, b} : x =< y
  OBVIOUS
<1> QED
  BY <1>1 DEF Min

\* Where the elements of three sequences in a row are.
LEMMA ThreeParts ==
  ASSUME NEW S, NEW s \in Seq(S), NEW t \in Seq(S), NEW u \in Seq(S),
         NEW r, r = s \o t \o u
  PROVE  /\ r \in Seq(S)
         /\ Len(r) = Len(s) + Len(t) + Len(u)
         /\ \A i \in 1..Len(s) : r[i] = s[i]
         /\ \A i \in 1..Len(t) : r[Len(s) + i] = t[i]
         /\ \A i \in 1..Len(u) : r[Len(s) + Len(t) + i] = u[i]
<1> DEFINE st == s \o t
<1>1. Len(s) \in Nat /\ Len(t) \in Nat /\ Len(u) \in Nat
  OBVIOUS
<1>2. /\ st \in Seq(S) /\ Len(st) = Len(s) + Len(t)
      /\ \A i \in 1..(Len(s) + Len(t)) :
           st[i] = IF i <= Len(s) THEN s[i] ELSE t[i - Len(s)]
  BY ConcatProperties
<1>3. st \in Seq(S) /\ u \in Seq(S) /\ r = st \o u
  BY <1>2
<1> HIDE DEF st
<1>4. /\ st \o u \in Seq(S) /\ Len(st \o u) = Len(st) + Len(u)
      /\ \A i \in 1..(Len(st) + Len(u)) :
           (st \o u)[i] = IF i <= Len(st) THEN st[i] ELSE u[i - Len(st)]
  BY <1>3, ConcatProperties, Zenon
<1>5. /\ r \in Seq(S) /\ Len(r) = Len(st) + Len(u)
      /\ \A i \in 1..(Len(st) + Len(u)) :
           r[i] = IF i <= Len(st) THEN st[i] ELSE u[i - Len(st)]
  BY <1>3, <1>4, Zenon
<1>6. ASSUME NEW i \in 1..Len(s) PROVE r[i] = s[i]
  BY <1>1, <1>2, <1>5
<1>7. ASSUME NEW i \in 1..Len(t) PROVE r[Len(s) + i] = t[i]
  BY <1>1, <1>2, <1>5
<1>8. ASSUME NEW i \in 1..Len(u) PROVE r[Len(s) + Len(t) + i] = u[i]
  BY <1>1, <1>2, <1>5
<1> QED
  BY <1>2, <1>5, <1>6, <1>7, <1>8

\* What the edit of two encodings says, applied to the first, is the second:
\* handleSemanticTokensDelta may answer with the edit.
THEOREM DeltaApplies ==
  ASSUME NEW S, NEW previous \in Seq(S), NEW current \in Seq(S)
  PROVE  Apply(previous, SingleDelta(previous, current)) = current
<1> DEFINE m == Len(previous)
           n == Len(current)
           limit == Min({m, n})
           prefix == CommonPrefix(previous, current)
           suffix == CommonSuffix(previous, current, SuffixLimit(previous, current, prefix))
<1>1. /\ m \in Nat /\ DOMAIN previous = 1..m
      /\ n \in Nat /\ DOMAIN current = 1..n
      /\ limit \in Nat /\ limit <= m /\ limit <= n
  BY MinOfTwo
<1>2. /\ prefix \in 0..limit
      /\ \A i \in 1..prefix : previous[i] = current[i]
  <2> DEFINE P == {k \in 0..limit : \A i \in 1..k : previous[i] = current[i]}
  <2>1. P \in SUBSET (0..limit) /\ 0 \in P
    BY <1>1
  <2>2. Max(P) \in P
    BY <1>1, <2>1, MaxOfBounded
  <2> QED
    BY <2>2 DEF CommonPrefix
<1>3. /\ suffix \in 0..(limit - prefix)
      /\ \A i \in 0..(suffix - 1) : previous[m - i] = current[n - i]
  <2> DEFINE rest == limit - prefix
             P == {k \in 0..rest : \A i \in 0..(k - 1) : previous[m - i] = current[n - i]}
  <2>1. rest \in Nat
    BY <1>1, <1>2
  <2>2. P \in SUBSET (0..rest) /\ 0 \in P
    BY <2>1
  <2>3. Max(P) \in P
    BY <2>1, <2>2, MaxOfBounded
  <2>4. suffix = Max(P)
    BY DEF CommonSuffix, SuffixLimit
  <2> QED
    BY <2>3, <2>4
<1> DEFINE front == SubSeq(previous, 1, prefix)
           middle == SubSeq(current, prefix + 1, n - suffix)
           back == SubSeq(previous, m - suffix + 1, m)
<1>4. Apply(previous, SingleDelta(previous, current)) = front \o middle \o back
  <2>1. prefix + (m - prefix - suffix) + 1 = m - suffix + 1
    BY <1>1, <1>2, <1>3
  <2> QED
    BY <2>1 DEF Apply, SingleDelta
<1>0. /\ prefix \in Nat /\ suffix \in Nat /\ m \in Nat /\ n \in Nat
      /\ prefix + suffix <= n /\ prefix + suffix <= m
  BY <1>1, <1>2, <1>3
<1> HIDE DEF prefix, suffix, limit
<1>5. /\ front \in Seq(S) /\ Len(front) = prefix
      /\ \A i \in 1..prefix : front[i] = previous[i]
  <2>1. \A i \in 1..prefix : previous[i] \in S
    BY <1>1, <1>2, ElementOfSeq
  <2> QED
    BY <1>1, <1>2, <2>1, SubSeqProperties
<1>6. /\ middle \in Seq(S) /\ Len(middle) = n - suffix - prefix
      /\ \A i \in 1..(n - suffix - prefix) : middle[i] = current[prefix + i]
  <2>1. \A i \in (prefix + 1)..(n - suffix) : current[i] \in S
    BY <1>1, <1>2, <1>3, ElementOfSeq
  <2>2. /\ prefix + 1 \in Nat \ {0} /\ prefix + 1 \in 1..(n + 1)
        /\ n - suffix \in Nat /\ prefix <= n - suffix /\ n - suffix <= n
    BY <1>1, <1>2, <1>3
  <2>3. /\ middle \in Seq(S)
        /\ Len(middle) = IF prefix + 1 <= n - suffix THEN n - suffix - (prefix + 1) + 1 ELSE 0
        /\ \A i \in 1..(n - suffix - (prefix + 1) + 1) : middle[i] = current[prefix + 1 + i - 1]
    BY <1>1, <2>1, <2>2, SubSeqProperties
  <2> HIDE DEF middle
  <2>4. /\ n - suffix - (prefix + 1) + 1 = n - suffix - prefix
        /\ \A i \in 1..(n - suffix - prefix) : prefix + 1 + i - 1 = prefix + i
    BY <1>1, <1>2, <1>3
  <2>5. Len(middle) = n - suffix - prefix
    BY <1>0, <2>3
  <2>6. ASSUME NEW i \in 1..(n - suffix - prefix) PROVE middle[i] = current[prefix + i]
    <3>1. middle[i] = current[prefix + 1 + i - 1]
      BY <2>3, <2>4
    <3> QED
      BY <2>4, <3>1
  <2> QED
    BY <2>3, <2>5, <2>6
<1>7. /\ back \in Seq(S) /\ Len(back) = suffix
      /\ \A i \in 1..suffix : back[i] = previous[m - suffix + i]
  <2>1. \A i \in (m - suffix + 1)..m : previous[i] \in S
    BY <1>1, <1>2, <1>3, ElementOfSeq
  <2>2. m - suffix + 1 \in Int /\ m \in Int
    BY <1>0
  <2>3. /\ back \in Seq(S)
        /\ Len(back) = IF m - suffix + 1 <= m THEN m - (m - suffix + 1) + 1 ELSE 0
        /\ \A i \in 1..(m - (m - suffix + 1) + 1) : back[i] = previous[m - suffix + 1 + i - 1]
    BY <2>1, <2>2, SubSeqProperties
  <2> HIDE DEF back
  <2>4. /\ m - (m - suffix + 1) + 1 = suffix
        /\ \A i \in 1..suffix : m - suffix + 1 + i - 1 = m - suffix + i
    BY <1>0
  <2>5. Len(back) = suffix
    BY <1>0, <2>3
  <2>6. ASSUME NEW i \in 1..suffix PROVE back[i] = previous[m - suffix + i]
    <3>1. back[i] = previous[m - suffix + 1 + i - 1]
      BY <2>3, <2>4
    <3> QED
      BY <2>4, <3>1
  <2> QED
    BY <2>3, <2>5, <2>6
<1> HIDE DEF front, middle, back
<1> DEFINE spliced == front \o middle \o back
<1>8. /\ spliced \in Seq(S)
      /\ Len(spliced) = Len(front) + Len(middle) + Len(back)
      /\ \A i \in 1..Len(front) : spliced[i] = front[i]
      /\ \A i \in 1..Len(middle) : spliced[Len(front) + i] = middle[i]
      /\ \A i \in 1..Len(back) : spliced[Len(front) + Len(middle) + i] = back[i]
  <2>1. front \in Seq(S) /\ middle \in Seq(S) /\ back \in Seq(S)
    BY <1>5, <1>6, <1>7
  <2>2. spliced = front \o middle \o back
    OBVIOUS
  <2> HIDE DEF spliced
  <2> QED
    BY <2>1, <2>2, ThreeParts
<1> HIDE DEF spliced
<1>9. Len(spliced) = n
  BY <1>1, <1>2, <1>3, <1>5, <1>6, <1>7, <1>8
<1>10. ASSUME NEW i \in 1..n PROVE spliced[i] = current[i]
  <2>0. i \in Nat /\ prefix \in Nat /\ suffix \in Nat /\ n - suffix \in Nat
    BY <1>1, <1>2, <1>3
  <2>1. CASE i <= prefix
    <3>1. i \in 1..prefix
      BY <2>0, <2>1
    <3>2. spliced[i] = front[i]
      BY <1>5, <1>6, <1>7, <1>8, <3>1
    <3> QED
      BY <1>2, <1>5, <3>1, <3>2
  <2>2. CASE i > prefix /\ i <= n - suffix
    <3>1. /\ i - prefix \in 1..(n - suffix - prefix)
          /\ prefix + (i - prefix) = i
      BY <1>1, <2>0, <2>2
    <3>2. spliced[prefix + (i - prefix)] = middle[i - prefix]
      BY <1>5, <1>6, <1>7, <1>8, <3>1
    <3> QED
      BY <1>6, <3>1, <3>2
  <2>3. CASE i > n - suffix
    <3> DEFINE j == i - (n - suffix)
    <3>1. /\ j \in 1..suffix
          /\ prefix + (n - suffix - prefix) + j = i
          /\ n - i \in 0..(suffix - 1)
          /\ m - suffix + j = m - (n - i)
          /\ n - (n - i) = i
      BY <1>1, <2>0, <2>3
    <3> HIDE DEF j
    <3>2. spliced[prefix + (n - suffix - prefix) + j] = back[j]
      BY <1>5, <1>6, <1>7, <1>8, <3>1
    <3>3. back[j] = previous[m - suffix + j]
      BY <1>7, <3>1
    <3>4. previous[m - (n - i)] = current[n - (n - i)]
      BY <1>3, <3>1
    <3> QED
      BY <3>1, <3>2, <3>3, <3>4
  <2> QED
    BY <2>0, <2>1, <2>2, <2>3
<1> QED
  <2>1. spliced = current
    BY <1>8, <1>9, <1>10, SeqEqual
  <2> QED
    BY <1>4, <2>1 DEF spliced

---------------------------------------------------------------------------
(* Encodings *)

\* The members of a finite set in an order: each has its own place, which is told
\* by the number of those before it, and every place is taken.
LEMMA RankIsPlace ==
  ASSUME NEW S, IsFiniteSet(S), NEW before \in [S -> SUBSET S],
         \A x \in S : x \notin before[x],
         \A x, y \in S : x \in before[y] => before[x] \subseteq before[y],
         \A x, y \in S : x # y => x \in before[y] \/ y \in before[x]
  PROVE  /\ \A x \in S : Cardinality(before[x]) \in Nat
         /\ \A x \in S : Cardinality(before[x]) + 1 \in 1..Cardinality(S)
         /\ \A x, y \in S : Cardinality(before[x]) = Cardinality(before[y]) => x = y
         /\ \A i \in 1..Cardinality(S) : \E x \in S : Cardinality(before[x]) = i - 1
<1> DEFINE n == Cardinality(S)
           rank(x) == Cardinality(before[x])
           place == [x \in S |-> rank(x) + 1]
<1>1. n \in Nat
  BY FS_CardinalityType
<1>2. ASSUME NEW x \in S
      PROVE  IsFiniteSet(before[x]) /\ rank(x) \in Nat /\ rank(x) < n
  <2>1. before[x] \in SUBSET S /\ before[x] # S
    OBVIOUS
  <2>2. IsFiniteSet(before[x]) /\ rank(x) <= n /\ n # rank(x)
    BY <2>1, FS_Subset
  <2>3. rank(x) \in Nat
    BY <2>2, FS_CardinalityType
  <2> HIDE DEF n, rank
  <2> QED
    BY <1>1, <2>2, <2>3
<1>3. ASSUME NEW x \in S, NEW y \in S, x \in before[y]
      PROVE  rank(x) < rank(y)
  <2>1. before[x] \in SUBSET before[y] /\ before[x] # before[y]
    BY <1>3
  <2>2. rank(x) <= rank(y) /\ rank(y) # rank(x)
    BY <1>2, <2>1, FS_Subset
  <2> QED
    BY <1>2, <2>2
<1> HIDE DEF n, rank
<1>4. \A x \in S : rank(x) + 1 \in 1..n
  BY <1>1, <1>2
<1>5. \A x, y \in S : rank(x) = rank(y) => x = y
  <2> SUFFICES ASSUME NEW x \in S, NEW y \in S, rank(x) = rank(y), x # y
               PROVE  FALSE
    OBVIOUS
  <2>1. rank(x) < rank(y) \/ rank(y) < rank(x)
    BY <1>3
  <2> QED
    BY <1>2, <2>1
<1>6. place \in Injection(S, 1..n)
  <2>1. place \in [S -> 1..n]
    BY <1>4
  <2>2. ASSUME NEW x \in S, NEW y \in S, place[x] = place[y]
        PROVE  x = y
    BY <1>2, <1>5, <2>2
  <2> HIDE DEF place
  <2> QED
    BY <2>1, <2>2 DEF Injection, IsInjective
<1>7. IsFiniteSet(1..n) /\ Cardinality(1..n) = n
  BY <1>1, FS_Interval
<1>8. place \in Surjection(S, 1..n)
  <2> HIDE DEF place
  <2> QED
    BY <1>6, <1>7, FS_Injection DEF n
<1>9. ASSUME NEW i \in 1..n
      PROVE  \E x \in S : rank(x) = i - 1
  <2>1. PICK x \in S : place[x] = i
    BY <1>8 DEF Surjection
  <2>2. rank(x) + 1 = i /\ rank(x) \in Nat
    BY <1>2, <2>1
  <2> QED
    BY <2>2
<1>10. \A x \in S : rank(x) \in Nat
  BY <1>2
<1> HIDE DEF place
<1> QED
  BY <1>4, <1>5, <1>9, <1>10 DEF n, rank

\* A token as it is drawn.
Shape == [line : Nat, character : Nat, length : Nat, type : TokenType]

LEMMA DrawableIs ==
  ASSUME NEW r \in Result
  PROVE  IsFiniteSet(Drawable(EngineTokens[r])) /\ Drawable(EngineTokens[r]) \in SUBSET Shape
<1> DEFINE tokens == EngineTokens[r]
           shown == {i \in 1..Len(tokens) : /\ tokens[i].type \in TokenType
                                            /\ tokens[i].line = tokens[i].end_line
                                            /\ tokens[i].start < tokens[i].end}
           shape(t) == [line |-> t.line, character |-> t.start, length |-> t.end - t.start,
                        type |-> t.type]
           draw == [i \in shown |-> shape(tokens[i])]
<1>1. tokens \in Seq([line : Nat, end_line : Nat, start : Nat, end : Nat, type : Nat])
  BY TokenAssumption
<1>2. /\ Len(tokens) \in Nat /\ DOMAIN tokens = 1..Len(tokens)
      /\ \A i \in 1..Len(tokens) :
           tokens[i] \in [line : Nat, end_line : Nat, start : Nat, end : Nat, type : Nat]
  BY <1>1, LenProperties, ElementOfSeq
<1> HIDE DEF tokens
<1>3. IsFiniteSet(shown)
  <2>1. IsFiniteSet(1..Len(tokens)) /\ shown \in SUBSET (1..Len(tokens))
    BY <1>2, FS_Interval
  <2> HIDE DEF shown
  <2> QED
    BY <2>1, FS_Subset
<1>4. Drawable(tokens) = {shape(tokens[i]) : i \in shown}
  <2>1. \A t : t \in {u \in Range(tokens) : /\ u.type \in TokenType
                                            /\ u.line = u.end_line
                                            /\ u.start < u.end}
               <=> \E i \in shown : t = tokens[i]
    BY <1>2 DEF Range
  <2> HIDE DEF shown
  <2> QED
    BY <2>1 DEF Drawable
<1>5. \A i \in shown : shape(tokens[i]) \in Shape
  BY <1>2 DEF Shape
<1>6. draw \in Surjection(shown, Drawable(tokens))
  <2> HIDE DEF shape, shown
  <2> QED
    BY <1>4 DEF Surjection
<1>7. IsFiniteSet(Drawable(tokens))
  <2> HIDE DEF draw, shown
  <2> QED
    BY <1>3, <1>6, FS_Surjection
<1>8. Drawable(tokens) \in SUBSET Shape
  <2> HIDE DEF shape, shown
  <2> QED
    BY <1>4, <1>5
<1> QED
  BY <1>7, <1>8 DEF tokens

\* The order of the tokens is total: all of them are at some place, and no other.
LEMMA SortedIs ==
  ASSUME NEW drawable \in SUBSET Shape, IsFiniteSet(drawable)
  PROVE  /\ Cardinality(drawable) \in Nat
         /\ DOMAIN Sorted(drawable) = 1..Cardinality(drawable)
         /\ \A i \in 1..Cardinality(drawable) : Sorted(drawable)[i] \in drawable
         /\ \A t \in drawable : \E i \in 1..Cardinality(drawable) : Sorted(drawable)[i] = t
<1> DEFINE before == [t \in drawable |-> {u \in drawable : Before(u, t)}]
           n == Cardinality(drawable)
<1>1. before \in [drawable -> SUBSET drawable] /\ \A t, u \in drawable : u \in before[t] <=> Before(u, t)
  OBVIOUS
<1>2. \A t \in drawable : /\ t.line \in Nat /\ t.character \in Nat /\ t.length \in Nat /\ t.type \in Nat
                          /\ t = [line |-> t.line, character |-> t.character,
                                  length |-> t.length, type |-> t.type]
  BY DEF Shape, TokenType
<1>3. \A t \in drawable : ~Before(t, t)
  BY <1>2 DEF Before
<1>4. \A t, u, v \in drawable : Before(t, u) /\ Before(u, v) => Before(t, v)
  BY <1>2 DEF Before
<1>5. \A t, u \in drawable : t # u => Before(t, u) \/ Before(u, t)
  <2> SUFFICES ASSUME NEW t \in drawable, NEW u \in drawable, ~Before(t, u), ~Before(u, t)
               PROVE  t = u
    OBVIOUS
  <2>1. t.line = u.line /\ t.character = u.character /\ t.length = u.length /\ t.type = u.type
    BY <1>2 DEF Before
  <2> QED
    BY <1>2, <2>1
<1>6. n \in Nat
  BY FS_CardinalityType
<1>7. \A t \in drawable : {u \in drawable : Before(u, t)} = before[t]
  OBVIOUS
<1> HIDE DEF before
<1>8. /\ \A t \in drawable : Cardinality(before[t]) \in Nat
      /\ \A t \in drawable : Cardinality(before[t]) + 1 \in 1..n
      /\ \A t, u \in drawable : Cardinality(before[t]) = Cardinality(before[u]) => t = u
      /\ \A i \in 1..n : \E t \in drawable : Cardinality(before[t]) = i - 1
  <2>1. /\ \A t \in drawable : t \notin before[t]
        /\ \A t, u \in drawable : t \in before[u] => before[t] \subseteq before[u]
        /\ \A t, u \in drawable : t # u => t \in before[u] \/ u \in before[t]
    BY <1>1, <1>3, <1>4, <1>5
  <2> QED
    BY <1>1, <2>1, RankIsPlace
<1>9. DOMAIN Sorted(drawable) = 1..n
  BY DEF Sorted
<1>10. ASSUME NEW i \in 1..n
       PROVE  Sorted(drawable)[i] \in drawable /\ Cardinality(before[Sorted(drawable)[i]]) = i - 1
  <2>1. Sorted(drawable)[i] =
          CHOOSE t \in drawable : Cardinality({u \in drawable : Before(u, t)}) = i - 1
    BY DEF Sorted
  <2>2. \E t \in drawable : Cardinality({u \in drawable : Before(u, t)}) = i - 1
    BY <1>7, <1>8
  <2>3. /\ Sorted(drawable)[i] \in drawable
        /\ Cardinality({u \in drawable : Before(u, Sorted(drawable)[i])}) = i - 1
    BY <2>1, <2>2
  <2> QED
    BY <1>7, <2>3
<1>11. ASSUME NEW t \in drawable
       PROVE  \E i \in 1..n : Sorted(drawable)[i] = t
  <2> DEFINE i == Cardinality(before[t]) + 1
  <2>1. i \in 1..n /\ i - 1 = Cardinality(before[t])
    BY <1>8
  <2> HIDE DEF i
  <2>2. Cardinality(before[Sorted(drawable)[i]]) = Cardinality(before[t]) /\ Sorted(drawable)[i] \in drawable
    BY <1>10, <2>1
  <2>3. Sorted(drawable)[i] = t
    BY <1>8, <2>2
  <2> QED
    BY <2>1, <2>3
<1> QED
  BY <1>6, <1>9, <1>10, <1>11

\* An encoding has a token for every place, told relative to the one before.
Line(drawable, i) == IF i = 0 THEN 0 ELSE Sorted(drawable)[i].line
Character(drawable, i) == IF i = 0 THEN 0 ELSE Sorted(drawable)[i].character

LEMMA EncodeIs ==
  ASSUME NEW r \in Result,
         NEW data, data = Encode(EngineTokens[r]),
         NEW drawable, drawable = Drawable(EngineTokens[r])
  PROVE  /\ Len(data) \in Nat /\ Len(data) = Cardinality(drawable) /\ DOMAIN data = 1..Len(data)
         /\ \A i \in 1..Len(data) :
              /\ data[i].delta_line = Line(drawable, i) - Line(drawable, i - 1)
              /\ data[i].delta_character = Relative(Line(drawable, i) = Line(drawable, i - 1),
                                                    Character(drawable, i), Character(drawable, i - 1))
              /\ data[i].length = Sorted(drawable)[i].length
              /\ data[i].type = Sorted(drawable)[i].type
<1> DEFINE n == Cardinality(drawable)
<1>1. n \in Nat /\ DOMAIN Sorted(drawable) = 1..n
  BY DrawableIs, SortedIs
<1>2. data = [i \in 1..n |->
                [delta_line |-> Line(drawable, i) - Line(drawable, i - 1),
                 delta_character |->
                   Relative(Line(drawable, i) = Line(drawable, i - 1),
                            Character(drawable, i), Character(drawable, i - 1)),
                 length |-> Sorted(drawable)[i].length,
                 type |-> Sorted(drawable)[i].type]]
  BY <1>1 DEF Encode, Line, Character
<1> HIDE DEF n
<1>3. DOMAIN data = 1..n /\ Len(data) = n
  BY <1>1, <1>2
<1>4. ASSUME NEW i \in 1..n
      PROVE  /\ data[i].delta_line = Line(drawable, i) - Line(drawable, i - 1)
             /\ data[i].delta_character = Relative(Line(drawable, i) = Line(drawable, i - 1),
                                                   Character(drawable, i), Character(drawable, i - 1))
             /\ data[i].length = Sorted(drawable)[i].length
             /\ data[i].type = Sorted(drawable)[i].type
  BY <1>2
<1> QED
  BY <1>1, <1>3, <1>4 DEF n

\* What the client draws of an encoding are the tokens that were encoded, each at
\* its place (encode; the decoding of the protocol).
THEOREM DecodesWhatWasEncoded ==
  ASSUME NEW r \in Result
  PROVE  Decode(Encoding[r]) = Drawing[r]
<1> DEFINE data == Encode(EngineTokens[r])
           drawable == Drawable(EngineTokens[r])
           n == Len(data)
           place(i) == [line |-> Line(drawable, i), character |-> Character(drawable, i)]
           next(at, i) ==
             IF i = 0 THEN [line |-> 0, character |-> 0]
             ELSE IF data[i].delta_line = 0
               THEN [at[i - 1] EXCEPT !.character = @ + data[i].delta_character]
               ELSE [line |-> at[i - 1].line + data[i].delta_line,
                     character |-> data[i].delta_character]
           there == [i \in 0..n |-> place(i)]
           at == CHOOSE f : f = [i \in 0..n |-> next(f, i)]
<1>1. /\ n \in Nat /\ n = Cardinality(drawable) /\ DOMAIN data = 1..n
      /\ \A i \in 1..n :
           /\ data[i].delta_line = Line(drawable, i) - Line(drawable, i - 1)
           /\ data[i].delta_character = Relative(Line(drawable, i) = Line(drawable, i - 1),
                                                 Character(drawable, i), Character(drawable, i - 1))
           /\ data[i].length = Sorted(drawable)[i].length
           /\ data[i].type = Sorted(drawable)[i].type
  <2>1. data = Encode(EngineTokens[r]) /\ drawable = Drawable(EngineTokens[r])
    OBVIOUS
  <2> HIDE DEF data, drawable
  <2> QED
    BY <2>1, EncodeIs
<1>2. /\ \A i \in 1..n : Sorted(drawable)[i] \in drawable
      /\ \A t \in drawable : \E i \in 1..n : Sorted(drawable)[i] = t
      /\ drawable \in SUBSET Shape
  BY <1>1, DrawableIs, SortedIs
<1>3. Decode(data) =
        {[line |-> at[i].line, character |-> at[i].character,
          length |-> data[i].length, type |-> data[i].type] : i \in DOMAIN data}
  BY DEF Decode
<1> HIDE DEF data, drawable
<1>4. \A i \in 0..n : Line(drawable, i) \in Int /\ Character(drawable, i) \in Int
  BY <1>1, <1>2 DEF Line, Character, Shape
<1>5. ASSUME NEW i \in 0..n, NEW f, i # 0 => f[i - 1] = place(i - 1)
      PROVE  next(f, i) = place(i)
  <2>1. CASE i = 0
    BY <2>1 DEF Line, Character
  <2>2. CASE i # 0
    <3> DEFINE j == i - 1
    <3>1. i \in 1..n /\ j \in 0..n
      BY <1>1, <2>2
    <3>2. /\ f[j] = [line |-> Line(drawable, j), character |-> Character(drawable, j)]
          /\ data[i].delta_line = Line(drawable, i) - Line(drawable, j)
          /\ data[i].delta_character = Relative(Line(drawable, i) = Line(drawable, j),
                                                Character(drawable, i), Character(drawable, j))
      BY <1>1, <1>5, <2>2, <3>1
    <3>3. next(f, i) = IF data[i].delta_line = 0
                       THEN [f[j] EXCEPT !.character = @ + data[i].delta_character]
                       ELSE [line |-> f[j].line + data[i].delta_line,
                             character |-> data[i].delta_character]
      BY <2>2
    <3> HIDE DEF j, next
    <3> QED
      BY <1>4, <3>1, <3>2, <3>3 DEF Relative
  <2> QED
    BY <2>1, <2>2
<1> HIDE DEF n, place, next
<1>6. there = [i \in 0..n |-> next(there, i)]
  <2>1. ASSUME NEW i \in 0..n
        PROVE  next(there, i) = place(i)
    <3>1. i # 0 => there[i - 1] = place(i - 1)
      BY <1>1 DEF n
    <3> HIDE DEF there
    <3> QED
      BY <1>5, <3>1
  <2> QED
    BY <2>1
<1>7. at = [i \in 0..n |-> next(at, i)]
  <2> HIDE DEF there
  <2> QED
    BY <1>6
<1> HIDE DEF at, there
<1>8. \A i \in 0..n : at[i] = place(i)
  <2> DEFINE wrong == {i \in 0..n : at[i] # place(i)}
  <2> SUFFICES ASSUME wrong # {}
               PROVE  FALSE
    OBVIOUS
  <2>1. PICK i \in wrong : \A k \in wrong : i =< k
    <3>1. wrong \in SUBSET Nat
      BY <1>1 DEF n
    <3> HIDE DEF wrong
    <3> QED
      BY <3>1, LeastExists
  <2>2. i \in 0..n /\ at[i] # place(i)
    BY <2>1
  <2>3. i # 0 => at[i - 1] = place(i - 1)
    <3>1. i # 0 => i - 1 \in 0..n /\ ~(i =< i - 1)
      BY <1>1, <2>2 DEF n
    <3> QED
      BY <2>1, <3>1
  <2>4. next(at, i) = place(i)
    BY <1>5, <2>2, <2>3
  <2>5. at[i] = next(at, i)
    BY <1>7, <2>2
  <2> QED
    BY <2>2, <2>4, <2>5
<1>9. ASSUME NEW i \in 1..n
      PROVE  [line |-> at[i].line, character |-> at[i].character,
              length |-> data[i].length, type |-> data[i].type] = Sorted(drawable)[i]
  <2>1. i \in 0..n /\ i # 0
    BY <1>1 DEF n
  <2>2. at[i] = [line |-> Sorted(drawable)[i].line, character |-> Sorted(drawable)[i].character]
    BY <1>8, <2>1 DEF place, Line, Character
  <2>3. Sorted(drawable)[i] \in Shape
    BY <1>2
  <2> QED
    BY <1>1, <2>2, <2>3 DEF n, Shape
<1>10. Decode(data) = {Sorted(drawable)[i] : i \in 1..n}
  <2>1. \A x : x \in Decode(data) <=> \E i \in 1..n : x = Sorted(drawable)[i]
    BY <1>1, <1>3, <1>9 DEF n
  <2> QED
    BY <2>1
<1>11. Decode(data) = drawable
  BY <1>2, <1>10
<1> QED
  BY <1>11 DEF Encoding, Drawing, data, drawable

---------------------------------------------------------------------------
(* Histories *)

\* An encoding is a sequence, so the deltas of the store are deltas of sequences.
LEMMA EncodingIsSeq ==
  \A r \in Result : Encoding[r] \in Seq(EncodedToken) /\ Encoding[r] \in Encodings
<1> SUFFICES ASSUME NEW r \in Result
             PROVE  Encoding[r] \in Seq(EncodedToken) /\ Encoding[r] \in Encodings
  OBVIOUS
<1> DEFINE data == Encode(EngineTokens[r])
<1>1. Encoding[r] = data
  BY DEF Encoding
<1>2. Len(data) \in Nat /\ DOMAIN data = 1..Len(data)
  BY EncodeIs
<1>3. data = [i \in DOMAIN data |-> data[i]]
  BY DEF Encode
<1>4. \A i \in DOMAIN data : data[i] \in EncodedToken
  BY <1>1 DEF EncodedToken, Range
<1> HIDE DEF data
<1>5. data \in [1..Len(data) -> EncodedToken]
  BY <1>2, <1>3, <1>4
<1>6. data \in Seq(EncodedToken)
  BY <1>2, <1>5, IsASeq
<1> QED
  BY <1>1, <1>6 DEF Encodings

\* What the look-up by id finds has that id.
LEMMA IndexOfIdFinds ==
  ASSUME NEW S, NEW history \in Seq(S), NEW id,
         IndexOfId(history, id) # 0
  PROVE  /\ IndexOfId(history, id) \in DOMAIN history
         /\ history[IndexOfId(history, id)].result_id = id
<1> DEFINE I == {i \in 1..Len(history) : history[i].result_id = id}
<1>1. IndexOfId(history, id) = IF I # {} THEN Min(I) ELSE 0
  BY DEF IndexOfId, SelectInSeq
<1>2. I \in SUBSET Nat /\ I # {}
  BY <1>1
<1>3. Min(I) \in I
  BY <1>2, MinOfNumbers
<1> QED
  BY <1>1, <1>2, <1>3

\* What the look-up of a current entry finds is one.
LEMMA NewestCurrentFinds ==
  ASSUME NEW S, NEW history \in Seq(S), NEW d, HasCurrent(d, history)
  PROVE  /\ NewestCurrent(d, history) \in DOMAIN history
         /\ IsCurrent(d, history[NewestCurrent(d, history)])
<1> DEFINE I == {i \in 1..Len(history) : IsCurrent(d, history[i])}
<1>1. NewestCurrent(d, history) = IF I # {} THEN Max(I) ELSE 0
  BY DEF NewestCurrent, SelectLastInSeq
<1>2. Len(history) \in Nat /\ DOMAIN history = 1..Len(history)
  OBVIOUS
<1>3. I \in SUBSET (0..Len(history)) /\ I # {}
  BY <1>2 DEF HasCurrent, Range
<1>4. Max(I) \in I
  BY <1>2, <1>3, MaxOfBounded
<1> QED
  BY <1>1, <1>2, <1>3, <1>4

\* What is remembered is the new entry and entries that were there before.
LEMMA RememberKeeps ==
  ASSUME NEW S, NEW history \in Seq(S), NEW entry \in S
  PROVE  /\ Remember(history, entry) \in Seq(S)
         /\ \A i \in DOMAIN Remember(history, entry) :
              \/ Remember(history, entry)[i] = entry
              \/ \E j \in DOMAIN history : Remember(history, entry)[i] = history[j]
<1> DEFINE same == {i \in DOMAIN history : history[i].result_id = entry.result_id}
           replaced == [i \in DOMAIN history |-> IF i \in same THEN entry ELSE history[i]]
           longer == Append(history, entry)
<1>1. /\ Len(history) \in Nat /\ DOMAIN history = 1..Len(history)
      /\ \A i \in DOMAIN history : history[i] \in S
  BY ElementOfSeq
<1>2. /\ longer \in Seq(S) /\ Len(longer) = Len(history) + 1
      /\ \A i \in 1..Len(history) : longer[i] = history[i]
      /\ longer[Len(history) + 1] = entry
  BY AppendProperties
<1>3. \A i \in DOMAIN longer : longer[i] = entry \/ \E j \in DOMAIN history : longer[i] = history[j]
  BY <1>1, <1>2
<1>4. CASE same # {}
  <2>1. Remember(history, entry) = replaced
    BY <1>4 DEF Remember
  <2>2. replaced \in [1..Len(history) -> S]
    BY <1>1
  <2>3. replaced \in Seq(S)
    BY <1>1, <2>2, IsASeq
  <2> QED
    BY <1>1, <2>1, <2>3
<1>5. CASE same = {} /\ Len(history) < MaxHistory
  <2>1. Remember(history, entry) = longer
    BY <1>5 DEF Remember
  <2> QED
    BY <1>2, <1>3, <2>1
<1>6. CASE same = {} /\ ~(Len(history) < MaxHistory)
  <2>1. Remember(history, entry) = Tail(longer)
    BY <1>6 DEF Remember, DropOldest
  <2> HIDE DEF longer
  <2>2. longer # <<>>
    BY <1>1, <1>2
  <2>3. /\ Tail(longer) \in Seq(S) /\ Len(Tail(longer)) = Len(longer) - 1
        /\ \A i \in 1..Len(Tail(longer)) : Tail(longer)[i] = longer[i + 1]
    BY <1>2, <2>2, HeadTailProperties
  <2>4. \A i \in DOMAIN Tail(longer) : i + 1 \in DOMAIN longer
    BY <1>1, <1>2, <2>3
  <2> QED
    BY <1>3, <2>1, <2>3, <2>4
<1> QED
  BY <1>4, <1>5, <1>6

---------------------------------------------------------------------------
(* The inductive invariant *)

\* An entry is no younger than the workspace, its id names its document and
\* its content, and if it would be handed out now its content is the engine's.
GoodEntry(d, entry, computed) ==
  /\ entry.generation <= generation
  /\ entry.result_id = <<d, entry.content>>
  /\ IsCurrent(d, entry) => entry.content = computed

GoodBucket(d, bucket) ==
  /\ Len(bucket.diagnostics) <= 1
  /\ \A i \in DOMAIN bucket.diagnostics :
       GoodEntry(d, bucket.diagnostics[i], EngineItems[result[d]])
  /\ \A i \in DOMAIN bucket.semantic_tokens :
       GoodEntry(d, bucket.semantic_tokens[i], Encoding[result[d]])

\* The id that the client holds names the content that it holds.
GoodAnswer(d, answer, computed) ==
  /\ answer.id # <<>> => answer.id = <<d, answer.content>>
  /\ d \in Open /\ answer.recent => answer.content = computed

WorkspaceType ==
  /\ version \in [Document -> Nat]
  /\ generation \in Nat
  /\ result \in [Document -> Result]

StoreType ==
  /\ buckets \in [Document -> Bucket]
  /\ \A d \in Document : buckets[d].last_access <= access_clock
  /\ access_clock \in Nat

HeldType ==
  held \in [Document -> [diagnostics : Held(Id(Items), Items),
                         tokens : Held(Id(Encodings), Seq(EncodedToken))]]

StoreInv ==
  /\ StoreType
  /\ \A d \in Document : GoodBucket(d, buckets[d])
  /\ ClosedKeepsNothing

ClientInv ==
  /\ HeldType
  /\ \A d \in Document : /\ GoodAnswer(d, held[d].diagnostics, EngineItems[result[d]])
                         /\ GoodAnswer(d, held[d].tokens, Encoding[result[d]])

IInv == WorkspaceType /\ StoreInv /\ ClientInv

LEMMA NoBucketIsGood == NoBucket \in Bucket /\ \A d : GoodBucket(d, NoBucket)
<1>1. <<>> \in Seq(Entry(Items)) /\ <<>> \in Seq(Entry(Encodings))
  OBVIOUS
<1> QED
  BY <1>1 DEF NoBucket, Bucket, GoodBucket

LEMMA EntriesOfBucket ==
  ASSUME NEW bucket \in Bucket
  PROVE  /\ \A i \in DOMAIN bucket.diagnostics : bucket.diagnostics[i] \in Entry(Items)
         /\ \A i \in DOMAIN bucket.semantic_tokens :
              bucket.semantic_tokens[i] \in Entry(Encodings)
<1>1. bucket.diagnostics \in Seq(Entry(Items))
  BY DEF Bucket
<1>2. bucket.semantic_tokens \in Seq(Entry(Encodings))
  BY DEF Bucket
<1> QED
  BY <1>1, <1>2, ElementOfSeq

LEMMA NoAnswerIsGood ==
  /\ NoAnswer \in Held(Id(Items), Items)
  /\ NoAnswer \in Held(Id(Encodings), Seq(EncodedToken))
  /\ \A d, computed : GoodAnswer(d, NoAnswer, computed)
BY DEF NoAnswer, Held, GoodAnswer

LEMMA InitInv == Init => IInv
<1> SUFFICES ASSUME Init PROVE IInv
  OBVIOUS
<1>1. WorkspaceType
  BY DEF Init, WorkspaceType
<1>2. \A d \in Document : buckets[d] = NoBucket /\ held[d].diagnostics = NoAnswer
                          /\ held[d].tokens = NoAnswer
  BY DEF Init
<1>3. StoreInv
  <2>1. StoreType
    BY <1>2, NoBucketIsGood DEF Init, StoreType, NoBucket
  <2>2. ClosedKeepsNothing
    BY <1>2 DEF ClosedKeepsNothing, Present, NoBucket
  <2> QED
    BY <1>2, <2>1, <2>2, NoBucketIsGood DEF StoreInv
<1>4. ClientInv
  <2>1. HeldType
    BY NoAnswerIsGood DEF Init, HeldType
  <2> QED
    BY <1>2, <2>1, NoAnswerIsGood DEF ClientInv
<1> QED
  BY <1>1, <1>3, <1>4 DEF IInv

\* Whatever changes the workspace outdates what is kept and what is held.
LEMMA ReanalysePreserves ==
  ASSUME IInv, Reanalyse,
         version' \in [Document -> Nat],
         buckets' \in [Document -> Bucket],
         access_clock' \in Nat,
         \A d \in Document :
           /\ buckets'[d] = buckets[d] \/ buckets'[d] = NoBucket
           /\ buckets'[d].last_access <= access_clock'
           /\ buckets'[d].last_access > 0 => version'[d] > 0
  PROVE  IInv'
<1>1. /\ generation \in Nat /\ generation' = generation + 1
      /\ result' \in [Document -> Result]
  BY DEF IInv, WorkspaceType, Reanalyse, NextGeneration
<1>2. WorkspaceType'
  BY <1>1 DEF WorkspaceType
<1>3. ASSUME NEW d \in Document PROVE GoodBucket(d, buckets[d])'
  <2>1. CASE buckets'[d] = NoBucket
    BY <2>1 DEF GoodBucket, NoBucket
  <2>2. CASE buckets'[d] = buckets[d]
    <3>1. GoodBucket(d, buckets[d]) /\ buckets[d] \in Bucket
      BY DEF IInv, StoreInv, StoreType
    <3>2. \A i \in DOMAIN buckets[d].diagnostics :
            /\ buckets[d].diagnostics[i].generation \in Nat
            /\ GoodEntry(d, buckets[d].diagnostics[i], EngineItems[result[d]])
      BY <3>1, EntriesOfBucket DEF GoodBucket, Entry
    <3>3. \A i \in DOMAIN buckets[d].semantic_tokens :
            /\ buckets[d].semantic_tokens[i].generation \in Nat
            /\ GoodEntry(d, buckets[d].semantic_tokens[i], Encoding[result[d]])
      BY <3>1, EntriesOfBucket DEF GoodBucket, Entry
    <3> QED
      BY <1>1, <2>2, <3>1, <3>2, <3>3 DEF GoodBucket, GoodEntry, IsCurrent
  <2> QED
    BY <2>1, <2>2
<1>4. StoreInv'
  BY <1>3 DEF StoreInv, StoreType, ClosedKeepsNothing, Present, Open
<1>5. ASSUME NEW d \in Document
      PROVE  /\ held'[d].diagnostics = Outdated(held[d].diagnostics)
             /\ held'[d].tokens = Outdated(held[d].tokens)
             /\ held[d].diagnostics \in Held(Id(Items), Items)
             /\ held[d].tokens \in Held(Id(Encodings), Seq(EncodedToken))
             /\ GoodAnswer(d, held[d].diagnostics, EngineItems[result[d]])
             /\ GoodAnswer(d, held[d].tokens, Encoding[result[d]])
  BY DEF Reanalyse, IInv, ClientInv, HeldType
<1>6. HeldType'
  <2>1. \A d \in Document :
          /\ Outdated(held[d].diagnostics) \in Held(Id(Items), Items)
          /\ Outdated(held[d].tokens) \in Held(Id(Encodings), Seq(EncodedToken))
    BY <1>5 DEF Outdated, Held
  <2> QED
    BY <2>1 DEF Reanalyse, HeldType
<1>7. ASSUME NEW d \in Document
      PROVE  /\ GoodAnswer(d, held[d].diagnostics, EngineItems[result[d]])'
             /\ GoodAnswer(d, held[d].tokens, Encoding[result[d]])'
  BY <1>5 DEF GoodAnswer, Outdated, Held
<1> QED
  BY <1>2, <1>4, <1>6, <1>7 DEF IInv, ClientInv

\* A bucket that is stored, or hit, is the only one that can gain anything.
LEMMA UsePreserves ==
  ASSUME IInv, NEW d \in Open, UNCHANGED workspace,
         access_clock' = access_clock + 1,
         NEW bucket \in Bucket, GoodBucket(d, bucket),
         buckets' \in [Document -> Bucket],
         buckets'[d] = Touched(bucket) \/ buckets'[d] = NoBucket,
         \A e \in Document \ {d} : buckets'[e] = buckets[e] \/ buckets'[e] = NoBucket
  PROVE  WorkspaceType' /\ StoreInv'
<1>1. d \in Document /\ access_clock \in Nat /\ access_clock' \in Nat
  BY DEF Open, IInv, StoreInv, StoreType
<1>2. WorkspaceType' /\ Open' = Open
  BY DEF IInv, WorkspaceType, workspace, Open
<1>3. ASSUME NEW e \in Document PROVE GoodBucket(e, buckets[e])'
  <2>1. CASE buckets'[e] = NoBucket
    BY <2>1 DEF GoodBucket, NoBucket
  <2>2. CASE e = d /\ buckets'[e] = Touched(bucket)
    <3>1. /\ buckets'[e].diagnostics = bucket.diagnostics
          /\ buckets'[e].semantic_tokens = bucket.semantic_tokens
      BY <2>2 DEF Touched, Bucket
    <3> QED
      BY <2>2, <3>1 DEF GoodBucket, GoodEntry, IsCurrent, workspace
  <2>3. CASE e # d /\ buckets'[e] = buckets[e]
    <3>1. GoodBucket(e, buckets[e])
      BY DEF IInv, StoreInv
    <3> QED
      BY <2>3, <3>1 DEF GoodBucket, GoodEntry, IsCurrent, workspace
  <2> QED
    BY <2>1, <2>2, <2>3
<1>4. ASSUME NEW e \in Document PROVE buckets'[e].last_access <= access_clock'
  <2>1. CASE buckets'[e] = NoBucket
    BY <1>1, <2>1 DEF NoBucket
  <2>2. CASE e = d /\ buckets'[e] = Touched(bucket)
    BY <1>1, <2>2 DEF Touched, Bucket
  <2>3. CASE e # d /\ buckets'[e] = buckets[e]
    <3>1. buckets[e].last_access \in Nat /\ buckets[e].last_access <= access_clock
      BY DEF IInv, StoreInv, StoreType, Bucket
    <3> QED
      BY <1>1, <2>3, <3>1
  <2> QED
    BY <2>1, <2>2, <2>3
<1>5. ClosedKeepsNothing'
  <2>1. ASSUME NEW e \in Document, buckets'[e].last_access > 0 PROVE e \in Open
    <3>1. CASE e = d
      BY <3>1
    <3>2. CASE e # d
      BY <2>1, <3>2 DEF NoBucket, IInv, StoreInv, ClosedKeepsNothing, Present
    <3> QED
      BY <3>1, <3>2
  <2> QED
    BY <1>2, <2>1 DEF ClosedKeepsNothing, Present
<1> QED
  BY <1>1, <1>2, <1>3, <1>4, <1>5 DEF StoreInv, StoreType

\* An insertion fills a bucket and evicts others.
LEMMA StoreBucketStores ==
  ASSUME StoreType, NEW d \in Document, NEW bucket \in Bucket, StoreBucket(d, bucket)
  PROVE  /\ buckets' \in [Document -> Bucket]
         /\ buckets'[d] = Touched(bucket) \/ buckets'[d] = NoBucket
         /\ \A e \in Document \ {d} : buckets'[e] = buckets[e] \/ buckets'[e] = NoBucket
<1> DEFINE filled == [buckets EXCEPT ![d] = Touched(bucket)]
<1>1. Touched(bucket) \in Bucket
  <2>1. access_clock + 1 \in Nat
    BY DEF StoreType
  <2> QED
    BY <2>1 DEF Touched, Bucket
<1>2. filled \in [Document -> Bucket]
  BY <1>1 DEF StoreType
<1>3. /\ filled[d] = Touched(bucket)
      /\ \A e \in Document \ {d} : filled[e] = buckets[e]
  BY DEF StoreType
<1>4. buckets' = Evict(filled)
  BY DEF StoreBucket
<1> HIDE DEF filled
<1>5. Evict(filled) \in [Document -> Bucket]
  BY <1>2, NoBucketIsGood DEF Evict
<1>6. \A e \in Document : Evict(filled)[e] = filled[e] \/ Evict(filled)[e] = NoBucket
  BY DEF Evict
<1> QED
  BY <1>3, <1>4, <1>5, <1>6

\* The client's record of one document changes.
LEMMA HoldPreserves ==
  ASSUME IInv, UNCHANGED workspace, NEW d \in Document,
         NEW diagnostics \in Held(Id(Items), Items),
         NEW tokens \in Held(Id(Encodings), Seq(EncodedToken)),
         GoodAnswer(d, diagnostics, EngineItems[result[d]]),
         GoodAnswer(d, tokens, Encoding[result[d]]),
         held' = [held EXCEPT ![d] = [diagnostics |-> diagnostics, tokens |-> tokens]]
  PROVE  ClientInv'
<1>1. HeldType'
  BY DEF IInv, ClientInv, HeldType
<1>2. ASSUME NEW e \in Document
      PROVE  /\ GoodAnswer(e, held[e].diagnostics, EngineItems[result[e]])'
             /\ GoodAnswer(e, held[e].tokens, Encoding[result[e]])'
  <2>1. /\ GoodAnswer(e, held[e].diagnostics, EngineItems[result[e]])
        /\ GoodAnswer(e, held[e].tokens, Encoding[result[e]])
    BY DEF IInv, ClientInv
  <2>2. CASE e = d
    <3>1. held'[e].diagnostics = diagnostics /\ held'[e].tokens = tokens
      BY <2>2 DEF IInv, ClientInv, HeldType
    <3> QED
      BY <2>2, <3>1 DEF GoodAnswer, workspace, Open
  <2>3. CASE e # d
    <3>1. held'[e] = held[e]
      BY <2>3 DEF IInv, ClientInv, HeldType
    <3> QED
      BY <2>1, <3>1 DEF GoodAnswer, workspace, Open
  <2> QED
    BY <2>2, <2>3
<1> QED
  BY <1>1, <1>2 DEF ClientInv

\* An answer that is held, written as the records of the document.
LEMMA HoldRecords ==
  ASSUME HeldType, NEW d \in Document, NEW entry, NEW content
  PROVE  LET answer == [id |-> entry.result_id, content |-> content, recent |-> TRUE]
         IN  /\ Hold(d, "diagnostics", entry, content) =>
                  held' = [held EXCEPT ![d] = [diagnostics |-> answer, tokens |-> held[d].tokens]]
             /\ Hold(d, "tokens", entry, content) =>
                  held' = [held EXCEPT ![d] = [diagnostics |-> held[d].diagnostics,
                                               tokens |-> answer]]
<1> DEFINE answer == [id |-> entry.result_id, content |-> content, recent |-> TRUE]
<1>1. held[d] = [diagnostics |-> held[d].diagnostics, tokens |-> held[d].tokens]
  BY DEF HeldType
<1> HIDE DEF answer
<1>2. DOMAIN held[d] = {"diagnostics", "tokens"}
  BY <1>1
<1>3. /\ [held[d] EXCEPT !["diagnostics"] = answer]
           = [diagnostics |-> answer, tokens |-> held[d].tokens]
      /\ [held[d] EXCEPT !["tokens"] = answer]
           = [diagnostics |-> held[d].diagnostics, tokens |-> answer]
  BY <1>1, <1>2
<1>4. /\ Hold(d, "diagnostics", entry, content) =>
           held' = [held EXCEPT ![d] = [held[d] EXCEPT !["diagnostics"] = answer]]
      /\ Hold(d, "tokens", entry, content) =>
           held' = [held EXCEPT ![d] = [held[d] EXCEPT !["tokens"] = answer]]
  BY DEF Hold, answer
<1> QED
  BY <1>3, <1>4 DEF answer

\* A pull, whether it is answered from the store or not.
LEMMA DiagnosticPreserves ==
  ASSUME IInv, NEW d \in Document, NEW told \in BOOLEAN, DocumentDiagnostic(d, told)
  PROVE  IInv'
<1> DEFINE cached == buckets[d].diagnostics
           computed == EngineItems[result[d]]
           filled == [buckets[d] EXCEPT !.diagnostics = <<FreshDiagnostics(d)>>]
<1>1. /\ d \in Open /\ UNCHANGED workspace /\ access_clock' = access_clock + 1
      /\ StoreType /\ HeldType
      /\ buckets[d] \in Bucket /\ GoodBucket(d, buckets[d])
  BY DEF DocumentDiagnostic, Uses, IInv, StoreInv, StoreType, ClientInv
<1>2. /\ version[d] \in Nat /\ generation \in Nat /\ result[d] \in Result
      /\ access_clock \in Nat /\ computed \in Items
  BY DEF IInv, WorkspaceType, StoreInv, StoreType, Items
<1>3. ASSUME NEW entry \in Entry(Items), GoodEntry(d, entry, computed),
             IsCurrent(d, entry), IF told THEN Pull(d, entry) ELSE UNCHANGED held
      PROVE  ClientInv'
  <2>1. CASE ~told
    BY <1>1, <1>3, <2>1
       DEF IInv, ClientInv, HeldType, GoodAnswer, workspace, Open
  <2>2. CASE told
    <3> DEFINE content == IF held[d].diagnostics.id = entry.result_id
                            THEN held[d].diagnostics.content ELSE entry.content
               answer == [id |-> entry.result_id, content |-> content, recent |-> TRUE]
    <3>1. Hold(d, "diagnostics", entry, content)
      BY <1>3, <2>2 DEF Pull
    <3>2. /\ held[d].diagnostics \in Held(Id(Items), Items)
          /\ held[d].tokens \in Held(Id(Encodings), Seq(EncodedToken))
          /\ GoodAnswer(d, held[d].diagnostics, computed)
          /\ GoodAnswer(d, held[d].tokens, Encoding[result[d]])
      BY DEF IInv, ClientInv, HeldType
    <3>3. /\ entry.result_id = <<d, entry.content>> /\ entry.content = computed
          /\ entry.result_id \in Id(Items)
      BY <1>3 DEF GoodEntry, Entry
    <3>4. content = computed
      <4>1. CASE held[d].diagnostics.id = entry.result_id
        <5>1. entry.result_id # <<>>
          BY <3>3
        <5>2. held[d].diagnostics.id = <<d, held[d].diagnostics.content>>
          BY <3>2, <4>1, <5>1 DEF GoodAnswer
        <5> QED
          BY <3>3, <4>1, <5>2
      <4> QED
        BY <3>3, <4>1
    <3>5. held' = [held EXCEPT ![d] = [diagnostics |-> answer, tokens |-> held[d].tokens]]
      BY <1>1, <3>1, HoldRecords
    <3> HIDE DEF content
    <3>6. answer \in Held(Id(Items), Items) /\ GoodAnswer(d, answer, computed)
      BY <1>2, <3>3, <3>4 DEF Held, GoodAnswer
    <3> QED
      BY <1>1, <3>2, <3>5, <3>6, HoldPreserves
  <2> QED
    BY <2>1, <2>2
<1>4. CASE /\ HasCurrent(d, cached)
           /\ buckets' = [buckets EXCEPT ![d] = TouchHit(@)]
           /\ IF told THEN Pull(d, cached[1]) ELSE UNCHANGED held
  <2>1. \A i \in DOMAIN cached : i = 1
    BY <1>1 DEF GoodBucket, Bucket
  <2>2. 1 \in DOMAIN cached /\ IsCurrent(d, cached[1])
    BY <1>4, <2>1 DEF HasCurrent, Range
  <2>3. cached[1] \in Entry(Items) /\ GoodEntry(d, cached[1], computed)
    BY <1>1, <2>2, EntriesOfBucket DEF GoodBucket
  <2>4. Touched(buckets[d]) \in Bucket
    BY <1>1, <1>2 DEF Touched, Bucket
  <2>5. /\ buckets' \in [Document -> Bucket]
        /\ buckets'[d] = Touched(buckets[d])
        /\ \A e \in Document \ {d} : buckets'[e] = buckets[e]
    BY <1>1, <1>4, <2>4 DEF TouchHit, StoreType
  <2>6. WorkspaceType' /\ StoreInv'
    BY <1>1, <2>5, UsePreserves
  <2> QED
    BY <1>3, <1>4, <2>2, <2>3, <2>6 DEF IInv
<1>5. CASE /\ StoreBucket(d, filled)
           /\ IF told THEN Pull(d, FreshDiagnostics(d)) ELSE UNCHANGED held
  <2>1. /\ FreshDiagnostics(d) \in Entry(Items)
        /\ GoodEntry(d, FreshDiagnostics(d), computed)
        /\ IsCurrent(d, FreshDiagnostics(d))
    BY <1>2 DEF FreshDiagnostics, DiagnosticId, Entry, Id, GoodEntry, IsCurrent
  <2>2. filled \in Bucket /\ GoodBucket(d, filled)
    <3> DEFINE only == <<FreshDiagnostics(d)>>
    <3>1. /\ only \in Seq(Entry(Items)) /\ Len(only) = 1 /\ DOMAIN only = {1}
          /\ only[1] = FreshDiagnostics(d)
      BY <2>1
    <3> HIDE DEF only
    <3> DEFINE full == [buckets[d] EXCEPT !.diagnostics = only]
    <3>2. /\ full \in Bucket
          /\ full.diagnostics = only
          /\ full.semantic_tokens = buckets[d].semantic_tokens
      BY <1>1, <3>1 DEF Bucket
    <3> HIDE DEF full
    <3>3. GoodBucket(d, full)
      <4>1. Len(full.diagnostics) <= 1
        <5>1. Len(full.diagnostics) = Len(only)
          BY <3>2
        <5>2. Len(only) = 1
          BY <3>1
        <5> QED
          BY <5>1, <5>2
      <4>2. \A i \in DOMAIN full.diagnostics : full.diagnostics[i] = FreshDiagnostics(d)
        BY <3>1, <3>2
      <4>3. \A i \in DOMAIN full.diagnostics : GoodEntry(d, full.diagnostics[i], computed)
        <5>1. \A e : e = FreshDiagnostics(d) => GoodEntry(d, e, computed)
          BY <2>1
        <5> QED
          BY <4>2, <5>1
      <4>4. \A i \in DOMAIN full.semantic_tokens :
              GoodEntry(d, full.semantic_tokens[i], Encoding[result[d]])
        BY <1>1, <3>2 DEF GoodBucket
      <4> QED
        BY <4>1, <4>3, <4>4 DEF GoodBucket
    <3> QED
      BY <3>2, <3>3 DEF only, full
  <2>3. /\ buckets' \in [Document -> Bucket]
        /\ buckets'[d] = Touched(filled) \/ buckets'[d] = NoBucket
        /\ \A e \in Document \ {d} : buckets'[e] = buckets[e] \/ buckets'[e] = NoBucket
    BY <1>1, <1>5, <2>2, StoreBucketStores
  <2>4. WorkspaceType' /\ StoreInv'
    BY <1>1, <2>2, <2>3, UsePreserves
  <2> QED
    BY <1>3, <1>5, <2>1, <2>4 DEF IInv
<1> QED
  BY <1>4, <1>5 DEF DocumentDiagnostic

\* An answer with tokens.  If it is an edit, it is one of what the client holds:
\* the id that the client sends names the content that both have.
LEMMA AnswerPreserves ==
  ASSUME IInv, UNCHANGED workspace, NEW d \in Open,
         buckets'[d] \in Bucket, GoodBucket(d, buckets[d])',
         NEW with_previous_id \in BOOLEAN,
         NEW entry \in Entry(Encodings),
         GoodEntry(d, entry, Encoding[result[d]]), IsCurrent(d, entry),
         Answer(d, entry, with_previous_id)
  PROVE  ClientInv'
<1> DEFINE history == buckets'[d].semantic_tokens
           previous == IndexOfId(history, held[d].tokens.id)
           content == IF with_previous_id /\ previous # 0
                        THEN Apply(held[d].tokens.content,
                                   SingleDelta(history[previous].content, entry.content))
                        ELSE entry.content
           answer == [id |-> entry.result_id, content |-> content, recent |-> TRUE]
<1>1. /\ d \in Document /\ HeldType /\ result[d] \in Result
      /\ held[d].diagnostics \in Held(Id(Items), Items)
      /\ held[d].tokens \in Held(Id(Encodings), Seq(EncodedToken))
      /\ GoodAnswer(d, held[d].diagnostics, EngineItems[result[d]])
      /\ GoodAnswer(d, held[d].tokens, Encoding[result[d]])
  BY DEF Open, IInv, ClientInv, HeldType, WorkspaceType
<1>2. /\ entry.result_id = <<d, entry.content>> /\ entry.result_id \in Id(Encodings)
      /\ entry.content = Encoding[result[d]]
  BY DEF GoodEntry, Entry
<1>3. history \in Seq(Entry(Encodings))
  BY DEF Bucket
<1>4. content = entry.content
  <2>1. CASE with_previous_id /\ previous # 0
    <3>1. /\ previous \in DOMAIN history
          /\ history[previous].result_id = held[d].tokens.id
      BY <1>3, <2>1, IndexOfIdFinds
    <3> DEFINE kept == history[previous]
    <3>2. kept.result_id = <<d, kept.content>> /\ kept.result_id = held[d].tokens.id
      BY <3>1 DEF GoodBucket, GoodEntry
    <3> HIDE DEF kept
    <3>3. held[d].tokens.id # <<>>
      <4>1. \A e : <<d, e>> # <<>>
        OBVIOUS
      <4> QED
        BY <3>2, <4>1
    <3>4. held[d].tokens.id = <<d, held[d].tokens.content>>
      BY <1>1, <3>3 DEF GoodAnswer
    <3>5. kept.content = held[d].tokens.content
      BY <3>2, <3>4
    <3>6. kept.content \in Seq(EncodedToken)
      <4>1. kept \in Entry(Encodings)
        BY <3>1, EntriesOfBucket DEF kept
      <4> QED
        BY <4>1, EncodingIsSeq DEF Entry, Encodings
    <3>7. entry.content \in Seq(EncodedToken)
      BY <1>1, <1>2, EncodingIsSeq
    <3>8. Apply(kept.content, SingleDelta(kept.content, entry.content)) = entry.content
      BY <3>6, <3>7, DeltaApplies
    <3> QED
      BY <2>1, <3>5, <3>8 DEF kept
  <2>2. CASE ~(with_previous_id /\ previous # 0)
    BY <2>2
  <2> QED
    BY <2>1, <2>2
<1>5. held' = [held EXCEPT ![d] = [diagnostics |-> held[d].diagnostics, tokens |-> answer]]
  <2>1. Hold(d, "tokens", entry, content)
    BY DEF Answer
  <2> HIDE DEF content
  <2> QED
    BY <1>1, <2>1, HoldRecords
<1> HIDE DEF content
<1>6. answer \in Held(Id(Encodings), Seq(EncodedToken))
  BY <1>1, <1>2, <1>4, EncodingIsSeq DEF Held
<1>7. GoodAnswer(d, answer, Encoding[result[d]])
  BY <1>2, <1>4 DEF GoodAnswer
<1> QED
  BY <1>1, <1>5, <1>6, <1>7, HoldPreserves

\* A request for tokens, whether it is answered from the store or not.
LEMMA TokensPreserve ==
  ASSUME IInv, NEW d \in Document, NEW told \in BOOLEAN, NEW with_previous_id \in BOOLEAN,
         SemanticTokens(d, with_previous_id, told)
  PROVE  IInv'
<1> DEFINE history == buckets[d].semantic_tokens
           computed == Encoding[result[d]]
           newest == history[NewestCurrent(d, history)]
           filled == [buckets[d] EXCEPT !.semantic_tokens = Remember(history, FreshTokens(d))]
<1>1. /\ d \in Open /\ UNCHANGED workspace /\ access_clock' = access_clock + 1
      /\ StoreType /\ HeldType
      /\ buckets[d] \in Bucket /\ GoodBucket(d, buckets[d])
  BY DEF SemanticTokens, Uses, IInv, StoreInv, StoreType, ClientInv
<1>2. /\ version[d] \in Nat /\ generation \in Nat /\ result[d] \in Result
      /\ access_clock \in Nat /\ history \in Seq(Entry(Encodings))
  BY <1>1 DEF IInv, WorkspaceType, StoreType, Bucket
<1>3. ASSUME NEW entry \in Entry(Encodings), GoodEntry(d, entry, computed),
             IsCurrent(d, entry), WorkspaceType' /\ StoreInv',
             IF told THEN Answer(d, entry, with_previous_id) ELSE UNCHANGED held
      PROVE  IInv'
  <2>1. CASE ~told
    BY <1>1, <1>3, <2>1
       DEF IInv, ClientInv, HeldType, GoodAnswer, workspace, Open
  <2>2. CASE told
    <3>1. buckets'[d] \in Bucket /\ GoodBucket(d, buckets[d])'
      BY <1>3 DEF StoreInv, StoreType
    <3>2. ClientInv'
      BY <1>1, <1>3, <2>2, <3>1, AnswerPreserves
    <3> QED
      BY <1>3, <3>2 DEF IInv
  <2> QED
    BY <2>1, <2>2
<1>4. CASE /\ HasCurrent(d, history)
           /\ buckets' = [buckets EXCEPT ![d] = TouchHit(@)]
           /\ IF told THEN Answer(d, newest, with_previous_id) ELSE UNCHANGED held
  <2>1. NewestCurrent(d, history) \in DOMAIN history /\ IsCurrent(d, newest)
    BY <1>2, <1>4, NewestCurrentFinds
  <2>2. newest \in Entry(Encodings) /\ GoodEntry(d, newest, computed)
    BY <1>1, <2>1, EntriesOfBucket DEF GoodBucket
  <2>3. Touched(buckets[d]) \in Bucket
    BY <1>1, <1>2 DEF Touched, Bucket
  <2>4. /\ buckets' \in [Document -> Bucket]
        /\ buckets'[d] = Touched(buckets[d])
        /\ \A e \in Document \ {d} : buckets'[e] = buckets[e]
    BY <1>1, <1>4, <2>3 DEF TouchHit, StoreType
  <2>5. WorkspaceType' /\ StoreInv'
    BY <1>1, <2>4, UsePreserves
  <2> QED
    BY <1>3, <1>4, <2>1, <2>2, <2>5
<1>5. CASE /\ StoreBucket(d, filled)
           /\ IF told THEN Answer(d, FreshTokens(d), with_previous_id) ELSE UNCHANGED held
  <2>1. /\ FreshTokens(d) \in Entry(Encodings)
        /\ GoodEntry(d, FreshTokens(d), computed)
        /\ IsCurrent(d, FreshTokens(d))
    BY <1>2, EncodingIsSeq DEF FreshTokens, TokenId, Entry, Id, GoodEntry, IsCurrent
  <2>2. filled \in Bucket /\ GoodBucket(d, filled)
    <3> DEFINE longer == Remember(history, FreshTokens(d))
    <3>1. /\ longer \in Seq(Entry(Encodings))
          /\ \A i \in DOMAIN longer : longer[i] = FreshTokens(d)
                                      \/ \E j \in DOMAIN history : longer[i] = history[j]
      <4>1. \A S : \A h \in Seq(S) : \A e \in S :
              /\ Remember(h, e) \in Seq(S)
              /\ \A i \in DOMAIN Remember(h, e) : Remember(h, e)[i] = e
                                                  \/ \E j \in DOMAIN h : Remember(h, e)[i] = h[j]
        BY RememberKeeps
      <4> HIDE DEF history
      <4> QED
        BY <1>2, <2>1, <4>1
    <3> HIDE DEF longer
    <3> DEFINE full == [buckets[d] EXCEPT !.semantic_tokens = longer]
    <3>2. /\ full \in Bucket
          /\ full.semantic_tokens = longer
          /\ full.diagnostics = buckets[d].diagnostics
      BY <1>1, <3>1 DEF Bucket
    <3> HIDE DEF full
    <3>3. GoodBucket(d, full)
      <4>1. /\ Len(full.diagnostics) <= 1
            /\ \A i \in DOMAIN full.diagnostics :
                 GoodEntry(d, full.diagnostics[i], EngineItems[result[d]])
        BY <1>1, <3>2 DEF GoodBucket
      <4>2. \A j \in DOMAIN history : GoodEntry(d, history[j], computed)
        BY <1>1 DEF GoodBucket
      <4>3. ASSUME NEW i \in DOMAIN full.semantic_tokens
            PROVE  GoodEntry(d, full.semantic_tokens[i], computed)
        BY <2>1, <3>1, <3>2, <4>2
      <4> QED
        BY <4>1, <4>3 DEF GoodBucket
    <3> QED
      BY <3>2, <3>3 DEF longer, full
  <2>3. /\ buckets' \in [Document -> Bucket]
        /\ buckets'[d] = Touched(filled) \/ buckets'[d] = NoBucket
        /\ \A e \in Document \ {d} : buckets'[e] = buckets[e] \/ buckets'[e] = NoBucket
    BY <1>1, <1>5, <2>2, StoreBucketStores
  <2>4. WorkspaceType' /\ StoreInv'
    BY <1>1, <2>2, <2>3, UsePreserves
  <2> QED
    BY <1>3, <1>5, <2>1, <2>4
<1> QED
  BY <1>4, <1>5 DEF SemanticTokens

\* An empty answer about a closed document.
LEMMA AnswerClosedPreserves ==
  ASSUME IInv, NEW d \in Document, NEW kind \in {"diagnostics", "tokens"},
         AnswerClosed(d, kind)
  PROVE  IInv'
<1>1. WorkspaceType' /\ StoreInv' /\ UNCHANGED workspace
  BY DEF AnswerClosed, workspace, store, IInv, WorkspaceType, StoreInv, StoreType,
         GoodBucket, GoodEntry, IsCurrent, ClosedKeepsNothing, Present, Open
<1>2. HeldType /\ held' = [held EXCEPT ![d][kind] = NoAnswer]
  BY DEF AnswerClosed, IInv, ClientInv
<1>3. HeldType'
  BY <1>2, NoAnswerIsGood DEF HeldType
<1>4. ASSUME NEW e \in Document
      PROVE  /\ held'[e].diagnostics \in {held[e].diagnostics, NoAnswer}
             /\ held'[e].tokens \in {held[e].tokens, NoAnswer}
  BY <1>2 DEF HeldType
<1>5. ASSUME NEW e \in Document
      PROVE  /\ GoodAnswer(e, held[e].diagnostics, EngineItems[result[e]])'
             /\ GoodAnswer(e, held[e].tokens, Encoding[result[e]])'
  <2>1. /\ GoodAnswer(e, held[e].diagnostics, EngineItems[result[e]])
        /\ GoodAnswer(e, held[e].tokens, Encoding[result[e]])
    BY DEF IInv, ClientInv
  <2> QED
    BY <1>1, <1>4, <2>1 DEF GoodAnswer, NoAnswer, workspace, Open
<1> QED
  BY <1>1, <1>3, <1>5 DEF IInv, ClientInv

LEMMA StepPreserves == IInv /\ [Next]_vars => IInv'
<1> SUFFICES ASSUME IInv, [Next]_vars PROVE IInv'
  OBVIOUS
<1>0. /\ WorkspaceType /\ StoreType /\ ClosedKeepsNothing
      /\ \A d \in Document : buckets[d].last_access > 0 => version[d] > 0
  BY DEF IInv, StoreInv, ClosedKeepsNothing, Present, Open
<1>1. CASE UNCHANGED vars
  BY <1>1 DEF vars, workspace, store, IInv, WorkspaceType, StoreInv, StoreType, ClientInv,
     HeldType, GoodBucket, GoodEntry, IsCurrent, ClosedKeepsNothing, Present, Open, GoodAnswer
<1>2. CASE UpdateUnderVersion
  BY <1>0, <1>2, ReanalysePreserves DEF UpdateUnderVersion, store, WorkspaceType, StoreType
<1>3. CASE Initialize
  <2>1. \A d \in Document : buckets'[d] = NoBucket
    BY <1>3 DEF Initialize
  <2>2. buckets' \in [Document -> Bucket] /\ access_clock' = 0
    BY <1>3, NoBucketIsGood DEF Initialize
  <2>3. version' \in [Document -> Nat] /\ Reanalyse
    BY <1>0, <1>3 DEF Initialize, WorkspaceType
  <2>4. \A d \in Document : buckets'[d].last_access = 0
    BY <2>1 DEF NoBucket
  <2> QED
    BY <2>1, <2>2, <2>3, <2>4, ReanalysePreserves
<1>4. ASSUME NEW d \in Document, DidOpen(d) \/ DidChange(d) PROVE IInv'
  <2>1. /\ Reanalyse /\ buckets' = buckets /\ access_clock' = access_clock
        /\ version' \in [Document -> Nat]
        /\ \A e \in Document : version'[e] = version[e] \/ version'[e] > 0
    BY <1>0, <1>4 DEF DidOpen, DidChange, store, WorkspaceType
  <2> QED
    BY <1>0, <2>1, ReanalysePreserves DEF StoreType
<1>5. ASSUME NEW d \in Document, DidClose(d) PROVE IInv'
  <2>1. /\ Reanalyse /\ access_clock' = access_clock
        /\ version' = [version EXCEPT ![d] = 0]
        /\ buckets' = [buckets EXCEPT ![d] = NoBucket]
    BY <1>5 DEF DidClose, ClearUri
  <2>2. /\ version' \in [Document -> Nat] /\ buckets' \in [Document -> Bucket]
        /\ access_clock' \in Nat
    BY <1>0, <2>1, NoBucketIsGood DEF WorkspaceType, StoreType
  <2>3. ASSUME NEW e \in Document
        PROVE  /\ buckets'[e] = buckets[e] \/ buckets'[e] = NoBucket
               /\ buckets'[e].last_access <= access_clock'
               /\ buckets'[e].last_access > 0 => version'[e] > 0
    <3>1. CASE e = d
      BY <1>0, <2>1, <3>1 DEF StoreType, NoBucket
    <3>2. CASE e # d
      BY <1>0, <2>1, <3>2 DEF StoreType, WorkspaceType
    <3> QED
      BY <3>1, <3>2
  <2> QED
    BY <2>1, <2>2, <2>3, ReanalysePreserves
<1>6. ASSUME NEW d \in Document, Request(d) PROVE IInv'
  BY <1>6, DiagnosticPreserves, TokensPreserve DEF Request
<1>7. ASSUME NEW d \in Document, NEW kind \in {"diagnostics", "tokens"}, AnswerClosed(d, kind)
      PROVE  IInv'
  BY <1>7, AnswerClosedPreserves
<1> QED
  BY <1>1, <1>2, <1>3, <1>4, <1>5, <1>6, <1>7 DEF Next

\* In every reachable state the store's entries are labelled and dated as the
\* parts of the invariant say, and so is what the client holds.
THEOREM Invariance == Spec => []IInv
<1> QED
  BY InitInv, StepPreserves, PTL DEF Spec

---------------------------------------------------------------------------
(* The properties *)

\* Every variable of the store and of the client keeps its type.
THEOREM TypeCorrect == Spec => []TypeOK
<1>1. IInv => TypeOK
  BY DEF IInv, WorkspaceType, StoreInv, StoreType, ClientInv, HeldType, TypeOK
<1> QED
  BY <1>1, Invariance, PTL

\* What the store hands out as current is what the engine would compute now.
THEOREM CurrentIsFresh == Spec => []CurrentEntriesAreFresh
<1>1. IInv => CurrentEntriesAreFresh
  BY DEF IInv, StoreInv, GoodBucket, GoodEntry, CurrentEntriesAreFresh
<1> QED
  BY <1>1, Invariance, PTL

\* What a client makes of an answer, complete, edited or unchanged, is what the
\* engine computes, as long as nothing has changed since.
THEOREM ClientsAreCurrent == Spec => []AnswersAreCurrent
<1>1. IInv => AnswersAreCurrent
  BY DEF IInv, ClientInv, GoodAnswer, AnswersAreCurrent, Open
<1> QED
  BY <1>1, Invariance, PTL

\* And the client draws the engine's tokens at their places.
THEOREM ClientsDrawTheTokens == Spec => []TokensAreDrawn
<1>1. IInv => TokensAreDrawn
  <2> SUFFICES ASSUME IInv, NEW d \in Open, held[d].tokens.recent
               PROVE  Decode(held[d].tokens.content) = Drawing[result[d]]
    BY DEF TokensAreDrawn
  <2>1. held[d].tokens.content = Encoding[result[d]]
    BY DEF IInv, ClientInv, GoodAnswer, Open
  <2>2. result[d] \in Result
    BY DEF IInv, WorkspaceType, Open
  <2> QED
    BY <2>1, <2>2, DecodesWhatWasEncoded
<1> QED
  BY <1>1, Invariance, PTL

\* Closing a document leaves nothing of it in the store.
THEOREM NothingKeptWhenClosed == Spec => []ClosedKeepsNothing
<1>1. IInv => ClosedKeepsNothing
  BY DEF IInv, StoreInv
<1> QED
  BY <1>1, Invariance, PTL

---------------------------------------------------------------------------
(* The bounds of the store *)

Distinct(history) ==
  \A i, j \in DOMAIN history : history[i].result_id = history[j].result_id => i = j

\* The access stamps tell the buckets apart, and a bucket without one is empty.
Stamped(bs) ==
  /\ IsFiniteSet(Present(bs))
  /\ \A d, e \in Present(bs) : bs[d].last_access = bs[e].last_access => d = e
  /\ \A d \in Document : bs[d].last_access = 0 => bs[d] = NoBucket

Histories(bs) ==
  \A d \in Document : /\ Len(bs[d].semantic_tokens) <= MaxHistory
                      /\ Distinct(bs[d].semantic_tokens)

Bounded ==
  /\ Stamped(buckets)
  /\ Cardinality(Present(buckets)) <= MaxBuckets
  /\ Histories(buckets)

LEMMA NoBucketIsBounded ==
  /\ NoBucket.last_access = 0
  /\ Len(NoBucket.semantic_tokens) <= MaxHistory
  /\ Distinct(NoBucket.semantic_tokens)
BY StoreAssumption DEF NoBucket, Distinct

LEMMA BoundedInit == Init => Bounded
<1> SUFFICES ASSUME Init PROVE Bounded
  OBVIOUS
<1>1. \A d \in Document : buckets[d] = NoBucket
  BY DEF Init
<1>2. Present(buckets) = {}
  BY <1>1, NoBucketIsBounded DEF Present
<1> QED
  BY <1>1, <1>2, NoBucketIsBounded, FS_EmptySet, StoreAssumption DEF Bounded, Stamped, Histories

\* A history stays within its bound, has every id once, and has the new entry.
LEMMA RememberBounds ==
  ASSUME NEW S, NEW history \in Seq(S), NEW entry \in S,
         Len(history) <= MaxHistory, Distinct(history)
  PROVE  /\ Len(Remember(history, entry)) <= MaxHistory
         /\ Distinct(Remember(history, entry))
         /\ \E i \in DOMAIN Remember(history, entry) :
              Remember(history, entry)[i].result_id = entry.result_id
<1> DEFINE same == {i \in DOMAIN history : history[i].result_id = entry.result_id}
           replaced == [i \in DOMAIN history |-> IF i \in same THEN entry ELSE history[i]]
           longer == Append(history, entry)
<1>1. /\ Len(history) \in Nat /\ DOMAIN history = 1..Len(history)
      /\ MaxHistory \in Nat /\ MaxHistory > 0
  BY StoreAssumption
<1>2. /\ longer \in Seq(S) /\ Len(longer) = Len(history) + 1
      /\ \A i \in 1..Len(history) : longer[i] = history[i]
      /\ longer[Len(history) + 1] = entry
  BY AppendProperties
<1>3. CASE same # {}
  <2>1. Remember(history, entry) = replaced
    BY <1>3 DEF Remember
  <2>2. /\ DOMAIN replaced = DOMAIN history /\ Len(replaced) = Len(history)
        /\ \A i \in DOMAIN history : replaced[i].result_id = history[i].result_id
    BY <1>1
  <2> HIDE DEF replaced
  <2>3. Distinct(replaced)
    BY <2>2 DEF Distinct
  <2>4. \E i \in DOMAIN replaced : replaced[i].result_id = entry.result_id
    BY <1>3, <2>2
  <2>5. Len(replaced) <= MaxHistory
    BY <2>2
  <2> QED
    BY <2>1, <2>3, <2>4, <2>5
<1>4. CASE same = {}
  <2> HIDE DEF longer
  <2>1. /\ DOMAIN longer = 1..(Len(history) + 1)
        /\ \A i \in 1..Len(history) : longer[i].result_id # entry.result_id
    BY <1>1, <1>2, <1>4
  <2>2. Distinct(longer)
    <3> SUFFICES ASSUME NEW i \in DOMAIN longer, NEW j \in DOMAIN longer,
                        longer[i].result_id = longer[j].result_id
                 PROVE  i = j
      BY DEF Distinct
    <3>1. CASE i \in 1..Len(history) /\ j \in 1..Len(history)
      BY <1>1, <1>2, <3>1 DEF Distinct
    <3>2. CASE i = Len(history) + 1 \/ j = Len(history) + 1
      BY <1>1, <1>2, <2>1, <3>2
    <3> QED
      BY <1>1, <2>1, <3>1, <3>2
  <2>3. CASE Len(history) < MaxHistory
    <3>1. Remember(history, entry) = longer
      BY <1>4, <2>3 DEF Remember, longer
    <3>2. Len(longer) <= MaxHistory
      BY <1>1, <1>2, <2>3
    <3>3. Len(history) + 1 \in DOMAIN longer /\ longer[Len(history) + 1].result_id = entry.result_id
      BY <1>1, <1>2, <2>1
    <3> QED
      BY <2>2, <3>1, <3>2, <3>3
  <2>4. CASE ~(Len(history) < MaxHistory)
    <3>1. Remember(history, entry) = Tail(longer)
      BY <1>4, <2>4 DEF Remember, DropOldest, longer
    <3>2. longer # <<>>
      BY <1>1, <1>2
    <3> DEFINE rest == Tail(longer)
    <3>3. /\ rest \in Seq(S) /\ Len(rest) = Len(longer) - 1
          /\ \A i \in 1..Len(rest) : rest[i] = longer[i + 1]
      BY <1>2, <3>2, HeadTailProperties
    <3> HIDE DEF rest
    <3>4. DOMAIN rest = 1..Len(history) /\ Len(history) = MaxHistory /\ Len(rest) = MaxHistory
      <4>1. Len(history) = MaxHistory
        <5>1. \A a, b \in Nat : a <= b /\ ~(a < b) => a = b
          OBVIOUS
        <5> QED
          BY <1>1, <2>4, <5>1
      <4>2. Len(rest) = Len(history)
        BY <1>1, <1>2, <3>3
      <4>3. DOMAIN rest = 1..Len(rest)
        BY <3>3
      <4> QED
        BY <4>1, <4>2, <4>3
    <3>5. Distinct(rest)
      <4> SUFFICES ASSUME NEW i \in DOMAIN rest, NEW j \in DOMAIN rest,
                          rest[i].result_id = rest[j].result_id
                   PROVE  i = j
        BY DEF Distinct
      <4>1. /\ i + 1 \in DOMAIN longer /\ j + 1 \in DOMAIN longer
            /\ rest[i] = longer[i + 1] /\ rest[j] = longer[j + 1]
        BY <1>1, <2>1, <3>3, <3>4
      <4>2. i + 1 = j + 1
        BY <2>2, <4>1 DEF Distinct
      <4> QED
        BY <3>4, <4>2
    <3>6. MaxHistory \in DOMAIN rest /\ rest[MaxHistory] = entry
      <4>1. MaxHistory \in 1..Len(rest) /\ MaxHistory \in DOMAIN rest
        BY <1>1, <3>4
      <4>2. rest[MaxHistory] = longer[Len(history) + 1]
        BY <3>3, <3>4, <4>1
      <4> QED
        BY <1>2, <4>1, <4>2
    <3>7. Len(rest) <= MaxHistory
      BY <1>1, <3>4
    <3> QED
      BY <3>1, <3>5, <3>6, <3>7 DEF rest
  <2> QED
    BY <2>3, <2>4
<1> QED
  BY <1>3, <1>4

\* Buckets that disappear break no bound.
LEMMA FewerBuckets ==
  ASSUME Bounded, \A d \in Document : buckets'[d] = buckets[d] \/ buckets'[d] = NoBucket
  PROVE  Bounded'
<1>1. Present(buckets') \in SUBSET Present(buckets)
  BY NoBucketIsBounded DEF Present
<1>2. \A d \in Present(buckets') : buckets'[d] = buckets[d]
  BY NoBucketIsBounded DEF Present
<1>3. IsFiniteSet(Present(buckets)) /\ Cardinality(Present(buckets)) <= MaxBuckets
  BY DEF Bounded, Stamped
<1>4. /\ IsFiniteSet(Present(buckets'))
      /\ Cardinality(Present(buckets')) <= Cardinality(Present(buckets))
  BY <1>1, <1>3, FS_Subset
<1>5. Cardinality(Present(buckets')) <= MaxBuckets
  <2>1. Cardinality(Present(buckets)) \in Nat /\ Cardinality(Present(buckets')) \in Nat
    BY <1>3, <1>4, FS_CardinalityType
  <2> QED
    BY <1>3, <1>4, <2>1, StoreAssumption
<1>6. Stamped(buckets')
  BY <1>1, <1>2, <1>4 DEF Bounded, Stamped
<1>7. Histories(buckets')
  BY NoBucketIsBounded DEF Bounded, Histories
<1> QED
  BY <1>5, <1>6, <1>7 DEF Bounded

\* A bucket with a new stamp: the stamps still tell the buckets apart, at most
\* one bucket is new, and none is more recent.
LEMMA NewStamp ==
  ASSUME StoreType, Bounded, NEW d \in Document, NEW bucket \in Bucket,
         Len(bucket.semantic_tokens) <= MaxHistory, Distinct(bucket.semantic_tokens)
  PROVE  LET filled == [buckets EXCEPT ![d] = Touched(bucket)]
         IN  /\ filled \in [Document -> Bucket]
             /\ Present(filled) = Present(buckets) \cup {d}
             /\ Stamped(filled)
             /\ Histories(filled)
             /\ \A e \in Document : ~(filled[e].last_access > filled[d].last_access)
<1> DEFINE filled == [buckets EXCEPT ![d] = Touched(bucket)]
<1>1. /\ access_clock \in Nat /\ buckets \in [Document -> Bucket]
      /\ \A e \in Document : buckets[e].last_access \in Nat
                             /\ buckets[e].last_access <= access_clock
  BY DEF StoreType, Bucket
<1>2. /\ Touched(bucket) \in Bucket
      /\ Touched(bucket).last_access = access_clock + 1
      /\ Touched(bucket).semantic_tokens = bucket.semantic_tokens
  <2>1. access_clock + 1 \in Nat
    BY <1>1
  <2> QED
    BY <2>1 DEF Touched, Bucket
<1>3. /\ filled \in [Document -> Bucket]
      /\ filled[d] = Touched(bucket)
      /\ \A e \in Document \ {d} : filled[e] = buckets[e]
  BY <1>1, <1>2
<1> HIDE DEF filled
<1>4. \A e \in Document : ~(filled[e].last_access > filled[d].last_access)
  BY <1>1, <1>2, <1>3
<1>5. Present(filled) = Present(buckets) \cup {d}
  BY <1>1, <1>2, <1>3 DEF Present
<1>6. Stamped(filled)
  <2>1. IsFiniteSet(Present(filled))
    BY <1>5, FS_AddElement DEF Bounded, Stamped
  <2>2. ASSUME NEW e \in Present(filled), NEW f \in Present(filled),
               filled[e].last_access = filled[f].last_access
        PROVE  e = f
    <3>1. CASE e # d /\ f # d
      BY <1>3, <1>5, <2>2, <3>1 DEF Bounded, Stamped, Present
    <3>2. CASE e = d \/ f = d
      BY <1>1, <1>2, <1>3, <2>2, <3>2 DEF Present
    <3> QED
      BY <3>1, <3>2
  <2>3. ASSUME NEW e \in Document, filled[e].last_access = 0 PROVE filled[e] = NoBucket
    BY <1>1, <1>2, <1>3, <2>3 DEF Bounded, Stamped
  <2> QED
    BY <2>1, <2>2, <2>3 DEF Stamped
<1>7. Histories(filled)
  BY <1>2, <1>3 DEF Bounded, Histories
<1> QED
  BY <1>3, <1>4, <1>5, <1>6, <1>7 DEF filled

\* Eviction: of the buckets it leaves, the least recent has all others before it.
LEMMA EvictionFits ==
  ASSUME NEW bs \in [Document -> Bucket], Stamped(bs), Histories(bs)
  PROVE  /\ Stamped(Evict(bs)) /\ Histories(Evict(bs))
         /\ Cardinality(Present(Evict(bs))) <= MaxBuckets
<1> DEFINE kept == Evict(bs)
           P == Present(kept)
<1>1. \A d \in Document : kept[d] = IF Fits(bs, d) THEN bs[d] ELSE NoBucket
  BY DEF Evict
<1>2. /\ P \in SUBSET Present(bs) /\ P \in SUBSET Document
      /\ \A d \in P : Fits(bs, d) /\ kept[d] = bs[d]
  BY <1>1, NoBucketIsBounded DEF Present
<1>3. IsFiniteSet(Present(bs)) /\ IsFiniteSet(P)
  BY <1>2, FS_Subset DEF Stamped
<1>4. Stamped(kept)
  BY <1>1, <1>2, <1>3 DEF Stamped
<1>5. Histories(kept)
  BY <1>1, NoBucketIsBounded DEF Histories
<1>6. Cardinality(P) <= MaxBuckets
  <2>1. CASE P = {}
    BY <2>1, FS_EmptySet, StoreAssumption
  <2>2. CASE P # {}
    <3> DEFINE stamps == {bs[d].last_access : d \in P}
    <3>1. stamps \in SUBSET Nat /\ stamps # {}
      BY <1>2, <2>2 DEF Bucket
    <3>2. PICK m \in stamps : \A k \in stamps : m =< k
      BY <3>1, LeastExists
    <3>3. PICK x \in P : bs[x].last_access = m
      OBVIOUS
    <3> DEFINE G == {e \in Document : bs[e].last_access > bs[x].last_access}
    <3>4. P \ {x} \in SUBSET G
      <4> SUFFICES ASSUME NEW e \in P \ {x} PROVE e \in G
        OBVIOUS
      <4>1. bs[x].last_access =< bs[e].last_access
        BY <3>2, <3>3
      <4>2. bs[x].last_access # bs[e].last_access
        BY <1>2 DEF Stamped
      <4>3. bs[x].last_access \in Nat /\ bs[e].last_access \in Nat
        BY <1>2 DEF Bucket
      <4> QED
        BY <1>2, <4>1, <4>2, <4>3
    <3>5. G \in SUBSET Present(bs)
      BY <1>2 DEF Present, Bucket
    <3>6. IsFiniteSet(G) /\ Cardinality(G) < MaxBuckets
      BY <1>2, <1>3, <3>5, FS_Subset DEF Fits
    <3>7. /\ Cardinality(P \ {x}) <= Cardinality(G)
          /\ Cardinality(P \ {x}) = Cardinality(P) - 1
      BY <1>3, <3>4, <3>6, FS_Subset, FS_RemoveElement
    <3>8. /\ Cardinality(P) \in Nat /\ Cardinality(G) \in Nat
          /\ MaxBuckets \in Nat
      BY <1>3, <3>6, FS_CardinalityType, StoreAssumption
    <3> QED
      BY <3>6, <3>7, <3>8
  <2> QED
    BY <2>1, <2>2
<1> QED
  BY <1>4, <1>5, <1>6

\* An insertion keeps the bounds, and keeps what it inserts.
LEMMA InsertionFits ==
  ASSUME StoreType, Bounded, NEW d \in Document, NEW bucket \in Bucket,
         Len(bucket.semantic_tokens) <= MaxHistory, Distinct(bucket.semantic_tokens),
         StoreBucket(d, bucket)
  PROVE  Bounded' /\ buckets'[d] = Touched(bucket)
<1> DEFINE filled == [buckets EXCEPT ![d] = Touched(bucket)]
<1>1. buckets' = Evict(filled) /\ filled[d] = Touched(bucket)
  BY DEF StoreBucket, StoreType
<1>2. /\ filled \in [Document -> Bucket] /\ Stamped(filled) /\ Histories(filled)
      /\ \A e \in Document : ~(filled[e].last_access > filled[d].last_access)
  BY NewStamp
<1> HIDE DEF filled
<1>3. Stamped(buckets') /\ Histories(buckets') /\ Cardinality(Present(buckets')) <= MaxBuckets
  BY <1>1, <1>2, EvictionFits
<1>4. Fits(filled, d)
  <2> DEFINE G == {e \in Document : filled[e].last_access > filled[d].last_access}
  <2>1. G = {}
    BY <1>2
  <2>2. Fits(filled, d) <=> Cardinality(G) < MaxBuckets
    BY DEF Fits
  <2> HIDE DEF G
  <2>3. Cardinality(G) < MaxBuckets
    BY <2>1, FS_EmptySet, StoreAssumption
  <2> QED
    BY <2>2, <2>3
<1>5. buckets'[d] = filled[d]
  BY <1>1, <1>4 DEF Evict
<1> QED
  BY <1>1, <1>3, <1>5 DEF Bounded

\* A hit on a bucket that has something keeps the bounds.
LEMMA HitFits ==
  ASSUME StoreType, Bounded, NEW d \in Document, buckets[d] # NoBucket,
         buckets' = [buckets EXCEPT ![d] = Touched(buckets[d])]
  PROVE  Bounded'
<1>1. /\ buckets[d] \in Bucket
      /\ Len(buckets[d].semantic_tokens) <= MaxHistory
      /\ Distinct(buckets[d].semantic_tokens)
  BY DEF StoreType, Bounded, Histories
<1>2. /\ Present(buckets') = Present(buckets) \cup {d}
      /\ Stamped(buckets') /\ Histories(buckets')
  BY <1>1, NewStamp
<1>3. d \in Present(buckets)
  BY <1>1 DEF Bounded, Stamped, Present, Bucket
<1>4. Present(buckets') = Present(buckets)
  BY <1>2, <1>3
<1> QED
  BY <1>2, <1>4 DEF Bounded

\* What a request for tokens leaves in the bucket: the answer's entry is there.
LEMMA TokensFit ==
  ASSUME IInv, Bounded, NEW d \in Document, NEW told \in BOOLEAN,
         NEW with_previous_id \in BOOLEAN, SemanticTokens(d, with_previous_id, told)
  PROVE  /\ Bounded'
         /\ held'[d] # held[d] =>
              \E i \in DOMAIN buckets'[d].semantic_tokens :
                buckets'[d].semantic_tokens[i].result_id = held'[d].tokens.id
<1> DEFINE history == buckets[d].semantic_tokens
           newest == history[NewestCurrent(d, history)]
           longer == Remember(history, FreshTokens(d))
           filled == [buckets[d] EXCEPT !.semantic_tokens = longer]
<1>1. /\ StoreType /\ HeldType /\ buckets[d] \in Bucket
      /\ history \in Seq(Entry(Encodings))
      /\ Len(history) <= MaxHistory /\ Distinct(history)
      /\ version[d] \in Nat /\ generation \in Nat /\ result[d] \in Result
  BY DEF IInv, StoreInv, StoreType, ClientInv, Bucket, Bounded, Histories, WorkspaceType
<1>2. ASSUME NEW entry, IF told THEN Answer(d, entry, with_previous_id) ELSE UNCHANGED held,
             held'[d] # held[d]
      PROVE  held'[d].tokens.id = entry.result_id
  <2>1. told
    BY <1>2
  <2>2. PICK content : Hold(d, "tokens", entry, content)
    BY <1>2, <2>1 DEF Answer
  <2> DEFINE answer == [id |-> entry.result_id, content |-> content, recent |-> TRUE]
  <2>3. held' = [held EXCEPT ![d] = [diagnostics |-> held[d].diagnostics, tokens |-> answer]]
    BY <1>1, <2>2, HoldRecords
  <2> QED
    BY <1>1, <2>3 DEF HeldType
<1>3. CASE /\ HasCurrent(d, history)
           /\ buckets' = [buckets EXCEPT ![d] = TouchHit(@)]
           /\ IF told THEN Answer(d, newest, with_previous_id) ELSE UNCHANGED held
  <2>1. NewestCurrent(d, history) \in DOMAIN history
    BY <1>1, <1>3, NewestCurrentFinds
  <2>2. buckets[d] # NoBucket
    BY <2>1 DEF NoBucket
  <2>3. buckets' = [buckets EXCEPT ![d] = Touched(buckets[d])]
    BY <1>3 DEF TouchHit
  <2>4. Bounded'
    BY <1>1, <2>2, <2>3, HitFits
  <2>5. buckets'[d].semantic_tokens = history
    BY <1>1, <2>3 DEF StoreType, Touched, Bucket
  <2>6. held'[d] # held[d] => held'[d].tokens.id = newest.result_id
    BY <1>2, <1>3
  <2> QED
    BY <2>1, <2>4, <2>5, <2>6
<1>4. CASE /\ StoreBucket(d, filled)
           /\ IF told THEN Answer(d, FreshTokens(d), with_previous_id) ELSE UNCHANGED held
  <2>1. FreshTokens(d) \in Entry(Encodings)
    BY <1>1, EncodingIsSeq DEF FreshTokens, TokenId, Entry, Id
  <2>2. /\ longer \in Seq(Entry(Encodings))
        /\ Len(longer) <= MaxHistory /\ Distinct(longer)
        /\ \E i \in DOMAIN longer : longer[i].result_id = FreshTokens(d).result_id
    <3> HIDE DEF history
    <3>1. longer \in Seq(Entry(Encodings))
      BY <1>1, <2>1, RememberKeeps
    <3>2. /\ Len(longer) <= MaxHistory /\ Distinct(longer)
          /\ \E i \in DOMAIN longer : longer[i].result_id = FreshTokens(d).result_id
      BY <1>1, <2>1, RememberBounds
    <3> QED
      BY <3>1, <3>2
  <2> HIDE DEF longer
  <2>3. filled \in Bucket /\ filled.semantic_tokens = longer
    BY <1>1, <2>2 DEF Bucket
  <2> HIDE DEF filled
  <2>4. Bounded' /\ buckets'[d] = Touched(filled)
    BY <1>1, <1>4, <2>2, <2>3, InsertionFits
  <2>5. buckets'[d].semantic_tokens = longer
    BY <2>3, <2>4 DEF Touched, Bucket
  <2>6. held'[d] # held[d] => held'[d].tokens.id = FreshTokens(d).result_id
    BY <1>2, <1>4
  <2> QED
    BY <2>2, <2>4, <2>5, <2>6
<1> QED
  BY <1>3, <1>4 DEF SemanticTokens

LEMMA DiagnosticFits ==
  ASSUME IInv, Bounded, NEW d \in Document, NEW told \in BOOLEAN, DocumentDiagnostic(d, told)
  PROVE  Bounded' /\ held'[d].tokens = held[d].tokens
<1> DEFINE cached == buckets[d].diagnostics
           filled == [buckets[d] EXCEPT !.diagnostics = <<FreshDiagnostics(d)>>]
<1>1. /\ StoreType /\ HeldType /\ buckets[d] \in Bucket
      /\ Len(buckets[d].semantic_tokens) <= MaxHistory
      /\ Distinct(buckets[d].semantic_tokens)
      /\ version[d] \in Nat /\ generation \in Nat /\ result[d] \in Result
  BY DEF IInv, StoreInv, StoreType, ClientInv, Bounded, Histories, WorkspaceType
<1>2. ASSUME NEW entry, IF told THEN Pull(d, entry) ELSE UNCHANGED held
      PROVE  held'[d].tokens = held[d].tokens
  <2>1. CASE told
    <3>1. PICK content : Hold(d, "diagnostics", entry, content)
      BY <1>2, <2>1 DEF Pull
    <3> DEFINE answer == [id |-> entry.result_id, content |-> content, recent |-> TRUE]
    <3>2. held' = [held EXCEPT ![d] = [diagnostics |-> answer, tokens |-> held[d].tokens]]
      BY <1>1, <3>1, HoldRecords
    <3> QED
      BY <1>1, <3>2 DEF HeldType
  <2> QED
    BY <1>2, <2>1
<1>3. CASE /\ HasCurrent(d, cached)
           /\ buckets' = [buckets EXCEPT ![d] = TouchHit(@)]
           /\ IF told THEN Pull(d, cached[1]) ELSE UNCHANGED held
  <2>1. buckets[d] # NoBucket
    BY <1>3 DEF HasCurrent, Range, NoBucket
  <2>2. buckets' = [buckets EXCEPT ![d] = Touched(buckets[d])]
    BY <1>3 DEF TouchHit
  <2> QED
    BY <1>1, <1>2, <1>3, <2>1, <2>2, HitFits
<1>4. CASE /\ StoreBucket(d, filled)
           /\ IF told THEN Pull(d, FreshDiagnostics(d)) ELSE UNCHANGED held
  <2>1. FreshDiagnostics(d) \in Entry(Items)
    BY <1>1 DEF FreshDiagnostics, DiagnosticId, Entry, Id, Items
  <2>2. <<FreshDiagnostics(d)>> \in Seq(Entry(Items))
    BY <2>1
  <2>3. filled \in Bucket /\ filled.semantic_tokens = buckets[d].semantic_tokens
    BY <1>1, <2>2 DEF Bucket
  <2> HIDE DEF filled
  <2>4. Bounded'
    BY <1>1, <1>4, <2>3, InsertionFits
  <2> QED
    BY <1>2, <1>4, <2>4
<1> QED
  BY <1>3, <1>4 DEF DocumentDiagnostic

LEMMA IndexOfIdComplete ==
  ASSUME NEW S, NEW history \in Seq(S), NEW i \in DOMAIN history
  PROVE  IndexOfId(history, history[i].result_id) # 0
<1> DEFINE id == history[i].result_id
           I == {j \in 1..Len(history) : history[j].result_id = id}
<1>1. IndexOfId(history, id) = IF I # {} THEN Min(I) ELSE 0
  BY DEF IndexOfId, SelectInSeq
<1>2. I \in SUBSET Nat /\ I # {}
  OBVIOUS
<1>3. Min(I) \in I
  BY <1>2, MinOfNumbers
<1> QED
  BY <1>1, <1>2, <1>3

\* The two facts about a step that the theorems below need.
LEMMA StepFits ==
  ASSUME IInv, Bounded, Next
  PROVE  /\ Bounded'
         /\ \A d \in Open : "tokens" \in Answered(d) =>
              IndexOfId(buckets'[d].semantic_tokens, held'[d].tokens.id) # 0
<1>1. HeldType /\ StoreType
  BY DEF IInv, ClientInv, StoreInv
<1>2. CASE Reanalyse /\ \A d \in Document : buckets'[d] = buckets[d] \/ buckets'[d] = NoBucket
  <2>1. Bounded'
    BY <1>2, FewerBuckets
  <2>2. ASSUME NEW d \in Open PROVE "tokens" \notin Answered(d)
    <3>1. d \in Document
      BY DEF Open
    <3>2. held'[d].tokens = Outdated(held[d].tokens)
      BY <1>2, <3>1 DEF Reanalyse
    <3> QED
      BY <1>1, <3>1, <3>2 DEF HeldType, Held, Outdated, Answered
  <2> QED
    BY <2>1, <2>2
<1>3. CASE \E d \in Document, kind \in {"diagnostics", "tokens"} : AnswerClosed(d, kind)
  <2>1. PICK d \in Document, kind \in {"diagnostics", "tokens"} : AnswerClosed(d, kind)
    BY <1>3
  <2>2. Bounded'
    BY <2>1, FewerBuckets DEF AnswerClosed, store
  <2>3. \A e \in Open : held'[e] = held[e]
    BY <1>1, <2>1 DEF AnswerClosed, HeldType, Open
  <2> QED
    BY <2>2, <2>3 DEF Answered
<1>4. CASE \E d \in Document : Request(d)
  <2>1. PICK d \in Document, told \in BOOLEAN :
          \/ DocumentDiagnostic(d, told)
          \/ \E with_previous_id \in BOOLEAN : SemanticTokens(d, with_previous_id, told)
    BY <1>4 DEF Request
  <2>2. \A e \in Document \ {d} : held'[e] = held[e]
    BY <1>1, <2>1
       DEF DocumentDiagnostic, SemanticTokens, Pull, Answer, Hold, HeldType
  <2>3. CASE DocumentDiagnostic(d, told)
    <3>1. Bounded' /\ held'[d].tokens = held[d].tokens
      BY <2>3, DiagnosticFits
    <3>2. \A e \in Open : "tokens" \notin Answered(e)
      BY <2>2, <3>1 DEF Answered, Open
    <3> QED
      BY <3>1, <3>2
  <2>4. CASE \E with_previous_id \in BOOLEAN : SemanticTokens(d, with_previous_id, told)
    <3>1. /\ Bounded'
          /\ held'[d] # held[d] =>
               \E i \in DOMAIN buckets'[d].semantic_tokens :
                 buckets'[d].semantic_tokens[i].result_id = held'[d].tokens.id
      BY <2>4, TokensFit
    <3>2. IInv'
      BY <2>4, TokensPreserve
    <3>3. buckets'[d].semantic_tokens \in Seq(Entry(Encodings))
      BY <3>2 DEF IInv, StoreInv, StoreType, Bucket
    <3>4. held'[d] # held[d] =>
            IndexOfId(buckets'[d].semantic_tokens, held'[d].tokens.id) # 0
      BY <3>1, <3>3, IndexOfIdComplete
    <3>5. ASSUME NEW e \in Open, "tokens" \in Answered(e)
          PROVE  e = d /\ held'[e] # held[e]
      BY <2>2, <3>5 DEF Answered, Open
    <3> QED
      BY <3>1, <3>4, <3>5
  <2> QED
    BY <2>1, <2>3, <2>4
<1>5. Next => \/ Reanalyse /\ \A d \in Document : buckets'[d] = buckets[d] \/ buckets'[d] = NoBucket
              \/ \E d \in Document, kind \in {"diagnostics", "tokens"} : AnswerClosed(d, kind)
              \/ \E d \in Document : Request(d)
  BY <1>1 DEF Next, UpdateUnderVersion, Initialize, DidOpen, DidChange, DidClose, ClearUri,
              store, StoreType
<1> QED
  BY <1>2, <1>3, <1>4, <1>5

\* The store stays within its bounds, and no history has an id twice.
THEOREM StoreStaysBounded == Spec => []StoreIsBounded
<1>1. IInv /\ Bounded /\ [Next]_vars => Bounded'
  <2>1. ASSUME IInv, Bounded, Next PROVE Bounded'
    BY <2>1, StepFits
  <2>2. ASSUME Bounded, UNCHANGED vars PROVE Bounded'
    BY <2>2, FewerBuckets DEF vars, store
  <2> QED
    BY <2>1, <2>2
<1>2. Bounded => StoreIsBounded
  BY DEF Bounded, Histories, Distinct, StoreIsBounded
<1> QED
  BY <1>1, <1>2, BoundedInit, Invariance, PTL DEF Spec

\* A result id that is handed out can be looked up when it is: neither the
\* history's bound nor the eviction of buckets takes what was just inserted.
THEOREM HandedOutIsKept == Spec => AnswerIsKept
<1> DEFINE Kept == \A d \in Open : "tokens" \in Answered(d) =>
                     IndexOfId(buckets'[d].semantic_tokens, held'[d].tokens.id) # 0
<1>1. IInv /\ Bounded /\ [Next]_vars => Bounded' /\ [Kept]_vars
  <2>1. ASSUME IInv, Bounded, Next PROVE Bounded' /\ Kept
    BY <2>1, StepFits
  <2>2. ASSUME Bounded, UNCHANGED vars PROVE Bounded'
    BY <2>2, FewerBuckets DEF vars, store
  <2> QED
    BY <2>1, <2>2
<1> QED
  BY <1>1, BoundedInit, Invariance, PTL DEF Spec, AnswerIsKept

---------------------------------------------------------------------------
(* The store is a least recently used one *)

\* A bucket with a new stamp is the foremost one.
LEMMA StampedIsForemost ==
  ASSUME StoreType, Bounded, NEW d \in Document, NEW bucket \in Bucket
  PROVE  RecencyOf([buckets EXCEPT ![d] = Touched(bucket)]) = LRU!Foremost(d)
<1> DEFINE filled == [buckets EXCEPT ![d] = Touched(bucket)]
           P == Present(buckets)
<1>1. /\ access_clock \in Nat
      /\ \A e \in Document : buckets[e].last_access \in Nat
                             /\ buckets[e].last_access <= access_clock
  BY DEF StoreType, Bucket
<1>2. /\ filled[d].last_access = access_clock + 1
      /\ \A e \in Document \ {d} : filled[e] = buckets[e]
  BY DEF StoreType, Touched, Bucket
<1> HIDE DEF filled
<1>3. Present(filled) = P \cup {d} /\ P \in SUBSET Document
  BY <1>1, <1>2 DEF Present
<1>4. LRU!Kept = P
  BY <1>1 DEF LRU!Kept, Recency, RecencyOf, Present
<1>5. ASSUME NEW e, NEW f
      PROVE  <<e, f>> \in RecencyOf(filled) <=> <<e, f>> \in LRU!Foremost(d)
  <2>1. <<e, f>> \in RecencyOf(filled) <=>
          /\ e \in P \cup {d} /\ f \in P \cup {d}
          /\ filled[e].last_access >= filled[f].last_access
    BY <1>3 DEF RecencyOf
  <2>2. <<e, f>> \in LRU!Without(d) <=>
          /\ e \in P /\ f \in P /\ e # d /\ f # d
          /\ buckets[e].last_access >= buckets[f].last_access
    BY DEF LRU!Without, Recency, RecencyOf
  <2>3. <<e, f>> \in LRU!Foremost(d) <=>
          \/ <<e, f>> \in LRU!Without(d)
          \/ e = d /\ f \in P \cup {d}
    BY <1>4 DEF LRU!Foremost
  <2>4. CASE e \in P \cup {d} /\ f \in P \cup {d} /\ e # d /\ f # d
    BY <1>2, <1>3, <2>1, <2>2, <2>3, <2>4
  <2>5. CASE e = d /\ f \in P \cup {d}
    <3>1. filled[e].last_access >= filled[f].last_access
      BY <1>1, <1>2, <1>3, <2>5
    <3> QED
      BY <2>1, <2>3, <2>5, <3>1
  <2>6. CASE e \in P /\ e # d /\ f = d
    <3>1. ~(filled[e].last_access >= filled[f].last_access)
      BY <1>1, <1>2, <1>3, <2>6
    <3> QED
      BY <2>1, <2>2, <2>3, <2>6, <3>1
  <2> QED
    BY <2>1, <2>2, <2>3, <2>4, <2>5, <2>6
<1>6. /\ \A p \in RecencyOf(filled) : \E e, f : p = <<e, f>>
      /\ \A p \in LRU!Foremost(d) : \E e, f : p = <<e, f>>
  BY DEF RecencyOf, LRU!Foremost, LRU!Without, Recency
<1>7. RecencyOf(filled) = LRU!Foremost(d)
  BY <1>5, <1>6
<1> QED
  BY <1>7 DEF filled

LEMMA SameCardinality == \A S : LRU!Cardinality(S) = Cardinality(S)
BY DEF LRU!Cardinality, Cardinality, LRU!IsFiniteSet, IsFiniteSet

\* Among the documents that have one, the stamps put the same ahead.
LEMMA AheadByStamp ==
  ASSUME NEW bs \in [Document -> Bucket], Stamped(bs), NEW e \in Present(bs)
  PROVE  e \in LRU!First(RecencyOf(bs)) <=> Fits(bs, e)
<1> DEFINE G == {f \in Document : bs[f].last_access > bs[e].last_access}
           A == LRU!Ahead(RecencyOf(bs), e)
<1>1. e \in Document /\ bs[e].last_access \in Nat /\ bs[e].last_access > 0
  BY DEF Present, Bucket
<1>2. ASSUME NEW f \in Document PROVE f \in A <=> f \in G
  <2>1. f \in A <=> /\ f # e /\ f \in Present(bs)
                    /\ bs[f].last_access >= bs[e].last_access
    BY <1>1 DEF LRU!Ahead, RecencyOf
  <2>2. bs[f].last_access \in Nat
    BY DEF Bucket
  <2>3. f \in Present(bs) /\ f # e => bs[f].last_access # bs[e].last_access
    BY DEF Stamped
  <2> QED
    BY <1>1, <2>1, <2>2, <2>3 DEF Present
<1>3. A = G
  <2>1. A \in SUBSET Document
    BY DEF LRU!Ahead
  <2> QED
    BY <1>2, <2>1
<1> QED
  BY <1>1, <1>3, SameCardinality DEF LRU!First, Fits

\* An eviction leaves the documents that come first.
LEMMA EvictionIsFirst ==
  ASSUME NEW bs \in [Document -> Bucket], Stamped(bs)
  PROVE  RecencyOf(Evict(bs)) =
           RecencyOf(bs) \cap (LRU!First(RecencyOf(bs)) \X LRU!First(RecencyOf(bs)))
<1> DEFINE F == LRU!First(RecencyOf(bs))
           kept == Evict(bs)
<1>1. \A e \in Document : kept[e] = IF Fits(bs, e) THEN bs[e] ELSE NoBucket
  BY DEF Evict
<1> HIDE DEF kept
<1>2. \A e \in Present(bs) : e \in F <=> Fits(bs, e)
  BY AheadByStamp
<1>3. \A e \in Document :
        /\ e \in Present(kept) <=> e \in Present(bs) /\ e \in F
        /\ e \in Present(kept) => kept[e] = bs[e]
  BY <1>1, <1>2, NoBucketIsBounded DEF Present
<1>4. Present(kept) \in SUBSET Document /\ Present(bs) \in SUBSET Document
  BY DEF Present
<1> HIDE DEF F
<1>5. ASSUME NEW e, NEW f
      PROVE  <<e, f>> \in RecencyOf(kept) <=> <<e, f>> \in RecencyOf(bs) /\ e \in F /\ f \in F
  BY <1>3, <1>4 DEF RecencyOf
<1>6. RecencyOf(kept) = RecencyOf(bs) \cap (F \X F)
  <2>1. \A p \in RecencyOf(kept) : \E e, f : p = <<e, f>>
    BY DEF RecencyOf
  <2> QED
    BY <1>5, <2>1
<1> QED
  BY <1>6 DEF F, kept

LEMMA InsertionIsUse ==
  ASSUME StoreType, Bounded, NEW d \in Document, NEW bucket \in Bucket,
         Len(bucket.semantic_tokens) <= MaxHistory, Distinct(bucket.semantic_tokens),
         StoreBucket(d, bucket)
  PROVE  LRU!Use(d)
<1> DEFINE filled == [buckets EXCEPT ![d] = Touched(bucket)]
<1>1. buckets' = Evict(filled)
  BY DEF StoreBucket
<1>2. filled \in [Document -> Bucket] /\ Stamped(filled)
  BY NewStamp
<1>3. RecencyOf(filled) = LRU!Foremost(d)
  BY StampedIsForemost
<1> HIDE DEF filled
<1>4. RecencyOf(Evict(filled)) =
        LRU!Foremost(d) \cap (LRU!First(LRU!Foremost(d)) \X LRU!First(LRU!Foremost(d)))
  BY <1>2, <1>3, EvictionIsFirst
<1> QED
  BY <1>1, <1>4 DEF Recency, LRU!Use

\* A hit pushes nothing out: fewer than all the buckets are ahead of any.
LEMMA HitIsUse ==
  ASSUME StoreType, Bounded, NEW d \in Document, buckets[d] # NoBucket,
         buckets' = [buckets EXCEPT ![d] = Touched(buckets[d])]
  PROVE  LRU!Use(d)
<1> DEFINE order == LRU!Foremost(d)
           P == Present(buckets')
<1>1. buckets[d] \in Bucket
  BY DEF StoreType
<1>2. RecencyOf(buckets') = order
  BY <1>1, StampedIsForemost
<1>3. IsFiniteSet(P) /\ Cardinality(P) <= MaxBuckets
  BY HitFits DEF Bounded, Stamped
<1> HIDE DEF order
<1>4. ASSUME NEW e \in P PROVE e \in LRU!First(order)
  <2> DEFINE A == LRU!Ahead(order, e)
  <2>1. A \in SUBSET (P \ {e}) /\ e \in Document
    BY <1>2 DEF LRU!Ahead, RecencyOf, Present
  <2>2. IsFiniteSet(P \ {e}) /\ Cardinality(P \ {e}) = Cardinality(P) - 1
    BY <1>3, FS_RemoveElement
  <2>3. IsFiniteSet(A) /\ Cardinality(A) <= Cardinality(P \ {e})
    BY <2>1, <2>2, FS_Subset
  <2>4. Cardinality(A) \in Nat /\ Cardinality(P) \in Nat /\ MaxBuckets \in Nat
    BY <1>3, <2>3, FS_CardinalityType, StoreAssumption
  <2>5. Cardinality(A) < MaxBuckets
    BY <1>3, <2>2, <2>3, <2>4
  <2> QED
    BY <2>1, <2>5, SameCardinality DEF LRU!First
<1>5. order = order \cap (LRU!First(order) \X LRU!First(order))
  <2>1. order \in SUBSET (P \X P)
    BY <1>2 DEF RecencyOf
  <2> QED
    BY <1>4, <2>1
<1> QED
  BY <1>2, <1>5 DEF Recency, LRU!Use, order

LEMMA TokensAreUse ==
  ASSUME IInv, Bounded, NEW d \in Document, NEW told \in BOOLEAN,
         NEW with_previous_id \in BOOLEAN, SemanticTokens(d, with_previous_id, told)
  PROVE  LRU!Use(d)
<1> DEFINE history == buckets[d].semantic_tokens
           longer == Remember(history, FreshTokens(d))
           filled == [buckets[d] EXCEPT !.semantic_tokens = longer]
<1>1. /\ StoreType /\ buckets[d] \in Bucket
      /\ history \in Seq(Entry(Encodings))
      /\ Len(history) <= MaxHistory /\ Distinct(history)
      /\ version[d] \in Nat /\ generation \in Nat /\ result[d] \in Result
  BY DEF IInv, StoreInv, StoreType, Bucket, Bounded, Histories, WorkspaceType
<1>2. CASE HasCurrent(d, history) /\ buckets' = [buckets EXCEPT ![d] = TouchHit(@)]
  <2>1. NewestCurrent(d, history) \in DOMAIN history
    BY <1>1, <1>2, NewestCurrentFinds
  <2>2. buckets[d] # NoBucket
    BY <2>1 DEF NoBucket
  <2>3. buckets' = [buckets EXCEPT ![d] = Touched(buckets[d])]
    BY <1>2 DEF TouchHit
  <2> QED
    BY <1>1, <2>2, <2>3, HitIsUse
<1>3. CASE StoreBucket(d, filled)
  <2> HIDE DEF history
  <2>1. FreshTokens(d) \in Entry(Encodings)
    BY <1>1, EncodingIsSeq DEF FreshTokens, TokenId, Entry, Id
  <2>2. longer \in Seq(Entry(Encodings))
    BY <1>1, <2>1, RememberKeeps
  <2>3. Len(longer) <= MaxHistory /\ Distinct(longer)
    BY <1>1, <2>1, RememberBounds
  <2> HIDE DEF longer
  <2>4. filled \in Bucket /\ filled.semantic_tokens = longer
    BY <1>1, <2>2 DEF Bucket
  <2> QED
    BY <1>1, <1>3, <2>3, <2>4, InsertionIsUse
<1> QED
  BY <1>2, <1>3 DEF SemanticTokens

LEMMA DiagnosticIsUse ==
  ASSUME IInv, Bounded, NEW d \in Document, NEW told \in BOOLEAN, DocumentDiagnostic(d, told)
  PROVE  LRU!Use(d)
<1> DEFINE cached == buckets[d].diagnostics
           filled == [buckets[d] EXCEPT !.diagnostics = <<FreshDiagnostics(d)>>]
<1>1. /\ StoreType /\ buckets[d] \in Bucket
      /\ Len(buckets[d].semantic_tokens) <= MaxHistory
      /\ Distinct(buckets[d].semantic_tokens)
      /\ version[d] \in Nat /\ generation \in Nat /\ result[d] \in Result
  BY DEF IInv, StoreInv, StoreType, Bounded, Histories, WorkspaceType
<1>2. CASE HasCurrent(d, cached) /\ buckets' = [buckets EXCEPT ![d] = TouchHit(@)]
  <2>1. buckets[d] # NoBucket
    BY <1>2 DEF HasCurrent, Range, NoBucket
  <2>2. buckets' = [buckets EXCEPT ![d] = Touched(buckets[d])]
    BY <1>2 DEF TouchHit
  <2> QED
    BY <1>1, <2>1, <2>2, HitIsUse
<1>3. CASE StoreBucket(d, filled)
  <2>1. FreshDiagnostics(d) \in Entry(Items)
    BY <1>1 DEF FreshDiagnostics, DiagnosticId, Entry, Id, Items
  <2>2. <<FreshDiagnostics(d)>> \in Seq(Entry(Items))
    BY <2>1
  <2>3. filled \in Bucket /\ filled.semantic_tokens = buckets[d].semantic_tokens
    BY <1>1, <2>2 DEF Bucket
  <2> QED
    BY <1>1, <1>3, <2>3, InsertionIsUse
<1> QED
  BY <1>2, <1>3 DEF DocumentDiagnostic

LEMMA CloseIsDrop ==
  ASSUME StoreType, NEW d \in Document, ClearUri(d)
  PROVE  LRU!Drop(d)
<1>1. /\ \A e \in Document \ {d} : buckets'[e] = buckets[e]
      /\ buckets'[d].last_access = 0
  BY NoBucketIsBounded DEF StoreType, ClearUri
<1>2. Present(buckets') = Present(buckets) \ {d}
  BY <1>1 DEF Present
<1>3. ASSUME NEW e, NEW f
      PROVE  <<e, f>> \in Recency' <=> <<e, f>> \in LRU!Without(d)
  BY <1>1, <1>2 DEF Recency, RecencyOf, LRU!Without, Present
<1>4. /\ \A p \in Recency' : \E e, f : p = <<e, f>>
      /\ \A p \in LRU!Without(d) : \E e, f : p = <<e, f>>
  BY DEF Recency, RecencyOf, LRU!Without
<1> QED
  BY <1>3, <1>4 DEF LRU!Drop

LEMMA EmptyIsEmpty ==
  ASSUME NEW bs, \A d \in Document : bs[d] = NoBucket
  PROVE  RecencyOf(bs) = {}
BY NoBucketIsBounded DEF RecencyOf, Present

\* Every step uses one document, drops one or all, or leaves the order alone.
LEMMA StepIsUse == IInv /\ Bounded /\ Next => LRU!Next \/ UNCHANGED Recency
<1> SUFFICES ASSUME IInv, Bounded, Next PROVE LRU!Next \/ UNCHANGED Recency
  OBVIOUS
<1>1. StoreType
  BY DEF IInv, StoreInv
<1>2. CASE Initialize
  <2>1. Recency' = {}
    BY <1>2, EmptyIsEmpty DEF Initialize, Recency
  <2> QED
    BY <2>1 DEF LRU!Next, LRU!DropAll
<1>3. CASE \E d \in Document : DidClose(d)
  BY <1>1, <1>3, CloseIsDrop DEF DidClose, LRU!Next
<1>4. CASE UNCHANGED buckets
  BY <1>4 DEF Recency
<1>5. CASE \E d \in Document : Request(d)
  <2>1. PICK d \in Document, told \in BOOLEAN :
          \/ DocumentDiagnostic(d, told)
          \/ \E with_previous_id \in BOOLEAN : SemanticTokens(d, with_previous_id, told)
    BY <1>5 DEF Request
  <2>2. LRU!Use(d)
    BY <2>1, DiagnosticIsUse, TokensAreUse
  <2> QED
    BY <2>2 DEF LRU!Next
<1>6. \/ UNCHANGED buckets
      \/ Initialize
      \/ \E d \in Document : DidClose(d) \/ Request(d)
  BY DEF Next, UpdateUnderVersion, DidOpen, DidChange, AnswerClosed, store
<1> QED
  BY <1>2, <1>3, <1>4, <1>5, <1>6

\* The stamps, the search for the oldest, the hits and the removals keep the
\* buckets of the documents that were used last.
THEOREM StoreIsLeastRecentlyUsed == Spec => ImplementsLeastRecentlyUsed
<1>1. Init => LRU!Init
  BY EmptyIsEmpty DEF Init, LRU!Init, Recency
<1>2. IInv /\ Bounded /\ [Next]_vars => Bounded' /\ [LRU!Next]_Recency
  <2>1. ASSUME IInv, Bounded, Next PROVE Bounded' /\ [LRU!Next]_Recency
    BY <2>1, StepFits, StepIsUse
  <2>2. ASSUME Bounded, UNCHANGED vars PROVE Bounded' /\ UNCHANGED Recency
    <3>1. UNCHANGED buckets
      BY <2>2 DEF vars, store
    <3> QED
      BY <2>2, <3>1, FewerBuckets DEF Recency
  <2> QED
    BY <2>1, <2>2
<1> QED
  BY <1>1, <1>2, BoundedInit, Invariance, PTL DEF Spec, ImplementsLeastRecentlyUsed, LRU!Spec
============================================================================
