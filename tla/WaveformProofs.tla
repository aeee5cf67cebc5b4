--------------------------- MODULE WaveformProofs ---------------------------
(***************************************************************************)
(* What module FstWaveformSource promises of the frames of a waveform, for *)
(* every reader, file and request.                                         *)
(***************************************************************************)
EXTENDS FstWaveformSource, SequenceTheorems, WellFoundedInduction, TLAPS

-----------------------------------------------------------------------------
(* Induction, and folds *)

LEMMA LeastExists ==
  ASSUME NEW S \in SUBSET Nat, S # {}
  PROVE  \E m \in S : \A y \in S : m =< y
<1>1. PICK m \in S : \A y \in S : <<y, m>> \notin OpToRel(<, Nat)
  BY NatLessThanWellFounded, WFMin
<1>2. \A y \in S : ~(y < m)
  BY <1>1 DEF OpToRel
<1> QED
  BY <1>2

\* Induction up to a number: a set that has zero, and each number with the one
\* before it, has all.
LEMMA UpToInduction ==
  ASSUME NEW n \in Nat, NEW S, 0 \in S,
         \A k \in 1..n : k - 1 \in S => k \in S
  PROVE  \A k \in 0..n : k \in S
<1> DEFINE bad == {k \in 0..n : k \notin S}
<1> SUFFICES ASSUME bad # {} PROVE FALSE
  OBVIOUS
<1>1. PICK m \in bad : \A y \in bad : m =< y
  <2>1. bad \in SUBSET Nat
    OBVIOUS
  <2> HIDE DEF bad
  <2> QED
    BY <2>1, LeastExists
<1>2. m \in 1..n /\ m - 1 \in 0..n /\ m - 1 \notin bad
  BY <1>1
<1> QED
  BY <1>1, <1>2

\* A function of numbers can be put together step by step.
InSteps(h, n, T, base, F) ==
  /\ h \in [0..n -> T]
  /\ h[0] = base
  /\ \A k \in 1..n : h[k] = F[<<h[k - 1], k>>]

LEMMA Recursion ==
  ASSUME NEW n \in Nat, NEW T, NEW base \in T, NEW F \in [T \X (1..n) -> T]
  PROVE  \E h : InSteps(h, n, T, base, F)
<1> DEFINE upTo(h, m) == /\ h[0] = base
                         /\ \A k \in 1..m : h[k] = F[<<h[k - 1], k>>]
           S == {m \in 0..n : \E h \in [0..m -> T] : upTo(h, m)}
<1>1. 0 \in S
  <2> DEFINE h == [k \in 0..0 |-> base]
  <2>1. h \in [0..0 -> T] /\ upTo(h, 0)
    OBVIOUS
  <2> HIDE DEF h, upTo
  <2> QED
    BY <2>1
<1>2. ASSUME NEW m \in 1..n, m - 1 \in S PROVE m \in S
  <2>1. PICK h \in [0..(m - 1) -> T] : upTo(h, m - 1)
    BY <1>2
  <2> DEFINE g == [k \in 0..m |-> IF k = m THEN F[<<h[m - 1], m>>] ELSE h[k]]
  <2>2. h[m - 1] \in T
    OBVIOUS
  <2>3. F[<<h[m - 1], m>>] \in T
    BY <2>2
  <2>4. g \in [0..m -> T]
    BY <2>3
  <2>5. g[0] = base
    BY <2>1
  <2>6. ASSUME NEW k \in 1..m PROVE g[k] = F[<<g[k - 1], k>>]
    <3>1. CASE k = m
      <4>1. m \in 0..m /\ m - 1 \in 0..m /\ m - 1 # m
        OBVIOUS
      <4>2. g[m - 1] = h[m - 1] /\ g[m] = F[<<h[m - 1], m>>]
        BY <4>1
      <4> HIDE DEF g
      <4> QED
        BY <3>1, <4>2
    <3>2. CASE k # m
      <4>1. k \in 1..(m - 1) /\ g[k] = h[k] /\ g[k - 1] = h[k - 1]
        BY <3>2
      <4>2. h[k] = F[<<h[k - 1], k>>]
        BY <2>1, <4>1
      <4> QED
        BY <4>1, <4>2
    <3> QED
      BY <3>1, <3>2
  <2>7. upTo(g, m)
    BY <2>5, <2>6
  <2> HIDE DEF g, upTo
  <2> QED
    BY <2>4, <2>7
<1> HIDE DEF S
<1>3. n \in S
  BY <1>1, <1>2, UpToInduction
<1> QED
  BY <1>3 DEF S, InSteps

\* The same over the sets of numbers, the greatest taken last: what FoldLeft
\* is defined by.
LEMMA Greatest ==
  ASSUME NEW n \in Nat, NEW s \in SUBSET (1..n), s # {}
  PROVE  /\ Max(s) \in s
         /\ \A k \in s : k =< Max(s)
<1>1. \E x \in s : \A y \in s : x >= y
  <2> DEFINE D == {n - y : y \in s}
  <2>1. D \in SUBSET Nat /\ D # {}
    <3>1. \A y \in s : n - y \in Nat
      OBVIOUS
    <3> QED
      BY <3>1
  <2>2. PICK d \in D : \A e \in D : d =< e
    <3> HIDE DEF D
    <3> QED
      BY <2>1, LeastExists
  <2>3. PICK x \in s : d = n - x
    BY <2>2
  <2>4. ASSUME NEW y \in s PROVE x >= y
    <3>1. n - y \in D
      OBVIOUS
    <3>2. n - x =< n - y
      BY <2>2, <2>3, <3>1
    <3> QED
      BY <3>2
  <2> QED
    BY <2>4
<1>2. /\ Max(s) \in s
      /\ \A y \in s : Max(s) >= y
  BY <1>1 DEF Max
<1> QED
  BY <1>2

OverSets(g, n, T, base, F) ==
  /\ g \in [SUBSET (1..n) -> T]
  /\ \A s \in SUBSET (1..n) :
        g[s] = IF s = {} THEN base ELSE F[<<g[s \ {Max(s)}], Max(s)>>]

LEMMA SetRecursion ==
  ASSUME NEW n \in Nat, NEW T, NEW base \in T, NEW F \in [T \X (1..n) -> T]
  PROVE  \E g : OverSets(g, n, T, base, F)
<1> DEFINE TT == [SUBSET (1..n) -> T]
           first == [s \in SUBSET (1..n) |-> base]
           FF == [p \in TT \X (1..n) |->
                    [s \in SUBSET (1..n) |-> IF p[2] \in s THEN F[<<p[1][s \ {p[2]}], p[2]>>] ELSE p[1][s]]]
<1>1. first \in TT
  OBVIOUS
<1>2. FF \in [TT \X (1..n) -> TT]
  <2>1. ASSUME NEW p \in TT \X (1..n), NEW s \in SUBSET (1..n)
        PROVE  (IF p[2] \in s THEN F[<<p[1][s \ {p[2]}], p[2]>>] ELSE p[1][s]) \in T
    <3>1. s \ {p[2]} \in SUBSET (1..n) /\ p[1] \in TT /\ p[2] \in 1..n
      OBVIOUS
    <3>2. p[1][s \ {p[2]}] \in T /\ p[1][s] \in T
      BY <3>1
    <3> QED
      BY <3>1, <3>2
  <2> QED
    BY <2>1
<1>3. PICK h \in [0..n -> TT] : /\ h[0] = first
                                /\ \A k \in 1..n : h[k] = FF[<<h[k - 1], k>>]
  <2> HIDE DEF TT, first, FF
  <2>1. \E h : InSteps(h, n, TT, first, FF)
    BY <1>1, <1>2, Recursion
  <2> QED
    BY <2>1 DEF InSteps
<1>4. ASSUME NEW k \in 1..n, NEW s \in SUBSET (1..n)
      PROVE  h[k][s] = IF k \in s THEN F[<<h[k - 1][s \ {k}], k>>] ELSE h[k - 1][s]
  <2>1. <<h[k - 1], k>> \in TT \X (1..n)
    <3> HIDE DEF TT
    <3> QED
      OBVIOUS
  <2>2. h[k] = FF[<<h[k - 1], k>>]
    BY <1>3
  <2> HIDE DEF TT
  <2> QED
    BY <2>1, <2>2
<1>5. ASSUME NEW s \in SUBSET (1..n), NEW m \in 0..n, \A k \in s : k =< m
      PROVE  h[n][s] = h[m][s]
  <2> DEFINE S == {j \in 0..(n - m) : h[m + j][s] = h[m][s]}
  <2>1. 0 \in S
    OBVIOUS
  <2>2. ASSUME NEW j \in 1..(n - m), j - 1 \in S PROVE j \in S
    <3>1. m + j \in 1..n /\ m + j \notin s /\ (m + j) - 1 = m + (j - 1)
      BY <1>5
    <3>2. h[m + j][s] = h[(m + j) - 1][s]
      BY <1>4, <3>1
    <3> QED
      BY <2>2, <3>1, <3>2
  <2>3. n - m \in Nat /\ m + (n - m) = n
    OBVIOUS
  <2>4. n - m \in S
    <3> DEFINE d == n - m
    <3>1. d \in Nat /\ d \in 0..d
      BY <2>3
    <3>2. \A j \in 1..d : j - 1 \in S => j \in S
      BY <2>2
    <3> HIDE DEF S, d
    <3>3. d \in S
      BY <2>1, <3>1, <3>2, UpToInduction
    <3> QED
      BY <3>3 DEF d
  <2> QED
    BY <2>3, <2>4
<1>6. h[n] \in TT
  <2> HIDE DEF TT
  <2> QED
    OBVIOUS
<1>7. ASSUME NEW s \in SUBSET (1..n)
      PROVE  h[n][s] = IF s = {} THEN base ELSE F[<<h[n][s \ {Max(s)}], Max(s)>>]
  <2>1. CASE s = {}
    <3>1. h[n][s] = h[0][s]
      BY <1>5, <2>1
    <3> QED
      BY <1>3, <2>1, <3>1
  <2>2. CASE s # {}
    <3> DEFINE m == Max(s)
    <3>0. m \in s /\ \A k \in s : k =< m
      BY <2>2, Greatest, Zenon
    <3> HIDE DEF m
    <3>1. m \in s /\ m \in 1..n /\ m - 1 \in 0..n /\ \A k \in s : k =< m
      BY <3>0
    <3>2. h[n][s] = h[m][s]
      BY <1>5, <3>1
    <3>3. s \ {m} \in SUBSET (1..n) /\ \A k \in s \ {m} : k =< m - 1
      BY <3>1
    <3>4. h[n][s \ {m}] = h[m - 1][s \ {m}]
      BY <1>5, <3>1, <3>3
    <3>5. h[m][s] = F[<<h[m - 1][s \ {m}], m>>]
      BY <1>4, <3>1
    <3>6. h[n][s] = F[<<h[n][s \ {m}], m>>]
      BY <3>2, <3>4, <3>5
    <3> QED
      BY <2>2, <3>6 DEF m
  <2> QED
    BY <2>1, <2>2
<1> QED
  <2> HIDE DEF TT
  <2>1. h[n] \in [SUBSET (1..n) -> T]
    BY <1>6 DEF TT
  <2> QED
    BY <1>7, <2>1 DEF OverSets

LEMMA Initials ==
  ASSUME NEW n \in Nat
  PROVE  /\ 1..0 = {}
         /\ \A k \in 1..n : /\ 1..k \in SUBSET (1..n) /\ 1..k # {}
                            /\ Max(1..k) = k
                            /\ (1..k) \ {k} = 1..(k - 1)
<1>1. ASSUME NEW k \in 1..n PROVE Max(1..k) = k
  <2>1. 1..k \in SUBSET (1..n) /\ 1..k # {} /\ k \in 1..k
    OBVIOUS
  <2> DEFINE s == 1..k
  <2>2. Max(s) \in s /\ \A j \in s : j =< Max(s)
    <3> HIDE DEF s
    <3>1. s \in SUBSET (1..n) /\ s # {}
      BY <2>1 DEF s
    <3> QED
      BY <3>1, Greatest
  <2> DEFINE m == Max(s)
  <2>3. m \in s /\ k =< m
    BY <2>1, <2>2
  <2> HIDE DEF m
  <2>4. m = k
    BY <2>3
  <2> QED
    BY <2>4 DEF m
<1> QED
  BY <1>1

-----------------------------------------------------------------------------
(* The pieces of a signal, one after the other *)

TableRows == [signal : Nat, first : Nat, count : Int]
ColumnsOf(S) == [segments : Seq(S), table : Seq(TableRows), truncated : BOOLEAN]
PiecesOf(S) == [start : Int, end : Int, segment : S]

LEMMA OnePiece ==
  ASSUME NEW S, NEW c \in ColumnsOf(S), NEW p \in PiecesOf(S), NEW max \in Nat
  PROVE  AppendSegment(c, p.segment, p.start, p.end, max) \in ColumnsOf(S)
<1>1. c.segments \in Seq(S) /\ p.segment \in S
  BY DEF ColumnsOf, PiecesOf
<1>2. Append(c.segments, p.segment) \in Seq(S)
  BY <1>1, AppendProperties
<1> QED
  BY <1>2 DEF ColumnsOf, AppendSegment

PieceAfterPiece(h, columns, pieces, max) ==
  /\ h[0] = columns
  /\ \A k \in 1..Len(pieces) :
        h[k] = AppendSegment(h[k - 1], pieces[k].segment, pieces[k].start, pieces[k].end, max)

LEMMA PiecesAreAppended ==
  ASSUME NEW S, NEW columns \in ColumnsOf(S), NEW pieces \in Seq(PiecesOf(S)), NEW max \in Nat
  PROVE  \E h : /\ PieceAfterPiece(h, columns, pieces, max)
                /\ AppendPieces(columns, pieces, max) = h[Len(pieces)]
<1> DEFINE n == Len(pieces)
           op(c, p) == AppendSegment(c, p.segment, p.start, p.end, max)
           F == [x \in ColumnsOf(S) \X (1..n) |-> op(x[1], pieces[x[2]])]
           sets == SUBSET (1..n)
           step(g, s) == IF s = {} THEN columns ELSE op(g[s \ {Max(s)}], pieces[Max(s)])
           it == CHOOSE g : g = [s \in sets |-> step(g, s)]
<1>1. n \in Nat /\ DOMAIN pieces = 1..n
  OBVIOUS
<1>2. F \in [ColumnsOf(S) \X (1..n) -> ColumnsOf(S)]
  BY OnePiece
<1>3. PICK g : OverSets(g, n, ColumnsOf(S), columns, F)
  <2> HIDE DEF F, n
  <2> QED
    BY <1>1, <1>2, SetRecursion
<1>4. g = [s \in sets |-> step(g, s)]
  <2>1. ASSUME NEW s \in sets PROVE g[s] = step(g, s)
    <3>1. CASE s # {}
      <4>1. Max(s) \in 1..n /\ s \ {Max(s)} \in sets
        BY <1>1, <3>1, Greatest
      <4>2. g[s] = F[<<g[s \ {Max(s)}], Max(s)>>] /\ g[s \ {Max(s)}] \in ColumnsOf(S)
        BY <1>3, <3>1, <4>1 DEF OverSets
      <4> QED
        BY <3>1, <4>1, <4>2
    <3>2. CASE s = {}
      BY <1>3, <3>2 DEF OverSets
    <3> QED
      BY <3>1, <3>2
  <2> HIDE DEF step
  <2> QED
    BY <1>3, <2>1 DEF OverSets
<1>5. it = [s \in sets |-> step(it, s)]
  <2> HIDE DEF step, sets
  <2> QED
    BY <1>4
<1>6. AppendPieces(columns, pieces, max) = it[1..n]
  BY <1>1 DEF AppendPieces, FoldLeft, MapThenFoldSet
<1> DEFINE h == [k \in 0..n |-> it[1..k]]
<1> HIDE DEF it
<1>7. h[0] = columns
  BY <1>1, <1>5, Initials
<1>8. ASSUME NEW k \in 1..n PROVE h[k] = op(h[k - 1], pieces[k])
  <2>1. /\ 1..k \in sets /\ 1..k # {} /\ Max(1..k) = k /\ (1..k) \ {k} = 1..(k - 1)
        /\ k \in 0..n /\ k - 1 \in 0..n
    BY <1>1, Initials
  <2>2. it[1..k] = step(it, 1..k)
    <3> HIDE DEF step, sets
    <3> QED
      BY <1>5, <2>1
  <2>3. step(it, 1..k) = op(it[1..(k - 1)], pieces[k])
    <3> HIDE DEF op
    <3> QED
      BY <2>1
  <2>4. h[k] = it[1..k] /\ h[k - 1] = it[1..(k - 1)]
    BY <2>1
  <2> HIDE DEF op, step, h
  <2> QED
    BY <2>2, <2>3, <2>4
<1>9. AppendPieces(columns, pieces, max) = h[n]
  BY <1>1, <1>6
<1> QED
  BY <1>7, <1>8, <1>9 DEF PieceAfterPiece

\* A frame's columns with a piece, from those without.
Appended(a, c, p, max) == a = AppendSegment(c, p.segment, p.start, p.end, max)

PieceIsAdded(S, a, c, p, max) ==
  /\ a \in ColumnsOf(S) /\ a.table = c.table
  /\ p.end =< p.start => a = c
  /\ p.start < p.end /\ max # 0 /\ Len(c.segments) >= max
       => a.segments = c.segments /\ a.truncated = TRUE
  /\ p.start < p.end /\ ~(max # 0 /\ Len(c.segments) >= max)
       => a.segments = Append(c.segments, p.segment) /\ a.truncated = c.truncated

\* A piece that lasts is appended, unless the limit is reached; then the flag tells.
LEMMA OnePieceCases ==
  ASSUME NEW S, NEW c \in ColumnsOf(S), NEW p \in PiecesOf(S), NEW max \in Nat,
         NEW a, Appended(a, c, p, max)
  PROVE  PieceIsAdded(S, a, c, p, max)
<1> USE DEF PieceIsAdded
<1>1. p.start \in Int /\ p.end \in Int /\ Len(c.segments) \in Nat
  BY DEF PiecesOf, ColumnsOf
<1>2. a \in ColumnsOf(S)
  BY OnePiece DEF Appended
<1>3. CASE p.end =< p.start
  <2>1. a = c /\ ~(p.start < p.end)
    BY <1>1, <1>3 DEF AppendSegment, Appended
  <2> QED
    BY <1>2, <2>1
<1>4. CASE p.start < p.end /\ max # 0 /\ Len(c.segments) >= max
  <2>1. a = [c EXCEPT !.truncated = TRUE] /\ ~(p.end =< p.start)
    BY <1>1, <1>4 DEF AppendSegment, Appended
  <2>2. a.table = c.table /\ a.segments = c.segments /\ a.truncated = TRUE
    BY <2>1 DEF ColumnsOf
  <2> QED
    BY <1>2, <1>4, <2>1, <2>2
<1>5. CASE p.start < p.end /\ ~(max # 0 /\ Len(c.segments) >= max)
  <2>1. a = [c EXCEPT !.segments = Append(c.segments, p.segment)] /\ ~(p.end =< p.start)
    BY <1>1, <1>5 DEF AppendSegment, Appended
  <2>2. a.table = c.table /\ a.segments = Append(c.segments, p.segment) /\ a.truncated = c.truncated
    BY <2>1 DEF ColumnsOf
  <2> QED
    BY <1>2, <1>5, <2>1, <2>2
<1>6. p.end =< p.start \/ p.start < p.end
  BY <1>1
<1> QED
  BY <1>3, <1>4, <1>5, <1>6, Zenon

LEMMA OnePieceWithoutLimit ==
  ASSUME NEW S, NEW c \in ColumnsOf(S), NEW p \in PiecesOf(S),
         NEW a, Appended(a, c, p, 0)
  PROVE  /\ a \in ColumnsOf(S) /\ a.table = c.table
         /\ p.end =< p.start => a = c
         /\ p.start < p.end => a.segments = Append(c.segments, p.segment) /\ a.truncated = c.truncated
<1>1. PieceIsAdded(S, a, c, p, 0)
  BY OnePieceCases
<1> QED
  BY <1>1 DEF PieceIsAdded

\* The pieces of a signal follow each other from the start of a range to its end.
FollowEachOther(pieces, first, last, start, end) ==
  /\ Len(pieces) # 0
  /\ pieces[1].start = start
  /\ pieces[Len(pieces)].end = end
  /\ \A k \in 1..(Len(pieces) - 1) : pieces[k].end = pieces[k + 1].start
  /\ \A k \in 1..Len(pieces) : /\ pieces[k].start =< pieces[k].end
                               /\ first[pieces[k].segment] = pieces[k].start
                               /\ last[pieces[k].segment] = pieces[k].end

\* The segments behind the first m of a sequence do, up to a time.
NoGap(segments, m, first, last, start) ==
  \A x \in (m + 1)..Len(segments) :
     first[segments[x]] = IF x = m + 1 THEN start ELSE last[segments[x - 1]]

Extends(segments, before) ==
  /\ Len(before) =< Len(segments)
  /\ \A x \in 1..Len(before) : segments[x] = before[x]

LEMMA ExtendsAppend ==
  ASSUME NEW S, NEW s \in Seq(S), NEW before \in Seq(S), NEW e \in S, Extends(s, before)
  PROVE  Extends(Append(s, e), before)
<1>1. /\ Len(Append(s, e)) = Len(s) + 1
      /\ \A x \in 1..Len(s) : Append(s, e)[x] = s[x]
  BY AppendProperties
<1>2. Len(s) \in Nat /\ Len(before) \in Nat
  OBVIOUS
<1> QED
  BY <1>1, <1>2 DEF Extends

LEMMA NoGapAppend ==
  ASSUME NEW S, NEW s \in Seq(S), NEW e \in S, NEW first, NEW last, NEW start, NEW m \in Nat,
         m =< Len(s), NoGap(s, m, first, last, start),
         first[e] = IF Len(s) = m THEN start ELSE last[s[Len(s)]]
  PROVE  NoGap(Append(s, e), m, first, last, start)
<1>1. /\ Len(Append(s, e)) = Len(s) + 1
      /\ \A x \in 1..Len(s) : Append(s, e)[x] = s[x]
      /\ Append(s, e)[Len(s) + 1] = e
  BY AppendProperties
<1>2. Len(s) \in Nat
  OBVIOUS
<1> DEFINE t == Append(s, e)
<1> HIDE DEF t
<1>3. /\ Len(t) = Len(s) + 1
      /\ \A x \in 1..Len(s) : t[x] = s[x]
      /\ t[Len(s) + 1] = e
  BY <1>1 DEF t
<1>4. ASSUME NEW x \in (m + 1)..Len(t) PROVE first[t[x]] = IF x = m + 1 THEN start ELSE last[t[x - 1]]
  <2>1. CASE x = Len(s) + 1
    BY <1>2, <1>3, <2>1
  <2>2. CASE x # Len(s) + 1
    <3>1. x \in (m + 1)..Len(s) /\ x \in 1..Len(s) /\ (x # m + 1 => x - 1 \in 1..Len(s))
      BY <1>2, <1>3, <2>2
    <3> QED
      BY <1>3, <3>1 DEF NoGap
  <2> QED
    BY <2>1, <2>2
<1> QED
  BY <1>4 DEF NoGap, t

\* Without a limit the pieces that last are all appended.
LEMMA PiecesWithoutLimit ==
  ASSUME NEW S, NEW c \in ColumnsOf(S), NEW pieces \in Seq(PiecesOf(S)),
         NEW first, NEW last, NEW start \in Int, NEW end \in Int, start < end,
         FollowEachOther(pieces, first, last, start, end),
         NEW u, u = AppendPieces(c, pieces, 0)
  PROVE  /\ u \in ColumnsOf(S) /\ u.table = c.table /\ u.truncated = c.truncated
         /\ Extends(u.segments, c.segments) /\ Len(c.segments) < Len(u.segments)
         /\ NoGap(u.segments, Len(c.segments), first, last, start)
         /\ last[u.segments[Len(u.segments)]] = end
<1> DEFINE n == Len(pieces)
           m == Len(c.segments)
           at(k) == IF k = 0 THEN start ELSE pieces[k].end
<1>1. PICK h : /\ PieceAfterPiece(h, c, pieces, 0)
               /\ u = h[n]
  BY PiecesAreAppended
<1>2. n \in Nat /\ m \in Nat /\ n # 0
  BY DEF ColumnsOf, FollowEachOther
<1> DEFINE good(d, t) ==
             /\ d \in ColumnsOf(S) /\ d.table = c.table /\ d.truncated = c.truncated
             /\ Extends(d.segments, c.segments)
             /\ NoGap(d.segments, m, first, last, start)
             /\ t = IF Len(d.segments) = m THEN start ELSE last[d.segments[Len(d.segments)]]
           G == {k \in 0..n : good(h[k], at(k))}
<1>3. 0 \in G
  BY <1>1, <1>2 DEF PieceAfterPiece, Extends, NoGap
<1>4. ASSUME NEW k \in 1..n, k - 1 \in G PROVE k \in G
  <2> DEFINE d == h[k - 1]
             p == pieces[k]
             a == h[k]
  <2>1. good(d, at(k - 1))
    BY <1>4
  <2>2. p \in PiecesOf(S) /\ p.start \in Int /\ p.end \in Int
    <3>1. p \in PiecesOf(S)
      BY ElementOfSeq
    <3> QED
      BY <3>1 DEF PiecesOf
  <2>3. p.start = at(k - 1) /\ p.end = at(k) /\ p.start =< p.end
        /\ first[p.segment] = p.start /\ last[p.segment] = p.end /\ p.segment \in S
    <3>1. CASE k = 1
      BY <1>2, <2>2, <3>1 DEF FollowEachOther, PiecesOf
    <3>2. CASE k # 1
      <4>1. k - 1 \in 1..(n - 1) /\ (k - 1) + 1 = k
        BY <1>2, <3>2
      <4> QED
        BY <1>2, <2>2, <4>1 DEF FollowEachOther, PiecesOf
    <3> QED
      BY <3>1, <3>2
  <2>4. Appended(a, d, p, 0)
    BY <1>1 DEF PieceAfterPiece, Appended
  <2> HIDE DEF at, d, p, a, good
  <2>5. d \in ColumnsOf(S)
    BY <2>1 DEF good
  <2>6. /\ a \in ColumnsOf(S) /\ a.table = d.table
        /\ p.end =< p.start => a = d
        /\ p.start < p.end => a.segments = Append(d.segments, p.segment) /\ a.truncated = d.truncated
    BY <2>2, <2>4, <2>5, OnePieceWithoutLimit
  <2>7. CASE p.end =< p.start
    <3>1. a = d /\ at(k) = at(k - 1)
      BY <2>2, <2>3, <2>6, <2>7
    <3> QED
      BY <2>1, <3>1 DEF a
  <2>8. CASE p.start < p.end
    <3> DEFINE s == d.segments
    <3>1. s \in Seq(S) /\ c.segments \in Seq(S) /\ Extends(s, c.segments) /\ m =< Len(s)
          /\ NoGap(s, m, first, last, start) /\ Len(s) \in Nat
          /\ p.start = IF Len(s) = m THEN start ELSE last[s[Len(s)]]
      BY <2>1, <2>3, <2>5 DEF good, Extends, ColumnsOf
    <3>2. a.segments = Append(s, p.segment) /\ a.truncated = d.truncated
      BY <2>6, <2>8
    <3> HIDE DEF s
    <3>3. /\ Len(a.segments) = Len(s) + 1
          /\ a.segments[Len(s) + 1] = p.segment
      BY <2>3, <3>1, <3>2, AppendProperties
    <3>4. Extends(a.segments, c.segments)
      BY <2>3, <3>1, <3>2, ExtendsAppend
    <3>5. NoGap(a.segments, m, first, last, start)
      <4> HIDE DEF m
      <4> QED
        BY <1>2, <2>3, <3>1, <3>2, NoGapAppend
    <3>6. at(k) = IF Len(a.segments) = m THEN start ELSE last[a.segments[Len(a.segments)]]
      BY <1>2, <2>3, <3>1, <3>3
    <3>7. a.table = c.table /\ a.truncated = c.truncated
      BY <2>1, <2>6, <3>2 DEF good
    <3>8. good(a, at(k))
      BY <2>6, <3>4, <3>5, <3>6, <3>7 DEF good
    <3> QED
      BY <3>8 DEF a
  <2> QED
    BY <2>2, <2>7, <2>8
<1>5. n \in G
  <2>1. n \in 0..n
    BY <1>2
  <2> HIDE DEF G, n
  <2> QED
    BY <1>2, <1>3, <1>4, <2>1, UpToInduction
<1>6. good(u, end)
  BY <1>1, <1>2, <1>5 DEF FollowEachOther
<1> QED
  BY <1>2, <1>6 DEF Extends, ColumnsOf

-----------------------------------------------------------------------------
(* The limit on the segments of a frame *)

Cut(s, max) == IF max = 0 \/ Len(s) =< max THEN s ELSE SubSeq(s, 1, max)

Over(s, max) == max # 0 /\ Len(s) > max

\* Columns under a limit and the columns there would be without one.
IsCut(c, w, max) ==
  /\ c.segments = Cut(w.segments, max)
  /\ c.truncated = Over(w.segments, max)

LEMMA StartOfAppend ==
  ASSUME NEW S, NEW s \in Seq(S), NEW e \in S, NEW m \in Nat, m =< Len(s)
  PROVE  SubSeq(Append(s, e), 1, m) = SubSeq(s, 1, m)
<1>1. Append(s, e) \in Seq(S) /\ Len(Append(s, e)) = Len(s) + 1 /\ Len(s) \in Nat
      /\ \A x \in 1..Len(s) : Append(s, e)[x] = s[x]
  BY AppendProperties
<1> DEFINE t == Append(s, e)
<1> HIDE DEF t
<1>2. SubSeq(t, 1, m) = [x \in 1..m |-> t[x]] /\ SubSeq(s, 1, m) = [x \in 1..m |-> s[x]]
  BY <1>1 DEF t
<1>3. \A x \in 1..m : t[x] = s[x]
  BY <1>1 DEF t
<1> QED
  BY <1>2, <1>3 DEF t

LEMMA OneMoreCut ==
  ASSUME NEW S, NEW c \in ColumnsOf(S), NEW w \in ColumnsOf(S), NEW p \in PiecesOf(S), NEW max \in Nat,
         IsCut(c, w, max),
         NEW a, Appended(a, c, p, max), NEW b, Appended(b, w, p, 0)
  PROVE  IsCut(a, b, max) /\ a \in ColumnsOf(S) /\ b \in ColumnsOf(S)
         /\ a.table = c.table /\ b.table = w.table /\ b.truncated = w.truncated
<1>1. p.start \in Int /\ p.end \in Int /\ p.segment \in S
      /\ c.segments \in Seq(S) /\ w.segments \in Seq(S) /\ Len(c.segments) \in Nat /\ Len(w.segments) \in Nat
  BY DEF PiecesOf, ColumnsOf
<1>2. /\ a \in ColumnsOf(S) /\ a.table = c.table
      /\ p.end =< p.start => a = c
      /\ p.start < p.end /\ max # 0 /\ Len(c.segments) >= max
           => a.segments = c.segments /\ a.truncated = TRUE
      /\ p.start < p.end /\ ~(max # 0 /\ Len(c.segments) >= max)
           => a.segments = Append(c.segments, p.segment) /\ a.truncated = c.truncated
  <2>1. PieceIsAdded(S, a, c, p, max)
    BY OnePieceCases
  <2> QED
    BY <2>1 DEF PieceIsAdded
<1>3. /\ b \in ColumnsOf(S) /\ b.table = w.table
      /\ p.end =< p.start => b = w
      /\ p.start < p.end => b.segments = Append(w.segments, p.segment) /\ b.truncated = w.truncated
  <2>1. PieceIsAdded(S, b, w, p, 0)
    BY OnePieceCases
  <2> QED
    BY <2>1 DEF PieceIsAdded
<1>4. CASE p.end =< p.start
  BY <1>2, <1>3, <1>4
<1>5. CASE p.start < p.end
  <2> DEFINE s == w.segments
             e == p.segment
             t == Append(s, e)
  <2>1. b.segments = t /\ b.truncated = w.truncated
    BY <1>3, <1>5
  <2>2. Len(t) = Len(s) + 1 /\ t \in Seq(S)
    BY <1>1, AppendProperties
  <2>3. s \in Seq(S) /\ e \in S /\ Len(s) \in Nat
    BY <1>1
  <2>4. IsCut(a, b, max)
    <3>1. CASE max = 0
      <4>1. c.segments = s /\ c.truncated = FALSE
        BY <3>1 DEF IsCut, Cut, Over
      <4>2. a.segments = Append(c.segments, e) /\ a.truncated = c.truncated
        BY <1>2, <1>5, <3>1
      <4> QED
        BY <2>1, <3>1, <4>1, <4>2 DEF IsCut, Cut, Over
    <3>2. CASE max # 0 /\ Len(s) < max
      <4>1. c.segments = s /\ c.truncated = FALSE
        <5>1. Len(s) =< max /\ ~(Len(s) > max)
          BY <2>3, <3>2
        <5>2. Cut(s, max) = s /\ Over(s, max) = FALSE
          BY <5>1 DEF Cut, Over
        <5> QED
          BY <5>2 DEF IsCut
      <4>2. a.segments = Append(c.segments, e) /\ a.truncated = c.truncated
        BY <1>2, <1>5, <2>3, <3>2, <4>1
      <4> HIDE DEF t
      <4>3. a.segments = t /\ a.truncated = FALSE
        BY <4>1, <4>2 DEF t
      <4>4. Len(t) =< max /\ ~(Len(t) > max)
        BY <2>2, <2>3, <3>2
      <4>5. Cut(t, max) = t /\ Over(t, max) = FALSE
        BY <4>4 DEF Cut, Over
      <4> QED
        BY <2>1, <4>3, <4>5 DEF IsCut
    <3>3. CASE max # 0 /\ Len(s) >= max
      <4>1. c.segments = SubSeq(s, 1, max)
        <5>1. CASE Len(s) = max
          BY <2>3, <5>1, SubSeqFull DEF IsCut, Cut
        <5>2. CASE Len(s) # max
          BY <2>3, <3>3, <5>2 DEF IsCut, Cut
        <5> QED
          BY <5>1, <5>2
      <4>2. Len(c.segments) = max
        BY <2>3, <3>3, <4>1
      <4>3. a.segments = c.segments /\ a.truncated = TRUE
        BY <1>2, <1>5, <3>3, <4>2
      <4>4. SubSeq(t, 1, max) = SubSeq(s, 1, max)
        BY <2>3, <3>3, StartOfAppend
      <4> HIDE DEF t
      <4>5. ~(Len(t) =< max) /\ Len(t) > max
        BY <2>2, <2>3, <3>3
      <4>6. Cut(t, max) = SubSeq(t, 1, max) /\ Over(t, max) = TRUE
        BY <3>3, <4>5 DEF Cut, Over
      <4> QED
        BY <2>1, <4>1, <4>3, <4>4, <4>6 DEF IsCut
    <3> QED
      BY <2>3, <3>1, <3>2, <3>3
  <2> QED
    BY <1>2, <1>3, <2>1, <2>4
<1> QED
  BY <1>1, <1>4, <1>5

\* The pieces of a signal are cut where they would pass the limit.
LEMMA PiecesWithLimit ==
  ASSUME NEW S, NEW c \in ColumnsOf(S), NEW w \in ColumnsOf(S), NEW pieces \in Seq(PiecesOf(S)),
         NEW max \in Nat, IsCut(c, w, max),
         NEW l, l = AppendPieces(c, pieces, max), NEW u, u = AppendPieces(w, pieces, 0)
  PROVE  IsCut(l, u, max) /\ l \in ColumnsOf(S) /\ l.table = c.table
<1> DEFINE n == Len(pieces)
<1>1. PICK h : /\ PieceAfterPiece(h, c, pieces, max)
               /\ l = h[n]
  BY PiecesAreAppended
<1>2. PICK g : /\ PieceAfterPiece(g, w, pieces, 0)
               /\ u = g[n]
  BY PiecesAreAppended
<1>3. n \in Nat /\ n \in 0..n
  OBVIOUS
<1> DEFINE good(x, y) == IsCut(x, y, max) /\ x \in ColumnsOf(S) /\ y \in ColumnsOf(S) /\ x.table = c.table
           G == {k \in 0..n : good(h[k], g[k])}
<1>4. 0 \in G
  BY <1>1, <1>2, <1>3 DEF PieceAfterPiece
<1>5. ASSUME NEW k \in 1..n, k - 1 \in G PROVE k \in G
  <2>1. pieces[k] \in PiecesOf(S)
    BY ElementOfSeq
  <2>2. Appended(h[k], h[k - 1], pieces[k], max) /\ Appended(g[k], g[k - 1], pieces[k], 0)
    BY <1>1, <1>2 DEF PieceAfterPiece, Appended
  <2>3. good(h[k - 1], g[k - 1])
    BY <1>5
  <2>4. good(h[k], g[k])
    BY <2>1, <2>2, <2>3, OneMoreCut
  <2> QED
    BY <2>4
<1>6. n \in G
  <2> HIDE DEF G, n
  <2> QED
    BY <1>3, <1>4, <1>5, UpToInduction
<1> QED
  BY <1>1, <1>2, <1>6

-----------------------------------------------------------------------------
(* The signals of a frame, one after the other *)

RowsOf(S) == [signal : Nat, pieces : Seq(PiecesOf(S))]

LEMMA PiecesAreColumns ==
  ASSUME NEW S, NEW c \in ColumnsOf(S), NEW pieces \in Seq(PiecesOf(S)), NEW max \in Nat
  PROVE  AppendPieces(c, pieces, max) \in ColumnsOf(S)
<1> DEFINE n == Len(pieces)
<1>1. PICK h : /\ PieceAfterPiece(h, c, pieces, max)
               /\ AppendPieces(c, pieces, max) = h[n]
  BY PiecesAreAppended
<1> DEFINE G == {k \in 0..n : h[k] \in ColumnsOf(S)}
<1>2. n \in Nat /\ n \in 0..n
  OBVIOUS
<1>3. 0 \in G
  BY <1>1, <1>2 DEF PieceAfterPiece
<1>4. ASSUME NEW k \in 1..n, k - 1 \in G PROVE k \in G
  <2>1. pieces[k] \in PiecesOf(S)
    BY ElementOfSeq
  <2>2. h[k] \in ColumnsOf(S)
    BY <1>1, <1>4, <2>1, OnePiece DEF PieceAfterPiece
  <2> QED
    BY <2>2
<1>5. n \in G
  <2> HIDE DEF G, n
  <2> QED
    BY <1>2, <1>3, <1>4, UpToInduction
<1> QED
  BY <1>1, <1>5

\* A frame's columns with the segments of a signal, from those without.
RowIsAdded(S, a, c, row, max, all) ==
  /\ all = IF c.truncated THEN c ELSE AppendPieces(c, row.pieces, max)
  /\ a \in ColumnsOf(S) /\ all \in ColumnsOf(S)
  /\ a.segments = all.segments
  /\ a.truncated = all.truncated
  /\ a.table = Append(all.table, [signal |-> row.signal, first |-> Len(c.segments),
                                  count |-> Len(all.segments) - Len(c.segments)])

LEMMA OneRow ==
  ASSUME NEW S, NEW c \in ColumnsOf(S), NEW row \in RowsOf(S), NEW max \in Nat
  PROVE  \E all : RowIsAdded(S, AppendSignalSegments(c, row, max), c, row, max, all)
<1> DEFINE all == IF c.truncated THEN c ELSE AppendPieces(c, row.pieces, max)
           r == [signal |-> row.signal, first |-> Len(c.segments),
                 count |-> Len(all.segments) - Len(c.segments)]
           a == AppendSignalSegments(c, row, max)
<1>1. row.signal \in Nat /\ row.pieces \in Seq(PiecesOf(S))
  BY DEF RowsOf
<1>2. all \in ColumnsOf(S)
  BY <1>1, PiecesAreColumns
<1>3. a = [all EXCEPT !.table = Append(@, r)]
  BY DEF AppendSignalSegments, InTable
<1> HIDE DEF a, all
<1>4. Len(c.segments) \in Nat /\ Len(all.segments) \in Nat
  BY <1>2 DEF ColumnsOf
<1>5. r \in TableRows
  BY <1>1, <1>4 DEF TableRows
<1> HIDE DEF r
<1>6. Append(all.table, r) \in Seq(TableRows)
  BY <1>2, <1>5, AppendProperties DEF ColumnsOf
<1>7. a \in ColumnsOf(S) /\ a.segments = all.segments /\ a.truncated = all.truncated
      /\ a.table = Append(all.table, r)
  BY <1>2, <1>3, <1>6 DEF ColumnsOf
<1> QED
  BY <1>2, <1>7 DEF RowIsAdded, a, all, r

RowAfterRow(h, rows, max) ==
  /\ h[0] = NoColumns
  /\ \A k \in 1..Len(rows) : h[k] = AppendSignalSegments(h[k - 1], rows[k], max)

LEMMA NoColumnsType == ASSUME NEW S PROVE NoColumns \in ColumnsOf(S)
BY DEF NoColumns, ColumnsOf

LEMMA RowsAreAppended ==
  ASSUME NEW S, NEW rows \in Seq(RowsOf(S)), NEW max \in Nat
  PROVE  \E h : RowAfterRow(h, rows, max) /\ EncodeRows(rows, max) = h[Len(rows)]
<1> DEFINE n == Len(rows)
           op(c, row) == AppendSignalSegments(c, row, max)
           F == [x \in ColumnsOf(S) \X (1..n) |-> op(x[1], rows[x[2]])]
           sets == SUBSET (1..n)
           step(g, s) == IF s = {} THEN NoColumns ELSE op(g[s \ {Max(s)}], rows[Max(s)])
           it == CHOOSE g : g = [s \in sets |-> step(g, s)]
<1>1. n \in Nat /\ DOMAIN rows = 1..n
  OBVIOUS
<1>2. F \in [ColumnsOf(S) \X (1..n) -> ColumnsOf(S)]
  <2>1. ASSUME NEW c \in ColumnsOf(S), NEW k \in 1..n PROVE op(c, rows[k]) \in ColumnsOf(S)
    <3>1. rows[k] \in RowsOf(S)
      BY ElementOfSeq
    <3> QED
      BY <3>1, OneRow DEF RowIsAdded
  <2> HIDE DEF op
  <2> QED
    BY <2>1
<1>3. PICK g : OverSets(g, n, ColumnsOf(S), NoColumns, F)
  <2> HIDE DEF F, n
  <2> QED
    BY <1>1, <1>2, SetRecursion, NoColumnsType
<1>4. g = [s \in sets |-> step(g, s)]
  <2>1. ASSUME NEW s \in sets PROVE g[s] = step(g, s)
    <3>1. CASE s # {}
      <4>1. Max(s) \in 1..n /\ s \ {Max(s)} \in sets
        BY <1>1, <3>1, Greatest
      <4>2. g[s] = F[<<g[s \ {Max(s)}], Max(s)>>] /\ g[s \ {Max(s)}] \in ColumnsOf(S)
        BY <1>3, <3>1, <4>1 DEF OverSets
      <4> QED
        BY <3>1, <4>1, <4>2
    <3>2. CASE s = {}
      BY <1>3, <3>2 DEF OverSets
    <3> QED
      BY <3>1, <3>2
  <2> HIDE DEF step
  <2> QED
    BY <1>3, <2>1 DEF OverSets
<1>5. it = [s \in sets |-> step(it, s)]
  <2> HIDE DEF step, sets
  <2> QED
    BY <1>4
<1>6. EncodeRows(rows, max) = it[1..n]
  BY <1>1 DEF EncodeRows, FoldLeft, MapThenFoldSet
<1> DEFINE h == [k \in 0..n |-> it[1..k]]
<1> HIDE DEF it
<1>7. h[0] = NoColumns
  BY <1>1, <1>5, Initials
<1>8. ASSUME NEW k \in 1..n PROVE h[k] = op(h[k - 1], rows[k])
  <2>1. /\ 1..k \in sets /\ 1..k # {} /\ Max(1..k) = k /\ (1..k) \ {k} = 1..(k - 1)
        /\ k \in 0..n /\ k - 1 \in 0..n
    BY <1>1, Initials
  <2>2. it[1..k] = step(it, 1..k)
    <3> HIDE DEF step, sets
    <3> QED
      BY <1>5, <2>1
  <2>3. step(it, 1..k) = op(it[1..(k - 1)], rows[k])
    <3> HIDE DEF op
    <3> QED
      BY <2>1
  <2>4. h[k] = it[1..k] /\ h[k - 1] = it[1..(k - 1)]
    BY <2>1
  <2> HIDE DEF op, step, h
  <2> QED
    BY <2>2, <2>3, <2>4
<1>9. EncodeRows(rows, max) = h[n]
  BY <1>1, <1>6
<1> QED
  BY <1>7, <1>8, <1>9 DEF RowAfterRow

-----------------------------------------------------------------------------
(* A frame is complete *)

LEMMA CutProperties ==
  ASSUME NEW S, NEW s \in Seq(S), NEW max \in Nat
  PROVE  /\ Len(Cut(s, max)) =< Len(s)
         /\ Len(Cut(s, max)) \in Nat
         /\ \A x \in 1..Len(Cut(s, max)) : Cut(s, max)[x] = s[x]
         /\ ~Over(s, max) => Cut(s, max) = s
         /\ Over(s, max) => Cut(s, max) = SubSeq(s, 1, max) /\ Len(Cut(s, max)) = max
<1>1. Len(s) \in Nat
  OBVIOUS
<1>2. CASE max = 0 \/ Len(s) =< max
  BY <1>1, <1>2 DEF Cut, Over
<1>3. CASE max # 0 /\ Len(s) > max
  <2>1. Cut(s, max) = SubSeq(s, 1, max) /\ Over(s, max)
    BY <1>1, <1>3 DEF Cut, Over
  <2>2. SubSeq(s, 1, max) = [x \in 1..max |-> s[x]]
    BY <1>1, <1>3
  <2>3. Len(SubSeq(s, 1, max)) = max
    BY <1>1, <1>3
  <2> QED
    BY <1>1, <1>3, <2>1, <2>2, <2>3
<1> QED
  BY <1>1, <1>2, <1>3

\* What is not over the limit is not cut either where more follows it.
LEMMA CutExtends ==
  ASSUME NEW S, NEW W \in Seq(S), NEW Y \in Seq(S), NEW max \in Nat, Extends(W, Y), ~Over(Y, max)
  PROVE  Extends(Cut(W, max), Y)
<1>1. Len(W) \in Nat /\ Len(Y) \in Nat
  OBVIOUS
<1> DEFINE C == Cut(W, max)
<1>2. /\ Len(C) =< Len(W) /\ Len(C) \in Nat
      /\ \A x \in 1..Len(C) : C[x] = W[x]
      /\ ~Over(W, max) => C = W
      /\ Over(W, max) => Len(C) = max
  BY CutProperties
<1> HIDE DEF C
<1>3. Len(Y) =< Len(C)
  BY <1>1, <1>2 DEF Over, Extends
<1> QED
  BY <1>1, <1>2, <1>3 DEF Extends, C

\* What is over it stays cut in the same place.
LEMMA CutStays ==
  ASSUME NEW S, NEW W \in Seq(S), NEW Y \in Seq(S), NEW max \in Nat, Extends(W, Y), Over(Y, max)
  PROVE  Over(W, max) /\ Cut(W, max) = Cut(Y, max)
<1>1. Len(W) \in Nat /\ Len(Y) \in Nat
  OBVIOUS
<1>2. Over(W, max) /\ max =< Len(Y) /\ max =< Len(W)
  BY <1>1 DEF Over, Extends
<1>3. Cut(W, max) = SubSeq(W, 1, max) /\ Cut(Y, max) = SubSeq(Y, 1, max)
  BY <1>2, CutProperties
<1>4. SubSeq(W, 1, max) = [x \in 1..max |-> W[x]] /\ SubSeq(Y, 1, max) = [x \in 1..max |-> Y[x]]
  BY <1>1, <1>2
<1>5. \A x \in 1..max : W[x] = Y[x]
  BY <1>1, <1>2 DEF Extends
<1> QED
  BY <1>2, <1>3, <1>4, <1>5

RowIsWhole(row, segments, truncated, first, last, start, end) ==
  /\ row.first \in Nat /\ row.count \in Nat
  /\ row.first + row.count =< Len(segments)
  /\ \A n \in 1..row.count :
        first[segments[row.first + n]] = IF n = 1 THEN start ELSE last[segments[row.first + (n - 1)]]
  /\ ~truncated => row.count > 0 /\ last[segments[row.first + row.count]] = end

\* A row stays whole when segments follow.
LEMMA RowStaysWhole ==
  ASSUME NEW S, NEW s \in Seq(S), NEW t \in Seq(S), Extends(t, s),
         NEW before, NEW after, ~after => ~before,
         NEW row, NEW first, NEW last, NEW start, NEW end,
         RowIsWhole(row, s, before, first, last, start, end)
  PROVE  RowIsWhole(row, t, after, first, last, start, end)
<1>1. Len(s) \in Nat /\ Len(t) \in Nat /\ Len(s) =< Len(t)
  BY DEF Extends
<1>2. row.first \in Nat /\ row.count \in Nat /\ row.first + row.count =< Len(s)
  BY DEF RowIsWhole
<1>3. \A n \in 1..row.count : t[row.first + n] = s[row.first + n]
  BY <1>1, <1>2 DEF Extends
<1>4. ASSUME NEW n \in 1..row.count
      PROVE  first[t[row.first + n]] = IF n = 1 THEN start ELSE last[t[row.first + (n - 1)]]
  <2>1. first[s[row.first + n]] = IF n = 1 THEN start ELSE last[s[row.first + (n - 1)]]
    BY DEF RowIsWhole
  <2>2. n # 1 => n - 1 \in 1..row.count
    BY <1>2
  <2> QED
    BY <1>3, <2>1, <2>2
<1>5. ASSUME ~after PROVE row.count > 0 /\ last[t[row.first + row.count]] = end
  <2>1. row.count > 0 /\ last[s[row.first + row.count]] = end
    BY <1>5 DEF RowIsWhole
  <2>2. row.count \in 1..row.count
    BY <1>2, <2>1
  <2> QED
    BY <1>3, <2>1, <2>2
<1> QED
  BY <1>1, <1>2, <1>4, <1>5 DEF RowIsWhole

\* The row of a signal whose segments follow those before.
LEMMA NewRowIsWhole ==
  ASSUME NEW S, NEW W \in Seq(S), NEW Y \in Seq(S), NEW max \in Nat, Extends(W, Y), ~Over(Y, max),
         NEW first, NEW last, NEW start, NEW end,
         Len(Y) < Len(W), NoGap(W, Len(Y), first, last, start), last[W[Len(W)]] = end,
         NEW row, row.first = Len(Y), row.count = Len(Cut(W, max)) - Len(Y)
  PROVE  RowIsWhole(row, Cut(W, max), Over(W, max), first, last, start, end)
<1> DEFINE C == Cut(W, max)
           m == Len(Y)
<1>1. /\ Len(C) =< Len(W) /\ Len(C) \in Nat
      /\ \A x \in 1..Len(C) : C[x] = W[x]
      /\ ~Over(W, max) => C = W
  BY CutProperties
<1>2. m \in Nat /\ Len(W) \in Nat
  OBVIOUS
<1>3. m =< Len(C)
  BY CutExtends DEF Extends
<1>4. row.first = m /\ row.count = Len(C) - m
  OBVIOUS
<1>5. \A x \in (m + 1)..Len(W) : first[W[x]] = IF x = m + 1 THEN start ELSE last[W[x - 1]]
  BY DEF NoGap
<1>6. m < Len(W) /\ last[W[Len(W)]] = end
  OBVIOUS
<1> HIDE DEF C, m
<1>7. ASSUME NEW n \in 1..row.count
      PROVE  first[C[row.first + n]] = IF n = 1 THEN start ELSE last[C[row.first + (n - 1)]]
  <2>1. /\ m + n \in (m + 1)..Len(W) /\ m + n \in 1..Len(C)
        /\ n # 1 => m + (n - 1) \in 1..Len(C) /\ (m + n) - 1 = m + (n - 1)
        /\ (m + n = m + 1) <=> (n = 1)
    BY <1>1, <1>2, <1>3, <1>4
  <2>2. first[W[m + n]] = IF n = 1 THEN start ELSE last[W[(m + n) - 1]]
    BY <1>5, <2>1
  <2> QED
    BY <1>1, <1>4, <2>1, <2>2
<1>8. ASSUME ~Over(W, max) PROVE row.count > 0 /\ last[C[row.first + row.count]] = end
  <2>1. C = W /\ row.count > 0 /\ row.first + row.count = Len(W)
    BY <1>1, <1>2, <1>4, <1>6, <1>8
  <2> QED
    BY <1>6, <2>1
<1>9. row.first \in Nat /\ row.count \in Nat /\ row.first + row.count =< Len(C)
  BY <1>1, <1>2, <1>3, <1>4
<1> QED
  BY <1>7, <1>8, <1>9 DEF RowIsWhole, C

AllWhole(c, first, last, start, end) ==
  \A i \in 1..Len(c.table) : RowIsWhole(c.table[i], c.segments, c.truncated, first, last, start, end)

\* A frame under a limit, and the one there would be without.
IsFrame(S, x, y, max, first, last, start, end) ==
  /\ x \in ColumnsOf(S) /\ y \in ColumnsOf(S)
  /\ IsCut(x, y, max)
  /\ y.truncated = FALSE
  /\ AllWhole(x, first, last, start, end)

LEMMA OneMoreRow ==
  ASSUME NEW S, NEW x, NEW y, NEW max \in Nat,
         NEW first, NEW last, NEW start \in Int, NEW end \in Int, start < end,
         IsFrame(S, x, y, max, first, last, start, end),
         NEW row \in RowsOf(S), FollowEachOther(row.pieces, first, last, start, end),
         NEW a, a = AppendSignalSegments(x, row, max),
         NEW b, b = AppendSignalSegments(y, row, 0)
  PROVE  IsFrame(S, a, b, max, first, last, start, end)
<1>1. x \in ColumnsOf(S) /\ y \in ColumnsOf(S) /\ IsCut(x, y, max) /\ y.truncated = FALSE
  BY DEF IsFrame
<1>2. PICK la : RowIsAdded(S, a, x, row, max, la)
  BY <1>1, OneRow
<1>3. PICK ub : RowIsAdded(S, b, y, row, 0, ub)
  BY <1>1, OneRow
<1>4. ub = AppendPieces(y, row.pieces, 0) /\ row.pieces \in Seq(PiecesOf(S)) /\ row.signal \in Nat
  BY <1>1, <1>3 DEF RowIsAdded, RowsOf
<1> DEFINE Y == y.segments
           W == ub.segments
<1>5. /\ ub \in ColumnsOf(S) /\ ub.truncated = FALSE
      /\ Extends(W, Y) /\ Len(Y) < Len(W)
      /\ NoGap(W, Len(Y), first, last, start)
      /\ last[W[Len(W)]] = end
  <2>1. /\ ub \in ColumnsOf(S) /\ ub.truncated = y.truncated
        /\ Extends(W, Y) /\ Len(Y) < Len(W)
        /\ NoGap(W, Len(Y), first, last, start)
        /\ last[W[Len(W)]] = end
    BY <1>1, <1>4, PiecesWithoutLimit
  <2> QED
    BY <1>1, <2>1
<1>6. b \in ColumnsOf(S) /\ b.segments = W /\ b.truncated = FALSE
  BY <1>3, <1>5 DEF RowIsAdded
<1>7. W \in Seq(S) /\ Y \in Seq(S) /\ Len(Y) \in Nat /\ x.segments \in Seq(S) /\ x.table \in Seq(TableRows)
  BY <1>1, <1>5 DEF ColumnsOf
<1>8. x.segments = Cut(Y, max) /\ x.truncated = Over(Y, max)
  BY <1>1 DEF IsCut
<1>9. a \in ColumnsOf(S)
  BY <1>2 DEF RowIsAdded
<1> DEFINE new == [signal |-> row.signal, first |-> Len(x.segments),
                   count |-> Len(la.segments) - Len(x.segments)]
<1>10. a.table = Append(la.table, new) /\ a.segments = la.segments /\ a.truncated = la.truncated
  BY <1>2 DEF RowIsAdded
<1>11. /\ a.segments = Cut(W, max) /\ a.truncated = Over(W, max)
       /\ la.table = x.table
       /\ RowIsWhole(new, a.segments, a.truncated, first, last, start, end)
       /\ \A i \in 1..Len(x.table) : RowIsWhole(x.table[i], a.segments, a.truncated, first, last, start, end)
  <2>1. CASE Over(Y, max)
    <3>1. la = x
      BY <1>2, <1>8, <2>1 DEF RowIsAdded
    <3>2. Over(W, max) /\ Cut(W, max) = Cut(Y, max)
      BY <1>5, <1>7, <2>1, CutStays
    <3>3. a.segments = x.segments /\ a.truncated = x.truncated
      BY <1>10, <3>1
    <3>4. Over(W, max) = Over(Y, max)
      BY <2>1, <3>2 DEF Over
    <3>5. new.first = Len(x.segments) /\ new.count = 0 /\ a.truncated
      <4>1. Len(x.segments) \in Nat
        BY <1>7
      <4> QED
        BY <1>8, <2>1, <3>1, <3>3, <4>1
    <3> HIDE DEF new, W, Y
    <3>6. RowIsWhole(new, a.segments, a.truncated, first, last, start, end)
      <4>1. Len(x.segments) \in Nat
        BY <1>7
      <4> QED
        BY <3>3, <3>5, <4>1 DEF RowIsWhole
    <3>7. AllWhole(x, first, last, start, end)
      BY DEF IsFrame
    <3> QED
      BY <1>8, <3>1, <3>2, <3>3, <3>4, <3>6, <3>7 DEF AllWhole
  <2>2. CASE ~Over(Y, max)
    <3>1. la = AppendPieces(x, row.pieces, max)
      BY <1>2, <1>8, <2>2 DEF RowIsAdded
    <3>2. x.segments = Y /\ ~x.truncated
      BY <1>7, <1>8, <2>2, CutProperties
    <3>3. IsCut(la, ub, max) /\ la.table = x.table
      BY <1>1, <1>4, <3>1, PiecesWithLimit
    <3>4. a.segments = Cut(W, max) /\ a.truncated = Over(W, max)
      BY <1>10, <3>3 DEF IsCut
    <3>5. new.first = Len(Y) /\ new.count = Len(Cut(W, max)) - Len(Y)
      BY <1>10, <3>2, <3>4
    <3> HIDE DEF new, W, Y
    <3>6. RowIsWhole(new, Cut(W, max), Over(W, max), first, last, start, end)
      BY <1>5, <1>7, <2>2, <3>5, NewRowIsWhole
    <3>7. Extends(Cut(W, max), Y)
      BY <1>5, <1>7, <2>2, CutExtends
    <3>8. Cut(W, max) \in Seq(S)
      BY <1>9, <3>4 DEF ColumnsOf
    <3>9. \A i \in 1..Len(x.table) : RowIsWhole(x.table[i], Cut(W, max), Over(W, max), first, last, start, end)
      <4>1. ASSUME NEW i \in 1..Len(x.table)
            PROVE  RowIsWhole(x.table[i], Cut(W, max), Over(W, max), first, last, start, end)
        <5>1. RowIsWhole(x.table[i], Y, x.truncated, first, last, start, end)
          BY <3>2 DEF IsFrame, AllWhole
        <5> QED
          BY <1>7, <3>2, <3>7, <3>8, <5>1, RowStaysWhole
      <4> QED
        BY <4>1
    <3> QED
      BY <3>3, <3>4, <3>6, <3>9
  <2> QED
    BY <2>1, <2>2
<1>12. AllWhole(a, first, last, start, end)
  <2> HIDE DEF new, W, Y
  <2>1. new \in TableRows
    <3>1. Len(x.segments) \in Nat /\ Len(la.segments) \in Nat
      <4>1. la \in ColumnsOf(S)
        BY <1>2 DEF RowIsAdded
      <4> QED
        BY <1>7, <4>1 DEF ColumnsOf
    <3> QED
      BY <1>4, <3>1 DEF TableRows, new
  <2>2. /\ Len(a.table) = Len(x.table) + 1 /\ Len(x.table) \in Nat
        /\ \A i \in 1..Len(x.table) : a.table[i] = x.table[i]
        /\ a.table[Len(x.table) + 1] = new
    BY <1>7, <1>10, <1>11, <2>1, AppendProperties
  <2>3. ASSUME NEW i \in 1..Len(a.table)
        PROVE  RowIsWhole(a.table[i], a.segments, a.truncated, first, last, start, end)
    <3>1. i \in 1..Len(x.table) \/ i = Len(x.table) + 1
      BY <2>2
    <3> QED
      BY <1>11, <2>2, <3>1
  <2> QED
    BY <2>3 DEF AllWhole
<1>13. IsCut(a, b, max)
  BY <1>6, <1>11 DEF IsCut
<1> QED
  BY <1>6, <1>9, <1>12, <1>13 DEF IsFrame

LEMMA EncodedFrame ==
  ASSUME NEW S, NEW rows \in Seq(RowsOf(S)), NEW max \in Nat,
         NEW first, NEW last, NEW start \in Int, NEW end \in Int, start < end,
         \A k \in 1..Len(rows) : FollowEachOther(rows[k].pieces, first, last, start, end)
  PROVE  IsFrame(S, EncodeRows(rows, max), EncodeRows(rows, 0), max, first, last, start, end)
<1> DEFINE n == Len(rows)
<1>1. PICK h : RowAfterRow(h, rows, max) /\ EncodeRows(rows, max) = h[n]
  BY RowsAreAppended
<1>2. PICK g : RowAfterRow(g, rows, 0) /\ EncodeRows(rows, 0) = g[n]
  BY RowsAreAppended
<1>3. n \in Nat /\ n \in 0..n
  OBVIOUS
<1> DEFINE G == {k \in 0..n : IsFrame(S, h[k], g[k], max, first, last, start, end)}
<1>4. 0 \in G
  <2>1. h[0] = NoColumns /\ g[0] = NoColumns
    BY <1>1, <1>2 DEF RowAfterRow
  <2>2. NoColumns.segments = << >> /\ NoColumns.table = << >> /\ NoColumns.truncated = FALSE
    BY DEF NoColumns
  <2>3. Cut(<< >>, max) = << >> /\ Over(<< >>, max) = FALSE
    BY DEF Cut, Over
  <2>4. IsCut(NoColumns, NoColumns, max) /\ AllWhole(NoColumns, first, last, start, end)
    <3>1. Cut(NoColumns.segments, max) = NoColumns.segments /\ Over(NoColumns.segments, max) = NoColumns.truncated
      BY <2>2, <2>3, Zenon
    <3>2. IsCut(NoColumns, NoColumns, max)
      BY <3>1, Zenon DEF IsCut
    <3>3. 1..Len(NoColumns.table) = {}
      BY <2>2
    <3> QED
      BY <3>2, <3>3 DEF AllWhole
  <2>5. IsFrame(S, NoColumns, NoColumns, max, first, last, start, end)
    BY <2>2, <2>4, NoColumnsType DEF IsFrame
  <2> QED
    BY <1>3, <2>1, <2>5
<1>5. ASSUME NEW k \in 1..n, k - 1 \in G PROVE k \in G
  <2>1. rows[k] \in RowsOf(S)
    BY ElementOfSeq
  <2>2. h[k] = AppendSignalSegments(h[k - 1], rows[k], max) /\ g[k] = AppendSignalSegments(g[k - 1], rows[k], 0)
    BY <1>1, <1>2 DEF RowAfterRow
  <2>3. IsFrame(S, h[k - 1], g[k - 1], max, first, last, start, end)
    BY <1>5
  <2>4. FollowEachOther(rows[k].pieces, first, last, start, end)
    OBVIOUS
  <2>5. IsFrame(S, h[k], g[k], max, first, last, start, end)
    BY <2>1, <2>2, <2>3, <2>4, OneMoreRow
  <2> QED
    BY <2>5
<1>6. n \in G
  <2> HIDE DEF G, n
  <2> QED
    BY <1>3, <1>4, <1>5, UpToInduction
<1> QED
  BY <1>1, <1>2, <1>6

-----------------------------------------------------------------------------
(* Changes in the order of time *)

OnlyAfterOnly(h, s, elements) ==
  /\ h[0] = << >>
  /\ \A k \in 1..Len(s) : h[k] = IF s[k] \in elements THEN Append(h[k - 1], s[k]) ELSE h[k - 1]

LEMMA OnlyStepByStep ==
  ASSUME NEW T, NEW s \in Seq(T), NEW elements
  PROVE  \E h : /\ OnlyAfterOnly(h, s, elements)
                /\ Only(s, elements) = h[Len(s)]
                /\ \A k \in 0..Len(s) : h[k] \in Seq(T)
<1> DEFINE n == Len(s)
           op(c, e) == IF e \in elements THEN Append(c, e) ELSE c
           F == [x \in Seq(T) \X (1..n) |-> op(x[1], s[x[2]])]
           sets == SUBSET (1..n)
           base == << >>
           step(g, m) == IF m = {} THEN base ELSE op(g[m \ {Max(m)}], s[Max(m)])
           it == CHOOSE g : g = [m \in sets |-> step(g, m)]
<1>1. n \in Nat /\ DOMAIN s = 1..n
  OBVIOUS
<1>2. F \in [Seq(T) \X (1..n) -> Seq(T)]
  <2>1. ASSUME NEW c \in Seq(T), NEW k \in 1..n PROVE op(c, s[k]) \in Seq(T)
    <3>1. s[k] \in T
      BY ElementOfSeq
    <3> QED
      BY <3>1, AppendProperties
  <2> HIDE DEF op
  <2> QED
    BY <2>1
<1>3. PICK g : OverSets(g, n, Seq(T), base, F)
  <2>1. base \in Seq(T)
    OBVIOUS
  <2> HIDE DEF F, n, base
  <2> QED
    BY <1>1, <1>2, <2>1, SetRecursion
<1>4. g = [m \in sets |-> step(g, m)]
  <2>1. ASSUME NEW m \in sets PROVE g[m] = step(g, m)
    <3> HIDE DEF base
    <3>1. CASE m # {}
      <4>1. Max(m) \in 1..n /\ m \ {Max(m)} \in sets
        BY <1>1, <3>1, Greatest
      <4>2. g[m] = F[<<g[m \ {Max(m)}], Max(m)>>] /\ g[m \ {Max(m)}] \in Seq(T)
        BY <1>3, <3>1, <4>1 DEF OverSets
      <4> QED
        BY <3>1, <4>1, <4>2
    <3>2. CASE m = {}
      BY <1>3, <3>2 DEF OverSets
    <3> QED
      BY <3>1, <3>2
  <2> HIDE DEF step
  <2> QED
    BY <1>3, <2>1 DEF OverSets
<1>5. it = [m \in sets |-> step(it, m)] /\ it = it
  <2> HIDE DEF step, sets
  <2> QED
    BY <1>4
<1>6. Only(s, elements) = it[1..n]
  BY <1>1 DEF Only, FoldLeft, MapThenFoldSet
<1> DEFINE h == [k \in 0..n |-> it[1..k]]
<1> HIDE DEF it
<1>7. h[0] = base
  <2> HIDE DEF base
  <2> QED
    BY <1>1, <1>5, Initials
<1>8. ASSUME NEW k \in 1..n PROVE h[k] = op(h[k - 1], s[k])
  <2>1. /\ 1..k \in sets /\ 1..k # {} /\ Max(1..k) = k /\ (1..k) \ {k} = 1..(k - 1)
        /\ k \in 0..n /\ k - 1 \in 0..n
    BY <1>1, Initials
  <2>2. it[1..k] = step(it, 1..k)
    <3> HIDE DEF step, sets
    <3> QED
      BY <1>5, <2>1
  <2>3. step(it, 1..k) = op(it[1..(k - 1)], s[k])
    <3> HIDE DEF op, base
    <3> QED
      BY <2>1
  <2>4. h[k] = it[1..k] /\ h[k - 1] = it[1..(k - 1)]
    BY <2>1
  <2> HIDE DEF op, step, h
  <2> QED
    BY <2>2, <2>3, <2>4
<1>9. Only(s, elements) = h[n]
  BY <1>1, <1>6
<1> DEFINE G == {k \in 0..n : h[k] \in Seq(T)}
<1>10. \A k \in 0..n : k \in G
  <2>1. 0 \in G
    <3>1. base \in Seq(T) /\ 0 \in 0..n
      BY <1>1
    <3> HIDE DEF h, base
    <3> QED
      BY <1>7, <3>1
  <2>2. ASSUME NEW k \in 1..n, k - 1 \in G PROVE k \in G
    <3>1. h[k - 1] \in Seq(T) /\ k \in 0..n
      BY <2>2
    <3> HIDE DEF h
    <3>2. s[k] \in T
      BY ElementOfSeq
    <3>3. h[k] = op(h[k - 1], s[k])
      BY <1>8
    <3>4. h[k] \in Seq(T)
      <4>1. CASE s[k] \in elements
        BY <3>1, <3>2, <3>3, <4>1, AppendProperties
      <4>2. CASE s[k] \notin elements
        BY <3>1, <3>3, <4>2
      <4> QED
        BY <4>1, <4>2
    <3> QED
      BY <3>1, <3>4
  <2> HIDE DEF G, n
  <2> QED
    BY <1>1, <2>1, <2>2, UpToInduction
<1> QED
  BY <1>7, <1>8, <1>9, <1>10 DEF OnlyAfterOnly

\* The elements of the result are elements of the set, and of the sequence.
LEMMA OnlyProperties ==
  ASSUME NEW T, NEW s \in Seq(T), NEW elements
  PROVE  /\ Only(s, elements) \in Seq(T)
         /\ \A x \in 1..Len(Only(s, elements)) :
               /\ Only(s, elements)[x] \in elements
               /\ \E i \in 1..Len(s) : Only(s, elements)[x] = s[i]
<1> DEFINE n == Len(s)
<1>1. PICK h : /\ OnlyAfterOnly(h, s, elements)
               /\ Only(s, elements) = h[n]
               /\ \A k \in 0..n : h[k] \in Seq(T)
  BY OnlyStepByStep
<1>2. n \in Nat /\ n \in 0..n
  OBVIOUS
<1> DEFINE good(z) == \A x \in 1..Len(z) : z[x] \in elements /\ \E i \in 1..n : z[x] = s[i]
           G == {k \in 0..n : good(h[k])}
<1>3. 0 \in G
  <2>1. h[0] = << >> /\ 1..Len(<< >>) = {}
    BY <1>1 DEF OnlyAfterOnly
  <2> QED
    BY <1>2, <2>1
<1>4. ASSUME NEW k \in 1..n, k - 1 \in G PROVE k \in G
  <2> DEFINE z == h[k - 1]
             e == s[k]
  <2>1. good(z) /\ z \in Seq(T) /\ Len(z) \in Nat
    BY <1>1, <1>4
  <2>2. h[k] = IF e \in elements THEN Append(z, e) ELSE z
    BY <1>1 DEF OnlyAfterOnly
  <2>3. e \in T
    BY ElementOfSeq
  <2>4. CASE e \in elements
    <3> DEFINE y == Append(z, e)
    <3>1. /\ Len(y) = Len(z) + 1 /\ y[Len(z) + 1] = e
          /\ \A x \in 1..Len(z) : y[x] = z[x]
      <4> HIDE DEF z, e
      <4> QED
        BY <2>1, <2>3, AppendProperties
    <3> HIDE DEF y, z
    <3>2. good(y)
      <4>1. ASSUME NEW x \in 1..Len(y) PROVE y[x] \in elements /\ \E i \in 1..n : y[x] = s[i]
        <5>1. x \in 1..Len(z) \/ x = Len(z) + 1
          BY <2>1, <3>1
        <5> QED
          BY <2>1, <2>4, <3>1, <5>1
      <4> QED
        BY <4>1
    <3>3. h[k] = y
      BY <2>2, <2>4 DEF y, z
    <3>4. good(h[k])
      BY <3>2, <3>3
    <3> QED
      BY <3>4
  <2>5. CASE e \notin elements
    BY <2>1, <2>2, <2>5
  <2> QED
    BY <2>4, <2>5
<1>5. n \in G
  <2> HIDE DEF G, n
  <2> QED
    BY <1>2, <1>3, <1>4, UpToInduction
<1> QED
  BY <1>1, <1>2, <1>5

\* Elements with times, in their order.
InTime(z) ==
  /\ \A x \in DOMAIN z : z[x].time \in Int
  /\ \A x, y \in DOMAIN z : x =< y => z[x].time =< z[y].time

LEMMA OnlyInTime ==
  ASSUME NEW T, NEW s \in Seq(T), NEW elements, InTime(s)
  PROVE  InTime(Only(s, elements))
<1> DEFINE n == Len(s)
<1>1. PICK h : /\ OnlyAfterOnly(h, s, elements)
               /\ Only(s, elements) = h[n]
               /\ \A k \in 0..n : h[k] \in Seq(T)
  BY OnlyStepByStep
<1>2. n \in Nat /\ n \in 0..n /\ DOMAIN s = 1..n
  OBVIOUS
<1> DEFINE good(z, k) == /\ InTime(z)
                         /\ \A x \in 1..Len(z) : \E i \in 1..k : z[x] = s[i]
           G == {k \in 0..n : good(h[k], k)}
<1>3. 0 \in G
  <2>1. h[0] = << >> /\ DOMAIN << >> = {} /\ 1..Len(<< >>) = {}
    BY <1>1 DEF OnlyAfterOnly
  <2> QED
    BY <1>2, <2>1 DEF InTime
<1>4. ASSUME NEW k \in 1..n, k - 1 \in G PROVE k \in G
  <2> DEFINE z == h[k - 1]
             e == s[k]
  <2>1. good(z, k - 1) /\ z \in Seq(T) /\ Len(z) \in Nat /\ DOMAIN z = 1..Len(z)
    BY <1>1, <1>4
  <2>2. h[k] = IF e \in elements THEN Append(z, e) ELSE z
    BY <1>1 DEF OnlyAfterOnly
  <2>3. e \in T
    BY ElementOfSeq
  <2>4. \A x \in 1..Len(z) : \E i \in 1..k : z[x] = s[i]
    BY <2>1
  <2>5. CASE e \in elements
    <3> DEFINE y == Append(z, e)
    <3>1. /\ Len(y) = Len(z) + 1 /\ y[Len(z) + 1] = e /\ y \in Seq(T) /\ DOMAIN y = 1..Len(y)
          /\ \A x \in 1..Len(z) : y[x] = z[x]
      <4> HIDE DEF z, e
      <4> QED
        BY <2>1, <2>3, AppendProperties
    <3>2. \A x \in 1..Len(z) : z[x].time \in Int /\ z[x].time =< e.time
      <4>1. ASSUME NEW x \in 1..Len(z) PROVE z[x].time \in Int /\ z[x].time =< e.time
        <5>1. PICK i \in 1..k : z[x] = s[i]
          BY <2>4
        <5>2. i \in DOMAIN s /\ k \in DOMAIN s /\ i =< k
          BY <1>2, <5>1
        <5> QED
          BY <5>1, <5>2 DEF InTime
      <4> QED
        BY <4>1
    <3>3. e.time \in Int
      BY <1>2 DEF InTime
    <3>4. InTime(z)
      BY <2>1
    <3> HIDE DEF y, z
    <3>5. ASSUME NEW x \in DOMAIN y PROVE y[x].time \in Int
      <4>1. x \in 1..Len(z) \/ x = Len(z) + 1
        BY <2>1, <3>1
      <4> QED
        BY <3>1, <3>2, <3>3, <4>1
    <3>6. ASSUME NEW x \in DOMAIN y, NEW x2 \in DOMAIN y, x =< x2 PROVE y[x].time =< y[x2].time
      <4>1. (x \in 1..Len(z) \/ x = Len(z) + 1) /\ (x2 \in 1..Len(z) \/ x2 = Len(z) + 1)
        BY <2>1, <3>1
      <4>2. CASE x2 = Len(z) + 1
        BY <3>1, <3>2, <3>3, <4>1, <4>2
      <4>3. CASE x2 \in 1..Len(z)
        <5>1. x \in 1..Len(z)
          BY <2>1, <3>6, <4>1, <4>3
        <5>2. z[x].time =< z[x2].time
          BY <2>1, <3>4, <3>6, <4>3, <5>1 DEF InTime
        <5> QED
          BY <3>1, <4>3, <5>1, <5>2
      <4> QED
        BY <4>1, <4>2, <4>3
    <3>7. InTime(y)
      BY <3>5, <3>6 DEF InTime
    <3>8. \A x \in 1..Len(y) : \E i \in 1..k : y[x] = s[i]
      <4>1. ASSUME NEW x \in 1..Len(y) PROVE \E i \in 1..k : y[x] = s[i]
        <5>1. x \in 1..Len(z) \/ x = Len(z) + 1
          BY <2>1, <3>1
        <5>2. k \in 1..k
          BY <1>2
        <5> QED
          BY <2>4, <3>1, <5>1, <5>2
      <4> QED
        BY <4>1
    <3>9. h[k] = y
      BY <2>2, <2>5 DEF y, z
    <3>10. good(h[k], k)
      BY <3>7, <3>8, <3>9
    <3> QED
      BY <3>10
  <2>6. CASE e \notin elements
    <3>1. h[k] = z
      BY <2>2, <2>6
    <3> HIDE DEF z
    <3>2. good(h[k], k)
      BY <2>1, <2>4, <3>1
    <3> QED
      BY <3>2
  <2> QED
    BY <2>5, <2>6
<1>5. n \in G
  <2> HIDE DEF G, n
  <2> QED
    BY <1>2, <1>3, <1>4, UpToInduction
<1> QED
  BY <1>1, <1>2, <1>5

LEMMA OneAfterTheOther ==
  ASSUME NEW T, NEW a \in Seq(T), NEW b \in Seq(T), InTime(a), InTime(b),
         \A x \in DOMAIN a : \A y \in DOMAIN b : a[x].time =< b[y].time
  PROVE  a \o b \in Seq(T) /\ InTime(a \o b)
<1> DEFINE c == a \o b
<1>1. /\ c \in Seq(T) /\ Len(c) = Len(a) + Len(b)
      /\ \A x \in 1..(Len(a) + Len(b)) : c[x] = IF x =< Len(a) THEN a[x] ELSE b[x - Len(a)]
  BY ConcatProperties
<1>2. /\ Len(a) \in Nat /\ Len(b) \in Nat /\ DOMAIN a = 1..Len(a) /\ DOMAIN b = 1..Len(b)
      /\ DOMAIN c = 1..(Len(a) + Len(b))
  BY <1>1
<1> HIDE DEF c
<1>3. ASSUME NEW x \in DOMAIN c
      PROVE  \/ x \in DOMAIN a /\ c[x] = a[x]
             \/ x > Len(a) /\ x - Len(a) \in DOMAIN b /\ c[x] = b[x - Len(a)]
  <2>1. CASE x =< Len(a)
    BY <1>1, <1>2, <2>1
  <2>2. CASE x > Len(a)
    BY <1>1, <1>2, <2>2
  <2> QED
    BY <1>2, <2>1, <2>2
<1>4. \A x \in DOMAIN c : c[x].time \in Int
  BY <1>3 DEF InTime
<1>5. ASSUME NEW x \in DOMAIN c, NEW y \in DOMAIN c, x =< y PROVE c[x].time =< c[y].time
  <2>1. CASE x \in DOMAIN a /\ c[x] = a[x]
    <3>1. CASE y \in DOMAIN a /\ c[y] = a[y]
      BY <1>5, <2>1, <3>1 DEF InTime
    <3>2. CASE y - Len(a) \in DOMAIN b /\ c[y] = b[y - Len(a)]
      BY <2>1, <3>2
    <3> QED
      BY <1>3, <3>1, <3>2
  <2>2. CASE x > Len(a) /\ x - Len(a) \in DOMAIN b /\ c[x] = b[x - Len(a)]
    <3>1. y > Len(a) /\ y \in 1..(Len(a) + Len(b)) /\ x \in 1..(Len(a) + Len(b))
      BY <1>2, <1>5, <2>2
    <3>2. y - Len(a) \in DOMAIN b /\ c[y] = b[y - Len(a)] /\ x - Len(a) =< y - Len(a)
      BY <1>1, <1>2, <1>5, <3>1
    <3> QED
      BY <2>2, <3>2 DEF InTime
  <2> QED
    BY <1>3, <2>1, <2>2
<1> QED
  BY <1>1, <1>4, <1>5 DEF InTime, c

LEMMA PutInTimeKeepsOrder ==
  ASSUME NEW T, NEW s \in Seq(T), InTime(s), NEW t \in T, t.time \in Int
  PROVE  PutInTime(s, t) \in Seq(T) /\ InTime(PutInTime(s, t))
<1> DEFINE later == {e \in ToSet(s) : e.time > t.time}
           a == Only(s, ToSet(s) \ later)
           b == Only(s, later)
           one == << t >>
<1>1. a \in Seq(T) /\ b \in Seq(T) /\ InTime(a) /\ InTime(b)
  <2> HIDE DEF later
  <2> QED
    BY OnlyProperties, OnlyInTime
<1>2. \A x \in DOMAIN a : a[x].time =< t.time
  <2>1. ASSUME NEW x \in DOMAIN a PROVE a[x].time =< t.time
    <3>1. x \in 1..Len(a)
      <4> HIDE DEF a
      <4> QED
        BY <1>1
    <3>2. a[x] \in ToSet(s) \ later
      <4> HIDE DEF later
      <4> QED
        BY <3>1, OnlyProperties
    <3>3. a[x].time \in Int
      BY <1>1, <2>1 DEF InTime
    <3> HIDE DEF a
    <3> QED
      BY <3>2, <3>3
  <2> QED
    BY <2>1
<1>3. \A x \in DOMAIN b : t.time =< b[x].time
  <2>1. ASSUME NEW x \in DOMAIN b PROVE t.time =< b[x].time
    <3>1. x \in 1..Len(b)
      <4> HIDE DEF b
      <4> QED
        BY <1>1
    <3>2. b[x] \in later
      <4> HIDE DEF later
      <4> QED
        BY <3>1, OnlyProperties
    <3>3. b[x].time \in Int
      BY <1>1, <2>1 DEF InTime
    <3> HIDE DEF b
    <3> QED
      BY <3>2, <3>3
  <2> QED
    BY <2>1
<1>4. one \in Seq(T) /\ Len(one) = 1 /\ DOMAIN one = {1} /\ one[1] = t
  OBVIOUS
<1>5. InTime(one)
  <2> HIDE DEF one
  <2> QED
    BY <1>4 DEF InTime
<1>6. PutInTime(s, t) = (a \o one) \o b
  BY DEF PutInTime
<1> HIDE DEF a, b, one, later
<1>7. a \o one \in Seq(T) /\ InTime(a \o one)
  <2>1. \A x \in DOMAIN a : \A y \in DOMAIN one : a[x].time =< one[y].time
    BY <1>2, <1>4
  <2> QED
    BY <1>1, <1>4, <1>5, <2>1, OneAfterTheOther
<1>8. \A x \in DOMAIN (a \o one) : \A y \in DOMAIN b : (a \o one)[x].time =< b[y].time
  <2>1. ASSUME NEW x \in DOMAIN (a \o one), NEW y \in DOMAIN b PROVE (a \o one)[x].time =< b[y].time
    <3>1. /\ Len(a \o one) = Len(a) + 1 /\ Len(a) \in Nat
          /\ \A z \in 1..(Len(a) + 1) : (a \o one)[z] = IF z =< Len(a) THEN a[z] ELSE one[z - Len(a)]
      <4>1. /\ Len(a \o one) = Len(a) + Len(one)
            /\ \A z \in 1..(Len(a) + Len(one)) : (a \o one)[z] = IF z =< Len(a) THEN a[z] ELSE one[z - Len(a)]
        BY <1>1, <1>4, ConcatProperties
      <4> QED
        BY <1>1, <1>4, <4>1
    <3>2. x \in 1..(Len(a) + 1) /\ DOMAIN a = 1..Len(a)
      BY <1>1, <1>7, <3>1
    <3>3. t.time =< b[y].time /\ b[y].time \in Int
      BY <1>1, <1>3 DEF InTime
    <3>4. CASE x =< Len(a)
      <4>1. (a \o one)[x] = a[x] /\ x \in DOMAIN a
        BY <3>1, <3>2, <3>4
      <4>2. a[x].time =< t.time /\ a[x].time \in Int
        BY <1>1, <1>2, <4>1 DEF InTime
      <4> QED
        BY <3>3, <4>1, <4>2
    <3>5. CASE x = Len(a) + 1
      <4>1. (a \o one)[x] = t
        BY <1>4, <3>1, <3>2, <3>5
      <4> QED
        BY <3>3, <4>1
    <3> QED
      BY <3>1, <3>2, <3>4, <3>5
  <2> QED
    BY <2>1
<1> QED
  BY <1>1, <1>6, <1>7, <1>8, OneAfterTheOther

\* What TransitionsFor sorts is in the order of time.
LEMMA SortedInTime ==
  ASSUME NEW T, NEW s \in Seq(T), \A t \in T : t.time \in Int
  PROVE  FoldLeft(PutInTime, << >>, s) \in Seq(T) /\ InTime(FoldLeft(PutInTime, << >>, s))
<1> DEFINE n == Len(s)
           Z == {z \in Seq(T) : InTime(z)}
           base == << >>
           F == [x \in Z \X (1..n) |-> PutInTime(x[1], s[x[2]])]
           sets == SUBSET (1..n)
           step(g, m) == IF m = {} THEN base ELSE PutInTime(g[m \ {Max(m)}], s[Max(m)])
           it == CHOOSE g : g = [m \in sets |-> step(g, m)]
<1>1. n \in Nat /\ DOMAIN s = 1..n
  OBVIOUS
<1>2. F \in [Z \X (1..n) -> Z]
  <2>1. ASSUME NEW c \in Z, NEW k \in 1..n PROVE PutInTime(c, s[k]) \in Z
    <3>1. s[k] \in T
      BY ElementOfSeq
    <3> QED
      BY <3>1, PutInTimeKeepsOrder
  <2> HIDE DEF Z
  <2> QED
    BY <2>1
<1>3. PICK g : OverSets(g, n, Z, base, F)
  <2>1. base \in Z
    BY DEF InTime
  <2> HIDE DEF F, n, base, Z
  <2> QED
    BY <1>1, <1>2, <2>1, SetRecursion
<1>4. g = [m \in sets |-> step(g, m)]
  <2>1. ASSUME NEW m \in sets PROVE g[m] = step(g, m)
    <3> HIDE DEF base, Z
    <3>1. CASE m # {}
      <4>1. Max(m) \in 1..n /\ m \ {Max(m)} \in sets
        BY <1>1, <3>1, Greatest
      <4>2. g[m] = F[<<g[m \ {Max(m)}], Max(m)>>] /\ g[m \ {Max(m)}] \in Z
        BY <1>3, <3>1, <4>1 DEF OverSets
      <4> QED
        BY <3>1, <4>1, <4>2
    <3>2. CASE m = {}
      BY <1>3, <3>2 DEF OverSets
    <3> QED
      BY <3>1, <3>2
  <2> HIDE DEF step
  <2> QED
    BY <1>3, <2>1 DEF OverSets
<1>5. it = [m \in sets |-> step(it, m)]
  <2> HIDE DEF step, sets
  <2> QED
    BY <1>4
<1>6. FoldLeft(PutInTime, << >>, s) = it[1..n]
  BY <1>1 DEF FoldLeft, MapThenFoldSet
<1> DEFINE h == [k \in 0..n |-> it[1..k]]
<1> HIDE DEF it
<1>7. h[0] = base
  <2> HIDE DEF base
  <2> QED
    BY <1>1, <1>5, Initials
<1>8. ASSUME NEW k \in 1..n PROVE h[k] = PutInTime(h[k - 1], s[k])
  <2>1. /\ 1..k \in sets /\ 1..k # {} /\ Max(1..k) = k /\ (1..k) \ {k} = 1..(k - 1)
        /\ k \in 0..n /\ k - 1 \in 0..n
    <3> HIDE DEF n
    <3> QED
      BY <1>1, Initials
  <2>2. it[1..k] = step(it, 1..k)
    <3> HIDE DEF step, sets
    <3> QED
      BY <1>5, <2>1
  <2>3. step(it, 1..k) = PutInTime(it[1..(k - 1)], s[k])
    <3> HIDE DEF base
    <3> QED
      BY <2>1
  <2>4. h[k] = it[1..k] /\ h[k - 1] = it[1..(k - 1)]
    BY <2>1
  <2> HIDE DEF step, h
  <2> QED
    BY <2>2, <2>3, <2>4
<1>9. FoldLeft(PutInTime, << >>, s) = h[n]
  BY <1>1, <1>6
<1> DEFINE G == {k \in 0..n : h[k] \in Z}
<1>10. n \in G
  <2>1. 0 \in G
    <3>1. base \in Z /\ 0 \in 0..n
      BY <1>1 DEF InTime
    <3> HIDE DEF h, base, Z
    <3> QED
      BY <1>7, <3>1
  <2>2. ASSUME NEW k \in 1..n, k - 1 \in G PROVE k \in G
    <3>1. h[k - 1] \in Z /\ k \in 0..n
      BY <2>2
    <3> HIDE DEF h
    <3>2. s[k] \in T
      BY ElementOfSeq
    <3>3. PutInTime(h[k - 1], s[k]) \in Z
      BY <3>1, <3>2, PutInTimeKeepsOrder
    <3> HIDE DEF Z
    <3> QED
      BY <1>8, <3>1, <3>3
  <2>3. n \in 0..n
    BY <1>1
  <2> HIDE DEF G, n
  <2> QED
    BY <1>1, <2>1, <2>2, <2>3, UpToInduction
<1> QED
  BY <1>9, <1>10

LEMMA OfItsElements ==
  ASSUME NEW T, NEW s \in Seq(T)
  PROVE  IsSeq(s)
<1>1. s \in [1..Len(s) -> T] /\ Len(s) \in Nat
  OBVIOUS
<1>2. s \in [1..Len(s) -> {s[n] : n \in DOMAIN s}]
  BY <1>1
<1>3. s \in Seq({s[n] : n \in DOMAIN s})
  <2> DEFINE E == {s[n] : n \in DOMAIN s}
  <2> HIDE DEF E
  <2> QED
    BY <1>1, <1>2 DEF E
<1> QED
  BY <1>3 DEF IsSeq

Ordered(z) == IsSeq(z) /\ InTime(z)

LEMMA TransitionsInTime ==
  ASSUME NEW handle, NEW data, IsReading(data)
  PROVE  Ordered(TransitionsFor(handle, data))
<1> DEFINE T == {data.transitions[n] : n \in DOMAIN data.transitions}
           its == {t \in ToSet(data.transitions) : t.handle = handle}
           own == Only(data.transitions, its)
           sorted == FoldLeft(PutInTime, << >>, own)
           ticks == [n \in DOMAIN sorted |-> [time |-> Ticks * sorted[n].time, value |-> sorted[n].value]]
           unknown == [time |-> Ticks * data.start, value |-> << "x" >>]
           one == << unknown >>
           values == {t.value : t \in T} \cup {<< "x" >>}
           TT == [time : Int, value : values]
<1>1. data.transitions \in Seq(T) /\ data.start \in Int /\ \A t \in T : t.time \in Int
  BY DEF IsReading, IsSeq
<1>2. own \in Seq(T)
  <2> HIDE DEF T, its
  <2> QED
    BY <1>1, OnlyProperties
<1>3. sorted \in Seq(T) /\ InTime(sorted)
  <2> HIDE DEF T, own
  <2> QED
    BY <1>1, <1>2, SortedInTime
<1>4. TransitionsFor(handle, data) = IF sorted = << >> \/ sorted[1].time > data.start THEN one \o ticks ELSE ticks
  BY DEF TransitionsFor
<1> HIDE DEF own, its, sorted
<1>5. /\ DOMAIN sorted = 1..Len(sorted) /\ Len(sorted) \in Nat
      /\ \A n \in DOMAIN sorted : sorted[n] \in T
  BY <1>3, ElementOfSeq
<1>6. ticks \in Seq(TT)
  <2>1. ASSUME NEW n \in DOMAIN sorted
        PROVE  [time |-> Ticks * sorted[n].time, value |-> sorted[n].value] \in TT
    <3>1. sorted[n].time \in Int /\ sorted[n].value \in values
      BY <1>1, <1>5
    <3> HIDE DEF values
    <3> QED
      BY <3>1 DEF Ticks
  <2> HIDE DEF TT
  <2> QED
    BY <1>5, <2>1
<1>7. InTime(ticks)
  <2>1. \A n \in DOMAIN sorted : ticks[n].time = 2 * sorted[n].time /\ sorted[n].time \in Int
    BY <1>3 DEF InTime, Ticks
  <2>2. DOMAIN ticks = DOMAIN sorted
    OBVIOUS
  <2> HIDE DEF ticks
  <2> QED
    BY <1>3, <2>1, <2>2 DEF InTime
<1>8. CASE sorted = << >> \/ sorted[1].time > data.start
  <2>1. unknown \in TT /\ unknown.time = 2 * data.start
    BY <1>1 DEF Ticks
  <2> HIDE DEF unknown, TT
  <2>2. one \in Seq(TT) /\ DOMAIN one = {1} /\ one[1] = unknown
    BY <2>1
  <2>3. InTime(one)
    <3> HIDE DEF one
    <3> QED
      BY <1>1, <2>1, <2>2 DEF InTime
  <2>4. ASSUME NEW x \in DOMAIN one, NEW y \in DOMAIN ticks PROVE one[x].time =< ticks[y].time
    <3>1. y \in DOMAIN sorted /\ ticks[y].time = 2 * sorted[y].time
      BY DEF Ticks
    <3>2. 1 \in DOMAIN sorted /\ 1 =< y
      BY <1>5, <3>1
    <3>3. sorted[1].time > data.start
      BY <1>8, <3>1
    <3>4. sorted[1].time \in Int /\ sorted[y].time \in Int /\ sorted[1].time =< sorted[y].time
      BY <1>3, <3>1, <3>2 DEF InTime
    <3>5. one[x].time = 2 * data.start
      BY <2>1, <2>2
    <3> HIDE DEF ticks, one
    <3> QED
      BY <1>1, <3>1, <3>3, <3>4, <3>5
  <2> HIDE DEF one, ticks
  <2>5. one \o ticks \in Seq(TT) /\ InTime(one \o ticks)
    BY <1>6, <1>7, <2>2, <2>3, <2>4, OneAfterTheOther
  <2> QED
    BY <1>4, <1>8, <2>5, OfItsElements DEF Ordered
<1>9. CASE ~(sorted = << >> \/ sorted[1].time > data.start)
  <2> HIDE DEF ticks, one, TT
  <2> QED
    BY <1>4, <1>6, <1>7, <1>9, OfItsElements DEF Ordered
<1> QED
  BY <1>8, <1>9

\* Signals whose changes are in the order of time.
AreSignals(signals) ==
  /\ IsSeq(signals)
  /\ \A i \in DOMAIN signals : Ordered(signals[i].transitions)

LEMMA SignalsInTime ==
  ASSUME NEW data, IsReading(data)
  PROVE  AreSignals(ToWaveformDataSet(data).signals)
<1> DEFINE signals == ToWaveformDataSet(data).signals
<1>1. data.signals \in Seq({data.signals[n] : n \in DOMAIN data.signals})
  BY DEF IsReading, IsSeq
<1>2. DOMAIN data.signals = 1..Len(data.signals) /\ Len(data.signals) \in Nat
  <2> DEFINE E == {data.signals[n] : n \in DOMAIN data.signals}
  <2> HIDE DEF E
  <2> QED
    BY <1>1 DEF E
<1>3. /\ signals = [i \in DOMAIN data.signals |-> signals[i]]
      /\ \A i \in DOMAIN data.signals : signals[i].transitions = TransitionsFor(data.signals[i].handle, data)
  BY DEF ToWaveformDataSet
<1> HIDE DEF signals
<1>4. IsSeq(signals)
  <2>1. DOMAIN signals = 1..Len(data.signals)
    BY <1>2, <1>3
  <2>2. signals \in Seq({signals[n] : n \in DOMAIN signals})
    <3> DEFINE E == {signals[n] : n \in DOMAIN signals}
    <3>1. \A i \in 1..Len(data.signals) : signals[i] \in E
      BY <2>1
    <3>2. signals = [i \in 1..Len(data.signals) |-> signals[i]]
      BY <1>2, <1>3
    <3> HIDE DEF E
    <3>3. signals \in [1..Len(data.signals) -> E]
      BY <3>1, <3>2
    <3> QED
      BY <1>2, <3>3 DEF E
  <2> QED
    BY <2>2 DEF IsSeq
<1>5. ASSUME NEW i \in DOMAIN signals PROVE Ordered(signals[i].transitions)
  <2>1. i \in DOMAIN data.signals
    BY <1>3
  <2> QED
    BY <1>3, <2>1, TransitionsInTime
<1> QED
  BY <1>4, <1>5 DEF AreSignals, signals

-----------------------------------------------------------------------------
(* The pieces of a signal are drawn from its changes *)

IsRange(r) == r.start \in Int /\ r.end \in Int /\ r.start < r.end

\* The starts of the segments of a signal, and that each lasts to the next.
AreChanges(c, r) ==
  /\ Len(c) \in Nat /\ Len(c) # 0 /\ DOMAIN c = 1..Len(c)
  /\ c[1].time = r.start
  /\ \A k \in 1..Len(c) :
        /\ c[k].time \in Int /\ Lasting(c, k, r) \in Int
        /\ r.start =< c[k].time /\ c[k].time =< Lasting(c, k, r) /\ Lasting(c, k, r) =< r.end

LEMMA ChangesInTime ==
  ASSUME NEW signal, Ordered(signal.transitions), NEW r, IsRange(r)
  PROVE  AreChanges(Changes(signal, r), r)
<1> DEFINE T == {signal.transitions[n] : n \in DOMAIN signal.transitions}
           in == {t \in ToSet(signal.transitions) : r.start < t.time /\ t.time =< r.end}
           w == Within(signal, r)
           start == [time |-> r.start, value |-> ValueAtStart(signal, r.start)]
           one == << start >>
           c == one \o w
<1>1. signal.transitions \in Seq(T) /\ InTime(signal.transitions)
  BY DEF Ordered, IsSeq
<1>2. w = Only(signal.transitions, in)
  BY DEF Within
<1>3. w \in Seq(T) /\ InTime(w) /\ \A x \in 1..Len(w) : w[x] \in in
  <2> HIDE DEF T, in, w
  <2> QED
    BY <1>1, <1>2, OnlyProperties, OnlyInTime
<1>4. Changes(signal, r) = c
  BY DEF Changes
<1> DEFINE m == Len(w)
<1>5. m \in Nat /\ DOMAIN w = 1..m
  <2> HIDE DEF w, T
  <2> QED
    BY <1>3
<1>6. \A x \in 1..m : w[x].time \in Int /\ r.start < w[x].time /\ w[x].time =< r.end
  <2> HIDE DEF w
  <2>1. \A x \in 1..m : w[x].time \in Int
    BY <1>3, <1>5 DEF InTime
  <2> QED
    BY <1>3, <2>1
<1> HIDE DEF w, in, T, start
<1>7. /\ Len(c) = m + 1 /\ DOMAIN c = 1..(m + 1)
      /\ c[1] = start
      /\ \A x \in 2..(m + 1) : c[x] = w[x - 1]
  <2> DEFINE TT == T \cup {start}
  <2>1. w \in Seq(TT) /\ one \in Seq(TT) /\ Len(one) = 1 /\ one[1] = start
    BY <1>3
  <2> HIDE DEF TT, one
  <2>2. /\ Len(one \o w) = Len(one) + Len(w)
        /\ \A x \in 1..(Len(one) + Len(w)) : (one \o w)[x] = IF x =< Len(one) THEN one[x] ELSE w[x - Len(one)]
        /\ one \o w \in Seq(TT)
    BY <2>1, ConcatProperties
  <2> HIDE DEF m
  <2>3. Len(one \o w) = 1 + m
    BY <2>1, <2>2 DEF m
  <2> QED
    BY <1>5, <2>1, <2>2, <2>3 DEF m
<1>8. start.time = r.start
  BY DEF start
<1> HIDE DEF c, m
<1>9. \A x \in 1..(m + 1) : c[x].time \in Int /\ r.start =< c[x].time /\ c[x].time =< r.end
  <2>1. ASSUME NEW x \in 1..(m + 1) PROVE c[x].time \in Int /\ r.start =< c[x].time /\ c[x].time =< r.end
    <3>1. CASE x = 1
      BY <1>7, <1>8, <3>1 DEF IsRange
    <3>2. CASE x # 1
      <4>1. x - 1 \in 1..m /\ x \in 2..(m + 1)
        BY <1>5, <3>2
      <4> QED
        BY <1>6, <1>7, <4>1 DEF IsRange
    <3> QED
      BY <3>1, <3>2
  <2> QED
    BY <2>1
<1>10. \A x \in 1..m : c[x].time =< c[x + 1].time
  <2>1. ASSUME NEW x \in 1..m PROVE c[x].time =< c[x + 1].time
    <3>1. x + 1 \in 2..(m + 1) /\ x \in 1..(m + 1) /\ x + 1 \in 1..(m + 1)
      BY <1>5
    <3>2. c[x + 1] = w[x]
      BY <1>5, <1>7, <3>1
    <3>3. CASE x = 1
      BY <1>7, <1>8, <1>9, <3>1, <3>3
    <3>4. CASE x # 1
      <4>1. x - 1 \in DOMAIN w /\ x \in DOMAIN w /\ x - 1 =< x /\ x \in 2..(m + 1)
        BY <1>5, <3>4
      <4>2. w[x - 1].time =< w[x].time
        BY <1>3, <4>1 DEF InTime
      <4> QED
        BY <1>7, <3>2, <4>1, <4>2
    <3> QED
      BY <3>3, <3>4
  <2> QED
    BY <2>1
<1>11. ASSUME NEW k \in 1..Len(c)
       PROVE  Lasting(c, k, r) \in Int /\ c[k].time =< Lasting(c, k, r) /\ Lasting(c, k, r) =< r.end
  <2>1. CASE k = Len(c)
    <3>1. Lasting(c, k, r) = r.end
      BY <2>1 DEF Lasting
    <3> QED
      BY <1>7, <1>9, <3>1 DEF IsRange
  <2>2. CASE k # Len(c)
    <3>1. k \in 1..m /\ k + 1 \in 1..(m + 1)
      BY <1>5, <1>7, <2>2
    <3>2. Lasting(c, k, r) = c[k + 1].time
      BY <2>2 DEF Lasting
    <3> QED
      BY <1>9, <1>10, <3>1, <3>2
  <2> QED
    BY <2>1, <2>2
<1>12. AreChanges(c, r)
  BY <1>5, <1>7, <1>8, <1>9, <1>11 DEF AreChanges
<1> QED
  BY <1>4, <1>12

Segs(row) == {row.pieces[k].segment : k \in DOMAIN row.pieces}

\* A row of the frame for a range, before the limit.
IsDrawn(row, r) ==
  /\ row \in RowsOf(Segs(row))
  /\ Len(row.pieces) # 0
  /\ row.pieces[1].start = r.start
  /\ row.pieces[Len(row.pieces)].end = r.end
  /\ \A k \in 1..(Len(row.pieces) - 1) : row.pieces[k].end = row.pieces[k + 1].start
  /\ \A k \in 1..Len(row.pieces) :
        /\ row.pieces[k].start =< row.pieces[k].end
        /\ StartOf(r, row.pieces[k].segment) = row.pieces[k].start
        /\ EndOf(r, row.pieces[k].segment) = row.pieces[k].end

\* Whatever makes the segments, as long as their times are told.
LEMMA DrawnFromChanges ==
  ASSUME NEW r, IsRange(r), NEW c, AreChanges(c, r), NEW i \in Nat, NEW segment,
         \A k \in 1..Len(c) : /\ StartOf(r, segment[k]) = c[k].time
                              /\ EndOf(r, segment[k]) = Lasting(c, k, r),
         NEW row,
         row = [signal |-> i, pieces |-> [k \in DOMAIN c |->
                   [start |-> c[k].time, end |-> Lasting(c, k, r), segment |-> segment[k]]]]
  PROVE  IsDrawn(row, r)
<1> DEFINE n == Len(c)
           p == row.pieces
<1>1. /\ n \in Nat /\ n # 0 /\ DOMAIN c = 1..n /\ c[1].time = r.start
      /\ \A k \in 1..n :
            /\ c[k].time \in Int /\ Lasting(c, k, r) \in Int
            /\ r.start =< c[k].time /\ c[k].time =< Lasting(c, k, r) /\ Lasting(c, k, r) =< r.end
  BY DEF AreChanges
<1>2. p = [k \in 1..n |-> [start |-> c[k].time, end |-> Lasting(c, k, r), segment |-> segment[k]]]
  BY <1>1
<1>3. row.signal = i /\ row = [signal |-> i, pieces |-> p]
  OBVIOUS
<1>4. \A k \in 1..n : p[k].start = c[k].time /\ p[k].end = Lasting(c, k, r) /\ p[k].segment = segment[k]
  BY <1>2
<1>5. p \in Seq(PiecesOf(Segs(row)))
  <2>1. DOMAIN p = 1..n
    BY <1>2
  <2>2. ASSUME NEW k \in 1..n PROVE p[k] \in PiecesOf(Segs(row))
    <3>1. segment[k] \in Segs(row)
      BY <1>4, <2>1 DEF Segs
    <3>2. p[k] = [start |-> c[k].time, end |-> Lasting(c, k, r), segment |-> segment[k]]
      BY <1>2
    <3> QED
      BY <1>1, <3>1, <3>2 DEF PiecesOf
  <2>3. p = [k \in 1..n |-> p[k]]
    BY <1>2
  <2> HIDE DEF p
  <2>4. p \in [1..n -> PiecesOf(Segs(row))]
    BY <2>2, <2>3
  <2> QED
    BY <1>1, <2>4
<1>6. Len(p) = n
  BY <1>1, <1>2
<1> HIDE DEF p, n
<1>7. row \in RowsOf(Segs(row))
  BY <1>3, <1>5 DEF RowsOf
<1>8. p[1].start = r.start /\ p[n].end = r.end
  <2>1. 1 \in 1..n /\ n \in 1..n
    BY <1>1
  <2>2. Lasting(c, n, r) = r.end
    BY DEF Lasting, n
  <2> QED
    BY <1>1, <1>4, <2>1, <2>2
<1>9. ASSUME NEW k \in 1..(n - 1) PROVE p[k].end = p[k + 1].start
  <2>1. k \in 1..n /\ k + 1 \in 1..n /\ k # n
    BY <1>1
  <2>2. Lasting(c, k, r) = c[k + 1].time
    BY <2>1 DEF Lasting, n
  <2> QED
    BY <1>4, <2>1, <2>2
<1>10. ASSUME NEW k \in 1..n
       PROVE  p[k].start =< p[k].end /\ StartOf(r, p[k].segment) = p[k].start /\ EndOf(r, p[k].segment) = p[k].end
  <2>1. StartOf(r, segment[k]) = c[k].time /\ EndOf(r, segment[k]) = Lasting(c, k, r)
    BY DEF n
  <2> QED
    BY <1>1, <1>4, <2>1
<1> QED
  BY <1>1, <1>6, <1>7, <1>8, <1>9, <1>10 DEF IsDrawn, p

LEMMA SegmentTimes ==
  ASSUME NEW r, IsRange(r), NEW signal, NEW value, NEW start \in Int, NEW end \in Int,
         r.start =< start, start =< end, end =< r.end
  PROVE  LET s == Segment(signal, value, start, end, r.start, r.end)
         IN  StartOf(r, s) = start /\ EndOf(r, s) = end
<1> DEFINE s == Segment(signal, value, start, end, r.start, r.end)
<1>1. TimeToX(start, r.start, r.end) = start - r.start /\ TimeToX(end, r.start, r.end) = end - r.start
  BY DEF TimeToX, IsRange
<1>2. s.x0 = start - r.start /\ s.x1 = end - r.start /\ DOMAIN s = {"x0", "x1", "kind", "label"}
  BY <1>1 DEF Segment
<1> HIDE DEF s
<1>3. "time0" \notin DOMAIN s /\ "time1" \notin DOMAIN s
  BY <1>2
<1>4. StartOf(r, s) = r.start + s.x0 /\ EndOf(r, s) = r.start + s.x1
  BY <1>3 DEF StartOf, EndOf
<1>5. StartOf(r, s) = start /\ EndOf(r, s) = end
  BY <1>2, <1>4 DEF IsRange
<1> QED
  BY <1>5 DEF s

LEMMA SegmentTimesV2 ==
  ASSUME NEW r, NEW signal, NEW value, NEW start, NEW end, NEW from, NEW to
  PROVE  LET s == SegmentV2(signal, value, start, end, from, to)
         IN  StartOf(r, s) = start /\ EndOf(r, s) = end
<1> DEFINE s == SegmentV2(signal, value, start, end, from, to)
<1>1. /\ s.time0 = start /\ s.time1 = end
      /\ DOMAIN s = {"x0", "x1", "kind", "label", "time0", "time1"}
  BY DEF SegmentV2
<1> HIDE DEF s
<1>2. "time0" \in DOMAIN s /\ "time1" \in DOMAIN s
  BY <1>1
<1> QED
  BY <1>1, <1>2 DEF StartOf, EndOf, s

LEMMA DrawnRowIsDrawn ==
  ASSUME NEW data, AreSignals(data), NEW i \in DOMAIN data, NEW r, IsRange(r)
  PROVE  IsDrawn(DrawnRow(data, i, r), r) /\ IsDrawn(DrawnRowV2(data, i, r), r)
<1> DEFINE c == Changes(data[i], r)
           v1 == [k \in DOMAIN c |-> Segment(data[i], c[k].value, c[k].time, Lasting(c, k, r), r.start, r.end)]
           v2 == [k \in DOMAIN c |-> SegmentV2(data[i], c[k].value, c[k].time, Lasting(c, k, r),
                                               r.viewportStart, r.viewportEnd)]
<1>1. i \in Nat
  <2> DEFINE E == {data[n] : n \in DOMAIN data}
  <2>1. data \in Seq(E)
    BY DEF AreSignals, IsSeq
  <2> HIDE DEF E
  <2> QED
    BY <2>1
<1>2. AreChanges(c, r)
  BY ChangesInTime DEF AreSignals
<1>3. DrawnRow(data, i, r) = [signal |-> i, pieces |-> [k \in DOMAIN c |->
          [start |-> c[k].time, end |-> Lasting(c, k, r), segment |-> v1[k]]]]
  BY DEF DrawnRow
<1>4. DrawnRowV2(data, i, r) = [signal |-> i, pieces |-> [k \in DOMAIN c |->
          [start |-> c[k].time, end |-> Lasting(c, k, r), segment |-> v2[k]]]]
  BY DEF DrawnRowV2
<1> HIDE DEF c
<1>5. DOMAIN c = 1..Len(c) /\ r.start \in Int /\ r.end \in Int
      /\ \A k \in 1..Len(c) :
            /\ c[k].time \in Int /\ Lasting(c, k, r) \in Int
            /\ r.start =< c[k].time /\ c[k].time =< Lasting(c, k, r) /\ Lasting(c, k, r) =< r.end
  BY <1>2 DEF AreChanges, IsRange
<1>6. \A k \in 1..Len(c) : StartOf(r, v1[k]) = c[k].time /\ EndOf(r, v1[k]) = Lasting(c, k, r)
  <2>1. ASSUME NEW k \in 1..Len(c) PROVE StartOf(r, v1[k]) = c[k].time /\ EndOf(r, v1[k]) = Lasting(c, k, r)
    <3> DEFINE s == Segment(data[i], c[k].value, c[k].time, Lasting(c, k, r), r.start, r.end)
    <3>1. v1[k] = s
      BY <1>5
    <3> HIDE DEF v1
    <3>2. StartOf(r, s) = c[k].time /\ EndOf(r, s) = Lasting(c, k, r)
      BY <1>5, SegmentTimes
    <3> HIDE DEF s
    <3> QED
      BY <3>1, <3>2
  <2> QED
    BY <2>1
<1>7. \A k \in 1..Len(c) : StartOf(r, v2[k]) = c[k].time /\ EndOf(r, v2[k]) = Lasting(c, k, r)
  <2>1. ASSUME NEW k \in 1..Len(c) PROVE StartOf(r, v2[k]) = c[k].time /\ EndOf(r, v2[k]) = Lasting(c, k, r)
    <3> DEFINE s == SegmentV2(data[i], c[k].value, c[k].time, Lasting(c, k, r), r.viewportStart, r.viewportEnd)
    <3>1. v2[k] = s
      BY <1>5
    <3> HIDE DEF v2
    <3>2. StartOf(r, s) = c[k].time /\ EndOf(r, s) = Lasting(c, k, r)
      BY SegmentTimesV2
    <3> HIDE DEF s
    <3> QED
      BY <3>1, <3>2
  <2> QED
    BY <2>1
<1> HIDE DEF v1, v2
<1> QED
  BY <1>1, <1>2, <1>3, <1>4, <1>6, <1>7, DrawnFromChanges

LEMMA OneOfTheSignals ==
  ASSUME NEW data, IsSeq(data), NEW id, \E i \in DOMAIN data : data[i].id = id
  PROVE  SignalWithId(data, id) \in DOMAIN data
<1> DEFINE E == {data[n] : n \in DOMAIN data}
           S == {i \in DOMAIN data : data[i].id = id}
<1>1. DOMAIN data = 1..Len(data) /\ Len(data) \in Nat
  <2>1. data \in Seq(E)
    BY DEF IsSeq
  <2> HIDE DEF E
  <2> QED
    BY <2>1
<1>2. S \in SUBSET Nat /\ S # {}
  BY <1>1
<1>3. \E m \in S : \A y \in S : m =< y
  <2> HIDE DEF S
  <2> QED
    BY <1>2, LeastExists
<1>4. \E m \in DOMAIN data : data[m].id = id /\ \A j \in DOMAIN data : data[j].id = id => m =< j
  BY <1>3
<1> QED
  BY <1>4 DEF SignalWithId

LEMMA SelectedAreSignals ==
  ASSUME NEW data, IsSeq(data), NEW X, NEW ids \in Seq(X), KnownIds(data, ids)
  PROVE  \E m \in Nat : /\ DOMAIN SelectedSignals(data, ids) = 1..m
                        /\ \A n \in 1..m : SelectedSignals(data, ids)[n] \in DOMAIN data
<1> DEFINE E == {data[n] : n \in DOMAIN data}
           all == [k \in DOMAIN ids |-> k]
           new == {k \in DOMAIN ids : \A j \in 1 .. k - 1 : ids[j] # ids[k]}
           first == Only(all, new)
<1>1. DOMAIN data = 1..Len(data) /\ Len(data) \in Nat
  <2>1. data \in Seq(E)
    BY DEF IsSeq
  <2> HIDE DEF E
  <2> QED
    BY <2>1
<1>2. CASE ids = << >>
  <2>1. SelectedSignals(data, ids) = [i \in DOMAIN data |-> i]
    BY <1>2 DEF SelectedSignals
  <2> QED
    BY <1>1, <2>1
<1>3. CASE ids # << >>
  <2>1. SelectedSignals(data, ids) = [n \in DOMAIN first |-> SignalWithId(data, ids[first[n]])]
    BY <1>3 DEF SelectedSignals
  <2>2. all \in Seq(DOMAIN ids)
    OBVIOUS
  <2>3. first \in Seq(DOMAIN ids)
    <3> HIDE DEF all, new
    <3> QED
      BY <2>2, OnlyProperties
  <2> HIDE DEF first
  <2>4. DOMAIN first = 1..Len(first) /\ Len(first) \in Nat /\ \A n \in 1..Len(first) : first[n] \in DOMAIN ids
    BY <2>3, ElementOfSeq
  <2>5. ASSUME NEW n \in 1..Len(first) PROVE SignalWithId(data, ids[first[n]]) \in DOMAIN data
    <3>1. \E i \in DOMAIN data : data[i].id = ids[first[n]]
      BY <2>4 DEF KnownIds
    <3> QED
      BY <3>1, OneOfTheSignals
  <2>6. \A n \in 1..Len(first) : SelectedSignals(data, ids)[n] \in DOMAIN data
    BY <2>1, <2>4, <2>5
  <2>7. DOMAIN SelectedSignals(data, ids) = 1..Len(first)
    BY <2>1, <2>4
  <2> QED
    BY <2>4, <2>6, <2>7
<1> QED
  BY <1>2, <1>3

IsArray(rows, m) == rows = [n \in 1..m |-> rows[n]]

HasFrame(rows, max, r) ==
  \E S, first, last :
     /\ IsFrame(S, EncodeRows(rows, max), EncodeRows(rows, 0), max, first, last, r.start, r.end)
     /\ first = [s \in S |-> StartOf(r, s)]
     /\ last = [s \in S |-> EndOf(r, s)]

\* Rows that are drawn make a frame.
LEMMA FrameOfRows ==
  ASSUME NEW r, IsRange(r), NEW m \in Nat, NEW rows, IsArray(rows, m),
         \A n \in 1..m : IsDrawn(rows[n], r), NEW max \in Nat
  PROVE  HasFrame(rows, max, r)
<1> DEFINE S == UNION {Segs(rows[n]) : n \in 1..m}
           first == [s \in S |-> StartOf(r, s)]
           last == [s \in S |-> EndOf(r, s)]
<1>1. ASSUME NEW n \in 1..m
      PROVE  rows[n] \in RowsOf(S) /\ FollowEachOther(rows[n].pieces, first, last, r.start, r.end)
  <2> DEFINE row == rows[n]
             T == Segs(row)
  <2>1. IsDrawn(row, r)
    OBVIOUS
  <2>2. row \in RowsOf(T)
    BY <2>1 DEF IsDrawn
  <2>3. \A x \in T : x \in S
    OBVIOUS
  <2> HIDE DEF S, row, T
  <2>4. row.pieces \in Seq(PiecesOf(T)) /\ row.signal \in Nat /\ row = [signal |-> row.signal, pieces |-> row.pieces]
    BY <2>2 DEF RowsOf
  <2>5. \A p \in PiecesOf(T) : p \in PiecesOf(S)
    BY <2>3 DEF PiecesOf
  <2>6. row.pieces \in Seq(PiecesOf(S))
    <3>1. row.pieces \in [1..Len(row.pieces) -> PiecesOf(T)] /\ Len(row.pieces) \in Nat
      BY <2>4
    <3>2. row.pieces \in [1..Len(row.pieces) -> PiecesOf(S)]
      BY <2>5, <3>1
    <3> QED
      BY <3>1, <3>2
  <2>7. row \in RowsOf(S)
    BY <2>4, <2>6 DEF RowsOf
  <2>8. \A k \in 1..Len(row.pieces) : row.pieces[k].segment \in S
    <3>1. \A k \in 1..Len(row.pieces) : row.pieces[k] \in PiecesOf(S)
      BY <2>6, ElementOfSeq
    <3> QED
      BY <3>1 DEF PiecesOf
  <2>9. \A k \in 1..Len(row.pieces) :
           /\ first[row.pieces[k].segment] = row.pieces[k].start
           /\ last[row.pieces[k].segment] = row.pieces[k].end
    BY <2>1, <2>8 DEF IsDrawn
  <2> HIDE DEF first, last
  <2>10. FollowEachOther(row.pieces, first, last, r.start, r.end)
    BY <2>1, <2>9 DEF IsDrawn, FollowEachOther
  <2> QED
    BY <2>7, <2>10 DEF row
<1>2. rows \in Seq(RowsOf(S)) /\ Len(rows) = m
  <2> DEFINE R == RowsOf(S)
  <2>1. \A n \in 1..m : rows[n] \in R
    BY <1>1
  <2> HIDE DEF R
  <2>2. rows \in [1..m -> R]
    BY <2>1 DEF IsArray
  <2>3. rows \in Seq(R) /\ Len(rows) = m
    BY <2>2
  <2> QED
    BY <2>3 DEF R
<1> HIDE DEF S, first, last
<1>3. IsFrame(S, EncodeRows(rows, max), EncodeRows(rows, 0), max, first, last, r.start, r.end)
  <2>1. \A k \in 1..Len(rows) : FollowEachOther(rows[k].pieces, first, last, r.start, r.end)
    BY <1>1, <1>2
  <2>2. r.start \in Int /\ r.end \in Int /\ r.start < r.end
    BY DEF IsRange
  <2> QED
    BY <1>2, <2>1, <2>2, EncodedFrame
<1> QED
  BY <1>3 DEF HasFrame, first, last

\* The property of a frame of a range, and of the one there would be without a limit.
IsComplete(a, w, r) ==
  /\ Len(a.segments) \in Nat /\ Len(a.table) \in Nat
  /\ \A k \in DOMAIN a.table :
        LET segments == SubSeq(a.segments, a.table[k].first + 1, a.table[k].first + a.table[k].count)
        IN  /\ \A n \in DOMAIN segments :
                  StartOf(r, segments[n]) = IF n = 1 THEN r.start ELSE EndOf(r, segments[n - 1])
            /\ ~a.truncated => EndOf(r, Last(segments)) = r.end
  /\ a.truncated <=> /\ r.max # 0
                     /\ Len(a.segments) = r.max
                     /\ Len(w.segments) > r.max
                     /\ a.segments = SubSeq(w.segments, 1, r.max)

LEMMA FrameIsComplete ==
  ASSUME NEW r, IsRange(r), r.max \in Nat, NEW S, NEW first, NEW last, NEW a, NEW w,
         IsFrame(S, a, w, r.max, first, last, r.start, r.end),
         first = [s \in S |-> StartOf(r, s)], last = [s \in S |-> EndOf(r, s)]
  PROVE  IsComplete(a, w, r)
<1>1. /\ a \in ColumnsOf(S) /\ w \in ColumnsOf(S) /\ IsCut(a, w, r.max)
      /\ AllWhole(a, first, last, r.start, r.end)
  BY DEF IsFrame
<1>2. /\ a.segments \in Seq(S) /\ a.table \in Seq(TableRows) /\ w.segments \in Seq(S) /\ a.truncated \in BOOLEAN
      /\ Len(a.segments) \in Nat /\ Len(w.segments) \in Nat /\ Len(a.table) \in Nat
      /\ DOMAIN a.table = 1..Len(a.table)
  BY <1>1 DEF ColumnsOf
<1>3. a.segments = Cut(w.segments, r.max) /\ a.truncated = Over(w.segments, r.max)
  BY <1>1 DEF IsCut
<1>4. a.truncated <=> /\ r.max # 0
                      /\ Len(a.segments) = r.max
                      /\ Len(w.segments) > r.max
                      /\ a.segments = SubSeq(w.segments, 1, r.max)
  <2>1. CASE Over(w.segments, r.max)
    <3>1. a.segments = SubSeq(w.segments, 1, r.max) /\ Len(a.segments) = r.max
      <4>1. Cut(w.segments, r.max) = SubSeq(w.segments, 1, r.max) /\ Len(Cut(w.segments, r.max)) = r.max
        BY <1>2, <2>1, CutProperties
      <4> QED
        BY <1>3, <4>1
    <3> QED
      BY <1>3, <2>1, <3>1 DEF Over
  <2>2. CASE ~Over(w.segments, r.max)
    BY <1>3, <2>2 DEF Over
  <2> QED
    BY <2>1, <2>2
<1>5. ASSUME NEW k \in DOMAIN a.table,
             NEW segments, segments = SubSeq(a.segments, a.table[k].first + 1, a.table[k].first + a.table[k].count)
      PROVE  /\ \A n \in DOMAIN segments :
                   StartOf(r, segments[n]) = IF n = 1 THEN r.start ELSE EndOf(r, segments[n - 1])
             /\ ~a.truncated => EndOf(r, Last(segments)) = r.end
  <2> DEFINE row == a.table[k]
             f == row.first
             c == row.count
             s == a.segments
  <2>1. RowIsWhole(row, s, a.truncated, first, last, r.start, r.end)
    BY <1>1, <1>2 DEF AllWhole
  <2>2. f \in Nat /\ c \in Nat /\ f + c =< Len(s)
    BY <2>1 DEF RowIsWhole
  <2>3. segments = SubSeq(s, f + 1, f + c)
    BY <1>5
  <2>4. \A n \in 1..c :
           first[s[f + n]] = IF n = 1 THEN r.start ELSE last[s[f + (n - 1)]]
    BY <2>1 DEF RowIsWhole
  <2>5. ~a.truncated => c > 0 /\ last[s[f + c]] = r.end
    BY <2>1 DEF RowIsWhole
  <2> HIDE DEF row, f, c, s
  <2>6. s \in Seq(S) /\ Len(s) \in Nat
    BY <1>2 DEF s
  <2>7. Len(segments) = c /\ DOMAIN segments = 1..c /\ \A n \in 1..c : segments[n] = s[f + n] /\ segments[n] \in S
    <3>1. segments = [n \in 1..c |-> s[f + n]] /\ Len(segments) = c
      BY <2>2, <2>3, <2>6
    <3>2. \A n \in 1..c : f + n \in 1..Len(s)
      BY <2>2, <2>6
    <3>3. \A n \in 1..c : s[f + n] \in S
      BY <2>6, <3>2, ElementOfSeq
    <3> QED
      BY <3>1, <3>3
  <2>8. ASSUME NEW n \in 1..c
        PROVE  StartOf(r, segments[n]) = IF n = 1 THEN r.start ELSE EndOf(r, segments[n - 1])
    <3>1. first[segments[n]] = StartOf(r, segments[n])
      BY <2>7
    <3>2. n # 1 => n - 1 \in 1..c /\ segments[n - 1] = s[f + (n - 1)] /\ last[segments[n - 1]] = EndOf(r, segments[n - 1])
      BY <2>2, <2>7
    <3>3. segments[n] = s[f + n]
      BY <2>7
    <3> QED
      BY <2>4, <3>1, <3>2, <3>3
  <2>9. ASSUME ~a.truncated PROVE EndOf(r, Last(segments)) = r.end
    <3>1. c > 0 /\ c \in 1..c /\ last[s[f + c]] = r.end
      BY <2>2, <2>5, <2>9
    <3>2. segments[c] = s[f + c] /\ last[segments[c]] = EndOf(r, segments[c])
      BY <2>7, <3>1
    <3>3. Last(segments) = segments[c]
      BY <2>7 DEF Last
    <3> QED
      BY <3>1, <3>2, <3>3
  <2> QED
    BY <2>7, <2>8, <2>9
<1> QED
  BY <1>2, <1>4, <1>5 DEF IsComplete

LEMMA SameRange ==
  ASSUME NEW r, NEW q, q.start = r.start, q.end = r.end, NEW data, NEW i
  PROVE  /\ DrawnRow(data, i, q) = DrawnRow(data, i, r)
         /\ q.viewportStart = r.viewportStart /\ q.viewportEnd = r.viewportEnd
              => DrawnRowV2(data, i, q) = DrawnRowV2(data, i, r)
<1>1. Changes(data[i], q) = Changes(data[i], r)
  BY DEF Changes, Within
<1>2. \A c, k : Lasting(c, k, q) = Lasting(c, k, r)
  BY DEF Lasting
<1> QED
  BY <1>1, <1>2 DEF DrawnRow, DrawnRowV2

\* Requests that the source answers.
IsAsked(r, data) ==
  /\ IsRange(r) /\ r.max \in Nat /\ KnownIds(data, r.ids)
  /\ r.ids \in Seq(Seq(STRING))

LEMMA EncodedIsComplete ==
  ASSUME NEW data, AreSignals(data), NEW r, IsAsked(r, data), NEW q, q.max = 0,
         q.start = r.start, q.end = r.end, q.ids = r.ids
  PROVE  IsComplete(EncodeViewportFrame(data, r), EncodeViewportFrame(data, q), r)
<1> DEFINE selected == SelectedSignals(data, r.ids)
           rows == [n \in DOMAIN selected |-> DrawnRow(data, selected[n], r)]
<1>1. PICK m \in Nat : DOMAIN selected = 1..m /\ \A n \in 1..m : selected[n] \in DOMAIN data
  BY SelectedAreSignals DEF IsAsked, AreSignals
<1>2. EncodeViewportFrame(data, r) = EncodeRows(rows, r.max)
  BY DEF EncodeViewportFrame
<1>3. EncodeViewportFrame(data, q) = EncodeRows(rows, 0)
  BY SameRange DEF EncodeViewportFrame
<1>4. \A n \in 1..m : IsDrawn(rows[n], r)
  BY <1>1, DrawnRowIsDrawn DEF IsAsked
<1>5. IsArray(rows, m)
  BY <1>1 DEF IsArray
<1> HIDE DEF rows
<1>6. HasFrame(rows, r.max, r)
  BY <1>4, <1>5, FrameOfRows DEF IsAsked
<1> QED
  BY <1>2, <1>3, <1>6, FrameIsComplete DEF IsAsked, HasFrame

LEMMA EncodedV2IsComplete ==
  ASSUME NEW data, AreSignals(data), NEW r, IsAsked(r, data), NEW q, q.max = 0,
         q.start = r.start, q.end = r.end, q.ids = r.ids,
         q.viewportStart = r.viewportStart, q.viewportEnd = r.viewportEnd
  PROVE  IsComplete(EncodeViewportFrameV2(data, r), EncodeViewportFrameV2(data, q), r)
<1> DEFINE selected == SelectedSignalsV2(data, r.ids)
           rows == [n \in DOMAIN selected |-> DrawnRowV2(data, selected[n], r)]
<1>1. PICK m \in Nat : DOMAIN selected = 1..m /\ \A n \in 1..m : selected[n] \in DOMAIN data
  BY SelectedAreSignals DEF IsAsked, AreSignals, SelectedSignalsV2
<1>2. EncodeViewportFrameV2(data, r) = EncodeRows(rows, r.max)
  BY DEF EncodeViewportFrameV2
<1>3. EncodeViewportFrameV2(data, q) = EncodeRows(rows, 0)
  BY SameRange DEF EncodeViewportFrameV2
<1>4. \A n \in 1..m : IsDrawn(rows[n], r)
  BY <1>1, DrawnRowIsDrawn DEF IsAsked
<1>5. IsArray(rows, m)
  BY <1>1 DEF IsArray
<1> HIDE DEF rows
<1>6. HasFrame(rows, r.max, r)
  BY <1>4, <1>5, FrameOfRows DEF IsAsked
<1> QED
  BY <1>2, <1>3, <1>6, FrameIsComplete DEF IsAsked, HasFrame

-----------------------------------------------------------------------------
(* The columns of a frame *)

Units == {1, 4, 8}

LEMMA AlignedUp ==
  ASSUME NEW size \in Nat, NEW unit \in Units
  PROVE  /\ AlignTo(size, unit) \in Nat
         /\ AlignTo(size, unit) >= size
         /\ AlignTo(size, unit) % unit = 0
         /\ size % unit = 0 => AlignTo(size, unit) = size
<1>1. CASE unit = 1
  BY <1>1 DEF AlignTo
<1>2. CASE unit = 4
  <2>1. AlignTo(size, 4) = ((size + 3) \div 4) * 4
    BY DEF AlignTo
  <2> QED
    BY <1>2, <2>1
<1>3. CASE unit = 8
  <2>1. AlignTo(size, 8) = ((size + 7) \div 8) * 8
    BY DEF AlignTo
  <2> QED
    BY <1>3, <2>1
<1> QED
  BY <1>1, <1>2, <1>3 DEF Units

Parts == [size : Nat, unit : Units, align : Units]
ColumnRows == [told : Nat, at : Nat, size : Nat, unit : Units]

\* A column after those before it.
OneColumn(header, cs, p) ==
  LET told == AlignTo(IF cs = << >> THEN header ELSE ColumnEnd(Last(cs)), p.align)
  IN  Append(cs, [told |-> told, at |-> AlignTo(told, p.unit), size |-> p.size, unit |-> p.unit])

ColumnAfterColumn(h, header, parts) ==
  /\ h[0] = << >>
  /\ \A k \in 1..Len(parts) : h[k] = OneColumn(header, h[k - 1], parts[k])

LEMMA OneColumnType ==
  ASSUME NEW header \in Nat, NEW cs \in Seq(ColumnRows), NEW p \in Parts
  PROVE  OneColumn(header, cs, p) \in Seq(ColumnRows)
<1> DEFINE end == IF cs = << >> THEN header ELSE ColumnEnd(Last(cs))
           told == AlignTo(end, p.align)
           c == [told |-> told, at |-> AlignTo(told, p.unit), size |-> p.size, unit |-> p.unit]
<1>1. p.size \in Nat /\ p.unit \in Units /\ p.align \in Units
  BY DEF Parts
<1>2. end \in Nat
  <2>1. CASE cs = << >>
    BY <2>1
  <2>2. CASE cs # << >>
    <3>1. Len(cs) \in 1..Len(cs)
      BY <2>2
    <3>2. Last(cs) \in ColumnRows
      BY <3>1, ElementOfSeq DEF Last
    <3>3. ColumnEnd(Last(cs)) \in Nat
      BY <3>2 DEF ColumnEnd, ColumnRows
    <3> QED
      BY <2>2, <3>3
  <2> QED
    BY <2>1, <2>2
<1> HIDE DEF end
<1>3. told \in Nat
  BY <1>1, <1>2, AlignedUp
<1> HIDE DEF told
<1>4. AlignTo(told, p.unit) \in Nat
  BY <1>1, <1>3, AlignedUp
<1>5. c \in ColumnRows
  BY <1>1, <1>3, <1>4 DEF ColumnRows
<1>6. OneColumn(header, cs, p) = Append(cs, c)
  BY DEF OneColumn, told, end
<1> HIDE DEF c
<1> QED
  BY <1>5, <1>6, AppendProperties

LEMMA ColumnsStepByStep ==
  ASSUME NEW header \in Nat, NEW parts \in Seq(Parts)
  PROVE  \E h : ColumnAfterColumn(h, header, parts) /\ Columns(header, parts) = h[Len(parts)]
<1> DEFINE n == Len(parts)
           Z == Seq(ColumnRows)
           base == << >>
           F == [x \in Z \X (1..n) |-> OneColumn(header, x[1], parts[x[2]])]
           sets == SUBSET (1..n)
           step(g, m) == IF m = {} THEN base ELSE OneColumn(header, g[m \ {Max(m)}], parts[Max(m)])
           it == CHOOSE g : g = [m \in sets |-> step(g, m)]
<1>1. n \in Nat /\ DOMAIN parts = 1..n
  OBVIOUS
<1>2. F \in [Z \X (1..n) -> Z]
  <2>1. ASSUME NEW c \in Z, NEW k \in 1..n PROVE OneColumn(header, c, parts[k]) \in Z
    <3>1. parts[k] \in Parts
      BY ElementOfSeq
    <3> QED
      BY <3>1, OneColumnType
  <2> HIDE DEF Z
  <2> QED
    BY <2>1
<1>3. PICK g : OverSets(g, n, Z, base, F)
  <2>1. base \in Z
    OBVIOUS
  <2> HIDE DEF F, n, base, Z
  <2> QED
    BY <1>1, <1>2, <2>1, SetRecursion
<1>4. g = [m \in sets |-> step(g, m)]
  <2>1. ASSUME NEW m \in sets PROVE g[m] = step(g, m)
    <3> HIDE DEF base, Z
    <3>1. CASE m # {}
      <4>1. Max(m) \in 1..n /\ m \ {Max(m)} \in sets
        BY <1>1, <3>1, Greatest
      <4>2. g[m] = F[<<g[m \ {Max(m)}], Max(m)>>] /\ g[m \ {Max(m)}] \in Z
        BY <1>3, <3>1, <4>1 DEF OverSets
      <4> QED
        BY <3>1, <4>1, <4>2
    <3>2. CASE m = {}
      BY <1>3, <3>2 DEF OverSets
    <3> QED
      BY <3>1, <3>2
  <2> HIDE DEF step
  <2> QED
    BY <1>3, <2>1 DEF OverSets
<1>5. it = [m \in sets |-> step(it, m)]
  <2> HIDE DEF step, sets
  <2> QED
    BY <1>4
<1>6. Columns(header, parts) = it[1..n]
  BY <1>1 DEF Columns, FoldLeft, MapThenFoldSet, OneColumn
<1> DEFINE h == [k \in 0..n |-> it[1..k]]
<1> HIDE DEF it
<1>7. h[0] = base
  <2> HIDE DEF base
  <2> QED
    BY <1>1, <1>5, Initials
<1>8. ASSUME NEW k \in 1..n PROVE h[k] = OneColumn(header, h[k - 1], parts[k])
  <2>1. /\ 1..k \in sets /\ 1..k # {} /\ Max(1..k) = k /\ (1..k) \ {k} = 1..(k - 1)
        /\ k \in 0..n /\ k - 1 \in 0..n
    <3> HIDE DEF n
    <3> QED
      BY <1>1, Initials
  <2>2. it[1..k] = step(it, 1..k)
    <3> HIDE DEF step, sets
    <3> QED
      BY <1>5, <2>1
  <2>3. step(it, 1..k) = OneColumn(header, it[1..(k - 1)], parts[k])
    <3> HIDE DEF base
    <3> QED
      BY <2>1
  <2>4. h[k] = it[1..k] /\ h[k - 1] = it[1..(k - 1)]
    BY <2>1
  <2> HIDE DEF step, h
  <2> QED
    BY <2>2, <2>3, <2>4
<1>9. Columns(header, parts) = h[n]
  BY <1>1, <1>6
<1> QED
  BY <1>7, <1>8, <1>9 DEF ColumnAfterColumn

\* A part that is aligned where it is told: by the caller, or as its neighbour
\* leaves it.
FallsInPlace(parts, k) ==
  \/ parts[k].unit = 1
  \/ parts[k].align = parts[k].unit
  \/ k > 1 /\ parts[k].align = 1 /\ parts[k - 1].unit = parts[k].unit /\ parts[k - 1].size % parts[k].unit = 0

Apart(columns) ==
  \A n \in DOMAIN columns :
     /\ columns[n].told = columns[n].at
     /\ columns[n].at % columns[n].unit = 0
     /\ n > 1 => columns[n].at >= ColumnEnd(columns[n - 1])

\* The columns of the first parts.
Placed(cs, parts, k) ==
  /\ cs \in Seq(ColumnRows) /\ Len(cs) = k /\ Apart(cs)
  /\ k > 0 => cs[k].unit = parts[k].unit /\ cs[k].size = parts[k].size

LEMMA OneMoreColumn ==
  ASSUME NEW header \in Nat, NEW parts \in Seq(Parts), NEW k \in 1..Len(parts), FallsInPlace(parts, k),
         NEW cs, Placed(cs, parts, k - 1),
         NEW d, d = OneColumn(header, cs, parts[k])
  PROVE  Placed(d, parts, k)
<1> DEFINE p == parts[k]
           end == IF cs = << >> THEN header ELSE ColumnEnd(Last(cs))
           told == AlignTo(end, p.align)
           at == AlignTo(told, p.unit)
           c == [told |-> told, at |-> at, size |-> p.size, unit |-> p.unit]
<1>0. /\ p \in Parts /\ cs \in Seq(ColumnRows) /\ Len(cs) = k - 1 /\ Apart(cs)
      /\ k > 1 => cs[k - 1].unit = parts[k - 1].unit /\ cs[k - 1].size = parts[k - 1].size
  BY ElementOfSeq DEF Placed
<1>1. p.size \in Nat /\ p.unit \in Units /\ p.align \in Units
  BY <1>0 DEF Parts
<1>2. d \in Seq(ColumnRows)
  BY <1>0, OneColumnType
<1>3. d = Append(cs, c)
  BY DEF OneColumn
<1>4. k \in Nat /\ Len(cs) \in Nat /\ DOMAIN cs = 1..(k - 1)
  BY <1>0
<1>5. k > 1 => /\ end = cs[k - 1].at + cs[k - 1].size
               /\ cs[k - 1] \in ColumnRows
               /\ cs[k - 1].at % cs[k - 1].unit = 0
  <2>1. ASSUME k > 1
        PROVE  /\ end = cs[k - 1].at + cs[k - 1].size
               /\ cs[k - 1] \in ColumnRows
               /\ cs[k - 1].at % cs[k - 1].unit = 0
    <3>1. cs # << >> /\ k - 1 \in 1..Len(cs) /\ k - 1 \in DOMAIN cs
      BY <1>0, <1>4, <2>1
    <3>2. Last(cs) = cs[k - 1]
      BY <1>0 DEF Last
    <3>3. cs[k - 1] \in ColumnRows
      BY <1>0, <3>1, ElementOfSeq
    <3> QED
      BY <1>0, <3>1, <3>2, <3>3 DEF ColumnEnd, Apart
  <2> QED
    BY <2>1
<1>6. k = 1 => end = header
  BY <1>0, <1>4
<1> HIDE DEF end
<1>7. end \in Nat
  <2>1. CASE k = 1
    BY <1>6, <2>1
  <2>2. CASE k > 1
    BY <1>5, <2>2 DEF ColumnRows
  <2> QED
    BY <1>4, <2>1, <2>2
<1>8. told \in Nat /\ told >= end /\ told % p.align = 0 /\ (end % p.align = 0 => told = end)
  <2> HIDE DEF p
  <2> QED
    BY <1>1, <1>7, AlignedUp
<1> HIDE DEF told
<1>9. told % p.unit = 0
  <2>1. CASE p.unit = 1
    BY <1>8, <2>1
  <2>2. CASE p.align = p.unit
    BY <1>8, <2>2
  <2>3. CASE k > 1 /\ p.align = 1 /\ parts[k - 1].unit = p.unit /\ parts[k - 1].size % p.unit = 0
    <3>1. told = end
      BY <1>7, <1>8, <2>3
    <3> DEFINE a == cs[k - 1].at
               s == cs[k - 1].size
               u == p.unit
    <3>2. /\ end = a + s /\ a \in Nat /\ s \in Nat /\ u \in Units
          /\ a % u = 0 /\ s % u = 0
      BY <1>0, <1>1, <1>5, <2>3 DEF ColumnRows
    <3> HIDE DEF a, s, u
    <3>3. (a + s) % u = 0
      <4>1. CASE u = 1
        BY <3>2, <4>1
      <4>2. CASE u = 4
        BY <3>2, <4>2
      <4>3. CASE u = 8
        BY <3>2, <4>3
      <4> QED
        BY <3>2, <4>1, <4>2, <4>3 DEF Units
    <3> QED
      BY <3>1, <3>2, <3>3 DEF u
  <2> QED
    BY <2>1, <2>2, <2>3 DEF FallsInPlace
<1>10. at \in Nat /\ at = told /\ at % p.unit = 0
  <2> HIDE DEF p
  <2> QED
    BY <1>1, <1>8, <1>9, AlignedUp
<1> HIDE DEF at
<1>11. c \in ColumnRows /\ c.told = told /\ c.at = at /\ c.size = p.size /\ c.unit = p.unit
  BY <1>1, <1>8, <1>10 DEF ColumnRows
<1> HIDE DEF c, p
<1>12. /\ Len(d) = k /\ d[k] = c
       /\ \A x \in 1..(k - 1) : d[x] = cs[x]
  <2>1. /\ Len(d) = Len(cs) + 1 /\ d[Len(cs) + 1] = c
        /\ \A x \in 1..Len(cs) : d[x] = cs[x]
    BY <1>0, <1>3, <1>11, AppendProperties
  <2>2. Len(cs) = k - 1 /\ Len(cs) + 1 = k
    BY <1>0, <1>4
  <2> QED
    BY <2>1, <2>2
<1>13. Apart(d)
  <2>1. ASSUME NEW x \in DOMAIN d
        PROVE  /\ d[x].told = d[x].at
               /\ d[x].at % d[x].unit = 0
               /\ x > 1 => d[x].at >= ColumnEnd(d[x - 1])
    <3>1. x \in 1..k
      BY <1>2, <1>12
    <3>2. CASE x = k
      <4>1. d[x] = c
        BY <1>12, <3>2
      <4>2. x > 1 => d[x - 1] = cs[k - 1]
        BY <1>4, <1>12, <3>2
      <4>3. x > 1 => ColumnEnd(d[x - 1]) = end
        BY <1>5, <3>2, <4>2 DEF ColumnEnd
      <4> QED
        BY <1>7, <1>8, <1>10, <1>11, <4>1, <4>3
    <3>3. CASE x # k
      <4>1. x \in DOMAIN cs /\ d[x] = cs[x]
        BY <1>4, <1>12, <3>1, <3>3
      <4>2. x > 1 => d[x - 1] = cs[x - 1]
        BY <1>4, <1>12, <3>1, <3>3
      <4> QED
        BY <1>0, <4>1, <4>2 DEF Apart
    <3> QED
      BY <3>2, <3>3
  <2> QED
    BY <2>1 DEF Apart
<1> QED
  BY <1>2, <1>11, <1>12, <1>13 DEF p, Placed

LEMMA ColumnsApart ==
  ASSUME NEW header \in Nat, NEW parts \in Seq(Parts), \A k \in 1..Len(parts) : FallsInPlace(parts, k)
  PROVE  Apart(Columns(header, parts))
<1> DEFINE n == Len(parts)
<1>1. PICK h : ColumnAfterColumn(h, header, parts) /\ Columns(header, parts) = h[n]
  BY ColumnsStepByStep
<1>2. n \in Nat /\ n \in 0..n
  OBVIOUS
<1> DEFINE G == {k \in 0..n : Placed(h[k], parts, k)}
<1>3. 0 \in G
  <2>1. h[0] = << >>
    BY <1>1 DEF ColumnAfterColumn
  <2>2. << >> \in Seq(ColumnRows) /\ Len(<< >>) = 0 /\ Apart(<< >>)
    BY DEF Apart
  <2>3. Placed(h[0], parts, 0)
    BY <2>1, <2>2 DEF Placed
  <2> QED
    BY <1>2, <2>3
<1>4. ASSUME NEW k \in 1..n, k - 1 \in G PROVE k \in G
  <2>1. h[k] = OneColumn(header, h[k - 1], parts[k])
    BY <1>1 DEF ColumnAfterColumn
  <2>2. Placed(h[k - 1], parts, k - 1)
    BY <1>4
  <2>3. FallsInPlace(parts, k)
    OBVIOUS
  <2>4. Placed(h[k], parts, k)
    BY <2>1, <2>2, <2>3, OneMoreColumn
  <2> QED
    BY <2>4
<1>5. n \in G
  <2> HIDE DEF G, n
  <2> QED
    BY <1>2, <1>3, <1>4, UpToInduction
<1> QED
  BY <1>1, <1>5 DEF Placed

LEMMA FrameColumnsApart ==
  ASSUME NEW a, Len(a.segments) \in Nat, Len(a.table) \in Nat, NEW bytes \in LabelBytes
  PROVE  Apart(FrameColumns(a, bytes)) /\ Apart(FrameColumnsV2(a, bytes))
<1> DEFINE n == Len(a.segments)
           m == Len(a.table)
           v1 == << Part(16 * m, 4, 4), Part(4 * n, 4, 1), Part(4 * n, 4, 1),
                    Part(4 * n, 4, 1), Part(n, 1, 1), Part(4 * n, 4, 4), Part(bytes, 1, 1) >>
           v2 == << Part(16 * m, 4, 4), Part(4 * n, 4, 1), Part(4 * n, 4, 1),
                    Part(4 * n, 4, 1), Part(n, 1, 1), Part(4 * n, 4, 4), Part(8 * n, 8, 8),
                    Part(8 * n, 8, 8), Part(bytes, 1, 4) >>
<1>1. FrameColumns(a, bytes) = Columns(56, v1) /\ FrameColumnsV2(a, bytes) = Columns(96, v2)
  BY DEF FrameColumns, FrameColumnsV2
<1>2. n \in Nat /\ m \in Nat /\ bytes \in Nat
  BY DEF LabelBytes
<1> HIDE DEF n, m
<1>3. /\ 16 * m \in Nat /\ 4 * n \in Nat /\ 8 * n \in Nat
      /\ (16 * m) % 4 = 0 /\ (4 * n) % 4 = 0
  BY <1>2
<1>4. \A size \in Nat : \A unit, align \in Units : Part(size, unit, align) \in Parts
  BY DEF Part, Parts
<1>5. 1 \in Units /\ 4 \in Units /\ 8 \in Units
  BY DEF Units
<1>6. v1 \in Seq(Parts) /\ Len(v1) = 7
  <2> HIDE DEF Parts, Units
  <2> QED
    BY <1>2, <1>3, <1>4, <1>5
<1>7. v2 \in Seq(Parts) /\ Len(v2) = 9
  BY <1>2, <1>3, <1>4, <1>5
<1>8. ASSUME NEW k \in 1..7 PROVE FallsInPlace(v1, k)
  BY <1>3 DEF FallsInPlace, Part
<1>9. ASSUME NEW k \in 1..9 PROVE FallsInPlace(v2, k)
  BY <1>3 DEF FallsInPlace, Part
<1>10. Apart(Columns(56, v1))
  <2> HIDE DEF v1
  <2> QED
    BY <1>6, <1>8, ColumnsApart
<1>11. Apart(Columns(96, v2))
  <2> HIDE DEF v2
  <2> QED
    BY <1>7, <1>9, ColumnsApart
<1> QED
  BY <1>1, <1>10, <1>11

-----------------------------------------------------------------------------
(* What a request carries is what is decoded *)

ByteRows == [width : Nat, value : Int \cup STRING]

LEMMA NumberBytes ==
  ASSUME NEW width \in Nat \ {0}, NEW value \in Int \cup STRING
  PROVE  /\ Number(width, value) \in Seq(ByteRows)
         /\ Len(Number(width, value)) = width
         /\ Number(width, value)[1] = [width |-> width, value |-> value]
<1> DEFINE V == Int \cup STRING
           c == [width |-> width, value |-> value]
           one == << c >>
           rest == [k \in 1 .. width - 1 |-> Rest]
<1>1. c \in ByteRows /\ Rest \in ByteRows
  <2>1. 0 \in V /\ value \in V
    OBVIOUS
  <2> HIDE DEF V
  <2> QED
    BY <2>1 DEF ByteRows, Rest, V
<1> HIDE DEF c
<1>2. one \in Seq(ByteRows) /\ Len(one) = 1 /\ one[1] = c
  BY <1>1
<1>3. rest \in Seq(ByteRows) /\ Len(rest) = width - 1
  <2> HIDE DEF V
  <2> QED
    BY <1>1
<1>4. Number(width, value) = one \o rest
  BY DEF Number, c
<1> HIDE DEF one, rest
<1>5. /\ one \o rest \in Seq(ByteRows) /\ Len(one \o rest) = Len(one) + Len(rest)
      /\ \A x \in 1..(Len(one) + Len(rest)) : (one \o rest)[x] = IF x =< Len(one) THEN one[x] ELSE rest[x - Len(one)]
  BY <1>2, <1>3, ConcatProperties
<1>6. 1 \in 1..(Len(one) + Len(rest)) /\ Len(one) + Len(rest) = width
  BY <1>2, <1>3
<1> QED
  BY <1>2, <1>4, <1>5, <1>6 DEF c

PartAfterPart(h, parts) ==
  /\ h[0] = << >>
  /\ \A k \in 1..Len(parts) : h[k] = h[k - 1] \o parts[k]

LEMMA BytesStepByStep ==
  ASSUME NEW B, NEW parts \in Seq(Seq(B))
  PROVE  \E h : /\ PartAfterPart(h, parts) /\ Bytes(parts) = h[Len(parts)]
                /\ \A k \in 0..Len(parts) : h[k] \in Seq(B)
<1> DEFINE n == Len(parts)
           Z == Seq(B)
           base == << >>
           F == [x \in Z \X (1..n) |-> x[1] \o parts[x[2]]]
           sets == SUBSET (1..n)
           step(g, m) == IF m = {} THEN base ELSE g[m \ {Max(m)}] \o parts[Max(m)]
           it == CHOOSE g : g = [m \in sets |-> step(g, m)]
<1>1. n \in Nat /\ DOMAIN parts = 1..n
  OBVIOUS
<1>2. F \in [Z \X (1..n) -> Z]
  <2>1. ASSUME NEW c \in Z, NEW k \in 1..n PROVE c \o parts[k] \in Z
    <3>1. parts[k] \in Z
      BY ElementOfSeq
    <3> QED
      BY <3>1, ConcatProperties
  <2> HIDE DEF Z
  <2> QED
    BY <2>1
<1>3. PICK g : OverSets(g, n, Z, base, F)
  <2>1. base \in Z
    OBVIOUS
  <2> HIDE DEF F, n, base, Z
  <2> QED
    BY <1>1, <1>2, <2>1, SetRecursion
<1>4. g = [m \in sets |-> step(g, m)]
  <2>1. ASSUME NEW m \in sets PROVE g[m] = step(g, m)
    <3> HIDE DEF base, Z
    <3>1. CASE m # {}
      <4>1. Max(m) \in 1..n /\ m \ {Max(m)} \in sets
        BY <1>1, <3>1, Greatest
      <4>2. g[m] = F[<<g[m \ {Max(m)}], Max(m)>>] /\ g[m \ {Max(m)}] \in Z
        BY <1>3, <3>1, <4>1 DEF OverSets
      <4> QED
        BY <3>1, <4>1, <4>2
    <3>2. CASE m = {}
      BY <1>3, <3>2 DEF OverSets
    <3> QED
      BY <3>1, <3>2
  <2> HIDE DEF step
  <2> QED
    BY <1>3, <2>1 DEF OverSets
<1>5. it = [m \in sets |-> step(it, m)]
  <2> HIDE DEF step, sets
  <2> QED
    BY <1>4
<1>6. Bytes(parts) = it[1..n]
  BY <1>1 DEF Bytes, FoldLeft, MapThenFoldSet
<1> DEFINE h == [k \in 0..n |-> it[1..k]]
<1> HIDE DEF it
<1>7. h[0] = base
  <2> HIDE DEF base
  <2> QED
    BY <1>1, <1>5, Initials
<1>8. ASSUME NEW k \in 1..n PROVE h[k] = h[k - 1] \o parts[k]
  <2>1. /\ 1..k \in sets /\ 1..k # {} /\ Max(1..k) = k /\ (1..k) \ {k} = 1..(k - 1)
        /\ k \in 0..n /\ k - 1 \in 0..n
    <3>1. n \in Nat
      BY <1>1
    <3> HIDE DEF n
    <3>2. /\ 1..k \in SUBSET (1..n) /\ 1..k # {} /\ Max(1..k) = k /\ (1..k) \ {k} = 1..(k - 1)
      BY <3>1, Initials
    <3>3. k \in 0..n /\ k - 1 \in 0..n
      BY <3>1
    <3> QED
      BY <3>2, <3>3
  <2>2. it[1..k] = step(it, 1..k)
    <3> HIDE DEF step, sets
    <3> QED
      BY <1>5, <2>1
  <2>3. step(it, 1..k) = it[1..(k - 1)] \o parts[k]
    <3> HIDE DEF base
    <3> QED
      BY <2>1
  <2>4. h[k] = it[1..k] /\ h[k - 1] = it[1..(k - 1)]
    BY <2>1
  <2> HIDE DEF step, h
  <2> QED
    BY <2>2, <2>3, <2>4
<1>9. Bytes(parts) = h[n]
  BY <1>1, <1>6
<1> DEFINE G == {k \in 0..n : h[k] \in Z}
<1>10. \A k \in 0..n : k \in G
  <2>1. 0 \in G
    <3>1. base \in Z /\ 0 \in 0..n
      BY <1>1
    <3> HIDE DEF h, base, Z
    <3> QED
      BY <1>7, <3>1
  <2>2. ASSUME NEW k \in 1..n, k - 1 \in G PROVE k \in G
    <3>1. h[k - 1] \in Z /\ k \in 0..n
      BY <2>2
    <3>2. parts[k] \in Z
      BY ElementOfSeq
    <3> HIDE DEF h
    <3>3. h[k - 1] \o parts[k] \in Z
      BY <3>1, <3>2, ConcatProperties
    <3> HIDE DEF Z
    <3> QED
      BY <1>8, <3>1, <3>3
  <2> HIDE DEF G, n
  <2> QED
    BY <1>1, <2>1, <2>2, UpToInduction
<1> QED
  BY <1>7, <1>8, <1>9, <1>10 DEF PartAfterPart

\* The parts of a payload lie one after the other; each ends at a place of its own.
Laid(payload, parts, at) ==
  /\ at[0] = 0 /\ at[Len(parts)] = Len(payload) /\ Len(payload) \in Nat
  /\ \A k \in 1..Len(parts) :
        /\ at[k - 1] \in Nat /\ at[k] = at[k - 1] + Len(parts[k]) /\ at[k] =< Len(payload)
        /\ \A j \in 1..Len(parts[k]) : payload[at[k - 1] + j] = parts[k][j]

AreLaid(payload, parts) == \E at : Laid(payload, parts, at)

LEMMA BytesAreLaid ==
  ASSUME NEW B, NEW parts \in Seq(Seq(B))
  PROVE  AreLaid(Bytes(parts), parts)
<1> DEFINE n == Len(parts)
           p == Bytes(parts)
<1>1. PICK h : /\ PartAfterPart(h, parts) /\ p = h[n]
               /\ \A k \in 0..n : h[k] \in Seq(B)
  BY BytesStepByStep
<1>2. n \in Nat /\ \A k \in 1..n : parts[k] \in Seq(B) /\ Len(parts[k]) \in Nat
  BY ElementOfSeq
<1> DEFINE at == [k \in 0..n |-> Len(h[k])]
<1>3. ASSUME NEW k \in 1..n
      PROVE  /\ h[k - 1] \in Seq(B) /\ h[k] \in Seq(B)
             /\ Len(h[k]) = Len(h[k - 1]) + Len(parts[k]) /\ Len(h[k - 1]) \in Nat
             /\ \A x \in 1..Len(h[k - 1]) : h[k][x] = h[k - 1][x]
             /\ \A j \in 1..Len(parts[k]) : h[k][Len(h[k - 1]) + j] = parts[k][j]
  <2> DEFINE a == h[k - 1]
             b == parts[k]
  <2>1. a \in Seq(B) /\ b \in Seq(B) /\ h[k] \in Seq(B)
    BY <1>1, <1>2
  <2>2. h[k] = a \o b
    BY <1>1 DEF PartAfterPart
  <2> HIDE DEF a, b
  <2>3. /\ Len(a \o b) = Len(a) + Len(b)
        /\ \A x \in 1..(Len(a) + Len(b)) : (a \o b)[x] = IF x =< Len(a) THEN a[x] ELSE b[x - Len(a)]
    BY <2>1, ConcatProperties
  <2>4. Len(a) \in Nat /\ Len(b) \in Nat
    BY <2>1
  <2>5. \A x \in 1..Len(a) : (a \o b)[x] = a[x]
    BY <2>3, <2>4
  <2>6. \A j \in 1..Len(b) : (a \o b)[Len(a) + j] = b[j]
    <3>1. \A j \in 1..Len(b) : Len(a) + j \in 1..(Len(a) + Len(b)) /\ ~(Len(a) + j =< Len(a)) /\ (Len(a) + j) - Len(a) = j
      BY <2>4
    <3> QED
      BY <2>3, <3>1
  <2> QED
    BY <2>1, <2>2, <2>3, <2>4, <2>5, <2>6 DEF a, b
<1>4. ASSUME NEW i \in 0..n PROVE Extends(p, h[i])
  <2> DEFINE d == n - i
             G == {j \in 0..d : Extends(h[i + j], h[i])}
  <2>1. d \in Nat /\ d \in 0..d /\ i + d = n
    BY <1>2
  <2>2. 0 \in G
    <3>1. i + 0 = i /\ Len(h[i]) \in Nat
      BY <1>1, <1>2
    <3>2. Extends(h[i + 0], h[i])
      BY <3>1 DEF Extends
    <3> QED
      BY <2>1, <3>2
  <2>3. ASSUME NEW j \in 1..d, j - 1 \in G PROVE j \in G
    <3>1. i + j \in 1..n /\ (i + j) - 1 = i + (j - 1)
      BY <1>2
    <3>2. Extends(h[(i + j) - 1], h[i])
      BY <2>3, <3>1
    <3>3. /\ Len(h[i + j]) = Len(h[(i + j) - 1]) + Len(parts[i + j]) /\ Len(h[(i + j) - 1]) \in Nat
          /\ \A x \in 1..Len(h[(i + j) - 1]) : h[i + j][x] = h[(i + j) - 1][x]
      BY <1>3, <3>1
    <3>4. Len(parts[i + j]) \in Nat /\ Len(h[i]) \in Nat
      BY <1>1, <1>2, <3>1
    <3> DEFINE u == h[i]
               v == h[(i + j) - 1]
               w == h[i + j]
               l == Len(parts[i + j])
    <3>5. /\ Len(u) =< Len(v) /\ \A x \in 1..Len(u) : v[x] = u[x]
          /\ Len(w) = Len(v) + l /\ Len(v) \in Nat /\ l \in Nat /\ Len(u) \in Nat
          /\ \A x \in 1..Len(v) : w[x] = v[x]
      BY <3>2, <3>3, <3>4 DEF Extends
    <3>6. Extends(w, u)
      <4> HIDE DEF u, v, w, l
      <4> QED
        BY <3>5 DEF Extends
    <3>7. Extends(h[i + j], h[i])
      BY <3>6
    <3> HIDE DEF u, v, w, l
    <3> QED
      BY <3>7
  <2>4. d \in G
    <3> HIDE DEF d, G
    <3> QED
      BY <2>1, <2>2, <2>3, UpToInduction
  <2> QED
    BY <1>1, <2>1, <2>4
<1>5. at[0] = 0 /\ at[n] = Len(p) /\ Len(p) \in Nat
  <2>1. at[0] = Len(h[0]) /\ at[n] = Len(h[n]) /\ h[n] \in Seq(B)
    BY <1>1, <1>2
  <2> QED
    BY <1>1, <2>1 DEF PartAfterPart
<1>6. ASSUME NEW k \in 1..n
      PROVE  /\ at[k - 1] \in Nat /\ at[k] = at[k - 1] + Len(parts[k]) /\ at[k] =< Len(p)
             /\ \A j \in 1..Len(parts[k]) : p[at[k - 1] + j] = parts[k][j]
  <2>1. k \in 0..n /\ k - 1 \in 0..n
    BY <1>2
  <2>2. at[k] = Len(h[k]) /\ at[k - 1] = Len(h[k - 1])
    BY <2>1
  <2>3. Extends(p, h[k])
    BY <1>4, <2>1
  <2>4. Len(h[k]) =< Len(p) /\ \A x \in 1..Len(h[k]) : p[x] = h[k][x]
    BY <2>3 DEF Extends
  <2> HIDE DEF at, p
  <2>5. ASSUME NEW j \in 1..Len(parts[k]) PROVE p[at[k - 1] + j] = parts[k][j]
    <3>1. Len(h[k - 1]) + j \in 1..Len(h[k])
      <4>1. Len(h[k]) = Len(h[k - 1]) + Len(parts[k]) /\ Len(h[k - 1]) \in Nat /\ Len(parts[k]) \in Nat
        BY <1>2, <1>3
      <4> DEFINE u == Len(h[k - 1])
                 v == Len(h[k])
                 l == Len(parts[k])
      <4>2. v = u + l /\ u \in Nat /\ l \in Nat /\ j \in 1..l
        BY <4>1
      <4> HIDE DEF u, v, l
      <4>3. u + j \in 1..v
        BY <4>2
      <4> QED
        BY <4>3 DEF u, v
    <3> QED
      BY <1>3, <2>2, <2>4, <3>1
  <2> QED
    BY <1>3, <2>2, <2>4, <2>5
<1> HIDE DEF at, p
<1>7. Laid(p, parts, at)
  BY <1>5, <1>6 DEF Laid
<1> QED
  BY <1>7 DEF AreLaid, p

LEMMA NumberIsRead ==
  ASSUME NEW payload, NEW parts, NEW at, Laid(payload, parts, at), NEW k \in 1..Len(parts),
         NEW width \in Nat \ {0}, NEW value \in Int \cup STRING, parts[k] = Number(width, value)
  PROVE  ReadAt(payload, at[k - 1], width) = value /\ at[k] = at[k - 1] + width
<1>1. /\ Len(parts[k]) = width /\ parts[k][1] = [width |-> width, value |-> value]
  BY NumberBytes
<1>2. /\ at[k - 1] \in Nat /\ at[k] = at[k - 1] + width /\ at[k] =< Len(payload)
      /\ payload[at[k - 1] + 1] = parts[k][1]
  <2>1. 1 \in 1..Len(parts[k])
    BY <1>1
  <2> QED
    BY <1>1, <2>1 DEF Laid
<1>3. payload[at[k - 1] + 1].width = width /\ payload[at[k - 1] + 1].value = value
  BY <1>1, <1>2
<1> QED
  BY <1>2, <1>3 DEF ReadAt

Text == Seq(STRING)

LEMMA StringBytes ==
  ASSUME NEW text \in Text
  PROVE  /\ String(text) \in Seq(ByteRows) /\ Len(String(text)) = 4 + Len(text)
         /\ String(text)[1] = [width |-> 4, value |-> Len(text)]
         /\ \A j \in 1..Len(text) : String(text)[4 + j] = [width |-> 1, value |-> text[j]]
<1> DEFINE a == U32(Len(text))
           b == [k \in DOMAIN text |-> U8(text[k])[1]]
           n == Len(text)
<1>1. n \in Nat /\ DOMAIN text = 1..n /\ \A j \in 1..n : text[j] \in STRING
  BY ElementOfSeq DEF Text
<1>2. a \in Seq(ByteRows) /\ Len(a) = 4 /\ a[1] = [width |-> 4, value |-> n]
  <2>1. n \in Int \cup STRING /\ 4 \in Nat \ {0}
    BY <1>1
  <2> HIDE DEF n
  <2>2. Number(4, n) \in Seq(ByteRows) /\ Len(Number(4, n)) = 4 /\ Number(4, n)[1] = [width |-> 4, value |-> n]
    BY <2>1, NumberBytes
  <2> QED
    BY <2>2 DEF U32, n
<1>3. \A j \in 1..n : b[j] = [width |-> 1, value |-> text[j]] /\ b[j] \in ByteRows
  <2>1. ASSUME NEW j \in 1..n PROVE b[j] = [width |-> 1, value |-> text[j]] /\ b[j] \in ByteRows
    <3>1. text[j] \in Int \cup STRING
      <4>1. text[j] \in STRING
        BY <1>1
      <4> QED
        BY <4>1, Zenon
    <3>2. Number(1, text[j])[1] = [width |-> 1, value |-> text[j]]
      <4> DEFINE c == text[j]
      <4>1. 1 \in Nat \ {0} /\ c \in Int \cup STRING
        BY <3>1
      <4> HIDE DEF c
      <4>2. Number(1, c)[1] = [width |-> 1, value |-> c]
        BY <4>1, NumberBytes
      <4> QED
        BY <4>2 DEF c
    <3>3. b[j] = Number(1, text[j])[1]
      BY <1>1 DEF U8
    <3> HIDE DEF b
    <3> QED
      BY <3>1, <3>2, <3>3 DEF ByteRows
  <2> QED
    BY <2>1
<1>4. b \in Seq(ByteRows) /\ Len(b) = n
  <2>1. b = [j \in 1..n |-> b[j]]
    BY <1>1
  <2> HIDE DEF b, n
  <2>2. b \in [1..n -> ByteRows]
    BY <1>3, <2>1
  <2> QED
    BY <1>1, <2>2
<1>5. String(text) = a \o b
  BY DEF String
<1> HIDE DEF a, b, n
<1>6. /\ a \o b \in Seq(ByteRows) /\ Len(a \o b) = Len(a) + Len(b)
      /\ \A x \in 1..(Len(a) + Len(b)) : (a \o b)[x] = IF x =< Len(a) THEN a[x] ELSE b[x - Len(a)]
  BY <1>2, <1>4, ConcatProperties
<1>7. Len(a) + Len(b) = 4 + n
  BY <1>2, <1>4
<1>8. (a \o b)[1] = a[1]
  <2>1. 1 \in 1..(Len(a) + Len(b)) /\ 1 =< Len(a)
    BY <1>1, <1>2, <1>7
  <2> QED
    BY <1>6, <2>1
<1>9. \A j \in 1..n : (a \o b)[4 + j] = b[j]
  <2>1. \A j \in 1..n : 4 + j \in 1..(Len(a) + Len(b)) /\ ~(4 + j =< Len(a)) /\ (4 + j) - Len(a) = j
    BY <1>1, <1>2, <1>7
  <2> QED
    BY <1>6, <2>1
<1> QED
  BY <1>2, <1>3, <1>5, <1>6, <1>7, <1>8, <1>9 DEF n

LEMMA StringIsRead ==
  ASSUME NEW payload, NEW parts, NEW at, Laid(payload, parts, at), NEW k \in 1..Len(parts),
         NEW text \in Text, parts[k] = String(text)
  PROVE  /\ ReadU32(payload, at[k - 1]) = Len(text)
         /\ ReadText(payload, at[k - 1]) = text
         /\ at[k] = at[k - 1] + 4 + Len(text)
         /\ at[k] =< Len(payload) /\ at[k - 1] \in Nat
<1> DEFINE o == at[k - 1]
           n == Len(text)
<1>1. /\ Len(parts[k]) = 4 + n
      /\ parts[k][1] = [width |-> 4, value |-> n]
      /\ \A j \in 1..n : parts[k][4 + j] = [width |-> 1, value |-> text[j]]
  BY StringBytes
<1>2. n \in Nat /\ text = [j \in 1..n |-> text[j]]
  BY DEF Text
<1>3. /\ o \in Nat /\ at[k] = o + Len(parts[k]) /\ at[k] =< Len(payload)
      /\ \A j \in 1..Len(parts[k]) : payload[o + j] = parts[k][j]
  BY DEF Laid
<1> HIDE DEF o, n
<1>4. /\ at[k] = o + 4 + n /\ o + 4 + n =< Len(payload)
      /\ payload[o + 1].width = 4 /\ payload[o + 1].value = n
      /\ \A j \in 1..n : payload[o + 4 + j].width = 1 /\ payload[o + 4 + j].value = text[j]
  <2>1. 1 \in 1..Len(parts[k]) /\ \A j \in 1..n : 4 + j \in 1..Len(parts[k]) /\ o + (4 + j) = o + 4 + j
    BY <1>1, <1>2, <1>3
  <2>2. payload[o + 1] = parts[k][1]
    BY <1>3, <2>1
  <2>3. \A j \in 1..n : payload[o + 4 + j] = parts[k][4 + j]
    BY <1>3, <2>1
  <2>4. at[k] = o + 4 + n /\ o + 4 + n =< Len(payload)
    BY <1>1, <1>2, <1>3
  <2>5. ASSUME NEW j \in 1..n PROVE payload[o + 4 + j].width = 1 /\ payload[o + 4 + j].value = text[j]
    <3>1. payload[o + 4 + j] = [width |-> 1, value |-> text[j]]
      BY <1>1, <2>3
    <3> QED
      BY <3>1
  <2>6. payload[o + 1].width = 4 /\ payload[o + 1].value = n
    BY <1>1, <2>2
  <2> QED
    BY <2>4, <2>5, <2>6
<1>5. Len(payload) \in Nat
  BY DEF Laid
<1>6. ReadU32(payload, o) = n
  <2>1. o + 4 =< Len(payload)
    BY <1>2, <1>3, <1>4, <1>5
  <2> QED
    BY <1>3, <1>4, <2>1 DEF ReadU32, ReadAt
<1>7. ASSUME NEW j \in 1..n PROVE ReadAt(payload, o + 3 + j, 1) = text[j]
  <2>1. 0 =< o + 3 + j /\ o + 3 + j + 1 =< Len(payload) /\ o + 3 + j + 1 = o + 4 + j
    <3> DEFINE l == Len(payload)
    <3>1. o \in Nat /\ n \in Nat /\ j \in 1..n /\ o + 4 + n =< l /\ l \in Nat
      BY <1>2, <1>3, <1>4, <1>5
    <3> HIDE DEF l
    <3>2. 0 =< o + 3 + j /\ o + 3 + j + 1 =< l /\ o + 3 + j + 1 = o + 4 + j
      BY <3>1
    <3> QED
      BY <3>2 DEF l
  <2> QED
    BY <1>4, <2>1 DEF ReadAt
<1>8. ReadText(payload, o) = text
  <2>1. ~(n = Torn \/ o + 4 + n > Len(payload))
    BY <1>2, <1>3, <1>4, <1>5 DEF Torn
  <2>2. ReadText(payload, o) = [j \in 1..n |-> ReadAt(payload, o + 3 + j, 1)]
    BY <1>6, <2>1 DEF ReadText
  <2> QED
    BY <1>2, <1>7, <2>2
<1> QED
  BY <1>3, <1>4, <1>6, <1>8 DEF o, n

\* One identifier more, as ReadIds reads it.
OneId(payload, s) ==
  LET length == ReadU32(payload, s.at)
  IN  IF length = Torn \/ s.at + 4 + length > Len(payload) THEN [s EXCEPT !.at = Len(payload) + 1]
      ELSE [ids |-> Append(s.ids, ReadText(payload, s.at)), at |-> s.at + 4 + length]

\* The first identifiers of a payload; past the last there is none.
IdsUpTo(payload, at, m, ids, j) ==
  IF j =< Len(ids) THEN [ids |-> SubSeq(ids, 1, j), at |-> at[m + j]]
  ELSE [ids |-> ids, at |-> Len(payload) + 1]

\* The identifiers are the last parts of a payload.
EndsWithIds(payload, parts, at, m, ids) ==
  /\ Laid(payload, parts, at) /\ m \in Nat /\ m > 0 /\ ids \in Seq(Text)
  /\ Len(parts) = m + Len(ids)
  /\ \A j \in 1..Len(ids) : parts[m + j] = String(ids[j])

LEMMA OneIdMore ==
  ASSUME NEW payload, NEW parts, NEW at, NEW m, NEW ids, EndsWithIds(payload, parts, at, m, ids),
         NEW j \in 0..(Len(ids) + 1)
  PROVE  OneId(payload, IdsUpTo(payload, at, m, ids, j))
           = IdsUpTo(payload, at, m, ids, IF j =< Len(ids) THEN j + 1 ELSE j)
<1> DEFINE n == Len(ids)
           l == Len(payload)
           state(i) == IdsUpTo(payload, at, m, ids, i)
<1>1. /\ ids \in Seq(Text) /\ n \in Nat /\ l \in Nat /\ m \in Nat /\ m > 0
      /\ Len(parts) = m + n /\ at[m + n] = l
  BY DEF EndsWithIds, Laid
<1>2. CASE j \in 0..(n - 1)
  <2> DEFINE id == ids[j + 1]
             k == m + (j + 1)
             a == at[m + j]
             b == at[m + (j + 1)]
  <2>1. j + 1 \in 1..n /\ k \in 1..Len(parts) /\ k - 1 = m + j /\ j =< n /\ j + 1 =< n /\ j \in Nat
    BY <1>1, <1>2
  <2>2. id \in Text
    BY <1>1, <2>1, ElementOfSeq
  <2>3. parts[k] = String(id) /\ Laid(payload, parts, at)
    BY <2>1 DEF EndsWithIds
  <2>4. /\ ReadU32(payload, at[k - 1]) = Len(id)
        /\ ReadText(payload, at[k - 1]) = id
        /\ at[k] = at[k - 1] + 4 + Len(id)
        /\ at[k] =< Len(payload) /\ at[k - 1] \in Nat
    <3> HIDE DEF k, id
    <3> QED
      BY <2>1, <2>2, <2>3, StringIsRead
  <2>5. /\ ReadU32(payload, a) = Len(id)
        /\ ReadText(payload, a) = id
        /\ b = a + 4 + Len(id) /\ b =< l /\ a \in Nat
    BY <2>1, <2>4
  <2>6. Len(id) \in Nat
    BY <2>2 DEF Text
  <2>7. state(j) = [ids |-> SubSeq(ids, 1, j), at |-> a] /\ state(j + 1) = [ids |-> SubSeq(ids, 1, j + 1), at |-> b]
    BY <2>1 DEF IdsUpTo
  <2>8. SubSeq(ids, 1, j + 1) = Append(SubSeq(ids, 1, j), id)
    <3>1. /\ SubSeq(ids, 1, j + 1) = [x \in 1..(j + 1) |-> ids[x]]
          /\ SubSeq(ids, 1, j) = [x \in 1..j |-> ids[x]]
      BY <1>1, <2>1
    <3>2. Len([x \in 1..j |-> ids[x]]) = j
      BY <2>1
    <3> QED
      BY <2>1, <3>1, <3>2
  <2> HIDE DEF a, b, id, k, n, l, state
  <2>9. ~(Len(id) = Torn \/ a + 4 + Len(id) > Len(payload))
    BY <1>1, <2>5, <2>6 DEF Torn, l
  <2> DEFINE s == [ids |-> SubSeq(ids, 1, j), at |-> a]
  <2>10. s.at = a /\ s.ids = SubSeq(ids, 1, j)
    OBVIOUS
  <2> HIDE DEF s
  <2>11. OneId(payload, s) = [ids |-> Append(SubSeq(ids, 1, j), id), at |-> b]
    BY <2>5, <2>9, <2>10 DEF OneId
  <2>12. OneId(payload, state(j)) = state(j + 1)
    BY <2>7, <2>8, <2>11 DEF s
  <2> QED
    BY <2>1, <2>12 DEF n, state
<1>3. CASE j \in {n, n + 1}
  <2> DEFINE s == state(j)
             a == s.at
  <2>1. s = [ids |-> ids, at |-> IF j = n THEN l ELSE l + 1]
    <3>1. CASE j = n
      <4>1. SubSeq(ids, 1, n) = ids
        BY <1>1, SubSeqFull
      <4> QED
        BY <1>1, <3>1, <4>1 DEF IdsUpTo
    <3>2. CASE j = n + 1
      <4>1. ~(j =< n) /\ j # n
        BY <1>1, <3>2
      <4> QED
        BY <4>1 DEF IdsUpTo
    <3> QED
      BY <1>3, <3>1, <3>2
  <2>2. a >= l /\ a \in Nat
    BY <1>1, <2>1
  <2>3. ReadU32(payload, a) = Torn
    <3>1. ~(a + 4 =< l)
      BY <1>1, <2>2
    <3> QED
      BY <3>1 DEF ReadU32, ReadAt
  <2>4. OneId(payload, s) = [s EXCEPT !.at = l + 1]
    BY <2>3 DEF OneId
  <2>5. [s EXCEPT !.at = l + 1] = [ids |-> ids, at |-> l + 1]
    BY <2>1
  <2>6. state(n + 1) = [ids |-> ids, at |-> l + 1]
    <3>1. ~(n + 1 =< n)
      BY <1>1
    <3> QED
      BY <3>1 DEF IdsUpTo
  <2>7. (IF j =< n THEN j + 1 ELSE j) = n + 1
    BY <1>1, <1>3
  <2> QED
    BY <2>4, <2>5, <2>6, <2>7
<1> QED
  BY <1>1, <1>2, <1>3

LEMMA IdsAreRead ==
  ASSUME NEW payload, NEW parts, NEW at, NEW m, NEW ids, EndsWithIds(payload, parts, at, m, ids)
  PROVE  ReadIds(payload, at[m], Len(ids)) = [ids |-> ids, at |-> Len(payload)]
<1> DEFINE n == Len(ids)
           state(i) == IdsUpTo(payload, at, m, ids, i)
           Z == {state(j) : j \in 0..(n + 1)}
           base == [ids |-> << >>, at |-> at[m]]
           F == [x \in Z \X (1..n) |-> OneId(payload, x[1])]
           sets == SUBSET (1..n)
           step(g, s) == IF s = {} THEN base ELSE OneId(payload, g[s \ {Max(s)}])
           it == CHOOSE g : g = [s \in sets |-> step(g, s)]
<1>1. n \in Nat /\ m \in Nat /\ ids \in Seq(Text) /\ at[m + n] = Len(payload)
  BY DEF EndsWithIds, Laid
<1>2. F \in [Z \X (1..n) -> Z]
  <2>1. ASSUME NEW c \in Z PROVE OneId(payload, c) \in Z
    <3>1. PICK j \in 0..(n + 1) : c = state(j)
      OBVIOUS
    <3>2. OneId(payload, state(j)) = state(IF j =< n THEN j + 1 ELSE j)
      BY OneIdMore
    <3>3. (IF j =< n THEN j + 1 ELSE j) \in 0..(n + 1)
      BY <1>1
    <3> HIDE DEF state
    <3> QED
      BY <3>1, <3>2, <3>3
  <2> HIDE DEF Z
  <2> QED
    BY <2>1
<1>3. base = state(0)
  <2>1. SubSeq(ids, 1, 0) = << >> /\ 0 =< n /\ m + 0 = m
    BY <1>1
  <2> QED
    BY <2>1 DEF IdsUpTo
<1>4. PICK g : OverSets(g, n, Z, base, F)
  <2>1. base \in Z
    <3>1. 0 \in 0..(n + 1)
      BY <1>1
    <3> HIDE DEF state, base
    <3> QED
      BY <1>3, <3>1
  <2> HIDE DEF F, n, base, Z
  <2> QED
    BY <1>1, <1>2, <2>1, SetRecursion
<1>5. g = [s \in sets |-> step(g, s)]
  <2>1. ASSUME NEW s \in sets PROVE g[s] = step(g, s)
    <3> HIDE DEF base, Z
    <3>1. CASE s # {}
      <4>1. Max(s) \in 1..n /\ s \ {Max(s)} \in sets
        BY <1>1, <3>1, Greatest
      <4>2. g[s] = F[<<g[s \ {Max(s)}], Max(s)>>] /\ g[s \ {Max(s)}] \in Z
        BY <1>4, <3>1, <4>1 DEF OverSets
      <4> QED
        BY <3>1, <4>1, <4>2
    <3>2. CASE s = {}
      BY <1>4, <3>2 DEF OverSets
    <3> QED
      BY <3>1, <3>2
  <2> HIDE DEF step
  <2> QED
    BY <1>4, <2>1 DEF OverSets
<1>6. it = [s \in sets |-> step(it, s)]
  <2> HIDE DEF step, sets
  <2> QED
    BY <1>5
<1>7. ReadIds(payload, at[m], n) = it[1..n]
  <2>1. DOMAIN [k \in 1 .. n |-> k] = 1..n
    OBVIOUS
  <2> QED
    BY <2>1 DEF ReadIds, FoldLeft, MapThenFoldSet, OneId
<1> DEFINE h == [k \in 0..n |-> it[1..k]]
<1> HIDE DEF it
<1>8. h[0] = base
  <2> HIDE DEF base
  <2> QED
    BY <1>1, <1>6, Initials
<1>9. ASSUME NEW k \in 1..n PROVE h[k] = OneId(payload, h[k - 1])
  <2>1. /\ 1..k \in sets /\ 1..k # {} /\ Max(1..k) = k /\ (1..k) \ {k} = 1..(k - 1)
        /\ k \in 0..n /\ k - 1 \in 0..n
    <3>1. n \in Nat
      BY <1>1
    <3> HIDE DEF n
    <3>2. /\ 1..k \in SUBSET (1..n) /\ 1..k # {} /\ Max(1..k) = k /\ (1..k) \ {k} = 1..(k - 1)
      BY <3>1, Initials
    <3>3. k \in 0..n /\ k - 1 \in 0..n
      BY <3>1
    <3> QED
      BY <3>2, <3>3
  <2>2. it[1..k] = step(it, 1..k)
    <3> HIDE DEF step, sets
    <3> QED
      BY <1>6, <2>1
  <2>3. step(it, 1..k) = OneId(payload, it[1..(k - 1)])
    <3> HIDE DEF base
    <3> QED
      BY <2>1
  <2>4. h[k] = it[1..k] /\ h[k - 1] = it[1..(k - 1)]
    BY <2>1
  <2> HIDE DEF step, h
  <2> QED
    BY <2>2, <2>3, <2>4
<1> DEFINE G == {k \in 0..n : h[k] = state(k)}
<1>10. n \in G
  <2>1. 0 \in G
    <3>1. 0 \in 0..n
      BY <1>1
    <3> HIDE DEF h, base, state
    <3> QED
      BY <1>3, <1>8, <3>1
  <2>2. ASSUME NEW k \in 1..n, k - 1 \in G PROVE k \in G
    <3>1. k \in 0..n /\ k - 1 \in 0..(n + 1) /\ (IF k - 1 =< n THEN (k - 1) + 1 ELSE k - 1) = k
      BY <1>1
    <3>2. h[k] = OneId(payload, h[k - 1])
      BY <1>9
    <3>3. OneId(payload, state(k - 1)) = state(k)
      BY <3>1, OneIdMore
    <3> HIDE DEF h, state
    <3> QED
      BY <2>2, <3>1, <3>2, <3>3
  <2>3. n \in 0..n
    BY <1>1
  <2> HIDE DEF G, n
  <2> QED
    BY <1>1, <2>1, <2>2, <2>3, UpToInduction
<1>11. it[1..n] = state(n)
  <2>1. n \in 0..n
    BY <1>1
  <2> HIDE DEF state
  <2> QED
    BY <1>10, <2>1
<1>12. state(n) = [ids |-> ids, at |-> Len(payload)]
  <2>1. SubSeq(ids, 1, n) = ids /\ n =< n
    BY <1>1, SubSeqFull
  <2> QED
    BY <1>1, <2>1 DEF IdsUpTo
<1> QED
  BY <1>7, <1>11, <1>12

\* Numbers, then identifiers.
LEMMA PayloadParts ==
  ASSUME NEW B, NEW head \in Seq(Seq(B)), NEW tail \in Seq(Seq(B))
  PROVE  /\ head \o tail \in Seq(Seq(B)) /\ Len(head \o tail) = Len(head) + Len(tail)
         /\ \A k \in 1..Len(head) : (head \o tail)[k] = head[k]
         /\ \A k \in 1..Len(tail) : (head \o tail)[Len(head) + k] = tail[k]
<1>1. /\ head \o tail \in Seq(Seq(B)) /\ Len(head \o tail) = Len(head) + Len(tail)
      /\ \A x \in 1..(Len(head) + Len(tail)) : (head \o tail)[x] = IF x =< Len(head) THEN head[x] ELSE tail[x - Len(head)]
  BY ConcatProperties
<1>2. Len(head) \in Nat /\ Len(tail) \in Nat
  OBVIOUS
<1>3. \A k \in 1..Len(head) : (head \o tail)[k] = head[k]
  BY <1>1, <1>2
<1>4. \A k \in 1..Len(tail) : (head \o tail)[Len(head) + k] = tail[k]
  <2>1. \A k \in 1..Len(tail) : /\ Len(head) + k \in 1..(Len(head) + Len(tail))
                                /\ ~(Len(head) + k =< Len(head)) /\ (Len(head) + k) - Len(head) = k
    BY <1>2
  <2> QED
    BY <1>1, <2>1
<1> QED
  BY <1>1, <1>3, <1>4

LEMMA IdParts ==
  ASSUME NEW ids \in Seq(Text), NEW tail, tail = [k \in DOMAIN ids |-> String(ids[k])]
  PROVE  /\ tail \in Seq(Seq(ByteRows)) /\ Len(tail) = Len(ids)
         /\ \A k \in 1..Len(ids) : tail[k] = String(ids[k])
<1> DEFINE n == Len(ids)
           Z == Seq(ByteRows)
<1>1. n \in Nat /\ DOMAIN ids = 1..n /\ \A k \in 1..n : ids[k] \in Text
  BY ElementOfSeq
<1>2. \A k \in 1..n : String(ids[k]) \in Z
  BY <1>1, StringBytes
<1> HIDE DEF Z, n
<1>3. tail \in [1..n -> Z]
  BY <1>1, <1>2
<1>4. tail \in Seq(Z) /\ Len(tail) = n
  BY <1>1, <1>3
<1>5. \A k \in 1..n : tail[k] = String(ids[k])
  BY <1>1
<1> QED
  BY <1>4, <1>5 DEF Z, n

RequestsV1Type == [start : Int, end : Int, max : Nat, ids : Seq(Text)]
RequestsV2Type == [start : Int, end : Int, viewportStart : Int, viewportEnd : Int, max : Nat, ids : Seq(Text)]

LEMMA RequestIsDecoded ==
  ASSUME NEW r \in RequestsV1Type
  PROVE  DecodeViewportRequest(RequestPayload(r)) \in {Refused, r}
<1> DEFINE n == Len(r.ids)
           a == F64(r.start)
           b == F64(r.end)
           z == F32(0)
           c == U32(r.max)
           d == U32(n)
           head == << a, b >> \o << z, z, z, c, d >>
           tail == [k \in DOMAIN r.ids |-> String(r.ids[k])]
           parts == head \o tail
           payload == RequestPayload(r)
<1>1. /\ r.start \in Int /\ r.end \in Int /\ r.max \in Nat /\ r.ids \in Seq(Text) /\ n \in Nat
      /\ DOMAIN r = {"start", "end", "max", "ids"}
      /\ r = [start |-> r.start, end |-> r.end, max |-> r.max, ids |-> r.ids]
  BY DEF RequestsV1Type
<1>2. payload = Bytes(parts)
  <2>1. "viewportStart" \notin DOMAIN r
    BY <1>1
  <2>2. Times(r) = << a, b >>
    BY <2>1 DEF Times
  <2> QED
    BY <2>2 DEF RequestPayload
<1>3. /\ a \in Seq(ByteRows) /\ b \in Seq(ByteRows) /\ z \in Seq(ByteRows)
      /\ c \in Seq(ByteRows) /\ d \in Seq(ByteRows)
  <2>1. ASSUME NEW v \in Int PROVE Number(8, v) \in Seq(ByteRows) /\ Number(4, v) \in Seq(ByteRows)
    <3>1. v \in Int \cup STRING /\ 8 \in Nat \ {0} /\ 4 \in Nat \ {0}
      OBVIOUS
    <3> QED
      BY <3>1, NumberBytes
  <2>2. r.start \in Int /\ r.end \in Int /\ r.max \in Int /\ n \in Int /\ 0 \in Int
    BY <1>1
  <2> HIDE DEF n
  <2> QED
    BY <2>1, <2>2 DEF F64, F32, U32
<1>4. /\ head \in Seq(Seq(ByteRows)) /\ Len(head) = 7
      /\ head[1] = a /\ head[2] = b /\ head[3] = z /\ head[4] = z /\ head[5] = z /\ head[6] = c /\ head[7] = d
  <2> HIDE DEF a, b, z, c, d
  <2> QED
    BY <1>3
<1>5. /\ tail \in Seq(Seq(ByteRows)) /\ Len(tail) = n
      /\ \A k \in 1..n : tail[k] = String(r.ids[k])
  BY <1>1, IdParts
<1> HIDE DEF head, tail
<1>6. /\ parts \in Seq(Seq(ByteRows)) /\ Len(parts) = 7 + n
      /\ \A k \in 1..7 : parts[k] = head[k]
      /\ \A k \in 1..n : parts[7 + k] = String(r.ids[k])
  <2>1. /\ parts \in Seq(Seq(ByteRows)) /\ Len(parts) = Len(head) + Len(tail)
        /\ \A k \in 1..Len(head) : parts[k] = head[k]
        /\ \A k \in 1..Len(tail) : parts[Len(head) + k] = tail[k]
    <3>1. head \in Seq(Seq(ByteRows)) /\ tail \in Seq(Seq(ByteRows))
      BY <1>4, <1>5
    <3> QED
      BY <3>1, PayloadParts
  <2> HIDE DEF parts
  <2> QED
    BY <1>4, <1>5, <2>1
<1> HIDE DEF parts, payload
<1>7. PICK at : Laid(payload, parts, at)
  BY <1>2, <1>6, BytesAreLaid DEF AreLaid
<1>8. at[0] = 0 /\ \A k \in 1..7 : k \in 1..Len(parts)
  BY <1>1, <1>6, <1>7 DEF Laid
<1>9. /\ parts[1] = Number(8, r.start) /\ parts[2] = Number(8, r.end)
      /\ parts[3] = Number(4, 0) /\ parts[4] = Number(4, 0) /\ parts[5] = Number(4, 0)
      /\ parts[6] = Number(4, r.max) /\ parts[7] = Number(4, n)
  <2>1. /\ parts[1] = a /\ parts[2] = b /\ parts[3] = z /\ parts[4] = z /\ parts[5] = z
        /\ parts[6] = c /\ parts[7] = d
    <3> HIDE DEF a, b, z, c, d
    <3> QED
      BY <1>4, <1>6
  <2> QED
    BY <2>1 DEF F64, F32, U32
<1>10. \A k \in 1..7 : \A width \in {4, 8} : \A value \in Int :
          parts[k] = Number(width, value) => ReadAt(payload, at[k - 1], width) = value /\ at[k] = at[k - 1] + width
  <2>1. ASSUME NEW k \in 1..7, NEW width \in {4, 8}, NEW value \in Int, parts[k] = Number(width, value)
        PROVE  ReadAt(payload, at[k - 1], width) = value /\ at[k] = at[k - 1] + width
    <3>1. k \in 1..Len(parts) /\ width \in Nat \ {0} /\ value \in Int \cup STRING
      BY <1>8
    <3> HIDE DEF n
    <3> QED
      BY <1>7, <2>1, <3>1, NumberIsRead
  <2> QED
    BY <2>1
<1>11. ReadAt(payload, 0, 8) = r.start /\ at[1] = 8
  BY <1>1, <1>8, <1>9, <1>10
<1>12. ReadAt(payload, 8, 8) = r.end /\ at[2] = 16
  BY <1>1, <1>9, <1>10, <1>11
<1>13. at[3] = 20 /\ at[4] = 24 /\ at[5] = 28
  BY <1>9, <1>10, <1>12
<1>14. ReadAt(payload, 28, 4) = r.max /\ at[6] = 32
  BY <1>1, <1>9, <1>10, <1>13
<1>15. ReadAt(payload, 32, 4) = n /\ at[7] = 36
  BY <1>1, <1>9, <1>10, <1>14
<1>16. EndsWithIds(payload, parts, at, 7, r.ids)
  BY <1>1, <1>6, <1>7 DEF EndsWithIds
<1>17. ReadIds(payload, 36, n) = [ids |-> r.ids, at |-> Len(payload)]
  BY <1>15, <1>16, IdsAreRead
<1> DEFINE times == ReadColumn(payload, 0, 8, 2)
           heights == ReadColumn(payload, 16, 4, 3)
           numbers == ReadColumn(payload, 28, 4, 2)
<1>18. times[1] = r.start /\ times[2] = r.end /\ numbers[1] = r.max /\ numbers[2] = n
  BY <1>11, <1>12, <1>14, <1>15 DEF ReadColumn
<1> HIDE DEF times, heights, numbers, n
<1> DEFINE read == ReadIds(payload, 36, numbers[2])
<1>19. read.at = Len(payload) /\ read.ids = r.ids
  BY <1>17, <1>18
<1> HIDE DEF read
<1>20. DecodeViewportRequest(payload) =
         IF Torn \in ToSet(times \o heights \o numbers) THEN Refused
         ELSE IF read.at # Len(payload) THEN Refused
         ELSE [start |-> times[1], end |-> times[2], max |-> numbers[1], ids |-> read.ids]
  BY DEF DecodeViewportRequest, times, heights, numbers, read
<1>21. [start |-> times[1], end |-> times[2], max |-> numbers[1], ids |-> read.ids] = r
  BY <1>1, <1>18, <1>19
<1> QED
  BY <1>19, <1>20, <1>21 DEF payload

LEMMA RequestV2IsDecoded ==
  ASSUME NEW r \in RequestsV2Type
  PROVE  DecodeViewportRequestV2(RequestPayload(r)) \in {Refused, r}
<1> DEFINE n == Len(r.ids)
           a == F64(r.start)
           b == F64(r.end)
           from == F64(r.viewportStart)
           to == F64(r.viewportEnd)
           z == F32(0)
           c == U32(r.max)
           d == U32(n)
           head == << a, b, from, to >> \o << z, z, z, c, d >>
           tail == [k \in DOMAIN r.ids |-> String(r.ids[k])]
           parts == head \o tail
           payload == RequestPayload(r)
<1>1. /\ r.start \in Int /\ r.end \in Int /\ r.viewportStart \in Int /\ r.viewportEnd \in Int /\ r.max \in Nat /\ r.ids \in Seq(Text) /\ n \in Nat
      /\ DOMAIN r = {"start", "end", "viewportStart", "viewportEnd", "max", "ids"}
      /\ r = [start |-> r.start, end |-> r.end, viewportStart |-> r.viewportStart,
              viewportEnd |-> r.viewportEnd, max |-> r.max, ids |-> r.ids]
  BY DEF RequestsV2Type
<1>2. payload = Bytes(parts)
  <2>1. "viewportStart" \in DOMAIN r
    BY <1>1
  <2>2. Times(r) = << a, b, from, to >>
    BY <2>1 DEF Times
  <2> QED
    BY <2>2 DEF RequestPayload
<1>3. /\ a \in Seq(ByteRows) /\ b \in Seq(ByteRows) /\ from \in Seq(ByteRows) /\ to \in Seq(ByteRows) /\ z \in Seq(ByteRows)
      /\ c \in Seq(ByteRows) /\ d \in Seq(ByteRows)
  <2>1. ASSUME NEW v \in Int PROVE Number(8, v) \in Seq(ByteRows) /\ Number(4, v) \in Seq(ByteRows)
    <3>1. v \in Int \cup STRING /\ 8 \in Nat \ {0} /\ 4 \in Nat \ {0}
      OBVIOUS
    <3> QED
      BY <3>1, NumberBytes
  <2>2. r.start \in Int /\ r.end \in Int /\ r.viewportStart \in Int /\ r.viewportEnd \in Int /\ r.max \in Int /\ n \in Int /\ 0 \in Int
    BY <1>1
  <2> HIDE DEF n
  <2> QED
    BY <2>1, <2>2 DEF F64, F32, U32
<1>4. /\ head \in Seq(Seq(ByteRows)) /\ Len(head) = 9
      /\ head[1] = a /\ head[2] = b /\ head[3] = from /\ head[4] = to
      /\ head[5] = z /\ head[6] = z /\ head[7] = z /\ head[8] = c /\ head[9] = d
  <2> HIDE DEF a, b, from, to, z, c, d
  <2> QED
    BY <1>3
<1>5. /\ tail \in Seq(Seq(ByteRows)) /\ Len(tail) = n
      /\ \A k \in 1..n : tail[k] = String(r.ids[k])
  BY <1>1, IdParts
<1> HIDE DEF head, tail
<1>6. /\ parts \in Seq(Seq(ByteRows)) /\ Len(parts) = 9 + n
      /\ \A k \in 1..9 : parts[k] = head[k]
      /\ \A k \in 1..n : parts[9 + k] = String(r.ids[k])
  <2>1. /\ parts \in Seq(Seq(ByteRows)) /\ Len(parts) = Len(head) + Len(tail)
        /\ \A k \in 1..Len(head) : parts[k] = head[k]
        /\ \A k \in 1..Len(tail) : parts[Len(head) + k] = tail[k]
    <3>1. head \in Seq(Seq(ByteRows)) /\ tail \in Seq(Seq(ByteRows))
      BY <1>4, <1>5
    <3> QED
      BY <3>1, PayloadParts
  <2> HIDE DEF parts
  <2> QED
    BY <1>4, <1>5, <2>1
<1> HIDE DEF parts, payload
<1>7. PICK at : Laid(payload, parts, at)
  BY <1>2, <1>6, BytesAreLaid DEF AreLaid
<1>8. at[0] = 0 /\ \A k \in 1..9 : k \in 1..Len(parts)
  BY <1>1, <1>6, <1>7 DEF Laid
<1>9. /\ parts[1] = Number(8, r.start) /\ parts[2] = Number(8, r.end)
      /\ parts[3] = Number(8, r.viewportStart) /\ parts[4] = Number(8, r.viewportEnd)
      /\ parts[5] = Number(4, 0) /\ parts[6] = Number(4, 0) /\ parts[7] = Number(4, 0)
      /\ parts[8] = Number(4, r.max) /\ parts[9] = Number(4, n)
  <2>1. /\ parts[1] = a /\ parts[2] = b /\ parts[3] = from /\ parts[4] = to
        /\ parts[5] = z /\ parts[6] = z /\ parts[7] = z /\ parts[8] = c /\ parts[9] = d
    <3> HIDE DEF a, b, from, to, z, c, d
    <3> QED
      BY <1>4, <1>6
  <2> QED
    BY <2>1 DEF F64, F32, U32
<1>10. \A k \in 1..9 : \A width \in {4, 8} : \A value \in Int :
          parts[k] = Number(width, value) => ReadAt(payload, at[k - 1], width) = value /\ at[k] = at[k - 1] + width
  <2>1. ASSUME NEW k \in 1..9, NEW width \in {4, 8}, NEW value \in Int, parts[k] = Number(width, value)
        PROVE  ReadAt(payload, at[k - 1], width) = value /\ at[k] = at[k - 1] + width
    <3>1. k \in 1..Len(parts) /\ width \in Nat \ {0} /\ value \in Int \cup STRING
      BY <1>8
    <3> HIDE DEF n
    <3> QED
      BY <1>7, <2>1, <3>1, NumberIsRead
  <2> QED
    BY <2>1
<1>11. ReadAt(payload, 0, 8) = r.start /\ at[1] = 8
  <2>1. 1 \in 1..9 /\ 8 \in {4, 8} /\ r.start \in Int /\ parts[1] = Number(8, r.start)
    BY <1>1, <1>9
  <2>2. ReadAt(payload, at[1 - 1], 8) = r.start /\ at[1] = at[1 - 1] + 8
    BY <1>10, <2>1
  <2>3. 1 - 1 = 0 /\ at[0] = 0
    BY <1>8
  <2> HIDE DEF n
  <2> QED
    BY <2>2, <2>3
<1>12. ReadAt(payload, 8, 8) = r.end /\ at[2] = 16
  BY <1>1, <1>9, <1>10, <1>11
<1>13. ReadAt(payload, 16, 8) = r.viewportStart /\ at[3] = 24
  BY <1>1, <1>9, <1>10, <1>12
<1>14. ReadAt(payload, 24, 8) = r.viewportEnd /\ at[4] = 32
  BY <1>1, <1>9, <1>10, <1>13
<1>15. at[5] = 36 /\ at[6] = 40 /\ at[7] = 44
  BY <1>9, <1>10, <1>14
<1>16. ReadAt(payload, 44, 4) = r.max /\ at[8] = 48
  BY <1>1, <1>9, <1>10, <1>15
<1>17. ReadAt(payload, 48, 4) = n /\ at[9] = 52
  <2>1. 9 \in 1..9 /\ 4 \in {4, 8} /\ n \in Int /\ parts[9] = Number(4, n)
    BY <1>1, <1>9
  <2> HIDE DEF n
  <2>2. ReadAt(payload, at[9 - 1], 4) = n /\ at[9] = at[9 - 1] + 4
    BY <1>10, <2>1
  <2>3. 9 - 1 = 8 /\ at[8] = 48
    BY <1>16
  <2> QED
    BY <2>2, <2>3
<1>18. EndsWithIds(payload, parts, at, 9, r.ids)
  BY <1>1, <1>6, <1>7 DEF EndsWithIds
<1>19. ReadIds(payload, 52, n) = [ids |-> r.ids, at |-> Len(payload)]
  BY <1>17, <1>18, IdsAreRead
<1> DEFINE times == ReadColumn(payload, 0, 8, 4)
           heights == ReadColumn(payload, 32, 4, 3)
           numbers == ReadColumn(payload, 44, 4, 2)
<1>20. times[1] = r.start /\ times[2] = r.end /\ times[3] = r.viewportStart /\ times[4] = r.viewportEnd
       /\ numbers[1] = r.max /\ numbers[2] = n
  BY <1>11, <1>12, <1>13, <1>14, <1>16, <1>17 DEF ReadColumn
<1> HIDE DEF times, heights, numbers, n
<1> DEFINE read == ReadIds(payload, 52, numbers[2])
<1>21. read.at = Len(payload) /\ read.ids = r.ids
  BY <1>19, <1>20
<1> HIDE DEF read
<1>22. DecodeViewportRequestV2(payload) =
         IF Torn \in ToSet(times \o heights \o numbers) THEN Refused
         ELSE IF read.at # Len(payload) THEN Refused
         ELSE [start |-> times[1], end |-> times[2], viewportStart |-> times[3],
               viewportEnd |-> times[4], max |-> numbers[1], ids |-> read.ids]
  BY DEF DecodeViewportRequestV2, times, heights, numbers, read
<1>23. [start |-> times[1], end |-> times[2], viewportStart |-> times[3],
               viewportEnd |-> times[4], max |-> numbers[1], ids |-> read.ids] = r
  BY <1>1, <1>20, <1>21
<1> QED
  BY <1>21, <1>22, <1>23 DEF payload

-----------------------------------------------------------------------------
(* The source *)

\* The open file is one of those that can be read, and the catalog is its own.
FileIsRead ==
  file # NoFile => /\ file \in Paths
                   /\ ~Read(file, CatalogOptions).failed
                   /\ catalog = ToWaveformDataSet(Read(file, CatalogOptions))

\* What is kept was read of the open file for the key it is kept under, and has
\* its changes in the order of time.
IsRead(data, key) ==
  /\ file # NoFile
  /\ data = ToWaveformDataSet(Read(file, key))
  /\ AreSignals(data.signals)

KeptIsRead == cacheKey # None => IsRead(cacheData, cacheKey)

\* An answer is the frame of the last request, of the data that is kept.
AnswerV1(r, data) ==
  /\ r \in RequestsV1Type /\ AreSignals(data) /\ IsAsked(r, data)
  /\ answer = EncodeViewportFrame(data, r)

AnswerV2(r, data) ==
  /\ r \in RequestsV2Type /\ AreSignals(data) /\ IsAsked(r, data)
  /\ answer = EncodeViewportFrameV2(data, r)

AnswerIsFrame ==
  Answered => /\ cacheKey # None /\ Kept(request)
              /\ \/ AnswerV1(request, cacheData.signals)
                 \/ AnswerV2(request, cacheData.signals)

IInv == FileIsRead /\ KeptIsRead /\ AnswerIsFrame

\* A key is not the absence of one.
LEMMA KeyIsSome == ASSUME NEW signals, NEW r PROVE DecodeKey(signals, r) # None
<1>1. "decode" \in DOMAIN DecodeKey(signals, r) /\ "decode" \notin DOMAIN None
  BY DEF DecodeKey, None
<1> QED
  BY <1>1

LEMMA RequestTypes == Requests \subseteq RequestsV1Type /\ RequestsV2 \subseteq RequestsV2Type
BY RequestsAssumption DEF RequestsV1Type, RequestsV2Type, Text

\* The data of a request that is answered is read for it, or was kept.
LEMMA DataIsRead ==
  ASSUME FileIsRead, KeptIsRead, file # NoFile, NEW r \in Requests \cup RequestsV2,
         NEW told \in {Refused, r}, DecodedDataSet(told) # Error
  PROVE  told = r /\ IsRead(DecodedDataSet(told), DecodeKey(catalog.signals, r))
<1>1. told # Refused /\ IsRequest(told)
  BY DEF DecodedDataSet
<1>2. told = r
  BY <1>1
<1> DEFINE key == DecodeKey(catalog.signals, r)
<1>3. CASE Kept(r)
  <2>1. DecodedDataSet(told) = cacheData
    BY <1>1, <1>2, <1>3 DEF DecodedDataSet
  <2>2. cacheKey = key /\ cacheKey # None
    BY <1>3, KeyIsSome DEF Kept
  <2> QED
    BY <1>2, <2>1, <2>2 DEF KeptIsRead
<1>4. CASE ~Kept(r)
  <2>1. DecodedDataSet(told) = Decoded(Read(file, key))
    BY <1>1, <1>2, <1>4 DEF DecodedDataSet
  <2>2. ~Read(file, key).failed
    BY <2>1 DEF Decoded
  <2>3. key \in Keys(catalog.signals)
    BY <1>1, <1>2 DEF Keys
  <2>4. IsReading(Read(file, key))
    <3>1. /\ file \in Paths /\ ~Read(file, CatalogOptions).failed
          /\ catalog = ToWaveformDataSet(Read(file, CatalogOptions))
      BY DEF FileIsRead
    <3> HIDE DEF key
    <3> QED
      BY <2>2, <2>3, <3>1, ReadAssumption
  <2>5. DecodedDataSet(told) = ToWaveformDataSet(Read(file, key))
    BY <2>1, <2>2 DEF Decoded
  <2> HIDE DEF key
  <2>6. IsRead(DecodedDataSet(told), key)
    BY <2>4, <2>5, SignalsInTime DEF IsRead
  <2> QED
    BY <1>2, <2>6 DEF key
<1> QED
  BY <1>3, <1>4

\* The limit left out.
LEMMA UnlimitedRequest ==
  ASSUME NEW r, r \in RequestsV1Type \/ r \in RequestsV2Type,
         NEW q, q = [r EXCEPT !.max = 0]
  PROVE  /\ q.max = 0 /\ q.start = r.start /\ q.end = r.end /\ q.ids = r.ids
         /\ r \in RequestsV2Type => q.viewportStart = r.viewportStart /\ q.viewportEnd = r.viewportEnd
BY DEF RequestsV1Type, RequestsV2Type

LEMMA CompleteAnswer ==
  ASSUME AnswerIsFrame
  PROVE  FramesAreComplete
<1> SUFFICES ASSUME Answered PROVE FramesAreComplete
  BY DEF FramesAreComplete
<1> DEFINE v2 == "viewportStart" \in DOMAIN request
           whole == IF v2 THEN EncodeViewportFrameV2(cacheData.signals, Unlimited)
                    ELSE EncodeViewportFrame(cacheData.signals, Unlimited)
<1>1. IsComplete(answer, whole, request)
  <2>1. CASE AnswerV1(request, cacheData.signals)
    <3>1. request \in RequestsV1Type /\ ~v2
      BY <2>1 DEF AnswerV1, RequestsV1Type
    <3>2. /\ Unlimited.max = 0 /\ Unlimited.start = request.start
          /\ Unlimited.end = request.end /\ Unlimited.ids = request.ids
      BY <3>1, UnlimitedRequest DEF Unlimited
    <3>3. whole = EncodeViewportFrame(cacheData.signals, Unlimited)
      BY <3>1
    <3> HIDE DEF whole
    <3> QED
      BY <2>1, <3>2, <3>3, EncodedIsComplete DEF AnswerV1
  <2>2. CASE AnswerV2(request, cacheData.signals)
    <3>1. request \in RequestsV2Type /\ v2
      BY <2>2 DEF AnswerV2, RequestsV2Type
    <3>2. /\ Unlimited.max = 0 /\ Unlimited.start = request.start
          /\ Unlimited.end = request.end /\ Unlimited.ids = request.ids
          /\ Unlimited.viewportStart = request.viewportStart /\ Unlimited.viewportEnd = request.viewportEnd
      BY <3>1, UnlimitedRequest DEF Unlimited
    <3>3. whole = EncodeViewportFrameV2(cacheData.signals, Unlimited)
      BY <3>1
    <3> HIDE DEF whole
    <3> QED
      BY <2>2, <3>2, <3>3, EncodedV2IsComplete DEF AnswerV2
  <2> QED
    BY <2>1, <2>2 DEF AnswerIsFrame
<1>2. ColumnsAreApart
  <2>1. Len(answer.segments) \in Nat /\ Len(answer.table) \in Nat
    BY <1>1 DEF IsComplete
  <2>2. ASSUME NEW bytes \in LabelBytes
        PROVE  Apart(IF v2 THEN FrameColumnsV2(answer, bytes) ELSE FrameColumns(answer, bytes))
    BY <2>1, FrameColumnsApart
  <2> QED
    BY <2>2 DEF ColumnsAreApart, Apart
<1> HIDE DEF whole
<1>3. /\ \A k \in DOMAIN answer.table :
            LET segments == SegmentsOf(answer.table[k])
            IN  /\ \A n \in DOMAIN segments :
                      StartOf(request, segments[n]) = IF n = 1 THEN request.start ELSE EndOf(request, segments[n - 1])
                /\ ~answer.truncated => EndOf(request, Last(segments)) = request.end
      /\ answer.truncated <=> /\ request.max # 0
                              /\ Len(answer.segments) = request.max
                              /\ Len(whole.segments) > request.max
                              /\ answer.segments = SubSeq(whole.segments, 1, request.max)
  BY <1>1 DEF IsComplete, SegmentsOf
<1> QED
  BY <1>2, <1>3 DEF FramesAreComplete, whole

\* Opening a file changes nothing that is kept or answered.
LEMMA OpenKeeps ==
  ASSUME IInv, NEW path \in Paths, Open(path)
  PROVE  IInv'
<1>1. FileIsRead'
  BY DEF Open, Opened, FileIsRead
<1>2. cacheKey = None /\ UNCHANGED << cacheKey, request, answer >>
  BY DEF Open, IInv, KeptIsRead, IsRead
<1>3. KeptIsRead' /\ AnswerIsFrame'
  BY <1>2 DEF IInv, KeptIsRead, AnswerIsFrame, Answered
<1> QED
  BY <1>1, <1>3 DEF IInv

\* A request keeps the data it was answered from.
LEMMA RequestKeeps ==
  ASSUME IInv, NEW r \in Requests, ViewportFrame(r)
  PROVE  IInv'
<1> DEFINE told == DecodeViewportRequest(RequestPayload(r))
           data == DecodedDataSet(told)
<1>1. told \in {Refused, r}
  BY RequestTypes, RequestIsDecoded
<1>2. file # NoFile /\ request' = r /\ EncodeFrame1(told, data) /\ UNCHANGED << file, catalog >>
  BY DEF ViewportFrame
<1> HIDE DEF told
<1>3. data # Error => told = r /\ IsRead(data, DecodeKey(catalog.signals, r))
  BY <1>1, <1>2, DataIsRead DEF IInv
<1> HIDE DEF data
<1>4. FileIsRead'
  BY <1>2 DEF IInv, FileIsRead
<1>5. KeptIsRead'
  BY <1>2, <1>3 DEF IInv, KeptIsRead, IsRead, EncodeFrame1, Keep
<1>6. ASSUME Answered'
      PROVE  /\ (cacheKey # None /\ Kept(request))'
             /\ AnswerV1(request, cacheData.signals)'
  <2>1. answer' # Error
    BY <1>6 DEF Answered
  <2>2. /\ data # Error /\ Valid(told) /\ KnownIds(data.signals, told.ids)
        /\ answer' = EncodeViewportFrame(data.signals, told) /\ cacheData' = data
        /\ cacheKey' = DecodeKey(catalog.signals, told)
    BY <1>2, <2>1 DEF EncodeFrame1, Keep
  <2>3. told = r /\ AreSignals(data.signals) /\ r \in RequestsV1Type
    BY <1>3, <2>2, RequestTypes DEF IsRead
  <2>4. IsAsked(r, data.signals)
    BY <2>2, <2>3 DEF IsAsked, IsRange, Valid, RequestsV1Type, Text
  <2> QED
    BY <1>2, <2>2, <2>3, <2>4, KeyIsSome DEF AnswerV1, Kept
<1> QED
  BY <1>4, <1>5, <1>6 DEF IInv, AnswerIsFrame

LEMMA RequestV2Keeps ==
  ASSUME IInv, NEW r \in RequestsV2, ViewportFrameV2(r)
  PROVE  IInv'
<1> DEFINE told == DecodeViewportRequestV2(RequestPayload(r))
           data == DecodedDataSet(told)
<1>1. told \in {Refused, r}
  BY RequestTypes, RequestV2IsDecoded
<1>2. file # NoFile /\ request' = r /\ EncodeFrame2(told, data) /\ UNCHANGED << file, catalog >>
  BY DEF ViewportFrameV2
<1> HIDE DEF told
<1>3. data # Error => told = r /\ IsRead(data, DecodeKey(catalog.signals, r))
  BY <1>1, <1>2, DataIsRead DEF IInv
<1> HIDE DEF data
<1>4. FileIsRead'
  BY <1>2 DEF IInv, FileIsRead
<1>5. KeptIsRead'
  BY <1>2, <1>3 DEF IInv, KeptIsRead, IsRead, EncodeFrame2, Keep
<1>6. ASSUME Answered'
      PROVE  /\ (cacheKey # None /\ Kept(request))'
             /\ AnswerV2(request, cacheData.signals)'
  <2>1. answer' # Error
    BY <1>6 DEF Answered
  <2>2. /\ data # Error /\ ValidV2(told) /\ KnownIds(data.signals, told.ids)
        /\ answer' = EncodeViewportFrameV2(data.signals, told) /\ cacheData' = data
        /\ cacheKey' = DecodeKey(catalog.signals, told)
    BY <1>2, <2>1 DEF EncodeFrame2, Keep
  <2>3. told = r /\ AreSignals(data.signals) /\ r \in RequestsV2Type
    BY <1>3, <2>2, RequestTypes DEF IsRead
  <2>4. IsAsked(r, data.signals)
    BY <2>2, <2>3 DEF IsAsked, IsRange, ValidV2, RequestsV2Type, Text
  <2> QED
    BY <1>2, <2>2, <2>3, <2>4, KeyIsSome DEF AnswerV2, Kept
<1> QED
  BY <1>4, <1>5, <1>6 DEF IInv, AnswerIsFrame

\* Every step keeps the invariant.
THEOREM FramesInvariant == Spec => []IInv
<1>1. Init => IInv
  BY DEF Init, IInv, FileIsRead, KeptIsRead, AnswerIsFrame, Answered
<1>2. IInv /\ [Next]_vars => IInv'
  <2> SUFFICES ASSUME IInv, [Next]_vars PROVE IInv'
    OBVIOUS
  <2>1. ASSUME NEW path \in Paths, Open(path) PROVE IInv'
    BY <2>1, OpenKeeps
  <2>2. ASSUME NEW r \in Requests, ViewportFrame(r) PROVE IInv'
    BY <2>2, RequestKeeps
  <2>3. ASSUME NEW r \in RequestsV2, ViewportFrameV2(r) PROVE IInv'
    BY <2>3, RequestV2Keeps
  <2>4. CASE UNCHANGED vars
    BY <2>4 DEF vars, IInv, FileIsRead, KeptIsRead, IsRead, AnswerIsFrame, Answered, Kept, AnswerV1, AnswerV2
  <2> QED
    BY <2>1, <2>2, <2>3, <2>4 DEF Next
<1> QED
  BY <1>1, <1>2, PTL DEF Spec

\* Every frame that is sent is whole: the segments of a signal follow each other
\* without a gap over the range that was asked, a frame says that it was cut just
\* when the limit left segments out, and its columns lie where its header says
\* (FstWaveformSource.cpp, WaveformViewportEncoder.cpp), whatever the reader
\* gives, the files and the requests.
THEOREM FramesComplete == Spec => []FramesAreComplete
<1>1. IInv => FramesAreComplete
  BY CompleteAnswer DEF IInv
<1> QED
  BY <1>1, FramesInvariant, PTL

\* The frame of a request, of the file read for it alone.
FreshFrame(r) ==
  LET data == ToWaveformDataSet(Read(file, DecodeKey(catalog.signals, r)))
  IN  IF "viewportStart" \in DOMAIN r THEN EncodeViewportFrameV2(data.signals, r)
      ELSE EncodeViewportFrame(data.signals, r)

FramesAreFresh == Answered => answer = FreshFrame(request)

\* The kept window is never told from a fresh one: whatever was asked before, a
\* frame is the one that reading the file for its request alone would give
\* (FstDataSetWaveformSource::decodedDataSet).
THEOREM FramesFresh == Spec => []FramesAreFresh
<1>1. IInv => FramesAreFresh
  <2> SUFFICES ASSUME IInv, Answered PROVE answer = FreshFrame(request)
    BY DEF FramesAreFresh
  <2>1. cacheData = ToWaveformDataSet(Read(file, DecodeKey(catalog.signals, request)))
    BY DEF IInv, KeptIsRead, AnswerIsFrame, IsRead, Kept
  <2>2. CASE AnswerV1(request, cacheData.signals)
    <3>1. "viewportStart" \notin DOMAIN request
      BY <2>2 DEF AnswerV1, RequestsV1Type
    <3> QED
      BY <2>1, <2>2, <3>1 DEF AnswerV1, FreshFrame
  <2>3. CASE AnswerV2(request, cacheData.signals)
    <3>1. "viewportStart" \in DOMAIN request
      BY <2>3 DEF AnswerV2, RequestsV2Type
    <3> QED
      BY <2>1, <2>3, <3>1 DEF AnswerV2, FreshFrame
  <2> QED
    BY <2>2, <2>3 DEF IInv, AnswerIsFrame
<1> QED
  BY <1>1, FramesInvariant, PTL
=============================================================================
