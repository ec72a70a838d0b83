--------------------------- MODULE ChunkingProofs ---------------------------
(***************************************************************************)
(* Proofs about Chunking, within KnowledgeStores: what splitText makes of a  *)
(* text of any length, for every ChunkSize and ChunkOverlap.  The recursive  *)
(* functions it is built from are shown to exist and to go on as they say    *)
(* by induction; what the pieces keep is followed from the scan over the     *)
(* packing and the overlaps to the next level, and down the four levels.     *)
(***************************************************************************)
EXTENDS KnowledgeStores, SequenceTheorems, FiniteSetTheorems, WellFoundedInduction, TLAPS

Strings == Seq(Characters)

\* No separator s in p.
Free(p, s) == \A i \in DOMAIN p : ~Occurs(s, p, i)

\* What is cut by the separators from a level on has none of those before it.
Clean(chars, level) == \A k \in 1..level - 1 : Free(chars, Separators[k])

\* What a chunk may grow to by the overlaps from a level on.
Limit(level) == ChunkSize + (5 - level) * ChunkOverlap

\* What splitText does by the separators from a level on.
Cuts(level, cut) ==
    /\ cut \in [Strings -> Seq(Strings)]
    /\ \A chars \in Strings :
          /\ \A c \in Range(cut[chars]) : Len(c) <= Limit(level)
          /\ Clean(chars, level) => Kept(chars, cut[chars])

\* Every string of C is, unless empty, within one of D.
Covers(D, C) ==
    \A c \in Range(C) : c # <<>> => \E d \in Range(D) : Holds(d, c, 1, Len(c))

-----------------------------------------------------------------------------
(* Induction, for sets and for recursive functions. *)

\* A set of numbers has a least one: the intervals below them are well-founded.
LEMMA Least ==
  ASSUME NEW S, S \subseteq Nat, S # {}
  PROVE \E m \in S : \A k \in S : m <= k
<1>1. PICK n \in S : TRUE
  OBVIOUS
<1> DEFINE T == {k \in S : k <= n}
           F == {0..k : k \in T}
<1>2. n \in Nat /\ n \in T
  BY <1>1
<1>3. IsFiniteSet(0..n)
  BY <1>2, FS_Interval
<1>4. F \subseteq SUBSET (0..n) /\ F # {}
  BY <1>2
<1>5. F \subseteq FiniteSubsetsOf(0..n)
  BY <1>3, <1>4, FS_Subset DEF FiniteSubsetsOf
<1>6. IsWellFoundedOn(StrictSubsetOrdering(0..n), FiniteSubsetsOf(0..n))
  BY <1>3, FS_StrictSubsetOrderingWellFounded
<1>7. PICK I \in F : \A J \in F : ~ (<<J, I>> \in StrictSubsetOrdering(0..n))
  <2> HIDE DEF F
  <2> QED BY <1>4, <1>5, <1>6, WFMin
<1>8. PICK m \in T : I = 0..m
  BY <1>7
<1>9. ASSUME NEW k \in S, k < m PROVE FALSE
  <2>1. k \in T /\ 0..k \in F /\ k \in Nat /\ m \in Nat
    BY <1>9, <1>8, <1>2
  <2>2. m \in I /\ m \notin 0..k /\ 0..k \subseteq I /\ 0..k # I
    BY <2>1, <1>8, <1>9
  <2>3. <<0..k, I>> \in StrictSubsetOrdering(0..n)
    BY <2>1, <2>2, <1>4 DEF StrictSubsetOrdering
  <2> QED BY <2>1, <2>3, <1>7
<1> QED BY <1>8, <1>9

\* Induction over the numbers, for a set in place of a predicate.
LEMMA Induction ==
  ASSUME NEW S, 0 \in S, \A n \in Nat : n \in S => n + 1 \in S
  PROVE Nat \subseteq S
<1> SUFFICES ASSUME Nat \ S # {} PROVE FALSE
  OBVIOUS
<1>1. PICK m \in Nat \ S : \A k \in Nat \ S : m <= k
  BY Least
<1>2. m - 1 \in Nat /\ m - 1 \in S
  BY <1>1
<1> QED BY <1>1, <1>2

\* ... and over the first n of them.
LEMMA UpTo ==
  ASSUME NEW n \in Nat, NEW S, 0 \in S, \A i \in 1..n : i - 1 \in S => i \in S
  PROVE 0..n \subseteq S
<1> DEFINE T == {i \in Nat : i <= n => i \in S}
<1>1. 0 \in T
  OBVIOUS
<1>2. ASSUME NEW i \in Nat, i \in T PROVE i + 1 \in T
  <2>1. SUFFICES ASSUME i + 1 <= n PROVE i + 1 \in S
    OBVIOUS
  <2>2. i + 1 \in 1..n /\ (i + 1) - 1 = i /\ i <= n
    BY <2>1
  <2> QED BY <2>2, <1>2
<1>3. Nat \subseteq T
  <2> HIDE DEF T
  <2> QED BY <1>1, <1>2, Induction
<1> QED BY <1>3

\* g goes from e through n steps.
Iterates(g, n, e, step) == g[0] = e /\ \A i \in 1..n : g[i] = step[i][g[i - 1]]

\* Starting from e and taking n steps in A defines a function.
LEMMA Iteration ==
  ASSUME NEW n \in Nat, NEW A, NEW e \in A, NEW step \in [1..n -> [A -> A]]
  PROVE \E g \in [0..n -> A] : Iterates(g, n, e, step)
<1> DEFINE Made(m, g) == Iterates(g, m, e, step)
           S == {m \in 0..n : \E g \in [0..m -> A] : Made(m, g)}
<1>1. 0 \in S
  <2> DEFINE g == [i \in 0..0 |-> e]
  <2>1. g \in [0..0 -> A] /\ Made(0, g)
    BY DEF Iterates
  <2> HIDE DEF g
  <2> QED BY <2>1
<1>2. ASSUME NEW m \in 1..n, m - 1 \in S PROVE m \in S
  <2>1. PICK g \in [0..m - 1 -> A] : Made(m - 1, g)
    BY <1>2
  <2> DEFINE h == [i \in 0..m |-> IF i = m THEN step[m][g[m - 1]] ELSE g[i]]
  <2>2. h \in [0..m -> A]
    BY <2>1
  <2>3. h[0] = e
    BY <2>1 DEF Iterates
  <2>4. ASSUME NEW i \in 1..m PROVE h[i] = step[i][h[i - 1]]
    <3>1. i - 1 \in 0..m /\ i - 1 # m /\ h[i - 1] = g[i - 1]
      OBVIOUS
    <3>2. CASE i = m
      <4>1. h[m] = step[m][g[m - 1]]
        OBVIOUS
      <4> HIDE DEF h
      <4> QED BY <3>1, <3>2, <4>1
    <3>3. CASE i # m
      <4>1. i \in 1..m - 1 /\ h[i] = g[i]
        BY <3>3
      <4> HIDE DEF h
      <4> QED BY <2>1, <3>1, <4>1 DEF Iterates
    <3> QED BY <3>2, <3>3
  <2>5. Made(m, h)
    BY <2>3, <2>4 DEF Iterates
  <2> HIDE DEF h, Made
  <2> QED BY <2>2, <2>5
<1>3. 0..n \subseteq S
  <2> HIDE DEF S
  <2> QED BY <1>1, <1>2, UpTo
<1> QED BY <1>3

-----------------------------------------------------------------------------
(* Texts, and the pieces they are split into. *)

\* The states of a scan.
Scans(chars) == [pieces : Seq(Strings), from : 1..Len(chars) + 1]

\* The four separators; none has a character of a word in it.
LEMMA SeparatorFacts ==
  /\ Levels = 1..4 /\ Len(Separators) = 4
  /\ Separators[1] = <<"newline", "newline">> /\ Separators[2] = <<"newline">>
  /\ Separators[3] = <<"space">> /\ Separators[4] = <<>>
  /\ \A j \in 1..4 : Separators[j] \in Seq(Kinds)
  /\ \A j \in 1..3 : Len(Separators[j]) \in {1, 2}
  /\ \A j \in 1..4 : \A k \in DOMAIN Separators[j] : Separators[j][k] # "word"
BY DEF Levels, Separators, Kinds

\* A text is a function on its places.
LEMMA StringFacts ==
  ASSUME NEW chars \in Strings
  PROVE  /\ Len(chars) \in Nat /\ DOMAIN chars = 1..Len(chars)
         /\ chars \in [1..Len(chars) -> Characters]
         /\ \A i \in 1..Len(chars) : chars[i] \in Characters
BY LenProperties DEF Strings

\* What a slice of a text is.
LEMMA Part ==
  ASSUME NEW chars \in Strings, NEW m \in 1..Len(chars) + 1, NEW n \in 0..Len(chars)
  PROVE  /\ SubSeq(chars, m, n) \in Strings
         /\ Len(SubSeq(chars, m, n)) = IF m <= n THEN n - m + 1 ELSE 0
         /\ \A i \in 1..n - m + 1 : SubSeq(chars, m, n)[i] = chars[m + i - 1]
<1>1. Len(chars) \in Nat /\ m \in Int /\ n \in Int /\ \A i \in m..n : chars[i] \in Characters
  BY StringFacts
<1>2. /\ SubSeq(chars, m, n) \in Seq(Characters)
      /\ Len(SubSeq(chars, m, n)) = IF m <= n THEN n - m + 1 ELSE 0
      /\ \A i \in 1..n - m + 1 : SubSeq(chars, m, n)[i] = chars[m + i - 1]
  BY <1>1, SubSeqProperties
<1> QED BY <1>2 DEF Strings

\* A step of the scan.
LEMMA EndedTyped ==
  ASSUME NEW chars \in Strings, NEW s \in Seq(Kinds), s # <<>>,
         NEW a \in Scans(chars), NEW i \in 1..Len(chars)
  PROVE  Ended(a, chars, s, i) \in Scans(chars)
<1>1. Len(chars) \in Nat /\ Len(s) \in Nat /\ Len(s) >= 1
  BY StringFacts, LenProperties, EmptySeq
<1>2. a.pieces \in Seq(Strings) /\ a.from \in 1..Len(chars) + 1
  BY DEF Scans
<1>3. CASE i >= a.from /\ Occurs(s, chars, i)
  <2>1. SubSeq(chars, a.from, i - 1) \in Strings
    BY <1>1, <1>2, Part
  <2>2. Append(a.pieces, SubSeq(chars, a.from, i - 1)) \in Seq(Strings)
    BY <2>1, <1>2, AppendProperties
  <2>3. i + Len(s) \in 1..Len(chars) + 1
    BY <1>3, <1>1 DEF Occurs
  <2> QED BY <2>2, <2>3, <1>3 DEF Ended, Scans
<1>4. CASE ~(i >= a.from /\ Occurs(s, chars, i))
  BY <1>4 DEF Ended
<1> QED BY <1>3, <1>4

\* The scan of a text, one index after the other.
LEMMA Scanning ==
  ASSUME NEW chars \in Strings, NEW s \in Seq(Kinds), s # <<>>
  PROVE  \E scan \in [0..Len(chars) -> Scans(chars)] :
            /\ Scanned(chars, s) = scan[Len(chars)]
            /\ scan[0] = [pieces |-> <<>>, from |-> 1]
            /\ \A i \in 1..Len(chars) : scan[i] = Ended(scan[i - 1], chars, s, i)
<1> DEFINE n == Len(chars)
           e == [pieces |-> <<>>, from |-> 1]
           step == [i \in 1..n |-> [a \in Scans(chars) |-> Ended(a, chars, s, i)]]
           Made(g) == g = [i \in 0..n |-> IF i = 0 THEN e ELSE Ended(g[i - 1], chars, s, i)]
           h == CHOOSE g : Made(g)
<1>1. n \in Nat
  BY StringFacts
<1>2. e \in Scans(chars)
  BY <1>1 DEF Scans
<1>3. step \in [1..n -> [Scans(chars) -> Scans(chars)]]
  BY EndedTyped
<1>4. PICK g \in [0..n -> Scans(chars)] : Iterates(g, n, e, step)
  <2> HIDE DEF step, e, n
  <2> QED BY <1>1, <1>2, <1>3, Iteration
<1>5. Made(g)
  <2>1. ASSUME NEW i \in 1..n PROVE step[i][g[i - 1]] = Ended(g[i - 1], chars, s, i)
    <3>1. i - 1 \in 0..n /\ g[i - 1] \in Scans(chars)
      BY <1>1
    <3> QED BY <3>1
  <2>2. ASSUME NEW i \in 0..n
        PROVE  g[i] = IF i = 0 THEN e ELSE Ended(g[i - 1], chars, s, i)
    <3> HIDE DEF step, e
    <3> QED BY <2>1, <1>1, <1>4 DEF Iterates
  <2> HIDE DEF step, e, n
  <2> QED BY <2>2
<1>6. Made(h)
  <2> HIDE DEF Made
  <2> QED BY <1>5
<1>7. Scanned(chars, s) = h[n]
  BY DEF Scanned
<1>8. DOMAIN h = 0..n /\ h[0] = e /\ \A i \in 1..n : h[i] = Ended(h[i - 1], chars, s, i)
  <2> HIDE DEF h, e, n
  <2> QED BY <1>6, <1>1
<1>9. 0..n \subseteq {i \in 0..n : h[i] \in Scans(chars)}
  <2> HIDE DEF h, e
  <2>1. 0 \in {i \in 0..n : h[i] \in Scans(chars)}
    BY <1>1, <1>8, <1>2
  <2>2. ASSUME NEW i \in 1..n, i - 1 \in {k \in 0..n : h[k] \in Scans(chars)}
        PROVE  i \in {k \in 0..n : h[k] \in Scans(chars)}
    BY <1>1, <1>8, <2>2, EndedTyped
  <2> QED BY <1>1, <2>1, <2>2, UpTo
<1>10. h \in [0..n -> Scans(chars)]
  <2> HIDE DEF h, e, n, Made
  <2>1. h = [i \in 0..n |-> h[i]]
    BY <1>6 DEF Made
  <2> QED BY <1>8, <1>9, <2>1
<1> HIDE DEF h
<1> QED BY <1>7, <1>8, <1>10

\* p is what chars has after its first o characters.
PartAt(p, chars, o) ==
    /\ o + Len(p) <= Len(chars)
    /\ \A x \in 1..Len(p) : p[x] = chars[o + x]

\* A word of chars is within what p has of it.
Has(p, chars, w) ==
    \E o \in 0..Len(chars) : PartAt(p, chars, o) /\ o < w[1] /\ w[2] <= o + Len(p)

\* Every piece is a part of chars without the separator.
Split(pieces, chars, s) ==
    \A n \in DOMAIN pieces :
        Free(pieces[n], s) /\ \E o \in 0..Len(chars) : PartAt(pieces[n], chars, o)

\* What the scan has done with the characters up to i.
ScannedTo(a, chars, s, i) ==
    /\ Split(a.pieces, chars, s)
    /\ \A q \in a.from..i : ~Occurs(s, chars, q)
    /\ \A w \in Words(chars) :
          a.from <= w[1] \/ \E n \in DOMAIN a.pieces : Has(a.pieces[n], chars, w)

\* The places of a separator in a slice, in the text and in the slice.
LEMMA Inside ==
  ASSUME NEW m \in Nat, NEW n \in Nat, NEW t \in Nat, NEW i \in Nat \ {0}, NEW l \in Nat,
         n <= t, i + l - 1 <= n - m + 1
  PROVE  /\ (m + i - 1) + l - 1 <= t
         /\ \A k \in 1..l : i + k - 1 \in 1..n - m + 1
OBVIOUS

\* A slice between two separators is a piece, and has no separator in it.
LEMMA Slice ==
  ASSUME NEW chars \in Strings, NEW s \in Seq(Kinds), NEW m \in 1..Len(chars) + 1,
         NEW n \in 0..Len(chars), m <= n + 1, \A q \in m..n : ~Occurs(s, chars, q)
  PROVE  /\ SubSeq(chars, m, n) \in Strings
         /\ Len(SubSeq(chars, m, n)) = n - m + 1
         /\ PartAt(SubSeq(chars, m, n), chars, m - 1)
         /\ Free(SubSeq(chars, m, n), s)
<1> DEFINE p == SubSeq(chars, m, n)
<1>1. Len(chars) \in Nat /\ Len(s) \in Nat /\ DOMAIN s = 1..Len(s)
  BY StringFacts, LenProperties
<1>2. /\ p \in Strings /\ Len(p) = n - m + 1
      /\ \A i \in 1..n - m + 1 : p[i] = chars[m + i - 1]
  BY Part, <1>1
<1>3. DOMAIN p = 1..Len(p)
  BY <1>2, StringFacts
<1> HIDE DEF p
<1>4. PartAt(p, chars, m - 1)
  BY <1>1, <1>2 DEF PartAt
<1>5. ASSUME NEW i \in DOMAIN p, Occurs(s, p, i) PROVE FALSE
  <2>1. i \in 1..n - m + 1 /\ m + i - 1 \in m..n
    BY <1>1, <1>2, <1>3
  <2>2. /\ (m + i - 1) + Len(s) - 1 <= Len(chars)
        /\ \A k \in 1..Len(s) : i + k - 1 \in 1..n - m + 1
    <3>1. i + Len(s) - 1 <= n - m + 1
      BY <1>2, <1>5 DEF Occurs
    <3>2. m \in Nat /\ n \in Nat /\ n <= Len(chars) /\ i \in Nat \ {0}
      BY <1>1, <2>1
    <3> QED BY <3>1, <3>2, <1>1, Inside
  <2>3. ASSUME NEW k \in DOMAIN s PROVE chars[(m + i - 1) + k - 1][1] = s[k]
    <3>1. p[i + k - 1][1] = s[k] /\ i + k - 1 \in 1..n - m + 1
      <4>1. p[i + k - 1][1] = s[k]
        BY <1>5 DEF Occurs
      <4>2. i + k - 1 \in 1..n - m + 1
        BY <2>2, <1>1
      <4> QED BY <4>1, <4>2
    <3>2. p[i + k - 1] = chars[m + (i + k - 1) - 1]
      BY <3>1, <1>2
    <3>3. m + (i + k - 1) - 1 = (m + i - 1) + k - 1
      BY <2>1, <1>1
    <3> QED BY <3>1, <3>2, <3>3
  <2>4. Occurs(s, chars, m + i - 1)
    BY <2>2, <2>3 DEF Occurs
  <2> QED BY <2>1, <2>4
<1>6. Free(p, s)
  BY <1>5 DEF Free
<1> QED BY <1>2, <1>4, <1>6 DEF p

\* An interval that ends after a separator begins, and has none of its places,
\* begins after it.
LEMMA Beyond ==
  ASSUME NEW i \in Nat, NEW l \in {1, 2}, NEW m \in Nat, NEW n \in Nat, m <= n, n >= i,
         \A x \in i..i + l - 1 : x \notin m..n
  PROVE  i + l - 1 < m
<1>1. i \in i..i + l - 1 /\ (l = 2 => i + 1 \in i..i + l - 1)
  OBVIOUS
<1>2. i \notin m..n /\ (l = 2 => i + 1 \notin m..n)
  BY <1>1
<1> QED BY <1>2

\* A step of the scan splits a piece off at a separator: no word lies across
\* it, since no separator has a character of a word.
LEMMA EndedSplits ==
  ASSUME NEW chars \in Strings, NEW j \in 1..3, NEW a \in Scans(chars),
         NEW i \in 1..Len(chars), ScannedTo(a, chars, Separators[j], i - 1)
  PROVE  ScannedTo(Ended(a, chars, Separators[j], i), chars, Separators[j], i)
<1> DEFINE s == Separators[j]
<1>1. /\ Len(chars) \in Nat /\ DOMAIN chars = 1..Len(chars)
      /\ s \in Seq(Kinds) /\ Len(s) \in {1, 2} /\ DOMAIN s = 1..Len(s)
      /\ \A k \in 1..Len(s) : s[k] # "word"
  <2>1. Len(chars) \in Nat /\ DOMAIN chars = 1..Len(chars)
    BY StringFacts
  <2>2. s \in Seq(Kinds) /\ Len(s) \in {1, 2} /\ \A k \in DOMAIN s : s[k] # "word"
    BY SeparatorFacts
  <2>3. DOMAIN s = 1..Len(s)
    BY <2>2, LenProperties
  <2> HIDE DEF s
  <2> QED BY <2>1, <2>2, <2>3
<1> HIDE DEF s
<1>2. a.pieces \in Seq(Strings) /\ a.from \in 1..Len(chars) + 1
  BY DEF Scans
<1>3. ScannedTo(a, chars, s, i - 1)
  BY DEF s
<1>4. CASE ~(i >= a.from /\ Occurs(s, chars, i))
  <2>1. Ended(a, chars, s, i) = a
    BY <1>4 DEF Ended
  <2>2. \A q \in a.from..i : ~Occurs(s, chars, q)
    BY <1>2, <1>3, <1>4 DEF ScannedTo
  <2> QED BY <2>1, <2>2, <1>3 DEF ScannedTo, s
<1>5. CASE i >= a.from /\ Occurs(s, chars, i)
  <2> DEFINE p == SubSeq(chars, a.from, i - 1)
             b == Ended(a, chars, s, i)
  <2>1. b.pieces = Append(a.pieces, p) /\ b.from = i + Len(s)
    BY <1>5 DEF Ended
  <2>2. /\ p \in Strings /\ Len(p) = i - a.from
        /\ PartAt(p, chars, a.from - 1) /\ Free(p, s)
    <3>1. a.from <= (i - 1) + 1 /\ i - 1 \in 0..Len(chars) /\ \A q \in a.from..i - 1 : ~Occurs(s, chars, q)
      BY <1>1, <1>2, <1>3, <1>5 DEF ScannedTo
    <3> QED BY <3>1, <1>1, <1>2, Slice
  <2> HIDE DEF p, b
  <2>3. /\ DOMAIN a.pieces = 1..Len(a.pieces) /\ Len(a.pieces) \in Nat
        /\ DOMAIN b.pieces = 1..Len(a.pieces) + 1
        /\ \A n \in DOMAIN a.pieces : b.pieces[n] = a.pieces[n]
        /\ b.pieces[Len(a.pieces) + 1] = p
    <3> DEFINE q == a.pieces
    <3>1. q \in Seq(Strings) /\ b.pieces = Append(q, p)
      BY <2>1, <1>2
    <3> HIDE DEF q
    <3>2. DOMAIN q = 1..Len(q) /\ Len(q) \in Nat
      BY <3>1, LenProperties
    <3>3. /\ Append(q, p) \in Seq(Strings) /\ Len(Append(q, p)) = Len(q) + 1
          /\ \A n \in 1..Len(q) : Append(q, p)[n] = q[n]
          /\ Append(q, p)[Len(q) + 1] = p
      BY <3>1, <2>2, AppendProperties
    <3>4. DOMAIN Append(q, p) = 1..Len(q) + 1
      BY <3>3, LenProperties
    <3> QED BY <3>1, <3>2, <3>3, <3>4 DEF q
  <2>4. Split(b.pieces, chars, s)
    <3>1. a.from - 1 \in 0..Len(chars)
      BY <1>1, <1>2
    <3>2. ASSUME NEW n \in DOMAIN b.pieces
          PROVE  Free(b.pieces[n], s) /\ \E o \in 0..Len(chars) : PartAt(b.pieces[n], chars, o)
      <4>1. CASE n = Len(a.pieces) + 1
        BY <4>1, <3>1, <2>2, <2>3
      <4>2. CASE n # Len(a.pieces) + 1
        <5>1. n \in DOMAIN a.pieces
          BY <2>3, <4>2
        <5> QED BY <5>1, <2>3, <1>3 DEF ScannedTo, Split
      <4> QED BY <4>1, <4>2
    <3> QED BY <3>2 DEF Split
  <2>5. \A q \in b.from..i : ~Occurs(s, chars, q)
    <3>1. ASSUME NEW q \in b.from..i PROVE FALSE
      <4> DEFINE l == Len(s)
      <4>1. l \in Nat /\ l >= 1 /\ i \in Nat
        BY <1>1
      <4> HIDE DEF l
      <4>2. b.from = i + l
        BY <2>1 DEF l
      <4> QED BY <4>1, <4>2
    <3> QED BY <3>1
  <2>6. ASSUME NEW w \in Words(chars)
        PROVE  b.from <= w[1] \/ \E n \in DOMAIN b.pieces : Has(b.pieces[n], chars, w)
    <3>1. /\ w[1] \in 1..Len(chars) /\ w[2] \in 1..Len(chars) /\ w[1] <= w[2]
          /\ \A x \in w[1]..w[2] : chars[x][1] = "word"
      BY <1>1 DEF Words
    <3>2. \A x \in i..i + Len(s) - 1 : x \notin w[1]..w[2]
      <4>1. ASSUME NEW x \in i..i + Len(s) - 1 PROVE chars[x][1] # "word"
        <5>1. x - i + 1 \in DOMAIN s /\ i + (x - i + 1) - 1 = x
          BY <1>1
        <5>2. chars[i + (x - i + 1) - 1][1] = s[x - i + 1]
          BY <5>1, <1>5 DEF Occurs
        <5> QED BY <5>1, <5>2, <1>1
      <4> QED BY <4>1, <3>1
    <3>3. CASE a.from <= w[1]
      <4>1. CASE w[2] < i
        <5>1. Has(p, chars, w)
          <6>1. a.from - 1 \in 0..Len(chars) /\ a.from - 1 < w[1] /\ w[2] <= (a.from - 1) + Len(p)
            <7> DEFINE from == a.from
                       last == w[2]
                       l    == Len(chars)
            <7>1. from \in Nat /\ from >= 1 /\ Len(p) = i - from /\ from <= w[1]
              BY <2>2, <1>1, <1>2, <3>3
            <7>2. last \in Nat /\ last < i /\ w[1] \in Nat /\ w[1] <= l /\ l \in Nat /\ i \in Nat
              BY <4>1, <3>1, <1>1
            <7> HIDE DEF from, last, l
            <7>3. from - 1 \in 0..l /\ from - 1 < w[1]
              BY <7>1, <7>2
            <7>4. last <= (from - 1) + Len(p)
              BY <7>1, <7>2
            <7> QED BY <7>3, <7>4 DEF from, last, l
          <6> QED BY <6>1, <2>2 DEF Has
        <5> QED BY <5>1, <2>3
      <4>2. CASE w[2] >= i
        <5>1. /\ i \in Nat /\ w[1] \in Nat /\ w[2] \in Nat /\ w[1] <= w[2]
              /\ Len(s) \in {1, 2}
          BY <1>1, <3>1
        <5>2. i + Len(s) - 1 < w[1]
          BY <5>1, <3>2, <4>2, Beyond
        <5> QED BY <5>2, <2>1, <3>1, <1>1
      <4> QED BY <4>1, <4>2, <3>1
    <3>4. CASE \E n \in DOMAIN a.pieces : Has(a.pieces[n], chars, w)
      BY <3>4, <2>3
    <3> QED BY <3>3, <3>4, <1>3 DEF ScannedTo
  <2>7. ScannedTo(b, chars, s, i)
    BY <2>4, <2>5, <2>6 DEF ScannedTo
  <2> QED BY <2>7 DEF b, s
<1> QED BY <1>4, <1>5

\* text.split(s): pieces that lie in the text, without the separator, and every
\* word within one of them.
LEMMA PiecesSplit ==
  ASSUME NEW chars \in Strings, NEW j \in 1..3
  PROVE  LET pieces == Pieces(chars, Separators[j]) IN
         /\ pieces \in Seq(Strings)
         /\ Split(pieces, chars, Separators[j])
         /\ \A w \in Words(chars) : \E n \in DOMAIN pieces : Has(pieces[n], chars, w)
<1> DEFINE s == Separators[j]
           n == Len(chars)
<1>1. /\ n \in Nat /\ s \in Seq(Kinds) /\ s # <<>>
      /\ DOMAIN chars = 1..n
  BY StringFacts, SeparatorFacts
<1>2. PICK scan \in [0..n -> Scans(chars)] :
         /\ Scanned(chars, s) = scan[n]
         /\ scan[0] = [pieces |-> <<>>, from |-> 1]
         /\ \A i \in 1..n : scan[i] = Ended(scan[i - 1], chars, s, i)
  BY <1>1, Scanning
<1> HIDE DEF n
<1>3. 0..n \subseteq {i \in 0..n : ScannedTo(scan[i], chars, s, i)}
  <2>1. ScannedTo(scan[0], chars, s, 0)
    <3>1. /\ scan[0].pieces = <<>> /\ scan[0].from = 1
          /\ \A w \in Words(chars) : 1 <= w[1]
      BY <1>1, <1>2 DEF Words
    <3>2. \A q \in 1..0 : FALSE
      OBVIOUS
    <3>3. \A q \in scan[0].from..0 : FALSE
      BY <3>1, <3>2
    <3>4. \A q \in DOMAIN scan[0].pieces : FALSE
      BY <3>1
    <3> HIDE DEF s
    <3> QED BY <3>1, <3>3, <3>4 DEF ScannedTo, Split
  <2>2. ASSUME NEW i \in 1..n, ScannedTo(scan[i - 1], chars, s, i - 1)
        PROVE  ScannedTo(scan[i], chars, s, i)
    <3>1. scan[i - 1] \in Scans(chars)
      BY <1>1
    <3> QED BY <1>2, <2>2, <3>1, EndedSplits DEF n
  <2> DEFINE T == {i \in 0..n : ScannedTo(scan[i], chars, s, i)}
  <2> HIDE DEF s
  <2>3. 0 \in T /\ \A i \in 1..n : i - 1 \in T => i \in T
    BY <1>1, <2>1, <2>2
  <2> HIDE DEF T
  <2>4. 0..n \subseteq T
    BY <1>1, <2>3, UpTo
  <2> QED BY <2>4 DEF T
<1> DEFINE a == Scanned(chars, s)
           p == SubSeq(chars, a.from, n)
           pieces == Pieces(chars, s)
<1>4. a \in Scans(chars) /\ ScannedTo(a, chars, s, n)
  BY <1>1, <1>2, <1>3
<1>5. pieces = Append(a.pieces, p)
  BY <1>1 DEF Pieces, n
<1> HIDE DEF a, s, pieces
<1>6. a.pieces \in Seq(Strings) /\ a.from \in 1..n + 1
  BY <1>4 DEF Scans, n
<1>7. p \in Strings /\ Len(p) = n - a.from + 1 /\ PartAt(p, chars, a.from - 1) /\ Free(p, s)
  <2>1. \A q \in a.from..n : ~Occurs(s, chars, q)
    BY <1>4 DEF ScannedTo
  <2>2. a.from <= n + 1 /\ n \in 0..n
    BY <1>1, <1>6
  <2> QED BY <2>1, <2>2, <1>1, <1>6, Slice DEF n
<1> HIDE DEF p
<1>8. /\ pieces \in Seq(Strings)
      /\ DOMAIN a.pieces = 1..Len(a.pieces) /\ Len(a.pieces) \in Nat
      /\ DOMAIN pieces = 1..Len(a.pieces) + 1
      /\ \A m \in DOMAIN a.pieces : pieces[m] = a.pieces[m]
      /\ pieces[Len(a.pieces) + 1] = p
  BY <1>5, <1>6, <1>7, AppendProperties, LenProperties
<1>9. a.from - 1 \in 0..n
  BY <1>1, <1>6
<1>10. ASSUME NEW m \in DOMAIN pieces
       PROVE  Free(pieces[m], s) /\ \E o \in 0..Len(chars) : PartAt(pieces[m], chars, o)
  <2>1. CASE m = Len(a.pieces) + 1
    BY <2>1, <1>7, <1>8, <1>9 DEF n
  <2>2. CASE m # Len(a.pieces) + 1
    <3>1. m \in DOMAIN a.pieces
      BY <1>8, <2>2
    <3> QED BY <3>1, <1>8, <1>4 DEF ScannedTo, Split
  <2> QED BY <2>1, <2>2
<1>11. ASSUME NEW w \in Words(chars)
       PROVE  \E m \in DOMAIN pieces : Has(pieces[m], chars, w)
  <2>1. CASE a.from <= w[1]
    <3>1. w[1] \in 1..n /\ w[2] \in 1..n
      BY <1>1 DEF Words
    <3>2. a.from - 1 < w[1] /\ w[2] <= (a.from - 1) + Len(p)
      BY <3>1, <2>1, <1>1, <1>6, <1>7
    <3>3. Has(p, chars, w)
      BY <3>2, <1>7, <1>9 DEF Has, n
    <3> QED BY <3>3, <1>8
  <2>2. CASE \E m \in DOMAIN a.pieces : Has(a.pieces[m], chars, w)
    BY <2>2, <1>8
  <2> QED BY <2>1, <2>2, <1>4 DEF ScannedTo
<1> QED BY <1>8, <1>10, <1>11 DEF pieces, s, Split

\* text.split(''): the characters.
LEMMA PiecesSingle ==
  ASSUME NEW chars \in Strings
  PROVE  LET pieces == Pieces(chars, Separators[4]) IN
         /\ pieces \in Seq(Strings) /\ DOMAIN pieces = DOMAIN chars
         /\ \A i \in DOMAIN chars : pieces[i] = <<chars[i]>>
<1>1. Pieces(chars, Separators[4]) = [i \in 1..Len(chars) |-> <<chars[i]>>]
  BY SeparatorFacts, StringFacts DEF Pieces
<1>2. \A i \in 1..Len(chars) : <<chars[i]>> \in Strings
  BY StringFacts DEF Strings
<1> QED BY <1>1, <1>2, StringFacts

\* What FirstFound looks for.
FirstAt(level, chars, j) ==
    /\ j >= level /\ \E i \in DOMAIN chars : Occurs(Separators[j], chars, i)
    /\ \A k \in level..j - 1 : \A i \in DOMAIN chars : ~Occurs(Separators[k], chars, i)

\* find() returns a separator that is left, and none before it occurs.
LEMMA SeparatorFound ==
  ASSUME NEW level \in 1..4, NEW chars \in Strings, chars # <<>>
  PROVE  /\ FirstFound(level, chars) \in level..4
         /\ \A k \in level..FirstFound(level, chars) - 1 : Free(chars, Separators[k])
<1> DEFINE S == {k \in level..4 : ~Free(chars, Separators[k])}
<1>1. 1 \in DOMAIN chars /\ Len(chars) \in Nat /\ Len(chars) >= 1
  BY StringFacts, EmptySeq DEF Strings
<1>2. ~Free(chars, Separators[4])
  <2>1. Occurs(Separators[4], chars, 1)
    BY SeparatorFacts, <1>1 DEF Occurs
  <2> QED BY <2>1, <1>1 DEF Free
<1>3. PICK m \in S : \A k \in S : m <= k
  <2>1. S \subseteq Nat /\ S # {}
    BY <1>2
  <2> HIDE DEF S
  <2> QED BY <2>1, Least
<1>4. m \in Levels /\ FirstAt(level, chars, m)
  <2>1. m \in level..4 /\ ~Free(chars, Separators[m])
    BY <1>3
  <2>2. ASSUME NEW k \in level..m - 1 PROVE Free(chars, Separators[k])
    <3>1. k \in level..4 /\ ~(m <= k)
      BY <2>1
    <3> QED BY <3>1, <1>3
  <2> QED BY <2>1, <2>2, SeparatorFacts DEF FirstAt, Free
<1>5. FirstFound(level, chars) = CHOOSE j \in Levels : FirstAt(level, chars, j)
  BY DEF FirstFound, FirstAt
<1>6. FirstFound(level, chars) \in Levels /\ FirstAt(level, chars, FirstFound(level, chars))
  BY <1>4, <1>5
<1>7. FirstFound(level, chars) \in level..4
  BY <1>6, SeparatorFacts DEF FirstAt
<1>8. \A k \in level..FirstFound(level, chars) - 1 : Free(chars, Separators[k])
  BY <1>6 DEF FirstAt, Free
<1> QED BY <1>7, <1>8

-----------------------------------------------------------------------------
(* What a chunk holds when pieces are joined and chunks overlap. *)

\* How much longer a chunk may be, level by level.
LEMMA ChunkSizes ==
  /\ ChunkSize \in Nat /\ ChunkSize >= 1 /\ ChunkOverlap \in Nat
  /\ \A level \in 1..4 :
        /\ Limit(level) \in Nat /\ Limit(level + 1) \in Nat
        /\ Limit(level) = Limit(level + 1) + ChunkOverlap
        /\ ChunkSize <= Limit(level + 1)
        /\ \A k \in level + 1..5 : Limit(k) <= Limit(level + 1)
<1>1. ChunkSize \in Nat /\ ChunkSize >= 1 /\ ChunkOverlap \in Nat
  BY ChunkingAssumption
<1>2. /\ Limit(1) = ChunkSize + 4 * ChunkOverlap /\ Limit(2) = ChunkSize + 3 * ChunkOverlap
      /\ Limit(3) = ChunkSize + 2 * ChunkOverlap /\ Limit(4) = ChunkSize + ChunkOverlap
      /\ Limit(5) = ChunkSize
  BY <1>1 DEF Limit
<1>3. ASSUME NEW level \in 1..4
      PROVE  /\ Limit(level) \in Nat /\ Limit(level + 1) \in Nat
             /\ Limit(level) = Limit(level + 1) + ChunkOverlap
             /\ ChunkSize <= Limit(level + 1)
             /\ \A k \in level + 1..5 : Limit(k) <= Limit(level + 1)
  <2>1. CASE level = 1
    BY <1>1, <1>2, <2>1
  <2>2. CASE level = 2
    BY <1>1, <1>2, <2>2
  <2>3. CASE level = 3
    BY <1>1, <1>2, <2>3
  <2>4. CASE level = 4
    BY <1>1, <1>2, <2>4
  <2> QED BY <2>1, <2>2, <2>3, <2>4
<1> QED BY <1>1, <1>3

\* The places i to j of a string are those from k in one of length n, which is
\* from l in one of length t.
Placed(n, t, i, j, k, l) ==
    /\ n \in Int /\ t \in Int /\ i \in Int /\ j \in Int /\ k \in Int /\ l \in Int
    /\ i <= j
    /\ k >= 1 /\ k <= n /\ k + j - i <= n
    /\ l >= 1 /\ l + n - 1 <= t

LEMMA Through ==
  ASSUME NEW n, NEW t, NEW i, NEW j, NEW k, NEW l, Placed(n, t, i, j, k, l)
  PROVE  /\ l + k - 1 \in 1..t /\ l + k - 1 + j - i \in 1..t
         /\ \A x \in i..j : k + x - i \in 1..n
<1>1. l + k - 1 \in 1..t
  BY DEF Placed
<1>2. l + k - 1 + j - i \in 1..t
  BY DEF Placed
<1>3. ASSUME NEW x \in i..j PROVE k + x - i \in 1..n
  BY DEF Placed
<1> QED BY <1>1, <1>2, <1>3

\* What is in a string that is in another is in that one.
LEMMA HoldsThrough ==
  ASSUME NEW p \in Strings, NEW c \in Strings, NEW d \in Strings,
         NEW i \in Nat, NEW j \in Nat, i <= j, Holds(c, p, i, j), Holds(d, c, 1, Len(c))
  PROVE  Holds(d, p, i, j)
<1>1. /\ Len(c) \in Nat /\ DOMAIN c = 1..Len(c)
      /\ Len(d) \in Nat /\ DOMAIN d = 1..Len(d)
  BY StringFacts
<1>2. PICK k \in DOMAIN c : k + j - i \in DOMAIN c /\ \A x \in i..j : c[k + x - i] = p[x]
  BY DEF Holds
<1>3. PICK l \in DOMAIN d : l + Len(c) - 1 \in DOMAIN d /\ \A x \in 1..Len(c) : d[l + x - 1] = c[x]
  BY DEF Holds
<1> DEFINE m == l + k - 1
<1>4. /\ m \in DOMAIN d /\ m + j - i \in DOMAIN d
      /\ \A x \in i..j : k + x - i \in 1..Len(c) /\ l + (k + x - i) - 1 = m + x - i
  <2>1. k \in 1..Len(c) /\ k + j - i \in 1..Len(c)
    BY <1>1, <1>2
  <2>2. l \in 1..Len(d) /\ l + Len(c) - 1 \in 1..Len(d)
    BY <1>1, <1>3
  <2> DEFINE n == Len(c)
             t == Len(d)
  <2>3. n \in Nat /\ k \in Nat /\ k >= 1 /\ k <= n /\ k + j - i <= n
    BY <1>1, <2>1
  <2>4. t \in Nat /\ l \in Nat /\ l >= 1 /\ l + n - 1 <= t
    BY <1>1, <2>2
  <2> HIDE DEF n, t
  <2>5. Placed(n, t, i, j, k, l)
    BY <2>3, <2>4 DEF Placed
  <2>6. m \in 1..t
    BY <2>5, Through
  <2>7. m + j - i \in 1..t
    BY <2>5, Through
  <2>8. ASSUME NEW x \in i..j PROVE k + x - i \in 1..n /\ l + (k + x - i) - 1 = m + x - i
    <3>1. k + x - i \in 1..n
      BY <2>5, Through
    <3>2. x \in Int /\ k \in Int /\ l \in Int
      BY <2>3, <2>4
    <3>3. l + (k + x - i) - 1 = l + k - 1 + x - i
      BY <3>2
    <3> QED BY <3>1, <3>3
  <2> QED BY <2>6, <2>7, <2>8, <1>1 DEF n, t
<1>5. ASSUME NEW x \in i..j PROVE d[m + x - i] = p[x]
  <2>1. k + x - i \in 1..Len(c) /\ l + (k + x - i) - 1 = m + x - i
    BY <1>4
  <2>2. d[l + (k + x - i) - 1] = c[k + x - i]
    BY <2>1, <1>3
  <2> HIDE DEF m
  <2> QED BY <2>1, <2>2, <1>2
<1> HIDE DEF m
<1> QED BY <1>4, <1>5 DEF Holds

\* Words stay kept when every chunk goes on within another.
LEMMA CoversKeeps ==
  ASSUME NEW p \in Strings, NEW C \in Seq(Strings), NEW D \in Seq(Strings),
         Kept(p, C), Covers(D, C)
  PROVE  Kept(p, D)
<1>1. \A c \in Range(C) : c \in Strings
  BY LenProperties DEF Range
<1>2. \A d \in Range(D) : d \in Strings
  BY LenProperties DEF Range
<1>3. ASSUME NEW i \in Nat, NEW j \in Nat, i <= j, NEW c \in Range(C), Holds(c, p, i, j)
      PROVE  \E d \in Range(D) : Holds(d, p, i, j)
  <2>1. c # <<>>
    BY <1>3 DEF Holds
  <2>2. PICK d \in Range(D) : Holds(d, c, 1, Len(c))
    BY <2>1 DEF Covers
  <2> QED BY <2>2, <1>1, <1>2, <1>3, HoldsThrough
<1>4. ASSUME NEW w \in Words(p)
      PROVE  IF w[2] - w[1] < ChunkSize
             THEN \E d \in Range(D) : Holds(d, p, w[1], w[2])
             ELSE \A i \in w[1]..w[2] : \E d \in Range(D) : Holds(d, p, i, i)
  <2>1. w[1] \in Nat /\ w[2] \in Nat /\ w[1] <= w[2]
    BY StringFacts DEF Words
  <2>2. IF w[2] - w[1] < ChunkSize
        THEN \E c \in Range(C) : Holds(c, p, w[1], w[2])
        ELSE \A i \in w[1]..w[2] : \E c \in Range(C) : Holds(c, p, i, i)
    BY DEF Kept
  <2>3. CASE w[2] - w[1] < ChunkSize
    BY <2>1, <2>2, <2>3, <1>3
  <2>4. CASE ~(w[2] - w[1] < ChunkSize)
    <3>1. ASSUME NEW i \in w[1]..w[2] PROVE \E d \in Range(D) : Holds(d, p, i, i)
      <4>1. PICK c \in Range(C) : Holds(c, p, i, i)
        BY <2>2, <2>4
      <4>2. i \in Nat /\ i <= i
        BY <2>1
      <4> QED BY <4>1, <4>2, <1>3
    <3> QED BY <3>1, <2>4
  <2> QED BY <2>3, <2>4
<1> QED BY <1>4 DEF Kept

\* A string holds itself, and the empty one holds nothing.
LEMMA HoldsItself ==
  ASSUME NEW c \in Strings, c # <<>>
  PROVE  Holds(c, c, 1, Len(c))
<1>1. Len(c) \in Nat /\ Len(c) >= 1 /\ DOMAIN c = 1..Len(c)
  BY StringFacts, EmptySeq DEF Strings
<1>2. ASSUME NEW x \in 1..Len(c) PROVE c[1 + x - 1] = c[x]
  <2>1. 1 + x - 1 = x
    BY <1>1
  <2> QED BY <2>1
<1>3. 1 \in DOMAIN c /\ 1 + Len(c) - 1 \in DOMAIN c
  BY <1>1
<1> QED BY <1>2, <1>3 DEF Holds

\* The places before and after, in a part that begins after o characters.
LEMMA OneBefore ==
  ASSUME NEW o \in Nat, NEW l \in Nat, NEW u \in 1..l, u > 1
  PROVE  u - 1 \in 1..l /\ o + (u - 1) = (o + u) - 1 /\ o + u > 1
OBVIOUS

LEMMA OneAfter ==
  ASSUME NEW o \in Nat, NEW l \in Nat, NEW n \in Nat, NEW v \in 1..l, v < l, o + l <= n
  PROVE  v + 1 \in 1..l /\ o + (v + 1) = (o + v) + 1 /\ o + v < n
OBVIOUS

\* A word of a text is a word of the piece it is in.
LEMMA PiecesKeep ==
  ASSUME NEW chars \in Strings, NEW pieces \in Seq(Strings), NEW C \in Seq(Strings),
         \A w \in Words(chars) : \E n \in DOMAIN pieces : Has(pieces[n], chars, w),
         \A n \in DOMAIN pieces : Kept(pieces[n], C)
  PROVE  Kept(chars, C)
<1>1. ASSUME NEW w \in Words(chars)
      PROVE  IF w[2] - w[1] < ChunkSize
             THEN \E c \in Range(C) : Holds(c, chars, w[1], w[2])
             ELSE \A i \in w[1]..w[2] : \E c \in Range(C) : Holds(c, chars, i, i)
  <2>1. PICK n \in DOMAIN pieces : Has(pieces[n], chars, w)
    OBVIOUS
  <2> DEFINE p == pieces[n]
  <2>2. p \in Strings /\ Kept(p, C)
    BY LenProperties
  <2>3. PICK o \in 0..Len(chars) : PartAt(p, chars, o) /\ o < w[1] /\ w[2] <= o + Len(p)
    BY <2>1 DEF Has
  <2> HIDE DEF p
  <2>4. /\ Len(chars) \in Nat /\ DOMAIN chars = 1..Len(chars)
        /\ Len(p) \in Nat /\ DOMAIN p = 1..Len(p)
    BY <2>2, StringFacts
  <2>5. /\ w[1] \in 1..Len(chars) /\ w[2] \in 1..Len(chars)
        /\ w[1] <= w[2] /\ \A i \in w[1]..w[2] : chars[i][1] = "word"
        /\ w[1] > 1 => chars[w[1] - 1][1] # "word"
        /\ w[2] < Len(chars) => chars[w[2] + 1][1] # "word"
    BY <2>4 DEF Words
  <2>6. o + Len(p) <= Len(chars) /\ \A x \in 1..Len(p) : p[x] = chars[o + x]
    BY <2>3 DEF PartAt
  <2> DEFINE u == w[1] - o
             v == w[2] - o
  <2>7. /\ u \in 1..Len(p) /\ v \in 1..Len(p) /\ u <= v /\ v - u = w[2] - w[1]
        /\ w[1] = o + u /\ w[2] = o + v /\ o \in Nat
    <3>1. o \in Nat /\ w[1] \in Nat /\ w[2] \in Nat
      BY <2>3, <2>4, <2>5
    <3>2. /\ u >= 1 /\ v <= Len(p) /\ u <= v /\ v - u = w[2] - w[1]
          /\ w[1] = o + u /\ w[2] = o + v
      <4> DEFINE a == w[1]
                 b == w[2]
      <4>1. a \in Nat /\ b \in Nat /\ o < a /\ b <= o + Len(p) /\ a <= b
        BY <3>1, <2>3, <2>5
      <4> HIDE DEF a, b
      <4>2. /\ a - o >= 1 /\ b - o <= Len(p) /\ a - o <= b - o /\ (b - o) - (a - o) = b - a
            /\ a = o + (a - o) /\ b = o + (b - o)
        BY <4>1, <3>1, <2>4
      <4> QED BY <4>2 DEF a, b
    <3>3. u \in Int /\ v \in Int
      BY <3>1
    <3> HIDE DEF u, v
    <3> QED BY <3>1, <3>2, <3>3, <2>4
  <2> HIDE DEF u, v
  <2>8. <<u, v>> \in Words(p)
    <3>1. ASSUME NEW i \in u..v PROVE p[i][1] = "word"
      <4>1. i \in 1..Len(p)
        BY <2>4, <2>7
      <4>2. o + i \in o + u..o + v
        BY <2>4, <2>7
      <4>3. o + i \in w[1]..w[2]
        BY <4>2, <2>7
      <4> QED BY <4>1, <4>3, <2>5, <2>6
    <3>2. ASSUME u > 1 PROVE p[u - 1][1] # "word"
      <4>1. u - 1 \in 1..Len(p) /\ o + (u - 1) = w[1] - 1 /\ w[1] > 1
        BY <3>2, <2>4, <2>7, OneBefore
      <4> QED BY <4>1, <2>5, <2>6
    <3>3. ASSUME v < Len(p) PROVE p[v + 1][1] # "word"
      <4>1. v + 1 \in 1..Len(p) /\ o + (v + 1) = (o + v) + 1 /\ o + v < Len(chars)
        BY <3>3, <2>4, <2>6, <2>7, OneAfter
      <4>2. w[2] = o + v
        BY <2>7
      <4> QED BY <4>1, <4>2, <2>5, <2>6
    <3>4. <<u, v>> \in (DOMAIN p) \X (DOMAIN p)
      BY <2>7, <2>4
    <3> QED BY <3>1, <3>2, <3>3, <3>4, <2>7 DEF Words
  <2>9. IF v - u < ChunkSize
        THEN \E c \in Range(C) : Holds(c, p, u, v)
        ELSE \A i \in u..v : \E c \in Range(C) : Holds(c, p, i, i)
    <3> QED BY <2>2, <2>8 DEF Kept
  <2>10. ASSUME NEW c \in Strings, NEW i \in w[1]..w[2], NEW j \in i..w[2], Holds(c, p, i - o, j - o)
         PROVE  Holds(c, chars, i, j)
    <3>1. PICK k \in DOMAIN c : /\ k + (j - o) - (i - o) \in DOMAIN c
                                /\ \A x \in i - o..j - o : c[k + x - (i - o)] = p[x]
      BY <2>10 DEF Holds
    <3>2. /\ i \in Int /\ j \in Int /\ o \in Int
          /\ i - o \in 1..Len(p) /\ j - o \in 1..Len(p)
      <4>1. i \in o + u..o + v /\ j \in o + u..o + v
        <5>1. i \in o + u..o + v /\ j \in i..o + v
          BY <2>7
        <5> QED BY <5>1, <2>4, <2>7
      <4> QED BY <4>1, <2>4, <2>7
    <3>3. k \in Int
      BY <2>10, <3>1, StringFacts
    <3>4. k + (j - o) - (i - o) = k + j - i
      BY <3>2, <3>3
    <3>5. ASSUME NEW x \in i..j PROVE c[k + x - i] = chars[x]
      <4>1. /\ x - o \in i - o..j - o /\ x - o \in 1..Len(p)
            /\ k + (x - o) - (i - o) = k + x - i /\ o + (x - o) = x
        BY <2>4, <3>2, <3>3
      <4>2. c[k + (x - o) - (i - o)] = p[x - o] /\ p[x - o] = chars[o + (x - o)]
        BY <4>1, <3>1, <2>6
      <4> QED BY <4>1, <4>2
    <3> QED BY <3>1, <3>4, <3>5 DEF Holds
  <2>11. \A c \in Range(C) : c \in Strings
    BY LenProperties DEF Range
  <2>12. CASE w[2] - w[1] < ChunkSize
    <3>1. PICK c \in Range(C) : Holds(c, p, w[1] - o, w[2] - o)
      <4>1. u = w[1] - o /\ v = w[2] - o
        BY DEF u, v
      <4> QED BY <4>1, <2>7, <2>9, <2>12
    <3>2. w[1] \in w[1]..w[2] /\ w[2] \in w[1]..w[2]
      BY <2>5, <2>4
    <3> QED BY <3>1, <3>2, <2>10, <2>11, <2>12
  <2>13. CASE ~(w[2] - w[1] < ChunkSize)
    <3>1. ASSUME NEW i \in w[1]..w[2] PROVE \E c \in Range(C) : Holds(c, chars, i, i)
      <4>1. i - o \in u..v /\ i \in i..w[2]
        BY <2>4, <2>5, <2>7
      <4>2. PICK c \in Range(C) : Holds(c, p, i - o, i - o)
        BY <4>1, <2>7, <2>9, <2>13
      <4> QED BY <4>1, <4>2, <2>10, <2>11
    <3> QED BY <3>1, <2>13
  <2> QED BY <2>12, <2>13
<1> QED BY <1>1 DEF Kept

\* A concatenation holds both its parts.
LEMMA ConcatHolds ==
  ASSUME NEW u \in Strings, NEW v \in Strings
  PROVE  /\ u \o v \in Strings /\ Len(u \o v) = Len(u) + Len(v)
         /\ u # <<>> => Holds(u \o v, u, 1, Len(u))
         /\ v # <<>> => Holds(u \o v, v, 1, Len(v))
<1> DEFINE r == u \o v
<1>1. /\ r \in Strings /\ Len(r) = Len(u) + Len(v)
      /\ \A i \in 1..Len(u) + Len(v) : r[i] = IF i <= Len(u) THEN u[i] ELSE v[i - Len(u)]
  BY ConcatProperties DEF Strings
<1>2. /\ Len(u) \in Nat /\ Len(v) \in Nat
      /\ DOMAIN u = 1..Len(u) /\ DOMAIN v = 1..Len(v) /\ DOMAIN r = 1..Len(u) + Len(v)
      /\ u # <<>> => Len(u) >= 1
      /\ v # <<>> => Len(v) >= 1
  BY <1>1, StringFacts, EmptySeq DEF Strings
<1> HIDE DEF r
<1>3. ASSUME u # <<>> PROVE Holds(r, u, 1, Len(u))
  <2>1. 1 \in DOMAIN r /\ 1 + Len(u) - 1 \in DOMAIN r
    BY <1>2, <1>3
  <2>2. ASSUME NEW x \in 1..Len(u) PROVE r[1 + x - 1] = u[x]
    <3>1. 1 + x - 1 = x /\ x \in 1..Len(u) + Len(v) /\ x <= Len(u)
      BY <1>2
    <3> QED BY <3>1, <1>1
  <2> QED BY <2>1, <2>2 DEF Holds
<1>4. ASSUME v # <<>> PROVE Holds(r, v, 1, Len(v))
  <2> DEFINE k == Len(u) + 1
  <2>1. k \in DOMAIN r /\ k + Len(v) - 1 \in DOMAIN r
    BY <1>2, <1>4
  <2>2. ASSUME NEW x \in 1..Len(v) PROVE r[k + x - 1] = v[x]
    <3>1. /\ k + x - 1 = Len(u) + x /\ Len(u) + x \in 1..Len(u) + Len(v)
          /\ ~(Len(u) + x <= Len(u)) /\ (Len(u) + x) - Len(u) = x
      BY <1>2
    <3> HIDE DEF k
    <3> QED BY <3>1, <1>1
  <2> HIDE DEF k
  <2> QED BY <2>1, <2>2 DEF Holds
<1> QED BY <1>1, <1>3, <1>4 DEF r

\* Joining a piece to a chunk keeps both.
LEMMA JoinedHolds ==
  ASSUME NEW p \in Strings, NEW s \in Seq(Kinds), NEW q \in Strings
  PROVE  /\ Joined(p, s, q) \in Strings
         /\ Len(Joined(p, s, q)) <= Len(p) + Len(s) + Len(q)
         /\ p # <<>> => Holds(Joined(p, s, q), p, 1, Len(p))
         /\ q # <<>> => Holds(Joined(p, s, q), q, 1, Len(q))
<1>1. Len(p) \in Nat /\ Len(q) \in Nat /\ Len(s) \in Nat /\ DOMAIN s = 1..Len(s)
  BY StringFacts, LenProperties
<1>2. CASE p = <<>>
  <2>1. Joined(p, s, q) = q
    BY <1>2 DEF Joined
  <2> QED BY <2>1, <1>1, <1>2, HoldsItself
<1>3. CASE p # <<>>
  <2> DEFINE t == [k \in 1..Len(s) |-> <<s[k], 0>>]
             u == p \o t
  <2>1. t \in Strings /\ Len(t) = Len(s)
    <3>1. \A k \in 1..Len(s) : <<s[k], 0>> \in Characters
      BY LenProperties DEF Characters
    <3>2. t \in [1..Len(s) -> Characters]
      BY <3>1
    <3> QED BY <3>2, <1>1 DEF Strings
  <2>2. Joined(p, s, q) = u \o q
    BY <1>1, <1>3 DEF Joined
  <2> HIDE DEF t
  <2>3. u \in Strings /\ Len(u) = Len(p) + Len(s) /\ Holds(u, p, 1, Len(p))
    <3>1. /\ p \o t \in Strings /\ Len(p \o t) = Len(p) + Len(t)
          /\ p # <<>> => Holds(p \o t, p, 1, Len(p))
      BY <2>1, ConcatHolds
    <3> QED BY <2>1, <3>1, <1>3
  <2>4. u # <<>>
    BY <2>3 DEF Holds
  <2> HIDE DEF u
  <2>5. /\ u \o q \in Strings /\ Len(u \o q) = Len(u) + Len(q)
        /\ Holds(u \o q, u, 1, Len(u))
        /\ q # <<>> => Holds(u \o q, q, 1, Len(q))
    BY <2>3, <2>4, ConcatHolds
  <2>6. Holds(u \o q, p, 1, Len(p))
    <3>1. 1 <= Len(p)
      BY <1>1, <1>3, EmptySeq DEF Strings
    <3> QED BY <3>1, <1>1, <2>3, <2>5, HoldsThrough
  <2> QED BY <2>2, <2>3, <2>5, <2>6, <1>1
<1> QED BY <1>2, <1>3

\* The elements of sequences that are put together.
LEMMA RangeFacts ==
  ASSUME NEW C \in Seq(Strings), NEW D \in Seq(Strings), NEW c \in Strings
  PROVE  /\ \A d \in Range(C) : d \in Strings
         /\ Append(C, c) \in Seq(Strings) /\ Range(Append(C, c)) = Range(C) \cup {c}
         /\ C \o D \in Seq(Strings) /\ Range(C \o D) = Range(C) \cup Range(D)
         /\ Range(<<>>) = {} /\ Range(<<c>>) = {c} /\ <<c>> \in Seq(Strings)
<1>1. /\ Len(C) \in Nat /\ DOMAIN C = 1..Len(C) /\ \A i \in DOMAIN C : C[i] \in Strings
      /\ Len(D) \in Nat /\ DOMAIN D = 1..Len(D)
  BY LenProperties
<1>2. Append(C, c) \in Seq(Strings) /\ Range(Append(C, c)) = Range(C) \cup {c}
  <2> DEFINE E == Append(C, c)
  <2>1. /\ E \in Seq(Strings) /\ DOMAIN E = 1..Len(C) + 1
        /\ \A i \in 1..Len(C) : E[i] = C[i]
        /\ E[Len(C) + 1] = c
    BY <1>1, AppendProperties, LenProperties
  <2> HIDE DEF E
  <2>2. \A i \in 1..Len(C) + 1 : i \in 1..Len(C) \/ i = Len(C) + 1
    BY <1>1
  <2>3. /\ \A i \in 1..Len(C) : i \in 1..Len(C) + 1
        /\ Len(C) + 1 \in 1..Len(C) + 1
    BY <1>1
  <2>4. Range(E) = Range(C) \cup {c}
    BY <1>1, <2>1, <2>2, <2>3 DEF Range
  <2> QED BY <2>1, <2>4 DEF E
<1>3. C \o D \in Seq(Strings) /\ Range(C \o D) = Range(C) \cup Range(D)
  <2> DEFINE E == C \o D
  <2>1. /\ E \in Seq(Strings) /\ DOMAIN E = 1..Len(C) + Len(D)
        /\ \A i \in 1..Len(C) + Len(D) : E[i] = IF i <= Len(C) THEN C[i] ELSE D[i - Len(C)]
    BY <1>1, ConcatProperties, LenProperties
  <2> HIDE DEF E
  <2>2. ASSUME NEW i \in DOMAIN C PROVE E[i] = C[i] /\ i \in DOMAIN E
    BY <1>1, <2>1
  <2>3. ASSUME NEW i \in DOMAIN D PROVE E[Len(C) + i] = D[i] /\ Len(C) + i \in DOMAIN E
    <3>1. /\ Len(C) + i \in 1..Len(C) + Len(D) /\ ~(Len(C) + i <= Len(C))
          /\ (Len(C) + i) - Len(C) = i
      BY <1>1
    <3> QED BY <3>1, <2>1
  <2>4. ASSUME NEW i \in DOMAIN E PROVE E[i] \in Range(C) \cup Range(D)
    <3>1. CASE i <= Len(C)
      BY <3>1, <1>1, <2>1 DEF Range
    <3>2. CASE ~(i <= Len(C))
      <4>1. i - Len(C) \in DOMAIN D /\ E[i] = D[i - Len(C)]
        BY <3>2, <1>1, <2>1
      <4> QED BY <4>1 DEF Range
    <3> QED BY <3>1, <3>2
  <2>5. Range(E) = Range(C) \cup Range(D)
    BY <2>2, <2>3, <2>4 DEF Range
  <2> QED BY <2>1, <2>5 DEF E
<1>4. Range(<<>>) = {} /\ Range(<<c>>) = {c} /\ <<c>> \in Seq(Strings)
  <2>1. DOMAIN <<c>> = {1} /\ <<c>>[1] = c
    OBVIOUS
  <2>2. Range(<<c>>) = {c}
    BY <2>1, Zenon DEF Range
  <2>3. Range(<<>>) = {}
    BY DEF Range
  <2>4. <<c>> \in Seq(Strings)
    OBVIOUS
  <2> QED BY <2>2, <2>3, <2>4
<1>5. \A d \in Range(C) : d \in Strings
  BY <1>1 DEF Range
<1> QED BY <1>2, <1>3, <1>4, <1>5

\* Chunks that stay, or go on within another, are covered.
LEMMA CoversIfHeld ==
  ASSUME NEW C \in Seq(Strings), NEW D \in Seq(Strings),
         \A c \in Range(C) : c # <<>> =>
            c \in Range(D) \/ \E d \in Range(D) : Holds(d, c, 1, Len(c))
  PROVE  Covers(D, C)
<1>1. \A c \in Range(C) : c \in Strings
  BY LenProperties DEF Range
<1>2. \A c \in Range(C) : c # <<>> => Holds(c, c, 1, Len(c))
  BY <1>1, HoldsItself
<1> QED BY <1>2 DEF Covers

\* A text that is in a chunk as a whole is kept.
LEMMA KeptWithin ==
  ASSUME NEW p \in Strings, NEW C \in Seq(Strings),
         p # <<>> => \E c \in Range(C) : Holds(c, p, 1, Len(p))
  PROVE  Kept(p, C)
<1>1. ASSUME NEW i \in DOMAIN p, NEW j \in DOMAIN p, i <= j PROVE Holds(p, p, i, j)
  <2>1. Len(p) \in Nat /\ DOMAIN p = 1..Len(p)
    BY StringFacts
  <2>2. i + j - i = j
    BY <2>1
  <2>3. ASSUME NEW x \in i..j PROVE p[i + x - i] = p[x]
    <3>1. i + x - i = x
      BY <2>1
    <3> QED BY <3>1
  <2> QED BY <2>2, <2>3 DEF Holds
<1>2. <<p>> \in Seq(Strings) /\ Range(<<p>>) = {p}
  BY RangeFacts
<1>3. Kept(p, <<p>>)
  <2>1. ASSUME NEW w \in Words(p)
        PROVE  /\ w[1] \in DOMAIN p /\ w[2] \in DOMAIN p /\ w[1] <= w[2]
               /\ \A i \in w[1]..w[2] : i \in DOMAIN p /\ i <= i
    <3>1. Len(p) \in Nat /\ DOMAIN p = 1..Len(p)
      BY StringFacts
    <3>2. w[1] \in DOMAIN p /\ w[2] \in DOMAIN p /\ w[1] <= w[2]
      BY DEF Words
    <3> QED BY <3>1, <3>2
  <2> QED BY <1>1, <1>2, <2>1 DEF Kept
<1>4. Covers(C, <<p>>)
  BY <1>2 DEF Covers
<1> QED BY <1>2, <1>3, <1>4, CoversKeeps

-----------------------------------------------------------------------------
(* Packing: the loop over the pieces. *)

\* What may be packed at a level: chunks, and one that is being filled.
Packs(level) ==
    {a \in [chunks : Seq(Strings), current : Strings] :
        /\ \A c \in Range(a.chunks) : Len(c) <= Limit(level + 1)
        /\ Len(a.current) <= ChunkSize}

\* Flushing loses no chunk and adds only what was being filled.
LEMMA FlushedFacts ==
  ASSUME NEW level \in 1..4, NEW a \in Packs(level)
  PROVE  /\ Flushed(a) \in Seq(Strings)
         /\ \A c \in Range(Flushed(a)) : Len(c) <= Limit(level + 1)
         /\ Range(a.chunks) \subseteq Range(Flushed(a))
         /\ a.current # <<>> => a.current \in Range(Flushed(a))
         /\ Range(Flushed(a)) \subseteq Range(a.chunks) \cup ({a.current} \ {<<>>})
<1>1. /\ a.chunks \in Seq(Strings) /\ a.current \in Strings
      /\ \A c \in Range(a.chunks) : Len(c) <= Limit(level + 1)
      /\ Len(a.current) <= ChunkSize
  BY DEF Packs
<1>2. Len(a.current) <= Limit(level + 1)
  <2>1. ChunkSize \in Nat /\ Limit(level + 1) \in Nat /\ ChunkSize <= Limit(level + 1)
    BY ChunkSizes
  <2>2. Len(a.current) \in Nat
    BY <1>1, StringFacts
  <2> QED BY <1>1, <2>1, <2>2
<1>3. CASE a.current = <<>>
  BY <1>1, <1>3 DEF Flushed
<1>4. CASE a.current # <<>>
  <2>1. Flushed(a) = Append(a.chunks, a.current)
    BY <1>4 DEF Flushed
  <2>2. /\ Append(a.chunks, a.current) \in Seq(Strings)
        /\ Range(Append(a.chunks, a.current)) = Range(a.chunks) \cup {a.current}
    BY <1>1, RangeFacts
  <2> QED BY <1>1, <1>2, <1>4, <2>1, <2>2
<1> QED BY <1>3, <1>4

\* One turn of the loop over the pieces, whichever branch it takes, loses no
\* chunk and keeps the piece.
LEMMA AddedPacks ==
  ASSUME NEW level \in 1..4, NEW j \in level..4, NEW deeper,
         \A k \in level + 1..4 : Cuts(k, deeper[k]),
         NEW a \in Packs(level), NEW piece \in Strings,
         j = 4 => Len(piece) <= 1
  PROVE  LET b == Added(a, piece, j, level, deeper) IN
         /\ b \in Packs(level)
         /\ Covers(Flushed(b), Flushed(a))
         /\ j < 4 /\ Clean(piece, j + 1) => Kept(piece, Flushed(b))
         /\ j = 4 => Kept(piece, Flushed(b))
<1> DEFINE b == Added(a, piece, j, level, deeper)
           s == Separators[j]
<1>1. /\ a.chunks \in Seq(Strings) /\ a.current \in Strings
      /\ \A c \in Range(a.chunks) : Len(c) <= Limit(level + 1)
      /\ Len(a.current) <= ChunkSize
      /\ a = [chunks |-> a.chunks, current |-> a.current]
  BY DEF Packs
<1>2. /\ s \in Seq(Kinds) /\ Len(s) \in Nat /\ Len(a.current) \in Nat /\ Len(piece) \in Nat
  BY <1>1, SeparatorFacts, LenProperties, StringFacts
<1>3. /\ Flushed(a) \in Seq(Strings)
      /\ \A c \in Range(Flushed(a)) : Len(c) <= Limit(level + 1)
      /\ Range(a.chunks) \subseteq Range(Flushed(a))
      /\ Range(Flushed(a)) \subseteq Range(a.chunks) \cup ({a.current} \ {<<>>})
  BY FlushedFacts
<1>4. SUFFICES /\ b \in Packs(level)
               /\ Covers(Flushed(b), Flushed(a))
               /\ (j < 4 => Clean(piece, j + 1)) => Kept(piece, Flushed(b))
  BY SMTT(20)
<1>5. CASE Fits(a.current, s, piece)
  <2> DEFINE r == Joined(a.current, s, piece)
  <2>1. b = [chunks |-> a.chunks, current |-> r]
    BY <1>1, <1>5 DEF Added
  <2>2. /\ r \in Strings /\ Len(r) <= Len(a.current) + Len(s) + Len(piece)
        /\ a.current # <<>> => Holds(r, a.current, 1, Len(a.current))
        /\ piece # <<>> => Holds(r, piece, 1, Len(piece))
    BY <1>1, <1>2, JoinedHolds
  <2>3. Len(r) <= ChunkSize
    <3>1. Len(r) \in Nat /\ ChunkSize \in Nat
      BY <2>2, StringFacts, ChunkSizes
    <3>2. Len(a.current) + Len(s) + Len(piece) <= ChunkSize
      BY <1>5 DEF Fits
    <3> HIDE DEF r, s
    <3> QED BY <3>1, <3>2, <2>2, <1>2
  <2> HIDE DEF r, b, s
  <2>4. b \in Packs(level) /\ b.chunks = a.chunks /\ b.current = r
    BY <2>1, <2>2, <2>3, <1>1 DEF Packs
  <2>5. /\ Flushed(b) \in Seq(Strings) /\ Range(a.chunks) \subseteq Range(Flushed(b))
        /\ r # <<>> => r \in Range(Flushed(b))
    BY <2>4, FlushedFacts
  <2>6. /\ a.current # <<>> => r # <<>>
        /\ piece # <<>> => r # <<>>
    BY <2>2 DEF Holds
  <2>7. Covers(Flushed(b), Flushed(a))
    BY <2>2, <2>5, <2>6, <1>3, CoversIfHeld
  <2>8. Kept(piece, Flushed(b))
    BY <2>2, <2>5, <2>6, KeptWithin
  <2> QED BY <2>4, <2>7, <2>8
<1>6. CASE ~Fits(a.current, s, piece) /\ Len(piece) > ChunkSize /\ level < Len(Separators)
  <2>1. j < 4 /\ j + 1 \in level + 1..4
    <3>1. ChunkSize \in Nat /\ ChunkSize >= 1
      BY ChunkSizes
    <3>2. j # 4
      BY <3>1, <1>2, <1>6
    <3> QED BY <3>2
  <2> DEFINE D == deeper[j + 1][piece]
  <2>2. Cuts(j + 1, deeper[j + 1])
    BY <2>1
  <2>3. /\ D \in Seq(Strings)
        /\ \A c \in Range(D) : Len(c) <= Limit(j + 1)
        /\ Clean(piece, j + 1) => Kept(piece, D)
    BY <2>2 DEF Cuts
  <2>4. b = [chunks |-> Flushed(a) \o D, current |-> <<>>]
    BY <1>6 DEF Added
  <2>5. \A c \in Range(D) : c \in Strings /\ Len(c) <= Limit(level + 1)
    <3>1. Limit(j + 1) <= Limit(level + 1) /\ Limit(j + 1) \in Nat /\ Limit(level + 1) \in Nat
      <4>1. Limit(level + 1) \in Nat /\ \A k \in level + 1..5 : Limit(k) <= Limit(level + 1)
        BY ChunkSizes
      <4>2. j + 1 \in level + 1..5 /\ j \in 1..4
        BY <2>1
      <4>3. Limit(j + 1) \in Nat
        BY <4>2, ChunkSizes
      <4> QED BY <4>1, <4>2, <4>3
    <3>2. \A c \in Range(D) : c \in Strings /\ Len(c) \in Nat
      BY <2>3, LenProperties, StringFacts DEF Range
    <3> HIDE DEF D
    <3> QED BY <3>1, <3>2, <2>3
  <2> HIDE DEF D, b, s
  <2>6. /\ Flushed(a) \o D \in Seq(Strings)
        /\ Range(Flushed(a) \o D) = Range(Flushed(a)) \cup Range(D)
    BY <1>1, <1>3, <2>3, RangeFacts
  <2>7. b.chunks = Flushed(a) \o D /\ b.current = <<>> /\ Flushed(b) = Flushed(a) \o D
    BY <2>4 DEF Flushed
  <2>8. b \in Packs(level)
    <3>1. \A c \in Range(b.chunks) : Len(c) <= Limit(level + 1)
      BY <2>5, <2>6, <2>7, <1>3
    <3>2. Len(b.current) <= ChunkSize /\ b.current \in Strings
      BY <2>7, ChunkSizes DEF Strings
    <3>3. b \in [chunks : Seq(Strings), current : Strings]
      BY <2>4, <2>6, <3>2, <2>7
    <3> QED BY <3>1, <3>2, <3>3 DEF Packs
  <2>9. Covers(Flushed(b), Flushed(a))
    BY <2>6, <2>7, <1>3, CoversIfHeld
  <2>10. Clean(piece, j + 1) => Kept(piece, Flushed(b))
    <3>1. Covers(Flushed(b), D)
      BY <2>3, <2>6, <2>7, CoversIfHeld
    <3> QED BY <3>1, <2>3, <2>6, <2>7, CoversKeeps
  <2> QED BY <2>1, <2>8, <2>9, <2>10
<1>7. CASE ~Fits(a.current, s, piece) /\ ~(Len(piece) > ChunkSize /\ level < Len(Separators))
  <2>1. b = [chunks |-> Flushed(a), current |-> piece]
    BY <1>7 DEF Added
  <2>2. Len(piece) <= ChunkSize
    <3>1. CASE level < 4
      BY <3>1, <1>7, <1>2, ChunkSizes, SeparatorFacts
    <3>2. CASE level = 4
      BY <3>2, <1>2, ChunkSizes
    <3> QED BY <3>1, <3>2
  <2> HIDE DEF b, s
  <2>3. b \in Packs(level) /\ b.chunks = Flushed(a) /\ b.current = piece
    BY <2>1, <2>2, <1>3 DEF Packs
  <2>4. /\ Flushed(b) \in Seq(Strings) /\ Range(Flushed(a)) \subseteq Range(Flushed(b))
        /\ piece # <<>> => piece \in Range(Flushed(b))
    BY <2>3, FlushedFacts
  <2>5. Covers(Flushed(b), Flushed(a))
    BY <2>4, <1>3, CoversIfHeld
  <2>6. Kept(piece, Flushed(b))
    BY <2>4, HoldsItself, KeptWithin
  <2> QED BY <2>3, <2>5, <2>6
<1> QED BY <1>5, <1>6, <1>7

\* The loop over the pieces, one after the other.
LEMMA Packing ==
  ASSUME NEW level \in 1..4, NEW j \in level..4, NEW deeper,
         \A k \in level + 1..4 : Cuts(k, deeper[k]),
         NEW pieces \in Seq(Strings),
         \A i \in DOMAIN pieces : j = 4 => Len(pieces[i]) <= 1
  PROVE  \E pack \in [0..Len(pieces) -> Packs(level)] :
            /\ Packed(pieces, j, level, deeper) = pack[Len(pieces)]
            /\ pack[0] = [chunks |-> <<>>, current |-> <<>>]
            /\ \A i \in 1..Len(pieces) :
                  pack[i] = Added(pack[i - 1], pieces[i], j, level, deeper)
<1> DEFINE n == Len(pieces)
           e == [chunks |-> <<>>, current |-> <<>>]
           Add(a, i) == Added(a, pieces[i], j, level, deeper)
           step == [i \in 1..n |-> [a \in Packs(level) |-> Add(a, i)]]
           Made(g) == g = [i \in 0..n |-> IF i = 0 THEN e ELSE Added(g[i - 1], pieces[i], j, level, deeper)]
           h == CHOOSE g : Made(g)
<1>1. n \in Nat /\ \A i \in 1..n : pieces[i] \in Strings /\ i \in DOMAIN pieces
  BY LenProperties
<1>2. e \in Packs(level)
  <2>1. e \in [chunks : Seq(Strings), current : Strings]
    BY DEF Strings
  <2>2. \A c \in Range(e.chunks) : Len(c) <= Limit(level + 1)
    BY DEF Range
  <2>3. Len(e.current) <= ChunkSize
    BY ChunkSizes
  <2> HIDE DEF e
  <2> QED BY <2>1, <2>2, <2>3 DEF Packs
<1>3. \A i \in 1..n : \A a \in Packs(level) : Add(a, i) \in Packs(level)
  BY <1>1, AddedPacks
<1>4. step \in [1..n -> [Packs(level) -> Packs(level)]]
  <2> HIDE DEF Add
  <2> QED BY <1>3
<1>5. PICK g \in [0..n -> Packs(level)] : Iterates(g, n, e, step)
  <2> HIDE DEF step, e, n
  <2> QED BY <1>1, <1>2, <1>4, Iteration
<1>6. Made(g)
  <2>1. ASSUME NEW i \in 1..n PROVE step[i][g[i - 1]] = Add(g[i - 1], i)
    <3>1. i - 1 \in 0..n /\ g[i - 1] \in Packs(level)
      BY <1>1
    <3> HIDE DEF Add
    <3> QED BY <3>1
  <2>2. ASSUME NEW i \in 0..n
        PROVE  g[i] = IF i = 0 THEN e ELSE Add(g[i - 1], i)
    <3> HIDE DEF step, e, Add
    <3> QED BY <2>1, <1>1, <1>5 DEF Iterates
  <2> HIDE DEF step, e, n
  <2> QED BY <2>2
<1>7. Made(h)
  <2> HIDE DEF Made
  <2> QED BY <1>6
<1>8. Packed(pieces, j, level, deeper) = h[n]
  BY DEF Packed
<1>9. DOMAIN h = 0..n /\ h[0] = e /\ \A i \in 1..n : h[i] = Add(h[i - 1], i)
  <2> HIDE DEF h, e, n
  <2> QED BY <1>7, <1>1
<1>10. 0..n \subseteq {i \in 0..n : h[i] \in Packs(level)}
  <2> HIDE DEF h, e, Add
  <2>1. 0 \in {i \in 0..n : h[i] \in Packs(level)}
    BY <1>1, <1>9, <1>2
  <2>2. ASSUME NEW i \in 1..n, i - 1 \in {k \in 0..n : h[k] \in Packs(level)}
        PROVE  i \in {k \in 0..n : h[k] \in Packs(level)}
    BY <1>1, <1>9, <2>2, <1>3
  <2> QED BY <1>1, <2>1, <2>2, UpTo
<1>11. h \in [0..n -> Packs(level)]
  <2> HIDE DEF h, e, n, Made
  <2>1. h = [i \in 0..n |-> h[i]]
    BY <1>7 DEF Made
  <2> QED BY <1>9, <1>10, <2>1
<1> HIDE DEF h
<1> QED BY <1>8, <1>9, <1>11

\* After the loop every piece is kept.
LEMMA PackedKeeps ==
  ASSUME NEW level \in 1..4, NEW j \in level..4, NEW deeper,
         \A k \in level + 1..4 : Cuts(k, deeper[k]),
         NEW pieces \in Seq(Strings),
         \A i \in DOMAIN pieces : j = 4 => Len(pieces[i]) <= 1
  PROVE  LET a == Packed(pieces, j, level, deeper) IN
         /\ a \in Packs(level)
         /\ (\A i \in DOMAIN pieces : j < 4 => Clean(pieces[i], j + 1))
               => \A i \in DOMAIN pieces : Kept(pieces[i], Flushed(a))
<1> DEFINE n == Len(pieces)
<1>1. n \in Nat /\ DOMAIN pieces = 1..n /\ \A i \in 1..n : pieces[i] \in Strings
  BY LenProperties
<1>2. PICK pack \in [0..n -> Packs(level)] :
         /\ Packed(pieces, j, level, deeper) = pack[n]
         /\ \A i \in 1..n : pack[i] = Added(pack[i - 1], pieces[i], j, level, deeper)
  <2>1. \E pack \in [0..Len(pieces) -> Packs(level)] :
           /\ Packed(pieces, j, level, deeper) = pack[Len(pieces)]
           /\ \A i \in 1..Len(pieces) :
                 pack[i] = Added(pack[i - 1], pieces[i], j, level, deeper)
    BY Packing, ZenonT(30)
  <2> QED BY <2>1
<1> HIDE DEF n
<1>3. pack[n] \in Packs(level)
  <2>1. n \in 0..n
    BY <1>1
  <2> QED BY <2>1
<1>4. ASSUME \A i \in DOMAIN pieces : j < 4 => Clean(pieces[i], j + 1)
      PROVE  \A i \in 1..n : Kept(pieces[i], Flushed(pack[n]))
  <2> DEFINE S == {k \in 0..n : \A i \in 1..k : Kept(pieces[i], Flushed(pack[k]))}
  <2>1. 0 \in S
    BY <1>1
  <2>2. ASSUME NEW k \in 1..n, k - 1 \in S PROVE k \in S
    <3>1. k - 1 \in 0..n /\ pack[k - 1] \in Packs(level) /\ pack[k] \in Packs(level)
      BY <1>1
    <3>2. /\ Covers(Flushed(pack[k]), Flushed(pack[k - 1]))
          /\ Kept(pieces[k], Flushed(pack[k]))
      <4>1. pieces[k] \in Strings /\ (j = 4 => Len(pieces[k]) <= 1) /\ (j < 4 => Clean(pieces[k], j + 1))
        BY <1>1, <1>4
      <4>2. j < 4 \/ j = 4
        OBVIOUS
      <4> QED BY <4>1, <4>2, <3>1, <1>2, AddedPacks
    <3>3. Flushed(pack[k]) \in Seq(Strings) /\ Flushed(pack[k - 1]) \in Seq(Strings)
      BY <3>1, FlushedFacts
    <3>4. ASSUME NEW i \in 1..k - 1 PROVE Kept(pieces[i], Flushed(pack[k]))
      <4>1. i \in 1..n /\ pieces[i] \in Strings /\ Kept(pieces[i], Flushed(pack[k - 1]))
        BY <1>1, <2>2
      <4> QED BY <4>1, <3>2, <3>3, CoversKeeps
    <3>5. \A i \in 1..k : i \in 1..k - 1 \/ i = k
      BY <1>1
    <3> QED BY <3>2, <3>4, <3>5
  <2> HIDE DEF S
  <2>3. 0..n \subseteq S
    BY <1>1, <2>1, <2>2, UpTo
  <2> QED BY <2>3, <1>1 DEF S
<1> QED BY <1>1, <1>2, <1>3, <1>4

\* applyOverlap puts something before a chunk and takes nothing away.
LEMMA OverlappedFacts ==
  ASSUME NEW C \in Seq(Strings), NEW limit \in Nat, \A c \in Range(C) : Len(c) <= limit
  PROVE  /\ Overlapped(C) \in Seq(Strings)
         /\ \A c \in Range(Overlapped(C)) : Len(c) <= limit + ChunkOverlap
         /\ Covers(Overlapped(C), C)
<1> DEFINE D == Overlapped(C)
           From(p) == IF Len(p) > ChunkOverlap THEN Len(p) - ChunkOverlap + 1 ELSE 1
           Tail2(i) == SubSeq(C[i - 1], From(C[i - 1]), Len(C[i - 1]))
<1>1. /\ Len(C) \in Nat /\ DOMAIN C = 1..Len(C)
      /\ \A i \in 1..Len(C) : C[i] \in Strings /\ C[i] \in Range(C)
      /\ ChunkOverlap \in Nat
  BY LenProperties, ChunkSizes DEF Range
<1>2. /\ DOMAIN D = 1..Len(C)
      /\ \A i \in 1..Len(C) : D[i] = IF i = 1 THEN C[i] ELSE Tail2(i) \o C[i]
  BY <1>1 DEF Overlapped
<1> HIDE DEF D
<1>3. ASSUME NEW i \in 1..Len(C), i # 1
      PROVE  Tail2(i) \in Strings /\ Len(Tail2(i)) \in 0..ChunkOverlap
  <2> DEFINE p == C[i - 1]
  <2>1. i - 1 \in 1..Len(C) /\ p \in Strings
    BY <1>1, <1>3
  <2>2. Len(p) \in Nat
    BY <2>1, StringFacts
  <2> HIDE DEF p
  <2>3. /\ From(p) \in 1..Len(p) + 1 /\ Len(p) \in 0..Len(p)
        /\ (IF From(p) <= Len(p) THEN Len(p) - From(p) + 1 ELSE 0) \in 0..ChunkOverlap
    BY <2>2, <1>1
  <2> HIDE DEF From
  <2> QED BY <2>1, <2>3, Part DEF p
<1> HIDE DEF Tail2
<1>4. ASSUME NEW i \in 1..Len(C)
      PROVE  /\ D[i] \in Strings /\ Len(D[i]) <= limit + ChunkOverlap
             /\ C[i] # <<>> => Holds(D[i], C[i], 1, Len(C[i]))
  <2>1. C[i] \in Strings /\ Len(C[i]) \in Nat /\ Len(C[i]) <= limit
    BY <1>1, StringFacts
  <2>2. CASE i = 1
    BY <2>1, <2>2, <1>1, <1>2, HoldsItself
  <2>3. CASE i # 1
    <3>1. D[i] = Tail2(i) \o C[i] /\ Tail2(i) \in Strings /\ Len(Tail2(i)) \in 0..ChunkOverlap
      BY <2>3, <1>2, <1>3
    <3>2. /\ D[i] \in Strings /\ Len(D[i]) = Len(Tail2(i)) + Len(C[i])
          /\ C[i] # <<>> => Holds(D[i], C[i], 1, Len(C[i]))
      BY <3>1, <2>1, ConcatHolds
    <3> QED BY <3>1, <3>2, <2>1, <1>1
  <2> QED BY <2>2, <2>3
<1>5. D \in Seq(Strings)
  <2>1. D = [i \in 1..Len(C) |-> D[i]]
    BY DEF D, Overlapped
  <2> QED BY <2>1, <1>1, <1>2, <1>4
<1>6. Covers(D, C)
  <2>1. \A c \in Range(C) : \E i \in 1..Len(C) : c = C[i]
    BY <1>1 DEF Range
  <2>2. \A i \in 1..Len(C) : D[i] \in Range(D)
    BY <1>2 DEF Range
  <2> QED BY <2>1, <2>2, <1>4 DEF Covers
<1>7. \A c \in Range(D) : Len(c) <= limit + ChunkOverlap
  BY <1>2, <1>4 DEF Range
<1> QED BY <1>5, <1>6, <1>7 DEF D

-----------------------------------------------------------------------------
(* One call of splitText. *)

\* What a piece is a part of has the separators that it has.
LEMMA PartsAreFree ==
  ASSUME NEW chars \in Strings, NEW p \in Strings, NEW s \in Seq(Kinds),
         NEW o \in 0..Len(chars), PartAt(p, chars, o), Free(chars, s)
  PROVE  Free(p, s)
<1>1. /\ Len(chars) \in Nat /\ DOMAIN chars = 1..Len(chars)
      /\ Len(p) \in Nat /\ DOMAIN p = 1..Len(p)
      /\ Len(s) \in Nat /\ DOMAIN s = 1..Len(s)
  BY StringFacts, LenProperties
<1>2. o + Len(p) <= Len(chars) /\ \A x \in 1..Len(p) : p[x] = chars[o + x]
  BY DEF PartAt
<1>3. ASSUME NEW i \in DOMAIN p, Occurs(s, p, i) PROVE FALSE
  <2>1. i + Len(s) - 1 <= Len(p) /\ \A k \in 1..Len(s) : p[i + k - 1][1] = s[k]
    BY <1>1, <1>3 DEF Occurs
  <2>2. o + i \in DOMAIN chars /\ (o + i) + Len(s) - 1 <= Len(chars)
    BY <1>1, <1>2, <2>1
  <2>3. ASSUME NEW k \in 1..Len(s) PROVE chars[(o + i) + k - 1][1] = s[k]
    <3>1. i + k - 1 \in 1..Len(p) /\ o + (i + k - 1) = (o + i) + k - 1
      BY <1>1, <2>1
    <3> QED BY <3>1, <1>2, <2>1
  <2>4. Occurs(s, chars, o + i)
    BY <1>1, <2>2, <2>3 DEF Occurs
  <2> QED BY <2>2, <2>4 DEF Free
<1> QED BY <1>3 DEF Free

\* A piece has no separator up to the one it was split at, so the level below
\* may be asked to cut it.
LEMMA PiecesAreClean ==
  ASSUME NEW chars \in Strings, NEW level \in 1..4, NEW j \in level..3, Clean(chars, level),
         \A k \in level..j - 1 : Free(chars, Separators[k]),
         NEW pieces \in Seq(Strings), Split(pieces, chars, Separators[j]),
         NEW n \in DOMAIN pieces
  PROVE  Clean(pieces[n], j + 1)
<1>1. pieces[n] \in Strings
  BY LenProperties
<1>2. Free(pieces[n], Separators[j]) /\ \E o \in 0..Len(chars) : PartAt(pieces[n], chars, o)
  BY DEF Split
<1>3. ASSUME NEW k \in 1..j PROVE Free(pieces[n], Separators[k])
  <2>1. CASE k = j
    BY <2>1, <1>2
  <2>2. CASE k # j
    <3>1. Free(chars, Separators[k])
      <4>1. k \in 1..level - 1 \/ k \in level..j - 1
        BY <2>2
      <4> QED BY <4>1 DEF Clean
    <3>2. Separators[k] \in Seq(Kinds)
      BY SeparatorFacts
    <3> QED BY <3>1, <3>2, <1>1, <1>2, PartsAreFree
  <2> QED BY <2>1, <2>2
<1>4. (j + 1) - 1 = j
  OBVIOUS
<1> QED BY <1>3, <1>4 DEF Clean

\* Without a separator there is one word, and it is longer than a chunk: its
\* characters are kept, one by one.
LEMMA LettersKept ==
  ASSUME NEW chars \in Strings, Len(chars) > ChunkSize,
         \A k \in 1..3 : Free(chars, Separators[k]),
         NEW C \in Seq(Strings), \A i \in DOMAIN chars : Kept(<<chars[i]>>, C)
  PROVE  Kept(chars, C)
<1>1. Len(chars) \in Nat /\ DOMAIN chars = 1..Len(chars) /\ \A i \in 1..Len(chars) : chars[i] \in Characters
  BY StringFacts
<1>2. ASSUME NEW i \in 1..Len(chars) PROVE chars[i][1] = "word"
  <2>1. chars[i][1] \in Kinds
    BY <1>1 DEF Characters
  <2>2. ASSUME NEW k \in {2, 3}, chars[i][1] = Separators[k][1] PROVE FALSE
    <3>1. Len(Separators[k]) = 1 /\ \A m \in DOMAIN Separators[k] : m = 1
      <4>1. Separators[2] = <<"newline">> /\ Separators[3] = <<"space">>
        BY SeparatorFacts
      <4>2. \A x : Len(<<x>>) = 1 /\ \A m \in DOMAIN <<x>> : m = 1
        OBVIOUS
      <4> QED BY <4>1, <4>2, Zenon
    <3>2. i + 1 - 1 = i
      BY <1>1
    <3>3. Occurs(Separators[k], chars, i)
      BY <1>1, <2>2, <3>1, <3>2 DEF Occurs
    <3> QED BY <1>1, <3>3 DEF Free
  <2>3. Separators[2][1] = "newline" /\ Separators[3][1] = "space"
    BY DEF Separators
  <2> QED BY <2>1, <2>2, <2>3 DEF Kinds
<1>3. ASSUME NEW w \in Words(chars)
      PROVE  /\ ~(w[2] - w[1] < ChunkSize)
             /\ \A i \in w[1]..w[2] : i \in 1..Len(chars)
  <2>1. /\ w[1] \in 1..Len(chars) /\ w[2] \in 1..Len(chars) /\ w[1] <= w[2]
        /\ w[1] > 1 => chars[w[1] - 1][1] # "word"
        /\ w[2] < Len(chars) => chars[w[2] + 1][1] # "word"
    BY <1>1 DEF Words
  <2>2. w[1] > 1 => w[1] - 1 \in 1..Len(chars)
    BY <2>1, <1>1
  <2>3. w[2] < Len(chars) => w[2] + 1 \in 1..Len(chars)
    BY <2>1, <1>1
  <2>4. w[1] = 1 /\ w[2] = Len(chars)
    BY <2>1, <2>2, <2>3, <1>1, <1>2
  <2> QED BY <2>4, <1>1, ChunkSizes
<1>4. ASSUME NEW i \in 1..Len(chars) PROVE \E c \in Range(C) : Holds(c, chars, i, i)
  <2> DEFINE p == <<chars[i]>>
  <2>1. p \in Strings /\ Len(p) = 1 /\ DOMAIN p = 1..1 /\ p[1] = chars[i] /\ chars[i][1] = "word"
    BY <1>1, <1>2 DEF Strings
  <2>2. Kept(p, C)
    BY <1>1
  <2> HIDE DEF p
  <2>3. <<1, 1>> \in Words(p)
    BY <2>1 DEF Words
  <2>4. PICK c \in Range(C) : Holds(c, p, 1, 1)
    <3>1. 1 - 1 < ChunkSize
      BY ChunkSizes
    <3> QED BY <2>2, <2>3, <3>1 DEF Kept
  <2>5. c \in Strings
    BY LenProperties DEF Range
  <2>6. PICK k \in DOMAIN c : k + 1 - 1 \in DOMAIN c /\ \A x \in 1..1 : c[k + x - 1] = p[x]
    BY <2>4 DEF Holds
  <2>7. k \in Int
    BY <2>5, StringFacts
  <2>8. k + 1 - 1 = k /\ k + i - i = k
    BY <2>7, <1>1
  <2>9. c[k] = chars[i]
    BY <2>1, <2>6, <2>8
  <2>10. Holds(c, chars, i, i)
    BY <2>8, <2>9 DEF Holds
  <2> QED BY <2>10
<1> QED BY <1>3, <1>4 DEF Kept

\* One call of splitText, given the calls it makes.
LEMMA CutFacts ==
  ASSUME NEW level \in 1..4, NEW deeper, \A k \in level + 1..4 : Cuts(k, deeper[k]),
         NEW chars \in Strings
  PROVE  LET D == Cut(chars, level, deeper) IN
         /\ D \in Seq(Strings)
         /\ \A c \in Range(D) : Len(c) <= Limit(level)
         /\ Clean(chars, level) => Kept(chars, D)
<1>1. /\ ChunkSize \in Nat /\ ChunkSize >= 1 /\ Len(chars) \in Nat
      /\ Limit(level + 1) \in Nat /\ ChunkSize <= Limit(level + 1)
      /\ Limit(level) = Limit(level + 1) + ChunkOverlap /\ ChunkOverlap \in Nat
  BY ChunkSizes, StringFacts
<1>2. CASE Len(chars) <= ChunkSize
  <2>1. Cut(chars, level, deeper) = <<chars>>
    BY <1>2 DEF Cut
  <2>2. <<chars>> \in Seq(Strings) /\ Range(<<chars>>) = {chars}
    <3>1. <<>> \in Seq(Strings)
      OBVIOUS
    <3> QED BY <3>1, RangeFacts
  <2>3. Len(chars) <= Limit(level)
    BY <1>1, <1>2
  <2>4. Kept(chars, <<chars>>)
    BY <2>2, HoldsItself, KeptWithin
  <2> QED BY <2>1, <2>2, <2>3, <2>4
<1>3. CASE ~(Len(chars) <= ChunkSize)
  <2> DEFINE j == FirstFound(level, chars)
             pieces == Pieces(chars, Separators[j])
             a == Packed(pieces, j, level, deeper)
             D == Overlapped(Flushed(a))
  <2>1. Cut(chars, level, deeper) = D
    BY <1>3 DEF Cut, Finished
  <2>2. chars # <<>>
    BY <1>1, <1>3
  <2>3. j \in level..4 /\ \A k \in level..j - 1 : Free(chars, Separators[k])
    BY <2>2, SeparatorFound
  <2> HIDE DEF j
  <2>4. pieces \in Seq(Strings) /\ \A i \in DOMAIN pieces : j = 4 => Len(pieces[i]) <= 1
    <3>1. CASE j = 4
      <4>1. pieces = Pieces(chars, Separators[4])
        BY <3>1
      <4> HIDE DEF pieces
      <4>2. pieces \in Seq(Strings) /\ \A i \in DOMAIN pieces : pieces[i] = <<chars[i]>>
        BY <4>1, PiecesSingle
      <4>3. \A i \in DOMAIN pieces : Len(<<chars[i]>>) = 1
        OBVIOUS
      <4>4. \A i \in DOMAIN pieces : Len(pieces[i]) = 1
        BY <4>2, <4>3, Zenon
      <4>5. \A x : x = 1 => x <= 1
        OBVIOUS
      <4> QED BY <4>2, <4>4, <4>5, Zenon
    <3>2. CASE j # 4
      <4>1. j \in 1..3
        BY <2>3, <3>2
      <4> QED BY <4>1, <3>2, PiecesSplit
    <3> QED BY <3>1, <3>2
  <2> HIDE DEF pieces
  <2>5. /\ a \in Packs(level)
        /\ (\A i \in DOMAIN pieces : j < 4 => Clean(pieces[i], j + 1))
              => \A i \in DOMAIN pieces : Kept(pieces[i], Flushed(a))
    BY <2>3, <2>4, PackedKeeps
  <2> HIDE DEF a
  <2>6. Flushed(a) \in Seq(Strings) /\ \A c \in Range(Flushed(a)) : Len(c) <= Limit(level + 1)
    BY <2>5, FlushedFacts
  <2>7. /\ D \in Seq(Strings) /\ \A c \in Range(D) : Len(c) <= Limit(level + 1) + ChunkOverlap
        /\ Covers(D, Flushed(a))
    BY <2>6, <1>1, OverlappedFacts
  <2>8. ASSUME Clean(chars, level) PROVE Kept(chars, Flushed(a))
    <3>1. CASE j = 4
      <4>1. \A i \in DOMAIN chars : Kept(<<chars[i]>>, Flushed(a))
        <5>1. pieces = Pieces(chars, Separators[4])
          BY <3>1 DEF pieces
        <5>2. DOMAIN pieces = DOMAIN chars /\ \A i \in DOMAIN chars : pieces[i] = <<chars[i]>>
          BY <5>1, PiecesSingle
        <5>3. \A i \in DOMAIN pieces : Kept(pieces[i], Flushed(a))
          BY <2>5, <3>1
        <5> QED BY <5>2, <5>3
      <4>2. ASSUME NEW k \in 1..3 PROVE Free(chars, Separators[k])
        <5>1. k \in 1..level - 1 \/ k \in level..j - 1
          BY <3>1
        <5> QED BY <5>1, <2>3, <2>8 DEF Clean
      <4>3. Len(chars) > ChunkSize
        BY <1>1, <1>3
      <4> QED BY <4>1, <4>2, <4>3, <2>6, LettersKept
    <3>2. CASE j # 4
      <4>1. j \in 1..3 /\ j \in level..3
        BY <2>3, <3>2
      <4>2. /\ Split(pieces, chars, Separators[j])
            /\ \A w \in Words(chars) : \E n \in DOMAIN pieces : Has(pieces[n], chars, w)
        BY <4>1, PiecesSplit DEF pieces
      <4>3. \A n \in DOMAIN pieces : Clean(pieces[n], j + 1)
        BY <4>1, <4>2, <2>3, <2>4, <2>8, PiecesAreClean
      <4>4. \A n \in DOMAIN pieces : Kept(pieces[n], Flushed(a))
        BY <4>3, <2>5
      <4> QED BY <4>2, <4>4, <2>4, <2>6, PiecesKeep
    <3> QED BY <3>1, <3>2
  <2>9. Clean(chars, level) => Kept(chars, D)
    <3> HIDE DEF D
    <3> QED BY <2>6, <2>7, <2>8, CoversKeeps
  <2> HIDE DEF D
  <2> QED BY <2>1, <2>7, <2>9, <1>1
<1> QED BY <1>2, <1>3

\* ... as a function of the text.
LEMMA CutCuts ==
  ASSUME NEW level \in 1..4, NEW deeper, \A k \in level + 1..4 : Cuts(k, deeper[k])
  PROVE  Cuts(level, [chars \in Seq(Characters) |-> Cut(chars, level, deeper)])
<1> DEFINE f == [chars \in Strings |-> Cut(chars, level, deeper)]
<1>1. f \in [Strings -> Seq(Strings)]
  BY CutFacts
<1>2. \A chars \in Strings : f[chars] = Cut(chars, level, deeper)
  OBVIOUS
<1> HIDE DEF f
<1>3. Cuts(level, f)
  BY <1>1, <1>2, CutFacts DEF Cuts
<1> QED BY <1>3 DEF f, Strings

-----------------------------------------------------------------------------
(* All the levels, and the theorems. *)

\* The cuts at a level, given those at the levels below it.
Row(level, f) ==
    [chars \in Seq(Characters) |->
        Cut(chars, level, [k \in level + 1..Len(Separators) |-> f[k]])]

\* A level depends on those below it alone.
LEMMA RowsAgree ==
  ASSUME NEW level \in 1..4, NEW f, NEW g, \A k \in level + 1..4 : f[k] = g[k]
  PROVE  Row(level, f) = Row(level, g)
<1>1. Len(Separators) = 4
  BY SeparatorFacts
<1>2. [k \in level + 1..Len(Separators) |-> f[k]] = [k \in level + 1..Len(Separators) |-> g[k]]
  BY <1>1
<1> QED BY <1>2 DEF Row

\* The levels are finitely many: splitText is defined for each.
LEMMA SplitTextRows ==
  /\ DOMAIN SplitText = 1..4
  /\ \A level \in 1..4 : SplitText[level] = Row(level, SplitText)
<1> DEFINE Made(f) == f = [level \in Levels |-> Row(level, f)]
           r4 == Row(4, <<>>)
           e3 == [k \in 1..4 |-> r4]
           r3 == Row(3, e3)
           e2 == [k \in 1..4 |-> IF k = 4 THEN r4 ELSE r3]
           r2 == Row(2, e2)
           e1 == [k \in 1..4 |-> IF k = 4 THEN r4 ELSE IF k = 3 THEN r3 ELSE r2]
           r1 == Row(1, e1)
           f == [k \in 1..4 |-> IF k = 4 THEN r4 ELSE IF k = 3 THEN r3
                                ELSE IF k = 2 THEN r2 ELSE r1]
<1>1. /\ e3[4] = r4 /\ e2[4] = r4 /\ e2[3] = r3 /\ e1[4] = r4 /\ e1[3] = r3 /\ e1[2] = r2
      /\ f[4] = r4 /\ f[3] = r3 /\ f[2] = r2 /\ f[1] = r1
  <2> HIDE DEF r1, r2, r3, r4
  <2> QED OBVIOUS
<1> HIDE DEF f
<1>2. Row(4, f) = r4
  <2>1. \A k \in 4 + 1..4 : FALSE
    OBVIOUS
  <2> QED BY <2>1, RowsAgree
<1>3. Row(3, f) = r3
  <2>1. \A k \in 3 + 1..4 : k = 4
    OBVIOUS
  <2> HIDE DEF r1, r2, r4, e3
  <2> QED BY <1>1, <2>1, RowsAgree
<1>4. Row(2, f) = r2
  <2>1. \A k \in 2 + 1..4 : k = 3 \/ k = 4
    OBVIOUS
  <2> HIDE DEF r1, r3, r4, e2
  <2> QED BY <1>1, <2>1, RowsAgree
<1>5. Row(1, f) = r1
  <2>1. \A k \in 1 + 1..4 : k = 2 \/ k = 3 \/ k = 4
    OBVIOUS
  <2> HIDE DEF r2, r3, r4, e1
  <2> QED BY <1>1, <2>1, RowsAgree
<1> HIDE DEF r1, r2, r3, r4
<1>6. Made(f)
  <2>1. \A k \in 1..4 : f[k] = Row(k, f)
    <3>1. \A k \in 1..4 : k = 1 \/ k = 2 \/ k = 3 \/ k = 4
      OBVIOUS
    <3> QED BY <3>1, <1>1, <1>2, <1>3, <1>4, <1>5
  <2>2. f = [k \in 1..4 |-> f[k]]
    BY DEF f
  <2>3. f = [k \in 1..4 |-> Row(k, f)]
    BY <2>1, <2>2
  <2> QED BY <2>3, SeparatorFacts
<1>7. SplitText = CHOOSE g : Made(g)
  BY DEF SplitText, Row
<1>8. Made(SplitText)
  <2> HIDE DEF Made
  <2> QED BY <1>6, <1>7
<1>9. SplitText = [level \in 1..4 |-> Row(level, SplitText)]
  BY <1>8, SeparatorFacts
<1> QED BY <1>9

\* Down the levels, from the last to the first.
LEMMA SplitTextCuts == \A level \in 1..4 : Cuts(level, SplitText[level])
<1>1. ASSUME NEW level \in 1..4, \A k \in level + 1..4 : Cuts(k, SplitText[k])
      PROVE  Cuts(level, SplitText[level])
  <2> DEFINE deeper == [k \in level + 1..Len(Separators) |-> SplitText[k]]
  <2>1. \A k \in level + 1..4 : Cuts(k, deeper[k])
    BY <1>1, SeparatorFacts
  <2>2. SplitText[level] = [chars \in Seq(Characters) |-> Cut(chars, level, deeper)]
    BY SplitTextRows DEF Row
  <2> HIDE DEF deeper
  <2> QED BY <2>1, <2>2, CutCuts
<1>2. Cuts(4, SplitText[4])
  <2>1. \A k \in 4 + 1..4 : FALSE
    OBVIOUS
  <2> QED BY <2>1, <1>1
<1>3. Cuts(3, SplitText[3])
  <2>1. \A k \in 3 + 1..4 : k = 4
    OBVIOUS
  <2> QED BY <2>1, <1>1, <1>2
<1>4. Cuts(2, SplitText[2])
  <2>1. \A k \in 2 + 1..4 : k = 3 \/ k = 4
    OBVIOUS
  <2> QED BY <2>1, <1>1, <1>2, <1>3
<1>5. Cuts(1, SplitText[1])
  <2>1. \A k \in 1 + 1..4 : k = 2 \/ k = 3 \/ k = 4
    OBVIOUS
  <2> QED BY <2>1, <1>1, <1>2, <1>3, <1>4
<1>6. \A k \in 1..4 : k = 1 \/ k = 2 \/ k = 3 \/ k = 4
  OBVIOUS
<1> QED BY <1>2, <1>3, <1>4, <1>5, <1>6

\* Every text, of any length: what it is cut into has no chunk beyond ChunkSize
\* and four overlaps, and loses or tears no word.
THEOREM TextsAreCut ==
  ASSUME NEW chars \in Seq(Characters)
  PROVE  /\ Kept(chars, ChunkText(chars))
         /\ \A c \in Range(ChunkText(chars)) :
               Len(c) <= ChunkSize + Len(Separators) * ChunkOverlap
<1>1. chars \in Strings /\ Cuts(1, SplitText[1])
  BY SplitTextCuts DEF Strings
<1>2. Clean(chars, 1)
  BY DEF Clean
<1>3. Limit(1) = ChunkSize + Len(Separators) * ChunkOverlap
  BY SeparatorFacts DEF Limit
<1> QED BY <1>1, <1>2, <1>3 DEF Cuts, ChunkText

\* The text is chosen once and for all.
LEMMA TextStays == Spec => [](text \in Seq(Characters))
<1>1. Init => text \in Seq(Characters)
  <2>1. ASSUME NEW n \in 0..MaxLength, NEW kind \in [1..n -> Kinds]
        PROVE  [i \in 1..n |-> <<kind[i], i>>] \in Seq(Characters)
    <3>1. n \in Nat
      BY ChunkingAssumption
    <3>2. [i \in 1..n |-> <<kind[i], i>>] \in [1..n -> Characters]
      BY <3>1 DEF Characters
    <3> QED BY <3>1, <3>2
  <2>2. ASSUME text \in Texts PROVE text \in Seq(Characters)
    <3>1. PICK n \in 0..MaxLength :
             text \in {[i \in 1..n |-> <<kind[i], i>>] : kind \in [1..n -> Kinds]}
      BY <2>2 DEF Texts
    <3>2. PICK kind \in [1..n -> Kinds] : text = [i \in 1..n |-> <<kind[i], i>>]
      BY <3>1
    <3> QED BY <2>1, <3>2
  <2> QED BY <2>2 DEF Init, ChunkInit
<1>2. text \in Seq(Characters) /\ [Next]_vars => (text \in Seq(Characters))'
  BY DEF Next, vars
<1> QED BY <1>1, <1>2, PTL DEF Spec

\* No word is lost or torn in cutting the text, whatever the sizes: through
\* every level of splitText and every overlap.
THEOREM WordsKept == Spec => []WordsAreKept
<1>1. text \in Seq(Characters) => WordsAreKept
  BY TextsAreCut DEF WordsAreKept
<1> QED BY <1>1, TextStays, PTL

\* Overlaps laid over overlaps make a chunk at most four overlaps longer.
THEOREM ChunksBounded == Spec => []ChunksAreBounded
<1>1. text \in Seq(Characters) => ChunksAreBounded
  BY TextsAreCut DEF ChunksAreBounded
<1> QED BY <1>1, TextStays, PTL
=============================================================================
