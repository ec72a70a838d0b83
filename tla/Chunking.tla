------------------------------- MODULE Chunking -------------------------------
(***************************************************************************)
(* ChunkingService.chunkText: what a document is cut into before it is       *)
(* embedded.  A character is its kind (of a word, a space, a newline) with   *)
(* its place in the text, so that a chunk says what it is made of; lengths   *)
(* are counted in characters, and the sizes are the service's parameters.    *)
(***************************************************************************)
EXTENDS Naturals, Sequences, SequencesExt

CONSTANTS ChunkSize, ChunkOverlap,
          MaxLength       \* bound: the length of the text

ASSUME ChunkingAssumption ==
    /\ ChunkSize \in Nat \ {0} /\ ChunkOverlap \in Nat \ {0}
    /\ MaxLength \in Nat

VARIABLE text    \* what is to be cut: any text, once and for all

Kinds      == {"word", "space", "newline"}
Characters == Kinds \X Nat

\* In the order they are tried; the last one cuts between any two characters.
Separators == << <<"newline", "newline">>, <<"newline">>, <<"space">>, <<>> >>
Levels     == DOMAIN Separators

Occurs(s, chars, i) ==
    /\ i + Len(s) - 1 <= Len(chars)
    /\ \A k \in DOMAIN s : chars[i + k - 1][1] = s[k]

\* The first separator from a level on that the text contains.
FirstFound(level, chars) ==
    CHOOSE j \in Levels :
        /\ j >= level /\ \E i \in DOMAIN chars : Occurs(Separators[j], chars, i)
        /\ \A k \in level..j - 1 :
              \A i \in DOMAIN chars : ~Occurs(Separators[k], chars, i)

\* The pieces that end before an index, and where the next one starts: it ends
\* where the separator occurs.
Ended(a, chars, s, i) ==
    IF i >= a.from /\ Occurs(s, chars, i)
    THEN [pieces |-> Append(a.pieces, SubSeq(chars, a.from, i - 1)), from |-> i + Len(s)]
    ELSE a

Scanned(chars, s) ==
    LET scan[i \in 0..Len(chars)] ==
            IF i = 0 THEN [pieces |-> <<>>, from |-> 1]
            ELSE Ended(scan[i - 1], chars, s, i)
    IN scan[Len(chars)]

\* text.split(s): what lies between the occurrences, empty or not.
Pieces(chars, s) ==
    IF s = <<>> THEN [i \in DOMAIN chars |-> <<chars[i]>>]
    ELSE LET end == Scanned(chars, s)
         IN Append(end.pieces, SubSeq(chars, end.from, Len(chars)))

\* The separator characters with which pieces that stay together are joined:
\* they have no place of their own, as nothing asks where they came from.
Joined(p, s, q) == IF p = <<>> THEN q
                   ELSE p \o [k \in DOMAIN s |-> <<s[k], 0>>] \o q

MutantPieceForgotten(p, s, q) == Len(p) + Len(s) <= ChunkSize
Fits(p, s, q)                 == Len(p) + Len(s) + Len(q) <= ChunkSize

Flushed(a) == IF a.current = <<>> THEN a.chunks ELSE Append(a.chunks, a.current)

MutantLastDropped(a) == a.chunks
Finished(a)          == Flushed(a)

\* Every chunk but the first starts with the end of the one before it.
Overlapped(chunks) ==
    [i \in DOMAIN chunks |->
        IF i = 1 THEN chunks[i]
        ELSE LET p == chunks[i - 1] IN
             SubSeq(p, IF Len(p) > ChunkOverlap THEN Len(p) - ChunkOverlap + 1 ELSE 1, Len(p))
               \o chunks[i]]

\* A piece is added to the chunk while it fits; one that is too long by itself
\* is cut by the separators that are left.
Added(a, piece, j, level, deeper) ==
    IF Fits(a.current, Separators[j], piece)
    THEN [a EXCEPT !.current = Joined(@, Separators[j], piece)]
    ELSE IF Len(piece) > ChunkSize /\ level < Len(Separators)
    THEN [chunks |-> Flushed(a) \o deeper[j + 1][piece], current |-> <<>>]
    ELSE [chunks |-> Flushed(a), current |-> piece]

Packed(pieces, j, level, deeper) ==
    LET pack[i \in 0..Len(pieces)] ==
            IF i = 0 THEN [chunks |-> <<>>, current |-> <<>>]
            ELSE Added(pack[i - 1], pieces[i], j, level, deeper)
    IN pack[Len(pieces)]

\* One call of splitText, overlaps included, given what the calls with fewer
\* separators return.
Cut(chars, level, deeper) ==
    IF Len(chars) <= ChunkSize THEN <<chars>>
    ELSE LET j == FirstFound(level, chars)
         IN Overlapped(Finished(Packed(Pieces(chars, Separators[j]), j, level, deeper)))

\* splitText, by the separators from a level on.
SplitText[level \in Levels] ==
    [chars \in Seq(Characters) |->
        Cut(chars, level, [k \in level + 1..Len(Separators) |-> SplitText[k]])]

ChunkText(chars) == SplitText[1][chars]

---------------------------------------------------------------------------
(* Properties *)

Texts == UNION {{[i \in 1..n |-> <<kind[i], i>>] : kind \in [1..n -> Kinds]} :
                   n \in 0..MaxLength}

ChunkInit == text \in Texts

Words(chars) ==
    {w \in (DOMAIN chars) \X (DOMAIN chars) :
        /\ w[1] <= w[2]
        /\ \A i \in w[1]..w[2] : chars[i][1] = "word"
        /\ w[1] > 1 => chars[w[1] - 1][1] # "word"
        /\ w[2] < Len(chars) => chars[w[2] + 1][1] # "word"}

\* c holds the characters from i to j, one after the other.
Holds(c, chars, i, j) ==
    \E k \in DOMAIN c : /\ k + j - i \in DOMAIN c
                        /\ \A x \in i..j : c[k + x - i] = chars[x]

Kept(chars, chunks) ==
    \A w \in Words(chars) :
        IF w[2] - w[1] < ChunkSize
        THEN \E c \in Range(chunks) : Holds(c, chars, w[1], w[2])
        ELSE \A i \in w[1]..w[2] : \E c \in Range(chunks) : Holds(c, chars, i, i)

\* Nothing that can be searched for is lost or torn: every word that fits into
\* a chunk is in one as a whole, and of longer words every character is.
WordsAreKept == Kept(text, ChunkText(text))

\* A chunk is longer than ChunkSize by no more than one overlap for every
\* separator there is, although overlaps are laid over overlaps.
ChunksAreBounded ==
    \A c \in Range(ChunkText(text)) :
        Len(c) <= ChunkSize + Len(Separators) * ChunkOverlap
=============================================================================
