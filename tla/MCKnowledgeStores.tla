------------------------- MODULE MCKnowledgeStores -------------------------
(* TLC instances of KnowledgeStores. *)
EXTENDS KnowledgeStores

CONSTANTS d1, d2, d3, q1, q2, c1, c2, k1, t1, t2

DocBudget(u, r, f) == [uploads |-> u, reindexes |-> r, faults |-> f]
MemBudget(r, f)    == [requests |-> r, faults |-> f]
DocBudgetSet == {DocBudget(0, 0, 0), DocBudget(1, 1, 1), DocBudget(1, 2, 0), DocBudget(2, 0, 0)}
MemBudgetSet == {MemBudget(0, 0), MemBudget(3, 1)}

\* d1 holds a text, d2 nothing but pairs of newlines, longer than a chunk, and d3
\* nothing at all.
TextOf == [d \in Documents |->
              CASE d = d1 -> << <<"word", 1>>, <<"space", 2>>, <<"word", 3>> >>
                [] d = d2 -> [i \in 1..2 * ChunkSize |-> <<"newline", i>>]
                [] d = d3 -> <<>>]
ASSUME BlankAssumption ==
    /\ Uncut = {d \in Documents : ChunkText(TextOf[d]) = <<>>}
    /\ Blank = {d \in Documents : Range(ChunkText(TextOf[d])) \subseteq {<<>>}}

\* The stores share nothing, and cutting a text is one step: it is enough that
\* one store moves on an empty text, or that neither moves on any text.
DocsRest  == docLeft = DocBudget(0, 0, 0)
MemsRest  == memLeft = MemBudget(0, 0)
OneMoves  == IF text = <<>> THEN DocsRest \/ MemsRest ELSE DocsRest /\ MemsRest
MCInit    == Init /\ OneMoves
MCSpec    == MCInit /\ [][Next]_vars /\ Fairness
=============================================================================
