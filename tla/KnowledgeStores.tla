--------------------------- MODULE KnowledgeStores ---------------------------
(***************************************************************************)
(* What the agent retrieves from: the chunks of documents and the memories,  *)
(* side by side.  Both keep their vectors in the Embedding table, each in    *)
(* rows of its own, and neither touches the other's.  Chunking says which    *)
(* texts are uncut or blank to the ingestion.                                *)
(***************************************************************************)
EXTENDS DocumentIngestion, MemoryStore, Chunking

vars == <<docVars, memVars, text>>

Init == DocInit /\ MemInit /\ ChunkInit
Next == \/ DocNext /\ UNCHANGED <<memVars, text>>
        \/ MemNext /\ UNCHANGED <<docVars, text>>

\* The event loop goes on with every request and every ingestion that is not
\* lost with its process.
Fairness ==
    /\ \A q \in Requests : WF_docVars(Serve(q))
    /\ \A d \in Documents :
          WF_docVars(\E i \in DOMAIN tasks : tasks[i].doc = d /\ Ingest(i))

Spec     == Init /\ [][Next]_vars
FairSpec == Spec /\ Fairness
=============================================================================
