--------------------------- MODULE ResearchGraph ---------------------------
(***************************************************************************)
(* The research-v1 workflow: the state its nodes share, the edges between   *)
(* them and what each node may return.  Language-model answers, retrieval   *)
(* hits and tool outputs are abstracted to what the routing and the         *)
(* properties tell apart: a tool chosen or none, a text or not, an error.   *)
(* The arrays of tool results and observations are kept as their lengths.   *)
(***************************************************************************)
EXTENDS Integers

CONSTANTS Tools,     \* names the tool registry knows
          Gated,     \* the tools declared with requiresApproval
          NoTool,    \* a null pendingToolName
          MaxLoops,  \* maxLoops of the agent state (5 in the code)
          Plans,     \* what a plan may say of retrieval: needed or not
          Texts      \* what an answer of the model may be: empty or a text

ASSUME GraphAssumption ==
    /\ Gated \subseteq Tools
    /\ NoTool \notin Tools
    /\ MaxLoops \in Nat
    /\ Plans \subseteq BOOLEAN
    /\ Texts \subseteq {"empty", "text"}

Nodes == {"plan", "retrieve", "retrieve_memory", "reason",
          "act", "observe", "respond"}

\* response is null, the empty string (falsy, like null) or a text.
AgentState == [needs    : BOOLEAN,
               loop     : Nat,
               results  : Nat,
               observed : Nat,
               pending  : Tools \cup {NoTool},
               response : {"null", "empty", "text"},
               error    : BOOLEAN]

InitialState == [needs |-> FALSE, loop |-> 0, results |-> 0, observed |-> 0,
                 pending |-> NoTool, response |-> "null", error |-> FALSE]

---------------------------------------------------------------------------
(* The conditional edges. *)

MutantUnknownNode(s) == IF s.error THEN "respond" ELSE "retrieval"

AfterPlan(s) ==
    IF s.error THEN "respond"
    ELSE IF s.needs THEN "retrieve" ELSE "retrieve_memory"

MutantOneLoopMore(s) ==
    IF /\ ~s.error
       /\ s.response # "text"
       /\ s.pending # NoTool
       /\ s.loop <= MaxLoops + 1
    THEN "act"
    ELSE "respond"

AfterReason(s) ==
    IF /\ ~s.error
       /\ s.response # "text"
       /\ s.pending # NoTool
       /\ s.loop <= MaxLoops
    THEN "act"
    ELSE "respond"

NextNode(n, s) ==
    CASE n = "plan"            -> AfterPlan(s)
      [] n = "retrieve"        -> "retrieve_memory"
      [] n = "retrieve_memory" -> "reason"
      [] n = "reason"          -> AfterReason(s)
      [] n = "act"             -> "observe"
      [] n = "observe"         -> "reason"
      [] n = "respond"         -> "end"

---------------------------------------------------------------------------
(* What a node may make of the state.  A node returns only the fields it    *)
(* sets; the others keep their value, those of a resumed run included.      *)

Planned(s) ==
    {[s EXCEPT !.needs = b] : b \in Plans}
      \cup {[s EXCEPT !.error = TRUE, !.needs = FALSE]}

\* What is found goes into the prompts only, and a failed search finds nothing.
Retrieved(s) == {s}
Recalled(s)  == {s}

ToolChosen(s) ==
    {[s EXCEPT !.pending = t, !.loop = @ + 1] : t \in Tools}

Answered(s) ==
    {[s EXCEPT !.pending = NoTool, !.loop = @ + 1, !.response = a] :
        a \in Texts}

Reasoned(s) == ToolChosen(s) \cup Answered(s) \cup {[s EXCEPT !.error = TRUE]}

\* The tool's result, or the rejection sentinel, closes the pending call.
Acted(s) == [s EXCEPT !.results = @ + 1, !.pending = NoTool]

\* The last result, if there is one, becomes one more observation.
Observed(s) == IF s.results = 0 THEN s ELSE [s EXCEPT !.observed = @ + 1]

\* A text is kept; otherwise the model is asked once more, or its failure
\* is answered with a fixed text.
Responded(s) ==
    IF s.response = "text" THEN {s}
    ELSE {[s EXCEPT !.response = a] : a \in Texts \cup {"text"}}

\* The nodes whose work is one await on the model or a store and whose
\* effect is on the shared state only.
Outcomes(n, s) ==
    CASE n = "plan"            -> Planned(s)
      [] n = "retrieve"        -> Retrieved(s)
      [] n = "retrieve_memory" -> Recalled(s)
      [] n = "reason"          -> Reasoned(s)
      [] n = "observe"         -> {Observed(s)}
      [] n = "respond"         -> Responded(s)

\* The updates after which the runner saves a checkpoint: every node but
\* reason (WAITING_FOR_APPROVAL is in the list and is no node's name).
CheckpointNodes == {"plan", "retrieve", "retrieve_memory",
                    "act", "observe", "respond", "WAITING_FOR_APPROVAL"}
=============================================================================
