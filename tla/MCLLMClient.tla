----------------------------- MODULE MCLLMClient -----------------------------
(* An instance of LLMClient for TLC.                                       *)
EXTENDS LLMClient

\* The shortest turn with an answer, and the longest: five claims to condense and a
\* recommendation.
MCTurns ==
  {<<"understand_intent", "synthesize">>,
   <<"understand_intent", "research_models", "research_models", "research_models",
     "research_models", "research_models", "model_recommendation", "synthesize">>}

\* A rate limit, a server error, a refused connection, a bad key, and an SDK exception that
\* carries no status and is none of Python's own.
Raised ==
  {[status |-> 429, builtin |-> FALSE], [status |-> 503, builtin |-> FALSE],
   [status |-> NoStatus, builtin |-> TRUE], [status |-> 401, builtin |-> FALSE],
   [status |-> NoStatus, builtin |-> FALSE]}

\* Outages around the sleeps of one call (3 s), of a minute, of one call's bound (93 s), and
\* longer than any turn.
MCOutages ==
  UNION {[from : {f}, until : {f + n : n \in {0, 1, 2, 3, 4, 5, 60, 92, 93, 94, 1000}}, exc : Raised]
           : f \in {0, 2, 5}}
=============================================================================
