----------------------------- MODULE MCAgentTurn -----------------------------
(* Instances of AgentTurn for TLC.                                         *)
EXTENDS AgentTurn

CONSTANT MaxPlanLength   \* the longest plans over ChainTools that are enumerated

SeqsUpTo(S, n) == UNION {[1..k -> S] : k \in 0..n}

\* The tools that depend on one another's results, and the one that never runs.
CoreTools == {"sentiment_analysis", "summarize_text", "filter_documents",
              "generate_embeddings", "semantic_search", "named_entity_recognition"}

\* The longest chain of results: analyse, filter, follow up.
ChainTools == {"sentiment_analysis", "filter_documents", "summarize_text",
               "named_entity_recognition"}

\* The planning prompt's own chains, and longer plans that reach the limits.
Chains ==
  {<<"sentiment_analysis", "filter_documents", "summarize_text">>,
   <<"generate_embeddings", "semantic_search", "filter_documents", "summarize_text">>,
   <<"profile_dataset", "evaluate_candidates", "research_models", "model_recommendation">>,
   <<"sentiment_analysis", "summarize_text", "filter_documents", "summarize_text",
     "profile_dataset", "model_recommendation">>,
   <<"semantic_search", "generate_embeddings", "semantic_search">>,
   \* as many replanned tools as possible before the iteration limit is used up
   <<"named_entity_recognition", "filter_documents", "text_classification",
     "summarize_text", "generate_embeddings", "semantic_search", "evaluate_candidates",
     "research_models", "sentiment_analysis", "profile_dataset", "model_recommendation",
     "model_recommendation", "model_recommendation">>}

MCPlans ==
  SeqsUpTo(Tools, MaxPlanLength - 2) \cup SeqsUpTo(CoreTools, MaxPlanLength - 1)
    \cup SeqsUpTo(ChainTools, MaxPlanLength) \cup Chains

\* One plan that repeats a tool (a second summary of the filtered documents).
RepeatingPlans ==
  {<<"sentiment_analysis", "summarize_text", "filter_documents", "summarize_text",
     "profile_dataset", "model_recommendation">>}

RecommendationPlans == {<<"profile_dataset", "model_recommendation">>}
=============================================================================
