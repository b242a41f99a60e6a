------------------------------ MODULE AgentTurn ------------------------------
(***************************************************************************)
(* One turn of the agent: run_agent (agent/graph.py) driving AgentState    *)
(* through the five nodes of agent/nodes.py.  A superstep of the graph is  *)
(* a node followed by the conditional edge leaving it, so each action      *)
(* below runs one node and stores in "node" the node that runs next.       *)
(*                                                                         *)
(* Data is abstracted to what planning and routing tell apart.  The query  *)
(* is empty, plain, or names candidate labels; a profile is absent or says *)
(* whether the dataset is labelled; a tool result is the part of it that a *)
(* later tool looks at.  The LLM and the NLP models are external: which    *)
(* plan comes back and whether a call raises is a nondeterministic choice. *)
(***************************************************************************)
EXTENDS ListComprehension

CONSTANTS
  Plans,              \* the plans the LLM may answer with: any sequence of catalogue names
  MaxToolIterations,  \* settings.max_tool_iterations
  RecursionLimit      \* LangGraph's recursion_limit: supersteps before it gives up

\* _ALL_TOOL_NAMES: the names a plan may use.
Tools == {"profile_dataset", "sentiment_analysis", "text_classification",
          "named_entity_recognition", "summarize_text", "generate_embeddings",
          "semantic_search", "filter_documents", "model_recommendation",
          "evaluate_candidates", "research_models"}

ASSUME PlansAssumption == Plans \subseteq Seq(Tools)
ASSUME MaxToolIterationsAssumption == MaxToolIterations \in Nat \ {0}
ASSUME RecursionLimitAssumption == RecursionLimit \in Nat

Nodes == {"understand_intent", "plan_steps", "execute_tool", "synthesize",
          "handle_error", "END", "GraphRecursionError"}
Finished == {"END", "GraphRecursionError"}

Profiles == {"none", "labelled", "unlabelled"}
Corpora  == {"missing", "labelled", "unlabelled"}
Queries  == {"empty", "plain", "names_labels"}

NotRun  == "not_run"
Results == {"done",                                \* nothing later depends on it
            "kept_some", "kept_none",              \* filter_documents: the ids it kept
            "found", "not_found",                  \* research_models: found
            "measured", "skipped",                 \* evaluate_candidates: skipped
            "research_cited", "research_unavailable", "research_not_requested"}

NoError      == [kind |-> "none",   tool |-> NotRun]
TurnError    == [kind |-> "failed", tool |-> NotRun]   \* any message without the prefix
Replan(tool) == [kind |-> "REPLAN", tool |-> tool]     \* "REPLAN:<tool>:<reason>"
Errors       == {NoError, TurnError} \cup {Replan(t) : t \in Tools}

VARIABLES
  node,          \* the node the graph runs next
  query,         \* user_query, fixed for the turn
  corpus,        \* what corpus_store holds for corpus_ref; "missing" after a restart
  indexed,       \* index_exists(corpus_ref)
  profile,       \* AgentState.profile
  plan,          \* AgentState.plan
  step_index,    \* AgentState.step_index
  tool_results,  \* AgentState.tool_results, NotRun where there is no key
  error,         \* AgentState.error
  final_answer,  \* AgentState.final_answer
  steps,         \* LangGraph's superstep counter
  requested      \* history variable: the plan as _parse_plan returned it

vars == <<node, query, corpus, indexed, profile, plan, step_index, tool_results,
          error, final_answer, steps, requested>>

NoAnswer == [kind |-> "none", truncated |-> FALSE]
Answers  == [kind : {"none", "synthesized", "fallback", "error"}, truncated : BOOLEAN]

Executed == {t \in Tools : tool_results[t] # NotRun}
PlannedTools(p) == {p[i] : i \in DOMAIN p}

-----------------------------------------------------------------------------
(* Plan repair: the list comprehension [t for t in plan if t != tool].     *)

Kept(p, tool) == {i \in DOMAIN p : p[i] # tool}

\* Mutants of Without: entries blanked out instead of removed, only the first occurrence
\* removed, the tool moved to the end, a prerequisite inserted before it.
BlankOut(p, tool) == [i \in DOMAIN p |-> IF p[i] = tool THEN NotRun ELSE p[i]]
WithoutFirst(p, tool) ==
  IF tool \notin PlannedTools(p) THEN p
  ELSE LET first == CHOOSE i \in DOMAIN p : p[i] = tool /\ \A j \in 1..(i - 1) : p[j] # tool
       IN  SubSeq(p, 1, first - 1) \o SubSeq(p, first + 1, Len(p))
Requeue(p, tool) == WithoutFirst(p, tool) \o <<tool>>
WithPrerequisite(p, tool) == <<"generate_embeddings">> \o p

Without(p, tool) == Picked(p, Kept(p, tool))

-----------------------------------------------------------------------------
(* What _build_kwargs and the tools demand of the state.                   *)

ReadsCorpus == {"profile_dataset", "sentiment_analysis", "text_classification",
                "summarize_text", "generate_embeddings", "semantic_search",
                "filter_documents"}
RunsModel   == {"sentiment_analysis", "text_classification", "summarize_text",
                "generate_embeddings", "semantic_search", "evaluate_candidates"}

HasLabels    == profile = "labelled"
LabelsKnown  == query = "names_labels" \/ HasLabels
FilterSource == Executed \cap {"sentiment_analysis", "semantic_search"} # {}

\* Arguments that cannot be built: ValueError before anything else is looked at.
Unplannable(tool) ==
  \/ tool = "named_entity_recognition"
  \/ tool = "text_classification" /\ ~LabelsKnown
  \/ tool = "filter_documents" /\ ~FilterSource

\* corpus_store.get raises CorpusNotFoundError, a KeyError and so not a ValueError.
CorpusMissing(tool) ==
  /\ corpus = "missing"
  /\ tool \in ReadsCorpus \/ (tool = "evaluate_candidates" /\ HasLabels)

\* The tool's own precondition fails: a ValueError.
NoIndex(tool)         == tool = "semantic_search" /\ ~indexed
NothingSelected(tool) == tool = "summarize_text" /\ tool_results["filter_documents"] = "kept_none"
Refused(tool)         == NoIndex(tool) \/ NothingSelected(tool)

\* Inference is skipped when evaluate_candidates finds no labels in the profile.
Infers(tool) == tool \in RunsModel /\ (tool = "evaluate_candidates" => HasLabels)

\* Tools that build a Pydantic model from an external answer outside their try blocks:
\* Evidence(...) from a search result, ModelRecommendationOutput(...) from the LLM's JSON.
\* A field of the wrong type is a ValidationError, and so a ValueError.
Unvalidated == {"research_models", "model_recommendation"}

CanSucceed(tool) == ~Unplannable(tool) /\ ~CorpusMissing(tool) /\ ~Refused(tool)

\* Beside the tools' own checks, a model may raise ValueError.
CanRaiseValueError(tool) ==
  \/ Unplannable(tool)
  \/ ~CorpusMissing(tool) /\ (Refused(tool) \/ Infers(tool) \/ tool \in Unvalidated)

\* Any other exception: a missing corpus, a model that fails, a search result that is no dict.
CanFail(tool) ==
  /\ ~Unplannable(tool)
  /\ CorpusMissing(tool) \/ (Infers(tool) /\ ~Refused(tool)) \/ tool = "research_models"

ResearchNote ==
  CASE tool_results["research_models"] = "found" -> "research_cited"
    [] tool_results["research_models"] = NotRun  -> "research_not_requested"
    [] OTHER                                     -> "research_unavailable"

Selections  == {"kept_some", "kept_none"}
Searches    == {"found", "not_found"}
Evaluations == IF HasLabels THEN {"measured", "skipped"} ELSE {"skipped"}

ResultsOf(tool) ==
  CASE tool = "filter_documents"     -> Selections
    [] tool = "research_models"      -> Searches
    [] tool = "evaluate_candidates"  -> Evaluations
    [] tool = "model_recommendation" -> {ResearchNote}
    [] OTHER                         -> {"done"}

-----------------------------------------------------------------------------
(* The graph                                                               *)

\* Mutants of RouteNext: no iteration guard, and REPLAN treated as any other error.
RouteUnguarded(err, index, p) ==
  CASE err.kind = "REPLAN" -> "plan_steps"
    [] err.kind = "failed" -> "handle_error"
    [] OTHER -> IF index >= Len(p) THEN "synthesize" ELSE "execute_tool"
RouteAnyError(err, index, p) ==
  IF err.kind # "none" THEN "handle_error" ELSE RouteUnguarded(err, index, p)

\* route_next, the conditional edge after execute_tool.
RouteNext(err, index, p) ==
  CASE err.kind = "REPLAN"        -> "plan_steps"
    [] err.kind = "failed"        -> "handle_error"
    [] OTHER -> IF index >= MaxToolIterations \/ index >= Len(p)
                THEN "synthesize" ELSE "execute_tool"

Superstep(n) == node = n /\ steps < RecursionLimit /\ steps' = steps + 1

Init ==
  /\ node = "understand_intent" /\ steps = 0
  /\ query \in Queries /\ corpus \in Corpora /\ indexed \in BOOLEAN /\ profile \in Profiles
  /\ plan = <<>> /\ requested = <<>> /\ step_index = 0
  /\ tool_results = [t \in Tools |-> NotRun]
  /\ error = NoError /\ final_answer = NoAnswer

\* The LLM's answer parses: plan_steps is next.
UnderstandIntent ==
  /\ Superstep("understand_intent") /\ query # "empty"
  /\ \E p \in Plans : plan' = p /\ requested' = p
  /\ node' = "plan_steps"
  /\ UNCHANGED <<query, corpus, indexed, profile, step_index, tool_results, error, final_answer>>

\* An empty query, an LLMError, or an answer _parse_plan rejects.
FailToUnderstand ==
  /\ Superstep("understand_intent")
  /\ error' = TurnError /\ node' = "handle_error"
  /\ UNCHANGED <<query, corpus, indexed, profile, plan, step_index, tool_results,
                 final_answer, requested>>

\* Mutant of RefinePlan: the plan is run as the LLM wrote it.
RunAsPlanned ==
  /\ Superstep("plan_steps") /\ error = NoError
  /\ step_index' = 0 /\ node' = "execute_tool"
  /\ UNCHANGED <<query, corpus, indexed, profile, plan, tool_results, error, final_answer, requested>>

\* plan_steps on the way in: a cached profile makes profile_dataset superfluous.
RefinePlan ==
  /\ Superstep("plan_steps") /\ error = NoError
  /\ plan' = IF profile # "none" THEN Without(plan, "profile_dataset") ELSE plan
  /\ step_index' = 0 /\ node' = "execute_tool"
  /\ UNCHANGED <<query, corpus, indexed, profile, tool_results, error, final_answer, requested>>

\* plan_steps after a REPLAN signal: the tool leaves the plan, step_index stays.
RepairPlan ==
  /\ Superstep("plan_steps") /\ error.kind = "REPLAN"
  /\ plan' = Without(plan, error.tool)
  /\ error' = NoError /\ node' = "execute_tool"
  /\ UNCHANGED <<query, corpus, indexed, profile, step_index, tool_results,
                 final_answer, requested>>

NextTool == plan[step_index + 1]

\* execute_tool past the end of the plan changes nothing.
NothingLeft ==
  /\ Superstep("execute_tool") /\ step_index >= Len(plan)
  /\ node' = RouteNext(error, step_index, plan)
  /\ UNCHANGED <<query, corpus, indexed, profile, plan, step_index, tool_results,
                 error, final_answer, requested>>

ToolSucceeds ==
  /\ Superstep("execute_tool") /\ step_index < Len(plan) /\ CanSucceed(NextTool)
  /\ \E r \in ResultsOf(NextTool) : tool_results' = [tool_results EXCEPT ![NextTool] = r]
  /\ profile' = IF NextTool = "profile_dataset" THEN corpus ELSE profile
  /\ indexed' = (indexed \/ NextTool = "generate_embeddings")
  /\ step_index' = step_index + 1
  /\ node' = RouteNext(error, step_index + 1, plan)
  /\ UNCHANGED <<query, corpus, plan, error, final_answer, requested>>

ToolRaisesValueError ==
  /\ Superstep("execute_tool") /\ step_index < Len(plan) /\ CanRaiseValueError(NextTool)
  /\ error' = Replan(NextTool)
  /\ node' = RouteNext(error', step_index, plan)
  /\ UNCHANGED <<query, corpus, indexed, profile, plan, step_index, tool_results,
                 final_answer, requested>>

ToolFails ==
  /\ Superstep("execute_tool") /\ step_index < Len(plan) /\ CanFail(NextTool)
  /\ error' = TurnError
  /\ node' = RouteNext(error', step_index, plan)
  /\ UNCHANGED <<query, corpus, indexed, profile, plan, step_index, tool_results,
                 final_answer, requested>>

\* Mutant of Truncated: the notice whenever the limit is reached.
LimitReached == step_index >= MaxToolIterations

\* The guard's notice: the iteration limit was reached with planned tools left over.
Truncated == step_index >= MaxToolIterations /\ step_index < Len(plan)

\* An LLMError here only degrades the wording of the answer.
Synthesize ==
  /\ Superstep("synthesize")
  /\ \E k \in {"synthesized", "fallback"} : final_answer' = [kind |-> k, truncated |-> Truncated]
  /\ node' = "END"
  /\ UNCHANGED <<query, corpus, indexed, profile, plan, step_index, tool_results, error, requested>>

HandleError ==
  /\ Superstep("handle_error")
  /\ final_answer' = [kind |-> "error", truncated |-> FALSE]
  /\ node' = "END"
  /\ UNCHANGED <<query, corpus, indexed, profile, plan, step_index, tool_results, error, requested>>

\* LangGraph raises GraphRecursionError out of run_agent instead of running a node.
GiveUp ==
  /\ node \notin Finished /\ steps >= RecursionLimit
  /\ node' = "GraphRecursionError"
  /\ UNCHANGED <<query, corpus, indexed, profile, plan, step_index, tool_results, error,
                 final_answer, steps, requested>>

Returned == node \in Finished /\ UNCHANGED vars

Next ==
  \/ UnderstandIntent \/ FailToUnderstand
  \/ RefinePlan \/ RepairPlan
  \/ NothingLeft \/ ToolSucceeds \/ ToolRaisesValueError \/ ToolFails
  \/ Synthesize \/ HandleError
  \/ GiveUp \/ Returned

\* run_agent is one synchronous loop, and every external call in it returns or raises.
Spec == Init /\ [][Next]_vars /\ WF_vars(Next)

-----------------------------------------------------------------------------
(* Properties                                                              *)

TypeOK ==
  /\ node \in Nodes /\ query \in Queries /\ corpus \in Corpora /\ indexed \in BOOLEAN
  /\ profile \in Profiles /\ plan \in Seq(Tools) /\ requested \in Seq(Tools)
  /\ step_index \in Nat /\ steps \in Nat
  /\ tool_results \in [Tools -> Results \cup {NotRun}]
  /\ error \in Errors /\ final_answer \in Answers

NoDuplicates(p) == \A i, j \in DOMAIN p : p[i] = p[j] => i = j

\* The tools that some path of the code can send back to plan_steps.
Replannable == RunsModel \cup Unvalidated \cup {"named_entity_recognition", "filter_documents"}

\* The tools of the LLM's plan that a REPLAN signal has removed or is removing.
Unresolved == {t \in Replannable : /\ t \in PlannedTools(requested)
                                   /\ t \notin PlannedTools(plan) \/ error = Replan(t)}

(* Replanning "cannot itself cause a runaway loop": each REPLAN signal costs *)
(* two supersteps and removes its tool for good, so the length of a turn is *)
(* bounded by the iteration limit and the number of tools replanned away,   *)
(* and LangGraph gives up only on a turn with that many unresolved tools.   *)
SuperstepsBounded ==
  /\ steps <= 3 + MaxToolIterations + 2 * Cardinality(Unresolved)
  /\ node = "GraphRecursionError" =>
        RecursionLimit <= steps /\ steps <= 2 + MaxToolIterations + 2 * Cardinality(Unresolved)

(* The iteration guard counts successful executions and replanning gives    *)
(* nothing back: never more results than step_index, never more than the    *)
(* limit.                                                                   *)
BudgetRespected == Cardinality(Executed) <= step_index /\ step_index <= MaxToolIterations

Synthesized == node = "END" /\ final_answer.kind \in {"synthesized", "fallback"}

(* When the LLM's plan names no tool twice, the answer carries the          *)
(* truncation notice exactly when a tool still in the plan did not run, and *)
(* every result in it belongs to a tool of the plan that is returned.       *)
NoticeIsHonest ==
  Synthesized /\ NoDuplicates(requested) =>
    /\ final_answer.truncated <=> ~(PlannedTools(plan) \subseteq Executed)
    /\ Executed \subseteq PlannedTools(plan)

(* The same without the assumption that names are not repeated: plan repair *)
(* "drops the unresolved step" and nothing else, so an answer without the   *)
(* notice has a result for every tool of the plan.  The code violates it.   *)
OnlyUnresolvedStepDropped ==
  Synthesized /\ ~final_answer.truncated => PlannedTools(plan) \subseteq Executed

(* model_recommendation has one fallback for every failure of the LLM, a     *)
(* "malformed response" included: an answer that was not cut short has the  *)
(* recommendation that the plan asked for.  The code violates it when the   *)
(* LLM's rationale is a list of something else than strings: that raises a  *)
(* ValidationError outside the fallback, and plan repair drops the tool.    *)
RecommendationDelivered ==
  Synthesized /\ ~final_answer.truncated /\ "model_recommendation" \in PlannedTools(requested)
    => "model_recommendation" \in Executed

(* Every finished turn has an answer; it is the error message exactly when  *)
(* the turn hit a hard error, and a REPLAN signal is never shown.           *)
ErrorsAnswered ==
  node = "END" => /\ final_answer.kind # "none"
                  /\ final_answer.kind = "error" <=> error = TurnError
                  /\ error.kind # "REPLAN"

(* "Plan repair only ever removes ... (monotonic shrink, never growth)":    *)
(* once the LLM's plan is stored, no step adds a tool or lengthens the plan, *)
(* and answering a REPLAN signal makes it strictly shorter and never leaves *)
(* the signalled tool behind.                                               *)
PlanOnlyShrinks ==
  [][node # "understand_intent" =>
       /\ PlannedTools(plan') \subseteq PlannedTools(plan)
       /\ Len(plan') <= Len(plan)
       /\ error.kind = "REPLAN" /\ error' = NoError =>
            Len(plan') < Len(plan) /\ error.tool \notin PlannedTools(plan')]_vars

(* The session's profile is reused and never recomputed, even when it is    *)
(* that of an earlier corpus: the backend may treat the profile a turn      *)
(* returns as the one it was given, unless it was given none.               *)
CachedProfileKept == [][profile # "none" => profile' = profile]_vars

(* Whatever the LLM plans and the tools raise, the turn ends with an answer, *)
(* unless so many planned tools were unresolved that the graph gave up.     *)
EveryTurnAnswers ==
  <>(\/ node = "END" /\ final_answer.kind # "none"
     \/ /\ node = "GraphRecursionError"
        /\ steps <= 2 + MaxToolIterations + 2 * Cardinality(Unresolved))

-----------------------------------------------------------------------------
(* The inductive invariant behind the safety properties (AgentTurnProofs). *)

Replanning == node = "plan_steps" /\ error.kind = "REPLAN"
Planning   == node = "plan_steps" /\ error = NoError

\* What each node may rely on when it starts.
ControlInv ==
  /\ node = "understand_intent" => error = NoError /\ final_answer = NoAnswer
  /\ node \in {"execute_tool", "synthesize"} => error = NoError
  /\ node = "handle_error" => error = TurnError
  /\ node = "plan_steps" => Planning \/ Replanning
  /\ node \in {"understand_intent", "plan_steps"} /\ error = NoError =>
        step_index = 0 /\ Executed = {} /\ plan = requested
  /\ Replanning => step_index < Len(plan) /\ error.tool = NextTool
  /\ node = "synthesize" \/ Synthesized => step_index >= MaxToolIterations \/ step_index >= Len(plan)
  /\ Synthesized => (final_answer.truncated <=> Truncated)
  /\ node = "END" => \/ Synthesized /\ error = NoError
                     \/ final_answer.kind = "error" /\ error = TurnError

BudgetInv ==
  /\ IsFiniteSet(Executed) /\ Cardinality(Executed) <= step_index
  /\ step_index <= MaxToolIterations
  /\ node = "execute_tool" \/ Replanning => step_index < MaxToolIterations

StepsInv ==
  /\ PlannedTools(plan) \subseteq PlannedTools(requested)
  /\ IsFiniteSet(Unresolved)
  /\ node = "understand_intent" => steps = 0
  /\ Planning => steps = 1
  /\ node = "execute_tool" => steps <= 2 + step_index + 2 * Cardinality(Unresolved)
  /\ Replanning => steps <= 1 + step_index + 2 * Cardinality(Unresolved)
  /\ node \in {"synthesize", "handle_error", "GraphRecursionError"} =>
        steps <= 2 + MaxToolIterations + 2 * Cardinality(Unresolved)
  /\ node = "END" => steps <= 3 + MaxToolIterations + 2 * Cardinality(Unresolved)
  /\ node = "GraphRecursionError" => steps >= RecursionLimit

\* Without repeated names the tools that ran are the ones before step_index.
OrderInv ==
  NoDuplicates(requested) =>
    /\ NoDuplicates(plan) /\ step_index <= Len(plan)
    /\ Executed = {plan[i] : i \in 1..step_index}

\* Once planned, a turn that has a profile of another corpus does not profile again.
ProfileInv ==
  (node = "execute_tool" \/ Replanning) /\ profile \notin {"none", corpus} =>
    "profile_dataset" \notin PlannedTools(plan)

IInv == TypeOK /\ ControlInv /\ BudgetInv /\ StepsInv /\ OrderInv /\ ProfileInv
=============================================================================
