---------------------------- MODULE AgentTurnProofs ----------------------------
(***************************************************************************)
(* The safety of one agent turn, for every set of plans and every limit.   *)
(* IInv is inductive; its parts are preserved one lemma at a time, each    *)
(* with one step per action, and the properties of AgentTurn follow.       *)
(***************************************************************************)
EXTENDS AgentTurn, ListComprehensionLemmas

\* The next-state relation, one action per case.
LEMMA StepCases ==
  ASSUME [Next]_vars
  PROVE  \/ UnderstandIntent \/ FailToUnderstand \/ RefinePlan \/ RepairPlan \/ NothingLeft
         \/ ToolSucceeds \/ ToolRaisesValueError \/ ToolFails \/ Synthesize \/ HandleError
         \/ GiveUp \/ UNCHANGED vars
BY DEF Next, Returned

\* Where route_next leads, for each kind of error.
LEMMA RouteNextCases ==
  ASSUME NEW err \in Errors, NEW index \in Nat, NEW p \in Seq(Tools)
  PROVE  /\ err = NoError /\ (index >= MaxToolIterations \/ index >= Len(p)) =>
              RouteNext(err, index, p) = "synthesize"
         /\ err = NoError /\ index < MaxToolIterations /\ index < Len(p) =>
              RouteNext(err, index, p) = "execute_tool"
         /\ err = TurnError => RouteNext(err, index, p) = "handle_error"
         /\ err.kind = "REPLAN" => RouteNext(err, index, p) = "plan_steps"
         /\ RouteNext(err, index, p) \in Nodes
BY MaxToolIterationsAssumption
   DEF RouteNext, Errors, NoError, TurnError, Replan, Nodes

\* The tool execute_tool is about to run is one of the plan's tools.
LEMMA NextToolPlanned ==
  ASSUME TypeOK, step_index < Len(plan)
  PROVE  NextTool \in Tools /\ NextTool \in PlannedTools(plan)
<1>1. /\ Len(plan) \in Nat /\ DOMAIN plan = 1..Len(plan)
      /\ \A i \in 1..Len(plan) : plan[i] \in Tools
  BY DEF TypeOK
<1>2. step_index + 1 \in 1..Len(plan)
  BY <1>1 DEF TypeOK
<1>. QED
  BY <1>1, <1>2 DEF NextTool, PlannedTools

-----------------------------------------------------------------------------
(* Plan repair                                                             *)

\* Kept(p, tool) is a set of positions of p.
LEMMA KeptPositions ==
  ASSUME NEW S, NEW p \in Seq(S), NEW tool
  PROVE  /\ Len(p) \in Nat /\ DOMAIN p = 1..Len(p)
         /\ Kept(p, tool) \in SUBSET (1..Len(p)) /\ Kept(p, tool) \in SUBSET DOMAIN p
BY DEF Kept

\* Repair yields a plan, never a longer one, and a shorter one if the tool was planned.
LEMMA WithoutType ==
  ASSUME NEW S, NEW p \in Seq(S), NEW tool
  PROVE  /\ Without(p, tool) \in Seq(S)
         /\ Len(Without(p, tool)) \in Nat /\ Len(Without(p, tool)) <= Len(p)
         /\ tool \in PlannedTools(p) => Len(Without(p, tool)) < Len(p)
<1>. DEFINE K == Kept(p, tool)
<1>1. /\ Len(p) \in Nat /\ K \in SUBSET (1..Len(p)) /\ DOMAIN p = 1..Len(p)
  BY KeptPositions
<1>2. /\ Cardinality(K) \in Nat /\ Cardinality(K) <= Len(p)
      /\ Cardinality(K) = Len(p) => K = 1..Len(p)
  BY <1>1, PositionsFinite
<1>3. Without(p, tool) \in Seq(S) /\ Len(Without(p, tool)) = Cardinality(K)
  BY KeptPositions, PickedFacts DEF Without
<1>4. tool \in PlannedTools(p) => K # 1..Len(p)
  BY <1>1 DEF PlannedTools, Kept
<1>. QED
  BY <1>1, <1>2, <1>3, <1>4

\* Repair removes the tool from the planned tools and nothing else.
LEMMA WithoutTools ==
  ASSUME NEW S, NEW p \in Seq(S), NEW tool
  PROVE  PlannedTools(Without(p, tool)) = PlannedTools(p) \ {tool}
<1>. DEFINE K == Kept(p, tool)
            w == Without(p, tool)
<1>1. /\ \A k \in DOMAIN w : \E i \in K : w[k] = p[i]
      /\ \A i \in K : \E k \in DOMAIN w : w[k] = p[i]
  BY KeptPositions, PickedRange DEF Without
<1>2. \A i \in DOMAIN p : i \in K <=> p[i] # tool
  BY DEF Kept
<1>3. K \subseteq DOMAIN p
  BY KeptPositions
<1>. HIDE DEF K, w
<1>4. \A t : t \in PlannedTools(w) <=> t \in PlannedTools(p) \ {tool}
  BY <1>1, <1>2, <1>3 DEF PlannedTools
<1>. QED
  BY <1>4 DEF w

\* Repair leaves a prefix without the tool where it is.
LEMMA WithoutPrefix ==
  ASSUME NEW S, NEW p \in Seq(S), NEW tool,
         NEW m \in 0..Len(p), \A i \in 1..m : p[i] # tool
  PROVE  m <= Len(Without(p, tool)) /\ \A i \in 1..m : Without(p, tool)[i] = p[i]
<1>1. Len(p) \in Nat /\ DOMAIN p = 1..Len(p) /\ Kept(p, tool) \in SUBSET DOMAIN p
  BY KeptPositions
<1>2. 1..m \subseteq Kept(p, tool)
  BY <1>1 DEF Kept
<1>. QED
  BY <1>1, <1>2, PickedPrefix DEF Without

\* Repair does not make a plan repeat a tool.
LEMMA WithoutNoDuplicates ==
  ASSUME NEW S, NEW p \in Seq(S), NEW tool, NoDuplicates(p)
  PROVE  NoDuplicates(Without(p, tool))
<1>. DEFINE K == Kept(p, tool)
            w == Without(p, tool)
<1>1. K \in SUBSET DOMAIN p
  BY KeptPositions
<1>2. \A k \in DOMAIN w : Nth(K, k) \in K /\ Rank(K, Nth(K, k)) = k /\ w[k] = p[Nth(K, k)]
  BY KeptPositions, PickedFacts, PickedRange DEF Without
<1>3. \A k, l \in DOMAIN w : w[k] = w[l] => Nth(K, k) = Nth(K, l)
  BY <1>1, <1>2 DEF NoDuplicates
<1>. HIDE DEF K, w
<1>4. \A k, l \in DOMAIN w : w[k] = w[l] => k = l
  BY <1>2, <1>3
<1>. QED
  BY <1>4 DEF NoDuplicates, w

-----------------------------------------------------------------------------
(* Types                                                                   *)

LEMMA TypeInit == Init => TypeOK
<1>1. <<>> \in Seq(Tools)
  OBVIOUS
<1>. QED
  BY <1>1 DEF Init, TypeOK, Nodes, Errors, Answers, NoAnswer

LEMMA TypeStep == TypeOK /\ [Next]_vars => TypeOK'
<1>. SUFFICES ASSUME TypeOK, [Next]_vars
              PROVE  TypeOK'
  OBVIOUS
<1>. USE DEF TypeOK
<1>1. CASE UnderstandIntent
  BY <1>1, PlansAssumption DEF UnderstandIntent, Superstep, Nodes
<1>2. CASE FailToUnderstand
  BY <1>2 DEF FailToUnderstand, Superstep, Nodes, Errors
<1>3. CASE RefinePlan
  <2>1. Without(plan, "profile_dataset") \in Seq(Tools)
    BY WithoutType
  <2>. QED
    BY <1>3, <2>1 DEF RefinePlan, Superstep, Nodes
<1>4. CASE RepairPlan
  <2>1. Without(plan, error.tool) \in Seq(Tools)
    BY WithoutType
  <2>. QED
    BY <1>4, <2>1 DEF RepairPlan, Superstep, Nodes, Errors
<1>5. CASE NothingLeft
  <2>1. RouteNext(error, step_index, plan) \in Nodes
    BY RouteNextCases
  <2>. QED
    BY <1>5, <2>1 DEF NothingLeft, Superstep
<1>6. CASE ToolSucceeds
  <2>1. step_index < Len(plan) /\ NextTool \in Tools
    BY <1>6, NextToolPlanned DEF ToolSucceeds
  <2>2. RouteNext(error, step_index + 1, plan) \in Nodes
    BY RouteNextCases
  <2>3. ResultsOf(NextTool) \subseteq Results
    BY <2>1 DEF ResultsOf, Results, ResearchNote, Selections, Searches, Evaluations
  <2>4. tool_results' \in [Tools -> Results \cup {NotRun}]
    BY <1>6, <2>1, <2>3 DEF ToolSucceeds
  <2>5. profile' \in Profiles
    BY <1>6 DEF ToolSucceeds, CanSucceed, CorpusMissing, ReadsCorpus, Profiles, Corpora
  <2>. QED
    BY <1>6, <2>2, <2>4, <2>5 DEF ToolSucceeds, Superstep
<1>7. CASE ToolRaisesValueError
  <2>1. step_index < Len(plan) /\ NextTool \in Tools
    BY <1>7, NextToolPlanned DEF ToolRaisesValueError
  <2>2. error' \in Errors
    BY <1>7, <2>1 DEF ToolRaisesValueError, Errors
  <2>3. RouteNext(error', step_index, plan) \in Nodes
    BY <2>2, RouteNextCases
  <2>. QED
    BY <1>7, <2>2, <2>3 DEF ToolRaisesValueError, Superstep
<1>8. CASE ToolFails
  <2>1. error' \in Errors
    BY <1>8 DEF ToolFails, Errors
  <2>2. RouteNext(error', step_index, plan) \in Nodes
    BY <2>1, RouteNextCases
  <2>. QED
    BY <1>8, <2>1, <2>2 DEF ToolFails, Superstep
<1>9. CASE Synthesize
  BY <1>9 DEF Synthesize, Superstep, Nodes, Answers, Truncated
<1>10. CASE HandleError
  BY <1>10 DEF HandleError, Superstep, Nodes, Answers
<1>11. CASE GiveUp
  BY <1>11 DEF GiveUp, Nodes
<1>12. CASE UNCHANGED vars
  BY <1>12 DEF vars
<1>. QED
  BY <1>1, <1>2, <1>3, <1>4, <1>5, <1>6, <1>7, <1>8, <1>9, <1>10, <1>11, <1>12, StepCases

(* Every variable keeps its type: plans stay sequences of catalogue names   *)
(* through every repair, and results stay what the tools return.            *)
THEOREM TypeCorrect == Spec => []TypeOK
<1>1. Init => TypeOK
  BY TypeInit
<1>2. TypeOK /\ [Next]_vars => TypeOK'
  BY TypeStep
<1>. QED
  BY <1>1, <1>2, PTL DEF Spec

-----------------------------------------------------------------------------

LEMMA ControlInit == Init => ControlInv
BY DEF Init, ControlInv, NoError, NoAnswer, Executed, Planning, Replanning, Synthesized, NotRun

LEMMA ControlStep == TypeOK /\ ControlInv /\ [Next]_vars => ControlInv'
<1>. SUFFICES ASSUME TypeOK, ControlInv, [Next]_vars
              PROVE  ControlInv'
  OBVIOUS
<1>. USE DEF ControlInv, Planning, Replanning, Synthesized, NoError, TurnError
<1>1. CASE UnderstandIntent
  BY <1>1 DEF UnderstandIntent, Superstep, Executed
<1>2. CASE FailToUnderstand
  BY <1>2 DEF FailToUnderstand, Superstep
<1>3. CASE RefinePlan
  BY <1>3 DEF RefinePlan, Superstep
<1>4. CASE RepairPlan
  BY <1>4 DEF RepairPlan, Superstep
<1>5. CASE NothingLeft
  <2>1. error = NoError /\ RouteNext(error, step_index, plan) = "synthesize"
    BY <1>5, RouteNextCases DEF NothingLeft, Superstep, TypeOK
  <2>. QED
    BY <1>5, <2>1 DEF NothingLeft, Superstep
<1>6. CASE ToolSucceeds
  <2>1. error = NoError /\ step_index \in Nat /\ plan \in Seq(Tools)
    BY <1>6 DEF ToolSucceeds, Superstep, TypeOK
  <2>2. \/ /\ node' = "synthesize"
           /\ step_index + 1 >= MaxToolIterations \/ step_index + 1 >= Len(plan)
        \/ node' = "execute_tool"
    <3>1. node' = RouteNext(error, step_index + 1, plan)
      BY <1>6 DEF ToolSucceeds
    <3>2. Len(plan) \in Nat /\ MaxToolIterations \in Nat
      BY <2>1, MaxToolIterationsAssumption
    <3>. QED
      BY <2>1, <3>1, <3>2 DEF RouteNext
  <2>. QED
    BY <1>6, <2>1, <2>2 DEF ToolSucceeds, Superstep
<1>7. CASE ToolRaisesValueError
  <2>1. error' = Replan(NextTool) /\ node' = "plan_steps"
    BY <1>7 DEF ToolRaisesValueError, RouteNext, Replan
  <2>. QED
    BY <1>7, <2>1 DEF ToolRaisesValueError, Superstep, Replan, NextTool
<1>8. CASE ToolFails
  <2>1. error' = TurnError /\ node' = "handle_error"
    BY <1>8 DEF ToolFails, RouteNext
  <2>. QED
    BY <1>8, <2>1 DEF ToolFails, Superstep
<1>9. CASE Synthesize
  <2>1. PICK k \in {"synthesized", "fallback"} : final_answer' = [kind |-> k, truncated |-> Truncated]
    BY <1>9 DEF Synthesize
  <2>2. final_answer'.truncated = Truncated /\ final_answer'.kind = k
    BY <2>1
  <2>3. /\ node = "synthesize" /\ node' = "END" /\ error = NoError
        /\ UNCHANGED <<step_index, plan, error>> /\ Truncated' = Truncated
    BY <1>9 DEF Synthesize, Superstep, Truncated
  <2>4. Synthesized' => (final_answer'.truncated <=> Truncated')
    BY <2>2, <2>3
  <2>. QED
    BY <2>2, <2>3, <2>4
<1>10. CASE HandleError
  BY <1>10 DEF HandleError, Superstep
<1>11. CASE GiveUp
  BY <1>11 DEF GiveUp
<1>12. CASE UNCHANGED vars
  BY <1>12 DEF vars, Executed, NextTool, Truncated
<1>. QED
  BY <1>1, <1>2, <1>3, <1>4, <1>5, <1>6, <1>7, <1>8, <1>9, <1>10, <1>11, <1>12, StepCases

-----------------------------------------------------------------------------

LEMMA BudgetInit == Init => BudgetInv
<1>. SUFFICES ASSUME Init PROVE BudgetInv
  OBVIOUS
<1>1. Executed = {}
  BY DEF Init, Executed
<1>2. IsFiniteSet({}) /\ Cardinality({}) = 0
  BY FS_EmptySet
<1>. QED
  BY <1>1, <1>2, MaxToolIterationsAssumption DEF Init, BudgetInv, Replanning

LEMMA BudgetStep == TypeOK /\ ControlInv /\ BudgetInv /\ [Next]_vars => BudgetInv'
<1>. SUFFICES ASSUME TypeOK, ControlInv, BudgetInv, [Next]_vars
              PROVE  BudgetInv'
  OBVIOUS
<1>. USE MaxToolIterationsAssumption DEF BudgetInv, Replanning, Planning
<1>0. step_index \in Nat /\ Cardinality(Executed) \in Nat
  BY FS_CardinalityType DEF TypeOK
<1>1. CASE UnderstandIntent
  BY <1>1 DEF UnderstandIntent, Superstep, Executed, ControlInv, NoError
<1>2. CASE FailToUnderstand
  BY <1>2 DEF FailToUnderstand, Superstep, Executed, TurnError
<1>3. CASE RefinePlan
  <2>1. Executed = {} /\ Executed' = {} /\ step_index' = 0 /\ node' = "execute_tool"
    BY <1>3 DEF RefinePlan, Superstep, ControlInv, Executed
  <2>. QED
    BY <2>1, FS_EmptySet
<1>4. CASE RepairPlan
  BY <1>4 DEF RepairPlan, Superstep, Executed, NoError
<1>5. CASE NothingLeft
  BY <1>5 DEF NothingLeft, Superstep, Executed
<1>6. CASE ToolSucceeds
  <2>1. /\ step_index < MaxToolIterations /\ step_index' = step_index + 1
        /\ step_index < Len(plan) /\ error = NoError /\ error' = error
    BY <1>6 DEF ToolSucceeds, Superstep, ControlInv
  <2>2. NextTool \in Tools
    BY <2>1, NextToolPlanned
  <2>3. PICK r \in ResultsOf(NextTool) : tool_results' = [tool_results EXCEPT ![NextTool] = r]
    BY <1>6 DEF ToolSucceeds
  <2>4. Executed' \subseteq Executed \cup {NextTool}
    BY <2>2, <2>3 DEF Executed, TypeOK
  <2>5. /\ IsFiniteSet(Executed \cup {NextTool})
        /\ Cardinality(Executed \cup {NextTool}) <= Cardinality(Executed) + 1
    BY <1>0, FS_AddElement
  <2>6. IsFiniteSet(Executed') /\ Cardinality(Executed') <= Cardinality(Executed \cup {NextTool})
    BY <2>4, <2>5, FS_Subset
  <2>7. Cardinality(Executed') \in Nat /\ Cardinality(Executed \cup {NextTool}) \in Nat
    BY <2>5, <2>6, FS_CardinalityType
  <2>8. Cardinality(Executed') <= step_index'
    BY <1>0, <2>1, <2>5, <2>6, <2>7
  <2>9. node' = "execute_tool" => step_index' < MaxToolIterations
    <3>1. node' = RouteNext(error, step_index + 1, plan)
      BY <1>6 DEF ToolSucceeds
    <3>. QED
      BY <1>0, <2>1, <3>1 DEF RouteNext, NoError
  <2>. QED
    BY <1>0, <2>1, <2>6, <2>8, <2>9 DEF NoError
<1>7. CASE ToolRaisesValueError
  BY <1>7 DEF ToolRaisesValueError, Superstep, Executed
<1>8. CASE ToolFails
  <2>1. error' = TurnError /\ node' = "handle_error"
    BY <1>8 DEF ToolFails, RouteNext, TurnError
  <2>. QED
    BY <1>8, <2>1 DEF ToolFails, Executed, TurnError
<1>9. CASE Synthesize
  BY <1>9 DEF Synthesize, Superstep, Executed
<1>10. CASE HandleError
  BY <1>10 DEF HandleError, Superstep, Executed
<1>11. CASE GiveUp
  BY <1>11 DEF GiveUp, Executed
<1>12. CASE UNCHANGED vars
  BY <1>12 DEF vars, Executed
<1>. QED
  BY <1>1, <1>2, <1>3, <1>4, <1>5, <1>6, <1>7, <1>8, <1>9, <1>10, <1>11, <1>12, StepCases

-----------------------------------------------------------------------------

\* Only tools with a path to ValueError are ever replanned.
LEMMA OnlyReplannable ==
  ASSUME NEW tool, CanRaiseValueError(tool)
  PROVE  tool \in Replannable
BY DEF CanRaiseValueError, Unplannable, Refused, NoIndex, NothingSelected, Infers, Unvalidated,
       Replannable, RunsModel

LEMMA StepsInit == Init => StepsInv
<1>. SUFFICES ASSUME Init PROVE StepsInv
  OBVIOUS
<1>1. PlannedTools(plan) = PlannedTools(requested) /\ PlannedTools(plan) = {}
  BY DEF Init, PlannedTools
<1>2. Unresolved = {}
  BY <1>1 DEF Unresolved
<1>. QED
  BY <1>1, <1>2, FS_EmptySet DEF Init, StepsInv, Planning, Replanning

\* A step that keeps the plan, the request and the error keeps Unresolved.
LEMMA UnresolvedKept ==
  ASSUME UNCHANGED <<plan, requested, error>>
  PROVE  Unresolved' = Unresolved /\ PlannedTools(plan') = PlannedTools(plan)
BY DEF Unresolved, PlannedTools

LEMMA StepsStep ==
  TypeOK /\ ControlInv /\ BudgetInv /\ StepsInv /\ [Next]_vars => StepsInv'
<1>. SUFFICES ASSUME TypeOK, ControlInv, BudgetInv, StepsInv, [Next]_vars
              PROVE  StepsInv'
  OBVIOUS
<1>. USE MaxToolIterationsAssumption DEF StepsInv, Planning, Replanning
<1>. DEFINE U == Cardinality(Unresolved)
<1>0. /\ step_index \in Nat /\ steps \in Nat /\ RecursionLimit \in Nat
      /\ MaxToolIterations >= 1 /\ step_index <= MaxToolIterations
      /\ U \in Nat /\ plan \in Seq(Tools)
  BY FS_CardinalityType, RecursionLimitAssumption DEF TypeOK, BudgetInv
<1>1. CASE UnderstandIntent
  <2>1. plan' = requested' /\ error' = NoError /\ steps' = 1 /\ node' = "plan_steps"
    BY <1>1 DEF UnderstandIntent, Superstep, ControlInv
  <2>2. Unresolved' = {}
    BY <2>1 DEF Unresolved, NoError, Replan
  <2>. QED
    BY <2>1, <2>2, FS_EmptySet DEF NoError
<1>2. CASE FailToUnderstand
  <2>1. /\ plan' = plan /\ requested' = requested /\ error' = TurnError /\ error = NoError
        /\ node' = "handle_error" /\ steps' = 1
    BY <1>2 DEF FailToUnderstand, Superstep, ControlInv
  <2>2. Unresolved' = Unresolved
    BY <2>1 DEF Unresolved, PlannedTools, NoError, TurnError, Replan
  <2>. QED
    BY <1>0, <2>1, <2>2
<1>3. CASE RefinePlan
  <2>1. /\ requested' = requested /\ error' = NoError /\ error = NoError /\ plan = requested
        /\ node' = "execute_tool" /\ steps' = 2 /\ step_index' = 0
        /\ plan' = plan \/ plan' = Without(plan, "profile_dataset")
    BY <1>3 DEF RefinePlan, Superstep, ControlInv
  <2>2. \/ PlannedTools(plan') = PlannedTools(plan)
        \/ PlannedTools(plan') = PlannedTools(plan) \ {"profile_dataset"}
    BY <1>0, <2>1, WithoutTools
  <2>3. "profile_dataset" \notin Replannable
    BY DEF Replannable, RunsModel, Unvalidated
  <2>4. Unresolved' = {}
    BY <2>1, <2>2, <2>3 DEF Unresolved, NoError, Replan
  <2>. QED
    BY <2>1, <2>2, <2>4, FS_EmptySet
<1>4. CASE RepairPlan
  <2>1. /\ requested' = requested /\ error' = NoError /\ error.kind = "REPLAN"
        /\ plan' = Without(plan, error.tool) /\ node' = "execute_tool"
        /\ steps' = steps + 1 /\ step_index' = step_index
        /\ steps <= 1 + step_index + 2 * U
    BY <1>4 DEF RepairPlan, Superstep
  <2>2. PlannedTools(plan') = PlannedTools(plan) \ {error.tool}
    BY <1>0, <2>1, WithoutTools
  <2>3. error \in Errors
    BY DEF TypeOK
  <2>4. \A t : error = Replan(t) <=> t = error.tool
    BY <2>1, <2>3 DEF Errors, NoError, TurnError, Replan
  <2>5. error.tool \in PlannedTools(plan)
    BY <1>4, <2>1, NextToolPlanned DEF ControlInv, RepairPlan, Superstep
  <2>6. Unresolved' = Unresolved
    BY <2>1, <2>2, <2>4, <2>5 DEF Unresolved, NoError, Replan
  <2>. QED
    BY <1>0, <2>1, <2>2, <2>6
<1>5. CASE NothingLeft
  <2>1. /\ UNCHANGED <<plan, requested, error, step_index>> /\ error = NoError
        /\ steps' = steps + 1 /\ steps <= 2 + step_index + 2 * U
        /\ step_index < MaxToolIterations
    BY <1>5 DEF NothingLeft, Superstep, ControlInv, BudgetInv
  <2>2. node' = "synthesize"
    BY <1>0, <1>5, <2>1, RouteNextCases DEF NothingLeft, TypeOK
  <2>. QED
    BY <1>0, <2>1, <2>2, UnresolvedKept
<1>6. CASE ToolSucceeds
  <2>1. /\ UNCHANGED <<plan, requested, error>> /\ error = NoError
        /\ steps' = steps + 1 /\ steps <= 2 + step_index + 2 * U
        /\ step_index' = step_index + 1 /\ step_index < MaxToolIterations
    BY <1>6 DEF ToolSucceeds, Superstep, ControlInv, BudgetInv
  <2>2. node' \in {"synthesize", "execute_tool"}
    BY <1>6, <2>1 DEF ToolSucceeds, RouteNext, NoError
  <2>. QED
    BY <1>0, <2>1, <2>2, UnresolvedKept
<1>7. CASE ToolRaisesValueError
  <2>1. /\ UNCHANGED <<plan, requested, step_index>> /\ error = NoError
        /\ error' = Replan(NextTool) /\ node' = "plan_steps"
        /\ steps' = steps + 1 /\ steps <= 2 + step_index + 2 * U
    BY <1>7 DEF ToolRaisesValueError, Superstep, ControlInv, RouteNext, Replan
  <2>2. NextTool \in Replannable /\ NextTool \in PlannedTools(plan)
    BY <1>7, OnlyReplannable, NextToolPlanned DEF ToolRaisesValueError
  <2>3. NextTool \notin Unresolved
    BY <2>1, <2>2 DEF Unresolved, NoError, Replan
  <2>4. Unresolved' = Unresolved \cup {NextTool}
    <3>1. \A t : error # Replan(t) /\ (error' = Replan(t) <=> t = NextTool)
      BY <2>1 DEF NoError, Replan
    <3>2. PlannedTools(plan)' = PlannedTools(plan) /\ PlannedTools(requested)' = PlannedTools(requested)
      BY <2>1
    <3>. QED
      BY <2>1, <2>2, <3>1, <3>2 DEF Unresolved
  <2>5. IsFiniteSet(Unresolved') /\ Cardinality(Unresolved') = U + 1
    BY <2>3, <2>4, FS_AddElement
  <2>. QED
    BY <1>0, <2>1, <2>5 DEF Replan, NoError
<1>8. CASE ToolFails
  <2>1. /\ UNCHANGED <<plan, requested, step_index>> /\ error = NoError
        /\ error' = TurnError /\ node' = "handle_error"
        /\ steps' = steps + 1 /\ steps <= 2 + step_index + 2 * U
        /\ step_index < MaxToolIterations
    BY <1>8 DEF ToolFails, Superstep, ControlInv, BudgetInv, RouteNext, TurnError
  <2>2. Unresolved' = Unresolved
    BY <2>1 DEF Unresolved, PlannedTools, NoError, TurnError, Replan
  <2>. QED
    BY <1>0, <2>1, <2>2
<1>9. CASE Synthesize
  <2>1. /\ UNCHANGED <<plan, requested, error>> /\ node' = "END" /\ steps' = steps + 1
        /\ steps <= 2 + MaxToolIterations + 2 * U
    BY <1>9 DEF Synthesize, Superstep
  <2>. QED
    BY <1>0, <2>1, UnresolvedKept
<1>10. CASE HandleError
  <2>1. /\ UNCHANGED <<plan, requested, error>> /\ node' = "END" /\ steps' = steps + 1
        /\ steps <= 2 + MaxToolIterations + 2 * U
    BY <1>10 DEF HandleError, Superstep
  <2>. QED
    BY <1>0, <2>1, UnresolvedKept
<1>11. CASE GiveUp
  <2>1. /\ UNCHANGED <<plan, requested, error>> /\ steps' = steps /\ steps >= RecursionLimit
        /\ node' = "GraphRecursionError" /\ node \in Nodes \ Finished
    BY <1>11 DEF GiveUp, TypeOK
  <2>2. steps <= 2 + MaxToolIterations + 2 * U
    <3>1. node = "plan_steps" => steps <= 1 + step_index + 2 * U
      BY <1>0 DEF ControlInv
    <3>. QED
      BY <1>0, <2>1, <3>1 DEF Nodes, Finished, BudgetInv
  <2>. QED
    BY <1>0, <2>1, <2>2, UnresolvedKept
<1>12. CASE UNCHANGED vars
  BY <1>12, UnresolvedKept DEF vars
<1>. QED
  BY <1>1, <1>2, <1>3, <1>4, <1>5, <1>6, <1>7, <1>8, <1>9, <1>10, <1>11, <1>12, StepCases

-----------------------------------------------------------------------------

LEMMA OrderInit == Init => OrderInv
<1>. SUFFICES ASSUME Init PROVE OrderInv
  OBVIOUS
<1>1. plan = <<>> /\ DOMAIN plan = {} /\ Len(plan) = 0 /\ step_index = 0
  BY DEF Init
<1>2. Executed = {} /\ 1..0 = {}
  BY DEF Init, Executed
<1>. QED
  BY <1>1, <1>2 DEF OrderInv, NoDuplicates

\* A step that keeps the plan, the request, the results and step_index keeps OrderInv.
LEMMA OrderKept ==
  ASSUME OrderInv, UNCHANGED <<plan, requested, tool_results, step_index>>
  PROVE  OrderInv'
BY DEF OrderInv, NoDuplicates, Executed

LEMMA OrderStep == TypeOK /\ ControlInv /\ OrderInv /\ [Next]_vars => OrderInv'
<1>. SUFFICES ASSUME TypeOK, ControlInv, OrderInv, [Next]_vars
              PROVE  OrderInv'
  OBVIOUS
<1>0. plan \in Seq(Tools) /\ Len(plan) \in Nat /\ DOMAIN plan = 1..Len(plan) /\ step_index \in Nat
  BY DEF TypeOK
<1>1. CASE UnderstandIntent
  <2>1. /\ plan' = requested' /\ step_index' = 0 /\ Executed' = {} /\ plan' \in Seq(Tools)
    BY <1>1, PlansAssumption DEF UnderstandIntent, Superstep, ControlInv, Executed
  <2>2. 1..0 = {} /\ Len(plan') \in Nat
    BY <2>1
  <2>. QED
    BY <2>1, <2>2 DEF OrderInv
<1>2. CASE FailToUnderstand
  BY <1>2, OrderKept DEF FailToUnderstand
<1>3. CASE RefinePlan
  <2>1. /\ requested' = requested /\ plan = requested /\ step_index' = 0
        /\ Executed = {} /\ Executed' = {}
        /\ plan' = plan \/ plan' = Without(plan, "profile_dataset")
    BY <1>3 DEF RefinePlan, Superstep, ControlInv, Executed
  <2>2. plan' \in Seq(Tools) /\ Len(plan') \in Nat
    BY <1>0, <2>1, WithoutType
  <2>3. NoDuplicates(plan) => NoDuplicates(plan')
    BY <1>0, <2>1, WithoutNoDuplicates
  <2>4. 1..0 = {}
    OBVIOUS
  <2>. QED
    BY <2>1, <2>2, <2>3, <2>4 DEF OrderInv
<1>4. CASE RepairPlan
  <2>. DEFINE w == Without(plan, error.tool)
  <2>1. /\ plan' = w /\ UNCHANGED <<requested, tool_results, step_index>>
        /\ step_index < Len(plan) /\ error.tool = plan[step_index + 1]
    BY <1>4 DEF RepairPlan, Superstep, ControlInv, Replanning, NextTool
  <2>2. SUFFICES ASSUME NoDuplicates(requested)
                 PROVE  /\ NoDuplicates(w) /\ step_index <= Len(w)
                        /\ Executed' = {w[i] : i \in 1..step_index}
    BY <2>1 DEF OrderInv
  <2>3. NoDuplicates(plan) /\ Executed = {plan[i] : i \in 1..step_index}
    BY <2>2 DEF OrderInv
  <2>4. NoDuplicates(w)
    BY <1>0, <2>3, WithoutNoDuplicates
  <2>5. \A i \in 1..step_index : plan[i] # error.tool
    BY <1>0, <2>1, <2>3 DEF NoDuplicates
  <2>6. step_index \in 0..Len(plan)
    BY <1>0, <2>1
  <2>7. step_index <= Len(w) /\ \A i \in 1..step_index : w[i] = plan[i]
    BY <1>0, <2>5, <2>6, WithoutPrefix
  <2>8. Executed' = Executed
    BY <2>1 DEF Executed
  <2>. HIDE DEF w
  <2>. QED
    BY <2>3, <2>4, <2>7, <2>8
<1>5. CASE NothingLeft
  BY <1>5, OrderKept DEF NothingLeft
<1>6. CASE ToolSucceeds
  <2>1. /\ step_index < Len(plan) /\ step_index' = step_index + 1 /\ UNCHANGED <<plan, requested>>
    BY <1>6 DEF ToolSucceeds
  <2>2. NextTool \in Tools
    BY <2>1, NextToolPlanned
  <2>3. PICK r \in ResultsOf(NextTool) : tool_results' = [tool_results EXCEPT ![NextTool] = r]
    BY <1>6 DEF ToolSucceeds
  <2>4. NotRun \notin ResultsOf(NextTool)
    BY DEF ResultsOf, ResearchNote, NotRun, Selections, Searches, Evaluations
  <2>5. Executed' = Executed \cup {NextTool}
    BY <2>2, <2>3, <2>4 DEF Executed, TypeOK
  <2>6. 1..(step_index + 1) = 1..step_index \cup {step_index + 1}
    BY <1>0
  <2>7. {plan[i] : i \in 1..(step_index + 1)} = {plan[i] : i \in 1..step_index} \cup {NextTool}
    BY <2>6 DEF NextTool
  <2>. QED
    BY <1>0, <2>1, <2>5, <2>7 DEF OrderInv
<1>7. CASE ToolRaisesValueError
  BY <1>7, OrderKept DEF ToolRaisesValueError
<1>8. CASE ToolFails
  BY <1>8, OrderKept DEF ToolFails
<1>9. CASE Synthesize
  BY <1>9, OrderKept DEF Synthesize
<1>10. CASE HandleError
  BY <1>10, OrderKept DEF HandleError
<1>11. CASE GiveUp
  BY <1>11, OrderKept DEF GiveUp
<1>12. CASE UNCHANGED vars
  BY <1>12, OrderKept DEF vars
<1>. QED
  BY <1>1, <1>2, <1>3, <1>4, <1>5, <1>6, <1>7, <1>8, <1>9, <1>10, <1>11, <1>12, StepCases

-----------------------------------------------------------------------------

LEMMA ProfileInit == Init => ProfileInv
BY DEF Init, ProfileInv, Replanning

LEMMA ProfileStep == TypeOK /\ ControlInv /\ ProfileInv /\ [Next]_vars => ProfileInv'
<1>. SUFFICES ASSUME TypeOK, ControlInv, ProfileInv, [Next]_vars
              PROVE  ProfileInv'
  OBVIOUS
<1>. USE DEF ProfileInv, Replanning
<1>0. plan \in Seq(Tools)
  BY DEF TypeOK
<1>1. CASE UnderstandIntent
  BY <1>1 DEF UnderstandIntent, Superstep, ControlInv, NoError
<1>2. CASE FailToUnderstand
  BY <1>2 DEF FailToUnderstand
<1>3. CASE RefinePlan
  <2>1. PlannedTools(Without(plan, "profile_dataset")) = PlannedTools(plan) \ {"profile_dataset"}
    BY <1>0, WithoutTools
  <2>. QED
    BY <1>3, <2>1 DEF RefinePlan
<1>4. CASE RepairPlan
  <2>1. PlannedTools(plan') \subseteq PlannedTools(plan)
    BY <1>0, <1>4, WithoutTools DEF RepairPlan
  <2>. QED
    BY <1>4, <2>1 DEF RepairPlan, Superstep
<1>5. CASE NothingLeft
  BY <1>5 DEF NothingLeft, Superstep, PlannedTools
<1>6. CASE ToolSucceeds
  BY <1>6 DEF ToolSucceeds, Superstep, PlannedTools
<1>7. CASE ToolRaisesValueError
  BY <1>7 DEF ToolRaisesValueError, Superstep, PlannedTools
<1>8. CASE ToolFails
  BY <1>8 DEF ToolFails, Superstep, PlannedTools
<1>9. CASE Synthesize
  BY <1>9 DEF Synthesize
<1>10. CASE HandleError
  BY <1>10 DEF HandleError
<1>11. CASE GiveUp
  BY <1>11 DEF GiveUp
<1>12. CASE UNCHANGED vars
  BY <1>12 DEF vars, PlannedTools
<1>. QED
  BY <1>1, <1>2, <1>3, <1>4, <1>5, <1>6, <1>7, <1>8, <1>9, <1>10, <1>11, <1>12, StepCases

-----------------------------------------------------------------------------

(* The inductive invariant holds throughout every turn.                     *)
THEOREM Invariance == Spec => []IInv
<1>1. Init => IInv
  BY TypeInit, ControlInit, BudgetInit, StepsInit, OrderInit, ProfileInit DEF IInv
<1>2. IInv /\ [Next]_vars => IInv'
  BY TypeStep, ControlStep, BudgetStep, StepsStep, OrderStep, ProfileStep DEF IInv
<1>. QED
  BY <1>1, <1>2, PTL DEF Spec

(* route_next's guard: a turn never has more results than step_index, nor   *)
(* more successful executions than max_tool_iterations.                     *)
THEOREM BudgetHolds == Spec => []BudgetRespected
<1>1. IInv => BudgetRespected
  BY DEF IInv, BudgetInv, BudgetRespected
<1>. QED
  BY <1>1, Invariance, PTL

(* Replanning cannot make a turn longer than the iteration limit and the    *)
(* replanned tools allow, so the recursion limit is never hit for less.     *)
THEOREM TurnIsBounded == Spec => []SuperstepsBounded
<1>1. IInv => SuperstepsBounded
  <2>. SUFFICES ASSUME IInv PROVE SuperstepsBounded
    OBVIOUS
  <2>. DEFINE U == Cardinality(Unresolved)
  <2>1. /\ step_index \in Nat /\ steps \in Nat /\ MaxToolIterations \in Nat /\ U \in Nat
        /\ RecursionLimit \in Nat /\ step_index <= MaxToolIterations /\ node \in Nodes
    BY FS_CardinalityType, RecursionLimitAssumption, MaxToolIterationsAssumption
       DEF IInv, TypeOK, BudgetInv, StepsInv
  <2>2. steps <= 3 + MaxToolIterations + 2 * U
    BY <2>1 DEF IInv, ControlInv, StepsInv, Nodes, Planning, Replanning
  <2>3. node = "GraphRecursionError" =>
           RecursionLimit <= steps /\ steps <= 2 + MaxToolIterations + 2 * U
    BY <2>1 DEF IInv, StepsInv
  <2>. QED
    BY <2>2, <2>3 DEF SuperstepsBounded
<1>. QED
  BY <1>1, Invariance, PTL

(* A returned turn carries an answer, the error message exactly when it hit *)
(* a hard error, and never a pending REPLAN signal.                         *)
THEOREM ErrorsAreAnswered == Spec => []ErrorsAnswered
<1>1. IInv => ErrorsAnswered
  BY DEF IInv, ControlInv, ErrorsAnswered, Synthesized, NoError, TurnError
<1>. QED
  BY <1>1, Invariance, PTL

(* Where the LLM names no tool twice, the truncation notice is exact and no *)
(* result belongs to a tool that left the plan.                             *)
THEOREM NoticeHolds == Spec => []NoticeIsHonest
<1>1. IInv => NoticeIsHonest
  <2>. SUFFICES ASSUME IInv, Synthesized, NoDuplicates(requested)
                PROVE  /\ final_answer.truncated <=> ~(PlannedTools(plan) \subseteq Executed)
                       /\ Executed \subseteq PlannedTools(plan)
    BY DEF NoticeIsHonest
  <2>1. /\ plan \in Seq(Tools) /\ Len(plan) \in Nat /\ DOMAIN plan = 1..Len(plan)
        /\ step_index \in Nat /\ MaxToolIterations \in Nat
    BY MaxToolIterationsAssumption DEF IInv, TypeOK
  <2>2. /\ NoDuplicates(plan) /\ step_index <= Len(plan)
        /\ Executed = {plan[i] : i \in 1..step_index}
    BY DEF IInv, OrderInv
  <2>3. /\ final_answer.truncated <=> Truncated
        /\ step_index >= MaxToolIterations \/ step_index >= Len(plan)
    BY DEF IInv, ControlInv
  <2>4. Executed \subseteq PlannedTools(plan)
    BY <2>1, <2>2 DEF PlannedTools
  <2>5. CASE step_index < Len(plan)
    <3>1. Truncated
      BY <2>3, <2>5, <2>1 DEF Truncated
    <3>2. step_index + 1 \in DOMAIN plan
      BY <2>1, <2>5
    <3>3. plan[step_index + 1] \notin Executed
      BY <2>1, <2>2, <3>2 DEF NoDuplicates
    <3>. QED
      BY <2>3, <2>4, <3>1, <3>2, <3>3 DEF PlannedTools
  <2>6. CASE step_index = Len(plan)
    <3>1. ~Truncated
      BY <2>1, <2>6 DEF Truncated
    <3>. QED
      BY <2>1, <2>2, <2>3, <2>4, <2>6, <3>1 DEF PlannedTools
  <2>. QED
    BY <2>1, <2>2, <2>5, <2>6
<1>. QED
  BY <1>1, Invariance, PTL

(* The monotonic shrink: after planning no step adds a tool to the plan or  *)
(* lengthens it, and answering a REPLAN signal removes its tool for good.   *)
THEOREM PlanShrinks == Spec => PlanOnlyShrinks
<1>. DEFINE Shrinks ==
       node # "understand_intent" =>
         /\ PlannedTools(plan') \subseteq PlannedTools(plan)
         /\ Len(plan') <= Len(plan)
         /\ error.kind = "REPLAN" /\ error' = NoError =>
              Len(plan') < Len(plan) /\ error.tool \notin PlannedTools(plan')
<1>1. IInv /\ [Next]_vars => [Shrinks]_vars
  <2>. SUFFICES ASSUME IInv, [Next]_vars, node # "understand_intent"
                PROVE  \/ /\ PlannedTools(plan') \subseteq PlannedTools(plan)
                          /\ Len(plan') <= Len(plan)
                          /\ error.kind = "REPLAN" /\ error' = NoError =>
                               Len(plan') < Len(plan) /\ error.tool \notin PlannedTools(plan')
                       \/ UNCHANGED vars
    OBVIOUS
  <2>0. plan \in Seq(Tools) /\ Len(plan) \in Nat
    BY DEF IInv, TypeOK
  <2>1. CASE RepairPlan
    <3>1. plan' = Without(plan, error.tool) /\ step_index < Len(plan) /\ error.tool = NextTool
      BY <2>1 DEF RepairPlan, Superstep, IInv, ControlInv, Replanning
    <3>2. error.tool \in PlannedTools(plan)
      BY <3>1, NextToolPlanned DEF IInv
    <3>. QED
      BY <2>0, <3>1, <3>2, WithoutType, WithoutTools
  <2>2. CASE RefinePlan
    <3>1. error = NoError /\ (plan' = plan \/ plan' = Without(plan, "profile_dataset"))
      BY <2>2 DEF RefinePlan
    <3>. QED
      BY <2>0, <3>1, WithoutType, WithoutTools DEF NoError
  <2>3. CASE UnderstandIntent
    BY <2>3 DEF UnderstandIntent, Superstep
  <2>4. CASE /\ UNCHANGED plan
             /\ ~(error.kind = "REPLAN" /\ error' = NoError)
    BY <2>0, <2>4
  <2>5. FailToUnderstand => UNCHANGED plan /\ error' # NoError
    BY DEF FailToUnderstand, TurnError, NoError
  <2>6. NothingLeft \/ ToolSucceeds \/ Synthesize \/ HandleError \/ GiveUp => UNCHANGED <<plan, error>>
    BY DEF NothingLeft, ToolSucceeds, Synthesize, HandleError, GiveUp
  <2>7. ToolRaisesValueError \/ ToolFails => UNCHANGED plan /\ error' # NoError
    BY DEF ToolRaisesValueError, ToolFails, Replan, TurnError, NoError
  <2>. QED
    BY <2>1, <2>2, <2>3, <2>4, <2>5, <2>6, <2>7, StepCases DEF NoError
<1>2. Spec => []IInv
  BY Invariance
<1>. QED
  BY <1>1, <1>2, PTL DEF Spec, PlanOnlyShrinks

(* Where the recursion limit is larger than replanning every replannable    *)
(* tool can use up, run_agent always returns and never raises.              *)
THEOREM LargeLimitSuffices ==
  ASSUME RecursionLimit > 2 + MaxToolIterations + 2 * Cardinality(Replannable)
  PROVE  Spec => [](node # "GraphRecursionError")
<1>1. IsFiniteSet(Replannable)
  <2>. DEFINE A == {"sentiment_analysis", "text_classification", "summarize_text"}
              B == {"generate_embeddings", "semantic_search", "evaluate_candidates"}
              C == {"named_entity_recognition", "filter_documents", "research_models"}
              D == {"model_recommendation"}
  <2>1. \A a, b, c : {a, b, c} = ({a} \cup {b}) \cup {c}
    OBVIOUS
  <2>2. ASSUME NEW a, NEW b, NEW c PROVE IsFiniteSet({a, b, c})
    <3>1. IsFiniteSet({a}) /\ IsFiniteSet({b}) /\ IsFiniteSet({c})
      BY FS_Singleton
    <3>2. IsFiniteSet({a} \cup {b})
      BY <3>1, FS_Union
    <3>3. IsFiniteSet(({a} \cup {b}) \cup {c})
      BY <3>1, <3>2, FS_Union
    <3>. QED
      BY <2>1, <3>3
  <2>3. IsFiniteSet(((A \cup B) \cup C) \cup D)
    <3>1. IsFiniteSet((A \cup B) \cup C)
      BY <2>2, FS_Union
    <3>2. IsFiniteSet(D)
      BY FS_Singleton
    <3>. QED
      BY <3>1, <3>2, FS_Union
  <2>4. Replannable = ((A \cup B) \cup C) \cup D
    BY DEF Replannable, RunsModel, Unvalidated
  <2>. QED
    BY <2>3, <2>4
<1>2. TypeOK /\ SuperstepsBounded => node # "GraphRecursionError"
  <2>1. Unresolved \subseteq Replannable
    BY DEF Unresolved
  <2>2. /\ Cardinality(Unresolved) <= Cardinality(Replannable)
        /\ Cardinality(Unresolved) \in Nat /\ Cardinality(Replannable) \in Nat
    BY <1>1, <2>1, FS_Subset, FS_CardinalityType
  <2>. QED
    BY <2>2, MaxToolIterationsAssumption, RecursionLimitAssumption DEF SuperstepsBounded, TypeOK
<1>. QED
  BY <1>2, TypeCorrect, TurnIsBounded, PTL

(* A profile that the session already has is never recomputed in a turn.    *)
THEOREM ProfileKept == Spec => CachedProfileKept
<1>1. IInv /\ [Next]_vars => [profile # "none" => profile' = profile]_vars
  <2>. SUFFICES ASSUME IInv, [Next]_vars, profile # "none", profile' # profile
                PROVE  FALSE
    BY DEF vars
  <2>1. ToolSucceeds /\ NextTool = "profile_dataset" /\ profile' = corpus
    BY StepCases DEF UnderstandIntent, FailToUnderstand, RefinePlan, RepairPlan, NothingLeft,
                     ToolSucceeds, ToolRaisesValueError, ToolFails, Synthesize, HandleError, GiveUp, vars
  <2>2. node = "execute_tool" /\ "profile_dataset" \in PlannedTools(plan)
    BY <2>1, NextToolPlanned DEF ToolSucceeds, Superstep, IInv
  <2>. QED
    BY <2>1, <2>2 DEF IInv, ProfileInv
<1>. QED
  BY <1>1, Invariance, PTL DEF Spec, CachedProfileKept
=============================================================================
