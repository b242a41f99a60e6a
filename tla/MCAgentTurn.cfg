\* The limits are lower than the deployed 6 and 25 so that short plans reach both:
\* the iteration limit after three tools, the recursion limit after eight replans.
CONSTANTS
  Plans <- MCPlans
  MaxPlanLength = 4
  MaxToolIterations = 3
  RecursionLimit = 20
SPECIFICATION Spec
INVARIANTS TypeOK SuperstepsBounded BudgetRespected NoticeIsHonest ErrorsAnswered
PROPERTIES PlanOnlyShrinks CachedProfileKept EveryTurnAnswers
