CONSTANTS
  Plans <- RepeatingPlans
  MaxPlanLength = 4
  MaxToolIterations = 6
  RecursionLimit = 25
SPECIFICATION Spec
INVARIANT OnlyUnresolvedStepDropped
