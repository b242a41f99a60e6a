\* The retry policy and the timeout as configured.
CONSTANTS
  Turns <- MCTurns
  MaxRetries = 3
  BackoffBase = 1
  Timeout = 30
  AnswerTimes = {0, 2}
  ErrorTimes = {0, 1, 30}
  Outages <- MCOutages
SPECIFICATION Spec
INVARIANTS TypeOK CallIsBounded OutagesAreRiddenOut
