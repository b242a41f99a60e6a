\* One worker and neither crashes nor failures: the overlap alone is enough.
CONSTANTS
  Requests = {1, 2, 3}
  Workers = {w1}
  Nothing = Nothing
  UnknownId = UnknownId
  Kinds = {"upload", "query"}
  MaxCrashes = 0
  MaxRedisFailures = 0
SPECIFICATION Spec
ACTION_CONSTRAINT ArriveInOrder
INVARIANT ProfileMatchesCorpus
