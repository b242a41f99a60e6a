\* Three requests are what each race needs: the upload that creates the session and
\* two requests that overlap on it, with a crash and a failing command anywhere.
CONSTANTS
  Requests = {1, 2, 3}
  Workers = {w1}
  Nothing = Nothing
  UnknownId = UnknownId
  Kinds = {"upload", "query", "history", "metrics"}
  MaxCrashes = 1
  MaxRedisFailures = 1
SPECIFICATION Spec
ACTION_CONSTRAINT ArriveInOrder
INVARIANTS TypeOK NoTurnLost ReadsAreCurrent CorpusAvailable StaleOnlyByOverlap OnlyUnhandledAreUncounted
PROPERTIES StoreIsAtomic EveryRequestAnswered
