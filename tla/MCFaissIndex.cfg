\* Three calls: two that build at once and one that reads, or any other mix.
CONSTANTS
  Calls = {c1, c2, c3}
  Nobody = Nobody
  MaxCrashes = 1
  MaxFailures = 1
SPECIFICATION Spec
INVARIANTS TypeOK SettledIndexIsValid TornReadsOverlap BuiltOnceReturned
