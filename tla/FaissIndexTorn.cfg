\* No crash and no failure: two overlapping calls are enough.
CONSTANTS
  Calls = {c1, c2}
  Nobody = Nobody
  MaxCrashes = 0
  MaxFailures = 0
SPECIFICATION Spec
INVARIANT ExistingIndexIsValid
