CONSTANTS
  Trees = {t1, t2, t3}
  Interval = 3
  MaxCalls = 4
  MayFail = {"snapshot"}
SPECIFICATION Spec
INVARIANTS CallsJoin ResultsAreTrue CheckpointsTogether
PROPERTY CallsReturn
