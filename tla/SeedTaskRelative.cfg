SPECIFICATION Spec
CONSTANTS
  SEED_NUM = 3
  LastMode = 2
  Options <- MCByHand
INVARIANT FailedKept
