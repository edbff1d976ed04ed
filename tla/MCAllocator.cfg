SPECIFICATION FairSpec
CONSTANTS
  NumInputs = 3
  NumOutputs = 2
  SomeTypes <- AllTypes
  SomeArbs = {"round_robin", "matrix"}
  Iters <- TwoIters
INVARIANTS Matching SomeGrant Maximal MaximumSize
PROPERTY EveryRequestServed
