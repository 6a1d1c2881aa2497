SPECIFICATION Spec
CONSTANTS
  t0 = t0
  t1 = t1
  t2 = t2
  t3 = t3
  t4 = t4
  w1 = w1
  w2 = w2
  w3 = w3
  w4 = w4
  w5 = w5
  a1 = a1
  s1 = s1
  None = None
  Txs <- MCTxs
  Inputs <- MCInputs
  Outputs <- MCOutputs
  Replaces <- MCReplaces
  Targets <- MCTargets
  TargetOf <- MCTargetOf
  MaxDepth = 2
  MaxTracked = 3
  MaxObservations = 3
  MaxEdits = 1
INVARIANT TypeOK
INVARIANT TrackingBounded
INVARIANT HeuristicStrengthCapped
INVARIANT DepthIsDistance
CHECK_DEADLOCK FALSE
