SPECIFICATION FairSpec
CONSTANTS
  a1 = a1
  a2 = a2
  a3 = a3
  a4 = a4
  b2 = b2
  b3 = b3
  b4 = b4
  NoBlock = NoBlock
  Blocks <- ForkBlocks
  Prev <- ForkPrev
  HeightOf <- ForkHeight
  Bip34Height <- ForkHeight
  FirstTip = a2
  ReconcileMax = 1
  TraceMax = 3
  MaxLost = 0
  MaxEarly = 1
  MaxUnseen = 1
  MaxSequenceGaps = 0
  MaxReconnects = 1
  MaxRpcFailures = 1
INVARIANT AncestorIsForkPoint
INVARIANT AncestorIsFound
PROPERTY HeightCatchesUp
