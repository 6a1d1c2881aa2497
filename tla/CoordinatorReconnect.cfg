SPECIFICATION Spec
CONSTANTS
  a1 = a1
  a2 = a2
  a3 = a3
  a4 = a4
  b2 = b2
  b3 = b3
  b4 = b4
  NoBlock = NoBlock
  Blocks <- LineBlocks
  Prev <- LinePrev
  HeightOf <- LineHeight
  Bip34Height <- LineHeight
  FirstTip = a1
  ReconcileMax = 3
  TraceMax = 4
  MaxLost = 0
  MaxEarly = 0
  MaxUnseen = 1
  MaxSequenceGaps = 0
  MaxReconnects = 1
  MaxRpcFailures = 0
INVARIANT NoBlockSkipped
