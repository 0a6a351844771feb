SPECIFICATION RangeSpec
CONSTANTS
  a = a
  Keys <- FiveKeys
  Values = {a}
  ValLen <- OneLen
  Nil = Nil
  PageSize = 41
  CopyUpLeaves = TRUE
  MaxUnwritten = 0
  DeleteKeys = {}
  MaxPages = 40
  InsertsWhileOpen = TRUE
  Bounds <- FiveKeys
INVARIANTS LeafChain ScanInOrder NothingSkipped
PROPERTY ImplementsIndex
