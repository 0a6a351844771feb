SPECIFICATION RangeSpec
CONSTANTS
  a = a
  b = b
  Keys <- ManyKeys
  Values = {a, b}
  ValLen <- SameLen
  Nil = Nil
  PageSize = 49
  CopyUpLeaves = FALSE
  MaxUnwritten = 0
  DeleteKeys = {}
  MaxPages = 40
  InsertsWhileOpen = FALSE
  Bounds <- Ends
INVARIANTS TypeOK StoresContents EachPageOnce ScanInOrder
PROPERTY ImplementsIndex
