SPECIFICATION Spec
CONSTANTS
  a = a
  b = b
  Keys <- SmallKeys
  Values = {a, b}
  ValLen <- GrowingLen
  Nil = Nil
  PageSize = 53
  CopyUpLeaves = FALSE
  MaxUnwritten = 0
  DeleteKeys = {}
  MaxPages = 12
INVARIANT StoresContents
