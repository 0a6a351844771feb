SPECIFICATION Spec
CONSTANTS
  a = a
  b = b
  c = c
  Keys <- ThreeKeys
  Values = {a, b, c}
  ValLen <- GrowingLen
  Nil = Nil
  PageSize = 27
  CopyUpLeaves = TRUE
  MaxUnwritten = 0
  DeleteKeys = {}
  MaxPages = 14
PROPERTY ImplementsIndex
