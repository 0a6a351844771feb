SPECIFICATION SearchSpec
CONSTANTS
  a = a
  Values = {a}
  ValLen <- OneLen
  Nil = Nil
  PageSize = 128
  CopyUpLeaves = TRUE
  Sought <- SearchKeys
  Pages <- SortedPages
INVARIANT ReturnsFindIdx
PROPERTIES Shrinks Terminates
CHECK_DEADLOCK FALSE
