SPECIFICATION Spec
CONSTANTS
  a = a
  b = b
  Keys <- SmallKeys
  Children <- PageIds
  Values = {a}
  ValLen <- OneLen
  Nil = Nil
  Garbage = Garbage
  PageSize = 39
  CopyUpLeaves = TRUE
INVARIANT ReadsBack
CHECK_DEADLOCK FALSE
