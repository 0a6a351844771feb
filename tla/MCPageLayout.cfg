SPECIFICATION Spec
CONSTANTS
  a = a
  b = b
  Keys <- SmallKeys
  Children <- PageIds
  Values = {a, b}
  ValLen <- TwoLens
  Nil = Nil
  Garbage = Garbage
  PageSize = 53
  CopyUpLeaves = FALSE
INVARIANT ReadsBack
CHECK_DEADLOCK FALSE
