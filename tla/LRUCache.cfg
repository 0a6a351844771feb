SPECIFICATION Spec
CONSTANTS
  Ids = {i1, i2, i3, i4}
  Pages = {x, y}
  Cap = 3
  Nil = Nil
INVARIANT ListMatchesMap
PROPERTY ImplementsLRU
