SPECIFICATION TwoSpec
CONSTANTS
  a = a
  b = b
  Bits = 4
  Keys <- FewKeys
  Values = {a, b}
  Nil = Nil
  MaxWrites = 3
INVARIANTS ScanInOrder SameUnlessAbsent ListWalksStored ListWalksKept
