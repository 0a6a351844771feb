SPECIFICATION StoreSpec
CONSTANTS
  a = a
  b = b
  Keys <- ThreeKeys
  Values = {a, b}
  ValLen <- GrowingLen
  Nil = Nil
  PageSize = 45
  CopyUpLeaves = TRUE
  MaxUnwritten = 0
  MayCrash = TRUE
  DeleteKeys = {}
  MaxPages = 6
INVARIANTS PagesFit PagesSorted StoresSurvivors StaysTree
PROPERTIES GetsAnswer CrashKeeps CallsEnd
