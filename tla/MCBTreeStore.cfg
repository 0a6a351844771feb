SPECIFICATION StoreSpec
CONSTANTS
  a = a
  b = b
  Keys <- ThreeKeys
  Values = {a, b}
  ValLen <- GrowingLen
  Nil = Nil
  PageSize = 53
  CopyUpLeaves = FALSE
  MaxUnwritten = 1
  MayCrash = TRUE
  DeleteKeys <- OneKey
  MaxPages = 6
INVARIANTS PagesFit PagesSorted SearchesEnd StoresSurvivors StaysTree NeverCut
PROPERTIES GetsAnswer CrashKeeps
