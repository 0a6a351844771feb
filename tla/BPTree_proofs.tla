--------------------------- MODULE BPTree_proofs ----------------------------
(***************************************************************************)
(* Between any two page writes of any sequence of calls, the keys of every *)
(* page of the B+ tree are in order; the B+ tree is the map that its       *)
(* interface promises, as long as no value makes its leaf split empty; and *)
(* under the same condition a scan skips nothing that was there before it, *)
(* and goes through the stored pairs in order if nothing is inserted under *)
(* it.  The leaves are linked from left to right and equally deep, and     *)
(* what is stored is there in the next session, up to the first crash,     *)
(* which loses none of it but in a split.  Pages of values of one length   *)
(* fit.                                                                    *)
(***************************************************************************)
EXTENDS BPTreeRange, BPTreeStore, Tree_proofs

(* A step of Get changes no page, on the way down and along the leaves.     *)
LEMMA GetKeeps ==
  ASSUME IInv, (\E k \in Keys : Get(k)) \/ GetStep
  PROVE  IInv'
<1>1. /\ UNCHANGED <<file, cached, pageCount, root>>
      /\ pc \in {"idle", "findLeaf", "scan", "answer"}
      /\ pc' \in {"idle", "findLeaf", "scan", "answer"}
  BY DEF Get, GetStep, FindLeafDescend, FindLeafDone, ScanHit, ScanPast,
         ScanNext, ReturnGet, Answer, GoTo
<1>2. QED
  BY <1>1, ReadOnlyKeeps

(* Every step keeps the order of the keys.                                  *)
LEMMA NextKeeps == IInv /\ [Next]_vars => IInv'
BY EngineKeeps, GetKeeps, StutterKeeps DEF Next

(* The keys of every page are in order, for every set of keys and values,   *)
(* every page size and every moment at which the cache gives a page up, as  *)
(* long as no page write fails.                                             *)
THEOREM BPTreePagesSorted ==
  ASSUME ~WritesMayFail
  PROVE  Spec => []PagesSorted
<1>1. Init => IInv
  BY InitInv
<1>2. IInv /\ [Next]_vars => IInv'
  BY NextKeeps
<1>3. IInv => PagesSorted
  BY SortedByInv
<1>4. QED
  BY <1>1, <1>2, <1>3, PTL DEF Spec

(* Every step keeps pages filled by values of one length within bounds.     *)
LEMMA NextFits ==
  ASSUME NEW L, OneLength(L)
  PROVE  FitInv(L) /\ [Next]_vars => FitInv(L)'
<1>1. SUFFICES ASSUME FitInv(L), [Next]_vars
               PROVE  FitInv(L)'
  OBVIOUS
<1>2. CASE Engine
  BY <1>1, <1>2, EngineFits
<1>3. CASE (\E k \in Keys : Get(k)) \/ GetStep
  <2>1. IInv'
    BY <1>1, <1>3, GetKeeps DEF FitInv
  <2>2. /\ UNCHANGED <<file, cached, pageCount>>
        /\ pc # "writeRight"
        /\ pc' \notin {"writeRight", "insertSplit", "newRoot", "corrupt"}
    BY <1>3 DEF Get, GetStep, FindLeafDescend, FindLeafDone, ScanHit, ScanPast,
                ScanNext, ReturnGet, Answer, GoTo
  <2>3. QED
    BY <1>1, <2>1, <2>2, RestFits
<1>4. CASE UNCHANGED vars
  <2>1. IInv'
    BY <1>1, <1>4, StutterKeeps DEF FitInv
  <2>2. UNCHANGED <<file, cached, pageCount>> /\ UNCHANGED <<pc, split>>
    BY <1>4 DEF vars
  <2>3. QED
    BY <1>1, <2>1, <2>2, RestFits
<1>5. QED
  BY <1>1, <1>2, <1>3, <1>4 DEF Next

(* No cell of the B+ tree runs into the cell pointers of its page, neither  *)
(* where an insertion puts it nor where a split deals the cells out, if all *)
(* values have one length and cells of that length leave no gap on a full   *)
(* page in which a cell fits without its pointer.                           *)
THEOREM BPTreePagesFit ==
  ASSUME ~WritesMayFail, NEW L, OneLength(L)
  PROVE  Spec => []PagesFit
<1>1. Init => FitInv(L)
  BY InitFits
<1>2. FitInv(L) /\ [Next]_vars => FitInv(L)'
  BY NextFits
<1>3. FitInv(L) => PagesFit
  BY FitsByInv
<1>4. QED
  BY <1>1, <1>2, <1>3, PTL DEF Spec
-----------------------------------------------------------------------------
(* A leaf whose keys are all smaller, or one with a greater key where the   *)
(* key should be, shows that the key is absent.                             *)
LEMMA EndIsAbsent ==
  ASSUME NEW own, NEW lev, NEW x, Searching(own, lev, x), lev[x] = 0,
         call.key \in own[x] \/ contents[call.key] = Nil,
         \/ Pos = NumCells(TopPage) + 1
         \/ Pos <= NumCells(TopPage) /\ TopPage.cells[Pos].key > call.key
  PROVE  contents[call.key] = Nil
<1>1. TopPage.leaf
  BY DEF Searching, PageOK, KindOK
<1>2. /\ call.key \in Int /\ NumCells(TopPage) \in Nat
      /\ Pos \in 1 .. NumCells(TopPage) + 1
  BY PosIsFound DEF Searching, PageOK
<1>3. ~KeyAt(TopPage, Pos)
  BY <1>2 DEF KeyAt
<1>4. QED
  BY <1>1, <1>3, MissIsAbsent

(* A search goes on, or stays, on a leaf.                                   *)
LEMMA ScanMaps ==
  ASSUME MapInv, IInv', pc \in {"findLeaf", "scan"}, pc' = "scan",
         NEW own, NEW lev, NEW left, Arranged(own, lev, left),
         NEW x \in NodeIds, path' = <<x>>, lev[x] = 0,
         call.key \in own[x] \/ contents[call.key] = Nil,
         UNCHANGED <<file, cached, pageCount, root, split, call, contents>>
  PROVE  MapInv'
<1>1. NodeIds' = NodeIds /\ Held' = Held
  BY SameTree
<1>2. Valid(Held, NodeIds, root, own, lev, own, contents)
  BY DEF Arranged, TreeSound, Want, Inserted, Pending
<1>3. Want' = contents
  BY DEF Want, Inserted, Pending
<1>4. TreeSound(own, lev, left)'
  BY <1>1, <1>2, <1>3 DEF TreeSound, Pending
<1>5. Reading(own, lev)'
  BY <1>1 DEF Reading
<1>6. Arranged(own, lev, left)'
  BY <1>4, <1>5 DEF Arranged, SplitAt, Chain
<1>7. CallOK' /\ DOMAIN cached' = {}
  BY DEF MapInv, CallOK
<1>8. QED
  BY <1>6, <1>7 DEF MapInv

(* A search comes to the leaf for its key, or past it when the key is not   *)
(* there.                                                                   *)
LEMMA GetMaps ==
  ASSUME MapInv, IInv', (\E k \in Keys : Get(k)) \/ GetStep
  PROVE  MapInv'
<1>1. CASE \E k \in Keys : Get(k)
  BY <1>1, SearchBegins DEF Get
<1>2. CASE FindLeafDescend
  <2>1. /\ pc = "findLeaf" /\ ~TopPage.leaf
        /\ path' = <<ChildAt(TopPage, Pos)>>
        /\ UNCHANGED <<file, cached, pageCount, root, pc, split, call, contents>>
    BY <1>2 DEF FindLeafDescend, GoTo
  <2>2. PICK own, lev, x : Searching(own, lev, x)
    BY <2>1, PageSearched
  <2>3. ~KeyAt(TopPage, Pos)
    <3>1. IsPage(TopPage) /\ call.key \in Int
      BY <2>2 DEF Searching, PageOK
    <3>2. Pos = Way(TopPage, call.key)
      BY <2>1, <3>1, PosIsFound
    <3>3. ~KeyOn(TopPage, Pos, call.key)
      BY <2>1, <3>1, <3>2, SeparatorPassed, BPTreeAssumption
    <3>4. QED
      BY <3>3 DEF KeyAt, KeyOn
  <2>4. QED
    BY <2>1, <2>3, DescendMaps
<1>3. CASE FindLeafDone
  <2>1. /\ pc = "findLeaf" /\ pc' = "scan" /\ TopPage.leaf
        /\ path' = <<Last(path)>>
        /\ UNCHANGED <<file, cached, pageCount, root, split, call, contents>>
    BY <1>3 DEF FindLeafDone, GoTo
  <2>2. PICK own, lev, left, x :
          Arranged(own, lev, left) /\ Searching(own, lev, x) /\ call.key \in own[x]
    BY <2>1, PageSearched
  <2>3. x \in NodeIds /\ path' = <<x>>
    BY <2>1, <2>2 DEF Searching, Last
  <2>4. lev[x] = 0
    BY <2>1, <2>2 DEF Searching, PageOK, KindOK
  <2>5. QED
    BY <2>1, <2>2, <2>3, <2>4, ScanMaps
<1>4. CASE ScanHit \/ ScanPast
  BY <1>4, SearchEnds DEF ScanHit, ScanPast, Answer
<1>5. CASE ScanNext
  <2>1. CASE Answer(Nil)
    BY <1>5, <2>1, SearchEnds DEF ScanNext, Answer
  <2>2. CASE GoTo(TopPage.next) /\ UNCHANGED pc /\ TopPage.next # InvalidPage
    <3>1. /\ pc = "scan" /\ pc' = "scan" /\ path' = <<TopPage.next>>
          /\ UNCHANGED <<file, cached, pageCount, root, split, call, contents>>
      BY <1>5, <2>2 DEF ScanNext, GoTo
    <3>2. PICK own, lev, left, x :
            /\ Arranged(own, lev, left) /\ Searching(own, lev, x)
            /\ lev[x] = 0
            /\ call.key \in own[x] \/ contents[call.key] = Nil
      BY <3>1, PageSearched
    <3>3. contents[call.key] = Nil
      BY <1>5, <3>2, EndIsAbsent DEF ScanNext
    <3>4. TopPage.next \in NodeIds /\ lev[TopPage.next] = 0
      BY <2>2, <3>2, BPTreeAssumption DEF Searching, PageOK, KindOK, NextOK
    <3>5. QED
      BY <3>1, <3>2, <3>3, <3>4, ScanMaps
  <2>3. QED
    BY <1>5, <2>1, <2>2 DEF ScanNext
<1>6. CASE ReturnGet
  BY <1>6, SearchEnds DEF ReturnGet
<1>7. QED
  BY <1>1, <1>2, <1>3, <1>4, <1>5, <1>6 DEF GetStep

(* Every step keeps the table of keys and levels.                           *)
LEMMA NextMaps ==
  ASSUME DeleteKeys = {}
  PROVE  MapInv /\ ~Ousts /\ [Next]_vars => MapInv'
<1> SUFFICES ASSUME MapInv, ~Ousts, [Next]_vars
             PROVE  MapInv'
  OBVIOUS
<1>1. CASE Engine
  BY <1>1, EngineMaps DEF Deletes
<1>2. CASE (\E k \in Keys : Get(k)) \/ GetStep
  <2>1. IInv'
    BY <1>2, GetKeeps DEF MapInv
  <2>2. QED
    BY <1>2, <2>1, GetMaps
<1>3. CASE UNCHANGED vars
  BY <1>3, StutterMaps
<1>4. QED
  BY <1>1, <1>2, <1>3 DEF Next

(* A search answers what the index is to hold.                              *)
LEMMA GetAnswers ==
  ASSUME MapInv, ScanHit \/ ScanPast \/ (ScanNext /\ Answer(Nil))
  PROVE  Promise!AnswerGet
<1>1. PICK own, lev, x :
        /\ Searching(own, lev, x) /\ lev[x] = 0
        /\ call.key \in own[x] \/ contents[call.key] = Nil
  <2>1. pc = "scan"
    BY DEF ScanHit, ScanPast, ScanNext
  <2>2. QED
    BY <2>1, PageSearched
<1>2. call.op = "get" /\ UNCHANGED contents
  BY DEF ScanHit, ScanPast, ScanNext, Answer, MapInv, CallOK
<1>3. CASE ScanHit
  <2>1. call' = [op |-> "answer", key |-> call.key, val |-> TopPage.cells[Pos].val]
    BY <1>3 DEF ScanHit, Answer
  <2>2. TopPage.leaf
    BY <1>1 DEF Searching, PageOK, KindOK
  <2>3. TopPage.cells[Pos].val = contents[call.key]
    BY <1>1, <1>3, <2>2, HitIsStored DEF ScanHit
  <2>4. QED
    BY <1>2, <2>1, <2>3 DEF Promise!AnswerGet
<1>4. CASE ScanPast \/ (ScanNext /\ Answer(Nil))
  <2>1. call' = [op |-> "answer", key |-> call.key, val |-> Nil]
    BY <1>4 DEF ScanPast, Answer
  <2>2. contents[call.key] = Nil
    BY <1>1, <1>4, EndIsAbsent DEF ScanPast, ScanNext
  <2>3. QED
    BY <1>2, <2>1, <2>2 DEF Promise!AnswerGet
<1>5. QED
  BY <1>3, <1>4

(* Every step is a step of the interface, or none.                          *)
LEMMA NextRefines ==
  ASSUME DeleteKeys = {}
  PROVE  MapInv /\ [Next]_vars => [Promise!Next]_(Promise!ivars)
<1> SUFFICES ASSUME MapInv, [Next]_vars
             PROVE  [Promise!Next]_(Promise!ivars)
  OBVIOUS
<1>1. CASE Engine
  <2>1. CASE /\ call = NoCall /\ contents' = contents
             /\ \E k \in Keys, v \in Values :
                  call' = [op |-> "insert", key |-> k, val |-> v]
    BY <2>1 DEF Promise!Next, Promise!CallInsert, NoCall, Promise!NoCall
  <2>2. CASE /\ call.op = "insert" /\ call' = NoCall
             /\ contents' = [contents EXCEPT ![call.key] = call.val]
    BY <2>2 DEF Promise!Next, Promise!ReturnInsert, NoCall, Promise!NoCall
  <2>3. CASE UNCHANGED <<contents, call>>
    BY <2>3 DEF Promise!ivars
  <2>4. QED
    BY <1>1, <2>1, <2>2, <2>3, EngineCalls DEF Deletes
<1>2. CASE \E k \in Keys : Get(k)
  BY <1>2 DEF Get, MapInv, CallOK, Promise!Next, Promise!CallGet, NoCall,
              Promise!NoCall
<1>3. CASE ScanHit \/ ScanPast \/ (ScanNext /\ Answer(Nil))
  BY <1>3, GetAnswers DEF Promise!Next
<1>4. CASE FindLeafDescend \/ FindLeafDone \/ (ScanNext /\ GoTo(TopPage.next))
  BY <1>4 DEF FindLeafDescend, FindLeafDone, GoTo, Promise!ivars
<1>5. CASE ReturnGet
  BY <1>5 DEF ReturnGet, MapInv, CallOK, Promise!Next, Promise!ReturnGet, NoCall,
              Promise!NoCall
<1>6. CASE UNCHANGED vars
  BY <1>6 DEF vars, Promise!ivars
<1>7. QED
  BY <1>1, <1>2, <1>3, <1>4, <1>5, <1>6 DEF Next, GetStep, ScanNext

(* A new tree is the empty map.                                             *)
LEMMA InitRefines == Init => Promise!Init
BY DEF Init, Promise!Init, NoCall, Promise!NoCall

(* The B+ tree does what the interface promises, for every set of keys and  *)
(* values and every page size, as long as no page write fails, nobody calls *)
(* Delete and no growing value leaves a full leaf empty.                    *)
THEOREM BPTreeImplementsIndex ==
  ASSUME ~WritesMayFail, DeleteKeys = {}
  PROVE  Spec /\ []~Ousts => ImplementsIndex
<1>1. Init => MapInv
  BY InitMaps
<1>2. MapInv /\ ~Ousts /\ [Next]_vars => MapInv'
  BY NextMaps
<1>3. MapInv /\ [Next]_vars => [Promise!Next]_(Promise!ivars)
  BY NextRefines
<1>4. QED
  BY <1>1, <1>2, <1>3, InitRefines, PTL DEF Spec, ImplementsIndex, Promise!Spec

(* With values of one length no value outgrows another: the program's own   *)
(* benchmarks store such values.                                            *)
THEOREM BPTreeImplementsIndexOneLength ==
  ASSUME ~WritesMayFail, DeleteKeys = {},
         \A v, w \in Values : ValLen[v] = ValLen[w]
  PROVE  Spec => ImplementsIndex
<1>1. Init => MapInv
  BY InitMaps
<1>2. MapInv => ~Ousts
  BY SameLengthNeverOusts
<1>3. MapInv /\ ~Ousts /\ [Next]_vars => MapInv'
  BY NextMaps
<1>4. MapInv /\ [Next]_vars => [Promise!Next]_(Promise!ivars)
  BY NextRefines
<1>5. QED
  BY <1>1, <1>2, <1>3, <1>4, InitRefines, PTL
     DEF Spec, ImplementsIndex, Promise!Spec

(* Between two calls a B+ tree stores every key that was inserted in one    *)
(* cell of one page that the root leads to, with the value of its last      *)
(* Insert, and no other key.                                                *)
THEOREM BPTreeStoresContents ==
  ASSUME ~WritesMayFail, DeleteKeys = {}
  PROVE  Spec /\ []~Ousts => []StoresContents
<1>1. Init => MapInv
  BY InitMaps
<1>2. MapInv /\ ~Ousts /\ [Next]_vars => MapInv'
  BY NextMaps
<1>3. QED
  BY <1>1, <1>2, MapIsStored, PTL DEF Spec

(* The same with values of one length, whatever the behaviour.              *)
THEOREM BPTreeStoresContentsOneLength ==
  ASSUME ~WritesMayFail, DeleteKeys = {},
         \A v, w \in Values : ValLen[v] = ValLen[w]
  PROVE  Spec => []StoresContents
<1>1. Init => MapInv
  BY InitMaps
<1>2. MapInv => ~Ousts
  BY SameLengthNeverOusts
<1>3. MapInv /\ ~Ousts /\ [Next]_vars => MapInv'
  BY NextMaps
<1>4. QED
  BY <1>1, <1>2, <1>3, MapIsStored, PTL DEF Spec
-----------------------------------------------------------------------------
(* Every step leaves each page where it hangs, or hangs it elsewhere, once. *)
LEMMA NextHangs ==
  ASSUME DeleteKeys = {}
  PROVE  MapInv /\ HangInv /\ ~Ousts /\ [Next]_vars => HangInv'
<1> SUFFICES ASSUME MapInv, HangInv, ~Ousts, [Next]_vars
             PROVE  HangInv'
  OBVIOUS
<1>1. CASE Engine
  BY <1>1, EngineHangs DEF Deletes
<1>2. CASE (\E k \in Keys : Get(k)) \/ GetStep
  <2>1. /\ UNCHANGED <<file, pageCount, root, split>>
        /\ pc \in {"idle", "findLeaf", "scan", "answer"}
        /\ pc' \in {"idle", "findLeaf", "scan", "answer"}
    BY <1>2 DEF Get, GetStep, FindLeafDescend, FindLeafDone, ScanHit, ScanPast,
           ScanNext, ReturnGet, Answer, GoTo
  <2>2. QED
    BY <2>1, LookupHangs
<1>3. CASE UNCHANGED vars
  BY <1>3, StutterHangs
<1>4. QED
  BY <1>1, <1>2, <1>3 DEF Next

(* Between two calls every page that was ever allocated hangs in the B+ tree *)
(* exactly once, for every page size and every sequence of splits: no half  *)
(* of a split is lost and none is hung twice.                               *)
THEOREM BPTreeEachPageOnce ==
  ASSUME ~WritesMayFail, DeleteKeys = {}
  PROVE  Spec /\ []~Ousts => []EachPageOnce
<1>1. Init => MapInv /\ HangInv
  BY InitMaps, InitHangs
<1>2. MapInv /\ ~Ousts /\ [Next]_vars => MapInv'
  BY NextMaps
<1>3. MapInv /\ HangInv /\ ~Ousts /\ [Next]_vars => HangInv'
  BY NextHangs
<1>4. QED
  BY <1>1, <1>2, <1>3, MapHangs, PTL DEF Spec

(* The same with values of one length, whatever the behaviour.              *)
THEOREM BPTreeEachPageOnceOneLength ==
  ASSUME ~WritesMayFail, DeleteKeys = {},
         \A v, w \in Values : ValLen[v] = ValLen[w]
  PROVE  Spec => []EachPageOnce
<1>1. Init => MapInv /\ HangInv
  BY InitMaps, InitHangs
<1>2. MapInv => ~Ousts
  BY SameLengthNeverOusts
<1>3. MapInv /\ ~Ousts /\ [Next]_vars => MapInv'
  BY NextMaps
<1>4. MapInv /\ HangInv /\ ~Ousts /\ [Next]_vars => HangInv'
  BY NextHangs
<1>5. QED
  BY <1>1, <1>2, <1>3, <1>4, MapHangs, PTL DEF Spec

(* When no call runs, each leaf of a B+ tree points to the next.            *)
LEMMA MapChains ==
  ASSUME CopyUpLeaves
  PROVE  MapInv /\ HangInv => LeafChain
<1>1. SUFFICES ASSUME MapInv, HangInv, pc = "idle",
                      NEW i \in DOMAIN Level[Height - 1]
               PROVE  PageOf(Level[Height - 1][i]).next =
                        IF i = Len(Level[Height - 1]) THEN InvalidPage
                        ELSE Level[Height - 1][i + 1]
  BY DEF LeafChain
<1> DEFINE s == Level[Height - 1]
           x == s[i]
           n == PageOf(x).next
<1>2. PICK own, lev : Resting(own, lev)
  BY <1>1, IdleRests
<1>3. /\ Height - 1 = lev[root] /\ lev[root] \in Nat
      /\ Valid(Held, NodeIds, root, own, lev, own, contents)
      /\ \A y \in NodeIds : PageOf(y) = Held[y]
      /\ own \in [NodeIds -> SUBSET Int] /\ lev \in [NodeIds -> Nat]
  <2>1. /\ Height = lev[root] + 1 /\ lev[root] \in Nat
        /\ Valid(Held, NodeIds, root, own, lev, own, contents)
        /\ \A y \in NodeIds : PageOf(y) = Held[y]
    BY <1>2, HeightIsLevels DEF Resting, Standing
  <2>2. own \in [NodeIds -> SUBSET Int] /\ lev \in [NodeIds -> Nat]
    BY <2>1 DEF Valid, Spread
  <2>3. Height - 1 = lev[root]
    BY <2>1
  <2>4. QED
    BY <2>1, <2>2, <2>3
<1>4. Row(s, 0, NodeIds, own, lev)
  <2>1. lev[root] \in 0 .. lev[root] /\ lev[root] - lev[root] = 0
    BY <1>3
  <2>2. QED
    BY <1>2, <1>3, <2>1, LevelRows
<1> HIDE DEF s
<1>5. /\ s \in Seq(NodeIds) /\ i \in 1 .. Len(s) /\ Len(s) \in Nat
      /\ \A j \in 1 .. Len(s) : s[j] \in NodeIds /\ lev[s[j]] = 0
      /\ \A j, h \in 1 .. Len(s) : j < h => \A k \in own[s[j]], l \in own[s[h]] : k < l
      /\ \A k \in Int : \E j \in 1 .. Len(s) : k \in own[s[j]]
  <2>1. s \in Seq(NodeIds) /\ i \in 1 .. Len(s) /\ Len(s) \in Nat
    <3>1. s \in Seq(NodeIds)
      BY <1>4 DEF Row
    <3>2. i \in DOMAIN s
      BY <1>1 DEF s
    <3>3. QED
      BY <3>1, <3>2
  <2>2. \A j \in 1 .. Len(s) : s[j] \in NodeIds /\ lev[s[j]] = 0
    <3>1. \A j \in 1 .. Len(s) : s[j] \in NodeIds
      BY <2>1, ElementOfSeq
    <3>2. \A j \in 1 .. Len(s) : lev[s[j]] = 0
      BY <1>4 DEF Row
    <3>3. QED
      BY <3>1, <3>2
  <2>3. QED
    BY <1>4, <2>1, <2>2 DEF Row
<1>0. i \in Nat /\ Len(s) \in Nat /\ i <= Len(s) /\ 1 <= i
  BY <1>5
<1>6. \A y \in NodeIds : own[y] # {} /\ own[y] \subseteq Int
  BY <1>3 DEF Valid, PageOK, RoomOK
<1>7. \/ n = InvalidPage /\ \A k \in Int : ~Past(own[x], k)
      \/ n \in NodeIds /\ lev[n] = 0 /\ Adjoin(own[x], own[n])
  <2>1. PageOf(x) = Held[x] /\ PageOK(Held[x], x, NodeIds, own, lev, own, contents)
    BY <1>3, <1>5 DEF Valid
  <2>2. Held[x].leaf
    BY <1>5, <2>1 DEF PageOK, KindOK
  <2>3. QED
    BY <2>1, <2>2 DEF PageOK, NextOK
<1>8. ASSUME n \in NodeIds, lev[n] = 0, Adjoin(own[x], own[n])
      PROVE  \E j \in 1 .. Len(s) : j = i + 1 /\ n = s[j]
  <2>1. PICK l \in own[n] : l \in Int
    BY <1>6, <1>8
  <2>2. PICK j \in 1 .. Len(s) : l \in own[s[j]]
    BY <1>5, <2>1
  <2>3. n = s[j]
    BY <1>3, <1>5, <1>8, <2>1, <2>2 DEF Valid, Spread
  <2>4. PICK k \in own[x] : k \in Int
    BY <1>5, <1>6
  <2>5. k < l
    BY <1>8, <2>1, <2>4 DEF Adjoin
  <2>6. i # j /\ ~(j < i)
    <3>1. i # j
      <4>1. l \in own[x] => l < l
        BY <1>8, <2>1 DEF Adjoin
      <4>2. QED
        BY <2>1, <2>2, <4>1
    <3>2. j < i => l < k
      BY <1>5, <2>2, <2>4
    <3>3. QED
      BY <2>1, <2>4, <2>5, <3>1, <3>2
  <2>7. ~(i + 1 < j)
    <3>1. SUFFICES ASSUME i + 1 < j PROVE FALSE
      OBVIOUS
    <3>2. i + 1 \in 1 .. Len(s) /\ i < i + 1
      BY <1>0, <3>1
    <3>3. PICK g \in own[s[i + 1]] : g \in Int
      BY <1>5, <1>6, <3>2, ZenonT(60)
    <3>4. k < g /\ g \notin own[x]
      <4>1. \A h \in own[x] : h < g
        BY <1>5, <3>2, <3>3
      <4>2. QED
        BY <2>4, <3>3, <4>1
    <3>5. Past(own[x], g)
      BY <2>4, <3>4 DEF Past
    <3>6. PICK h \in own[n] : h <= g
      BY <1>8, <3>3, <3>5 DEF Adjoin, From
    <3>7. g < h
      BY <1>5, <2>3, <3>1, <3>2, <3>3, <3>6
    <3>8. h \in Int
      BY <1>6, <1>8, <3>6
    <3>9. QED
      BY <3>3, <3>6, <3>7, <3>8
  <2>8. \A a, b \in Nat : a # b /\ ~(b < a) /\ ~(a + 1 < b) => b = a + 1
    OBVIOUS
  <2>9. i \in Nat /\ j \in Nat
    BY <1>0
  <2>10. j = i + 1
    BY ONLY <2>6, <2>7, <2>8, <2>9
  <2>11. QED
    BY <2>3, <2>10
<1>9. ASSUME i # Len(s)
      PROVE  \E k \in Int : Past(own[x], k)
  <2>1. i + 1 \in 1 .. Len(s) /\ i < i + 1
    BY ONLY <1>0, <1>9
  <2>2. PICK k \in own[x] : k \in Int
    BY <1>5, <1>6
  <2>3. PICK g \in own[s[i + 1]] : g \in Int
    BY <1>5, <1>6, <2>1
  <2>4. \A h \in own[x] : h < g
    BY <1>5, <2>1, <2>3
  <2>5. QED
    BY <2>2, <2>3, <2>4 DEF Past
<1>10. CASE i = Len(s)
  <2>1. ~\E j \in 1 .. Len(s) : j = i + 1
    BY <1>5, <1>10
  <2>2. QED
    BY <1>7, <1>8, <1>10, <2>1 DEF s
<1>11. CASE i # Len(s)
  BY <1>7, <1>8, <1>9, <1>11 DEF s
<1>12. QED
  BY <1>10, <1>11

(* Between two calls the next pointers of the B+ tree lead from each leaf to*)
(* the one to its right and from the last to none, whatever was split in    *)
(* which order: what a range scan walks.                                    *)
THEOREM BPTreeLeafChain ==
  ASSUME ~WritesMayFail, DeleteKeys = {}
  PROVE  Spec /\ []~Ousts => []LeafChain
<1>1. Init => MapInv /\ HangInv
  BY InitMaps, InitHangs
<1>2. MapInv /\ ~Ousts /\ [Next]_vars => MapInv'
  BY NextMaps
<1>3. MapInv /\ HangInv /\ ~Ousts /\ [Next]_vars => HangInv'
  BY NextHangs
<1>4. MapInv /\ HangInv => LeafChain
  BY MapChains, BPTreeAssumption
<1>5. QED
  BY <1>1, <1>2, <1>3, <1>4, PTL DEF Spec

(* The same with values of one length, whatever the behaviour.              *)
THEOREM BPTreeLeafChainOneLength ==
  ASSUME ~WritesMayFail, DeleteKeys = {},
         \A v, w \in Values : ValLen[v] = ValLen[w]
  PROVE  Spec => []LeafChain
<1>1. Init => MapInv /\ HangInv
  BY InitMaps, InitHangs
<1>2. MapInv => ~Ousts
  BY SameLengthNeverOusts
<1>3. MapInv /\ ~Ousts /\ [Next]_vars => MapInv'
  BY NextMaps
<1>4. MapInv /\ HangInv /\ ~Ousts /\ [Next]_vars => HangInv'
  BY NextHangs
<1>5. MapInv /\ HangInv => LeafChain
  BY MapChains, BPTreeAssumption
<1>6. QED
  BY <1>1, <1>2, <1>3, <1>4, <1>5, PTL DEF Spec
-----------------------------------------------------------------------------
(* What a step of the engine does to the leaves                             *)

(* Key k is on page p at position i or behind it.                           *)
Holds(p, i, k) == \E j \in i .. NumCells(p) : p.cells[j].key = k

(* The keys of p are on q, each where it was or behind that.                *)
Shifted(p, q) ==
  \A j \in 1 .. NumCells(p) : Holds(q, j, p.cells[j].key)

(* Page q is what an insertion makes of p: the keys of a leaf stay on it.   *)
Kept(p, q) ==
  /\ q.leaf = p.leaf
  /\ p.leaf => q.next = p.next /\ Shifted(p, q)

(* The pages jds of G are those of H, and internal pages that are new.      *)
LeavesKept(H, ids, G, jds) ==
  /\ ids \subseteq jds
  /\ \A y \in ids : Kept(H[y], G[y])
  /\ \A z \in jds : z \notin ids => ~G[z].leaf

(* Leaf x gave a part of its keys to the new leaf z, now the one next to it.*)
LeafHalved(H, ids, G, jds, x, z) ==
  /\ x \in ids /\ z \notin ids /\ jds = ids \cup {z}
  /\ H[x].leaf /\ G[x].leaf /\ G[z].leaf
  /\ G[x].next = z /\ G[z].next = H[x].next
  /\ \A j \in 1 .. NumCells(H[x]) : \/ Holds(G[x], j, H[x].cells[j].key)
                                    \/ Holds(G[z], 1, H[x].cells[j].key)
  /\ \A y \in ids : y # x => G[y] = H[y]

(* One of the two.                                                          *)
LeavesMove(H, ids, G, jds) ==
  \/ LeavesKept(H, ids, G, jds)
  \/ \E x, z : LeafHalved(H, ids, G, jds, x, z)

(* The pages, a right half that is yet to be written included, are pages.   *)
LEMMA HeldArePages ==
  ASSUME IInv
  PROVE  \A y \in NodeIds : IsPage(Held[y])
BY DEF IInv, PagesGood, HalfGood, GoodPage, Held, Awaited

(* A page keeps its own keys.                                               *)
LEMMA KeptBySelf ==
  ASSUME NEW p, IsPage(p)
  PROVE  Kept(p, p)
<1>1. NumCells(p) \in Nat
  BY CellsOfPage
<1>2. QED
  BY <1>1 DEF Kept, Shifted, Holds

(* Nothing moves where no page changes.                                     *)
LEMMA SamePagesMove ==
  ASSUME IInv, Held' = Held, NodeIds' = NodeIds
  PROVE  LeavesMove(Held, NodeIds, Held', NodeIds')
BY HeldArePages, KeptBySelf DEF LeavesMove, LeavesKept

(* Nothing moves where an internal page changes, or a leaf keeps its keys.  *)
LEMMA OnePageMoves ==
  ASSUME IInv, NodeIds' = NodeIds, NEW x \in NodeIds, Kept(Held[x], Held'[x]),
         \A y \in NodeIds : y # x => Held'[y] = Held[y]
  PROVE  LeavesMove(Held, NodeIds, Held', NodeIds')
<1>1. \A y \in NodeIds : Kept(Held[y], Held'[y])
  BY HeldArePages, KeptBySelf
<1>2. QED
  BY <1>1 DEF LeavesMove, LeavesKept

(* Nor where the one new page is internal.                                  *)
LEMMA InternalPageMoves ==
  ASSUME IInv, NEW z, NodeIds' = NodeIds \cup {z}, z \notin NodeIds,
         ~Held'[z].leaf, NEW x, x \in NodeIds => Kept(Held[x], Held'[x]),
         \A y \in NodeIds : y # x => Held'[y] = Held[y]
  PROVE  LeavesMove(Held, NodeIds, Held', NodeIds')
<1>1. \A y \in NodeIds : Kept(Held[y], Held'[y])
  BY HeldArePages, KeptBySelf
<1>2. QED
  BY <1>1 DEF LeavesMove, LeavesKept

(* The leaf an Insert writes, or deals out: it has the keys of the old one, *)
(* those from the position of the new key on one further right, unless the  *)
(* new pair replaces an old one.                                            *)
LEMMA PairShifts ==
  ASSUME IInv, pc = "insertRec", TopPage.leaf,
         NEW d, d = Dropped(TopPage, Pos),
         NEW q, q = WithCell(d, Pos, call.key, call.val, 0)
  PROVE  /\ IsPage(q) /\ Ordered(q) /\ NumCells(q) >= 1
         /\ q.leaf /\ q.next = TopPage.next
         /\ d.leaf /\ d.next = TopPage.next
         /\ Shifted(TopPage, q)
<1> DEFINE p   == TopPage
           i   == Pos
           k   == call.key
           v   == call.val
<1>1. IsPage(p) /\ k \in Int /\ v \in Values
  BY TopGood DEF GoodPage, IInv, CallGood
<1>2. NumCells(p) \in Nat /\ i \in 1 .. NumCells(p) + 1
  BY <1>1, PosIsFound
<1>3. GoodPage(d) /\ d.leaf = p.leaf /\ Between(d, i, k)
  BY DroppedGood
<1>4. i \in 1 .. NumCells(d) + 1 /\ IsPage(d) /\ NumCells(d) \in Nat
  BY <1>3, CellsOfPage DEF Between, GoodPage
<1>5. Insertable(d, i, k, v, 0)
  BY <1>1, <1>4 DEF Insertable
<1>6. KeyAt(p, i) => i \in 1 .. NumCells(p) /\ p.cells[i].key = k
  BY <1>2 DEF KeyAt
<1>7. d = IF KeyAt(p, i) THEN DeleteCell(p, i) ELSE p
  BY DEF Dropped
<1>8. KeyAt(p, i) \in BOOLEAN
  BY DEF KeyAt
<1> HIDE DEF i, k, v, p
<1>9. /\ IsPage(q) /\ q.leaf = d.leaf /\ q.next = d.next
      /\ NumCells(q) = NumCells(d) + 1
      /\ \A j \in 1 .. NumCells(d) + 1 :
           q.cells[j].key = IF j < i THEN d.cells[j].key
                            ELSE IF j = i THEN k ELSE d.cells[j - 1].key
  <2>1. q = WithCell(d, i, k, v, 0)
    BY DEF i, k, v
  <2>2. QED
    BY <1>5, <2>1, WithCellElements
<1>10. Ordered(q)
  <2>1. q = WithCell(d, i, k, v, 0)
    BY DEF i, k, v
  <2>2. QED
    BY <1>1, <1>3, <2>1, WithCellOrdered DEF GoodPage
<1>11. ASSUME KeyAt(p, i)
       PROVE  d.next = p.next /\ Shifted(p, q)
  <2>1. /\ NumCells(d) = NumCells(p) - 1 /\ d.next = p.next
        /\ \A j \in 1 .. NumCells(d) :
             d.cells[j].key = IF j < i THEN p.cells[j].key ELSE p.cells[j + 1].key
    BY <1>1, <1>6, <1>7, <1>11, DeleteCellElements
  <2>2. ASSUME NEW j \in 1 .. NumCells(p)
        PROVE  Holds(q, j, p.cells[j].key)
    <3>1. NumCells(q) = NumCells(p) /\ j \in j .. NumCells(q)
      BY <1>2, <1>9, <2>1
    <3>2. j \in 1 .. NumCells(d) + 1
      BY <1>2, <2>1
    <3>3. CASE j < i
      <4>1. j \in 1 .. NumCells(d)
        BY <1>2, <1>6, <1>11, <2>1, <3>3
      <4>2. q.cells[j].key = p.cells[j].key
        BY <1>9, <2>1, <3>2, <3>3, <4>1
      <4>3. QED
        BY <3>1, <4>2 DEF Holds
    <3>4. CASE j = i
      <4>1. q.cells[j].key = p.cells[j].key
        BY <1>2, <1>6, <1>9, <1>11, <3>2, <3>4
      <4>2. QED
        BY <3>1, <4>1 DEF Holds
    <3>5. CASE j > i
      <4>1. j - 1 \in 1 .. NumCells(d) /\ ~(j - 1 < i) /\ ~(j < i) /\ j # i
            /\ (j - 1) + 1 = j
        BY <1>2, <2>1, <3>2, <3>5
      <4>2. q.cells[j].key = p.cells[j].key
        BY <1>9, <2>1, <3>2, <4>1
      <4>3. QED
        BY <3>1, <4>2 DEF Holds
    <3>6. QED
      BY <1>2, <3>3, <3>4, <3>5
  <2>3. QED
    BY <2>1, <2>2 DEF Shifted
<1>12. ASSUME ~KeyAt(p, i)
       PROVE  d.next = p.next /\ Shifted(p, q)
  <2>1. d = p
    BY <1>7, <1>12
  <2>2. ASSUME NEW j \in 1 .. NumCells(p)
        PROVE  Holds(q, j, p.cells[j].key)
    <3>1. j \in j .. NumCells(q) /\ j \in 1 .. NumCells(d) + 1
      BY <1>2, <1>9, <2>1
    <3>2. CASE j < i
      <4>1. q.cells[j].key = p.cells[j].key
        BY <1>9, <2>1, <3>1, <3>2
      <4>2. QED
        BY <3>1, <4>1 DEF Holds
    <3>3. CASE ~(j < i)
      <4>1. /\ j + 1 \in 1 .. NumCells(d) + 1 /\ j + 1 \in j .. NumCells(q)
            /\ ~(j + 1 < i) /\ j + 1 # i /\ (j + 1) - 1 = j
        BY <1>2, <1>9, <2>1, <3>3
      <4>2. q.cells[j + 1].key = p.cells[j].key
        BY <1>9, <2>1, <4>1
      <4>3. QED
        BY <4>1, <4>2 DEF Holds
    <3>4. QED
      BY <3>2, <3>3
  <2>3. QED
    BY <2>1, <2>2 DEF Shifted
<1>13. d.next = p.next /\ Shifted(p, q)
  BY <1>11, <1>12
<1>14. NumCells(q) >= 1 /\ p.leaf
  BY <1>4, <1>9 DEF p
<1>15. QED
  BY <1>3, <1>9, <1>10, <1>13, <1>14 DEF p

(* A value overwritten in place moves no key.                               *)
LEMMA OverwriteMoves ==
  ASSUME MapInv, InsertOverwrite
  PROVE  LeavesMove(Held, NodeIds, Held', NodeIds')
<1> DEFINE id == Last(path)
           p  == TopPage
           w  == OverwriteValue(TopPage, Pos, call.val)
<1>1. pc = "insertRec" /\ KeyAt(p, Pos) /\ WriteAndReturn(id, w)
  BY DEF InsertOverwrite, Room
<1>2. id \in NodeIds /\ p = Held[id] /\ IsPage(p) /\ p.leaf \in BOOLEAN
  BY <1>1, TopHeld, TopGood DEF GoodPage, MapInv
<1>3. call.key \in Int /\ call.val \in Values
  BY <1>1 DEF MapInv, IInv, CallGood
<1>4. NumCells(p) \in Nat /\ Pos \in 1 .. NumCells(p)
  BY <1>1, <1>2, <1>3, PosIsFound DEF KeyAt
<1>5. /\ NodeIds' = NodeIds /\ Held'[id] = w
      /\ \A y \in NodeIds : y # id => Held'[y] = Held[y]
  BY <1>1, <1>2, HeldAfterWrite
<1>6. Kept(p, w)
  <2>1. CASE p.leaf
    <3>1. w = [p EXCEPT !.cells[Pos].val = call.val]
      BY <2>1 DEF OverwriteValue
    <3>2. /\ w.leaf = p.leaf /\ NumCells(w) = NumCells(p) /\ w.next = p.next
          /\ \A j \in 1 .. NumCells(p) : w.cells[j].key = p.cells[j].key
      BY <1>2, <1>3, <1>4, <3>1, ValueKeepsPage
    <3>3. QED
      BY <1>4, <3>2 DEF Kept, Shifted, Holds
  <2>2. CASE ~p.leaf
    <3>1. w = p
      BY <2>2, BPTreeAssumption DEF OverwriteValue
    <3>2. QED
      BY <2>2, <3>1 DEF Kept
  <2>3. QED
    BY <2>1, <2>2
<1>7. IInv /\ Kept(Held[id], Held'[id])
  BY <1>2, <1>5, <1>6 DEF MapInv
<1>8. QED
  BY <1>2, <1>5, <1>7, OnePageMoves

(* What is behind the position where a leaf is cut comes to the new leaf.   *)
LEMMA CutMoves ==
  ASSUME NEW p, NEW q, IsPage(p), IsPage(q), Ordered(q), q.leaf,
         NumCells(q) >= 1, Shifted(p, q), NEW x \in Int, NEW y \in Int
  PROVE  /\ LeftHalf(q, x).leaf /\ RightHalf(q, y).leaf
         /\ LeftHalf(q, x).next = x /\ RightHalf(q, y).next = y
         /\ \A j \in 1 .. NumCells(p) :
              \/ Holds(LeftHalf(q, x), j, p.cells[j].key)
              \/ Holds(RightHalf(q, y), 1, p.cells[j].key)
<1> DEFINE m == Promoted(q.cells)
           l == LeftHalf(q, x)
           r == RightHalf(q, y)
<1>1. Increasing(q)
  BY IncreasingOrdered
<1>2. /\ m \in 1 .. NumCells(q)
      /\ IsLeft(q, l, m) /\ l.next = x
      /\ IsRight(q, r, RightStart(q.leaf, m)) /\ r.next = y
  BY <1>1, HalvesElements
<1>3. RightStart(q.leaf, m) = m
  BY BPTreeAssumption DEF RightStart
<1> HIDE DEF m, l, r
<1>4. /\ l.leaf /\ NumCells(l) = m - 1
      /\ \A j \in 1 .. m - 1 : l.cells[j] = q.cells[j]
  BY <1>2 DEF IsLeft
<1>5. /\ r.leaf /\ NumCells(r) = NumCells(q) - m + 1
      /\ \A j \in 1 .. NumCells(q) - m + 1 : r.cells[j] = q.cells[m + j - 1]
  BY <1>2, <1>3 DEF IsRight
<1>6. NumCells(q) \in Nat /\ NumCells(p) \in Nat
  BY CellsOfPage
<1>7. ASSUME NEW j \in 1 .. NumCells(p)
      PROVE  Holds(l, j, p.cells[j].key) \/ Holds(r, 1, p.cells[j].key)
  <2>1. PICK i \in j .. NumCells(q) : q.cells[i].key = p.cells[j].key
    BY DEF Shifted, Holds
  <2>2. CASE i < m
    <3>1. i \in j .. NumCells(l) /\ i \in 1 .. m - 1
      BY <1>2, <1>4, <1>6, <2>2
    <3>2. QED
      BY <1>4, <2>1, <3>1 DEF Holds
  <2>3. CASE i >= m
    <3>1. /\ i - m + 1 \in 1 .. NumCells(q) - m + 1
          /\ m + (i - m + 1) - 1 = i
      BY <1>2, <1>6, <2>3
    <3>2. r.cells[i - m + 1].key = p.cells[j].key
      BY <1>5, <2>1, <3>1
    <3>3. QED
      BY <1>5, <3>1, <3>2 DEF Holds
  <2>4. QED
    BY <1>2, <1>6, <2>2, <2>3
<1>8. QED
  BY <1>2, <1>4, <1>5, <1>7 DEF l, r

(* A pair that comes to a leaf moves keys on it, or to the new leaf.        *)
LEMMA InsertInLeafMoves ==
  ASSUME MapInv, InsertInLeaf, pc' # "corrupt"
  PROVE  LeavesMove(Held, NodeIds, Held', NodeIds')
<1> SUFFICES ASSUME NEW d, d = Dropped(TopPage, Pos),
                    NEW q, q = WithCell(d, Pos, call.key, call.val, 0)
             PROVE  LeavesMove(Held, NodeIds, Held', NodeIds')
  OBVIOUS
<1> DEFINE id == Last(path)
           size == CellSize(d.leaf, call.val)
           w == [q EXCEPT !.content = @ - size]
<1>1. /\ pc = "insertRec" /\ TopPage.leaf /\ IInv
      /\ DoInsert(id, d, Pos, call.key, call.val, 0)
  BY DEF InsertInLeaf, MapInv
<1>2. id \in NodeIds /\ TopPage = Held[id] /\ IsPage(TopPage)
  BY <1>1, TopHeld, TopGood DEF GoodPage
<1>3. /\ IsPage(q) /\ Ordered(q) /\ NumCells(q) >= 1
      /\ q.leaf /\ q.next = TopPage.next
      /\ d.leaf /\ d.next = TopPage.next
      /\ Shifted(TopPage, q)
  BY <1>1, PairShifts
<1>4. CASE WriteAndReturn(id, w)
  <2>1. /\ NodeIds' = NodeIds /\ Held'[id] = w
        /\ \A y \in NodeIds : y # id => Held'[y] = Held[y]
    BY <1>1, <1>2, <1>4, HeldAfterWrite
  <2>2. w.leaf = q.leaf /\ w.cells = q.cells /\ w.next = q.next
    BY <1>3 DEF IsPage
  <2>3. Kept(TopPage, w)
    <3>1. w.leaf = TopPage.leaf
      <4>1. TopPage.leaf \in BOOLEAN /\ q.leaf \in BOOLEAN
        BY <1>2, <1>3 DEF IsPage
      <4>2. QED
        BY <1>1, <1>3, <2>2, <4>1
    <3>2. Shifted(TopPage, w)
      BY <1>3, <2>2 DEF Shifted, Holds, NumCells
    <3>3. QED
      BY <1>3, <2>2, <3>1, <3>2 DEF Kept
  <2>4. Kept(Held[id], Held'[id])
    BY <1>2, <2>1, <2>3
  <2>5. QED
    BY <1>1, <1>2, <2>1, <2>4, OnePageMoves
<1>5. CASE SplitNode(id, d, Pos, call.key, call.val, 0)
  <2> SUFFICES ASSUME NEW next, next = LinkLeaves(d.leaf, pageCount, d.next)
               PROVE  LeavesMove(Held, NodeIds, Held', NodeIds')
    OBVIOUS
  <2>1. q.leaf = d.leaf
    <3>1. q.leaf \in BOOLEAN /\ d.leaf \in BOOLEAN
      BY <1>1, <1>3, DroppedGood DEF IsPage, GoodPage
    <3>2. QED
      BY <1>3, <3>1
  <2>2. /\ NodeIds' = NodeIds \cup {pageCount} /\ pageCount \notin NodeIds
        /\ Held'[id] = LeftHalf(q, next.left)
        /\ Held'[pageCount] = RightHalf(q, next.right)
        /\ \A y \in NodeIds : y # id => Held'[y] = Held[y]
    BY <1>1, <1>2, <1>5, <2>1, HeldAfterSplit
  <2>3. next.left = pageCount /\ next.right = TopPage.next
    BY <1>3, BPTreeAssumption DEF LinkLeaves
  <2>4. pageCount \in Int /\ TopPage.next \in Int
    BY <1>1, <1>2 DEF IInv, Shape, IsPage
  <2>5. /\ Held'[id].leaf /\ Held'[pageCount].leaf
        /\ Held'[id].next = pageCount /\ Held'[pageCount].next = TopPage.next
        /\ \A j \in 1 .. NumCells(TopPage) :
             \/ Holds(Held'[id], j, TopPage.cells[j].key)
             \/ Holds(Held'[pageCount], 1, TopPage.cells[j].key)
    BY <1>2, <1>3, <2>2, <2>3, <2>4, CutMoves
  <2>6. LeafHalved(Held, NodeIds, Held', NodeIds', id, pageCount)
    BY <1>1, <1>2, <2>2, <2>5 DEF LeafHalved
  <2>7. QED
    BY <2>6 DEF LeavesMove
<1>6. QED
  BY <1>1, <1>4, <1>5 DEF DoInsert

(* The new half of an internal page is one as well.                         *)
LEMMA InternalSplitMoves ==
  ASSUME MapInv, pc = "insertSplit", pc' # "corrupt",
         NEW id \in NodeIds, NEW p, p = Held[id], IsPage(p), ~p.leaf,
         NEW i, NEW key, NEW val, NEW rc, SplitNode(id, p, i, key, val, rc)
  PROVE  LeavesMove(Held, NodeIds, Held', NodeIds')
<1> SUFFICES ASSUME NEW next, next = LinkLeaves(p.leaf, pageCount, p.next),
                    NEW q, q = WithCell(p, i, key, val, rc)
             PROVE  LeavesMove(Held, NodeIds, Held', NodeIds')
  OBVIOUS
<1>1. q.leaf = p.leaf
  BY DEF WithCell, IsPage
<1>2. /\ NodeIds' = NodeIds \cup {pageCount} /\ pageCount \notin NodeIds
      /\ Held'[id] = LeftHalf(q, next.left)
      /\ Held'[pageCount] = RightHalf(q, next.right)
      /\ \A y \in NodeIds : y # id => Held'[y] = Held[y]
  BY <1>1, HeldAfterSplit
<1>3. Held'[id].leaf = p.leaf /\ Held'[pageCount].leaf = p.leaf
  BY <1>1, <1>2 DEF LeftHalf, RightHalf, NewPage
<1>4. Kept(Held[id], Held'[id]) /\ ~Held'[pageCount].leaf
  BY <1>3 DEF Kept
<1>5. QED
  BY <1>2, <1>4, InternalPageMoves DEF MapInv

(* What a split hands to the page above goes to an internal page.           *)
LEMMA InsertSplitMoves ==
  ASSUME MapInv, InsertSplit, pc' # "corrupt"
  PROVE  LeavesMove(Held, NodeIds, Held', NodeIds')
<1> SUFFICES ASSUME NEW p, p = TopPage, NEW i, i = FindIdx(p, split.key, FALSE),
                    NEW q, q = WithCell(p, i, split.key, split.val, split.right)
             PROVE  LeavesMove(Held, NodeIds, Held', NodeIds')
  OBVIOUS
<1> DEFINE id == Last(path)
           size == CellSize(p.leaf, split.val)
           w == [q EXCEPT !.content = @ - size]
<1>1. /\ pc = "insertSplit" /\ IInv
      /\ DoInsert(id, p, i, split.key, split.val, split.right)
  BY DEF InsertSplit, MapInv
<1>2. id \in NodeIds /\ p = Held[id] /\ IsPage(p) /\ ~p.leaf
  BY <1>1, TopHeld, TopGood DEF GoodPage
<1>3. q.leaf = p.leaf /\ w.leaf = q.leaf
  BY <1>2 DEF WithCell, IsPage
<1>4. CASE WriteAndReturn(id, w)
  <2>1. /\ NodeIds' = NodeIds /\ Held'[id] = w
        /\ \A y \in NodeIds : y # id => Held'[y] = Held[y]
    BY <1>1, <1>2, <1>4, HeldAfterWrite
  <2>2. Kept(Held[id], Held'[id])
    BY <1>2, <1>3, <2>1 DEF Kept
  <2>3. QED
    BY <1>1, <1>2, <2>1, <2>2, OnePageMoves
<1>5. CASE SplitNode(id, p, i, split.key, split.val, split.right)
  BY <1>1, <1>2, <1>5, InternalSplitMoves
<1>6. QED
  BY <1>1, <1>4, <1>5 DEF DoInsert

(* The other right half is the page that was expected.                      *)
LEMMA WriteRightMoves ==
  ASSUME MapInv, WriteRight
  PROVE  LeavesMove(Held, NodeIds, Held', NodeIds')
<1> DEFINE rt == split.right
<1>1. /\ pc = "writeRight" /\ pc' # "writeRight"
      /\ file' = [file EXCEPT ![rt] = split.page]
      /\ UNCHANGED <<pageCount, split>>
  BY DEF WriteRight, WriteNode, MapInv, IInv, Shape
<1>2. NodeIds' = NodeIds /\ rt \in NodeIds
  BY <1>1 DEF NodeIds, MapInv, IInv, SplitGood
<1>3. /\ file'[rt] = split.page
      /\ \A y \in NodeIds : y # rt => file'[y] = file[y]
  BY <1>1, <1>2 DEF MapInv, IInv, Shape
<1>4. Held' = [y \in NodeIds |-> file'[y]]
  BY <1>1, <1>2 DEF Held, Awaited
<1>5. Held = [y \in NodeIds |-> IF y = rt THEN split.page ELSE file[y]]
  BY <1>1 DEF Held, Awaited
<1>6. Held' = Held
  BY <1>3, <1>4, <1>5
<1>7. QED
  BY <1>2, <1>6, SamePagesMove DEF MapInv

(* A new root is an internal page.                                          *)
LEMMA NewRootMoves ==
  ASSUME MapInv, NewRoot, pc' # "corrupt"
  PROVE  LeavesMove(Held, NodeIds, Held', NodeIds')
<1> SUFFICES ASSUME NEW p, p = RootPage(root, split.key, split.val, split.right)
             PROVE  LeavesMove(Held, NodeIds, Held', NodeIds')
  OBVIOUS
<1>1. /\ pc = "newRoot" /\ pc' = "writeHeader"
      /\ WriteNode(Extended, pageCount, p) /\ pageCount' = pageCount + 1
  BY DEF NewRoot, Allocate, RootPage, RootCell
<1>2. file' = [Extended EXCEPT ![pageCount] = p]
  BY <1>1 DEF WriteNode, MapInv, IInv, Shape
<1>3. Extended = [x \in NodeIds \cup {pageCount} |->
                    IF x = pageCount THEN BlankPage ELSE file[x]]
  BY DEF Extended, With, MapInv, IInv, Shape
<1>4. NodeIds' = NodeIds \cup {pageCount} /\ pageCount \notin NodeIds
  BY <1>1 DEF NodeIds, MapInv, IInv, Shape
<1>5. Held' = [y \in NodeIds \cup {pageCount} |-> file'[y]]
  BY <1>1, <1>4 DEF Held, Awaited
<1>6. file'[pageCount] = p /\ \A y \in NodeIds : file'[y] = file[y]
  BY <1>2, <1>3, <1>4
<1>7. \A y \in NodeIds : Held[y] = file[y]
  BY <1>1, ReadHeld
<1>8. Held'[pageCount] = p /\ \A y \in NodeIds : Held'[y] = Held[y]
  BY <1>4, <1>5, <1>6, <1>7
<1>9. ~Held'[pageCount].leaf
  BY <1>8 DEF RootPage, NewPage
<1>10. QED
  BY <1>4, <1>8, <1>9, InternalPageMoves DEF MapInv

(* Every step but one into the broken page of "corrupt".                    *)
LEMMA StepMoves ==
  ASSUME MapInv, ~Ousts, DeleteKeys = {}, [Next]_vars, pc' # "corrupt"
  PROVE  LeavesMove(Held, NodeIds, Held', NodeIds')
<1>1. CASE InsertOverwrite
  BY <1>1, OverwriteMoves
<1>2. CASE InsertInLeaf
  BY <1>2, InsertInLeafMoves
<1>3. CASE InsertSplit
  BY <1>3, InsertSplitMoves
<1>4. CASE WriteRight
  BY <1>4, WriteRightMoves
<1>5. CASE NewRoot
  BY <1>5, NewRootMoves
<1>6. CASE \/ UNCHANGED <<file, pageCount, pc, split>>
           \/ /\ UNCHANGED <<file, pageCount>>
              /\ pc # "writeRight" /\ pc' # "writeRight"
  <2>1. NodeIds' = NodeIds /\ Held' = Held
    BY <1>6 DEF NodeIds, Held, Awaited
  <2>2. QED
    BY <2>1, SamePagesMove DEF MapInv
<1>7. DOMAIN cached = {}
  BY DEF MapInv
<1>8. CASE \/ \E k \in Keys, v \in Values : Insert(k, v)
           \/ InsertDescend \/ WriteHeader \/ ReturnInsert
  BY <1>6, <1>8 DEF Insert, InsertDescend, WriteHeader, ReturnInsert
<1>9. CASE (\E k \in Keys : Get(k)) \/ GetStep
  BY <1>6, <1>9 DEF Get, GetStep, FindLeafDescend, FindLeafDone, ScanHit, ScanPast,
                   ScanNext, ReturnGet, Answer, GoTo
<1>10. CASE UNCHANGED vars
  BY <1>6, <1>10 DEF vars
<1>11. QED
  BY <1>1, <1>2, <1>3, <1>4, <1>5, <1>7, <1>8, <1>9, <1>10
     DEF Next, Engine, InsertStep

(* The page whose write is awaited is a new one.                            *)
LEMMA StepAwaits ==
  ASSUME MapInv, DeleteKeys = {}, [Next]_vars, NEW y \in NodeIds, ~Awaited(y)
  PROVE  ~Awaited(y)'
<1>1. pageCount \notin NodeIds
  BY DEF NodeIds, MapInv, IInv, Shape
<1>2. CASE split'.right = pageCount \/ pc' # "writeRight"
  BY <1>1, <1>2 DEF Awaited
<1>3. CASE UNCHANGED <<pc, split>>
  BY <1>3 DEF Awaited
<1>4. CASE Engine
  <2>1. DOMAIN cached = {}
    BY DEF MapInv
  <2>2. CASE \E k \in Keys, v \in Values : Insert(k, v)
    BY <1>2, <2>2 DEF Insert
  <2>3. CASE InsertOverwrite \/ InsertInLeaf \/ InsertSplit
    <3>1. ASSUME NEW id, NEW p, WriteAndReturn(id, p)
          PROVE  pc' # "writeRight"
      BY <3>1 DEF WriteAndReturn
    <3>2. ASSUME NEW id, NEW p, NEW i, NEW key, NEW val, NEW rc,
                 SplitNode(id, p, i, key, val, rc)
          PROVE  split'.right = pageCount
      BY <3>2 DEF SplitNode
    <3>3. ASSUME NEW id, NEW p, NEW i, NEW key, NEW val, NEW rc,
                 DoInsert(id, p, i, key, val, rc)
          PROVE  split'.right = pageCount \/ pc' # "writeRight"
      BY <3>1, <3>2, <3>3 DEF DoInsert
    <3>4. QED
      BY <1>2, <2>3, <3>1, <3>3 DEF InsertOverwrite, InsertInLeaf, InsertSplit
  <2>4. CASE InsertDescend \/ WriteRight \/ NewRoot \/ WriteHeader \/ ReturnInsert
    BY <1>2, <1>3, <2>4 DEF InsertDescend, WriteRight, NewRoot, WriteHeader,
                            ReturnInsert
  <2>5. QED
    BY <1>4, <2>1, <2>2, <2>3, <2>4 DEF Engine, InsertStep
<1>5. CASE (\E k \in Keys : Get(k)) \/ GetStep
  BY <1>2, <1>3, <1>5
     DEF Get, GetStep, FindLeafDescend, FindLeafDone, ScanHit, ScanPast, ScanNext,
         ReturnGet, Answer, GoTo
<1>6. CASE UNCHANGED vars
  BY <1>3, <1>6 DEF vars
<1>7. QED
  BY <1>4, <1>5, <1>6 DEF Next

-----------------------------------------------------------------------------
(* What lies ahead on the chain of leaves                                   *)

(* The pages of S are leaves that lead to no leaf but those of S.           *)
Chained(H, S) ==
  \A y \in S : H[y].leaf /\ (H[y].next # InvalidPage => H[y].next \in S)

(* Key k is on page n or on one that the chain leads to from there.         *)
Later(H, ids, n, k) ==
  /\ n \in ids
  /\ \A S \in SUBSET ids : n \in S /\ Chained(H, S) =>
       \E y \in S : Holds(H[y], 1, k)

(* The chain of leaves is one of pages, and none is the id of no page.      *)
ChainOnPages(H, ids) ==
  /\ InvalidPage \notin ids
  /\ \A y \in ids : /\ IsPage(H[y])
                    /\ H[y].leaf /\ H[y].next # InvalidPage =>
                         H[y].next \in ids /\ H[H[y].next].leaf

(* All keys of page p are smaller than k.                                   *)
Behind(p, k) == \A j \in 1 .. NumCells(p) : p.cells[j].key < k

(* What the table says of the leaves.                                       *)
LeafTable(own, lev) ==
  /\ own \in [NodeIds -> SUBSET Int]
  /\ \A y \in NodeIds :
       /\ IsPage(Held[y]) /\ Increasing(Held[y])
       /\ KindOK(Held[y], y, lev) /\ KeysOK(Held[y], own[y])
       /\ RoomOK(Held[y], own[y])
       /\ NextOK(Held[y], y, NodeIds, own, lev)

(* It says that between two calls and while a split is pending.             *)
LEMMA TableOfLeaves ==
  ASSUME MapInv, pc # "corrupt"
  PROVE  \E own, lev : LeafTable(own, lev)
<1>1. PICK own, lev, left : Arranged(own, lev, left)
  BY DEF MapInv
<1>2. \E whole, want : Valid(Held, NodeIds, root, own, lev, whole, want)
  BY <1>1 DEF Arranged, TreeSound, Splitting
<1>3. LeafTable(own, lev)
  BY <1>2 DEF LeafTable, Valid, Spread, PageOK
<1>4. QED
  BY <1>3

(* The next page of a leaf is a leaf.                                       *)
LEMMA TreeIsChained ==
  ASSUME MapInv, pc # "corrupt"
  PROVE  ChainOnPages(Held, NodeIds) /\ NodeIds \subseteq Nat
<1>1. PICK own, lev : LeafTable(own, lev)
  BY TableOfLeaves
<1>2. NodeIds \subseteq Nat /\ InvalidPage \notin NodeIds
  BY DEF NodeIds, InvalidPage, MapInv, IInv, Shape
<1>3. ASSUME NEW y \in NodeIds, Held[y].leaf, Held[y].next # InvalidPage
      PROVE  Held[y].next \in NodeIds /\ Held[Held[y].next].leaf
  <2>1. Held[y].next \in NodeIds /\ lev[Held[y].next] = 0
    BY <1>1, <1>3, BPTreeAssumption DEF LeafTable, NextOK
  <2>2. QED
    BY <1>1, <2>1 DEF LeafTable, KindOK
<1>4. QED
  BY <1>1, <1>2, <1>3 DEF ChainOnPages, LeafTable

(* The same of the next state.                                              *)
LEMMA TreeIsChainedNext ==
  MapInv' /\ pc' # "corrupt" => ChainOnPages(Held', NodeIds')
<1>1. MapInv /\ pc # "corrupt" => ChainOnPages(Held, NodeIds)
  BY TreeIsChained
<1>2. (MapInv /\ pc # "corrupt")' => ChainOnPages(Held, NodeIds)'
  BY <1>1, PTL
<1>3. QED
  BY <1>2 DEF ChainOnPages

(* A key on a leaf to the right is one for which this leaf is not.          *)
LEMMA LaterIsPast ==
  ASSUME MapInv, pc # "corrupt", NEW own, NEW lev, LeafTable(own, lev),
         NEW x \in NodeIds, Held[x].leaf, NEW k,
         Later(Held, NodeIds, Held[x].next, k)
  PROVE  k \in Int /\ \A l \in own[x] : l < k
<1>1. LeafTable(own, lev)
  OBVIOUS
<1>2. ChainOnPages(Held, NodeIds)
  BY TreeIsChained
<1> DEFINE n == Held[x].next
           S == {y \in NodeIds : /\ Held[y].leaf /\ own[y] # {}
                                 /\ \A l \in own[x], m \in own[y] : l < m}
<1>3. ASSUME NEW y \in NodeIds, Held[y].leaf, Held[y].next # InvalidPage
      PROVE  /\ Held[y].next \in NodeIds /\ Held[Held[y].next].leaf
             /\ own[Held[y].next] # {}
             /\ \A l \in own[y], m \in own[Held[y].next] : l < m
  <2>1. Held[y].next \in NodeIds /\ Held[Held[y].next].leaf
    BY <1>2, <1>3 DEF ChainOnPages
  <2>2. own[Held[y].next] # {}
    BY <1>1, <2>1, BPTreeAssumption DEF LeafTable, RoomOK
  <2>3. Adjoin(own[y], own[Held[y].next])
    BY <1>1, <1>3, BPTreeAssumption DEF LeafTable, NextOK
  <2>4. QED
    BY <2>1, <2>2, <2>3 DEF Adjoin
<1>4. n \in S
  <2>1. n \in NodeIds /\ n # InvalidPage
    BY <1>2 DEF Later, ChainOnPages
  <2>2. QED
    BY <1>3, <2>1
<1>5. Chained(Held, S)
  <2>1. ASSUME NEW y \in S, Held[y].next # InvalidPage
        PROVE  Held[y].next \in S
    <3>1. PICK m \in own[y] : TRUE
      BY <2>1
    <3>2. ASSUME NEW l \in own[x], NEW o \in own[Held[y].next]
          PROVE  l < o
      <4>1. l < m /\ m < o
        BY <1>3, <2>1, <3>1, <3>2
      <4>2. l \in Int /\ m \in Int /\ o \in Int
        BY <1>1, <1>3, <2>1, <3>1, <3>2 DEF LeafTable
      <4>3. QED
        BY <4>1, <4>2
    <3>3. QED
      BY <1>3, <2>1, <3>2
  <2>2. QED
    BY <2>1 DEF Chained
<1> HIDE DEF S
<1>6. S \in SUBSET NodeIds
  BY DEF S
<1>7. PICK y \in S : Holds(Held[y], 1, k)
  BY <1>4, <1>5, <1>6 DEF Later
<1>8. k \in own[y]
  BY <1>1, <1>6, <1>7 DEF Holds, LeafTable, KeysOK
<1>9. QED
  BY <1>1, <1>6, <1>8 DEF S, LeafTable

(* It is greater than all keys of this one.                                 *)
LEMMA LaterIsGreater ==
  ASSUME MapInv, pc # "corrupt", NEW x \in NodeIds, Held[x].leaf, NEW k,
         Later(Held, NodeIds, Held[x].next, k)
  PROVE  Behind(Held[x], k)
<1>1. PICK own, lev : LeafTable(own, lev)
  BY TableOfLeaves
<1>2. \A l \in own[x] : l < k
  BY <1>1, LaterIsPast
<1>3. QED
  BY <1>1, <1>2 DEF Behind, LeafTable, KeysOK

(* What lies ahead is on the next leaf or ahead of that.                    *)
LEMMA LaterGoesOn ==
  ASSUME NEW H, NEW ids, ChainOnPages(H, ids), NEW n, NEW k, Later(H, ids, n, k),
         H[n].leaf
  PROVE  Holds(H[n], 1, k) \/ Later(H, ids, H[n].next, k)
<1> SUFFICES ASSUME ~Holds(H[n], 1, k)
             PROVE  Later(H, ids, H[n].next, k)
  OBVIOUS
<1>1. n \in ids
  BY DEF Later
<1>2. H[n].next # InvalidPage
  <2>1. SUFFICES ASSUME H[n].next = InvalidPage
                 PROVE  FALSE
    OBVIOUS
  <2>2. {n} \in SUBSET ids /\ n \in {n} /\ Chained(H, {n})
    BY <1>1, <2>1 DEF Chained
  <2>3. PICK y \in {n} : Holds(H[y], 1, k)
    BY <2>2 DEF Later
  <2>4. QED
    BY <2>3
<1>3. H[n].next \in ids
  BY <1>1, <1>2 DEF ChainOnPages
<1>4. ASSUME NEW S \in SUBSET ids, H[n].next \in S, Chained(H, S)
      PROVE  \E y \in S : Holds(H[y], 1, k)
  <2>1. S \cup {n} \in SUBSET ids /\ Chained(H, S \cup {n})
    BY <1>1, <1>4 DEF Chained
  <2>2. PICK y \in S \cup {n} : Holds(H[y], 1, k)
    BY <2>1 DEF Later
  <2>3. QED
    BY <2>2
<1>5. QED
  BY <1>3, <1>4 DEF Later

(* A key of a page stays ahead when its page stays the one it is.           *)
LEMMA HoldsFromFirst ==
  ASSUME NEW p, NEW i \in Nat, i >= 1, NEW k, IsPage(p), Holds(p, i, k)
  PROVE  Holds(p, 1, k)
<1>1. NumCells(p) \in Nat
  BY CellsOfPage
<1>2. QED
  BY <1>1 DEF Holds

(* The position of a key that is on the page.                               *)
LEMMA ShiftedHolds ==
  ASSUME NEW p, NEW q, IsPage(p), IsPage(q), Shifted(p, q), NEW i \in Nat, i >= 1,
         NEW k, Holds(p, i, k)
  PROVE  Holds(q, i, k)
<1>1. PICK j \in i .. NumCells(p) : p.cells[j].key = k
  BY DEF Holds
<1>2. NumCells(p) \in Nat /\ NumCells(q) \in Nat
  BY CellsOfPage
<1>3. Holds(q, j, k)
  BY <1>1, <1>2 DEF Shifted
<1>4. QED
  BY <1>1, <1>2, <1>3 DEF Holds

(* A step leaves what is ahead of a page ahead of it.                       *)
LEMMA LaterMoves ==
  ASSUME NEW H, NEW ids, NEW G, NEW jds, LeavesMove(H, ids, G, jds),
         ChainOnPages(H, ids), ChainOnPages(G, jds),
         NEW n, NEW k, Later(H, ids, n, k)
  PROVE  Later(G, jds, n, k)
<1>1. n \in ids
  BY DEF Later
<1>2. CASE LeavesKept(H, ids, G, jds)
  <2>1. ASSUME NEW S \in SUBSET jds, n \in S, Chained(G, S)
        PROVE  \E y \in S : Holds(G[y], 1, k)
    <3>1. S \in SUBSET ids
      BY <1>2, <2>1 DEF LeavesKept, Chained
    <3>2. Chained(H, S)
      BY <1>2, <2>1, <3>1 DEF LeavesKept, Kept, Chained
    <3>3. PICK y \in S : Holds(H[y], 1, k)
      BY <2>1, <3>1, <3>2 DEF Later
    <3>4. Shifted(H[y], G[y])
      BY <1>2, <3>1, <3>2 DEF LeavesKept, Kept, Chained
    <3>5. IsPage(H[y]) /\ IsPage(G[y])
      BY <2>1, <3>1 DEF ChainOnPages
    <3>6. QED
      BY <3>3, <3>4, <3>5, ShiftedHolds
  <2>2. QED
    BY <1>1, <1>2, <2>1 DEF Later, LeavesKept
<1>3. ASSUME NEW x, NEW z, LeafHalved(H, ids, G, jds, x, z)
      PROVE  Later(G, jds, n, k)
  <2>1. /\ x \in ids /\ z \notin ids /\ jds = ids \cup {z}
        /\ H[x].leaf /\ G[x].next = z /\ G[z].next = H[x].next
        /\ \A j \in 1 .. NumCells(H[x]) : \/ Holds(G[x], j, H[x].cells[j].key)
                                          \/ Holds(G[z], 1, H[x].cells[j].key)
        /\ \A y \in ids : y # x => G[y] = H[y]
    BY <1>3 DEF LeafHalved
  <2>2. z # InvalidPage
    BY <2>1 DEF ChainOnPages
  <2>3. ASSUME NEW S \in SUBSET jds, n \in S, Chained(G, S)
        PROVE  \E y \in S : Holds(G[y], 1, k)
    <3> DEFINE T == S \ {z}
    <3>1. T \in SUBSET ids /\ n \in T
      BY <1>1, <2>1, <2>3
    <3>2. ASSUME NEW y \in T
          PROVE  H[y].leaf /\ (H[y].next # InvalidPage => H[y].next \in T)
      <4>1. y \in S /\ y \in ids
        BY <3>1
      <4>2. H[y].leaf
        BY <2>1, <2>3, <4>1 DEF Chained
      <4>3. SUFFICES ASSUME H[y].next # InvalidPage
                     PROVE  H[y].next \in S /\ H[y].next # z
        BY <4>2
      <4>4. H[y].next \in ids
        BY <4>1, <4>2, <4>3 DEF ChainOnPages
      <4>5. CASE y = x
        <5>1. z \in S
          BY <2>1, <2>2, <2>3, <4>1, <4>5 DEF Chained
        <5>2. H[y].next \in S
          BY <2>1, <2>3, <4>3, <4>5, <5>1 DEF Chained
        <5>3. QED
          BY <2>1, <4>4, <5>2
      <4>6. CASE y # x
        <5>1. H[y].next \in S
          BY <2>1, <2>3, <4>1, <4>3, <4>6 DEF Chained
        <5>2. QED
          BY <2>1, <4>4, <5>1
      <4>7. QED
        BY <4>5, <4>6
    <3>3. Chained(H, T)
      BY <3>2 DEF Chained
    <3>4. PICK y \in T : Holds(H[y], 1, k)
      BY <3>1, <3>3 DEF Later
    <3>5. CASE y # x
      BY <2>1, <3>1, <3>4, <3>5
    <3>6. CASE y = x
      <4>1. PICK j \in 1 .. NumCells(H[x]) : H[x].cells[j].key = k
        BY <3>4, <3>6 DEF Holds
      <4>2. IsPage(G[x]) /\ NumCells(H[x]) \in Nat
        BY <2>1, CellsOfPage DEF ChainOnPages
      <4>3. CASE Holds(G[x], j, k)
        <5>1. Holds(G[x], 1, k)
          BY <4>1, <4>2, <4>3, HoldsFromFirst
        <5>2. QED
          BY <3>4, <3>6, <5>1
      <4>4. CASE Holds(G[z], 1, k)
        <5>1. z \in S
          BY <2>1, <2>2, <2>3, <3>4, <3>6 DEF Chained
        <5>2. QED
          BY <4>4, <5>1
      <4>5. QED
        BY <2>1, <4>1, <4>3, <4>4
    <3>7. QED
      BY <3>5, <3>6
  <2>4. QED
    BY <1>1, <2>1, <2>3 DEF Later
<1>4. QED
  BY <1>2, <1>3 DEF LeavesMove

(* What is on leaf x at i or behind, or ahead of x, stays so.               *)
LEMMA AheadMoves ==
  ASSUME NEW H, NEW ids, NEW G, NEW jds, LeavesMove(H, ids, G, jds),
         ChainOnPages(H, ids), ChainOnPages(G, jds),
         NEW x \in ids, H[x].leaf, NEW i \in Nat, i >= 1, NEW k,
         Holds(H[x], i, k) \/ Later(H, ids, H[x].next, k)
  PROVE  /\ x \in jds /\ G[x].leaf
         /\ Holds(G[x], i, k) \/ Later(G, jds, G[x].next, k)
<1>1. IsPage(H[x]) /\ H[x].leaf \in BOOLEAN
  BY DEF ChainOnPages, IsPage
<1>2. CASE LeavesKept(H, ids, G, jds)
  <2>1. /\ x \in jds /\ G[x].leaf /\ G[x].next = H[x].next
        /\ Shifted(H[x], G[x])
    BY <1>1, <1>2 DEF LeavesKept, Kept
  <2>2. IsPage(G[x])
    BY <2>1 DEF ChainOnPages
  <2>3. QED
    BY <1>1, <2>1, <2>2, LaterMoves, ShiftedHolds
<1>3. ASSUME NEW w, NEW z, LeafHalved(H, ids, G, jds, w, z)
      PROVE  /\ x \in jds /\ G[x].leaf
             /\ Holds(G[x], i, k) \/ Later(G, jds, G[x].next, k)
  <2>1. CASE x # w
    <3>1. x \in jds /\ G[x] = H[x]
      BY <1>3, <2>1 DEF LeafHalved
    <3>2. QED
      BY <3>1, LaterMoves
  <2>2. CASE x = w
    <3>1. /\ z \notin ids /\ jds = ids \cup {z} /\ G[z].leaf
          /\ G[x].leaf /\ G[x].next = z /\ G[z].next = H[x].next
          /\ \A j \in 1 .. NumCells(H[x]) : \/ Holds(G[x], j, H[x].cells[j].key)
                                            \/ Holds(G[z], 1, H[x].cells[j].key)
      BY <1>3, <2>2 DEF LeafHalved
    <3>2. ASSUME Holds(G[z], 1, k)
          PROVE  Later(G, jds, z, k)
      BY <3>1, <3>2 DEF Later
    <3>3. CASE Holds(H[x], i, k)
      <4>1. PICK j \in i .. NumCells(H[x]) : H[x].cells[j].key = k
        BY <3>3 DEF Holds
      <4>2. /\ NumCells(H[x]) \in Nat /\ j \in 1 .. NumCells(H[x])
            /\ IsPage(G[x]) /\ NumCells(G[x]) \in Nat
        BY <1>1, <3>1, <4>1, CellsOfPage DEF ChainOnPages
      <4>3. CASE Holds(G[x], j, k)
        <5>1. Holds(G[x], i, k)
          BY <4>1, <4>2, <4>3 DEF Holds
        <5>2. QED
          BY <3>1, <5>1
      <4>4. CASE Holds(G[z], 1, k)
        BY <3>1, <3>2, <4>4
      <4>5. QED
        BY <3>1, <4>1, <4>2, <4>3, <4>4
    <3>4. CASE Later(H, ids, H[x].next, k)
      <4>1. Later(G, jds, H[x].next, k)
        BY <3>4, LaterMoves
      <4>2. H[x].next # InvalidPage
        BY <3>4 DEF Later, ChainOnPages
      <4>3. ASSUME NEW S \in SUBSET jds, z \in S, Chained(G, S)
            PROVE  \E y \in S : Holds(G[y], 1, k)
        <5>1. H[x].next \in S
          BY <3>1, <4>2, <4>3 DEF Chained
        <5>2. QED
          BY <4>1, <4>3, <5>1 DEF Later
      <4>4. Later(G, jds, z, k)
        BY <3>1, <4>3 DEF Later
      <4>5. QED
        BY <3>1, <4>4
    <3>5. QED
      BY <3>3, <3>4
  <2>3. QED
    BY <2>1, <2>2
<1>4. QED
  BY <1>2, <1>3 DEF LeavesMove

(* The chain leads from a leaf for smaller keys to every stored key.        *)
LEMMA ChainReaches ==
  ASSUME MapInv, NEW own, NEW lev,
         Valid(Held, NodeIds, root, own, lev, own, contents),
         NEW n \in NodeIds, NEW k \in Keys, contents[k] # Nil, From(own[n], k)
  PROVE  Later(Held, NodeIds, n, k)
<1>1. k \in Int /\ own \in [NodeIds -> SUBSET Int]
  BY KeysAssumption DEF Valid, Spread
<1>2. SUFFICES ASSUME NEW S \in SUBSET NodeIds, n \in S, Chained(Held, S),
                      \A y \in S : ~Holds(Held[y], 1, k)
               PROVE  FALSE
  BY DEF Later
<1> DEFINE T == {y \in S : From(own[y], k)}
           D == {d \in Nat : \E y \in T : k - d \in own[y]}
<1>3. ASSUME NEW y \in T
      PROVE  /\ Held[y].next \in T
             /\ Adjoin(own[y], own[Held[y].next])
  <2>1. y \in NodeIds /\ Held[y].leaf /\ From(own[y], k)
    BY <1>2 DEF Chained
  <2>2. LeafOK(Held[y], own[y], contents) /\ NextOK(Held[y], y, NodeIds, own, lev)
    BY <2>1 DEF Valid, PageOK
  <2>3. k \notin own[y]
    BY <1>2, <2>1, <2>2 DEF LeafOK, Holds
  <2>4. Past(own[y], k)
    <3>1. PICK l \in own[y] : l <= k
      BY <2>1 DEF From
    <3>2. l \in Int /\ l # k
      BY <1>1, <2>1, <2>3
    <3>3. QED
      BY <1>1, <2>3, <3>1, <3>2 DEF Past
  <2>5. /\ Held[y].next \in NodeIds
        /\ Adjoin(own[y], own[Held[y].next])
    BY <1>1, <2>1, <2>2, <2>4, BPTreeAssumption DEF NextOK
  <2>6. Held[y].next \in S
    <3>1. Held[y].next # InvalidPage
      BY <2>5 DEF NodeIds, InvalidPage, MapInv, IInv, Shape
    <3>2. QED
      BY <1>2, <3>1 DEF Chained
  <2>7. From(own[Held[y].next], k)
    BY <1>1, <2>4, <2>5 DEF Adjoin
  <2>8. QED
    BY <2>5, <2>6, <2>7
<1>4. ASSUME NEW y \in T, NEW l \in own[y], l <= k
      PROVE  k - l \in D
  <2>1. l \in Int
    BY <1>1, <1>4
  <2>2. k - l \in Nat /\ k - (k - l) = l
    BY <1>1, <1>4, <2>1
  <2>3. QED
    BY <1>4, <2>2
<1>5. D \subseteq Nat /\ D # {}
  <2>1. PICK l \in own[n] : l <= k
    BY DEF From
  <2>2. n \in T
    BY <1>2
  <2>3. QED
    BY <1>4, <2>1, <2>2
<1>6. PICK d \in D : \A e \in D : d <= e
  <2> HIDE DEF D
  <2>1. QED
    BY <1>5, LeastNat
<1>7. PICK y \in T : k - d \in own[y]
  BY <1>6
<1>8. PICK l \in own[Held[y].next] : l <= k
  BY <1>3, <1>7 DEF From
<1>9. k - d < l
  BY <1>3, <1>7, <1>8 DEF Adjoin
<1>10. d <= k - l
  <2>1. k - l \in D
    BY <1>3, <1>4, <1>7, <1>8
  <2>2. QED
    BY <1>6, <2>1
<1>11. l \in Int /\ d \in Int
  <2>1. Held[y].next \in NodeIds
    BY <1>2, <1>3, <1>7
  <2>2. QED
    BY <1>1, <1>5, <1>6, <1>8, <2>1
<1>12. QED
  BY <1>1, <1>9, <1>10, <1>11

-----------------------------------------------------------------------------
(* What an iterator has still before it                                     *)

(* The page the iterator is on: its copy, or the one all others see.        *)
Pinned == IF dropped = << >> THEN Held[it.leafID] ELSE dropped[1]

(* Next will come to key k.                                                 *)
Ahead(k) ==
  \/ Holds(Pinned, it.idx, k)
  \/ /\ Later(Held, NodeIds, Pinned.next, k)
     /\ dropped # << >> => Behind(Pinned, k)

(* Next has answered key k.                                                 *)
Produced(k) == \E i \in DOMAIN seen : seen[i].key = k

(* Range and Next run between two calls of the index, and look for keys of  *)
(* the range.                                                               *)
IteratorOK ==
  /\ scan \in {"closed", "findLeaf", "open", "next", "done"}
  /\ scan \in {"findLeaf", "next", "done"} => pc = "idle"
  /\ scan \in {"closed", "findLeaf"} => dropped = << >>
  /\ \E l, n : it = [start |-> it.start, end |-> it.end, leafID |-> l, idx |-> n]
  /\ it.start \in Int /\ it.end \in Int
  /\ had \subseteq {k \in Keys : it.start <= k /\ k <= it.end}
  /\ seen \in Seq([key : Int, val : Values \cup {Nil}])

(* Range is on a page for the start key, or one that leads to it.           *)
Sought ==
  scan = "findLeaf" =>
    /\ it.leafID \in NodeIds
    /\ \A k \in had : contents[k] # Nil
    /\ \E own, lev : /\ Valid(Held, NodeIds, root, own, lev, own, contents)
                     /\ it.start \in own[it.leafID]

(* The iterator is on a leaf that is written, or on a copy of one.          *)
PinOK ==
  /\ it.leafID \in NodeIds /\ it.idx \in Nat /\ it.idx >= 1
  /\ dropped = << >> => Held[it.leafID].leaf /\ ~Awaited(it.leafID)
  /\ dropped # << >> =>
       LET p == dropped[1]
       IN  /\ IsPage(p) /\ Increasing(p)
           /\ p.next # InvalidPage => p.next \in NodeIds /\ Held[p.next].leaf

(* No key that was there is lost: Next has answered it or will come to it.  *)
NoneLost ==
  scan \in {"open", "next"} /\ pc # "corrupt" =>
    /\ PinOK
    /\ \A k \in had : Produced(k) \/ Ahead(k)

(* The inductive invariant behind NothingSkipped.                           *)
ScanInv == MapInv /\ IteratorOK /\ Sought /\ NoneLost /\ NothingSkipped

(* The page in the hands of Next, which runs while no call does.            *)
LEMMA CurrIsPinned ==
  ASSUME MapInv, pc = "idle", PinOK
  PROVE  /\ CurrPg = Pinned
         /\ IsPage(Pinned) /\ Increasing(Pinned)
         /\ NumCells(Pinned) \in Nat
         /\ \A i \in 1 .. NumCells(Pinned) : Pinned.cells[i] \in Cell
         /\ Pinned.next # InvalidPage =>
              Pinned.next \in NodeIds /\ Held[Pinned.next].leaf
<1>1. CASE dropped = << >>
  <2>1. /\ it.leafID \in NodeIds /\ Held[it.leafID].leaf
        /\ Pinned = Held[it.leafID]
    BY <1>1 DEF PinOK, Pinned
  <2>2. CurrPg = Pinned
    BY <1>1, <2>1, ReadHeld DEF CurrPg
  <2>3. PICK own, lev : LeafTable(own, lev)
    BY TableOfLeaves
  <2>4. IsPage(Pinned) /\ Increasing(Pinned)
    BY <2>1, <2>3 DEF LeafTable
  <2>5. Pinned.next # InvalidPage =>
          Pinned.next \in NodeIds /\ Held[Pinned.next].leaf
    BY <2>1, TreeIsChained DEF ChainOnPages
  <2>6. QED
    BY <2>2, <2>4, <2>5, CellsOfPage
<1>2. CASE dropped # << >>
  <2>1. CurrPg = Pinned /\ Pinned = dropped[1]
    BY <1>2 DEF CurrPg, Pinned
  <2>2. QED
    BY <1>2, <2>1, CellsOfPage DEF PinOK
<1>3. QED
  BY <1>1, <1>2

(* At the beginning there is no iterator.                                   *)
LEMMA RangeInitScans ==
  ASSUME ~WritesMayFail, RangeInit
  PROVE  ScanInv
<1>1. MapInv
  BY InitMaps DEF RangeInit
<1>2. IteratorOK
  <2>1. /\ scan = "closed" /\ dropped = << >> /\ had = {} /\ seen = << >>
        /\ it = [start |-> 0, end |-> 0, leafID |-> 0, idx |-> 0]
    BY DEF RangeInit, NoRange
  <2>2. seen \in Seq([key : Int, val : Values \cup {Nil}])
    BY <2>1
  <2>3. /\ it.start = 0 /\ it.end = 0
        /\ \E l, n : it = [start |-> it.start, end |-> it.end,
                          leafID |-> l, idx |-> n]
    BY <2>1
  <2>4. had \subseteq {k \in Keys : it.start <= k /\ k <= it.end}
    BY <2>1
  <2>5. QED
    BY <2>1, <2>2, <2>3, <2>4 DEF IteratorOK
<1>3. QED
  BY <1>1, <1>2 DEF RangeInit, ScanInv, Sought, NoneLost, NothingSkipped

(* Range begins at the root.                                                *)
LEMMA OpenRangeScans ==
  ASSUME ScanInv, NEW s \in Bounds, NEW e \in Bounds, OpenRange(s, e),
         UNCHANGED vars
  PROVE  ScanInv'
<1>1. /\ pc = "idle" /\ scan = "closed" /\ scan' = "findLeaf"
      /\ it' = [start |-> s, end |-> e, leafID |-> root, idx |-> 0]
      /\ had' = {k \in Keys : contents[k] # Nil /\ s <= k /\ k <= e}
      /\ UNCHANGED <<dropped, seen>>
  BY DEF OpenRange, Stored
<1>2. s \in Int /\ e \in Int
  BY CallerAssumption
<1>3. /\ MapInv' /\ Held' = Held /\ NodeIds' = NodeIds
      /\ UNCHANGED <<pc, root, contents>>
  BY TreeStays DEF ScanInv
<1>4. IteratorOK'
  BY <1>1, <1>2, <1>3 DEF ScanInv, IteratorOK
<1>5. Sought'
  <2>1. PICK own, lev, left : Arranged(own, lev, left)
    BY <1>1 DEF ScanInv, MapInv
  <2>2. Valid(Held, NodeIds, root, own, lev, own, contents)
    BY <1>1, <2>1 DEF Arranged, TreeSound, Want, Inserted, Pending
  <2>3. root \in NodeIds /\ s \in own[root]
    BY <1>2, <2>2 DEF Valid, Spread
  <2>4. QED
    BY <1>1, <1>3, <2>2, <2>3 DEF Sought
<1>6. QED
  BY <1>1, <1>3, <1>4, <1>5 DEF ScanInv, NoneLost, NothingSkipped

(* A key not smaller than s is at the position of s or behind it.           *)
LEMMA FromPosition ==
  ASSUME NEW p, IsPage(p), Increasing(p), NEW s \in Int,
         NEW j \in 1 .. NumCells(p), s <= p.cells[j].key
  PROVE  Holds(p, FindIdx(p, s, TRUE), p.cells[j].key)
<1> DEFINE i == FindIdx(p, s, TRUE)
           n == NumCells(p)
<1>1. Ordered(p) /\ n \in Nat /\ p.cells[j].key \in Int
  BY IncreasingOrdered, CellsOfPage
<1>2. \A m \in 1 .. i - 1 : p.cells[m].key < s
  BY <1>1, FindIdxSplitsPage
<1>3. i \in 1 .. n + 1
  BY FindIdxIsBorder
<1> HIDE DEF i, n
<1>4. j \in 1 .. n
  BY DEF n
<1>5. j \in 1 .. i - 1 => FALSE
  BY <1>1, <1>2
<1>6. j \in i .. n
  BY <1>1, <1>3, <1>4, <1>5
<1>7. QED
  BY <1>6 DEF Holds, i, n

(* On a leaf for the start key, every key of the range is at the position   *)
(* of the start key, behind it, or on a leaf to the right.                  *)
LEMMA LeafHasRange ==
  ASSUME MapInv, NEW own, NEW lev,
         Valid(Held, NodeIds, root, own, lev, own, contents),
         NEW x \in NodeIds, Held[x].leaf, NEW s \in own[x],
         NEW i, i = FindIdx(Held[x], s, TRUE),
         NEW k \in Keys, contents[k] # Nil, s <= k
  PROVE  Holds(Held[x], i, k) \/ Later(Held, NodeIds, Held[x].next, k)
<1> DEFINE p == Held[x]
<1>1. /\ IsPage(p) /\ Increasing(p) /\ p.leaf /\ LeafOK(p, own[x], contents)
      /\ NextOK(p, x, NodeIds, own, lev)
      /\ k \in Int /\ s \in Int
  BY KeysAssumption DEF Valid, Spread, PageOK
<1> HIDE DEF p
<1>2. CASE k \in own[x]
  <2>1. PICK j \in 1 .. NumCells(p) : p.cells[j].key = k
    BY <1>1, <1>2 DEF LeafOK
  <2>2. Holds(p, FindIdx(p, s, TRUE), p.cells[j].key)
    BY <1>1, <2>1, FromPosition
  <2>3. QED
    BY <2>1, <2>2 DEF p
<1>3. CASE k \notin own[x]
  <2>1. s # k /\ s < k
    BY <1>1, <1>3
  <2>2. Past(own[x], k)
    BY <1>3, <2>1 DEF Past
  <2>3. p.next \in NodeIds /\ From(own[p.next], k)
    BY <1>1, <2>2, BPTreeAssumption DEF NextOK, Adjoin
  <2>4. QED
    BY <2>3, ChainReaches DEF p
<1>4. QED
  BY <1>2, <1>3

(* Range goes down, and stops on the leaf of the start key.                 *)
LEMMA RangeDescendScans ==
  ASSUME ScanInv, RangeDescend, UNCHANGED vars
  PROVE  ScanInv'
<1> SUFFICES ASSUME NEW p, p = PageOf(it.leafID),
                    NEW i, i = FindIdx(p, it.start, p.leaf)
             PROVE  ScanInv'
  OBVIOUS
<1>1. /\ scan = "findLeaf"
      /\ IF p.leaf THEN it' = [it EXCEPT !.idx = i] /\ scan' = "open"
         ELSE it' = [it EXCEPT !.leafID = ChildAt(p, i)] /\ scan' = scan
      /\ UNCHANGED <<dropped, seen, had>>
  BY DEF RangeDescend
<1>2. /\ MapInv /\ pc = "idle" /\ dropped = << >>
      /\ had \subseteq {k \in Keys : it.start <= k /\ k <= it.end}
      /\ it.leafID \in NodeIds /\ \A k \in had : contents[k] # Nil
  BY <1>1 DEF ScanInv, IteratorOK, Sought
<1>3. /\ MapInv' /\ Held' = Held /\ NodeIds' = NodeIds
      /\ UNCHANGED <<pc, root, contents>>
  BY <1>2, TreeStays
<1>4. PICK own, lev : /\ Valid(Held, NodeIds, root, own, lev, own, contents)
                      /\ it.start \in own[it.leafID]
  BY <1>1 DEF ScanInv, Sought
<1>5. p = Held[it.leafID]
  BY <1>2, ReadHeld
<1> DEFINE x == it.leafID
           s == it.start
<1>6. /\ IsPage(p) /\ Increasing(p) /\ p.leaf \in BOOLEAN
      /\ ChildrenOK(p, x, NodeIds, own, lev, own)
      /\ own[x] \subseteq Int /\ s \in Int
  BY <1>2, <1>4, <1>5 DEF Valid, Spread, PageOK, IsPage
<1>7. i \in 1 .. NumCells(p) + 1 /\ NumCells(p) \in Nat
  <2>1. i = FindIdx(p, s, p.leaf)
    OBVIOUS
  <2> HIDE DEF s, x
  <2>2. QED
    BY <1>6, <2>1, FindIdxIsBorder, CellsOfPage
<1>8. \E l, n : it = [start |-> it.start, end |-> it.end, leafID |-> l, idx |-> n]
  BY DEF ScanInv, IteratorOK
<1>9. CASE p.leaf
  <2>1. /\ scan' = "open" /\ it'.leafID = x /\ it'.idx = i
        /\ it'.start = it.start /\ it'.end = it.end
        /\ it' = [start |-> it'.start, end |-> it'.end, leafID |-> x, idx |-> i]
    BY <1>1, <1>8, <1>9
  <2>2. IteratorOK'
    BY <1>1, <1>2, <1>3, <2>1 DEF ScanInv, IteratorOK
  <2>3. PinOK'
    <3>1. it'.leafID \in NodeIds' /\ it'.idx \in Nat /\ it'.idx >= 1
      BY <1>2, <1>3, <1>7, <2>1
    <3>2. dropped' = << >> /\ Held'[it'.leafID].leaf
      BY <1>1, <1>2, <1>3, <1>5, <1>9, <2>1
    <3>3. ~Awaited(it.leafID)'
      BY <1>2, <1>3 DEF Awaited
    <3>4. QED
      BY <2>1, <3>1, <3>2, <3>3 DEF PinOK, Awaited
  <2>4. ASSUME NEW k \in had'
        PROVE  Ahead(k)'
    <3>1. k \in Keys /\ contents[k] # Nil /\ s <= k
      BY <1>1, <1>2, <2>4
    <3>2. i = FindIdx(Held[x], s, TRUE)
      <4>1. p.leaf = TRUE
        BY <1>6, <1>9
      <4>2. QED
        BY <1>5, <4>1
    <3>3. Holds(Held[x], i, k) \/ Later(Held, NodeIds, Held[x].next, k)
      <4>1. x \in NodeIds /\ Held[x].leaf /\ s \in own[x]
        BY <1>2, <1>4, <1>5, <1>9
      <4> HIDE DEF x, s
      <4>2. QED
        BY <1>2, <1>4, <3>1, <3>2, <4>1, LeafHasRange
    <3>4. dropped' = << >> /\ Pinned' = Held[x]
      BY <1>1, <1>2, <1>3, <2>1 DEF Pinned
    <3>5. QED
      BY <1>3, <2>1, <3>3, <3>4 DEF Ahead
  <2>5. QED
    BY <1>3, <2>1, <2>2, <2>3, <2>4 DEF ScanInv, Sought, NoneLost, NothingSkipped
<1>10. CASE ~p.leaf
  <2> SUFFICES ASSUME NEW c, c = ChildAt(p, i)
               PROVE  ScanInv'
    OBVIOUS
  <2>1. /\ scan' = "findLeaf" /\ it'.leafID = c
        /\ it'.start = it.start /\ it'.end = it.end /\ it'.idx = it.idx
        /\ it' = [start |-> it'.start, end |-> it'.end, leafID |-> c,
                  idx |-> it'.idx]
    BY <1>1, <1>8, <1>10
  <2>2. IteratorOK'
    BY <1>1, <1>2, <1>3, <2>1 DEF ScanInv, IteratorOK
  <2>3. c \in NodeIds /\ s \in own[c]
    <3> HIDE DEF x
    <3>1. ChildOK(p, i, x, NodeIds, own, lev, own)
      BY <1>6, <1>7, <1>10 DEF ChildrenOK
    <3>2. i = Way(p, s)
      <4>1. p.leaf = FALSE
        BY <1>6, <1>10
      <4>2. QED
        BY <4>1 DEF Way
    <3>3. s \in own[x]
      BY <1>4 DEF x
    <3> HIDE DEF s
    <3>4. ~KeyOn(p, i, s)
      BY <1>6, <1>10, <3>2, SeparatorPassed, BPTreeAssumption
    <3>5. s \in Share(p, own[x], i)
      BY <1>6, <1>7, <3>2, <3>3, <3>4, ShareIsFound
    <3>6. QED
      BY <3>1, <3>5 DEF ChildOK
  <2>4. Sought'
    BY <1>1, <1>2, <1>3, <1>4, <2>1, <2>3 DEF Sought
  <2>5. QED
    BY <1>3, <2>1, <2>2, <2>4 DEF ScanInv, NoneLost, NothingSkipped
<1>11. QED
  BY <1>6, <1>9, <1>10

(* Next begins: the iterator is on a page.                                  *)
LEMMA CallNextScans ==
  ASSUME ScanInv, CallNext, UNCHANGED vars
  PROVE  ScanInv'
<1>1. /\ pc = "idle" /\ scan = "open"
      /\ scan' = IF it.leafID = InvalidPage THEN "done" ELSE "next"
      /\ UNCHANGED <<it, dropped, seen, had>>
  BY DEF CallNext
<1>2. MapInv /\ PinOK /\ \A k \in had : Produced(k) \/ Ahead(k)
  BY <1>1 DEF ScanInv, NoneLost
<1>3. /\ MapInv' /\ Held' = Held /\ NodeIds' = NodeIds
      /\ UNCHANGED <<pc, root, contents>>
      /\ \A y : Awaited(y)' <=> Awaited(y)
  BY <1>2, TreeStays
<1>4. scan' = "next"
  <2>1. InvalidPage \notin NodeIds
    BY <1>1, <1>2, TreeIsChained DEF ChainOnPages
  <2>2. QED
    BY <1>1, <1>2, <2>1 DEF PinOK
<1>5. IteratorOK'
  BY <1>1, <1>3, <1>4 DEF ScanInv, IteratorOK
<1>6. PinOK'
  BY <1>1, <1>2, <1>3 DEF PinOK
<1>7. \A k \in had' : Produced(k)' \/ Ahead(k)'
  BY <1>1, <1>2, <1>3 DEF Produced, Ahead, Pinned
<1>8. QED
  BY <1>3, <1>4, <1>5, <1>6, <1>7 DEF ScanInv, Sought, NoneLost, NothingSkipped

(* What lies on the leaves to the right is greater than what is here.       *)
LEMMA RightIsGreater ==
  ASSUME MapInv, pc # "corrupt", PinOK, NEW k,
         Later(Held, NodeIds, Pinned.next, k), dropped # << >> => Behind(Pinned, k)
  PROVE  Behind(Pinned, k)
<1>1. CASE dropped = << >>
  <2>1. Pinned = Held[it.leafID] /\ it.leafID \in NodeIds /\ Held[it.leafID].leaf
    BY <1>1 DEF Pinned, PinOK
  <2>2. QED
    BY <2>1, LaterIsGreater
<1>2. QED
  BY <1>1

(* Next answers the key it is on; at a key behind the range every key of the*)
(* range has been answered.                                                 *)
LEMMA NextCellScans ==
  ASSUME ScanInv, NextCell, UNCHANGED vars
  PROVE  ScanInv'
<1> SUFFICES ASSUME NEW i, i = it.idx, NEW c, c = CurrPg.cells[i],
                    NEW p, p = Pinned
             PROVE  ScanInv'
  OBVIOUS
<1>1. /\ scan = "next" /\ i <= NumCells(CurrPg)
      /\ IF c.key > it.end THEN scan' = "done" /\ UNCHANGED <<it, seen>>
         ELSE /\ seen' = Append(seen, [key |-> c.key, val |-> c.val])
              /\ it' = [it EXCEPT !.idx = @ + 1]
              /\ scan' = "open"
      /\ UNCHANGED <<dropped, had>>
  BY DEF NextCell
<1>2. /\ MapInv /\ pc = "idle" /\ PinOK
      /\ \A k \in had : Produced(k) \/ Ahead(k)
      /\ had \subseteq {k \in Keys : it.start <= k /\ k <= it.end}
      /\ it.end \in Int
      /\ seen \in Seq([key : Int, val : Values \cup {Nil}])
  BY <1>1 DEF ScanInv, IteratorOK, NoneLost
<1>3. /\ MapInv' /\ Held' = Held /\ NodeIds' = NodeIds
      /\ UNCHANGED <<pc, root, contents>>
      /\ \A y : Awaited(y)' <=> Awaited(y)
  BY <1>2, TreeStays
<1>4. /\ CurrPg = p /\ IsPage(p) /\ Increasing(p) /\ NumCells(p) \in Nat
      /\ \A n \in 1 .. NumCells(p) : p.cells[n] \in Cell
  BY <1>2, CurrIsPinned
<1>5. i \in 1 .. NumCells(p)
  BY <1>1, <1>2, <1>4 DEF PinOK
<1>6. c = p.cells[i] /\ c.key \in Int /\ c.val \in Values \cup {Nil}
  <2>1. c = p.cells[i] /\ c \in Cell
    BY <1>4, <1>5
  <2>2. QED
    BY <2>1 DEF Cell
<1>7. Keys \subseteq Int
  BY KeysAssumption
<1>8. CASE c.key > it.end
  <2>1. scan' = "done" /\ UNCHANGED <<it, seen, dropped, had>>
    BY <1>1, <1>8
  <2>2. ASSUME NEW k \in had
        PROVE  Produced(k)
    <3>1. SUFFICES ASSUME Ahead(k)
                   PROVE  FALSE
      BY <1>2
    <3>2. k < c.key /\ k \in Int
      BY <1>2, <1>6, <1>7, <1>8
    <3>3. CASE Holds(p, i, k)
      <4>1. PICK j \in i .. NumCells(p) : p.cells[j].key = k
        BY <3>3 DEF Holds
      <4>2. CASE j = i
        BY <1>6, <3>2, <4>1, <4>2
      <4>3. CASE j # i
        <5>1. j \in 1 .. NumCells(p) /\ i < j
          BY <1>4, <1>5, <4>1, <4>3
        <5>2. c.key < k
          BY <1>4, <1>5, <1>6, <4>1, <5>1 DEF Increasing
        <5>3. QED
          BY <1>6, <3>2, <5>2
      <4>4. QED
        BY <4>2, <4>3
    <3>4. CASE ~Holds(p, i, k)
      <4>1. Behind(p, k)
        BY <1>2, <3>1, <3>4, RightIsGreater DEF Ahead
      <4>2. c.key < k
        BY <1>5, <1>6, <4>1 DEF Behind
      <4>3. QED
        BY <1>6, <3>2, <4>2
    <3>5. QED
      BY <3>3, <3>4
  <2>3. IteratorOK'
    BY <1>2, <1>3, <2>1 DEF ScanInv, IteratorOK
  <2>4. NothingSkipped'
    BY <2>1, <2>2 DEF NothingSkipped, Produced
  <2>5. QED
    BY <1>3, <2>1, <2>3, <2>4 DEF ScanInv, Sought, NoneLost
<1>9. CASE ~(c.key > it.end)
  <2> SUFFICES ASSUME NEW r, r = [key |-> c.key, val |-> c.val]
               PROVE  ScanInv'
    OBVIOUS
  <2>1. \E l, n : it = [start |-> it.start, end |-> it.end, leafID |-> l, idx |-> n]
    BY DEF ScanInv, IteratorOK
  <2>2. /\ scan' = "open" /\ UNCHANGED <<dropped, had>>
        /\ seen' = Append(seen, r)
        /\ it'.start = it.start /\ it'.end = it.end
        /\ it'.leafID = it.leafID /\ it'.idx = i + 1
        /\ it' = [start |-> it'.start, end |-> it'.end, leafID |-> it'.leafID,
                  idx |-> it'.idx]
    BY <1>1, <1>9, <2>1
  <2>3. /\ seen' \in Seq([key : Int, val : Values \cup {Nil}])
        /\ Len(seen') = Len(seen) + 1 /\ Len(seen) \in Nat
        /\ seen'[Len(seen) + 1] = r
        /\ \A n \in 1 .. Len(seen) : seen'[n] = seen[n]
        /\ DOMAIN seen = 1 .. Len(seen) /\ DOMAIN seen' = 1 .. Len(seen')
    <3>1. r \in [key : Int, val : Values \cup {Nil}]
      BY <1>6
    <3>2. QED
      BY <1>2, <2>2, <3>1
  <2>4. IteratorOK'
    BY <1>2, <1>3, <2>2, <2>3 DEF ScanInv, IteratorOK
  <2>5. PinOK'
    <3>1. i + 1 \in Nat /\ i + 1 >= 1
      BY <1>4, <1>5
    <3>2. QED
      BY <1>2, <1>3, <2>2, <3>1 DEF PinOK
  <2>6. ASSUME NEW k \in had
        PROVE  Produced(k)' \/ Ahead(k)'
    <3>1. CASE Produced(k)
      <4>1. PICK n \in 1 .. Len(seen) : seen[n].key = k
        BY <2>3, <3>1 DEF Produced
      <4>2. n \in DOMAIN seen' /\ seen'[n].key = k
        BY <2>3, <4>1
      <4>3. QED
        BY <4>2 DEF Produced
    <3>2. CASE Holds(p, i, k)
      <4>1. PICK j \in i .. NumCells(p) : p.cells[j].key = k
        BY <3>2 DEF Holds
      <4>2. CASE j = i
        <5>1. r.key = k
          BY <1>6, <4>1, <4>2
        <5>2. Len(seen) + 1 \in DOMAIN seen'
          BY <2>3
        <5>3. Produced(k)'
          BY <2>3, <5>1, <5>2 DEF Produced
        <5>4. QED
          BY <5>3
      <4>3. CASE j # i
        <5>1. j \in i + 1 .. NumCells(p)
          BY <1>4, <1>5, <4>1, <4>3
        <5>2. Holds(p, i + 1, k)
          BY <4>1, <5>1 DEF Holds
        <5>3. Pinned' = p
          BY <1>3, <2>2 DEF Pinned
        <5>4. QED
          BY <2>2, <5>2, <5>3 DEF Ahead
      <4>4. QED
        BY <4>2, <4>3
    <3>3. CASE /\ Later(Held, NodeIds, p.next, k)
               /\ dropped # << >> => Behind(p, k)
      <4>1. Pinned' = p
        BY <1>3, <2>2 DEF Pinned
      <4>2. QED
        BY <1>3, <2>2, <3>3, <4>1 DEF Ahead
    <3>4. QED
      BY <1>2, <3>1, <3>2, <3>3 DEF Ahead
  <2>7. QED
    BY <1>3, <2>2, <2>4, <2>5, <2>6 DEF ScanInv, Sought, NoneLost, NothingSkipped
<1>10. QED
  BY <1>8, <1>9

(* An exhausted leaf has nothing ahead: what is, is on the next or to its   *)
(* right.                                                                   *)
LEMMA NextLeafScans ==
  ASSUME ScanInv, NextLeaf, UNCHANGED vars
  PROVE  ScanInv'
<1> SUFFICES ASSUME NEW p, p = Pinned, NEW n, n = p.next
             PROVE  ScanInv'
  OBVIOUS
<1>1. scan = "next"
  BY DEF NextLeaf
<1>2. /\ MapInv /\ pc = "idle" /\ PinOK
      /\ \A k \in had : Produced(k) \/ Ahead(k)
  BY <1>1 DEF ScanInv, IteratorOK, NoneLost
<1>3. /\ CurrPg = p /\ NumCells(p) \in Nat
      /\ n # InvalidPage => n \in NodeIds /\ Held[n].leaf
  BY <1>2, CurrIsPinned
<1>4. /\ it.idx > NumCells(p)
      /\ it' = [it EXCEPT !.leafID = n, !.idx = 1]
      /\ scan' = IF n = InvalidPage THEN "done" ELSE "next"
      /\ dropped' = << >>
      /\ UNCHANGED <<seen, had>>
  BY <1>3 DEF NextLeaf
<1>5. /\ MapInv' /\ Held' = Held /\ NodeIds' = NodeIds
      /\ UNCHANGED <<pc, root, contents>>
      /\ \A y : Awaited(y)' <=> Awaited(y)
  BY <1>2, TreeStays
<1>6. ChainOnPages(Held, NodeIds)
  BY <1>2, TreeIsChained
<1>7. ASSUME NEW k \in had, ~Produced(k)
      PROVE  Later(Held, NodeIds, n, k)
  <2>1. ~Holds(p, it.idx, k)
    BY <1>2, <1>3, <1>4 DEF Holds, PinOK
  <2>2. QED
    BY <1>2, <1>7, <2>1 DEF Ahead
<1>8. \E l, m : it = [start |-> it.start, end |-> it.end, leafID |-> l, idx |-> m]
  BY DEF ScanInv, IteratorOK
<1>9. /\ it'.start = it.start /\ it'.end = it.end
      /\ it'.leafID = n /\ it'.idx = 1
      /\ it' = [start |-> it'.start, end |-> it'.end, leafID |-> n, idx |-> 1]
  BY <1>4, <1>8
<1>10. scan' \in {"next", "done"}
  BY <1>4
<1>11. IteratorOK'
  BY <1>2, <1>4, <1>5, <1>9, <1>10 DEF ScanInv, IteratorOK
<1>12. CASE n = InvalidPage
  <2>1. \A k \in had : Produced(k)
    BY <1>6, <1>7, <1>12 DEF Later, ChainOnPages
  <2>2. NothingSkipped' /\ scan' = "done"
    BY <1>4, <1>12, <2>1 DEF NothingSkipped, Produced
  <2>3. QED
    BY <1>5, <1>11, <2>2 DEF ScanInv, Sought, NoneLost
<1>13. CASE n # InvalidPage
  <2>1. scan' = "next"
    BY <1>4, <1>13
  <2>2. PinOK'
    <3>1. ~Awaited(n)'
      BY <1>2, <1>5 DEF Awaited
    <3>2. it'.leafID \in NodeIds' /\ Held'[n].leaf
      BY <1>3, <1>5, <1>9, <1>13
    <3>3. QED
      BY <1>4, <1>9, <3>1, <3>2 DEF PinOK, Awaited
  <2>3. ASSUME NEW k \in had'
        PROVE  Produced(k)' \/ Ahead(k)'
    <3>1. CASE Produced(k)
      BY <1>4, <3>1 DEF Produced
    <3>2. CASE ~Produced(k)
      <4>1. Holds(Held[n], 1, k) \/ Later(Held, NodeIds, Held[n].next, k)
        BY <1>3, <1>4, <1>6, <1>7, <1>13, <3>2, LaterGoesOn
      <4>2. Pinned' = Held[n]
        BY <1>4, <1>5, <1>9 DEF Pinned
      <4>3. QED
        BY <1>4, <1>5, <1>9, <4>1, <4>2 DEF Ahead
    <3>3. QED
      BY <3>1, <3>2
  <2>4. QED
    BY <1>5, <1>11, <2>1, <2>2, <2>3 DEF ScanInv, Sought, NoneLost, NothingSkipped
<1>14. QED
  BY <1>12, <1>13

(* A copy of the page has the same keys ahead.                              *)
LEMMA DropPinnedScans ==
  ASSUME ScanInv, DropPinned, UNCHANGED vars
  PROVE  ScanInv'
<1> SUFFICES ASSUME NEW p, p = PageOf(it.leafID)
             PROVE  ScanInv'
  OBVIOUS
<1>1. /\ scan = "open" /\ dropped = << >>
      /\ dropped' = <<p>> /\ dropped' # << >> /\ dropped'[1] = p
      /\ UNCHANGED <<scan, it, seen, had>>
  BY DEF DropPinned
<1>2. MapInv
  BY DEF ScanInv
<1>3. /\ MapInv' /\ Held' = Held /\ NodeIds' = NodeIds
      /\ UNCHANGED <<pc, root, contents>>
      /\ \A y : Awaited(y)' <=> Awaited(y)
  BY <1>2, TreeStays
<1>4. IteratorOK' /\ Sought' /\ NothingSkipped'
  BY <1>1, <1>3 DEF ScanInv, IteratorOK, Sought, NothingSkipped
<1>5. SUFFICES ASSUME pc # "corrupt"
               PROVE  PinOK' /\ \A k \in had : Produced(k)' \/ Ahead(k)'
  BY <1>1, <1>3, <1>4 DEF ScanInv, NoneLost
<1>6. PinOK /\ \A k \in had : Produced(k) \/ Ahead(k)
  BY <1>1, <1>5 DEF ScanInv, NoneLost
<1>7. /\ it.leafID \in NodeIds /\ Held[it.leafID].leaf /\ ~Awaited(it.leafID)
  BY <1>1, <1>6 DEF PinOK
<1>8. p = Held[it.leafID]
  <2>1. p = file[it.leafID]
    BY <1>2 DEF MapInv, PageOf
  <2>2. QED
    BY <1>7, <2>1 DEF Held
<1>9. p = Pinned /\ Pinned' = p
  BY <1>1, <1>8 DEF Pinned
<1>10. /\ IsPage(p) /\ Increasing(p)
       /\ p.next # InvalidPage => p.next \in NodeIds /\ Held[p.next].leaf
  <2>1. PICK own, lev : LeafTable(own, lev)
    BY <1>2, <1>5, TableOfLeaves
  <2>2. ChainOnPages(Held, NodeIds)
    BY <1>2, <1>5, TreeIsChained
  <2>3. QED
    BY <1>7, <1>8, <2>1, <2>2 DEF LeafTable, ChainOnPages
<1>11. PinOK'
  BY <1>1, <1>3, <1>6, <1>10 DEF PinOK
<1>12. ASSUME NEW k \in had
       PROVE  Produced(k)' \/ Ahead(k)'
  <2>1. CASE Produced(k)
    BY <1>1, <2>1 DEF Produced
  <2>2. CASE Holds(p, it.idx, k)
    BY <1>1, <1>9, <2>2 DEF Ahead
  <2>3. CASE Later(Held, NodeIds, p.next, k)
    <3>1. Behind(p, k)
      BY <1>2, <1>5, <1>7, <1>8, <2>3, LaterIsGreater
    <3>2. QED
      BY <1>1, <1>3, <1>9, <2>3, <3>1 DEF Ahead
  <2>4. QED
    BY <1>6, <1>9, <2>1, <2>2, <2>3 DEF Ahead
<1>13. QED
  BY <1>11, <1>12

(* The iterator is given up.                                                *)
LEMMA CloseScanScans ==
  ASSUME ScanInv, CloseScan, UNCHANGED vars
  PROVE  ScanInv'
<1>1. /\ scan' = "closed" /\ dropped' = << >> /\ seen' = << >> /\ had' = {}
      /\ it' = [start |-> 0, end |-> 0, leafID |-> 0, idx |-> 0]
  BY DEF CloseScan, NoRange
<1>2. MapInv'
  BY TreeStays DEF ScanInv
<1>3. IteratorOK'
  <2>1. seen' \in Seq([key : Int, val : Values \cup {Nil}])
    BY <1>1
  <2>2. /\ it'.start = 0 /\ it'.end = 0
        /\ \E l, n : it' = [start |-> it'.start, end |-> it'.end,
                           leafID |-> l, idx |-> n]
    BY <1>1
  <2>3. had' \subseteq {k \in Keys : it'.start <= k /\ k <= it'.end}
    BY <1>1
  <2>4. /\ scan' \in {"closed", "findLeaf", "open", "next", "done"}
        /\ ~(scan' \in {"findLeaf", "next", "done"})
        /\ dropped' = << >>
        /\ it'.start \in Int /\ it'.end \in Int
    BY <1>1, <2>2
  <2>5. QED
    BY <2>1, <2>2, <2>3, <2>4 DEF IteratorOK
<1>4. QED
  BY <1>1, <1>2, <1>3 DEF ScanInv, Sought, NoneLost, NothingSkipped

(* What the index does while an iterator is open moves no key behind it.    *)
LEMMA IndexStepScans ==
  ASSUME DeleteKeys = {}, ~Ousts, ScanInv, IndexStep \/ UNCHANGED <<vars, rvars>>
  PROVE  ScanInv'
<1>1. CASE UNCHANGED vars /\ UNCHANGED <<scan, it, dropped, seen, had>>
  <2>1. /\ MapInv' /\ Held' = Held /\ NodeIds' = NodeIds
        /\ UNCHANGED <<pc, root, contents>>
        /\ \A y : Awaited(y)' <=> Awaited(y)
    BY <1>1, TreeStays DEF ScanInv
  <2>2. IteratorOK' /\ Sought' /\ NothingSkipped'
    BY <1>1, <2>1 DEF ScanInv, IteratorOK, Sought, NothingSkipped
  <2>3. PinOK => PinOK'
    BY <1>1, <2>1 DEF PinOK
  <2>4. \A k : Produced(k) \/ Ahead(k) => Produced(k)' \/ Ahead(k)'
    BY <1>1, <2>1 DEF Produced, Ahead, Pinned
  <2>5. QED
    BY <1>1, <2>1, <2>2, <2>3, <2>4 DEF ScanInv, NoneLost
<1>2. CASE IndexStep
  <2>1. /\ scan \in {"closed", "open"} /\ Next
        /\ UNCHANGED <<scan, it, dropped, seen, had>>
    BY <1>2 DEF IndexStep, MayCall
  <2>2. MapInv /\ MapInv'
    BY <2>1, NextMaps DEF ScanInv
  <2>3. IteratorOK' /\ Sought' /\ NothingSkipped'
    BY <2>1 DEF ScanInv, IteratorOK, Sought, NothingSkipped
  <2>4. SUFFICES ASSUME scan = "open", pc' # "corrupt"
                 PROVE  PinOK' /\ \A k \in had : Produced(k)' \/ Ahead(k)'
    BY <2>1, <2>2, <2>3 DEF ScanInv, NoneLost
  <2>5. pc # "corrupt"
    <3>1. SUFFICES ASSUME pc = "corrupt"
                   PROVE  FALSE
      OBVIOUS
    <3>2. DOMAIN cached = {}
      BY <2>2 DEF MapInv
    <3>3. ~Engine
      BY <3>1, <3>2
         DEF Engine, InsertStep, Insert, InsertOverwrite, InsertInLeaf, InsertDescend,
             WriteRight, InsertSplit, NewRoot, WriteHeader, ReturnInsert
    <3>4. ~GetStep /\ \A k \in Keys : ~Get(k)
      BY <3>1 DEF Get, GetStep, FindLeafDescend, FindLeafDone, ScanHit, ScanPast,
                  ScanNext, ReturnGet
    <3>5. QED
      BY <2>1, <3>3, <3>4 DEF Next
  <2>6. PinOK /\ \A k \in had : Produced(k) \/ Ahead(k)
    BY <2>4, <2>5 DEF ScanInv, NoneLost
  <2> DEFINE H == Held
             G == Held'
             ids == NodeIds
             jds == NodeIds'
             x == it.leafID
             i == it.idx
  <2>7. /\ LeavesMove(H, ids, G, jds)
        /\ ChainOnPages(H, ids) /\ ChainOnPages(G, jds)
    <3>1. LeavesMove(Held, NodeIds, Held', NodeIds')
      BY <2>1, <2>2, <2>4, <2>5, StepMoves
    <3>2. ChainOnPages(Held, NodeIds)
      BY <2>2, <2>5, TreeIsChained
    <3>3. ChainOnPages(Held', NodeIds')
      BY <2>2, <2>4, TreeIsChainedNext
    <3>4. QED
      BY <3>1, <3>2, <3>3
  <2>8. x \in ids /\ i \in Nat /\ i >= 1
    BY <2>6 DEF PinOK
  <2>9. \A k : Later(H, ids, Pinned.next, k) => Later(G, jds, Pinned.next, k)
    <3> DEFINE n == Pinned.next
    <3> HIDE DEF n, H, G, ids, jds
    <3>1. \A k : Later(H, ids, n, k) => Later(G, jds, n, k)
      BY <2>7, LaterMoves
    <3>2. QED
      BY <3>1 DEF n, H, G, ids, jds
  <2>10. ids \subseteq jds /\ \A y \in ids : H[y].leaf => G[y].leaf
    <3>1. \A y \in ids : IsPage(H[y])
      BY <2>7 DEF ChainOnPages
    <3>2. CASE LeavesKept(H, ids, G, jds)
      BY <3>2 DEF LeavesKept, Kept
    <3>3. CASE \E w, z : LeafHalved(H, ids, G, jds, w, z)
      BY <3>3 DEF LeafHalved
    <3>4. QED
      BY <2>7, <3>2, <3>3 DEF LeavesMove
  <2>11. CASE dropped = << >>
    <3>1. H[x].leaf /\ ~Awaited(x) /\ Pinned = H[x]
      BY <2>6, <2>11 DEF PinOK, Pinned
    <3>2. ~Awaited(x)'
      BY <2>1, <2>2, <2>8, <3>1, StepAwaits
    <3>3. PinOK'
      BY <2>1, <2>8, <2>10, <2>11, <3>1, <3>2 DEF PinOK, Awaited
    <3>4. Pinned' = G[x]
      BY <2>1, <2>11 DEF Pinned
    <3>5. \A k : Holds(H[x], i, k) \/ Later(H, ids, H[x].next, k) =>
                 Holds(G[x], i, k) \/ Later(G, jds, G[x].next, k)
      <4> HIDE DEF x, i, H, G, ids, jds
      <4>1. QED
        BY <2>7, <2>8, <3>1, AheadMoves
    <3>6. ASSUME NEW k \in had
          PROVE  Produced(k)' \/ Ahead(k)'
      <4>1. CASE Produced(k)
        BY <2>1, <4>1 DEF Produced
      <4>2. CASE Ahead(k)
        <5>1. Holds(G[x], i, k) \/ Later(G, jds, G[x].next, k)
          BY <3>1, <3>5, <4>2 DEF Ahead
        <5>2. QED
          BY <2>1, <2>11, <3>4, <5>1 DEF Ahead
      <4>3. QED
        BY <2>6, <4>1, <4>2
    <3>7. QED
      BY <3>3, <3>6
  <2>12. CASE dropped # << >>
    <3>1. Pinned = dropped[1] /\ Pinned' = dropped[1]
      BY <2>1, <2>12 DEF Pinned
    <3>2. PinOK'
      BY <2>1, <2>6, <2>8, <2>10, <2>12 DEF PinOK
    <3>3. ASSUME NEW k \in had
          PROVE  Produced(k)' \/ Ahead(k)'
      <4>1. CASE Produced(k)
        BY <2>1, <4>1 DEF Produced
      <4>2. CASE Ahead(k)
        BY <2>1, <2>9, <2>12, <3>1, <4>2 DEF Ahead
      <4>3. QED
        BY <2>6, <4>1, <4>2
    <3>4. QED
      BY <3>2, <3>3
  <2>13. QED
    BY <2>11, <2>12
<1>3. QED
  BY <1>1, <1>2 DEF rvars

(* Every step of the index, the caller or the iterator.                     *)
LEMMA RangeNextScans ==
  ASSUME DeleteKeys = {}
  PROVE  ScanInv /\ ~Ousts /\ [RangeNext]_<<vars, rvars>> => ScanInv'
<1> SUFFICES ASSUME ScanInv, ~Ousts, [RangeNext]_<<vars, rvars>>
             PROVE  ScanInv'
  OBVIOUS
<1>1. CASE IndexStep \/ UNCHANGED <<vars, rvars>>
  BY <1>1, IndexStepScans
<1>2. CASE \E s, e \in Bounds : OpenRange(s, e) /\ UNCHANGED vars
  BY <1>2, OpenRangeScans
<1>3. CASE ScanStep /\ UNCHANGED vars
  BY <1>3, RangeDescendScans, CallNextScans, NextCellScans, NextLeafScans,
     DropPinnedScans, CloseScanScans DEF ScanStep
<1>4. QED
  BY <1>1, <1>2, <1>3 DEF RangeNext

(* Whatever is inserted under a scan of the B+ tree, leaf splits and pages  *)
(* that the cache drops included, no key that was stored in the range when  *)
(* Range was called is missing once Next answers false.                     *)
THEOREM RangeSkipsNothing ==
  ASSUME ~WritesMayFail, DeleteKeys = {}
  PROVE  RangeSpec /\ []~Ousts => []NothingSkipped
<1>1. RangeInit => ScanInv
  BY RangeInitScans
<1>2. ScanInv /\ ~Ousts /\ [RangeNext]_<<vars, rvars>> => ScanInv'
  BY RangeNextScans
<1>3. ScanInv => NothingSkipped
  BY DEF ScanInv
<1>4. QED
  BY <1>1, <1>2, <1>3, PTL DEF RangeSpec

(* The same with values of one length, whatever the behaviour.              *)
THEOREM RangeSkipsNothingOneLength ==
  ASSUME ~WritesMayFail, DeleteKeys = {},
         \A v, w \in Values : ValLen[v] = ValLen[w]
  PROVE  RangeSpec => []NothingSkipped
<1>1. RangeInit => ScanInv
  BY RangeInitScans
<1>2. ScanInv => ~Ousts
  BY SameLengthNeverOusts DEF ScanInv
<1>3. ScanInv /\ ~Ousts /\ [RangeNext]_<<vars, rvars>> => ScanInv'
  BY RangeNextScans
<1>4. ScanInv => NothingSkipped
  BY DEF ScanInv
<1>5. QED
  BY <1>1, <1>2, <1>3, <1>4, PTL DEF RangeSpec
-----------------------------------------------------------------------------
(* A scan that nothing is inserted under                                    *)

(* The iterator's page is the tree's, also when it is a copy; what lies     *)
(* ahead is in the range or behind it, and behind all that was produced.    *)
OnwardOK ==
  /\ Held[it.leafID].leaf
  /\ dropped # << >> => dropped[1] = Held[it.leafID]
  /\ \A k \in Int : Ahead(k) => it.start <= k /\ Before(seen, k)

(* Only lookups run while the iterator is open.                             *)
AloneOK ==
  alone /\ scan # "closed" =>
    /\ pc \in {"idle", "findLeaf", "scan", "answer"}
    /\ had = Stored(it.start, it.end)
    /\ Ascending(seen, Wanted)
    /\ scan \in {"open", "next"} => OnwardOK

NoneSeen == scan \in {"closed", "findLeaf"} => seen = << >>

(* The inductive invariant behind ScanInOrder.                              *)
OrderInv == ScanInv /\ NoneSeen /\ AloneOK

(* It says that the pairs produced are the first of the range.              *)
LEMMA ScanIsInOrder == OrderInv => ScanInOrder
<1> SUFFICES ASSUME OrderInv, scan # "closed", alone
             PROVE  /\ FirstOf(seen, Wanted)
                    /\ scan = "done" => AllOf(seen, Wanted)
  BY DEF ScanInOrder
<1>1. /\ Ascending(seen, Wanted) /\ DOMAIN Wanted = had
      /\ scan \in {"findLeaf", "open", "next", "done"} /\ pc # "corrupt"
      /\ had \subseteq Int
  BY KeysAssumption DEF OrderInv, AloneOK, ScanInv, IteratorOK, Wanted, Stored
<1>2. \A k : Produced(k) <=> HasKey(seen, k)
  BY DEF Produced, HasKey
<1>3. CASE scan = "findLeaf"
  <2>1. seen = << >> /\ DOMAIN seen = {}
    BY <1>3 DEF OrderInv, NoneSeen
  <2>2. \A k : Before(seen, k)
    BY <2>1 DEF Before
  <2>3. FirstOf(seen, Wanted)
    BY <1>1, <2>2 DEF FirstOf
  <2>4. QED
    BY <1>3, <2>3
<1>4. CASE scan \in {"open", "next"}
  <2>1. \A k \in had : Produced(k) \/ Ahead(k)
    BY <1>1, <1>4 DEF OrderInv, ScanInv, NoneLost
  <2>2. \A k \in had : Ahead(k) => Before(seen, k)
    BY <1>1, <1>4 DEF OrderInv, AloneOK, OnwardOK
  <2>3. \A k \in DOMAIN Wanted : HasKey(seen, k) \/ Before(seen, k)
    BY <1>1, <1>2, <2>1, <2>2
  <2>4. FirstOf(seen, Wanted)
    BY <1>1, <2>3 DEF FirstOf
  <2>5. QED
    BY <1>4, <2>4
<1>5. CASE scan = "done"
  <2>1. \A k \in had : HasKey(seen, k)
    BY <1>5 DEF OrderInv, ScanInv, NothingSkipped, HasKey
  <2>2. QED
    BY <1>1, <2>1 DEF FirstOf, AllOf
<1>6. QED
  BY <1>1, <1>3, <1>4, <1>5

(* Nothing is produced and nothing begun at first.                          *)
LEMMA RangeInitOrders ==
  ASSUME ~WritesMayFail, RangeInit
  PROVE  OrderInv
<1>1. ScanInv
  BY RangeInitScans
<1>2. QED
  BY <1>1 DEF RangeInit, OrderInv, NoneSeen, AloneOK

(* The pairs that are to be produced stay the same.                         *)
LEMMA WantedStays ==
  ASSUME UNCHANGED contents, it'.start = it.start, it'.end = it.end
  PROVE  /\ Wanted' = Wanted
         /\ Stored(it.start, it.end)' = Stored(it.start, it.end)
BY DEF Wanted, Stored

LEMMA OpenRangeOrders ==
  ASSUME OrderInv, NEW s \in Bounds, NEW e \in Bounds, OpenRange(s, e),
         UNCHANGED vars
  PROVE  OrderInv'
<1>1. /\ pc = "idle" /\ scan = "closed" /\ scan' = "findLeaf"
      /\ it' = [start |-> s, end |-> e, leafID |-> root, idx |-> 0]
      /\ had' = Stored(s, e) /\ UNCHANGED <<dropped, seen, alone>>
  BY DEF OpenRange
<1>2. seen' = << >> /\ UNCHANGED <<pc, contents>>
  BY <1>1 DEF OrderInv, NoneSeen, vars
<1>3. ScanInv'
  BY OpenRangeScans DEF OrderInv
<1>4. had' = Stored(it.start, it.end)'
  BY <1>1, <1>2 DEF Stored
<1>5. Ascending(seen, Wanted)'
  BY <1>2 DEF Ascending
<1>6. QED
  BY <1>1, <1>2, <1>3, <1>4, <1>5 DEF OrderInv, NoneSeen, AloneOK

(* From the place of the start key on there are no smaller keys.            *)
LEMMA NoneBefore ==
  ASSUME MapInv, pc = "idle", NEW own, NEW lev,
         Valid(Held, NodeIds, root, own, lev, own, contents),
         NEW x \in NodeIds, Held[x].leaf, NEW s \in own[x],
         NEW i, i = FindIdx(Held[x], s, TRUE), NEW k,
         Holds(Held[x], i, k) \/ Later(Held, NodeIds, Held[x].next, k)
  PROVE  s <= k
<1>1. LeafTable(own, lev)
  BY DEF LeafTable, Valid, Spread, PageOK
<1>2. CASE Later(Held, NodeIds, Held[x].next, k)
  <2>1. k \in Int /\ s < k
    BY <1>1, <1>2, LaterIsPast
  <2>2. s \in Int
    BY <1>1 DEF LeafTable
  <2>3. QED
    BY <2>1, <2>2
<1>3. CASE Holds(Held[x], i, k)
  <2> SUFFICES ASSUME NEW p, p = Held[x]
               PROVE  s <= k
    OBVIOUS
  <2>1. IsPage(p) /\ Ordered(p) /\ s \in Int
    BY <1>1, IncreasingOrdered DEF LeafTable
  <2>2. \A j \in FindIdx(p, s, TRUE) .. NumCells(p) : s <= p.cells[j].key
    BY <2>1, FindIdxSplitsPage
  <2>3. PICK j \in i .. NumCells(p) : p.cells[j].key = k
    BY <1>3 DEF Holds
  <2>4. QED
    BY <2>2, <2>3
<1>4. QED
  BY <1>2, <1>3

LEMMA RangeDescendOrders ==
  ASSUME OrderInv, RangeDescend, UNCHANGED vars
  PROVE  OrderInv'
<1> SUFFICES ASSUME NEW p, p = PageOf(it.leafID),
                    NEW i, i = FindIdx(p, it.start, p.leaf)
             PROVE  OrderInv'
  OBVIOUS
<1> DEFINE x == it.leafID
           s == it.start
<1>1. /\ scan = "findLeaf"
      /\ IF p.leaf THEN it' = [it EXCEPT !.idx = i] /\ scan' = "open"
         ELSE it' = [it EXCEPT !.leafID = ChildAt(p, i)] /\ scan' = scan
      /\ UNCHANGED <<dropped, seen, had, alone>>
  BY DEF RangeDescend
<1>2. ScanInv' /\ ScanInv
  BY RangeDescendScans DEF OrderInv
<1>3. /\ MapInv /\ pc = "idle" /\ dropped = << >> /\ seen = << >>
      /\ x \in NodeIds
      /\ \E l, n : it = [start |-> it.start, end |-> it.end, leafID |-> l, idx |-> n]
  BY <1>1 DEF OrderInv, NoneSeen, ScanInv, IteratorOK, Sought
<1>4. /\ Held' = Held /\ NodeIds' = NodeIds /\ UNCHANGED <<pc, root, contents>>
  BY <1>3, TreeStays
<1>5. it'.start = it.start /\ it'.end = it.end
  BY <1>1, <1>3
<1>6. Wanted' = Wanted /\ Stored(it.start, it.end)' = Stored(it.start, it.end)
  BY <1>4, <1>5, WantedStays
<1>7. seen' = << >> /\ \A k : Before(seen', k)
  <2>1. seen' = << >> /\ DOMAIN seen' = {}
    BY <1>1, <1>3
  <2>2. QED
    BY <2>1 DEF Before
<1>8. alone' =>
        /\ pc' = "idle" /\ had' = Stored(it.start, it.end)'
        /\ Ascending(seen, Wanted)'
  BY <1>1, <1>3, <1>4, <1>6 DEF OrderInv, AloneOK, Ascending
<1>9. CASE p.leaf
  <2>1. /\ scan' = "open" /\ it'.leafID = x /\ it'.idx = i
    BY <1>1, <1>3, <1>9
  <2>2. p = Held[x] /\ Held[x].leaf
    BY <1>3, <1>9, ReadHeld
  <2>3. i = FindIdx(Held[x], s, TRUE)
    <3>1. PICK own, lev : Valid(Held, NodeIds, root, own, lev, own, contents)
      BY <1>1, <1>2 DEF ScanInv, Sought
    <3>2. Held[x].leaf \in BOOLEAN
      BY <1>3, <3>1 DEF Valid, PageOK, IsPage
    <3>3. p.leaf = TRUE
      BY <2>2, <3>2
    <3>4. QED
      BY <2>2, <3>3
  <2>4. dropped' = << >> /\ Pinned' = Held[x]
    BY <1>1, <1>3, <1>4, <2>1 DEF Pinned
  <2>5. ASSUME NEW k \in Int, Ahead(k)'
        PROVE  s <= k
    <3>1. Holds(Held[x], i, k) \/ Later(Held, NodeIds, Held[x].next, k)
      BY <1>4, <2>1, <2>4, <2>5 DEF Ahead
    <3>2. PICK own, lev : /\ Valid(Held, NodeIds, root, own, lev, own, contents)
                          /\ s \in own[x]
      BY <1>1, <1>2 DEF ScanInv, Sought
    <3> HIDE DEF x, s
    <3>3. QED
      BY <1>3, <2>2, <2>3, <3>1, <3>2, NoneBefore
  <2>6. OnwardOK'
    BY <1>4, <1>5, <1>7, <2>1, <2>2, <2>4, <2>5 DEF OnwardOK
  <2>7. QED
    BY <1>2, <1>8, <2>1, <2>6 DEF OrderInv, NoneSeen, AloneOK
<1>10. CASE ~p.leaf
  <2>1. scan' = "findLeaf"
    BY <1>1, <1>10
  <2>2. QED
    BY <1>2, <1>7, <1>8, <2>1 DEF OrderInv, NoneSeen, AloneOK
<1>11. QED
  BY <1>9, <1>10

LEMMA CallNextOrders ==
  ASSUME OrderInv, CallNext, UNCHANGED vars
  PROVE  OrderInv'
<1>1. /\ pc = "idle" /\ scan = "open" /\ scan' \in {"next", "done"}
      /\ UNCHANGED <<it, dropped, seen, had, alone>>
  BY DEF CallNext
<1>2. ScanInv' /\ MapInv
  BY CallNextScans DEF OrderInv, ScanInv
<1>3. Held' = Held /\ NodeIds' = NodeIds /\ UNCHANGED <<pc, contents>>
  BY <1>2, TreeStays
<1>4. Wanted' = Wanted /\ Stored(it.start, it.end)' = Stored(it.start, it.end)
  BY <1>1, <1>3, WantedStays
<1>5. OnwardOK => OnwardOK'
  BY <1>1, <1>3 DEF OnwardOK, Ahead, Pinned, Before
<1>6. AloneOK'
  BY <1>1, <1>3, <1>4, <1>5 DEF OrderInv, AloneOK, Ascending
<1>7. QED
  BY <1>1, <1>2, <1>6 DEF OrderInv, NoneSeen

(* A pair on a leaf is one of the index.                                    *)
LEMMA PairOnLeaf ==
  ASSUME MapInv, pc = "idle", NEW x \in NodeIds, Held[x].leaf,
         NEW i \in 1 .. NumCells(Held[x]),
         NEW c, c = Held[x].cells[i]
  PROVE  c.key \in Keys /\ contents[c.key] = c.val /\ contents[c.key] # Nil
<1>1. PICK own, lev, left : Arranged(own, lev, left)
  BY DEF MapInv
<1>2. Valid(Held, NodeIds, root, own, lev, own, contents)
  BY <1>1 DEF Arranged, TreeSound, Want, Inserted, Pending
<1>3. KeysOK(Held[x], own[x]) /\ ValuesOK(Held[x], contents)
  BY <1>2 DEF Valid, PageOK
<1>4. QED
  BY <1>3 DEF KeysOK, ValuesOK

LEMMA NextCellOrders ==
  ASSUME OrderInv, NextCell, UNCHANGED vars
  PROVE  OrderInv'
<1> SUFFICES ASSUME NEW i, i = it.idx, NEW c, c = CurrPg.cells[i],
                    NEW p, p = Pinned
             PROVE  OrderInv'
  OBVIOUS
<1>1. /\ scan = "next" /\ i <= NumCells(CurrPg)
      /\ IF c.key > it.end THEN scan' = "done" /\ UNCHANGED <<it, seen>>
         ELSE /\ seen' = Append(seen, [key |-> c.key, val |-> c.val])
              /\ it' = [it EXCEPT !.idx = @ + 1]
              /\ scan' = "open"
      /\ UNCHANGED <<dropped, had, alone>>
  BY DEF NextCell
<1>2. /\ ScanInv' /\ MapInv /\ pc = "idle" /\ PinOK
      /\ it.end \in Int
      /\ seen \in Seq([key : Int, val : Values \cup {Nil}])
      /\ \E l, n : it = [start |-> it.start, end |-> it.end, leafID |-> l, idx |-> n]
  BY <1>1, NextCellScans DEF OrderInv, ScanInv, IteratorOK, NoneLost
<1>3. /\ Held' = Held /\ NodeIds' = NodeIds /\ UNCHANGED <<pc, contents>>
  BY <1>2, TreeStays
<1>4. scan' \in {"open", "done"} /\ it'.start = it.start /\ it'.end = it.end
  BY <1>1, <1>2
<1>5. Wanted' = Wanted /\ Stored(it.start, it.end)' = Stored(it.start, it.end)
  BY <1>3, <1>4, WantedStays
<1>6. SUFFICES ASSUME alone
               PROVE  Ascending(seen', Wanted') /\ (scan' = "open" => OnwardOK')
  BY <1>1, <1>2, <1>3, <1>4, <1>5 DEF OrderInv, NoneSeen, AloneOK
<1>7. Ascending(seen, Wanted) /\ OnwardOK
  BY <1>1, <1>6 DEF OrderInv, AloneOK
<1>8. CASE c.key > it.end
  BY <1>1, <1>5, <1>7, <1>8 DEF Ascending
<1>9. CASE ~(c.key > it.end)
  <2> SUFFICES ASSUME NEW r, r = [key |-> c.key, val |-> c.val]
               PROVE  Ascending(seen', Wanted') /\ OnwardOK'
    OBVIOUS
  <2>1. /\ seen' = Append(seen, r) /\ UNCHANGED dropped
        /\ it'.leafID = it.leafID /\ it'.idx = i + 1
    BY <1>1, <1>2, <1>9
  <2>2. /\ CurrPg = p /\ IsPage(p) /\ Increasing(p) /\ NumCells(p) \in Nat
        /\ \A n \in 1 .. NumCells(p) : p.cells[n] \in Cell
    BY <1>2, CurrIsPinned
  <2>3. i \in 1 .. NumCells(p) /\ c = p.cells[i]
    BY <1>1, <1>2, <2>2 DEF PinOK
  <2>4. p = Held[it.leafID] /\ it.leafID \in NodeIds /\ Held[it.leafID].leaf
    BY <1>2, <1>7 DEF Pinned, OnwardOK, PinOK
  <2>5. c.key \in Keys /\ contents[c.key] = c.val /\ contents[c.key] # Nil
    BY <1>2, <2>3, <2>4, PairOnLeaf
  <2>6. c.key \in Int
    BY <2>5, KeysAssumption
  <2>7. Ahead(c.key)
    BY <2>2, <2>3 DEF Ahead, Holds
  <2>8. it.start <= c.key /\ Before(seen, c.key)
    BY <1>7, <2>6, <2>7 DEF OnwardOK
  <2>9. c.key \in DOMAIN Wanted /\ Wanted[c.key] = c.val
    BY <1>2, <1>9, <2>5, <2>6, <2>8 DEF Wanted, Stored
  <2>10. Ascending(seen', Wanted')
    BY <1>2, <1>5, <1>7, <2>1, <2>8, <2>9, AscendingOn
  <2>11. Pinned' = p
    BY <1>3, <2>1 DEF Pinned
  <2>12. ASSUME NEW k \in Int, Ahead(k)'
         PROVE  Ahead(k) /\ c.key < k
    <3>1. \/ Holds(p, i + 1, k)
          \/ Later(Held, NodeIds, p.next, k) /\ (dropped # << >> => Behind(p, k))
      BY <1>3, <2>1, <2>11, <2>12 DEF Ahead
    <3>2. CASE Holds(p, i + 1, k)
      <4>1. PICK j \in i + 1 .. NumCells(p) : p.cells[j].key = k
        BY <3>2 DEF Holds
      <4>2. j \in 1 .. NumCells(p) /\ i < j /\ j \in i .. NumCells(p)
        BY <2>2, <2>3, <4>1
      <4>3. QED
        BY <2>2, <2>3, <4>1, <4>2 DEF Increasing, Ahead, Holds
    <3>3. CASE Later(Held, NodeIds, p.next, k) /\ (dropped # << >> => Behind(p, k))
      <4>1. Behind(p, k)
        BY <1>2, <3>3, RightIsGreater
      <4>2. QED
        BY <2>3, <3>3, <4>1 DEF Behind, Ahead
    <3>4. QED
      BY <3>1, <3>2, <3>3
  <2>13. ASSUME NEW k \in Int, Ahead(k)'
         PROVE  it.start <= k /\ Before(seen', k)
    <3>1. it.start <= k /\ Before(seen, k) /\ r.key < k
      BY <1>7, <2>12, <2>13 DEF OnwardOK
    <3>2. /\ DOMAIN seen = 1 .. Len(seen) /\ Len(seen) \in Nat
          /\ DOMAIN seen' = 1 .. Len(seen) + 1
          /\ seen'[Len(seen) + 1] = r
          /\ \A n \in 1 .. Len(seen) : seen'[n] = seen[n]
      BY <1>2, <2>1
    <3>3. QED
      BY <3>1, <3>2 DEF Before
  <2>14. OnwardOK'
    BY <1>3, <1>4, <1>7, <2>1, <2>4, <2>13 DEF OnwardOK, Before
  <2>15. QED
    BY <2>10, <2>14
<1>10. QED
  BY <1>8, <1>9

(* What is on page n or on the chain from its next is on the chain from n.  *)
LEMMA LaterFromHere ==
  ASSUME NEW H, NEW ids, NEW n \in ids, NEW k,
         Holds(H[n], 1, k) \/ Later(H, ids, H[n].next, k),
         H[n].next # InvalidPage
  PROVE  Later(H, ids, n, k)
<1>1. ASSUME NEW S \in SUBSET ids, n \in S, Chained(H, S)
      PROVE  \E y \in S : Holds(H[y], 1, k)
  <2>1. CASE Holds(H[n], 1, k)
    BY <1>1, <2>1
  <2>2. CASE Later(H, ids, H[n].next, k)
    <3>1. H[n].next \in S
      BY <1>1 DEF Chained
    <3>2. QED
      BY <1>1, <2>2, <3>1 DEF Later
  <2>3. QED
    BY <2>1, <2>2
<1>2. QED
  BY <1>1 DEF Later

LEMMA NextLeafOrders ==
  ASSUME OrderInv, NextLeaf, UNCHANGED vars
  PROVE  OrderInv'
<1> SUFFICES ASSUME NEW p, p = Pinned, NEW n, n = p.next
             PROVE  OrderInv'
  OBVIOUS
<1>1. scan = "next"
  BY DEF NextLeaf
<1>2. /\ ScanInv' /\ MapInv /\ pc = "idle" /\ PinOK
      /\ \E l, m : it = [start |-> it.start, end |-> it.end, leafID |-> l, idx |-> m]
  BY <1>1, NextLeafScans DEF OrderInv, ScanInv, IteratorOK, NoneLost
<1>3. /\ CurrPg = p
      /\ n # InvalidPage => n \in NodeIds /\ Held[n].leaf
  BY <1>2, CurrIsPinned
<1>4. /\ it' = [it EXCEPT !.leafID = n, !.idx = 1]
      /\ scan' = IF n = InvalidPage THEN "done" ELSE "next"
      /\ dropped' = << >>
      /\ UNCHANGED <<seen, had, alone>>
  BY <1>3 DEF NextLeaf
<1>5. /\ Held' = Held /\ NodeIds' = NodeIds /\ UNCHANGED <<pc, contents>>
  BY <1>2, TreeStays
<1>6. /\ it'.start = it.start /\ it'.end = it.end
      /\ it'.leafID = n /\ it'.idx = 1
  BY <1>2, <1>4
<1>7. Wanted' = Wanted /\ Stored(it.start, it.end)' = Stored(it.start, it.end)
  BY <1>5, <1>6, WantedStays
<1>8. scan' \in {"next", "done"}
  BY <1>4
<1>9. SUFFICES ASSUME alone, n # InvalidPage
               PROVE  OnwardOK'
  BY <1>1, <1>2, <1>4, <1>5, <1>7, <1>8
     DEF OrderInv, NoneSeen, AloneOK, Ascending
<1>10. OnwardOK
  BY <1>1, <1>9 DEF OrderInv, AloneOK
<1>11. p = Held[it.leafID] /\ it.leafID \in NodeIds /\ Held[it.leafID].leaf
  BY <1>2, <1>10 DEF Pinned, OnwardOK, PinOK
<1>12. Pinned' = Held[n]
  BY <1>4, <1>5, <1>6 DEF Pinned
<1>13. ASSUME NEW k \in Int, Ahead(k)'
       PROVE  Ahead(k)
  <2>1. Holds(Held[n], 1, k) \/ Later(Held, NodeIds, Held[n].next, k)
    BY <1>5, <1>6, <1>12, <1>13 DEF Ahead
  <2>2. Later(Held, NodeIds, n, k)
    <3>1. InvalidPage \notin NodeIds
      BY <1>2, TreeIsChained DEF ChainOnPages
    <3>2. Held[n].next # InvalidPage \/ Holds(Held[n], 1, k)
      BY <2>1, <3>1 DEF Later
    <3>3. CASE Holds(Held[n], 1, k)
      BY <1>3, <1>9, <3>3 DEF Later
    <3>4. QED
      BY <1>3, <1>9, <2>1, <3>2, <3>3, LaterFromHere
  <2>3. Behind(p, k)
    BY <1>2, <1>11, <2>2, LaterIsGreater
  <2>4. QED
    BY <2>2, <2>3 DEF Ahead
<1>14. QED
  BY <1>3, <1>4, <1>5, <1>6, <1>9, <1>10, <1>13 DEF OnwardOK, Before

LEMMA DropPinnedOrders ==
  ASSUME OrderInv, DropPinned, UNCHANGED vars
  PROVE  OrderInv'
<1> SUFFICES ASSUME NEW p, p = PageOf(it.leafID)
             PROVE  OrderInv'
  OBVIOUS
<1>1. /\ scan = "open" /\ dropped = << >>
      /\ dropped' = <<p>> /\ dropped'[1] = p
      /\ UNCHANGED <<scan, it, seen, had, alone>>
  BY DEF DropPinned
<1>2. ScanInv' /\ MapInv
  BY DropPinnedScans DEF OrderInv, ScanInv
<1>3. /\ Held' = Held /\ NodeIds' = NodeIds /\ UNCHANGED <<pc, contents>>
  BY <1>2, TreeStays
<1>4. Wanted' = Wanted /\ Stored(it.start, it.end)' = Stored(it.start, it.end)
  BY <1>1, <1>3, WantedStays
<1>5. SUFFICES ASSUME alone
               PROVE  OnwardOK'
  BY <1>1, <1>2, <1>3, <1>4 DEF OrderInv, NoneSeen, AloneOK, Ascending
<1>6. OnwardOK /\ pc \in {"idle", "findLeaf", "scan", "answer"}
  BY <1>1, <1>5 DEF OrderInv, AloneOK
<1>7. it.leafID \in NodeIds
  BY <1>1, <1>6 DEF OrderInv, ScanInv, NoneLost, PinOK
<1>8. p = Held[it.leafID]
  BY <1>2, <1>6, <1>7, ReadHeld
<1>9. Pinned' = Pinned
  BY <1>1, <1>8 DEF Pinned
<1>10. \A k : Ahead(k)' => Ahead(k)
  BY <1>1, <1>3, <1>9 DEF Ahead
<1>11. QED
  BY <1>1, <1>3, <1>6, <1>8, <1>10 DEF OnwardOK, Before

LEMMA CloseScanOrders ==
  ASSUME OrderInv, CloseScan, UNCHANGED vars
  PROVE  OrderInv'
<1>1. ScanInv'
  BY CloseScanScans DEF OrderInv
<1>2. QED
  BY <1>1 DEF CloseScan, OrderInv, NoneSeen, AloneOK

(* An Insert ends the part of a scan that AloneOK is about.                 *)
LEMMA OnlyLookups ==
  ASSUME MapInv, DeleteKeys = {}, Next, pc' # "insertRec",
         pc \in {"idle", "findLeaf", "scan", "answer"}
  PROVE  /\ UNCHANGED <<file, cached, pageCount, root, split, contents>>
         /\ pc' \in {"idle", "findLeaf", "scan", "answer"}
<1>1. CASE Engine
  <2>1. DOMAIN cached = {}
    BY DEF MapInv
  <2>2. ~InsertStep /\ ~(\E id \in DOMAIN cached : Evict(id))
    BY <2>1 DEF InsertStep, InsertOverwrite, InsertInLeaf, InsertDescend,
                WriteRight, InsertSplit, NewRoot, WriteHeader, ReturnInsert
  <2>3. \A k \in Keys, v \in Values : ~Insert(k, v)
    BY DEF Insert
  <2>4. QED
    BY <1>1, <2>2, <2>3 DEF Engine
<1>2. CASE (\E k \in Keys : Get(k)) \/ GetStep
  BY <1>2 DEF Get, GetStep, FindLeafDescend, FindLeafDone, ScanHit, ScanPast,
              ScanNext, ReturnGet, Answer, GoTo
<1>3. QED
  BY <1>1, <1>2 DEF Next

LEMMA IndexStepOrders ==
  ASSUME DeleteKeys = {}, ~Ousts, OrderInv, IndexStep \/ UNCHANGED <<vars, rvars>>
  PROVE  OrderInv'
<1>1. ScanInv' /\ MapInv /\ UNCHANGED <<scan, it, dropped, seen, had>>
  BY IndexStepScans DEF OrderInv, ScanInv, IndexStep, rvars
<1>2. NoneSeen'
  BY <1>1 DEF OrderInv, NoneSeen
<1>3. SUFFICES ASSUME alone', scan # "closed"
               PROVE  AloneOK'
  BY <1>1, <1>2 DEF OrderInv, AloneOK
<1>4. alone /\ (IndexStep => Next /\ pc' # "insertRec")
  BY <1>3 DEF IndexStep, rvars
<1>5. /\ pc \in {"idle", "findLeaf", "scan", "answer"}
      /\ had = Stored(it.start, it.end)
      /\ Ascending(seen, Wanted)
      /\ scan \in {"open", "next"} => OnwardOK
  BY <1>3, <1>4 DEF OrderInv, AloneOK
<1>6. /\ UNCHANGED <<file, pageCount, split, contents>>
      /\ pc' \in {"idle", "findLeaf", "scan", "answer"}
  <2>1. CASE IndexStep
    BY <1>1, <1>4, <1>5, <2>1, OnlyLookups
  <2>2. CASE UNCHANGED <<vars, rvars>>
    BY <1>5, <2>2 DEF vars
  <2>3. QED
    BY <2>1, <2>2
<1>7. NodeIds' = NodeIds
  BY <1>6 DEF NodeIds
<1>8. Held' = Held
  BY <1>5, <1>6, <1>7 DEF Held, Awaited
<1>9. Wanted' = Wanted /\ Stored(it.start, it.end)' = Stored(it.start, it.end)
  BY <1>1, <1>6, WantedStays
<1>10. OnwardOK => OnwardOK'
  BY <1>1, <1>7, <1>8 DEF OnwardOK, Ahead, Pinned, Before
<1>11. QED
  BY <1>1, <1>5, <1>6, <1>9, <1>10 DEF AloneOK, Ascending

(* Every step of the index, the caller or the iterator.                     *)
LEMMA RangeNextOrders ==
  ASSUME DeleteKeys = {}
  PROVE  OrderInv /\ ~Ousts /\ [RangeNext]_<<vars, rvars>> => OrderInv'
<1> SUFFICES ASSUME OrderInv, ~Ousts, [RangeNext]_<<vars, rvars>>
             PROVE  OrderInv'
  OBVIOUS
<1>1. CASE IndexStep \/ UNCHANGED <<vars, rvars>>
  BY <1>1, IndexStepOrders
<1>2. CASE \E s, e \in Bounds : OpenRange(s, e) /\ UNCHANGED vars
  BY <1>2, OpenRangeOrders
<1>3. CASE ScanStep /\ UNCHANGED vars
  BY <1>3, RangeDescendOrders, CallNextOrders, NextCellOrders, NextLeafOrders,
     DropPinnedOrders, CloseScanOrders DEF ScanStep
<1>4. QED
  BY <1>1, <1>2, <1>3 DEF RangeNext

(* A scan of the B+ tree that nothing is inserted under produces the pairs  *)
(* of its range in the order of their keys, from the first on and each      *)
(* once, and Next ends it only behind the last; lookups and dropped pages   *)
(* do not matter, nor what was inserted under scans before it.              *)
THEOREM BPTreeRangeInOrder ==
  ASSUME ~WritesMayFail, DeleteKeys = {}
  PROVE  RangeSpec /\ []~Ousts => []ScanInOrder
<1>1. RangeInit => OrderInv
  BY RangeInitOrders
<1>2. OrderInv /\ ~Ousts /\ [RangeNext]_<<vars, rvars>> => OrderInv'
  BY RangeNextOrders
<1>3. QED
  BY <1>1, <1>2, ScanIsInOrder, PTL DEF RangeSpec

(* The same with values of one length, whatever the behaviour.              *)
THEOREM BPTreeRangeInOrderOneLength ==
  ASSUME ~WritesMayFail, DeleteKeys = {},
         \A v, w \in Values : ValLen[v] = ValLen[w]
  PROVE  RangeSpec => []ScanInOrder
<1>1. RangeInit => OrderInv
  BY RangeInitOrders
<1>2. OrderInv => ~Ousts
  BY SameLengthNeverOusts DEF OrderInv, ScanInv
<1>3. OrderInv /\ ~Ousts /\ [RangeNext]_<<vars, rvars>> => OrderInv'
  BY RangeNextOrders
<1>4. QED
  BY <1>1, <1>2, <1>3, ScanIsInOrder, PTL DEF RangeSpec
-----------------------------------------------------------------------------
(* The B+ tree across sessions                                              *)

(* A step of Get, as the pages see it.                                      *)
LEMMA GetLooksUp ==
  ASSUME (\E k \in Keys : Get(k)) \/ GetStep
  PROVE  /\ UNCHANGED <<file, cached, pageCount, root, header, split, contents>>
         /\ pc \in {"idle", "findLeaf", "scan", "answer"}
         /\ pc' \in {"idle", "findLeaf", "scan", "answer"}
BY DEF Get, GetStep, FindLeafDescend, FindLeafDone, ScanHit, ScanPast, ScanNext,
       ReturnGet, Answer, GoTo

(* No step of a session puts the page count behind the pages of the tree.   *)
LEMMA StoreNextCounts ==
  CountInv /\ [StoreNext]_<<vars, svars>> => CountInv' \/ Fresh'
<1> SUFFICES ASSUME CountInv, [StoreNext]_<<vars, svars>>
             PROVE  CountInv' \/ Fresh'
  OBVIOUS
<1>1. CASE Next /\ Wear
  <2>1. Moves
    BY <1>1, EngineMoves, GetLooksUp, LookupMoves DEF Next, CountInv
  <2>2. QED
    BY <1>1, <2>1, WearCounts
<1>2. CASE SessionStep
  BY <1>2, SessionCounts
<1>3. CASE UNCHANGED <<vars, svars>>
  BY <1>3, StutterCounts
<1>4. QED
  BY <1>1, <1>2, <1>3 DEF StoreNext

(* As long as every session ends with Close and no page write fails, no     *)
(* page of the B+ tree is handed out again by Allocate, and none is left    *)
(* blank under it or hanging on its left neighbour only, in any number of   *)
(* sessions.                                                                *)
THEOREM BPTreeNeverCut == StoreSpec => []NeverCut
<1>1. StoreInit => CountInv
  <2>1. StoreInit => Fresh
    BY DEF StoreInit, Fresh
  <2>2. QED
    BY <2>1, FreshCounts
<1>2. CountInv /\ [StoreNext]_<<vars, svars>> => CountInv' \/ Fresh'
  BY StoreNextCounts
<1>3. Fresh => CountInv
  BY FreshCounts
<1>4. CountInv => NeverCut
  BY CountsNeverCut
<1>5. QED
  BY <1>1, <1>2, <1>3, <1>4, PTL DEF StoreSpec

(* Every step of a session keeps the map until it is known to lose pairs.   *)
LEMMA StoreNextKeeps ==
  SessionInv /\ ~Ousts /\ [StoreNext]_<<vars, svars>> => SessionInv' \/ Fresh'
<1> SUFFICES ASSUME SessionInv, ~Ousts, [StoreNext]_<<vars, svars>>
             PROVE  SessionInv' \/ Fresh'
  OBVIOUS
<1>1. CASE Next /\ Wear /\ mishap'
  <2>1. CountInv' \/ Fresh'
    BY <1>1, StoreNextCounts DEF SessionInv, StoreNext
  <2>2. QED
    BY <1>1, <2>1 DEF SessionInv
<1>2. CASE Engine /\ Wear /\ ~mishap'
  BY <1>2, EngineInSession
<1>3. CASE ((\E k \in Keys : Get(k)) \/ GetStep) /\ Wear /\ ~mishap'
  <2>1. IInv => IInv'
    BY <1>3, GetKeeps
  <2>2. MapInv => MapInv'
    BY <1>3, <2>1, GetMaps DEF MapInv
  <2>3. QED
    BY <1>3, <2>1, <2>2, GetLooksUp, LookupInSession
<1>4. CASE SessionStep
  BY <1>4, SessionStays
<1>5. CASE UNCHANGED <<vars, svars>>
  BY <1>5, StutterSession
<1>6. QED
  BY <1>1, <1>2, <1>3, <1>4, <1>5 DEF StoreNext, Next

(* In every session up to the first crash the keys of every page are in     *)
(* order, whatever the sessions before it have closed and reopened.         *)
THEOREM BPTreeSessionsSorted ==
  ASSUME ~WritesMayFail
  PROVE  StoreSpec /\ []~Ousts => [](~mishap => PagesSorted)
<1>1. StoreInit => Fresh
  BY DEF StoreInit, Fresh
<1>2. Fresh => SessionInv
  BY FreshSession
<1>3. SessionInv /\ ~Ousts /\ [StoreNext]_<<vars, svars>> => SessionInv' \/ Fresh'
  BY StoreNextKeeps
<1>4. SessionInv => (~mishap => PagesSorted)
  BY SessionShows
<1>5. QED
  BY <1>1, <1>2, <1>3, <1>4, PTL DEF StoreSpec

(* In every session up to the first crash the B+ tree stores the last values*)
(* inserted in that session and all those before it, each key once, until a *)
(* stored key is deleted.                                                   *)
THEOREM BPTreeSessionsStore ==
  ASSUME ~WritesMayFail
  PROVE  StoreSpec /\ []~Ousts => [](~mishap => StoresSurvivors)
<1>1. StoreInit => Fresh
  BY DEF StoreInit, Fresh
<1>2. Fresh => SessionInv
  BY FreshSession
<1>3. SessionInv /\ ~Ousts /\ [StoreNext]_<<vars, svars>> => SessionInv' \/ Fresh'
  BY StoreNextKeeps
<1>4. SessionInv => (~mishap => StoresSurvivors)
  BY SessionShows
<1>5. QED
  BY <1>1, <1>2, <1>3, <1>4, PTL DEF StoreSpec

(* Values of one length oust nothing, as long as the tree is a map at all.  *)
LEMMA StoreNextKeepsOneLength ==
  ASSUME \A v, w \in Values : ValLen[v] = ValLen[w]
  PROVE  SessionInv /\ [StoreNext]_<<vars, svars>> => SessionInv' \/ Fresh'
<1> SUFFICES ASSUME SessionInv, [StoreNext]_<<vars, svars>>
             PROVE  SessionInv' \/ Fresh'
  OBVIOUS
<1>1. CASE ~Ousts
  BY <1>1, StoreNextKeeps
<1>2. CASE mishap'
  <2>1. CountInv' \/ Fresh'
    BY StoreNextCounts DEF SessionInv
  <2>2. QED
    BY <1>2, <2>1 DEF SessionInv
<1>3. CASE Engine /\ Wear /\ ~mishap'
  <2>1. ASSUME damage' = "none" PROVE ~Ousts
    <3>1. damage = "none" /\ ~mishap
      BY <1>3, <2>1, WearSpares DEF Wear
    <3>2. QED
      BY <3>1, SameLengthNeverOusts DEF SessionInv
  <2>2. QED
    BY <1>3, <2>1, EngineInSession
<1>4. CASE ~(Engine /\ Wear) /\ Ousts /\ ~mishap'
  <2>1. CASE ((\E k \in Keys : Get(k)) \/ GetStep) /\ Wear
    BY <1>4, <2>1, GetLooksUp DEF Ousts
  <2>2. CASE SessionStep
    BY <2>2, SessionStays
  <2>3. CASE UNCHANGED <<vars, svars>>
    BY <2>3, StutterSession
  <2>4. QED
    BY <1>4, <2>1, <2>2, <2>3 DEF StoreNext, Next
<1>5. QED
  BY <1>1, <1>2, <1>3, <1>4

(* The same with values of one length, whatever the behaviour.              *)
THEOREM BPTreeSessionsStoreOneLength ==
  ASSUME ~WritesMayFail, \A v, w \in Values : ValLen[v] = ValLen[w]
  PROVE  StoreSpec => [](~mishap => StoresSurvivors)
<1>1. StoreInit => Fresh
  BY DEF StoreInit, Fresh
<1>2. Fresh => SessionInv
  BY FreshSession
<1>3. SessionInv /\ [StoreNext]_<<vars, svars>> => SessionInv' \/ Fresh'
  BY StoreNextKeepsOneLength
<1>4. SessionInv => (~mishap => StoresSurvivors)
  BY SessionShows
<1>5. QED
  BY <1>1, <1>2, <1>3, <1>4, PTL DEF StoreSpec

(* No step but those of a new root parts the header page from the root.     *)
LEMMA StoreNextHeader ==
  ASSUME ~WritesMayFail
  PROVE  HeaderInv /\ [StoreNext]_<<vars, svars>> => HeaderInv'
<1> SUFFICES ASSUME HeaderInv, [StoreNext]_<<vars, svars>>
             PROVE  HeaderInv'
  OBVIOUS
<1>1. CASE Engine
  BY <1>1, EngineHeader
<1>2. CASE (\E k \in Keys : Get(k)) \/ GetStep
  <2>1. UNCHANGED <<root, header>> /\ pc \notin {"writeHeader", "corrupt"}
    BY <1>2 DEF Get, GetStep, FindLeafDescend, FindLeafDone, ScanHit, ScanPast,
                ScanNext, ReturnGet, Answer, GoTo
  <2>2. QED
    BY <2>1, LookupHeader
<1>3. CASE SessionStep
  BY <1>3, SessionHeader
<1>4. CASE UNCHANGED <<vars, svars>>
  BY <1>4, LookupHeader DEF vars
<1>5. QED
  BY <1>1, <1>2, <1>3, <1>4 DEF StoreNext, Next

(* In every session up to the first crash, as long as no stored key is      *)
(* deleted, the B+ tree is a tree: between two calls all its leaves are     *)
(* equally deep, no page hangs twice and the header page names the root.    *)
THEOREM BPTreeSessionsStayTree ==
  ASSUME ~WritesMayFail
  PROVE  StoreSpec /\ []~Ousts => [](~mishap /\ damage = "none" => StaysTree)
<1>1. StoreInit => Fresh
  BY DEF StoreInit, Fresh
<1>2. Fresh => SessionInv
  BY FreshSession
<1>3. SessionInv /\ ~Ousts /\ [StoreNext]_<<vars, svars>> => SessionInv' \/ Fresh'
  BY StoreNextKeeps
<1>4. StoreInit => HeaderInv
  BY DEF StoreInit, Init, HeaderInv
<1>5. HeaderInv /\ [StoreNext]_<<vars, svars>> => HeaderInv'
  BY StoreNextHeader
<1>6. SessionInv /\ HeaderInv => (~mishap /\ damage = "none" => StaysTree)
  BY SessionStands
<1>7. QED
  BY <1>1, <1>2, <1>3, <1>4, <1>5, <1>6, PTL DEF StoreSpec

(* The same with values of one length, whatever the behaviour.              *)
THEOREM BPTreeSessionsStayTreeOneLength ==
  ASSUME ~WritesMayFail, \A v, w \in Values : ValLen[v] = ValLen[w]
  PROVE  StoreSpec => [](~mishap /\ damage = "none" => StaysTree)
<1>1. StoreInit => Fresh
  BY DEF StoreInit, Fresh
<1>2. Fresh => SessionInv
  BY FreshSession
<1>3. SessionInv /\ [StoreNext]_<<vars, svars>> => SessionInv' \/ Fresh'
  BY StoreNextKeepsOneLength
<1>4. StoreInit => HeaderInv
  BY DEF StoreInit, Init, HeaderInv
<1>5. HeaderInv /\ [StoreNext]_<<vars, svars>> => HeaderInv'
  BY StoreNextHeader
<1>6. SessionInv /\ HeaderInv => (~mishap /\ damage = "none" => StaysTree)
  BY SessionStands
<1>7. QED
  BY <1>1, <1>2, <1>3, <1>4, <1>5, <1>6, PTL DEF StoreSpec

(* What a Get answers in a session without a mishap is what is stored.      *)
LEMMA SessionAnswers ==
  ASSUME SessionInv, ~mishap, [StoreNext]_<<vars, svars>>
  PROVE  pc # "answer" /\ pc' = "answer" /\ damage \in {"none", "unlinked"} =>
           call'.val = contents[call.key]
<1> SUFFICES ASSUME pc # "answer", pc' = "answer", damage \in {"none", "unlinked"}
             PROVE  call'.val = contents[call.key]
  OBVIOUS
<1>1. MapInv
  BY DEF SessionInv, CountInv
<1>2. CASE Engine
  BY <1>1, <1>2
     DEF Engine, Insert, InsertStep, InsertOverwrite, InsertInLeaf, InsertDescend,
         DoInsert, SplitNode, WriteAndReturn, WriteRight, InsertSplit, NewRoot,
         WriteHeader, ReturnInsert, Delete, Evict
<1>3. CASE ScanHit \/ ScanPast \/ (ScanNext /\ Answer(Nil))
  BY <1>1, <1>3, GetAnswers DEF Promise!AnswerGet
<1>4. CASE \/ \E k \in Keys : Get(k)
           \/ FindLeafDescend \/ FindLeafDone \/ ReturnGet
           \/ ScanNext /\ UNCHANGED pc
  BY <1>4 DEF Get, FindLeafDescend, FindLeafDone, ReturnGet
<1>5. CASE SessionStep
  <2>1. Gone => pc' # "answer"
    BY DEF Gone
  <2>2. OpenNew \/ Reopen => pc' = "idle"
    BY DEF OpenNew, Reopen, SessionInv, CountInv, NoProcess
  <2>3. QED
    BY <1>5, <2>1, <2>2
       DEF SessionStep, Close, CloseFails, Crash, Interrupted, StartOver
<1>6. CASE UNCHANGED <<vars, svars>>
  BY <1>6 DEF vars
<1>7. QED
  BY <1>2, <1>3, <1>4, <1>5, <1>6 DEF StoreNext, Next, GetStep, ScanNext

(* Where nothing crashes and no write fails, there is no mishap.            *)
LEMMA NoMishap ==
  ASSUME ~WritesMayFail, ~MayCrash
  PROVE  SessionInv /\ ~mishap /\ [StoreNext]_<<vars, svars>> => ~mishap'
<1> SUFFICES ASSUME SessionInv, ~mishap, [StoreNext]_<<vars, svars>>
             PROVE  ~mishap'
  OBVIOUS
<1>1. CASE Engine /\ Wear
  BY <1>1, EngineNeverFails DEF SessionInv
<1>2. CASE ((\E k \in Keys : Get(k)) \/ GetStep) /\ Wear
  BY <1>2, GetLooksUp DEF Wear, FailsToWrite
<1>3. CASE SessionStep
  BY <1>3 DEF SessionStep, Close, CloseFails, Crash, OpenNew, Reopen, StartOver
<1>4. CASE UNCHANGED <<vars, svars>>
  BY <1>4 DEF svars
<1>5. QED
  BY <1>1, <1>2, <1>3, <1>4 DEF StoreNext, Next

(* In sessions without crashes and failed writes a Get of the B+ tree       *)
(* answers the last value inserted, in this session or in one before it.    *)
THEOREM BPTreeSessionsAnswer ==
  ASSUME ~WritesMayFail, ~MayCrash
  PROVE  StoreSpec /\ []~Ousts => GetsAnswer
<1>1. StoreInit => Fresh
  BY DEF StoreInit, Fresh
<1>2. Fresh => SessionInv /\ ~mishap
  BY FreshSession DEF Fresh
<1>3. SessionInv /\ ~Ousts /\ [StoreNext]_<<vars, svars>> => SessionInv' \/ Fresh'
  BY StoreNextKeeps
<1>4. SessionInv /\ ~mishap /\ [StoreNext]_<<vars, svars>> => ~mishap'
  BY NoMishap
<1>5. SessionInv /\ ~mishap /\ [StoreNext]_<<vars, svars>>
        => [ pc # "answer" /\ pc' = "answer" /\ damage \in {"none", "unlinked"} =>
               call'.val = contents[call.key] ]_<<vars, svars>>
  BY SessionAnswers
<1>6. QED
  BY <1>1, <1>2, <1>3, <1>4, <1>5, PTL DEF StoreSpec, GetsAnswer

(* The same with values of one length, whatever the behaviour.              *)
THEOREM BPTreeSessionsAnswerOneLength ==
  ASSUME ~WritesMayFail, ~MayCrash, \A v, w \in Values : ValLen[v] = ValLen[w]
  PROVE  StoreSpec => GetsAnswer
<1>1. StoreInit => Fresh
  BY DEF StoreInit, Fresh
<1>2. Fresh => SessionInv /\ ~mishap
  BY FreshSession DEF Fresh
<1>3. SessionInv /\ [StoreNext]_<<vars, svars>> => SessionInv' \/ Fresh'
  BY StoreNextKeepsOneLength
<1>4. SessionInv /\ ~mishap /\ [StoreNext]_<<vars, svars>> => ~mishap'
  BY NoMishap
<1>5. SessionInv /\ ~mishap /\ [StoreNext]_<<vars, svars>>
        => [ pc # "answer" /\ pc' = "answer" /\ damage \in {"none", "unlinked"} =>
               call'.val = contents[call.key] ]_<<vars, svars>>
  BY SessionAnswers
<1>6. QED
  BY <1>1, <1>2, <1>3, <1>4, <1>5, PTL DEF StoreSpec, GetsAnswer

(* The steps of a session with values of one length.                        *)
LEMMA StoreNextOneSize ==
  ASSUME NEW L, OneLength(L)
  PROVE  SessionInv /\ [StoreNext]_<<vars, svars>> => SessionInv' \/ Fresh'
<1>1. \A v, w \in Values : ValLen[v] = ValLen[w]
  BY DEF OneLength
<1>2. QED
  BY <1>1, StoreNextKeepsOneLength

(* Pages in bounds stay so from one session to the next.                    *)
LEMMA StoreNextFits ==
  ASSUME ~WritesMayFail, NEW L, OneLength(L)
  PROVE  SessionFit(L) /\ [StoreNext]_<<vars, svars>> => SessionFit(L)' \/ Fresh'
<1>1. SUFFICES ASSUME SessionFit(L), [StoreNext]_<<vars, svars>>
               PROVE  SessionFit(L)' \/ Fresh'
  OBVIOUS
<1>2. SessionInv' \/ Fresh'
  BY <1>1, StoreNextOneSize DEF SessionFit
<1>3. ASSUME ~mishap' PROVE FitInv(L)' \/ Fresh'
  <2>1. CASE Next /\ Wear
    <3>1. ~mishap
      BY <1>3, <2>1 DEF Wear
    <3>2. QED
      BY <1>1, <2>1, <3>1, NextFits DEF SessionFit
  <2>2. CASE SessionStep
    BY <1>1, <1>3, <2>2, SessionStaysFit
  <2>3. CASE UNCHANGED <<vars, svars>>
    <3>1. ~mishap /\ UNCHANGED vars
      BY <1>3, <2>3 DEF svars
    <3>2. QED
      BY <1>1, <3>1, NextFits DEF SessionFit
  <2>4. QED
    BY <1>1, <2>1, <2>2, <2>3 DEF StoreNext
<1>4. QED
  BY <1>2, <1>3 DEF SessionFit

(* In every session up to the first crash no cell of the B+ tree runs into  *)
(* the cell pointers of its page, if all values have one length and leave   *)
(* no gap on a full page in which a cell fits without its pointer.          *)
THEOREM BPTreeSessionsFit ==
  ASSUME ~WritesMayFail, NEW L, OneLength(L)
  PROVE  StoreSpec => [](~mishap => PagesFit)
<1>1. StoreInit => Fresh
  BY DEF StoreInit, Fresh
<1>2. Fresh => SessionFit(L)
  BY FreshFits
<1>3. SessionFit(L) /\ [StoreNext]_<<vars, svars>> => SessionFit(L)' \/ Fresh'
  BY StoreNextFits
<1>4. SessionFit(L) => (~mishap => PagesFit)
  BY FitsByInv DEF SessionFit
<1>5. QED
  BY <1>1, <1>2, <1>3, <1>4, PTL DEF StoreSpec

(* Nor does the file lag behind the tree by more than a new root.           *)
LEMMA StoreNextBehind ==
  SessionInv /\ HeaderInv /\ BehindInv /\ [StoreNext]_<<vars, svars>> => BehindInv'
<1> SUFFICES ASSUME SessionInv, HeaderInv, BehindInv, [StoreNext]_<<vars, svars>>
             PROVE  BehindInv'
  OBVIOUS
<1>1. CASE Engine /\ Wear
  BY <1>1, EngineStaysBehind
<1>2. CASE (\E k \in Keys : Get(k)) \/ GetStep
  <2>1. pc' # "writeHeader"
    BY <1>2 DEF Get, GetStep, FindLeafDescend, FindLeafDone, ScanHit, ScanPast,
                ScanNext, ReturnGet, Answer, GoTo
  <2>2. QED
    BY <2>1, RestStaysBehind
<1>3. CASE SessionStep \/ UNCHANGED <<vars, svars>>
  BY <1>3, RestStaysBehind
<1>4. QED
  BY <1>1, <1>2, <1>3 DEF StoreNext, Next

(* What the first crash of a file leaves.                                   *)
LEMMA StoreCrashLeaves ==
  SessionInv /\ HeaderInv /\ BehindInv
    /\ [Crash => ~mishap /\ PagesFit]_<<vars, svars>>
    => [ Crash /\ Reopens /\ damage' \in {"none", "unlinked"}
            /\ (header = root \/ pc = "writeHeader") =>
            \A k \in Keys :
              \/ contents'[k] = contents[k]
              \/ call.op = "insert" /\ call.key = k /\ contents'[k] = call.val
              \/ HalfWritten /\ ~CopyUpLeaves /\ k >= split.key ]_<<vars, svars>>
<1> SUFFICES ASSUME SessionInv, HeaderInv, BehindInv, Crash => ~mishap /\ PagesFit
             PROVE  Crash /\ Reopens /\ damage' \in {"none", "unlinked"}
                      /\ (header = root \/ pc = "writeHeader") =>
                      \A k \in Keys :
                        \/ contents'[k] = contents[k]
                        \/ call.op = "insert" /\ call.key = k /\ contents'[k] = call.val
                        \/ HalfWritten /\ ~CopyUpLeaves /\ k >= split.key
  OBVIOUS
<1>1. QED
  BY CrashLeaves

(* A crash of the B+ tree, wherever it comes and however many sessions were *)
(* closed before, loses no pair that was stored, unless it leaves the left  *)
(* half of a split leaf without its right neighbour: as long as no file     *)
(* crashes twice, and none while a cell has run into the cell pointers.     *)
(* It is about a tree that no Delete has touched.                           *)
THEOREM BPTreeCrashKeeps ==
  ASSUME ~WritesMayFail
  PROVE  StoreSpec /\ []~Ousts
           /\ [][Crash => ~mishap /\ PagesFit]_<<vars, svars>> => CrashKeeps
<1>1. StoreInit => Fresh
  BY DEF StoreInit, Fresh
<1>2. Fresh => SessionInv
  BY FreshSession
<1>3. SessionInv /\ ~Ousts /\ [StoreNext]_<<vars, svars>> => SessionInv' \/ Fresh'
  BY StoreNextKeeps
<1>4. StoreInit => HeaderInv /\ BehindInv
  BY DEF StoreInit, Init, HeaderInv, BehindInv, RootBehind
<1>5. HeaderInv /\ [StoreNext]_<<vars, svars>> => HeaderInv'
  BY StoreNextHeader
<1>6. SessionInv /\ HeaderInv /\ BehindInv /\ [StoreNext]_<<vars, svars>> => BehindInv'
  BY StoreNextBehind
<1>7. SessionInv /\ HeaderInv /\ BehindInv
        /\ [Crash => ~mishap /\ PagesFit]_<<vars, svars>>
        => [ Crash /\ Reopens /\ damage' \in {"none", "unlinked"}
             /\ (header = root \/ pc = "writeHeader") =>
             \A k \in Keys :
               \/ contents'[k] = contents[k]
               \/ call.op = "insert" /\ call.key = k /\ contents'[k] = call.val
               \/ HalfWritten /\ ~CopyUpLeaves /\ k >= split.key ]_<<vars, svars>>
  BY StoreCrashLeaves
<1>8. QED
  BY <1>1, <1>2, <1>3, <1>4, <1>5, <1>6, <1>7, PTL DEF StoreSpec, CrashKeeps

(* The same with values of one length, whatever the behaviour: they oust    *)
(* nothing, and their cells run into no pointers.                           *)
THEOREM BPTreeCrashKeepsOneLength ==
  ASSUME ~WritesMayFail, NEW L, OneLength(L)
  PROVE  StoreSpec /\ [][Crash => ~mishap]_<<vars, svars>> => CrashKeeps
<1>1. StoreInit => Fresh
  BY DEF StoreInit, Fresh
<1>2. Fresh => SessionFit(L)
  BY FreshFits
<1>3. SessionFit(L) /\ [StoreNext]_<<vars, svars>> => SessionFit(L)' \/ Fresh'
  BY StoreNextFits
<1>4. StoreInit => HeaderInv /\ BehindInv
  BY DEF StoreInit, Init, HeaderInv, BehindInv, RootBehind
<1>5. HeaderInv /\ [StoreNext]_<<vars, svars>> => HeaderInv'
  BY StoreNextHeader
<1>6. SessionInv /\ HeaderInv /\ BehindInv /\ [StoreNext]_<<vars, svars>> => BehindInv'
  BY StoreNextBehind
<1>7. SessionInv /\ HeaderInv /\ BehindInv
        /\ [Crash => ~mishap /\ PagesFit]_<<vars, svars>>
        => [ Crash /\ Reopens /\ damage' \in {"none", "unlinked"}
             /\ (header = root \/ pc = "writeHeader") =>
             \A k \in Keys :
               \/ contents'[k] = contents[k]
               \/ call.op = "insert" /\ call.key = k /\ contents'[k] = call.val
               \/ HalfWritten /\ ~CopyUpLeaves /\ k >= split.key ]_<<vars, svars>>
  BY StoreCrashLeaves
<1>8. SessionFit(L) /\ [Crash => ~mishap]_<<vars, svars>>
        => SessionInv /\ [Crash => ~mishap /\ PagesFit]_<<vars, svars>>
  BY FitsByInv DEF SessionFit
<1>9. QED
  BY <1>1, <1>2, <1>3, <1>4, <1>5, <1>6, <1>7, <1>8, PTL DEF StoreSpec, CrashKeeps
=============================================================================
