---------------------------- MODULE BTree_proofs ----------------------------
(***************************************************************************)
(* Between any two page writes of any sequence of calls, the keys of every *)
(* page of the B-tree are in order, evictions of changed pages included;   *)
(* the B-tree is the map that its interface promises, as long as no value  *)
(* outgrows its cell on an internal page; a scan that nothing is inserted  *)
(* under goes through the pairs of its range in order; and all but the     *)
(* last holds from one session to the next, up to the first crash, with    *)
(* all leaves equally deep and every search coming to an end.  That crash  *)
(* loses nothing that was stored, but in a split.  Pages of values of one  *)
(* length fit.                                                             *)
(***************************************************************************)
EXTENDS BTreeRange, BTreeStore, Tree_proofs

(* A step of Get changes no page.                                           *)
LEMMA GetKeeps ==
  ASSUME IInv, (\E k \in Keys : Get(k)) \/ GetStep
  PROVE  IInv'
<1>1. /\ UNCHANGED <<file, cached, pageCount, root>>
      /\ pc \in {"idle", "get", "answer"}
      /\ pc' \in {"idle", "get", "answer"}
  BY DEF Get, GetStep, GetHit, GetMiss, GetDescend, ReturnGet, Answer
<1>2. QED
  BY <1>1, ReadOnlyKeeps

(* Every step keeps the order of the keys.                                  *)
LEMMA NextKeeps == IInv /\ [Next]_vars => IInv'
BY EngineKeeps, GetKeeps, StutterKeeps DEF Next

(* The keys of every page are in order, for every set of keys and values,   *)
(* every page size and every moment at which the cache gives a page up, as  *)
(* long as no page write fails.                                             *)
THEOREM BTreePagesSorted ==
  ASSUME ~WritesMayFail
  PROVE  Spec => []PagesSorted
<1>1. Init => IInv
  BY InitInv
<1>2. IInv /\ [Next]_vars => IInv'
  BY NextKeeps
<1>3. IInv => PagesSorted
  BY SortedByInv
<1>4. QED
  BY <1>1, <1>2, <1>3, PTL DEF Spec

-----------------------------------------------------------------------------
(* What a split hands to its caller.                                        *)
Promotion == [key : Int, val : Values \cup {Nil}, right : Nat, page : Page]

(* The types of the other variables, and what they rest on: the value an    *)
(* Insert returns with.                                                     *)
Typed ==
  /\ file = [id \in DOMAIN file |-> file[id]]
  /\ header \in NodeIds
  /\ path \in Seq(NodeIds)
  /\ split \in Promotion
  /\ contents \in [Keys -> Values \cup {Nil}]
  /\ pc \in {"writeHeader", "return"} => call.val \in Values

(* The inductive invariant behind TypeOK: what Tree_proofs says of pages    *)
(* once more for those with all their types.                                *)
TypeInv == IInv /\ PagesIn(Page) /\ Typed

LEMMA TypesByInv == TypeInv => TypeOK
<1>1. SUFFICES ASSUME TypeInv
               PROVE  TypeOK
  OBVIOUS
<1>2. /\ pageCount \in Nat \ (0 .. 2)
      /\ DOMAIN cached \subseteq NodeIds /\ root \in NodeIds
      /\ DOMAIN file = NodeIds
  BY <1>1 DEF TypeInv, IInv, Shape
<1>3. \A id \in NodeIds : file[id] \in Page
  BY <1>1, BlankIsPage DEF TypeInv, PagesIn
<1>4. file \in [NodeIds -> Page]
  <2>1. file = [id \in NodeIds |-> file[id]]
    BY <1>1, <1>2 DEF TypeInv, Typed
  <2>2. QED
    BY <1>3, <2>1
<1>5. QED
  BY <1>1, <1>2, <1>4 DEF TypeInv, Typed, PagesIn, TypeOK, Promotion

(* A new file.                                                              *)
LEMMA InitTyped ==
  ASSUME ~WritesMayFail, Init
  PROVE  TypeInv
<1>1. IInv
  BY InitInv
<1>2. NodeIds = {2}
  BY DEF Init, NodeIds
<1>3. PagesIn(Page)
  BY <1>2, BlankIsPage DEF Init, PagesIn
<1>4. split \in Promotion
  BY BlankIsPage DEF Init, NoSplit, Promotion
<1>5. Typed
  BY <1>2, <1>4 DEF Init, Typed
<1>6. QED
  BY <1>1, <1>3, <1>5 DEF TypeInv

(* Pages are only ever added.                                               *)
LEMMA PathStays ==
  ASSUME pageCount \in Nat, pageCount' \in {pageCount, pageCount + 1},
         Typed, header' = header, path' = path
  PROVE  header' \in NodeIds' /\ path' \in Seq(NodeIds')
<1>1. ASSUME NEW m \in Nat, NEW n \in {m, m + 1}
      PROVE  2 .. (m - 1) \subseteq 2 .. (n - 1)
  OBVIOUS
<1>2. NodeIds \subseteq NodeIds'
  BY ONLY <1>1, pageCount \in Nat, pageCount' \in {pageCount, pageCount + 1}
     DEF NodeIds
<1>3. QED
  BY <1>2 DEF Typed

(* A page written at the end of a call.                                     *)
LEMMA WriteTyped ==
  ASSUME IInv, Typed, NEW id, NEW p, call.val \in Values \/ Fits(p) = FALSE,
         WriteAndReturn(id, p)
  PROVE  Typed'
<1>1. /\ file' = [file EXCEPT ![id] = p]
      /\ pc' = IF Fits(p) THEN "return" ELSE "corrupt"
      /\ UNCHANGED <<pageCount, root, header, path, split, call, contents>>
  BY DEF WriteAndReturn, WriteNode, IInv, Shape
<1>2. file' = [x \in DOMAIN file' |-> file'[x]]
  BY <1>1
<1>3. header' \in NodeIds' /\ path' \in Seq(NodeIds')
  BY <1>1, PathStays DEF IInv, Shape
<1>4. QED
  BY <1>1, <1>2, <1>3 DEF Typed

(* doInsert, whether the cell finds room or not.                            *)
LEMMA DoInsertTyped ==
  ASSUME TypeInv, pc \in {"insertRec", "insertSplit"},
         NEW id \in NodeIds, NEW p, GoodPage(p), ChildrenIn(p, NodeIds),
         NEW key \in Int, NEW i, Between(p, i, key),
         NEW val \in Values \cup {Nil}, NEW rc \in Nat, p.leaf \/ rc \in NodeIds,
         Admits(Page, p, i, key, val, rc),
         DoInsert(id, p, i, key, val, rc)
  PROVE  Typed'
<1> DEFINE size == CellSize(p.leaf, val)
           q    == WithCell(p, i, key, val, rc)
           w    == [q EXCEPT !.content = @ - size]
           mid  == Promoted(q.cells)
           next == LinkLeaves(p.leaf, pageCount, p.next)
<1>0. IInv /\ Typed
  BY DEF TypeInv
<1>1. CASE HasRoom(p, size) /\ WriteAndReturn(id, w)
  <2>1. call.val \in Values
    BY <1>0 DEF IInv, CallGood
  <2> HIDE DEF w
  <2>2. QED
    BY <1>0, <1>1, <2>1, WriteTyped
<1>2. CASE ~HasRoom(p, size) /\ SplitNode(id, p, i, key, val, rc)
  <2>1. pageCount \in Nat /\ NodeIds \subseteq Nat
    BY <1>0 DEF IInv, Shape, NodeIds
  <2>2. next.left \in Int /\ next.right \in Int
    BY <2>1 DEF LinkLeaves, InvalidPage, GoodPage, IsPage
  <2>3. GoodPage(q) /\ q.leaf = p.leaf /\ NumCells(q) >= 1 /\ ChildrenIn(q, NodeIds)
    BY WithCellGood
  <2>4. mid \in 1 .. NumCells(q)
    <3> HIDE DEF q
    <3>1. QED
      BY <2>1, <2>2, <2>3, HalvesGood
  <2>5. RightHalf(q, next.right) \in Page
    BY <1>2, <2>2 DEF Admits
  <2>6. /\ pageCount' = pageCount + 1
        /\ WriteNode(Extended, id, LeftHalf(q, next.left))
        /\ split' = [key |-> q.cells[mid].key,
                     val |-> IF p.leaf /\ CopyUpLeaves THEN Nil
                             ELSE q.cells[mid].val,
                     right |-> pageCount, page |-> RightHalf(q, next.right)]
        /\ pc' \in {"writeRight", "corrupt"}
        /\ UNCHANGED <<header, path, contents>>
    BY <1>2, <2>3 DEF SplitNode, Allocate, LeftHalf, RightHalf, LeftCells
  <2> HIDE DEF q, next, mid
  <2>7. q.cells[mid].key \in Int /\ q.cells[mid].val \in Values \cup {Nil}
    BY <2>3, <2>4, CellsOfPage DEF GoodPage, Cell
  <2>8. split' \in Promotion
    BY <2>1, <2>5, <2>6, <2>7 DEF Promotion
  <2>9. file' = [x \in DOMAIN file' |-> file'[x]]
    <3>1. file' = [Extended EXCEPT ![id] = LeftHalf(q, next.left)]
      BY <1>0, <2>6 DEF WriteNode, IInv, Shape
    <3>2. QED
      BY <3>1
  <2>10. header' \in NodeIds' /\ path' \in Seq(NodeIds')
    BY <1>0, <2>1, <2>6, PathStays
  <2>11. QED
    BY <1>0, <2>6, <2>8, <2>9, <2>10 DEF Typed
<1>3. QED
  BY <1>1, <1>2 DEF DoInsert

(* The frame below returns.                                                 *)
LEMMA WriteRightTyped ==
  ASSUME TypeInv, WriteRight
  PROVE  Typed'
<1>1. /\ pc = "writeRight" /\ pc' \in {"newRoot", "insertSplit"}
      /\ file' = [file EXCEPT ![split.right] = split.page]
      /\ path' = Front(path)
      /\ UNCHANGED <<pageCount, root, header, split, contents>>
  BY DEF WriteRight, WriteNode, TypeInv, IInv, Shape
<1>2. NodeIds' = NodeIds
  BY <1>1 DEF NodeIds
<1>3. path \in Seq(NodeIds) /\ path # << >>
  BY <1>1 DEF TypeInv, IInv, FramesGood
<1>4. path' \in Seq(NodeIds)
  <2>1. path' = SubSeq(path, 1, Len(path) - 1)
    BY <1>1 DEF Front
  <2>2. \A j \in 1 .. Len(path) - 1 : path[j] \in NodeIds
    BY <1>3
  <2>3. Len(path) \in Nat /\ Len(path) >= 1
    BY <1>3
  <2>4. QED
    BY <1>3, <2>1, <2>2, <2>3, SubSeqProperties
<1>5. file' = [x \in DOMAIN file' |-> file'[x]]
  BY <1>1
<1>6. QED
  BY <1>1, <1>2, <1>4, <1>5 DEF TypeInv, Typed

(* The root is split.                                                       *)
LEMMA NewRootTyped ==
  ASSUME TypeInv, NewRoot
  PROVE  Typed'
<1> DEFINE p == NewPage(FALSE, <<RootCell>>, split.right, InvalidPage)
<1>1. /\ pc = "newRoot" /\ pc' \in {"writeHeader", "corrupt"}
      /\ WriteNode(Extended, pageCount, p)
      /\ pageCount' = pageCount + 1
      /\ UNCHANGED <<header, path, split, call, contents>>
  BY DEF NewRoot, Allocate
<1> HIDE DEF p
<1>2. file' = [Extended EXCEPT ![pageCount] = p]
  BY <1>1 DEF WriteNode, TypeInv, IInv, Shape
<1>3. file' = [x \in DOMAIN file' |-> file'[x]]
  BY <1>2
<1>4. call.val \in Values
  BY <1>1 DEF TypeInv, IInv, CallGood
<1>5. header' \in NodeIds' /\ path' \in Seq(NodeIds')
  BY <1>1, PathStays DEF TypeInv, IInv, Shape
<1>6. QED
  BY <1>1, <1>3, <1>4, <1>5 DEF TypeInv, Typed

(* A step that changes neither the pages nor what a split hands on.         *)
LEMMA RestTyped ==
  ASSUME Typed, UNCHANGED <<file, pageCount, split>>,
         header' \in NodeIds, path' \in Seq(NodeIds),
         contents' \in [Keys -> Values \cup {Nil}],
         pc' \in {"writeHeader", "return"} => call'.val \in Values
  PROVE  Typed'
<1>1. NodeIds' = NodeIds
  BY DEF NodeIds
<1>2. QED
  BY <1>1 DEF Typed

(* Every step of the engine keeps the types.                                *)
LEMMA EngineTyped ==
  ASSUME TypeInv, Engine
  PROVE  Typed'
<1>0. /\ IInv /\ PagesIn(Page) /\ Typed /\ Makes(Page)
      /\ NodeIds \subseteq Nat /\ root \in NodeIds
  BY MakesPages DEF TypeInv, NodeIds, IInv, Shape
<1>1. ASSUME NEW k \in Keys, NEW v \in Values, Insert(k, v)
      PROVE  Typed'
  <2>1. /\ UNCHANGED <<file, pageCount, header, split, contents>>
        /\ path' = <<root>> /\ pc' = "insertRec"
    BY <1>1 DEF Insert
  <2>2. path' \in Seq(NodeIds)
    BY <1>0, <2>1
  <2>3. QED
    BY <1>0, <2>1, <2>2, RestTyped DEF Typed
<1>2. CASE InsertOverwrite
  <2>1. /\ pc = "insertRec"
        /\ WriteAndReturn(Last(path), OverwriteValue(TopPage, Pos, call.val))
    BY <1>2 DEF InsertOverwrite
  <2>2. call.val \in Values
    BY <1>0, <2>1 DEF IInv, CallGood
  <2>3. QED
    BY <1>0, <2>1, <2>2, WriteTyped
<1>3. CASE InsertInLeaf
  <2> DEFINE d == Dropped(TopPage, Pos)
  <2>1. /\ pc = "insertRec" /\ TopPage.leaf /\ ~Room
        /\ DoInsert(Last(path), d, Pos, call.key, call.val, 0)
    BY <1>3 DEF InsertInLeaf
  <2>2. Admits(Page, d, Pos, call.key, call.val, 0) /\ Last(path) \in NodeIds
    BY <1>0, <2>1, TopGood DEF Makes
  <2>3. /\ GoodPage(d) /\ Between(d, Pos, call.key) /\ ChildrenIn(d, NodeIds)
        /\ d.leaf = TopPage.leaf
    BY <1>0, <2>1, DroppedGood
  <2>4. call.key \in Int /\ call.val \in Values \cup {Nil} /\ 0 \in Nat
    BY <1>0, <2>1 DEF IInv, CallGood
  <2> HIDE DEF d
  <2>5. QED
    BY <2>1, <2>2, <2>3, <2>4, DoInsertTyped
<1>4. CASE InsertDescend
  <2> DEFINE d     == Dropped(TopPage, Pos)
             child == ChildAt(d, Pos)
  <2>1. /\ pc = "insertRec" /\ ~TopPage.leaf
        /\ path' = Append(path, child)
        /\ UNCHANGED <<file, pageCount, header, pc, split, call, contents>>
    BY <1>4 DEF InsertDescend
  <2>2. /\ GoodPage(d) /\ Between(d, Pos, call.key) /\ ChildrenIn(d, NodeIds)
        /\ d.leaf = TopPage.leaf
    BY <1>0, <2>1, DroppedGood
  <2> HIDE DEF d
  <2>3. child \in NodeIds
    BY <2>1, <2>2, ChildOfPage DEF GoodPage, Between
  <2> HIDE DEF child
  <2>4. path' \in Seq(NodeIds)
    BY <1>0, <2>1, <2>3, AppendProperties DEF Typed
  <2>5. QED
    BY <1>0, <2>1, <2>4, RestTyped DEF Typed
<1>5. CASE WriteRight
  BY <1>5, WriteRightTyped
<1>6. CASE InsertSplit
  <2> DEFINE i == FindIdx(TopPage, split.key, FALSE)
  <2>1. /\ pc = "insertSplit"
        /\ DoInsert(Last(path), TopPage, i, split.key, split.val, split.right)
    BY <1>6 DEF InsertSplit
  <2>2. /\ Admits(Page, TopPage, i, split.key, split.val, split.right)
        /\ Last(path) \in NodeIds /\ GoodPage(TopPage) /\ TopPage.leaf = FALSE
        /\ ChildrenIn(TopPage, NodeIds)
    BY <1>0, <2>1, TopGood DEF Makes
  <2>3. /\ split.key \in Int /\ split.val \in Values \cup {Nil}
        /\ split.right \in Nat /\ split.right \in NodeIds
    BY <1>0, <2>1 DEF IInv, SplitGood
  <2>4. Between(TopPage, i, split.key)
    BY <2>2, <2>3, FoundPositionFits DEF GoodPage
  <2> HIDE DEF i
  <2>5. QED
    BY <2>1, <2>2, <2>3, <2>4, DoInsertTyped
<1>7. CASE NewRoot
  BY <1>7, NewRootTyped
<1>8. CASE WriteHeader
  <2>1. /\ UNCHANGED <<file, pageCount, path, split, contents, call>>
        /\ pc = "writeHeader" /\ header' \in {header, root}
    BY <1>8 DEF WriteHeader
  <2>2. QED
    BY <1>0, <2>1, RestTyped DEF Typed
<1>9. CASE ReturnInsert
  <2>1. /\ UNCHANGED <<file, pageCount, header>>
        /\ pc = "return" /\ pc' = "idle" /\ path' = << >> /\ split' = NoSplit
        /\ contents' = [contents EXCEPT ![call.key] = call.val]
    BY <1>9 DEF ReturnInsert
  <2>2. contents' \in [Keys -> Values \cup {Nil}]
    BY <1>0, <2>1 DEF Typed
  <2>3. split' \in Promotion
    BY <2>1, BlankIsPage DEF NoSplit, Promotion
  <2>4. NodeIds' = NodeIds
    BY <2>1 DEF NodeIds
  <2>5. QED
    BY <1>0, <2>1, <2>2, <2>3, <2>4 DEF Typed
<1>10. ASSUME NEW k \in DeleteKeys, Delete(k)
       PROVE  Typed'
  <2>1. /\ UNCHANGED <<file, pageCount, header, path, split, pc, call>>
        /\ contents' = [contents EXCEPT ![k] = Nil]
    BY <1>10 DEF Delete
  <2>2. contents' \in [Keys -> Values \cup {Nil}]
    BY <1>0, <2>1 DEF Typed
  <2>3. QED
    BY <1>0, <2>1, <2>2, RestTyped DEF Typed
<1>11. ASSUME NEW id \in DOMAIN cached, Evict(id)
       PROVE  Typed'
  <2>1. UNCHANGED <<file, pageCount, header, path, split, pc, call, contents>>
    BY <1>11 DEF Evict
  <2>2. QED
    BY <1>0, <2>1, RestTyped DEF Typed
<1>12. QED
  BY <1>1, <1>2, <1>3, <1>4, <1>5, <1>6, <1>7, <1>8, <1>9, <1>10, <1>11
     DEF Engine, InsertStep

(* The engine keeps the inductive invariant.                                *)
LEMMA EngineTypes ==
  ASSUME TypeInv, Engine
  PROVE  TypeInv'
<1>1. IInv' /\ Typed'
  BY EngineKeeps, EngineTyped DEF TypeInv
<1>2. PagesIn(Page)'
  BY MakesPages, EngineIn DEF TypeInv
<1>3. QED
  BY <1>1, <1>2 DEF TypeInv

(* So does a lookup, which changes the call and its path only.              *)
LEMMA LookupTypes ==
  ASSUME TypeInv, IInv', UNCHANGED <<file, cached, pageCount, header, split, contents>>,
         path' \in Seq(NodeIds),
         \/ pc' = pc /\ call' = call
         \/ pc \notin {"writeRight", "corrupt"}
            /\ pc' \notin {"writeRight", "writeHeader", "return"}
  PROVE  TypeInv'
<1>1. PagesIn(Page)'
  BY RestIn DEF TypeInv, PagesIn
<1>2. Typed'
  BY RestTyped DEF TypeInv, Typed
<1>3. QED
  BY <1>1, <1>2 DEF TypeInv

(* A lookup is for a key and has a page.                                    *)
GetGood == pc = "get" => path # << >> /\ call.key \in Int

(* A lookup goes from a page to one of its children.                        *)
LEMMA GetTypes ==
  ASSUME TypeInv, GetGood, (\E k \in Keys : Get(k)) \/ GetStep
  PROVE  TypeInv' /\ GetGood'
<1>0. IInv /\ path \in Seq(NodeIds) /\ root \in NodeIds /\ IInv'
  BY GetKeeps DEF TypeInv, Typed, IInv, Shape
<1>1. /\ UNCHANGED <<file, cached, pageCount, header, split, contents>>
      /\ pc \notin {"writeRight", "corrupt"}
      /\ pc' \notin {"writeRight", "writeHeader", "return"}
  BY DEF Get, GetStep, GetHit, GetMiss, GetDescend, ReturnGet, Answer
<1>2. path' \in Seq(NodeIds) /\ GetGood'
  <2>1. ASSUME NEW k \in Keys, Get(k)
        PROVE  path' \in Seq(NodeIds) /\ GetGood'
    <3>1. path' = <<root>> /\ call'.key \in Int
      BY <2>1, KeysAssumption DEF Get
    <3>2. QED
      BY <1>0, <3>1 DEF GetGood
  <2>2. CASE GetHit \/ GetMiss
    <3>1. path' = << >> /\ pc' = "answer"
      BY <2>2 DEF GetHit, GetMiss, Answer
    <3>2. QED
      BY <3>1 DEF GetGood
  <2>3. CASE GetDescend
    <3>1. /\ pc = "get" /\ ~TopPage.leaf /\ call' = call
          /\ path' = <<ChildAt(TopPage, Pos)>>
      BY <2>3 DEF GetDescend
    <3>2. call.key \in Int /\ path # << >>
      BY <3>1 DEF GetGood
    <3>3. Last(path) \in NodeIds
      BY <1>0, <3>2 DEF Last
    <3>4. IsPage(TopPage) /\ ChildrenIn(TopPage, NodeIds) /\ TopPage.leaf \in BOOLEAN
      BY <1>0, <3>1, <3>3, ReadGood DEF TopPage, GoodPage, Awaited, IsPage
    <3>5. Pos \in 1 .. NumCells(TopPage) + 1
      BY <3>2, <3>4, FindIdxIsBorder DEF Pos
    <3>6. ChildAt(TopPage, Pos) \in NodeIds
      BY <3>1, <3>4, <3>5, ChildOfPage
    <3>7. QED
      BY <3>1, <3>2, <3>6 DEF GetGood
  <2>4. CASE ReturnGet
    BY <1>0, <2>4 DEF ReturnGet, GetGood
  <2>5. QED
    BY <2>1, <2>2, <2>3, <2>4 DEF GetStep
<1>3. QED
  BY <1>0, <1>1, <1>2, LookupTypes

(* Every step keeps the types.                                              *)
LEMMA NextTypes == TypeInv /\ GetGood /\ [Next]_vars => TypeInv' /\ GetGood'
<1>1. SUFFICES ASSUME TypeInv, GetGood, [Next]_vars
               PROVE  TypeInv' /\ GetGood'
  OBVIOUS
<1>2. CASE Engine
  <2>1. TypeInv'
    BY <1>1, <1>2, EngineTypes
  <2>2. GetGood'
    <3>1. pc' # "get" \/ UNCHANGED <<pc, path, call>>
      BY <1>2 DEF Engine, InsertStep, Insert, InsertOverwrite, InsertInLeaf,
                  InsertDescend, WriteRight, InsertSplit, NewRoot, WriteHeader,
                  ReturnInsert, Delete, Evict, DoInsert, SplitNode, WriteAndReturn
    <3>2. QED
      BY <1>1, <3>1 DEF GetGood
  <2>3. QED
    BY <2>1, <2>2
<1>3. CASE (\E k \in Keys : Get(k)) \/ GetStep
  BY <1>1, <1>3, GetTypes
<1>4. CASE UNCHANGED vars
  <2>1. IInv'
    BY <1>1, <1>4, StutterKeeps DEF TypeInv
  <2>2. /\ UNCHANGED <<file, cached, pageCount, header, split, contents, pc, call>>
        /\ path' = path
    BY <1>4 DEF vars
  <2>3. path' \in Seq(NodeIds)
    BY <1>1, <2>2 DEF TypeInv, Typed
  <2>4. TypeInv'
    BY <1>1, <2>1, <2>2, <2>3, LookupTypes
  <2>5. QED
    BY <1>1, <2>2, <2>4 DEF GetGood
<1>5. QED
  BY <1>1, <1>2, <1>3, <1>4 DEF Next

(* The variables keep their types: what file and cache hold are pages with  *)
(* a content offset, ids are those of allocated pages.                      *)
THEOREM BTreeTypeOK ==
  ASSUME ~WritesMayFail
  PROVE  Spec => []TypeOK
<1>1. Init => TypeInv /\ GetGood
  BY InitTyped DEF Init, GetGood
<1>2. TypeInv /\ GetGood /\ [Next]_vars => TypeInv' /\ GetGood'
  BY NextTypes
<1>3. TypeInv => TypeOK
  BY TypesByInv
<1>4. QED
  BY <1>1, <1>2, <1>3, PTL DEF Spec

(* Every step keeps pages filled by values of one length within bounds.     *)
LEMMA NextFits ==
  ASSUME NEW L, OneLength(L)
  PROVE  FitInv(L) /\ [Next]_vars => FitInv(L)'
<1>1. SUFFICES ASSUME FitInv(L), [Next]_vars
               PROVE  FitInv(L)'
  OBVIOUS
<1>2. CASE Engine
  BY <1>1, <1>2, EngineFits
<1>3. CASE (\E k \in Keys : Get(k)) \/ GetStep
  <2>1. IInv'
    BY <1>1, <1>3, GetKeeps DEF FitInv
  <2>2. /\ UNCHANGED <<file, cached, pageCount>>
        /\ pc # "writeRight"
        /\ pc' \notin {"writeRight", "insertSplit", "newRoot", "corrupt"}
    BY <1>3 DEF Get, GetStep, GetHit, GetMiss, GetDescend, ReturnGet, Answer
  <2>3. QED
    BY <1>1, <2>1, <2>2, RestFits
<1>4. CASE UNCHANGED vars
  <2>1. IInv'
    BY <1>1, <1>4, StutterKeeps DEF FitInv
  <2>2. UNCHANGED <<file, cached, pageCount>> /\ UNCHANGED <<pc, split>>
    BY <1>4 DEF vars
  <2>3. QED
    BY <1>1, <2>1, <2>2, RestFits
<1>5. QED
  BY <1>1, <1>2, <1>3, <1>4 DEF Next

(* No cell of the B-tree runs into the cell pointers of its page, neither   *)
(* where an insertion puts it nor where a split deals the cells out, if all *)
(* values have one length and cells of that length leave no gap on a full   *)
(* page in which a cell fits without its pointer.                           *)
THEOREM BTreePagesFit ==
  ASSUME ~WritesMayFail, NEW L, OneLength(L)
  PROVE  Spec => []PagesFit
<1>1. Init => FitInv(L)
  BY InitFits
<1>2. FitInv(L) /\ [Next]_vars => FitInv(L)'
  BY NextFits
<1>3. FitInv(L) => PagesFit
  BY FitsByInv
<1>4. QED
  BY <1>1, <1>2, <1>3, PTL DEF Spec
-----------------------------------------------------------------------------
(* A search comes to the page that has its key, or to the leaf without it.  *)
LEMMA GetMaps ==
  ASSUME MapInv, IInv', (\E k \in Keys : Get(k)) \/ GetStep
  PROVE  MapInv'
<1>1. CASE \E k \in Keys : Get(k)
  BY <1>1, SearchBegins DEF Get
<1>2. CASE GetHit
  BY <1>2, SearchEnds DEF GetHit, Answer
<1>3. CASE GetMiss
  BY <1>3, SearchEnds DEF GetMiss, Answer
<1>4. CASE GetDescend
  <2>1. /\ pc = "get" /\ ~Found /\ ~TopPage.leaf
        /\ path' = <<ChildAt(TopPage, Pos)>>
        /\ UNCHANGED <<file, cached, pageCount, root, pc, split, call, contents>>
    BY <1>4 DEF GetDescend
  <2>2. PICK own, lev, x : Searching(own, lev, x)
    BY <2>1, PageSearched
  <2>3. ~KeyAt(TopPage, Pos)
    BY <2>1, <2>2, HitIsStored, BTreeAssumption DEF Found
  <2>4. QED
    BY <2>1, <2>3, DescendMaps
<1>5. CASE ReturnGet
  BY <1>5, SearchEnds DEF ReturnGet
<1>6. QED
  BY <1>1, <1>2, <1>3, <1>4, <1>5 DEF GetStep

(* Every step keeps the table of keys and levels.                           *)
LEMMA NextMaps ==
  ASSUME DeleteKeys = {}
  PROVE  MapInv /\ ~Ousts /\ [Next]_vars => MapInv'
<1> SUFFICES ASSUME MapInv, ~Ousts, [Next]_vars
             PROVE  MapInv'
  OBVIOUS
<1>1. CASE Engine
  BY <1>1, EngineMaps DEF Deletes
<1>2. CASE (\E k \in Keys : Get(k)) \/ GetStep
  <2>1. IInv'
    BY <1>2, GetKeeps DEF MapInv
  <2>2. QED
    BY <1>2, <2>1, GetMaps
<1>3. CASE UNCHANGED vars
  BY <1>3, StutterMaps
<1>4. QED
  BY <1>1, <1>2, <1>3 DEF Next

(* A search answers what the index is to hold.                              *)
LEMMA GetAnswers ==
  ASSUME MapInv, GetHit \/ GetMiss
  PROVE  Promise!AnswerGet
<1>1. PICK own, lev, x : Searching(own, lev, x) /\ call.key \in own[x]
  <2>1. pc = "get"
    BY DEF GetHit, GetMiss
  <2>2. QED
    BY <2>1, PageSearched
<1>2. call.op = "get" /\ UNCHANGED contents
  BY DEF GetHit, GetMiss, Answer, MapInv, CallOK
<1>3. CASE GetHit
  <2>1. call' = [op |-> "answer", key |-> call.key, val |-> TopPage.cells[Pos].val]
    BY <1>3 DEF GetHit, Answer
  <2>2. TopPage.cells[Pos].val = contents[call.key]
    BY <1>1, <1>3, HitIsStored, BTreeAssumption DEF GetHit, Found
  <2>3. QED
    BY <1>2, <2>1, <2>2 DEF Promise!AnswerGet
<1>4. CASE GetMiss
  <2>1. /\ call' = [op |-> "answer", key |-> call.key, val |-> Nil]
        /\ TopPage.leaf /\ ~Found
    BY <1>4 DEF GetMiss, Answer
  <2>2. ~KeyAt(TopPage, Pos)
    BY <1>1, <2>1, HitIsStored, BTreeAssumption DEF Found
  <2>3. contents[call.key] = Nil
    BY <1>1, <2>1, <2>2, MissIsAbsent
  <2>4. QED
    BY <1>2, <2>1, <2>3 DEF Promise!AnswerGet
<1>5. QED
  BY <1>3, <1>4

(* Every step is a step of the interface, or none.                          *)
LEMMA NextRefines ==
  ASSUME DeleteKeys = {}
  PROVE  MapInv /\ [Next]_vars => [Promise!Next]_(Promise!ivars)
<1> SUFFICES ASSUME MapInv, [Next]_vars
             PROVE  [Promise!Next]_(Promise!ivars)
  OBVIOUS
<1>1. CASE Engine
  <2>1. CASE /\ call = NoCall /\ contents' = contents
             /\ \E k \in Keys, v \in Values :
                  call' = [op |-> "insert", key |-> k, val |-> v]
    BY <2>1 DEF Promise!Next, Promise!CallInsert, NoCall, Promise!NoCall
  <2>2. CASE /\ call.op = "insert" /\ call' = NoCall
             /\ contents' = [contents EXCEPT ![call.key] = call.val]
    BY <2>2 DEF Promise!Next, Promise!ReturnInsert, NoCall, Promise!NoCall
  <2>3. CASE UNCHANGED <<contents, call>>
    BY <2>3 DEF Promise!ivars
  <2>4. QED
    BY <1>1, <2>1, <2>2, <2>3, EngineCalls DEF Deletes
<1>2. CASE \E k \in Keys : Get(k)
  BY <1>2 DEF Get, MapInv, CallOK, Promise!Next, Promise!CallGet, NoCall,
              Promise!NoCall
<1>3. CASE GetHit \/ GetMiss
  BY <1>3, GetAnswers DEF Promise!Next
<1>4. CASE GetDescend
  BY <1>4 DEF GetDescend, Promise!ivars
<1>5. CASE ReturnGet
  BY <1>5 DEF ReturnGet, MapInv, CallOK, Promise!Next, Promise!ReturnGet, NoCall,
              Promise!NoCall
<1>6. CASE UNCHANGED vars
  BY <1>6 DEF vars, Promise!ivars
<1>7. QED
  BY <1>1, <1>2, <1>3, <1>4, <1>5, <1>6 DEF Next, GetStep

(* A new tree is the empty map.                                             *)
LEMMA InitRefines == Init => Promise!Init
BY DEF Init, Promise!Init, NoCall, Promise!NoCall

(* The B-tree does what the interface promises, for every set of keys and   *)
(* values and every page size, as long as no page write fails, nobody calls *)
(* Delete and no value outgrows the one it replaces on an internal page.    *)
THEOREM BTreeImplementsIndex ==
  ASSUME ~WritesMayFail, DeleteKeys = {}
  PROVE  Spec /\ []~Ousts => ImplementsIndex
<1>1. Init => MapInv
  BY InitMaps
<1>2. MapInv /\ ~Ousts /\ [Next]_vars => MapInv'
  BY NextMaps
<1>3. MapInv /\ [Next]_vars => [Promise!Next]_(Promise!ivars)
  BY NextRefines
<1>4. QED
  BY <1>1, <1>2, <1>3, InitRefines, PTL DEF Spec, ImplementsIndex, Promise!Spec

(* With values of one length no value outgrows another: the program's own   *)
(* benchmarks store such values.                                            *)
THEOREM BTreeImplementsIndexOneLength ==
  ASSUME ~WritesMayFail, DeleteKeys = {},
         \A v, w \in Values : ValLen[v] = ValLen[w]
  PROVE  Spec => ImplementsIndex
<1>1. Init => MapInv
  BY InitMaps
<1>2. MapInv => ~Ousts
  BY SameLengthNeverOusts
<1>3. MapInv /\ ~Ousts /\ [Next]_vars => MapInv'
  BY NextMaps
<1>4. MapInv /\ [Next]_vars => [Promise!Next]_(Promise!ivars)
  BY NextRefines
<1>5. QED
  BY <1>1, <1>2, <1>3, <1>4, InitRefines, PTL
     DEF Spec, ImplementsIndex, Promise!Spec

(* Between two calls a B-tree stores every key that was inserted in one     *)
(* cell of one page that the root leads to, with the value of its last      *)
(* Insert, and no other key.                                                *)
THEOREM BTreeStoresContents ==
  ASSUME ~WritesMayFail, DeleteKeys = {}
  PROVE  Spec /\ []~Ousts => []StoresContents
<1>1. Init => MapInv
  BY InitMaps
<1>2. MapInv /\ ~Ousts /\ [Next]_vars => MapInv'
  BY NextMaps
<1>3. QED
  BY <1>1, <1>2, MapIsStored, PTL DEF Spec

(* The same with values of one length, whatever the behaviour.              *)
THEOREM BTreeStoresContentsOneLength ==
  ASSUME ~WritesMayFail, DeleteKeys = {},
         \A v, w \in Values : ValLen[v] = ValLen[w]
  PROVE  Spec => []StoresContents
<1>1. Init => MapInv
  BY InitMaps
<1>2. MapInv => ~Ousts
  BY SameLengthNeverOusts
<1>3. MapInv /\ ~Ousts /\ [Next]_vars => MapInv'
  BY NextMaps
<1>4. QED
  BY <1>1, <1>2, <1>3, MapIsStored, PTL DEF Spec
-----------------------------------------------------------------------------
(* Every step leaves each page where it hangs, or hangs it elsewhere, once. *)
LEMMA NextHangs ==
  ASSUME DeleteKeys = {}
  PROVE  MapInv /\ HangInv /\ ~Ousts /\ [Next]_vars => HangInv'
<1> SUFFICES ASSUME MapInv, HangInv, ~Ousts, [Next]_vars
             PROVE  HangInv'
  OBVIOUS
<1>1. CASE Engine
  BY <1>1, EngineHangs DEF Deletes
<1>2. CASE (\E k \in Keys : Get(k)) \/ GetStep
  <2>1. /\ UNCHANGED <<file, pageCount, root, split>>
        /\ pc \in {"idle", "get", "answer"}
        /\ pc' \in {"idle", "get", "answer"}
    BY <1>2 DEF Get, GetStep, GetHit, GetMiss, GetDescend, ReturnGet, Answer
  <2>2. QED
    BY <2>1, LookupHangs
<1>3. CASE UNCHANGED vars
  BY <1>3, StutterHangs
<1>4. QED
  BY <1>1, <1>2, <1>3 DEF Next

(* Between two calls every page that was ever allocated hangs in the B-tree *)
(* exactly once, for every page size and every sequence of splits: no half  *)
(* of a split is lost and none is hung twice.                               *)
THEOREM BTreeEachPageOnce ==
  ASSUME ~WritesMayFail, DeleteKeys = {}
  PROVE  Spec /\ []~Ousts => []EachPageOnce
<1>1. Init => MapInv /\ HangInv
  BY InitMaps, InitHangs
<1>2. MapInv /\ ~Ousts /\ [Next]_vars => MapInv'
  BY NextMaps
<1>3. MapInv /\ HangInv /\ ~Ousts /\ [Next]_vars => HangInv'
  BY NextHangs
<1>4. QED
  BY <1>1, <1>2, <1>3, MapHangs, PTL DEF Spec

(* The same with values of one length, whatever the behaviour.              *)
THEOREM BTreeEachPageOnceOneLength ==
  ASSUME ~WritesMayFail, DeleteKeys = {},
         \A v, w \in Values : ValLen[v] = ValLen[w]
  PROVE  Spec => []EachPageOnce
<1>1. Init => MapInv /\ HangInv
  BY InitMaps, InitHangs
<1>2. MapInv => ~Ousts
  BY SameLengthNeverOusts
<1>3. MapInv /\ ~Ousts /\ [Next]_vars => MapInv'
  BY NextMaps
<1>4. MapInv /\ HangInv /\ ~Ousts /\ [Next]_vars => HangInv'
  BY NextHangs
<1>5. QED
  BY <1>1, <1>2, <1>3, <1>4, MapHangs, PTL DEF Spec
-----------------------------------------------------------------------------
(* A scan that nothing is inserted under                                    *)

(* The keys of o from the cell of p at i on, and those from the subtree left*)
(* of that cell on.                                                         *)
FromCell(p, o, i) == {k \in o : i <= NumCells(p) /\ p.cells[i].key <= k}
FromSub(p, o, i)  == {k \in o : i > 1 => p.cells[i - 1].key < k}

(* The B-tree page p is for the keys o and stores those of want.            *)
SortedPage(p, o, want) ==
  /\ IsPage(p) /\ Increasing(p) /\ o \subseteq Int
  /\ KeysOK(p, o) /\ ValuesOK(p, want) /\ LeafOK(p, o, want)

(* The subtree left of a cell comes before the cell and what is behind it.  *)
LEMMA SubThenCell ==
  ASSUME NEW p, NEW o, NEW want, SortedPage(p, o, want),
         NEW i \in 1 .. NumCells(p) + 1
  PROVE  /\ \A k \in FromSub(p, o, i) :
              k \in FromCell(p, o, i) \/ k \in Share(p, o, i)
         /\ FromCell(p, o, i) \subseteq FromSub(p, o, i)
         /\ Share(p, o, i) \subseteq FromSub(p, o, i)
         /\ \A k \in Share(p, o, i), l \in FromCell(p, o, i) : k < l
<1>1. /\ NumCells(p) \in Nat /\ o \subseteq Int
      /\ \A j \in 1 .. NumCells(p) : p.cells[j].key \in Int
  BY CellsOfPage DEF SortedPage
<1>2. ~CopyUpLeaves
  BY BTreeAssumption
<1>3. \A k : k \in Share(p, o, i) <=>
        /\ k \in o /\ (i > 1 => p.cells[i - 1].key < k)
        /\ i <= NumCells(p) => k < p.cells[i].key
  BY <1>2 DEF Share, After
<1>4. ASSUME NEW k \in FromSub(p, o, i), k \notin FromCell(p, o, i)
      PROVE  k \in Share(p, o, i)
  <2>1. k \in o /\ k \in Int /\ (i > 1 => p.cells[i - 1].key < k)
    BY <1>1, <1>4 DEF FromSub
  <2>2. ~(i <= NumCells(p) /\ p.cells[i].key <= k)
    BY <1>4, <2>1 DEF FromCell
  <2>3. i <= NumCells(p) => k < p.cells[i].key
    BY <1>1, <2>1, <2>2
  <2>4. QED
    BY <1>3, <2>1, <2>3
<1>5. ASSUME NEW k \in FromCell(p, o, i)
      PROVE  k \in FromSub(p, o, i)
  <2>1. k \in o /\ k \in Int /\ i \in 1 .. NumCells(p) /\ p.cells[i].key <= k
    BY <1>1, <1>5 DEF FromCell
  <2>2. ASSUME i > 1
        PROVE  p.cells[i - 1].key < k
    <3>1. i - 1 \in 1 .. NumCells(p) /\ i - 1 < i
      BY <1>1, <2>1, <2>2
    <3>2. p.cells[i - 1].key < p.cells[i].key
      BY <2>1, <3>1 DEF SortedPage, Increasing
    <3>3. QED
      BY <1>1, <2>1, <3>1, <3>2
  <2>3. QED
    BY <2>1, <2>2 DEF FromSub
<1>6. ASSUME NEW k \in Share(p, o, i), NEW l \in FromCell(p, o, i)
      PROVE  k < l
  <2>1. l \in Int /\ i \in 1 .. NumCells(p) /\ p.cells[i].key <= l
    BY <1>1 DEF FromCell
  <2>2. k \in o /\ (i <= NumCells(p) => k < p.cells[i].key)
    BY <1>3
  <2>3. k \in Int /\ k < p.cells[i].key
    BY <1>1, <2>1, <2>2
  <2>4. QED
    BY <1>1, <2>1, <2>3
<1>7. Share(p, o, i) \subseteq FromSub(p, o, i)
  BY <1>3 DEF FromSub
<1>8. QED
  BY <1>4, <1>5, <1>6, <1>7

(* A cell comes before the subtree on its right and what is behind that.    *)
LEMMA CellThenSub ==
  ASSUME NEW p, NEW o, NEW want, SortedPage(p, o, want),
         NEW i \in 1 .. NumCells(p)
  PROVE  /\ p.cells[i].key \in FromCell(p, o, i)
         /\ \A k \in FromCell(p, o, i) :
              p.cells[i].key <= k /\ (k = p.cells[i].key \/ k \in FromSub(p, o, i + 1))
         /\ \A k \in FromSub(p, o, i + 1) :
              k \in FromCell(p, o, i) /\ p.cells[i].key < k
<1>1. /\ NumCells(p) \in Nat /\ o \subseteq Int
      /\ p.cells[i].key \in Int /\ p.cells[i].key \in o
  BY CellsOfPage DEF SortedPage, KeysOK
<1>2. i + 1 > 1 /\ (i + 1) - 1 = i /\ i <= NumCells(p)
  BY <1>1
<1>3. \A k : k \in FromSub(p, o, i + 1) <=> k \in o /\ p.cells[i].key < k
  BY <1>2 DEF FromSub
<1>4. \A k : k \in FromCell(p, o, i) <=> k \in o /\ p.cells[i].key <= k
  BY <1>2 DEF FromCell
<1> SUFFICES ASSUME NEW c, c = p.cells[i].key
             PROVE  /\ c \in FromCell(p, o, i)
                    /\ \A k \in FromCell(p, o, i) :
                         c <= k /\ (k = c \/ k \in FromSub(p, o, i + 1))
                    /\ \A k \in FromSub(p, o, i + 1) :
                         k \in FromCell(p, o, i) /\ c < k
  OBVIOUS
<1>5. c \in Int /\ c \in o
  BY <1>1
<1>6. \A k \in o : k \in Int
  BY <1>1
<1>7. c \in FromCell(p, o, i)
  BY <1>4, <1>5
<1>8. ASSUME NEW k \in FromCell(p, o, i)
      PROVE  c <= k /\ (k = c \/ k \in FromSub(p, o, i + 1))
  <2>1. k \in o /\ k \in Int /\ c <= k
    BY <1>4, <1>6
  <2>2. k = c \/ c < k
    BY <1>5, <2>1
  <2>3. QED
    BY <1>3, <2>1, <2>2
<1>9. ASSUME NEW k \in FromSub(p, o, i + 1)
      PROVE  k \in FromCell(p, o, i) /\ c < k
  <2>1. k \in o /\ k \in Int /\ c < k
    BY <1>3, <1>6
  <2>2. c <= k
    BY <1>5, <2>1
  <2>3. QED
    BY <1>4, <2>1, <2>2
<1>10. QED
  BY <1>7, <1>8, <1>9

(* A leaf has no subtrees.                                                  *)
LEMMA LeafHasCells ==
  ASSUME NEW p, NEW o, NEW want, SortedPage(p, o, want), p.leaf,
         NEW i \in 1 .. NumCells(p) + 1, NEW k \in FromSub(p, o, i),
         k \in Keys, want[k] # Nil
  PROVE  k \in FromCell(p, o, i)
<1>1. /\ NumCells(p) \in Nat
      /\ \A j \in 1 .. NumCells(p) : p.cells[j].key \in Int
  BY CellsOfPage DEF SortedPage
<1>2. k \in o /\ k \in Int /\ (i > 1 => p.cells[i - 1].key < k)
  BY DEF FromSub, SortedPage
<1>3. PICK j \in 1 .. NumCells(p) : p.cells[j].key = k
  BY <1>2 DEF SortedPage, LeafOK
<1>4. ~(j < i)
  <2>1. SUFFICES ASSUME j < i PROVE FALSE
    OBVIOUS
  <2>2. i > 1 /\ i - 1 \in 1 .. NumCells(p) /\ (j = i - 1 \/ j < i - 1)
    BY <1>1, <2>1
  <2>3. p.cells[i - 1].key < k
    BY <1>2, <2>2
  <2>4. j < i - 1 => p.cells[j].key < p.cells[i - 1].key
    BY <2>2 DEF SortedPage, Increasing
  <2>5. QED
    BY <1>1, <1>2, <1>3, <2>2, <2>3, <2>4
<1>5. i \in 1 .. NumCells(p) /\ (j = i \/ i < j)
  BY <1>1, <1>4
<1>6. i < j => p.cells[i].key < p.cells[j].key
  BY <1>5 DEF SortedPage, Increasing
<1>7. p.cells[i].key <= k
  BY <1>1, <1>2, <1>3, <1>5, <1>6
<1>8. QED
  BY <1>2, <1>5, <1>7 DEF FromCell

(* The keys from s on are those from the subtree on where FindIdx finds s.  *)
LEMMA FromStart ==
  ASSUME NEW p, NEW o, NEW want, SortedPage(p, o, want), NEW s \in Int,
         NEW leaf \in BOOLEAN, NEW i, i = FindIdx(p, s, leaf)
  PROVE  /\ i \in 1 .. NumCells(p) + 1
         /\ \A k \in o : s <= k => k \in FromSub(p, o, i)
         /\ \A k \in FromCell(p, o, i) : s <= k
<1>1. /\ NumCells(p) \in Nat /\ o \subseteq Int
      /\ \A j \in 1 .. NumCells(p) : p.cells[j].key \in Int
  BY CellsOfPage DEF SortedPage
<1>2. /\ i \in 1 .. NumCells(p) + 1
      /\ i > 1 => GoesRight(p, i - 1, s, leaf)
      /\ i <= NumCells(p) => ~GoesRight(p, i, s, leaf)
  BY FindIdxIsBorder DEF SortedPage
<1>3. /\ i > 1 => p.cells[i - 1].key < s
      /\ i <= NumCells(p) => ~(p.cells[i].key < s)
  BY <1>2, BTreeAssumption DEF GoesRight
<1>4. ASSUME NEW k \in o, s <= k
      PROVE  k \in FromSub(p, o, i)
  <2>1. ASSUME i > 1 PROVE p.cells[i - 1].key < k
    <3>1. i - 1 \in 1 .. NumCells(p)
      BY <1>1, <1>2, <2>1
    <3>2. QED
      BY <1>1, <1>3, <1>4, <2>1, <3>1
  <2>2. QED
    BY <2>1 DEF FromSub
<1>5. ASSUME NEW k \in FromCell(p, o, i)
      PROVE  s <= k
  <2>1. i \in 1 .. NumCells(p) /\ p.cells[i].key <= k /\ k \in Int
    BY <1>1, <1>2 DEF FromCell
  <2>2. QED
    BY <1>1, <1>3, <2>1
<1>6. QED
  BY <1>2, <1>4, <1>5
-----------------------------------------------------------------------------
(* The sets U[1] to U[N] of keys are in descending order, have every pair   *)
(* that want has and pairs does not, and no key below s or behind a pair.   *)
Lined(U, N, want, s, pairs) ==
  /\ \A n \in 1 .. N : U[n] \subseteq Int
  /\ \A n \in 1 .. N : \A k \in U[n] : s <= k /\ Before(pairs, k)
  /\ \A m, n \in 1 .. N : m < n => \A k \in U[m], l \in U[n] : l < k
  /\ \A k \in DOMAIN want : HasKey(pairs, k) \/ \E n \in 1 .. N : k \in U[n]

(* The last set gives way to a part of it that has all that is wanted.      *)
LEMMA LinedLast ==
  ASSUME NEW U, NEW N \in Nat \ {0}, NEW want, NEW s, NEW pairs,
         Lined(U, N, want, s, pairs), NEW V,
         \A n \in 1 .. N - 1 : V[n] = U[n],
         V[N] \subseteq U[N],
         \A k \in U[N] : k \in DOMAIN want => k \in V[N]
  PROVE  Lined(V, N, want, s, pairs)
<1>1. \A n \in 1 .. N : n = N \/ n \in 1 .. N - 1
  OBVIOUS
<1>2. \A n \in 1 .. N : V[n] \subseteq U[n]
  BY <1>1
<1>3. \A n \in 1 .. N : \A k \in U[n] : k \in DOMAIN want => k \in V[n]
  BY <1>1
<1>4. QED
  BY <1>2, <1>3 DEF Lined

(* The last set gives way to two parts of it.                               *)
LEMMA LinedSplit ==
  ASSUME NEW U, NEW N \in Nat \ {0}, NEW want, NEW s, NEW pairs,
         Lined(U, N, want, s, pairs), NEW V,
         \A n \in 1 .. N - 1 : V[n] = U[n],
         V[N] \subseteq U[N], V[N + 1] \subseteq U[N],
         \A k \in V[N + 1], l \in V[N] : k < l,
         \A k \in U[N] : k \in DOMAIN want => k \in V[N] \/ k \in V[N + 1]
  PROVE  Lined(V, N + 1, want, s, pairs)
<1>1. /\ \A n \in 1 .. N + 1 : n = N \/ n = N + 1 \/ n \in 1 .. N - 1
      /\ N \in 1 .. N /\ N \in 1 .. N + 1 /\ N + 1 \in 1 .. N + 1
      /\ 1 .. N \subseteq 1 .. N + 1
  OBVIOUS
<1> DEFINE At(n) == IF n = N + 1 THEN N ELSE n
<1>2. \A n \in 1 .. N + 1 : At(n) \in 1 .. N /\ V[n] \subseteq U[At(n)]
  BY <1>1
<1>3. \A m, n \in 1 .. N + 1 : m < n => At(m) < At(n) \/ (m = N /\ n = N + 1)
  OBVIOUS
<1>4. \A n \in 1 .. N : \A k \in U[n] : k \in DOMAIN want =>
        \E m \in 1 .. N + 1 : k \in V[m]
  <2>1. TAKE n \in 1 .. N
  <2>2. CASE n = N
    BY <1>1, <2>2
  <2>3. CASE n # N
    BY <1>1, <2>3
  <2>4. QED
    BY <2>2, <2>3
<1> HIDE DEF At
<1>5. \A m, n \in 1 .. N + 1 : m < n => \A k \in V[m], l \in V[n] : l < k
  <2>1. TAKE m, n \in 1 .. N + 1
  <2>2. HAVE m < n
  <2>3. TAKE k \in V[m], l \in V[n]
  <2>4. CASE m = N /\ n = N + 1
    BY <2>3, <2>4
  <2>5. CASE At(m) < At(n)
    BY <1>2, <2>3, <2>5 DEF Lined
  <2>6. QED
    BY <1>3, <2>2, <2>4, <2>5
<1>6. \A k \in DOMAIN want : HasKey(pairs, k) \/ \E n \in 1 .. N + 1 : k \in V[n]
  BY <1>4 DEF Lined
<1>7. \A n \in 1 .. N + 1 : V[n] \subseteq Int
  BY <1>2 DEF Lined
<1>8. \A n \in 1 .. N + 1 : \A k \in V[n] : s <= k /\ Before(pairs, k)
  BY <1>2 DEF Lined
<1>9. QED
  BY <1>5, <1>6, <1>7, <1>8 DEF Lined

(* The last set has nothing left and goes.                                  *)
LEMMA LinedDrop ==
  ASSUME NEW U, NEW N \in Nat \ {0}, NEW want, NEW s, NEW pairs,
         Lined(U, N, want, s, pairs), NEW V,
         \A n \in 1 .. N - 1 : V[n] = U[n],
         U[N] = {}
  PROVE  Lined(V, N - 1, want, s, pairs)
<1>1. /\ \A n \in 1 .. N : n = N \/ n \in 1 .. N - 1
      /\ 1 .. N - 1 \subseteq 1 .. N
  OBVIOUS
<1>2. \A n \in 1 .. N : \A k \in U[n] : n \in 1 .. N - 1 /\ k \in V[n]
  BY <1>1
<1>3. QED
  BY <1>1, <1>2 DEF Lined

(* The least key of the last set is produced.                               *)
LEMMA LinedTake ==
  ASSUME NEW U, NEW N \in Nat \ {0}, NEW want, NEW s, NEW S, NEW pairs \in Seq(S),
         Lined(U, N, want, s, pairs), NEW V, NEW r, NEW more,
         more = Append(pairs, r), r.key \in U[N],
         \A n \in 1 .. N - 1 : V[n] = U[n],
         \A k \in V[N] : k \in U[N] /\ r.key < k,
         \A k \in U[N] : k \in DOMAIN want => k = r.key \/ k \in V[N]
  PROVE  Lined(V, N, want, s, more)
<1>1. /\ \A n \in 1 .. N : n = N \/ (n \in 1 .. N - 1 /\ n < N)
      /\ N \in 1 .. N
  OBVIOUS
<1>2. \A n \in 1 .. N : V[n] \subseteq U[n]
  BY <1>1
<1>3. \A n \in 1 .. N : \A k \in U[n] : k \in DOMAIN want => k = r.key \/ k \in V[n]
  BY <1>1
<1>4. \A n \in 1 .. N : \A k \in V[n] : r.key < k
  BY <1>1 DEF Lined
<1>5. /\ DOMAIN pairs = 1 .. Len(pairs) /\ Len(pairs) \in Nat
      /\ DOMAIN more = 1 .. Len(pairs) + 1
      /\ more[Len(pairs) + 1] = r
      /\ \A n \in 1 .. Len(pairs) : more[n] = pairs[n]
  OBVIOUS
<1>6. \A k : Before(pairs, k) /\ r.key < k => Before(more, k)
  BY <1>5 DEF Before
<1>7. \A k : HasKey(pairs, k) => HasKey(more, k)
  BY <1>5 DEF HasKey
<1>8. HasKey(more, r.key)
  BY <1>5 DEF HasKey
<1>9. \A n \in 1 .. N : \A k \in V[n] : s <= k /\ Before(more, k)
  BY <1>2, <1>4, <1>6 DEF Lined
<1>10. \A k \in DOMAIN want : HasKey(more, k) \/ \E n \in 1 .. N : k \in V[n]
  BY <1>3, <1>7, <1>8 DEF Lined
<1>11. \A n \in 1 .. N : V[n] \subseteq Int
  BY <1>2 DEF Lined
<1>12. \A m, n \in 1 .. N : m < n => \A k \in V[m], l \in V[n] : l < k
  BY <1>2 DEF Lined
<1>13. QED
  BY <1>9, <1>10, <1>11, <1>12 DEF Lined
-----------------------------------------------------------------------------
(* What the walk has still before it                                        *)

(* The frame at n has the subtree left of its cell before it: it is on top, *)
(* Next has come to it, and the subtree has not been visited.               *)
SubLeft(n) ==
  /\ scan # "range" /\ n = Len(stack)
  /\ ~stack[n].subtreeDone /\ ~Held[stack[n].id].leaf

(* The frames, and the page Range goes on with.                             *)
Places == IF scan = "range" THEN Len(stack) + 1 ELSE Len(stack)

(* The keys at each of the places, the next ones to come at the last.       *)
Upcoming(own) ==
  [n \in 1 .. Places |->
     IF n = Len(stack) + 1 THEN {k \in own[it.at] : it.start <= k}
     ELSE IF SubLeft(n)
          THEN FromSub(Held[stack[n].id], own[stack[n].id], stack[n].idx)
          ELSE FromCell(Held[stack[n].id], own[stack[n].id], stack[n].idx)]

(* The frames are at cells of their pages, or behind the last.              *)
FramesOK ==
  /\ stack \in Seq([id : NodeIds, idx : Nat, subtreeDone : BOOLEAN])
  /\ \A n \in 1 .. Len(stack) :
       stack[n].idx \in 1 .. NumCells(Held[stack[n].id]) + 1

(* The tree is sound, and the wanted pairs that were not produced lie ahead *)
(* in order.                                                                *)
Walking(own, lev) ==
  /\ Valid(Held, NodeIds, root, own, lev, own, contents)
  /\ Lined(Upcoming(own), Places, Wanted, it.start, seen)

(* No call of the index runs while an iterator is open.                     *)
ScanAlone ==
  /\ scan \in {"closed", "range", "open", "next", "done"}
  /\ it \in [start : Int, end : Int, at : Int]
  /\ scan = "closed" => stack = << >>
  /\ scan \in {"closed", "range"} => seen = << >>
  /\ scan # "closed" => pc = "idle"
  /\ seen \in Seq([key : Int, val : Values \cup {Nil}])

(* The walk goes on from where it is.                                       *)
Underway ==
  scan \in {"range", "open", "next"} =>
    /\ FramesOK
    /\ scan = "range" => it.at \in NodeIds
    /\ \E own, lev : Walking(own, lev)

(* What was produced is in order, and all of it in the end.                 *)
Produced ==
  scan # "closed" =>
    /\ Ascending(seen, Wanted)
    /\ scan = "done" => \A k \in DOMAIN Wanted : HasKey(seen, k)

(* The inductive invariant behind ScanInOrder.                              *)
WalkInv == MapInv /\ ScanAlone /\ Underway /\ Produced

(* It says that the pairs produced are the first of the range.              *)
LEMMA WalkIsInOrder == WalkInv => ScanInOrder
<1> SUFFICES ASSUME WalkInv, scan # "closed"
             PROVE  /\ FirstOf(seen, Wanted)
                    /\ scan = "done" => AllOf(seen, Wanted)
                    /\ scan # "failed"
  BY DEF ScanInOrder
<1>1. /\ Ascending(seen, Wanted)
      /\ scan \in {"range", "open", "next", "done"}
  BY DEF WalkInv, ScanAlone, Produced
<1>2. CASE scan = "done"
  <2>1. \A k \in DOMAIN Wanted : HasKey(seen, k)
    BY <1>2 DEF WalkInv, Produced
  <2>2. QED
    BY <1>1, <1>2, <2>1 DEF FirstOf, AllOf
<1>3. CASE scan # "done"
  <2>1. PICK own, lev : Walking(own, lev)
    BY <1>1, <1>3 DEF WalkInv, Underway
  <2>2. \A k \in DOMAIN Wanted : HasKey(seen, k) \/ Before(seen, k)
    BY <2>1 DEF Walking, Lined
  <2>3. FirstOf(seen, Wanted)
    BY <1>1, <2>2 DEF FirstOf
  <2>4. QED
    BY <1>1, <1>3, <2>3
<1>4. QED
  BY <1>2, <1>3

(* At the beginning there is no iterator.                                   *)
LEMMA RangeInitWalks ==
  ASSUME ~WritesMayFail, RangeInit
  PROVE  WalkInv
<1>1. MapInv
  BY InitMaps DEF RangeInit
<1>2. /\ scan = "closed" /\ stack = << >> /\ seen = << >>
      /\ it = [start |-> 0, end |-> 0, at |-> 0]
  BY DEF RangeInit, NoRange
<1>3. seen \in Seq([key : Int, val : Values \cup {Nil}])
  BY <1>2
<1>4. it \in [start : Int, end : Int, at : Int]
  BY <1>2
<1>5. ScanAlone
  BY <1>2, <1>3, <1>4 DEF ScanAlone
<1>6. QED
  BY <1>1, <1>2, <1>5 DEF WalkInv, Underway, Produced

(* The pages of the walk.                                                   *)
LEMMA PagesWalked ==
  ASSUME MapInv, pc = "idle", NEW own, NEW lev,
         Valid(Held, NodeIds, root, own, lev, own, contents), NEW x \in NodeIds,
         NEW p, p = PageOf(x)
  PROVE  /\ p = Held[x] /\ p.leaf \in BOOLEAN
         /\ SortedPage(p, own[x], contents)
         /\ ~p.leaf => \A i \in 1 .. NumCells(p) + 1 :
                         /\ ChildAt(p, i) \in NodeIds
                         /\ own[ChildAt(p, i)] = Share(p, own[x], i)
<1>1. p = Held[x]
  BY ReadHeld
<1>2. PageOK(p, x, NodeIds, own, lev, own, contents) /\ own[x] \subseteq Int
  BY <1>1 DEF Valid, Spread
<1>3. ~p.leaf => \A i \in 1 .. NumCells(p) + 1 :
                   ChildOK(p, i, x, NodeIds, own, lev, own)
  BY <1>2 DEF PageOK, ChildrenOK
<1>4. QED
  BY <1>1, <1>2, <1>3 DEF PageOK, ChildOK, SortedPage, IsPage

(* The pairs that are to be produced stay the same.                         *)
LEMMA WantedStays ==
  ASSUME UNCHANGED contents, it'.start = it.start, it'.end = it.end
  PROVE  Wanted' = Wanted
BY DEF Wanted, Stored

(* Range begins at the root.                                                *)
LEMMA OpenRangeWalks ==
  ASSUME WalkInv, NEW s \in Bounds, NEW e \in Bounds, OpenRange(s, e),
         UNCHANGED vars
  PROVE  WalkInv'
<1>1. /\ pc = "idle" /\ scan = "closed" /\ scan' = "range"
      /\ it' = [start |-> s, end |-> e, at |-> root]
      /\ UNCHANGED <<stack, seen>>
  BY DEF OpenRange
<1>2. MapInv /\ stack' = << >> /\ seen' = << >> /\ DOMAIN seen' = {}
      /\ seen \in Seq([key : Int, val : Values \cup {Nil}])
  BY <1>1 DEF WalkInv, ScanAlone
<1>3. /\ MapInv' /\ Held' = Held /\ NodeIds' = NodeIds
      /\ UNCHANGED <<pc, root, contents>>
  BY <1>2, TreeStays
<1>4. PICK own, lev, left : Arranged(own, lev, left)
  BY <1>1, <1>2 DEF MapInv
<1>5. Valid(Held, NodeIds, root, own, lev, own, contents)
  BY <1>1, <1>4 DEF Arranged, TreeSound, Want, Inserted, Pending
<1>6. root \in NodeIds /\ own[root] = Int /\ root \in Int
  BY <1>5 DEF Valid, Spread, NodeIds
<1>7. s \in Int /\ e \in Int
  BY CallerAssumption
<1>8. ScanAlone'
  <2>1. it' \in [start : Int, end : Int, at : Int]
    BY <1>1, <1>6, <1>7
  <2>2. QED
    BY <1>1, <1>2, <1>3, <2>1 DEF ScanAlone
<1>9. FramesOK'
  <2>1. Len(stack') = 0 /\ 1 .. Len(stack') = {}
    BY <1>2
  <2>2. stack' \in Seq([id : NodeIds', idx : Nat, subtreeDone : BOOLEAN])
    BY <1>2
  <2>3. QED
    BY <2>1, <2>2 DEF FramesOK
<1>10. Lined(Upcoming(own), Places, Wanted, it.start, seen)'
  <2> SUFFICES ASSUME NEW U, U = Upcoming(own)', NEW want, want = Wanted',
                      NEW pairs, pairs = seen'
               PROVE  Lined(U, 1, want, s, pairs)
    <3>1. Places' = 1 /\ it'.start = s
      BY <1>1, <1>2 DEF Places
    <3>2. QED
      BY <3>1
  <2>1. U[1] = {k \in Int : s <= k}
    <3>1. Places' = 1 /\ it'.start = s /\ it'.at = root /\ Len(stack') = 0
      BY <1>1, <1>2 DEF Places
    <3>2. U[1] = {k \in own[root] : s <= k}
      BY <3>1 DEF Upcoming
    <3>3. QED
      BY <1>6, <3>2
  <2>2. \A k : Before(pairs, k)
    BY <1>2 DEF Before
  <2>3. \A k \in DOMAIN want : k \in Int /\ s <= k
    BY <1>1, KeysAssumption DEF Wanted, Stored
  <2>4. /\ \A n \in 1 .. 1 : n = 1
        /\ \A m, n \in 1 .. 1 : ~(m < n)
        /\ 1 \in 1 .. 1
    OBVIOUS
  <2>5. QED
    BY <2>1, <2>2, <2>3, <2>4 DEF Lined
<1>11. Walking(own, lev)'
  BY <1>3, <1>5, <1>10 DEF Walking
<1>12. Underway'
  BY <1>1, <1>3, <1>6, <1>9, <1>11 DEF Underway
<1>13. Produced'
  BY <1>1, <1>2 DEF Produced, Ascending
<1>14. QED
  BY <1>3, <1>8, <1>12, <1>13 DEF WalkInv

(* The frames below the one on top.                                         *)
LEMMA FrontElements ==
  ASSUME NEW S, NEW q \in Seq(S), q # << >>, NEW r, r = Front(q)
  PROVE  /\ Len(q) \in Nat \ {0} /\ r \in Seq(S) /\ Len(r) = Len(q) - 1
         /\ \A n \in 1 .. Len(q) - 1 : r[n] = q[n]
<1>1. Len(q) \in Nat \ {0} /\ \A j \in 1 .. Len(q) : q[j] \in S
  <2>1. Len(q) \in Nat /\ Len(q) # 0
    BY EmptySeq
  <2>2. QED
    BY <2>1, ElementOfSeq
<1> DEFINE m == Len(q) - 1
<1>2. m \in Nat /\ r = SubSeq(q, 1, m)
  BY <1>1 DEF Front
<1>3. \A j \in 1 .. m : q[j] \in S
  BY <1>1
<1> HIDE DEF m
<1>4. /\ SubSeq(q, 1, m) \in Seq(S)
      /\ Len(SubSeq(q, 1, m)) = IF 1 <= m THEN m - 1 + 1 ELSE 0
      /\ \A j \in 1 .. m - 1 + 1 : SubSeq(q, 1, m)[j] = q[1 + j - 1]
  BY <1>2, <1>3, SubSeqProperties
<1>5. /\ m - 1 + 1 = m /\ \A j \in 1 .. m : 1 + j - 1 = j
      /\ (IF 1 <= m THEN m - 1 + 1 ELSE 0) = m
  BY <1>2
<1>6. QED
  BY <1>1, <1>2, <1>4, <1>5 DEF m

(* The frames, one by one.                                                  *)
LEMMA FrameElements ==
  ASSUME FramesOK
  PROVE  /\ Len(stack) \in Nat
         /\ \A n \in 1 .. Len(stack) :
              /\ stack[n] \in [id : NodeIds, idx : Nat, subtreeDone : BOOLEAN]
              /\ stack[n].id \in NodeIds
              /\ stack[n].idx \in 1 .. NumCells(Held[stack[n].id]) + 1
<1> DEFINE Frames == [id : NodeIds, idx : Nat, subtreeDone : BOOLEAN]
<1>1. stack \in Seq(Frames)
  BY DEF FramesOK
<1> HIDE DEF Frames
<1>2. Len(stack) \in Nat /\ \A n \in 1 .. Len(stack) : stack[n] \in Frames
  BY <1>1, ElementOfSeq
<1>3. QED
  BY <1>2 DEF FramesOK, Frames

(* Range goes down: the cells from the start key on stay behind on the page,*)
(* and what is in the subtree before them comes first.                      *)
LEMMA RangeDescendWalks ==
  ASSUME WalkInv, RangeDescend, UNCHANGED vars
  PROVE  WalkInv'
<1> SUFFICES ASSUME NEW x, x = it.at, NEW p, p = PageOf(x),
                    NEW i, i = FindIdx(p, it.start, p.leaf),
                    NEW f, f = [id |-> x, idx |-> i, subtreeDone |-> FALSE],
                    NEW L, L = Len(stack), NEW s, s = it.start
             PROVE  WalkInv'
  OBVIOUS
<1>1. /\ scan = "range" /\ stack' = Append(stack, f)
      /\ IF p.leaf THEN scan' = "open" /\ it' = it
         ELSE it' = [it EXCEPT !.at = ChildAt(p, i)] /\ scan' = scan
      /\ seen' = seen
  BY DEF RangeDescend
<1>2. /\ MapInv /\ pc = "idle" /\ FramesOK /\ x \in NodeIds
      /\ it \in [start : Int, end : Int, at : Int] /\ s \in Int
      /\ seen = << >> /\ seen \in Seq([key : Int, val : Values \cup {Nil}])
      /\ Ascending(seen, Wanted)
  BY <1>1 DEF WalkInv, ScanAlone, Underway, Produced
<1>3. PICK own, lev : Walking(own, lev)
  BY <1>1 DEF WalkInv, Underway
<1>4. /\ MapInv' /\ Held' = Held /\ NodeIds' = NodeIds
      /\ UNCHANGED <<pc, root, contents>>
  BY <1>2, TreeStays
<1>5. /\ Valid(Held, NodeIds, root, own, lev, own, contents)
      /\ Lined(Upcoming(own), Places, Wanted, s, seen)
  BY <1>3 DEF Walking
<1>6. /\ p = Held[x] /\ p.leaf \in BOOLEAN
      /\ SortedPage(p, own[x], contents)
      /\ ~p.leaf => /\ ChildAt(p, i) \in NodeIds
                    /\ own[ChildAt(p, i)] = Share(p, own[x], i)
      /\ i \in 1 .. NumCells(p) + 1
      /\ \A k \in own[x] : s <= k => k \in FromSub(p, own[x], i)
      /\ \A k \in FromCell(p, own[x], i) : s <= k
  <2>1. /\ p = Held[x] /\ p.leaf \in BOOLEAN
        /\ SortedPage(p, own[x], contents)
        /\ ~p.leaf => \A j \in 1 .. NumCells(p) + 1 :
                        /\ ChildAt(p, j) \in NodeIds
                        /\ own[ChildAt(p, j)] = Share(p, own[x], j)
    BY <1>2, <1>5, PagesWalked
  <2>2. /\ i \in 1 .. NumCells(p) + 1
        /\ \A k \in own[x] : s <= k => k \in FromSub(p, own[x], i)
        /\ \A k \in FromCell(p, own[x], i) : s <= k
    BY <1>2, <2>1, FromStart
  <2>3. QED
    BY <2>1, <2>2
<1>7. NumCells(p) \in Nat /\ own[x] \subseteq Int
  BY <1>6, CellsOfPage DEF SortedPage
<1>8. /\ L \in Nat /\ Len(stack') = L + 1 /\ stack'[L + 1] = f
      /\ \A n \in 1 .. L : stack'[n] = stack[n]
      /\ stack' \in Seq([id : NodeIds, idx : Nat, subtreeDone : BOOLEAN])
  <2>1. f \in [id : NodeIds, idx : Nat, subtreeDone : BOOLEAN]
    BY <1>2, <1>6, <1>7
  <2>2. stack \in Seq([id : NodeIds, idx : Nat, subtreeDone : BOOLEAN])
    BY <1>2 DEF FramesOK
  <2>3. QED
    BY <1>1, <2>1, <2>2, AppendProperties
<1>9. FramesOK'
  <2>1. ASSUME NEW n \in 1 .. L + 1
        PROVE  stack'[n].idx \in 1 .. NumCells(Held[stack'[n].id]) + 1
    <3>1. n = L + 1 \/ n \in 1 .. L
      BY <1>8
    <3>2. QED
      BY <1>2, <1>6, <1>8, <3>1 DEF FramesOK
  <2>2. QED
    BY <1>4, <1>8, <2>1 DEF FramesOK
<1>10. /\ it' \in [start : Int, end : Int, at : Int]
       /\ it'.start = s /\ it'.end = it.end
       /\ p.leaf => it'.at = x
       /\ ~p.leaf => it'.at = ChildAt(p, i)
  <2>1. NodeIds \subseteq Int
    BY DEF NodeIds
  <2>2. QED
    BY <1>1, <1>2, <1>6, <2>1
<1>11. Wanted' = Wanted
  BY <1>4, <1>10, WantedStays
<1>12. \A k \in DOMAIN Wanted : k \in Keys /\ contents[k] # Nil
  BY DEF Wanted, Stored
<1> SUFFICES ASSUME NEW U, U = Upcoming(own), NEW V, V = Upcoming(own)',
                    NEW N, N = L + 1
             PROVE  WalkInv'
  OBVIOUS
<1>13. /\ N \in Nat \ {0} /\ N - 1 = L /\ N = Places
       /\ U[N] = {k \in own[x] : s <= k}
       /\ \A n \in 1 .. L :
            U[n] = FromCell(Held[stack[n].id], own[stack[n].id], stack[n].idx)
  <2>1. /\ N \in Nat \ {0} /\ N - 1 = L /\ N = Places
        /\ N \in 1 .. N /\ \A n \in 1 .. L : n \in 1 .. N /\ n # N
    BY <1>1, <1>8 DEF Places
  <2>2. \A n : ~SubLeft(n)
    BY <1>1 DEF SubLeft
  <2>3. QED
    BY <2>1, <2>2 DEF Upcoming
<1>14. /\ Places' = IF p.leaf THEN N ELSE N + 1
       /\ V[N] = FromCell(p, own[x], i)
       /\ \A n \in 1 .. L : V[n] = U[n]
       /\ ~p.leaf => V[N + 1] = {k \in own[ChildAt(p, i)] : s <= k}
  <2>1. /\ Places' = IF p.leaf THEN N ELSE N + 1
        /\ N \in 1 .. N /\ N \in 1 .. N + 1 /\ N + 1 \in 1 .. N + 1
        /\ N # N + 1
        /\ \A n \in 1 .. L : n \in 1 .. N /\ n \in 1 .. N + 1 /\ n # N /\ n # N + 1
    BY <1>1, <1>8, <1>13 DEF Places
  <2>2. \A n \in 1 .. N : ~SubLeft(n)'
    <3>1. TAKE n \in 1 .. N
    <3>2. CASE p.leaf
      BY <1>4, <1>6, <1>8, <2>1, <3>2 DEF SubLeft
    <3>3. CASE ~p.leaf
      BY <1>1, <3>3 DEF SubLeft
    <3>4. QED
      BY <3>2, <3>3
  <2>3. \A n \in 1 .. N : n \in 1 .. Places' /\ n # Len(stack') + 1
    BY <1>8, <1>13, <2>1
  <2>4. \A n \in 1 .. N :
          V[n] = FromCell(Held[stack'[n].id], own[stack'[n].id], stack'[n].idx)
    BY <1>4, <2>2, <2>3 DEF Upcoming
  <2>5. V[N] = FromCell(p, own[x], i)
    BY <1>6, <1>8, <2>1, <2>4
  <2>6. \A n \in 1 .. L : V[n] = U[n]
    BY <1>8, <1>13, <2>1, <2>4
  <2>7. ~p.leaf => V[N + 1] = {k \in own[ChildAt(p, i)] : s <= k}
    BY <1>8, <1>10, <2>1 DEF Upcoming
  <2>8. QED
    BY <2>1, <2>5, <2>6, <2>7
<1>15. V[N] \subseteq U[N]
  BY <1>6, <1>13, <1>14 DEF FromCell
<1>16. Lined(V, Places', Wanted, s, seen)
  <2>1. CASE p.leaf
    <3>1. \A k \in U[N] : k \in DOMAIN Wanted => k \in V[N]
      <4>1. SUFFICES ASSUME NEW k \in U[N], k \in DOMAIN Wanted
                     PROVE  k \in V[N]
        OBVIOUS
      <4>2. k \in FromSub(p, own[x], i)
        BY <1>6, <1>13
      <4>3. k \in Keys /\ contents[k] # Nil
        BY <1>12, <4>1
      <4>4. k \in FromCell(p, own[x], i)
        BY <1>6, <2>1, <4>2, <4>3, LeafHasCells
      <4>5. QED
        BY <1>14, <4>4
    <3>2. \A n \in 1 .. N - 1 : V[n] = U[n]
      BY <1>13, <1>14
    <3>3. Lined(U, N, Wanted, s, seen)
      BY <1>5, <1>13
    <3>4. Lined(V, N, Wanted, s, seen)
      BY <1>13, <1>15, <3>1, <3>2, <3>3, LinedLast
    <3>5. QED
      BY <1>14, <2>1, <3>4
  <2>2. CASE ~p.leaf
    <3>1. V[N + 1] = {k \in Share(p, own[x], i) : s <= k}
      BY <1>6, <1>14, <2>2
    <3>2. V[N + 1] \subseteq U[N]
      BY <1>13, <3>1 DEF Share
    <3>3. \A k \in V[N + 1], l \in V[N] : k < l
      <4>1. \A k \in Share(p, own[x], i), l \in FromCell(p, own[x], i) : k < l
        BY <1>6, SubThenCell
      <4>2. QED
        BY <1>14, <3>1, <4>1
    <3>4. \A k \in U[N] : k \in V[N] \/ k \in V[N + 1]
      BY <1>6, <1>13, <1>14, <3>1, SubThenCell
    <3>5. \A n \in 1 .. N - 1 : V[n] = U[n]
      BY <1>13, <1>14
    <3>6. Lined(U, N, Wanted, s, seen)
      BY <1>5, <1>13
    <3>7. Lined(V, N + 1, Wanted, s, seen)
      BY <1>13, <1>15, <3>2, <3>3, <3>4, <3>5, <3>6, LinedSplit
    <3>8. QED
      BY <1>14, <2>2, <3>7
  <2>3. QED
    BY <2>1, <2>2
<1>17. Walking(own, lev)'
  BY <1>1, <1>4, <1>5, <1>10, <1>11, <1>16 DEF Walking
<1>18. scan' \in {"range", "open"} /\ (scan' = "range" => it'.at \in NodeIds)
  BY <1>1, <1>6, <1>10
<1>19. Underway'
  BY <1>4, <1>9, <1>17, <1>18 DEF Underway
<1>20. ScanAlone' /\ Produced'
  BY <1>1, <1>2, <1>4, <1>10, <1>11, <1>18 DEF ScanAlone, Produced
<1>21. QED
  BY <1>4, <1>19, <1>20 DEF WalkInv

(* Next is called.                                                          *)
LEMMA CallNextWalks ==
  ASSUME WalkInv, CallNext, UNCHANGED vars
  PROVE  WalkInv'
<1>1. /\ pc = "idle" /\ scan = "open" /\ scan' = "next"
      /\ UNCHANGED <<it, stack, seen>>
  BY DEF CallNext
<1>2. MapInv
  BY DEF WalkInv
<1>3. /\ MapInv' /\ Held' = Held /\ NodeIds' = NodeIds
      /\ UNCHANGED <<pc, root, contents>>
  BY <1>2, TreeStays
<1>4. Wanted' = Wanted
  BY <1>1, <1>3, WantedStays
<1>5. PICK own, lev : Walking(own, lev)
  BY <1>1 DEF WalkInv, Underway
<1>6. Places' = Places
  BY <1>1 DEF Places
<1>7. \A n : SubLeft(n)' <=> SubLeft(n)
  BY <1>1, <1>3 DEF SubLeft
<1>8. Upcoming(own)' = Upcoming(own)
  BY <1>1, <1>3, <1>6, <1>7 DEF Upcoming
<1>9. Walking(own, lev)'
  BY <1>1, <1>3, <1>4, <1>5, <1>6, <1>8 DEF Walking
<1>10. FramesOK'
  BY <1>1, <1>3 DEF WalkInv, Underway, FramesOK
<1>11. ScanAlone' /\ Produced' /\ Underway'
  BY <1>1, <1>3, <1>4, <1>9, <1>10 DEF WalkInv, ScanAlone, Produced, Underway
<1>12. QED
  BY <1>3, <1>11 DEF WalkInv

(* Next produces the pair of a cell, or ends behind the range.              *)
LEMMA NextCellWalks ==
  ASSUME WalkInv, NextCell, UNCHANGED vars
  PROVE  WalkInv'
<1>0. SUFFICES ASSUME NEW L, L = Len(stack), NEW f, f = stack[L],
                       NEW x, x = f.id, NEW i, i = f.idx,
                       NEW p, p = PageOf(x), NEW c, c = p.cells[i],
                       NEW g, g = FrameBehind(f),
                       NEW r, r = [key |-> c.key, val |-> c.val]
                PROVE  WalkInv'
  OBVIOUS
<1>1. /\ scan = "next" /\ stack # << >>
      /\ p.leaf \/ f.subtreeDone
      /\ i <= NumCells(p)
      /\ IF c.key > it.end
         THEN scan' = "done" /\ stack' = stack /\ seen' = seen
         ELSE /\ seen' = Append(seen, r)
              /\ stack' = Append(Front(stack), g)
              /\ scan' = "open"
      /\ it' = it
  BY <1>0 DEF NextCell, AtCell, Top, ScanPage
<1>2. /\ MapInv /\ pc = "idle" /\ FramesOK
      /\ it \in [start : Int, end : Int, at : Int]
      /\ seen \in Seq([key : Int, val : Values \cup {Nil}])
      /\ Ascending(seen, Wanted)
  BY <1>1 DEF WalkInv, ScanAlone, Underway, Produced
<1>3. PICK own, lev : Walking(own, lev)
  BY <1>1 DEF WalkInv, Underway
<1>4. /\ MapInv' /\ Held' = Held /\ NodeIds' = NodeIds
      /\ UNCHANGED <<pc, root, contents>>
  BY <1>2, TreeStays
<1>5. /\ Valid(Held, NodeIds, root, own, lev, own, contents)
      /\ Lined(Upcoming(own), Places, Wanted, it.start, seen)
  BY <1>3 DEF Walking
<1>6. /\ L \in Nat \ {0} /\ L \in 1 .. L
      /\ f \in [id : NodeIds, idx : Nat, subtreeDone : BOOLEAN]
      /\ x \in NodeIds /\ i \in 1 .. NumCells(Held[x]) + 1
      /\ stack \in Seq([id : NodeIds, idx : Nat, subtreeDone : BOOLEAN])
  <2>1. stack \in Seq([id : NodeIds, idx : Nat, subtreeDone : BOOLEAN])
    BY <1>2 DEF FramesOK
  <2>2. L \in Nat /\ L # 0
    BY <1>0, <1>1, <2>1, EmptySeq
  <2>3. L \in Nat \ {0} /\ L \in 1 .. L
    BY <2>2
  <2>4. QED
    BY <1>0, <1>2, <2>1, <2>3, FrameElements
<1>7. /\ p = Held[x] /\ p.leaf \in BOOLEAN
      /\ SortedPage(p, own[x], contents)
  BY <1>0, <1>2, <1>5, <1>6, PagesWalked
<1>8. /\ NumCells(p) \in Nat /\ i \in 1 .. NumCells(p)
      /\ i + 1 \in 1 .. NumCells(p) + 1
      /\ c.key \in Int /\ c.key \in own[x] /\ c.key \in Keys
      /\ c.val = contents[c.key] /\ c.val # Nil
  <2>0. NumCells(p) \in Nat
    BY <1>7, CellsOfPage DEF SortedPage
  <2>1. NumCells(p) \in Nat /\ i \in 1 .. NumCells(p)
    BY <1>1, <1>6, <1>7, <2>0
  <2>2. i + 1 \in 1 .. NumCells(p) + 1
    BY <2>1
  <2>3. c.key \in own[x] /\ c.key \in Keys
    BY <1>0, <1>7, <2>1, ZenonT(60) DEF SortedPage, KeysOK
  <2>4. c.val = contents[c.key] /\ c.val # Nil
    BY <1>0, <1>7, <2>1, BTreeAssumption, ZenonT(60) DEF SortedPage, ValuesOK
  <2>5. QED
    BY <2>1, <2>2, <2>3, <2>4, KeysAssumption
<1>18. L \in Nat \ {0} /\ L \in 1 .. L
  BY ONLY <1>6
<1>9. /\ it'.start = it.start /\ it'.end = it.end /\ Wanted' = Wanted
      /\ scan' \in {"open", "done"}
  BY <1>1, <1>4, WantedStays
<1>10. \A k \in DOMAIN Wanted : /\ k \in Keys /\ contents[k] # Nil
                                /\ k \in Int /\ k <= it.end
  BY KeysAssumption DEF Wanted, Stored
<1> SUFFICES ASSUME NEW U, U = Upcoming(own)
             PROVE  WalkInv'
  OBVIOUS
<1>11. /\ L = Places
       /\ U[L] = FromCell(p, own[x], i)
       /\ \A n \in 1 .. L - 1 :
            U[n] = FromCell(Held[stack[n].id], own[stack[n].id], stack[n].idx)
  <2>0. L = Places
    BY <1>0, <1>1 DEF Places
  <2>1. L = Places /\ \A n \in 1 .. L : n \in 1 .. Places /\ n # L + 1
    BY <1>18, <2>0
  <2>2. \A n \in 1 .. L : ~SubLeft(n)
    BY <1>0, <1>1, <1>7 DEF SubLeft
  <2>3. \A n \in 1 .. L :
          U[n] = FromCell(Held[stack[n].id], own[stack[n].id], stack[n].idx)
    BY <1>0, <2>1, <2>2 DEF Upcoming
  <2>4. \A n \in 1 .. L - 1 : n \in 1 .. L
    BY ONLY <1>18
  <2>5. QED
    BY <1>0, <1>6, <1>7, <2>1, <2>3, <2>4
<1>12. /\ c.key \in U[L]
       /\ \A k \in U[L] : c.key <= k
                          /\ (k = c.key \/ k \in FromSub(p, own[x], i + 1))
       /\ \A k \in FromSub(p, own[x], i + 1) : k \in U[L] /\ c.key < k
  <2>1. /\ p.cells[i].key \in FromCell(p, own[x], i)
        /\ \A k \in FromCell(p, own[x], i) :
             p.cells[i].key <= k
             /\ (k = p.cells[i].key \/ k \in FromSub(p, own[x], i + 1))
        /\ \A k \in FromSub(p, own[x], i + 1) :
             k \in FromCell(p, own[x], i) /\ p.cells[i].key < k
    BY ONLY <1>7, <1>8, CellThenSub
  <2>2. QED
    BY <1>0, <1>11, <2>1, ZenonT(60)
<1>13. Lined(U, L, Wanted, it.start, seen)
  BY <1>5, <1>11
<1>14. it.start <= c.key /\ Before(seen, c.key)
  BY <1>6, <1>12, <1>13 DEF Lined
<1>15. CASE c.key > it.end
  <2>1. \A n \in 1 .. L : \A k \in U[n] : c.key <= k
    <3>1. TAKE n \in 1 .. L
    <3>2. TAKE k \in U[n]
    <3>3. CASE n = L
      BY <1>12, <3>3
    <3>4. CASE n # L
      <4>1. n < L
        BY <1>18, <3>4
      <4>2. c.key < k /\ k \in Int
        BY <1>18, <1>12, <1>13, <4>1 DEF Lined
      <4>3. QED
        BY ONLY <1>8, <4>2
    <3>5. QED
      BY <3>3, <3>4
  <2>2. \A k \in DOMAIN Wanted : ~(c.key <= k)
    BY ONLY <1>2, <1>8, <1>10, <1>15
  <2>3. \A k \in DOMAIN Wanted : HasKey(seen, k)
    BY <1>13, <2>1, <2>2 DEF Lined
  <2>4. scan' = "done" /\ seen' = seen
    BY <1>1, <1>15
  <2>5. Produced'
    BY <1>2, <1>9, <2>3, <2>4 DEF Produced
  <2>6. ScanAlone' /\ Underway'
    BY <1>1, <1>2, <1>4, <2>4 DEF ScanAlone, Underway
  <2>7. QED
    BY <1>4, <2>5, <2>6 DEF WalkInv
<1>16. CASE ~(c.key > it.end)
  <2>1. /\ scan' = "open" /\ seen' = Append(seen, r)
        /\ stack' = Append(Front(stack), g)
    BY <1>1, <1>16
  <2>2. /\ g \in [id : NodeIds, idx : Nat, subtreeDone : BOOLEAN]
        /\ g.id = x /\ g.idx = i + 1 /\ ~g.subtreeDone
    <3>1. f = [id |-> x, idx |-> i, subtreeDone |-> f.subtreeDone]
      BY <1>0, <1>6
    <3>2. g = [id |-> x, idx |-> i + 1, subtreeDone |-> FALSE]
      BY <1>0, <3>1 DEF FrameBehind
    <3>3. i + 1 \in Nat
      BY <1>8
    <3>4. QED
      BY <1>6, <3>2, <3>3
  <2>3. /\ stack' \in Seq([id : NodeIds, idx : Nat, subtreeDone : BOOLEAN])
        /\ Len(stack') = L /\ stack'[L] = g
        /\ \A n \in 1 .. L - 1 : stack'[n] = stack[n]
    <3> DEFINE Frames == [id : NodeIds, idx : Nat, subtreeDone : BOOLEAN]
    <3>1. stack \in Seq(Frames) /\ stack # << >> /\ g \in Frames
      BY <1>1, <1>6, <2>2
    <3> HIDE DEF Frames
    <3>2. /\ stack' \in Seq(Frames) /\ Len(stack') = Len(stack)
          /\ stack'[Len(stack)] = g
          /\ \A n \in 1 .. Len(stack) - 1 : stack'[n] = stack[n]
      <4> SUFFICES ASSUME NEW q \in Seq(Frames), q = stack, NEW t, t = stack',
                          NEW h, h = Front(q)
                   PROVE  /\ t \in Seq(Frames) /\ Len(t) = Len(q) /\ t[Len(q)] = g
                          /\ \A n \in 1 .. Len(q) - 1 : t[n] = q[n]
        BY <3>1
      <4>1. q # << >> /\ t = Append(h, g) /\ g \in Frames
        BY <2>1, <3>1
      <4>2. /\ Len(q) \in Nat \ {0} /\ h \in Seq(Frames) /\ Len(h) = Len(q) - 1
            /\ \A n \in 1 .. Len(q) - 1 : h[n] = q[n]
        BY <4>1, FrontElements
      <4>3. QED
        BY <4>1, <4>2
    <3>3. QED
      BY <1>0, <3>2 DEF Frames
  <2>4. FramesOK'
    <3>1. ASSUME NEW n \in 1 .. L
          PROVE  stack'[n].idx \in 1 .. NumCells(Held[stack'[n].id]) + 1
      <4>1. n = L \/ n \in 1 .. L - 1
        BY ONLY <1>18
      <4>2. CASE n = L
        <5>1. stack'[n].idx = i + 1 /\ stack'[n].id = x
          BY <2>2, <2>3, <4>2
        <5>2. QED
          BY <1>7, <1>8, <5>1
      <4>3. CASE n \in 1 .. L - 1
        BY <1>0, <1>2, <2>3, <4>3 DEF FramesOK
      <4>4. QED
        BY <4>1, <4>2, <4>3
    <3>2. QED
      BY <1>4, <2>3, <3>1 DEF FramesOK
  <2> SUFFICES ASSUME NEW V, V = Upcoming(own)'
               PROVE  WalkInv'
    OBVIOUS
  <2>5. /\ Places' = L
        /\ V[L] = IF p.leaf THEN FromCell(p, own[x], i + 1)
                  ELSE FromSub(p, own[x], i + 1)
        /\ \A n \in 1 .. L - 1 : V[n] = U[n]
    <3>1. Places' = L /\ \A n \in 1 .. L : n \in 1 .. Places' /\ n # Len(stack') + 1
      BY <1>18, <2>1, <2>3 DEF Places
    <3>2. SubLeft(L)' <=> ~p.leaf
      BY <1>4, <1>7, <2>1, <2>2, <2>3 DEF SubLeft
    <3>3. \A n \in 1 .. L - 1 : n \in 1 .. L /\ ~SubLeft(n)'
      <4>1. \A n \in 1 .. L - 1 : n \in 1 .. L /\ n # L
        BY <1>6
      <4>2. QED
        BY <2>3, <4>1 DEF SubLeft
    <3>4. V[L] = IF p.leaf THEN FromCell(p, own[x], i + 1)
                 ELSE FromSub(p, own[x], i + 1)
      BY <1>4, <1>6, <1>7, <2>2, <2>3, <3>1, <3>2 DEF Upcoming
    <3>5. \A n \in 1 .. L - 1 :
            V[n] = FromCell(Held[stack'[n].id], own[stack'[n].id], stack'[n].idx)
      BY <1>4, <3>1, <3>3 DEF Upcoming
    <3>6. \A n \in 1 .. L - 1 : V[n] = U[n]
      <4>1. TAKE n \in 1 .. L - 1
      <4>2. stack'[n] = stack[n]
        BY <2>3, ZenonT(60)
      <4>3. QED
        BY <1>11, <3>5, <4>2
    <3>7. QED
      BY <3>1, <3>4, <3>6
  <2>6. \A k \in V[L] : k \in FromSub(p, own[x], i + 1)
    <3>1. SortedPage(p, own[x], contents) /\ i + 1 \in 1 .. NumCells(p) + 1
      BY <1>7, <1>8
    <3>2. FromCell(p, own[x], i + 1) \subseteq FromSub(p, own[x], i + 1)
      BY <3>1, SubThenCell
    <3>3. QED
      BY ONLY <2>5, <3>2, Zenon
  <2>7. \A k \in V[L] : k \in U[L] /\ r.key < k
    BY <1>0, <1>12, <2>6
  <2>8. \A k \in U[L] : k \in DOMAIN Wanted => k = r.key \/ k \in V[L]
    <3>1. SUFFICES ASSUME NEW k \in U[L], k \in DOMAIN Wanted, k # c.key
                   PROVE  k \in V[L]
      BY <1>0
    <3>2. k \in FromSub(p, own[x], i + 1) /\ k \in Keys /\ contents[k] # Nil
      BY <1>10, <1>12, <3>1, ZenonT(60)
    <3>3. p.leaf => k \in FromCell(p, own[x], i + 1)
      BY <1>7, <1>8, <3>2, LeafHasCells, ZenonT(60)
    <3>4. QED
      BY <2>5, <3>2, <3>3
  <2>9. Lined(V, L, Wanted, it.start, seen')
    <3>1. r.key \in U[L]
      BY <1>0, <1>12
    <3>2. \A n \in 1 .. L - 1 : V[n] = U[n]
      BY <2>5
    <3>3. QED
      <4> DEFINE Pairs == [key : Int, val : Values \cup {Nil}]
      <4>1. seen \in Seq(Pairs)
        BY <1>2
      <4> HIDE DEF Pairs
      <4> SUFFICES ASSUME NEW pairs \in Seq(Pairs), pairs = seen,
                          NEW more, more = seen', NEW s, s = it.start,
                          NEW want, want = Wanted
                   PROVE  Lined(V, L, want, s, more)
        BY <4>1
      <4>2. more = Append(pairs, r) /\ Lined(U, L, want, s, pairs)
        BY <1>13, <2>1
      <4>3. \A k \in U[L] : k \in DOMAIN want => k = r.key \/ k \in V[L]
        BY <2>8
      <4>4. pairs \in Seq(Pairs)
        OBVIOUS
      <4>5. QED
        BY ONLY <1>6, <2>7, <3>1, <3>2, <4>2, <4>3, <4>4, LinedTake
  <2>10. Ascending(seen', Wanted')
    <3>1. c.key <= it.end
      BY ONLY <1>2, <1>8, <1>16
    <3>2. c.key \in DOMAIN Wanted /\ Wanted[c.key] = c.val
      BY <1>8, <1>14, <3>1, ZenonT(60) DEF Wanted, Stored
    <3>3. Before(seen, r.key) /\ r.key \in DOMAIN Wanted /\ r.val = Wanted[r.key]
      BY <1>0, <1>14, <3>2, ZenonT(60)
    <3>4. Ascending(seen', Wanted)
      BY <1>2, <2>1, <3>3, AscendingOn
    <3>5. QED
      BY <1>9, <3>4
  <2>11. seen' \in Seq([key : Int, val : Values \cup {Nil}])
    <3>1. c.val \in Values \cup {Nil}
      BY <1>2, <1>8, ZenonT(60) DEF MapInv, CallOK
    <3>2. r \in [key : Int, val : Values \cup {Nil}]
      BY <1>0, <1>8, <3>1
    <3>3. QED
      BY <1>2, <2>1, <3>2, AppendProperties
  <2>12. Walking(own, lev)'
    BY <1>1, <1>4, <1>5, <1>9, <2>5, <2>9 DEF Walking
  <2>13. Underway' /\ Produced' /\ ScanAlone'
    BY <1>1, <1>2, <1>4, <2>1, <2>4, <2>10, <2>11, <2>12, ZenonT(60)
       DEF Underway, Produced, ScanAlone
  <2>14. QED
    BY <1>4, <2>13 DEF WalkInv
<1>17. QED
  BY <1>15, <1>16

(* Next enters the subtree left of its cell, which comes before the cell.   *)
LEMMA NextChildWalks ==
  ASSUME WalkInv, NextChild, UNCHANGED vars
  PROVE  WalkInv'
<1>0. SUFFICES ASSUME NEW L, L = Len(stack), NEW f, f = stack[L],
                       NEW x, x = f.id, NEW i, i = f.idx,
                       NEW p, p = PageOf(x), NEW y, y = ChildAt(p, i),
                       NEW g, g = [id |-> y, idx |-> 1, subtreeDone |-> FALSE]
                PROVE  WalkInv'
  OBVIOUS
<1>1. /\ scan = "next" /\ stack # << >>
      /\ ~p.leaf /\ ~f.subtreeDone
      /\ i <= NumCells(p) + 1 => stack' = Append(stack, g) /\ scan' = scan
      /\ it' = it /\ seen' = seen
  BY <1>0 DEF NextChild, Top, ScanPage, Push
<1>2. /\ MapInv /\ pc = "idle" /\ FramesOK
      /\ it \in [start : Int, end : Int, at : Int]
      /\ seen \in Seq([key : Int, val : Values \cup {Nil}])
      /\ Ascending(seen, Wanted)
  BY <1>1 DEF WalkInv, ScanAlone, Underway, Produced
<1>3. PICK own, lev : Walking(own, lev)
  BY <1>1 DEF WalkInv, Underway
<1>4. /\ MapInv' /\ Held' = Held /\ NodeIds' = NodeIds
      /\ UNCHANGED <<pc, root, contents>>
  BY <1>2, TreeStays
<1>5. /\ Valid(Held, NodeIds, root, own, lev, own, contents)
      /\ Lined(Upcoming(own), Places, Wanted, it.start, seen)
  BY <1>3 DEF Walking
<1>6. /\ L \in Nat \ {0} /\ L \in 1 .. L
      /\ x \in NodeIds /\ i \in 1 .. NumCells(Held[x]) + 1
      /\ stack \in Seq([id : NodeIds, idx : Nat, subtreeDone : BOOLEAN])
  <2>1. stack \in Seq([id : NodeIds, idx : Nat, subtreeDone : BOOLEAN])
    BY <1>2 DEF FramesOK
  <2>2. L \in Nat /\ L # 0
    BY <1>0, <1>1, <2>1, EmptySeq
  <2>3. L \in Nat \ {0} /\ L \in 1 .. L
    BY <2>2
  <2>4. QED
    BY <1>0, <1>2, <2>1, <2>3, FrameElements
<1>7. /\ p = Held[x] /\ SortedPage(p, own[x], contents)
      /\ i \in 1 .. NumCells(p) + 1 /\ NumCells(p) \in Nat
      /\ y \in NodeIds /\ own[y] = Share(p, own[x], i)
  <2>1. /\ p = Held[x] /\ SortedPage(p, own[x], contents)
        /\ \A j \in 1 .. NumCells(p) + 1 :
             /\ ChildAt(p, j) \in NodeIds
             /\ own[ChildAt(p, j)] = Share(p, own[x], j)
    BY <1>0, <1>1, <1>2, <1>5, <1>6, PagesWalked
  <2>2. i \in 1 .. NumCells(p) + 1
    BY <1>6, <2>1
  <2>3. NumCells(p) \in Nat
    BY <2>1, CellsOfPage DEF SortedPage
  <2>4. QED
    BY <1>0, <2>1, <2>2, <2>3
<1> SUFFICES ASSUME NEW q, q = Held[y]
             PROVE  WalkInv'
  OBVIOUS
<1>8. /\ SortedPage(q, own[y], contents) /\ q.leaf \in BOOLEAN
      /\ NumCells(q) \in Nat /\ 1 \in 1 .. NumCells(q) + 1
      /\ FromSub(q, own[y], 1) = own[y]
  <2>1. SortedPage(q, own[y], contents) /\ q.leaf \in BOOLEAN
    BY <1>2, <1>5, <1>7, PagesWalked
  <2>2. NumCells(q) \in Nat
    BY <2>1, CellsOfPage DEF SortedPage
  <2>3. 1 \in 1 .. NumCells(q) + 1
    BY <2>2
  <2>4. QED
    BY <2>1, <2>2, <2>3 DEF FromSub
<1>9. stack' = Append(stack, g) /\ scan' = "next"
  BY <1>1, <1>7
<1>10. /\ Len(stack') = L + 1 /\ stack'[L + 1] = g
       /\ \A n \in 1 .. L : stack'[n] = stack[n]
       /\ stack' \in Seq([id : NodeIds, idx : Nat, subtreeDone : BOOLEAN])
  <2>1. g \in [id : NodeIds, idx : Nat, subtreeDone : BOOLEAN]
    BY <1>0, <1>7
  <2>2. QED
    BY <1>0, <1>6, <1>9, <2>1, AppendProperties
<1>11. FramesOK'
  <2>1. ASSUME NEW n \in 1 .. L + 1
        PROVE  stack'[n].idx \in 1 .. NumCells(Held[stack'[n].id]) + 1
    <3>1. n = L + 1 \/ n \in 1 .. L
      BY <1>6
    <3>2. QED
      BY <1>0, <1>2, <1>8, <1>10, <3>1 DEF FramesOK
  <2>2. QED
    BY <1>4, <1>10, <2>1 DEF FramesOK
<1>12. Wanted' = Wanted
  BY <1>1, <1>4, WantedStays
<1>13. \A k \in DOMAIN Wanted : k \in Keys /\ contents[k] # Nil
  BY DEF Wanted, Stored
<1> SUFFICES ASSUME NEW U, U = Upcoming(own), NEW V, V = Upcoming(own)'
             PROVE  WalkInv'
  OBVIOUS
<1>14. /\ L = Places
       /\ U[L] = FromSub(p, own[x], i)
       /\ \A n \in 1 .. L - 1 :
            U[n] = FromCell(Held[stack[n].id], own[stack[n].id], stack[n].idx)
  <2>1. /\ L = Places /\ \A n \in 1 .. L : n \in 1 .. Places /\ n # Len(stack) + 1
        /\ \A n \in 1 .. L - 1 : n \in 1 .. L /\ n # L
    BY <1>0, <1>1, <1>6 DEF Places
  <2>2. SubLeft(L) /\ \A n \in 1 .. L - 1 : ~SubLeft(n)
    BY <1>0, <1>1, <1>7, <2>1 DEF SubLeft
  <2>3. U[L] = FromSub(p, own[x], i)
    BY <1>0, <1>6, <1>7, <2>1, <2>2 DEF Upcoming
  <2>4. QED
    BY <2>1, <2>2, <2>3 DEF Upcoming
<1>15. /\ Places' = L + 1
       /\ V[L] = FromCell(p, own[x], i)
       /\ V[L + 1] = IF q.leaf THEN FromCell(q, own[y], 1) ELSE own[y]
       /\ \A n \in 1 .. L - 1 : V[n] = U[n]
  <2>1. /\ Places' = L + 1
        /\ \A n \in 1 .. L + 1 : n \in 1 .. Places' /\ n # Len(stack') + 1
        /\ \A n \in 1 .. L : n \in 1 .. L + 1 /\ n # L + 1
        /\ L + 1 \in 1 .. L + 1
        /\ \A n \in 1 .. L - 1 : n \in 1 .. L
    BY <1>6, <1>9, <1>10 DEF Places
  <2>2. \A n \in 1 .. L : ~SubLeft(n)'
    BY <1>10, <2>1 DEF SubLeft
  <2>3. SubLeft(L + 1)' <=> ~q.leaf
    BY <1>0, <1>4, <1>9, <1>10 DEF SubLeft
  <2>4. \A n \in 1 .. L :
          V[n] = FromCell(Held[stack'[n].id], own[stack'[n].id], stack'[n].idx)
    BY <1>4, <2>1, <2>2 DEF Upcoming
  <2>5. V[L] = FromCell(p, own[x], i)
    BY <1>0, <1>6, <1>7, <1>10, <2>4
  <2>6. \A n \in 1 .. L - 1 : V[n] = U[n]
    BY <1>10, <1>14, <2>1, <2>4
  <2>7. V[L + 1] = IF q.leaf THEN FromCell(q, own[y], 1) ELSE FromSub(q, own[y], 1)
    BY <1>0, <1>4, <1>10, <2>1, <2>3 DEF Upcoming
  <2>8. QED
    BY <1>8, <2>1, <2>5, <2>6, <2>7
<1>16. V[L + 1] \subseteq own[y]
  BY <1>15, ZenonT(60) DEF FromCell
<1>17. V[L] \subseteq U[L] /\ V[L + 1] \subseteq U[L]
  <2>1. /\ FromCell(p, own[x], i) \subseteq FromSub(p, own[x], i)
        /\ Share(p, own[x], i) \subseteq FromSub(p, own[x], i)
    BY <1>7, SubThenCell
  <2>2. own[y] \subseteq FromSub(p, own[x], i)
    BY <1>7, <2>1
  <2>3. V[L] \subseteq U[L]
    BY ONLY <1>14, <1>15, <2>1, Zenon
  <2>4. V[L + 1] \subseteq U[L]
    BY <1>14, <1>16, <2>2, Zenon
  <2>5. QED
    BY <2>3, <2>4
<1>18. \A k \in V[L + 1], l \in V[L] : k < l
  <2>1. \A k \in Share(p, own[x], i), l \in FromCell(p, own[x], i) : k < l
    BY <1>7, SubThenCell
  <2>2. own[y] = Share(p, own[x], i)
    BY <1>7
  <2>3. QED
    BY ONLY <1>15, <1>16, <2>1, <2>2, Zenon
<1>19. \A k \in U[L] : k \in DOMAIN Wanted => k \in V[L] \/ k \in V[L + 1]
  <2>1. SUFFICES ASSUME NEW k \in U[L], k \in DOMAIN Wanted, k \notin V[L]
                 PROVE  k \in V[L + 1]
    OBVIOUS
  <2>2. k \in own[y]
    <3>1. k \in FromSub(p, own[x], i) /\ k \notin FromCell(p, own[x], i)
      BY <1>14, <1>15, <2>1
    <3>2. k \in Share(p, own[x], i)
      BY <1>7, <3>1, SubThenCell
    <3>3. QED
      BY <1>7, <3>2
  <2>3. k \in Keys /\ contents[k] # Nil
    BY <1>13, <2>1
  <2>4. q.leaf => k \in FromCell(q, own[y], 1)
    BY <1>8, <2>2, <2>3, LeafHasCells
  <2>5. QED
    BY <1>15, <2>2, <2>4
<1>20. Lined(V, L + 1, Wanted, it.start, seen)
  <2> SUFFICES ASSUME NEW want, want = Wanted, NEW s, s = it.start,
                      NEW pairs, pairs = seen
               PROVE  Lined(V, L + 1, want, s, pairs)
    OBVIOUS
  <2>1. Lined(U, L, want, s, pairs)
    BY <1>5, <1>14
  <2>2. \A k \in U[L] : k \in DOMAIN want => k \in V[L] \/ k \in V[L + 1]
    BY <1>19
  <2>3. \A n \in 1 .. L - 1 : V[n] = U[n]
    BY <1>15
  <2>4. QED
    BY ONLY <1>6, <1>17, <1>18, <2>1, <2>2, <2>3, LinedSplit
<1>21. Walking(own, lev)'
  BY <1>1, <1>4, <1>5, <1>12, <1>15, <1>20 DEF Walking
<1>22. Underway' /\ Produced' /\ ScanAlone'
  BY <1>1, <1>2, <1>4, <1>9, <1>11, <1>12, <1>21 DEF Underway, Produced, ScanAlone
<1>23. QED
  BY <1>4, <1>22 DEF WalkInv

(* Next leaves a page behind its last cell: nothing was left on it.         *)
LEMMA NextPopWalks ==
  ASSUME WalkInv, NextPop, UNCHANGED vars
  PROVE  WalkInv'
<1> SUFFICES ASSUME NEW L, L = Len(stack), NEW f, f = stack[L],
                    NEW x, x = f.id, NEW i, i = f.idx,
                    NEW p, p = PageOf(x), NEW below, below = Front(stack)
             PROVE  WalkInv'
  OBVIOUS
<1>1. /\ scan = "next" /\ stack # << >>
      /\ p.leaf \/ f.subtreeDone
      /\ i > NumCells(p)
      /\ stack' = [n \in DOMAIN below |->
                     IF n = Len(below) THEN [below[n] EXCEPT !.subtreeDone = TRUE]
                     ELSE below[n]]
      /\ scan' = scan /\ it' = it /\ seen' = seen
  BY DEF NextPop, Top, ScanPage
<1>2. /\ MapInv /\ pc = "idle" /\ FramesOK
      /\ it \in [start : Int, end : Int, at : Int]
      /\ seen \in Seq([key : Int, val : Values \cup {Nil}])
      /\ Ascending(seen, Wanted)
  BY <1>1 DEF WalkInv, ScanAlone, Underway, Produced
<1>3. PICK own, lev : Walking(own, lev)
  BY <1>1 DEF WalkInv, Underway
<1>4. /\ MapInv' /\ Held' = Held /\ NodeIds' = NodeIds
      /\ UNCHANGED <<pc, root, contents>>
  BY <1>2, TreeStays
<1>5. /\ Valid(Held, NodeIds, root, own, lev, own, contents)
      /\ Lined(Upcoming(own), Places, Wanted, it.start, seen)
  BY <1>3 DEF Walking
<1> DEFINE Frames == [id : NodeIds, idx : Nat, subtreeDone : BOOLEAN]
<1>6. /\ stack \in Seq(Frames)
      /\ L \in Nat \ {0} /\ Len(below) = L - 1 /\ below \in Seq(Frames)
      /\ \A n \in 1 .. L - 1 : below[n] = stack[n]
      /\ \A n \in 1 .. L : stack[n] \in Frames
  <2>1. stack \in Seq(Frames)
    BY <1>2 DEF FramesOK
  <2>2. \A n \in 1 .. L : stack[n] \in Frames
    BY <1>2, FrameElements
  <2> HIDE DEF Frames
  <2> SUFFICES ASSUME NEW q \in Seq(Frames), q = stack
               PROVE  /\ Len(q) \in Nat \ {0} /\ Len(below) = Len(q) - 1
                      /\ below \in Seq(Frames)
                      /\ \A n \in 1 .. Len(q) - 1 : below[n] = q[n]
    BY <2>1, <2>2
  <2>3. q # << >> /\ below = Front(q)
    BY <1>1
  <2>4. QED
    BY <2>3, FrontElements
<1>7. /\ L \in 1 .. L /\ x \in NodeIds /\ f \in Frames
      /\ \A n \in 1 .. L - 1 : n \in 1 .. L /\ n # L
  BY <1>6
<1>8. p = Held[x] /\ p.leaf \in BOOLEAN
  BY <1>2, <1>5, <1>7, PagesWalked
<1>9. /\ DOMAIN stack' = 1 .. L - 1
      /\ \A n \in 1 .. L - 1 :
           /\ stack'[n] \in Frames
           /\ stack'[n].id = stack[n].id /\ stack'[n].idx = stack[n].idx
           /\ n = L - 1 => stack'[n].subtreeDone
  <2>1. DOMAIN below = 1 .. L - 1 /\ DOMAIN stack' = 1 .. L - 1
    BY <1>1, <1>6
  <2>2. ASSUME NEW n \in 1 .. L - 1
        PROVE  /\ stack'[n] \in Frames
               /\ stack'[n].id = stack[n].id /\ stack'[n].idx = stack[n].idx
               /\ n = L - 1 => stack'[n].subtreeDone
    <3>1. below[n] = stack[n] /\ stack[n] \in Frames
      BY <1>6, <1>7
    <3>2. stack'[n] = IF n = L - 1 THEN [stack[n] EXCEPT !.subtreeDone = TRUE]
                      ELSE stack[n]
      BY <1>1, <1>6, <2>1, <3>1
    <3> HIDE DEF Frames
    <3>3. SUFFICES ASSUME NEW h \in Frames, h = stack[n],
                          NEW k, k = stack'[n]
                   PROVE  /\ k \in Frames
                          /\ k.id = h.id /\ k.idx = h.idx
                          /\ n = L - 1 => k.subtreeDone
      BY <3>1
    <3>4. CASE n = L - 1
      <4>1. k = [h EXCEPT !.subtreeDone = TRUE]
        BY <3>2, <3>3, <3>4
      <4>2. QED
        BY <4>1 DEF Frames
    <3>5. CASE n # L - 1
      BY <3>2, <3>3, <3>5
    <3>6. QED
      BY <3>4, <3>5
  <2>3. QED
    BY <2>1, <2>2
<1>10. stack' \in Seq(Frames) /\ Len(stack') = L - 1
  <2>1. L - 1 \in Nat /\ stack' \in [1 .. L - 1 -> Frames]
    <3>1. L - 1 \in Nat
      BY <1>6
    <3>2. stack' = [n \in 1 .. L - 1 |-> stack'[n]]
      BY <1>1, <1>9
    <3>3. QED
      BY <1>9, <3>1, <3>2
  <2> HIDE DEF Frames
  <2>2. QED
    BY <2>1, <1>9
<1>11. FramesOK'
  <2>1. \A n \in 1 .. L - 1 : stack'[n].idx \in 1 .. NumCells(Held[stack'[n].id]) + 1
    <3>1. \A n \in 1 .. L : stack[n].idx \in 1 .. NumCells(Held[stack[n].id]) + 1
      BY <1>2, FrameElements
    <3>2. TAKE n \in 1 .. L - 1
    <3>3. stack'[n].id = stack[n].id /\ stack'[n].idx = stack[n].idx /\ n \in 1 .. L
      BY <1>7, <1>9
    <3>4. QED
      BY <3>1, <3>3
  <2>2. QED
    BY <1>4, <1>10, <2>1 DEF FramesOK
<1>12. Wanted' = Wanted
  BY <1>1, <1>4, WantedStays
<1> SUFFICES ASSUME NEW U, U = Upcoming(own), NEW V, V = Upcoming(own)'
             PROVE  WalkInv'
  OBVIOUS
<1>13. /\ L = Places
       /\ U[L] = {}
       /\ \A n \in 1 .. L - 1 :
            U[n] = FromCell(Held[stack[n].id], own[stack[n].id], stack[n].idx)
  <2>1. L = Places /\ \A n \in 1 .. L : n \in 1 .. Places /\ n # Len(stack) + 1
    BY <1>1, <1>6 DEF Places
  <2>2. \A n \in 1 .. L : ~SubLeft(n)
    BY <1>1, <1>8 DEF SubLeft
  <2>3. \A n \in 1 .. L :
          U[n] = FromCell(Held[stack[n].id], own[stack[n].id], stack[n].idx)
    BY <2>1, <2>2 DEF Upcoming
  <2>4. U[L] = FromCell(p, own[x], i)
    BY <1>7, <1>8, <2>3
  <2>5. ~(i <= NumCells(p))
    <3>1. i \in Nat
      BY <1>7
    <3>2. NumCells(p) \in Nat
      BY <1>2, <1>5, <1>7, <1>8, PagesWalked, CellsOfPage DEF SortedPage
    <3>3. QED
      BY <1>1, <3>1, <3>2
  <2>6. U[L] = {}
    BY <2>4, <2>5 DEF FromCell
  <2>7. QED
    BY <1>7, <2>1, <2>3, <2>6
<1>14. /\ Places' = L - 1
       /\ \A n \in 1 .. L - 1 : V[n] = U[n]
  <2>1. Places' = L - 1 /\ \A n \in 1 .. L - 1 : n \in 1 .. Places' /\ n # Len(stack') + 1
    <3>1. Len(stack') = L - 1 /\ L - 1 \in Nat
      BY <1>6, <1>10
    <3>2. Places' = L - 1
      BY <1>1, <3>1 DEF Places
    <3>3. QED
      BY ONLY <3>1, <3>2
  <2>2. \A n \in 1 .. L - 1 : ~SubLeft(n)'
    BY <1>9, <1>10 DEF SubLeft
  <2>3. \A n \in 1 .. L - 1 :
          V[n] = FromCell(Held[stack'[n].id], own[stack'[n].id], stack'[n].idx)
    BY <1>4, <2>1, <2>2 DEF Upcoming
  <2>4. \A n \in 1 .. L - 1 : V[n] = U[n]
    <3>1. TAKE n \in 1 .. L - 1
    <3>2. stack'[n].id = stack[n].id /\ stack'[n].idx = stack[n].idx
      BY <1>9
    <3>3. QED
      BY <1>13, <2>3, <3>2
  <2>5. QED
    BY <2>1, <2>4
<1>15. Lined(V, L - 1, Wanted, it.start, seen)
  <2> SUFFICES ASSUME NEW want, want = Wanted, NEW s, s = it.start,
                      NEW pairs, pairs = seen
               PROVE  Lined(V, L - 1, want, s, pairs)
    OBVIOUS
  <2>1. Lined(U, L, want, s, pairs) /\ U[L] = {}
    BY <1>5, <1>13
  <2>2. \A n \in 1 .. L - 1 : V[n] = U[n]
    BY <1>14
  <2>3. L \in Nat \ {0}
    BY <1>6
  <2>4. QED
    BY ONLY <2>1, <2>2, <2>3, LinedDrop
<1>16. Walking(own, lev)'
  BY <1>1, <1>4, <1>5, <1>12, <1>14, <1>15 DEF Walking
<1>17. Underway' /\ Produced' /\ ScanAlone'
  BY <1>1, <1>2, <1>4, <1>11, <1>12, <1>16 DEF Underway, Produced, ScanAlone
<1>18. QED
  BY <1>4, <1>17 DEF WalkInv

(* Next leaves the root behind its last cell: all was produced.             *)
LEMMA NextEndWalks ==
  ASSUME WalkInv, NextEnd, UNCHANGED vars
  PROVE  WalkInv'
<1>1. /\ scan = "next" /\ stack = << >> /\ scan' = "done"
      /\ it' = it /\ stack' = stack /\ seen' = seen
  BY DEF NextEnd
<1>2. /\ MapInv /\ ScanAlone /\ Ascending(seen, Wanted)
  BY <1>1 DEF WalkInv, Produced
<1>3. PICK own, lev : Walking(own, lev)
  BY <1>1 DEF WalkInv, Underway
<1>4. MapInv' /\ UNCHANGED <<pc, contents>>
  BY <1>2, TreeStays
<1>5. Wanted' = Wanted
  BY <1>1, <1>4, WantedStays
<1>6. 1 .. Places = {}
  BY <1>1 DEF Places
<1>7. \A k \in DOMAIN Wanted : HasKey(seen, k)
  BY <1>3, <1>6 DEF Walking, Lined
<1>8. Underway' /\ Produced' /\ ScanAlone'
  BY <1>1, <1>2, <1>4, <1>5, <1>7 DEF Underway, Produced, ScanAlone
<1>9. QED
  BY <1>4, <1>8 DEF WalkInv

(* The caller is through with the iterator.                                 *)
LEMMA CloseScanWalks ==
  ASSUME WalkInv, CloseScan, UNCHANGED vars
  PROVE  WalkInv'
<1>1. /\ scan' = "closed" /\ stack' = << >> /\ seen' = << >>
      /\ it' = [start |-> 0, end |-> 0, at |-> 0]
  BY DEF CloseScan, NoRange
<1>2. MapInv'
  BY TreeStays DEF WalkInv
<1>3. seen' \in Seq([key : Int, val : Values \cup {Nil}])
  BY <1>1
<1>4. it' \in [start : Int, end : Int, at : Int]
  BY <1>1
<1>5. ScanAlone'
  BY <1>1, <1>3, <1>4 DEF ScanAlone
<1>6. QED
  BY <1>1, <1>2, <1>5 DEF WalkInv, Underway, Produced

(* The index is called while no iterator is open.                           *)
LEMMA IndexStepWalks ==
  ASSUME DeleteKeys = {}, ~Ousts, WalkInv, scan = "closed", [Next]_vars,
         UNCHANGED rvars
  PROVE  WalkInv'
<1>1. MapInv'
  BY NextMaps DEF WalkInv
<1>2. QED
  BY <1>1 DEF WalkInv, ScanAlone, Underway, Produced, rvars

(* Nothing happens.                                                         *)
LEMMA StutterWalks ==
  ASSUME WalkInv, UNCHANGED <<vars, rvars>>
  PROVE  WalkInv'
<1>1. UNCHANGED <<scan, it, stack, seen>> /\ MapInv
  BY DEF WalkInv, rvars
<1>2. /\ MapInv' /\ Held' = Held /\ NodeIds' = NodeIds
      /\ UNCHANGED <<pc, root, contents>>
  BY <1>1, TreeStays
<1>3. Wanted' = Wanted
  BY <1>1, <1>2, WantedStays
<1>4. Places' = Places /\ \A n : SubLeft(n)' <=> SubLeft(n)
  BY <1>1, <1>2 DEF Places, SubLeft
<1>5. \A own : Upcoming(own)' = Upcoming(own)
  BY <1>1, <1>2, <1>4 DEF Upcoming
<1>6. \A own, lev : Walking(own, lev) => Walking(own, lev)'
  BY <1>1, <1>2, <1>3, <1>4, <1>5 DEF Walking
<1>7. FramesOK => FramesOK'
  BY <1>1, <1>2 DEF FramesOK
<1>8. ScanAlone' /\ Produced' /\ Underway'
  BY <1>1, <1>2, <1>3, <1>6, <1>7 DEF WalkInv, ScanAlone, Produced, Underway
<1>9. QED
  BY <1>2, <1>8 DEF WalkInv

(* Every step of the index or the iterator.                                 *)
LEMMA RangeNextWalks ==
  ASSUME DeleteKeys = {}, ~InsertsWhileOpen
  PROVE  WalkInv /\ ~Ousts /\ [RangeNext]_<<vars, rvars>> => WalkInv'
<1> SUFFICES ASSUME WalkInv, ~Ousts, [RangeNext]_<<vars, rvars>>
             PROVE  WalkInv'
  OBVIOUS
<1>1. CASE MayCall /\ Next /\ UNCHANGED rvars
  BY <1>1, IndexStepWalks DEF MayCall
<1>2. CASE \E s, e \in Bounds : OpenRange(s, e) /\ UNCHANGED vars
  BY <1>2, OpenRangeWalks
<1>3. CASE ScanStep /\ UNCHANGED vars
  BY <1>3, RangeDescendWalks, CallNextWalks, NextCellWalks, NextChildWalks,
     NextPopWalks, NextEndWalks, CloseScanWalks DEF ScanStep
<1>4. CASE UNCHANGED <<vars, rvars>>
  BY <1>4, StutterWalks
<1>5. QED
  BY <1>1, <1>2, <1>3, <1>4 DEF RangeNext

(* A scan of the B-tree that nothing is inserted under produces the pairs   *)
(* of its range in the order of their keys, from the first on and each      *)
(* once, and Next ends it only behind the last: the frames the iterator     *)
(* keeps instead of pages lead it through the tree in order.                *)
THEOREM BTreeRangeInOrder ==
  ASSUME ~WritesMayFail, DeleteKeys = {}, ~InsertsWhileOpen
  PROVE  RangeSpec /\ []~Ousts => []ScanInOrder
<1>1. RangeInit => WalkInv
  BY RangeInitWalks
<1>2. WalkInv /\ ~Ousts /\ [RangeNext]_<<vars, rvars>> => WalkInv'
  BY RangeNextWalks
<1>3. QED
  BY <1>1, <1>2, WalkIsInOrder, PTL DEF RangeSpec

(* The same with values of one length, whatever the behaviour.              *)
THEOREM BTreeRangeInOrderOneLength ==
  ASSUME ~WritesMayFail, DeleteKeys = {}, ~InsertsWhileOpen,
         \A v, w \in Values : ValLen[v] = ValLen[w]
  PROVE  RangeSpec => []ScanInOrder
<1>1. RangeInit => WalkInv
  BY RangeInitWalks
<1>2. WalkInv => ~Ousts
  BY SameLengthNeverOusts DEF WalkInv
<1>3. WalkInv /\ ~Ousts /\ [RangeNext]_<<vars, rvars>> => WalkInv'
  BY RangeNextWalks
<1>4. QED
  BY <1>1, <1>2, <1>3, WalkIsInOrder, PTL DEF RangeSpec
-----------------------------------------------------------------------------
(* The B-tree across sessions                                               *)

(* A step of Get, as the pages see it.                                      *)
LEMMA GetLooksUp ==
  ASSUME (\E k \in Keys : Get(k)) \/ GetStep
  PROVE  /\ UNCHANGED <<file, cached, pageCount, root, header, split, contents>>
         /\ pc \in {"idle", "get", "answer"}
         /\ pc' \in {"idle", "get", "answer"}
BY DEF Get, GetStep, GetHit, GetMiss, GetDescend, ReturnGet, Answer

(* No step of a session puts the page count behind the pages of the tree.   *)
LEMMA StoreNextCounts ==
  CountInv /\ [StoreNext]_<<vars, svars>> => CountInv' \/ Fresh'
<1> SUFFICES ASSUME CountInv, [StoreNext]_<<vars, svars>>
             PROVE  CountInv' \/ Fresh'
  OBVIOUS
<1>1. CASE Next /\ Wear
  <2>1. Moves
    BY <1>1, EngineMoves, GetLooksUp, LookupMoves DEF Next, CountInv
  <2>2. QED
    BY <1>1, <2>1, WearCounts
<1>2. CASE SessionStep
  BY <1>2, SessionCounts
<1>3. CASE UNCHANGED <<vars, svars>>
  BY <1>3, StutterCounts
<1>4. QED
  BY <1>1, <1>2, <1>3 DEF StoreNext

(* As long as every session ends with Close and no page write fails, no     *)
(* page of the B-tree is handed out again by Allocate and none is left      *)
(* blank under it, in any number of sessions: the page count that Close     *)
(* saves is the one the next session needs, also when Close comes after a   *)
(* growing overwrite that has cut a subtree off.                            *)
THEOREM BTreeNeverCut == StoreSpec => []NeverCut
<1>1. StoreInit => CountInv
  <2>1. StoreInit => Fresh
    BY DEF StoreInit, Fresh
  <2>2. QED
    BY <2>1, FreshCounts
<1>2. CountInv /\ [StoreNext]_<<vars, svars>> => CountInv' \/ Fresh'
  BY StoreNextCounts
<1>3. Fresh => CountInv
  BY FreshCounts
<1>4. CountInv => NeverCut
  BY CountsNeverCut
<1>5. QED
  BY <1>1, <1>2, <1>3, <1>4, PTL DEF StoreSpec

(* The one step that could oust keys from the map drops a cell of an        *)
(* internal page together with the subtree left of it.                      *)
LEMMA OustsDrops ==
  ASSUME MapInv, Ousts, Engine
  PROVE  DropsSubtree
<1>1. /\ pc = "insertRec" /\ KeyAt(TopPage, Pos) /\ ~Room /\ ~TopPage.leaf
  BY BTreeAssumption DEF Ousts
<1>2. DOMAIN cached = {}
  BY DEF MapInv
<1>3. InsertDescend
  BY <1>1, <1>2
     DEF Engine, Insert, InsertStep, InsertOverwrite, InsertInLeaf, WriteRight,
         InsertSplit, NewRoot, WriteHeader, ReturnInsert, Delete
<1>4. QED
  BY <1>1, <1>3, DescendDrops DEF MapInv

(* Every step of a session keeps the map until it is known to lose pairs.   *)
LEMMA StoreNextKeeps ==
  SessionInv /\ [StoreNext]_<<vars, svars>> => SessionInv' \/ Fresh'
<1> SUFFICES ASSUME SessionInv, [StoreNext]_<<vars, svars>>
             PROVE  SessionInv' \/ Fresh'
  OBVIOUS
<1>1. CASE Next /\ Wear /\ mishap'
  <2>1. CountInv' \/ Fresh'
    BY <1>1, StoreNextCounts DEF SessionInv, StoreNext
  <2>2. QED
    BY <1>1, <2>1 DEF SessionInv
<1>2. CASE Engine /\ Wear /\ ~mishap'
  <2>1. ~Ousts \/ damage' # "none"
    <3>1. ASSUME damage' = "none" PROVE ~Ousts
      <4>1. damage = "none" /\ ~DropsSubtree /\ ~mishap
        BY <1>2, <3>1, WearSpares DEF Wear
      <4>2. QED
        BY <1>2, <4>1, OustsDrops DEF SessionInv
    <3>2. QED
      BY <3>1
  <2>2. QED
    BY <1>2, <2>1, EngineInSession
<1>3. CASE ((\E k \in Keys : Get(k)) \/ GetStep) /\ Wear /\ ~mishap'
  <2>1. IInv => IInv'
    BY <1>3, GetKeeps
  <2>2. MapInv => MapInv'
    BY <1>3, <2>1, GetMaps DEF MapInv
  <2>3. QED
    BY <1>3, <2>1, <2>2, GetLooksUp, LookupInSession
<1>4. CASE SessionStep
  BY <1>4, SessionStays
<1>5. CASE UNCHANGED <<vars, svars>>
  BY <1>5, StutterSession
<1>6. QED
  BY <1>1, <1>2, <1>3, <1>4, <1>5 DEF StoreNext, Next

(* In every session up to the first crash the keys of every page are in     *)
(* order, whatever the sessions before it have closed and reopened.         *)
THEOREM BTreeSessionsSorted ==
  ASSUME ~WritesMayFail
  PROVE  StoreSpec => [](~mishap => PagesSorted)
<1>1. StoreInit => Fresh
  BY DEF StoreInit, Fresh
<1>2. Fresh => SessionInv
  BY FreshSession
<1>3. SessionInv /\ [StoreNext]_<<vars, svars>> => SessionInv' \/ Fresh'
  BY StoreNextKeeps
<1>4. SessionInv => (~mishap => PagesSorted)
  BY SessionShows
<1>5. QED
  BY <1>1, <1>2, <1>3, <1>4, PTL DEF StoreSpec

(* In every session up to the first crash the B-tree stores the last values *)
(* inserted in that session and all those before it, each key once, until a *)
(* call is made that is known to lose pairs: a growing overwrite on an      *)
(* internal page or the Delete of a stored key.                             *)
THEOREM BTreeSessionsStore ==
  ASSUME ~WritesMayFail
  PROVE  StoreSpec => [](~mishap => StoresSurvivors)
<1>1. StoreInit => Fresh
  BY DEF StoreInit, Fresh
<1>2. Fresh => SessionInv
  BY FreshSession
<1>3. SessionInv /\ [StoreNext]_<<vars, svars>> => SessionInv' \/ Fresh'
  BY StoreNextKeeps
<1>4. SessionInv => (~mishap => StoresSurvivors)
  BY SessionShows
<1>5. QED
  BY <1>1, <1>2, <1>3, <1>4, PTL DEF StoreSpec

(* No step but those of a new root parts the header page from the root.     *)
LEMMA StoreNextHeader ==
  ASSUME ~WritesMayFail
  PROVE  HeaderInv /\ [StoreNext]_<<vars, svars>> => HeaderInv'
<1> SUFFICES ASSUME HeaderInv, [StoreNext]_<<vars, svars>>
             PROVE  HeaderInv'
  OBVIOUS
<1>1. CASE Engine
  BY <1>1, EngineHeader
<1>2. CASE (\E k \in Keys : Get(k)) \/ GetStep
  <2>1. UNCHANGED <<root, header>> /\ pc \notin {"writeHeader", "corrupt"}
    BY <1>2 DEF Get, GetStep, GetHit, GetMiss, GetDescend, ReturnGet, Answer
  <2>2. QED
    BY <2>1, LookupHeader
<1>3. CASE SessionStep
  BY <1>3, SessionHeader
<1>4. CASE UNCHANGED <<vars, svars>>
  BY <1>4, LookupHeader DEF vars
<1>5. QED
  BY <1>1, <1>2, <1>3, <1>4 DEF StoreNext, Next

(* In every session up to the first crash, as long as no call is made that  *)
(* is known to lose pairs, the B-tree is a tree: between two calls all its  *)
(* leaves are equally deep, no page hangs twice and the header page names   *)
(* the root.                                                                *)
THEOREM BTreeSessionsStayTree ==
  ASSUME ~WritesMayFail
  PROVE  StoreSpec => [](~mishap /\ damage = "none" => StaysTree)
<1>1. StoreInit => Fresh
  BY DEF StoreInit, Fresh
<1>2. Fresh => SessionInv
  BY FreshSession
<1>3. SessionInv /\ [StoreNext]_<<vars, svars>> => SessionInv' \/ Fresh'
  BY StoreNextKeeps
<1>4. StoreInit => HeaderInv
  BY DEF StoreInit, Init, HeaderInv
<1>5. HeaderInv /\ [StoreNext]_<<vars, svars>> => HeaderInv'
  BY StoreNextHeader
<1>6. SessionInv /\ HeaderInv => (~mishap /\ damage = "none" => StaysTree)
  BY SessionStands
<1>7. QED
  BY <1>1, <1>2, <1>3, <1>4, <1>5, <1>6, PTL DEF StoreSpec

(* In the same sessions no search of the B-tree, not even one that an Insert*)
(* is on while pages split, comes back to a page it has left.               *)
THEOREM BTreeSearchesEnd ==
  ASSUME ~WritesMayFail
  PROVE  StoreSpec => [](~mishap /\ damage = "none" => SearchesEnd)
<1>1. StoreInit => Fresh
  BY DEF StoreInit, Fresh
<1>2. Fresh => SessionInv
  BY FreshSession
<1>3. SessionInv /\ [StoreNext]_<<vars, svars>> => SessionInv' \/ Fresh'
  BY StoreNextKeeps
<1>4. StoreInit => HeaderInv
  BY DEF StoreInit, Init, HeaderInv
<1>5. HeaderInv /\ [StoreNext]_<<vars, svars>> => HeaderInv'
  BY StoreNextHeader
<1>6. SessionInv /\ HeaderInv => (~mishap /\ damage = "none" => SearchesEnd)
  BY SessionStands
<1>7. QED
  BY <1>1, <1>2, <1>3, <1>4, <1>5, <1>6, PTL DEF StoreSpec

(* What a Get answers in a session without a mishap is what is stored.      *)
LEMMA SessionAnswers ==
  ASSUME SessionInv, ~mishap, [StoreNext]_<<vars, svars>>
  PROVE  pc # "answer" /\ pc' = "answer" /\ damage \in {"none", "unlinked"} =>
           call'.val = contents[call.key]
<1> SUFFICES ASSUME pc # "answer", pc' = "answer", damage \in {"none", "unlinked"}
             PROVE  call'.val = contents[call.key]
  OBVIOUS
<1>1. MapInv
  BY DEF SessionInv, CountInv
<1>2. CASE Engine
  BY <1>1, <1>2
     DEF Engine, Insert, InsertStep, InsertOverwrite, InsertInLeaf, InsertDescend,
         DoInsert, SplitNode, WriteAndReturn, WriteRight, InsertSplit, NewRoot,
         WriteHeader, ReturnInsert, Delete, Evict
<1>3. CASE GetHit \/ GetMiss
  BY <1>1, <1>3, GetAnswers DEF Promise!AnswerGet
<1>4. CASE (\E k \in Keys : Get(k)) \/ GetDescend \/ ReturnGet
  BY <1>4 DEF Get, GetDescend, ReturnGet
<1>5. CASE SessionStep
  <2>1. Gone => pc' # "answer"
    BY DEF Gone
  <2>2. OpenNew \/ Reopen => pc' = "idle"
    BY DEF OpenNew, Reopen, SessionInv, CountInv, NoProcess
  <2>3. QED
    BY <1>5, <2>1, <2>2
       DEF SessionStep, Close, CloseFails, Crash, Interrupted, StartOver
<1>6. CASE UNCHANGED <<vars, svars>>
  BY <1>6 DEF vars
<1>7. QED
  BY <1>2, <1>3, <1>4, <1>5, <1>6 DEF StoreNext, Next, GetStep

(* Where nothing crashes and no write fails, there is no mishap.            *)
LEMMA NoMishap ==
  ASSUME ~WritesMayFail, ~MayCrash
  PROVE  SessionInv /\ ~mishap /\ [StoreNext]_<<vars, svars>> => ~mishap'
<1> SUFFICES ASSUME SessionInv, ~mishap, [StoreNext]_<<vars, svars>>
             PROVE  ~mishap'
  OBVIOUS
<1>1. CASE Engine /\ Wear
  BY <1>1, EngineNeverFails DEF SessionInv
<1>2. CASE ((\E k \in Keys : Get(k)) \/ GetStep) /\ Wear
  BY <1>2, GetLooksUp DEF Wear, FailsToWrite
<1>3. CASE SessionStep
  BY <1>3 DEF SessionStep, Close, CloseFails, Crash, OpenNew, Reopen, StartOver
<1>4. CASE UNCHANGED <<vars, svars>>
  BY <1>4 DEF svars
<1>5. QED
  BY <1>1, <1>2, <1>3, <1>4 DEF StoreNext, Next

(* In sessions without crashes and failed writes a Get of the B-tree        *)
(* answers the last value inserted, in this session or in one before it.    *)
THEOREM BTreeSessionsAnswer ==
  ASSUME ~WritesMayFail, ~MayCrash
  PROVE  StoreSpec => GetsAnswer
<1>1. StoreInit => Fresh
  BY DEF StoreInit, Fresh
<1>2. Fresh => SessionInv /\ ~mishap
  BY FreshSession DEF Fresh
<1>3. SessionInv /\ [StoreNext]_<<vars, svars>> => SessionInv' \/ Fresh'
  BY StoreNextKeeps
<1>4. SessionInv /\ ~mishap /\ [StoreNext]_<<vars, svars>> => ~mishap'
  BY NoMishap
<1>5. SessionInv /\ ~mishap /\ [StoreNext]_<<vars, svars>>
        => [ pc # "answer" /\ pc' = "answer" /\ damage \in {"none", "unlinked"} =>
               call'.val = contents[call.key] ]_<<vars, svars>>
  BY SessionAnswers
<1>6. QED
  BY <1>1, <1>2, <1>3, <1>4, <1>5, PTL DEF StoreSpec, GetsAnswer

(* Pages in bounds stay so from one session to the next.                    *)
LEMMA StoreNextFits ==
  ASSUME ~WritesMayFail, NEW L, OneLength(L)
  PROVE  SessionFit(L) /\ [StoreNext]_<<vars, svars>> => SessionFit(L)' \/ Fresh'
<1>1. SUFFICES ASSUME SessionFit(L), [StoreNext]_<<vars, svars>>
               PROVE  SessionFit(L)' \/ Fresh'
  OBVIOUS
<1>2. SessionInv' \/ Fresh'
  BY <1>1, StoreNextKeeps DEF SessionFit
<1>3. ASSUME ~mishap' PROVE FitInv(L)' \/ Fresh'
  <2>1. CASE Next /\ Wear
    <3>1. ~mishap
      BY <1>3, <2>1 DEF Wear
    <3>2. QED
      BY <1>1, <2>1, <3>1, NextFits DEF SessionFit
  <2>2. CASE SessionStep
    BY <1>1, <1>3, <2>2, SessionStaysFit
  <2>3. CASE UNCHANGED <<vars, svars>>
    <3>1. ~mishap /\ UNCHANGED vars
      BY <1>3, <2>3 DEF svars
    <3>2. QED
      BY <1>1, <3>1, NextFits DEF SessionFit
  <2>4. QED
    BY <1>1, <2>1, <2>2, <2>3 DEF StoreNext
<1>4. QED
  BY <1>2, <1>3 DEF SessionFit

(* In every session up to the first crash no cell of the B-tree runs into   *)
(* the cell pointers of its page, if all values have one length and leave   *)
(* no gap on a full page in which a cell fits without its pointer.          *)
THEOREM BTreeSessionsFit ==
  ASSUME ~WritesMayFail, NEW L, OneLength(L)
  PROVE  StoreSpec => [](~mishap => PagesFit)
<1>1. StoreInit => Fresh
  BY DEF StoreInit, Fresh
<1>2. Fresh => SessionFit(L)
  BY FreshFits
<1>3. SessionFit(L) /\ [StoreNext]_<<vars, svars>> => SessionFit(L)' \/ Fresh'
  BY StoreNextFits
<1>4. SessionFit(L) => (~mishap => PagesFit)
  BY FitsByInv DEF SessionFit
<1>5. QED
  BY <1>1, <1>2, <1>3, <1>4, PTL DEF StoreSpec

(* Nor does the file lag behind the tree by more than a new root.           *)
LEMMA StoreNextBehind ==
  SessionInv /\ HeaderInv /\ BehindInv /\ [StoreNext]_<<vars, svars>> => BehindInv'
<1> SUFFICES ASSUME SessionInv, HeaderInv, BehindInv, [StoreNext]_<<vars, svars>>
             PROVE  BehindInv'
  OBVIOUS
<1>1. CASE Engine /\ Wear
  BY <1>1, EngineStaysBehind
<1>2. CASE (\E k \in Keys : Get(k)) \/ GetStep
  <2>1. pc' # "writeHeader"
    BY <1>2 DEF Get, GetStep, GetHit, GetMiss, GetDescend, ReturnGet, Answer
  <2>2. QED
    BY <2>1, RestStaysBehind
<1>3. CASE SessionStep \/ UNCHANGED <<vars, svars>>
  BY <1>3, RestStaysBehind
<1>4. QED
  BY <1>1, <1>2, <1>3 DEF StoreNext, Next

(* What the first crash of a file leaves.                                   *)
LEMMA StoreCrashLeaves ==
  SessionInv /\ HeaderInv /\ BehindInv
    /\ [Crash => ~mishap /\ PagesFit]_<<vars, svars>>
    => [ Crash /\ Reopens /\ damage' \in {"none", "unlinked"}
            /\ (header = root \/ pc = "writeHeader") =>
            \A k \in Keys :
              \/ contents'[k] = contents[k]
              \/ call.op = "insert" /\ call.key = k /\ contents'[k] = call.val
              \/ HalfWritten /\ ~CopyUpLeaves /\ k >= split.key ]_<<vars, svars>>
<1> SUFFICES ASSUME SessionInv, HeaderInv, BehindInv, Crash => ~mishap /\ PagesFit
             PROVE  Crash /\ Reopens /\ damage' \in {"none", "unlinked"}
                      /\ (header = root \/ pc = "writeHeader") =>
                      \A k \in Keys :
                        \/ contents'[k] = contents[k]
                        \/ call.op = "insert" /\ call.key = k /\ contents'[k] = call.val
                        \/ HalfWritten /\ ~CopyUpLeaves /\ k >= split.key
  OBVIOUS
<1>1. QED
  BY CrashLeaves

(* A crash of the B-tree, wherever it comes and however many sessions were  *)
(* closed before, loses no pair that was stored, but for the keys from the  *)
(* promoted one on while a split is half written: as long as no file        *)
(* crashes twice, and none while a cell has run into the cell pointers.     *)
(* It is about a tree that no growing overwrite on an internal page and no  *)
(* Delete has touched: a crash after one of them is not said anything of.   *)
THEOREM BTreeCrashKeeps ==
  ASSUME ~WritesMayFail
  PROVE  StoreSpec /\ [][Crash => ~mishap /\ PagesFit]_<<vars, svars>> => CrashKeeps
<1>1. StoreInit => Fresh
  BY DEF StoreInit, Fresh
<1>2. Fresh => SessionInv
  BY FreshSession
<1>3. SessionInv /\ [StoreNext]_<<vars, svars>> => SessionInv' \/ Fresh'
  BY StoreNextKeeps
<1>4. StoreInit => HeaderInv /\ BehindInv
  BY DEF StoreInit, Init, HeaderInv, BehindInv, RootBehind
<1>5. HeaderInv /\ [StoreNext]_<<vars, svars>> => HeaderInv'
  BY StoreNextHeader
<1>6. SessionInv /\ HeaderInv /\ BehindInv /\ [StoreNext]_<<vars, svars>> => BehindInv'
  BY StoreNextBehind
<1>7. SessionInv /\ HeaderInv /\ BehindInv
        /\ [Crash => ~mishap /\ PagesFit]_<<vars, svars>>
        => [ Crash /\ Reopens /\ damage' \in {"none", "unlinked"}
             /\ (header = root \/ pc = "writeHeader") =>
             \A k \in Keys :
               \/ contents'[k] = contents[k]
               \/ call.op = "insert" /\ call.key = k /\ contents'[k] = call.val
               \/ HalfWritten /\ ~CopyUpLeaves /\ k >= split.key ]_<<vars, svars>>
  BY StoreCrashLeaves
<1>8. QED
  BY <1>1, <1>2, <1>3, <1>4, <1>5, <1>6, <1>7, PTL DEF StoreSpec, CrashKeeps

(* The same with values of one length: no overwrite grows, and no cell runs *)
(* into the pointers. Deletes are still left out.                           *)
THEOREM BTreeCrashKeepsOneLength ==
  ASSUME ~WritesMayFail, NEW L, OneLength(L)
  PROVE  StoreSpec /\ [][Crash => ~mishap]_<<vars, svars>> => CrashKeeps
<1>1. StoreInit => Fresh
  BY DEF StoreInit, Fresh
<1>2. Fresh => SessionFit(L)
  BY FreshFits
<1>3. SessionFit(L) /\ [StoreNext]_<<vars, svars>> => SessionFit(L)' \/ Fresh'
  BY StoreNextFits
<1>4. StoreInit => HeaderInv /\ BehindInv
  BY DEF StoreInit, Init, HeaderInv, BehindInv, RootBehind
<1>5. HeaderInv /\ [StoreNext]_<<vars, svars>> => HeaderInv'
  BY StoreNextHeader
<1>6. SessionInv /\ HeaderInv /\ BehindInv /\ [StoreNext]_<<vars, svars>> => BehindInv'
  BY StoreNextBehind
<1>7. SessionInv /\ HeaderInv /\ BehindInv
        /\ [Crash => ~mishap /\ PagesFit]_<<vars, svars>>
        => [ Crash /\ Reopens /\ damage' \in {"none", "unlinked"}
             /\ (header = root \/ pc = "writeHeader") =>
             \A k \in Keys :
               \/ contents'[k] = contents[k]
               \/ call.op = "insert" /\ call.key = k /\ contents'[k] = call.val
               \/ HalfWritten /\ ~CopyUpLeaves /\ k >= split.key ]_<<vars, svars>>
  BY StoreCrashLeaves
<1>8. SessionFit(L) /\ [Crash => ~mishap]_<<vars, svars>>
        => SessionInv /\ [Crash => ~mishap /\ PagesFit]_<<vars, svars>>
  BY FitsByInv DEF SessionFit
<1>9. QED
  BY <1>1, <1>2, <1>3, <1>4, <1>5, <1>6, <1>7, <1>8, PTL DEF StoreSpec, CrashKeeps
=============================================================================
