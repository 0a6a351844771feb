-------------------------------- MODULE Tree --------------------------------
(***************************************************************************)
(* The tree engine of dbms/index/shared/tree.go, shared by the B-tree and  *)
(* the B+ tree, on the pages of dbms/index/btpage/page.go.                 *)
(*                                                                         *)
(* The recursion of insertRec is the sequence "path" of its open frames;   *)
(* every step ends with at most one page reaching the pager, so that the   *)
(* states between two steps are the states between two page writes.        *)
(***************************************************************************)
EXTENDS BTPage, FiniteSets

CONSTANTS
  Keys,          \* keys a caller inserts (int64)
  MaxUnwritten,  \* bound: failed writes whose page the cache alone has; with 0
                 \* no write fails
  DeleteKeys,    \* bound: the keys a caller calls Delete with
  MaxPages       \* bound: no Insert is called once MaxPages pages exist

ASSUME KeysAssumption == Keys \subseteq Int /\ DeleteKeys \subseteq Keys
ASSUME MaxPagesAssumption == MaxPages \in Nat
ASSUME FailureAssumption == MaxUnwritten \in Nat

WritesMayFail == MaxUnwritten > 0

VARIABLES
  file,       \* file[id]: node page id as the pager last wrote it
  cached,     \* pages changed in the cache and not on disk
  pageCount,  \* pages allocated, page 0 and the header page included
  root,       \* Tree.RootID
  header,     \* the root id stored on page 1
  pc,         \* where the running call is
  path,       \* ids of the open frames of the running call, root first
  split,      \* what a split hands to its caller: mk, mv, rightID and page
  call,       \* the running call
  contents    \* history: what the calls so far should have left stored

vars == <<file, cached, pageCount, root, header, pc, path, split, call,
          contents>>
-----------------------------------------------------------------------------
(* The pager as the engine sees it.  Read hands out the cached slice, which *)
(* the engine changes in place; Write puts the page in the cache and then   *)
(* on disk.                                                                 *)

NodeIds == 2 .. (pageCount - 1)

PageOf(id) == IF id \in DOMAIN cached THEN cached[id] ELSE file[id]

Without(f, id) == [x \in DOMAIN f \ {id} |-> f[x]]

With(f, id, p) == [x \in DOMAIN f \cup {id} |-> IF x = id THEN p ELSE f[x]]

(* A write to a file f.  When it fails, the cache alone has the new page;   *)
(* the caller goes on, or returns to where nothing is left to do.           *)
WriteNode(f, id, p) ==
  \/ /\ file' = [f EXCEPT ![id] = p]
     /\ cached' = Without(cached, id)
  \/ /\ WritesMayFail
     /\ Cardinality(DOMAIN cached) < MaxUnwritten
     /\ file' = f
     /\ cached' = With(cached, id, p)

(* Mutant: the id is handed out and not counted.                            *)
AllocateUncounted == pageCount' = pageCount

(* Allocate hands out the id pageCount, and writes that page blank.         *)
Allocate == pageCount' = pageCount + 1
Extended == With(file, pageCount, BlankPage)

NoSplit == [key |-> 0, val |-> Nil, right |-> 0, page |-> BlankPage]
NoCall  == [op |-> "none"]

(* Open of a new file: page 1 is the header, page 2 an empty leaf.          *)
Init ==
  /\ file = [id \in {2} |-> EmptyLeaf]
  /\ cached = << >>
  /\ pageCount = 3
  /\ root = 2
  /\ header = 2
  /\ pc = "idle"
  /\ path = << >>
  /\ split = NoSplit
  /\ call = NoCall
  /\ contents = [k \in Keys |-> Nil]
-----------------------------------------------------------------------------
(* Insert                                                                   *)

Insert(k, v) ==
  /\ pc = "idle"
  /\ pageCount < MaxPages
  /\ call' = [op |-> "insert", key |-> k, val |-> v]
  /\ path' = <<root>>
  /\ pc' = "insertRec"
  /\ UNCHANGED <<file, cached, pageCount, root, header, split, contents>>

(* Every frame above returns at once when its child did not split.          *)
WriteAndReturn(id, p) ==
  /\ WriteNode(file, id, p)
  /\ pc' = IF Fits(p) THEN "return" ELSE "corrupt"
  /\ UNCHANGED <<pageCount, root, header, path, split, call, contents>>

(* Mutant: the cell before the promoted one is in neither half.             *)
LeftCellsShort(all, mid) == SubSeq(all, 1, mid - 2)

LeftCells(all, mid) == SubSeq(all, 1, mid - 1)

(* splitNode: the cells and the new one are dealt out by count.  The left   *)
(* half goes to the old page, the right half is handed on to WriteRight.    *)
SplitNode(id, p, i, key, val, rc) ==
  LET q     == WithCell(p, i, key, val, rc)
      all   == q.cells
      mid   == Promoted(all)
      next  == LinkLeaves(p.leaf, pageCount, p.next)
      left  == NewPage(p.leaf, LeftCells(all, mid),
                       IF p.leaf THEN 0 ELSE all[mid].lc, next.left)
      right == NewPage(p.leaf, SubSeq(all, RightStart(p.leaf, mid), Len(all)),
                       IF p.leaf THEN 0 ELSE q.rightmost, next.right)
  IN  /\ Allocate
      /\ WriteNode(Extended, id, left)
      /\ split' = [key |-> all[mid].key,
                   val |-> IF p.leaf /\ CopyUpLeaves THEN Nil ELSE all[mid].val,
                   right |-> pageCount, page |-> right]
      /\ pc' = IF Fits(left) /\ Fits(right) THEN "writeRight" ELSE "corrupt"
      /\ UNCHANGED <<root, header, path, call, contents>>

(* Mutant: the test counts the cell pointer and not the cell.               *)
HasRoomForPointer(p, size) == FreeSpace(p) >= CellPtrSize

(* The test of doInsert does not count the pointer the new cell needs.      *)
HasRoom(p, size) == FreeSpace(p) >= size

DoInsert(id, p, i, key, val, rc) ==
  LET size == CellSize(p.leaf, val)
  IN  \/ /\ HasRoom(p, size)
         /\ WriteAndReturn(id, [WithCell(p, i, key, val, rc)
                                  EXCEPT !.content = @ - size])
      \/ /\ ~HasRoom(p, size)
         /\ SplitNode(id, p, i, key, val, rc)

(* The page of the frame on top, and the position of the key there.         *)
TopPage == PageOf(Last(path))
Pos == FindIdx(TopPage, call.key, TopPage.leaf)

KeyAt(p, i) == i <= NumCells(p) /\ p.cells[i].key = call.key

(* The key is here, and its old value leaves room for the new one.          *)
Room ==
  /\ KeyAt(TopPage, Pos)
  /\ Length(call.val) <= Length(TopPage.cells[Pos].val)

(* Mutant: the outgrown cell is not dropped before the new one is inserted. *)
DroppedNothing(p, i) == p

(* A value that outgrew its cell: the cell is dropped before the insertion. *)
Dropped(p, i) == IF KeyAt(p, i) THEN DeleteCell(p, i) ELSE p

(* Mutant: no internal page ever has its values overwritten.                *)
OverwriteLeavesOnly(p, i, val) ==
  IF p.leaf THEN [p EXCEPT !.cells[i].val = val] ELSE p

(* The accessor of the B+ tree leaves internal pages alone.                 *)
OverwriteValue(p, i, val) ==
  IF CopyUpLeaves /\ ~p.leaf THEN p ELSE [p EXCEPT !.cells[i].val = val]

InsertOverwrite ==
  /\ pc = "insertRec"
  /\ Room
  /\ WriteAndReturn(Last(path), OverwriteValue(TopPage, Pos, call.val))

InsertInLeaf ==
  /\ pc = "insertRec"
  /\ TopPage.leaf
  /\ ~Room
  /\ DoInsert(Last(path), Dropped(TopPage, Pos), Pos, call.key, call.val, 0)

(* On an internal page a dropped cell takes its left child with it, and the *)
(* shorter page stays in the cache: nothing writes it here.                 *)
InsertDescend ==
  /\ pc = "insertRec"
  /\ ~TopPage.leaf
  /\ ~Room
  /\ cached' = IF KeyAt(TopPage, Pos)
               THEN With(cached, Last(path), Dropped(TopPage, Pos))
               ELSE cached
  /\ path' = Append(path, ChildAt(Dropped(TopPage, Pos), Pos))
  /\ UNCHANGED <<file, pageCount, root, header, pc, split, call, contents>>

(* Mutant: the recursion unwinds one frame too many.                        *)
WriteRightAtRoot ==
  /\ pc = "writeRight"
  /\ WriteNode(file, split.right, split.page)
  /\ path' = Front(path)
  /\ pc' = IF Len(path) <= 2 THEN "newRoot" ELSE "insertSplit"
  /\ UNCHANGED <<pageCount, root, header, split, call, contents>>

(* splitNode's second write; the frame of the split page returns.           *)
WriteRight ==
  /\ pc = "writeRight"
  /\ WriteNode(file, split.right, split.page)
  /\ path' = Front(path)
  /\ pc' = IF Len(path) = 1 THEN "newRoot" ELSE "insertSplit"
  /\ UNCHANGED <<pageCount, root, header, split, call, contents>>

(* Mutant: the position found on the way down is used again.                *)
InsertSplitStale ==
  /\ pc = "insertSplit"
  /\ DoInsert(Last(path), TopPage, FindIdx(TopPage, call.key, FALSE),
              split.key, split.val, split.right)

(* The frame above re-reads its page and takes the promoted cell.           *)
InsertSplit ==
  /\ pc = "insertSplit"
  /\ DoInsert(Last(path), TopPage, FindIdx(TopPage, split.key, FALSE),
              split.key, split.val, split.right)

(* Mutant: RootID is set before the old root is hung under the new one.     *)
RootCellTooLate == [key |-> split.key, val |-> split.val, lc |-> pageCount]

(* The only cell of a new root: the old root is its left child.             *)
RootCell == [key |-> split.key, val |-> split.val, lc |-> root]

(* The root split: a new root over the two halves.                          *)
NewRoot ==
  /\ pc = "newRoot"
  /\ LET p == NewPage(FALSE, <<RootCell>>, split.right, InvalidPage)
     IN  /\ WriteNode(Extended, pageCount, p)
         /\ pc' = IF Fits(p) THEN "writeHeader" ELSE "corrupt"
  /\ Allocate
  /\ root' = pageCount
  /\ UNCHANGED <<header, path, split, call, contents>>

WriteHeader ==
  /\ pc = "writeHeader"
  /\ header' = root \/ (WritesMayFail /\ UNCHANGED header)
  /\ pc' = "return"
  /\ UNCHANGED <<file, cached, pageCount, root, path, split, call, contents>>

ReturnInsert ==
  /\ pc = "return"
  /\ contents' = [contents EXCEPT ![call.key] = call.val]
  /\ call' = NoCall
  /\ path' = << >>
  /\ split' = NoSplit
  /\ pc' = "idle"
  /\ UNCHANGED <<file, cached, pageCount, root, header>>

(* Delete of both trees answers nil and changes nothing; "contents" follows *)
(* what the interface promises.                                             *)
Delete(k) ==
  /\ pc = "idle"
  /\ contents' = [contents EXCEPT ![k] = Nil]
  /\ UNCHANGED <<file, cached, pageCount, root, header, pc, path, split, call>>

(* The LRU cache drops a page that was changed and not written.  Which page *)
(* goes, and when, depends on its capacity: any page may go at any time.    *)
Evict(id) ==
  /\ cached' = Without(cached, id)
  /\ UNCHANGED <<file, pageCount, root, header, pc, path, split, call,
                 contents>>

InsertStep ==
  \/ InsertOverwrite
  \/ InsertInLeaf
  \/ InsertDescend
  \/ WriteRight
  \/ InsertSplit
  \/ NewRoot
  \/ WriteHeader
  \/ ReturnInsert

Engine ==
  \/ \E k \in Keys, v \in Values : Insert(k, v)
  \/ InsertStep
  \/ \E k \in DeleteKeys : Delete(k)
  \/ \E id \in DOMAIN cached : Evict(id)
-----------------------------------------------------------------------------
(* The shape of the tree                                                    *)

ChildSeq(p) ==
  IF p.leaf THEN << >> ELSE [i \in 1 .. NumCells(p) + 1 |-> ChildAt(p, i)]

(* The pages d levels below the root, from left to right.                   *)
Level ==
  LET level[d \in 0 .. Cardinality(DOMAIN file)] ==
        IF d = 0 THEN <<root>>
        ELSE LET above == level[d - 1]
             IN  FlattenSeq([j \in DOMAIN above |-> ChildSeq(PageOf(above[j]))])
  IN  level

(* Tree.Height: the length of the chain of rightmost children.              *)
Height ==
  LET spine[d \in 0 .. Cardinality(DOMAIN file)] ==
        IF d = 0 THEN root
        ELSE LET p == PageOf(spine[d - 1])
             IN  IF p.leaf THEN spine[d - 1] ELSE p.rightmost
  IN  CHOOSE h \in 1 .. Cardinality(DOMAIN file) :
        /\ PageOf(spine[h - 1]).leaf
        /\ h > 1 => ~PageOf(spine[h - 2]).leaf

(* The pages that links, one page to a set of others, leads to from page r. *)
Reached(links, r) ==
  LET reached[n \in 0 .. Cardinality(DOMAIN links)] ==
        IF n = 0 THEN {r}
        ELSE LET now == reached[n - 1]
             IN  now \cup ((UNION {links[id] : id \in now}) \cap DOMAIN links)
  IN  reached[Cardinality(DOMAIN links)]

(* The pages of a file f that hang in the tree under page r.                *)
PagesUnder(f, r) == Reached([id \in DOMAIN f |-> ToSet(ChildSeq(f[id]))], r)

(* The cells pairs are stored in: those of the leaves, in a B-tree all.     *)
CellsOf(f, ids) ==
  UNION {{[id |-> id, at |-> i, pair |-> <<f[id].cells[i].key,
                                          f[id].cells[i].val>>] :
            i \in DOMAIN f[id].cells} :
         id \in {n \in ids : f[n].leaf \/ ~CopyUpLeaves}}

(* The pages as Read answers them.                                          *)
Pages == [id \in DOMAIN file |-> PageOf(id)]

InTree == PagesUnder(Pages, root)

StoredCells == CellsOf(Pages, InTree)
-----------------------------------------------------------------------------
(* Properties                                                               *)

TypeOK ==
  /\ pageCount \in Nat \ (0 .. 2)
  /\ file \in [NodeIds -> Page]
  /\ DOMAIN cached \subseteq NodeIds
  /\ \A id \in DOMAIN cached : cached[id] \in Page
  /\ root \in NodeIds /\ header \in NodeIds
  /\ path \in Seq(NodeIds)
  /\ split \in [key : Int, val : Values \cup {Nil}, right : Nat, page : Page]
  /\ contents \in [Keys -> Values \cup {Nil}]

(* A cell never runs into the cell pointer array of its page, neither where *)
(* doInsert places it nor where splitNode deals the cells out by count.     *)
PagesFit == pc # "corrupt"

(* The keys of every page are in order, those of a leaf strictly: what the  *)
(* binary search of FindIdx relies on, between any two page writes.         *)
PagesSorted ==
  \A id \in DOMAIN file : LET p == PageOf(id)
                           IN  \A i, j \in 1 .. NumCells(p) :
                                 i < j =>
                                   \/ p.cells[i].key < p.cells[j].key
                                   \/ ~p.leaf /\ p.cells[i].key = p.cells[j].key

(* When no call runs, every leaf is as far from the root as Height says,    *)
(* although Height follows the rightmost children only.                     *)
Balanced ==
  pc = "idle" =>
    \A d \in 0 .. (Height - 1) : \A id \in ToSet(Level[d]) :
      PageOf(id).leaf <=> d = Height - 1

(* No child of the page a search has come to leads back to that page: the   *)
(* search comes to a leaf, whatever a split has moved while it was under    *)
(* way or a root has been hung under.                                       *)
NeverBack ==
  pc \in {"get", "findLeaf", "insertRec"} =>
    \A id \in ToSet(ChildSeq(TopPage)) :
      Last(path) \notin PagesUnder(Pages, id)

(* When no call runs, every allocated page hangs in the tree exactly once:  *)
(* a search can come to each, no place leads to the root and no two places  *)
(* lead to the same page.                                                   *)
EachPageOnce ==
  pc = "idle" =>
    LET below(id) == ChildSeq(PageOf(id))
    IN  /\ InTree = NodeIds
        /\ \A u, v \in NodeIds :
             \A i \in DOMAIN below(u), j \in DOMAIN below(v) :
               /\ below(u)[i] # root
               /\ below(u)[i] = below(v)[j] => u = v /\ i = j

(* When no call runs, a page hangs in the tree at most once and the root of *)
(* the header page is the root in memory: what holds even after a growing   *)
(* overwrite has cut a subtree off a B-tree.                                *)
NoPageTwice ==
  pc = "idle" =>
    LET pages == FlattenSeq([d \in 1 .. Height |-> Level[d - 1]])
    IN  IsInjective(pages) /\ (header = root \/ WritesMayFail)

(* When no call runs, the tree stores every key that was inserted at one    *)
(* place, with the value of its last Insert, and no other key.              *)
StoresContents ==
  pc = "idle" =>
    LET cells == StoredCells
    IN  /\ {c.pair : c \in cells} =
              {<<k, contents[k]>> : k \in {x \in Keys : contents[x] # Nil}}
        /\ \A c, d \in cells : c.pair[1] = d.pair[1] => c = d

(* When no call runs, the next pointers lead from each leaf to the leaf to  *)
(* its right, the last one to none: what a range scan walks.                *)
LeafChain ==
  pc = "idle" =>
    LET leaves == Level[Height - 1]
    IN  \A i \in DOMAIN leaves :
          PageOf(leaves[i]).next =
            IF i = Len(leaves) THEN InvalidPage ELSE leaves[i + 1]
=============================================================================
