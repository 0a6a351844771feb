----------------------------- MODULE PageLayout -----------------------------
(***************************************************************************)
(* One page byte by byte: the fields of dbms/index/btpage/page.go and the  *)
(* cells of the two accessors, under the calls the tree engine makes.  It  *)
(* implements the page of module BTPage, which only keeps the cells and    *)
(* how much of the cell area is taken.                                     *)
(*                                                                         *)
(* A byte is what was last written over it: the field, the field's value   *)
(* and which byte of the field it is.  A field reads back when all its     *)
(* bytes are in place, and as Garbage when another field was written over  *)
(* some of them.                                                           *)
(***************************************************************************)
EXTENDS BTPage, FiniteSets

CONSTANTS
  Keys,      \* keys put on the page
  Children,  \* ids of child pages
  Garbage    \* what a field reads as when its bytes were overwritten

VARIABLES
  bytes,     \* the page: offsets 0 .. PageSize - 1
  page       \* history: the page as module BTPage has it

vars == <<bytes, page>>

Zero == <<"zero", 0, 0>>

Put(m, off, field, value, width) ==
  [x \in DOMAIN m |-> IF x \in off .. off + width - 1
                      THEN <<field, value, x - off>> ELSE m[x]]

Get(m, off, field, width) ==
  IF /\ off \in Int
     /\ off .. off + width - 1 \subseteq DOMAIN m
     /\ \A j \in 0 .. width - 1 : m[off + j] = <<field, m[off][2], j>>
  THEN m[off][2] ELSE Garbage
-----------------------------------------------------------------------------
(* The header and the cell pointer array                                    *)

NumCellsAt(m)    == Get(m, 1, "numCells", 2)
ContentAt(m)     == Get(m, 3, "content", 2)
RightmostAt(m)   == Get(m, 5, "rightmost", 4)
NextLeafAt(m)    == Get(m, 9, "next", 4)
Slot(i)          == OffCellPtrs + i * CellPtrSize
CellPtr(m, i)    == Get(m, Slot(i), "ptr", CellPtrSize)

SetNumCells(m, n)    == Put(m, 1, "numCells", n, 2)
SetContent(m, n)     == Put(m, 3, "content", n, 2)
SetRightmost(m, id)  == Put(m, 5, "rightmost", id, 4)
SetNextLeaf(m, id)   == Put(m, 9, "next", id, 4)
SetCellPtr(m, i, off) == Put(m, Slot(i), "ptr", off, CellPtrSize)

(* InitPage zeroes the page: the rightmost child of a new page is page 0.   *)
InitPage(leaf) ==
  LET zeroed == [x \in 0 .. PageSize - 1 |-> Zero]
      typed  == Put(zeroed, 0, "leaf", leaf, 1)
  IN  SetRightmost(SetNextLeaf(SetContent(SetNumCells(typed, 0), PageSize),
                               InvalidPage), 0)
-----------------------------------------------------------------------------
(* Cells: the left child, except on a B+ tree leaf; the key; the value,     *)
(* except on an internal page of a B+ tree.                                 *)

HasChild(leaf) == ~(CopyUpLeaves /\ leaf)
HasValue(leaf) == ~CopyUpLeaves \/ leaf

KeyOff(off, leaf) == IF HasChild(leaf) THEN off + 4 ELSE off
ValOff(off, leaf) == KeyOff(off, leaf) + 8

(* The length of a value and its bytes.                                     *)
PutValue(m, off, val) ==
  Put(Put(m, off, "len", Length(val), 2), off + 2, "val", val, Length(val))

WriteCell(m, off, leaf, c) ==
  LET linked == IF HasChild(leaf) THEN Put(m, off, "lc", c.lc, 4) ELSE m
      keyed  == Put(linked, KeyOff(off, leaf), "key", c.key, 8)
  IN  IF HasValue(leaf) THEN PutValue(keyed, ValOff(off, leaf), c.val) ELSE keyed

(* ReadCell: the cell at an offset, with the value of the length stored.    *)
LCAt(m, off, leaf) == IF HasChild(leaf) THEN Get(m, off, "lc", 4) ELSE 0

ValueAt(m, off) ==
  LET len == Get(m, off, "len", 2)
  IN  IF len = Garbage THEN Garbage ELSE Get(m, off + 2, "val", len)

ReadCell(m, i, leaf) ==
  LET off == CellPtr(m, i)
  IN  IF off = Garbage THEN Garbage
      ELSE [key |-> Get(m, KeyOff(off, leaf), "key", 8),
            val |-> IF HasValue(leaf) THEN ValueAt(m, ValOff(off, leaf)) ELSE Nil,
            lc  |-> LCAt(m, off, leaf)]
-----------------------------------------------------------------------------
(* The calls of the engine, in the order the code makes them; index i       *)
(* counts from 0 here.                                                      *)

FreeSpaceAt(m, n) == ContentAt(m) - (OffCellPtrs + n * CellPtrSize)

(* doInsert's shift of the slots i .. n - 1 by one.                         *)
ShiftUp(m, i, n) ==
  [x \in DOMAIN m |-> IF x \in Slot(i + 1) .. Slot(n + 1) - 1
                      THEN m[x - CellPtrSize] ELSE m[x]]

DeleteAt(m, i, n) ==
  SetNumCells([x \in DOMAIN m |-> IF x \in Slot(i) .. Slot(n - 1) - 1
                                  THEN m[x + CellPtrSize] ELSE m[x]],
              n - 1)

ChildIdAt(m, i, n) ==
  IF i = n THEN RightmostAt(m) ELSE LCAt(m, CellPtr(m, i), FALSE)

(* The cell is written at the end of the free space, then its slot, then    *)
(* the child to its right.                                                  *)
InsertAtIdx(m, i, n, leaf, key, val, rc) ==
  LET lc      == IF leaf THEN 0 ELSE ChildIdAt(m, i, n)
      size    == CellSize(leaf, val)
      off     == ContentAt(m) - size
      written == WriteCell(SetContent(ShiftUp(m, i, n), off), off, leaf,
                           [key |-> key, val |-> val, lc |-> lc])
      slotted == SetCellPtr(written, i, off)
      linked  == IF i = n THEN SetRightmost(slotted, rc)
                 ELSE IF leaf THEN slotted
                 ELSE Put(slotted, CellPtr(slotted, i + 1), "lc", rc, 4)
  IN  SetNumCells(linked, n + 1)

AppendCell(m, leaf, c) ==
  LET n   == NumCellsAt(m)
      off == ContentAt(m) - CellSize(leaf, c.val)
  IN  SetNumCells(SetCellPtr(WriteCell(SetContent(m, off), off, leaf, c), n, off),
                  n + 1)

(* Mutant: the length of the old value stays.                               *)
OverwriteKeepsLength(m, i, leaf, val) ==
  Put(m, ValOff(CellPtr(m, i), leaf) + 2, "val", val, Length(val))

(* OverwriteValue: the new length and the new bytes over the old value.     *)
OverwriteAt(m, i, leaf, val) ==
  PutValue(m, ValOff(CellPtr(m, i), leaf), val)
-----------------------------------------------------------------------------
(* The values and the right children that cells of the page come with.      *)
ValuesOf(leaf)   == IF HasValue(leaf) THEN Values ELSE {Nil}
RightsOf(leaf)   == IF leaf THEN {0} ELSE Children

ASSUME LayoutAssumption ==
  /\ Keys \subseteq Int /\ Children \subseteq Nat
  /\ \A v \in Values : ValLen[v] > 0
  /\ Garbage \notin Int

Init ==
  \E leaf \in BOOLEAN : \E rc \in RightsOf(leaf) :
    /\ bytes = SetRightmost(InitPage(leaf), rc)
    /\ page = NewPage(leaf, << >>, rc, InvalidPage)

Idx(p, k) == FindIdx(p, k, p.leaf) - 1

Holds(p, k) == Idx(p, k) < NumCells(p) /\ p.cells[Idx(p, k) + 1].key = k

(* The cell goes to its place on a page with room for it.                   *)
PutCell(m, p, k, v, rc) ==
  /\ FreeSpaceAt(m, NumCells(p)) >= CellSize(p.leaf, v)
  /\ bytes' = InsertAtIdx(m, Idx(p, k), NumCells(p), p.leaf, k, v, rc)
  /\ page' = [WithCell(p, Idx(p, k) + 1, k, v, rc)
                EXCEPT !.content = @ - CellSize(p.leaf, v)]

Rebuilt(leaf, cells, rightmost, next) ==
  LET init == SetNextLeaf(SetRightmost(InitPage(leaf), rightmost), next)
      built[n \in 0 .. Len(cells)] ==
        IF n = 0 THEN init ELSE AppendCell(built[n - 1], leaf, cells[n])
  IN  built[Len(cells)]

(* splitNode writes the left half of a full page over it, or the right half *)
(* over a new page.                                                         *)
SplitInto(leaf, cells, rightmost, next) ==
  /\ bytes' = Rebuilt(leaf, cells, rightmost, next)
  /\ page' = NewPage(leaf, cells, rightmost, next)

Split(m, p, k, v, rc, new) ==
  /\ FreeSpaceAt(m, NumCells(p)) < CellSize(p.leaf, v)
  /\ LET q    == WithCell(p, Idx(p, k) + 1, k, v, rc)
         mid  == Promoted(q.cells)
         next == LinkLeaves(p.leaf, new, p.next)
     IN  \/ SplitInto(p.leaf, SubSeq(q.cells, 1, mid - 1),
                      IF p.leaf THEN 0 ELSE q.cells[mid].lc, next.left)
         \/ SplitInto(p.leaf,
                      SubSeq(q.cells, RightStart(p.leaf, mid), Len(q.cells)),
                      IF p.leaf THEN 0 ELSE q.rightmost, next.right)

DoInsert(m, p, k, v, rc, new) ==
  PutCell(m, p, k, v, rc) \/ Split(m, p, k, v, rc, new)

Insert(k, v, rc, new) ==
  ~Holds(page, k) /\ DoInsert(bytes, page, k, v, rc, new)

Overwrite(k, v) ==
  /\ Holds(page, k)
  /\ HasValue(page.leaf)
  /\ Length(v) <= Length(page.cells[Idx(page, k) + 1].val)
  /\ bytes' = OverwriteAt(bytes, Idx(page, k), page.leaf, v)
  /\ page' = [page EXCEPT !.cells[Idx(page, k) + 1].val = v]

(* A value that outgrew its cell: the cell is dropped.                      *)
Outgrown(k, v) ==
  /\ Holds(page, k)
  /\ HasValue(page.leaf)
  /\ Length(v) > Length(page.cells[Idx(page, k) + 1].val)

(* On a leaf the pair is inserted again,                                    *)
Regrow(k, v, new) ==
  /\ page.leaf
  /\ Outgrown(k, v)
  /\ DoInsert(DeleteAt(bytes, Idx(page, k), NumCells(page)),
              DeleteCell(page, Idx(page, k) + 1), k, v, 0, new)

(* on an internal page of a B-tree it is inserted further down.             *)
Drop(k, v) ==
  /\ ~page.leaf
  /\ Outgrown(k, v)
  /\ bytes' = DeleteAt(bytes, Idx(page, k), NumCells(page))
  /\ page' = DeleteCell(page, Idx(page, k) + 1)

Next ==
  \E k \in Keys, new \in Children :
    \/ \E v \in ValuesOf(page.leaf), rc \in RightsOf(page.leaf) :
         Insert(k, v, rc, new)
    \/ \E v \in Values : Overwrite(k, v) \/ Regrow(k, v, new) \/ Drop(k, v)

Spec == Init /\ [][Next]_vars
-----------------------------------------------------------------------------
(* What the fields on the page say.                                         *)
Decoded(m) ==
  LET leaf == Get(m, 0, "leaf", 1)
  IN  [leaf |-> leaf,
       cells |-> [i \in 1 .. NumCellsAt(m) |-> ReadCell(m, i - 1, leaf)],
       content |-> ContentAt(m),
       rightmost |-> RightmostAt(m),
       next |-> NextLeafAt(m)]

(* The bytes say what module BTPage says of the page: no cell is written    *)
(* over another cell, over the header or over the cell pointer array, and   *)
(* every slot leads to its cell, after any number of insertions, overwrites,*)
(* deletions and splits.                                                    *)
ReadsBack == Decoded(bytes) = page
=============================================================================
