------------------------------- MODULE BTPage -------------------------------
(***************************************************************************)
(* The pages of dbms/index/btpage/page.go, the cell sizes of the two       *)
(* accessors and the page helpers of dbms/index/shared/tree.go.            *)
(*                                                                         *)
(* A page is its header fields and its cells in cell pointer order; where  *)
(* a cell lies in the cell area is left out, how much of the area is taken *)
(* is kept.  Positions on a page count from 1: position i is the code's    *)
(* index i - 1.                                                            *)
(***************************************************************************)
EXTENDS Integers, Sequences, SequencesExt

CONSTANTS
  Values,        \* values a caller inserts
  ValLen,        \* ValLen[v] = len(v) in bytes
  Nil,           \* the nil slice
  PageSize,      \* bytes in a page
  CopyUpLeaves   \* the accessor: TRUE for BPTreeAcc, FALSE for BTreeAcc

ASSUME ValuesAssumption == ValLen \in [Values -> Nat] /\ Nil \notin Values
ASSUME PageSizeAssumption == PageSize \in Nat
ASSUME AccAssumption == CopyUpLeaves \in BOOLEAN
-----------------------------------------------------------------------------
OffCellPtrs == 13       \* header bytes before the cell pointer array
CellPtrSize == 2
InvalidPage == -1       \* 0xFFFFFFFF

Length(v) == IF v = Nil THEN 0 ELSE ValLen[v]

BTreeCellSize(v)  == 4 + 8 + 2 + Length(v)
BPTreeCellSize(leaf, v) == IF leaf THEN 8 + 2 + Length(v) ELSE 4 + 8

CellSize(leaf, v) ==
  IF CopyUpLeaves THEN BPTreeCellSize(leaf, v) ELSE BTreeCellSize(v)

Cell == [key : Int, val : Values \cup {Nil}, lc : Nat]

(* "content" is cellContentStart: cells are carved off downwards from the   *)
(* end of the page, and the bytes of a deleted cell are never reclaimed.    *)
Page == [leaf : BOOLEAN, cells : Seq(Cell), content : Int,
         rightmost : Nat, next : Int]

NumCells(p) == Len(p.cells)

FreeSpace(p) == p.content - (OffCellPtrs + NumCells(p) * CellPtrSize)

(* The cell area has not run into the cell pointer array.                   *)
Fits(p) == FreeSpace(p) >= 0

(* A page Allocate has just written: all zeroes.                            *)
BlankPage == [leaf |-> FALSE, cells |-> << >>, content |-> 0,
              rightmost |-> 0, next |-> 0]

(* The bytes of the cells AppendCell puts on an empty page.                 *)
CellBytes(leaf, cells) ==
  LET bytes[i \in 0 .. Len(cells)] ==
        IF i = 0 THEN 0 ELSE bytes[i - 1] + CellSize(leaf, cells[i].val)
  IN  bytes[Len(cells)]

(* InitPage, then AppendCell for each of the cells.                         *)
NewPage(leaf, cells, rightmost, next) ==
  [leaf |-> leaf, cells |-> cells,
   content |-> PageSize - CellBytes(leaf, cells),
   rightmost |-> rightmost, next |-> next]

EmptyLeaf == NewPage(TRUE, << >>, 0, InvalidPage)

DeleteCell(p, i) == [p EXCEPT !.cells = RemoveAt(p.cells, i)]

ChildAt(p, i) == IF i = NumCells(p) + 1 THEN p.rightmost ELSE p.cells[i].lc

(* The binary search stops where the cells left of the result satisfy the   *)
(* loop's first branch and those from it on do not; module BinarySearch     *)
(* proves that the loop returns this position on every sorted page.         *)
GoesRight(p, i, key, leaf) ==
  \/ p.cells[i].key < key
  \/ ~leaf /\ p.cells[i].key = key /\ CopyUpLeaves

FindIdx(p, key, leaf) ==
  CHOOSE i \in 1 .. NumCells(p) + 1 :
    /\ i > 1 => GoesRight(p, i - 1, key, leaf)
    /\ i <= NumCells(p) => ~GoesRight(p, i, key, leaf)

(* Mutant: behind the last cell the page keeps its rightmost child.         *)
WithCellKeepsRightmost(p, i, key, val, rc) ==
  LET lc    == IF p.leaf THEN 0 ELSE ChildAt(p, i)
      cells == InsertAt(p.cells, i, [key |-> key, val |-> val, lc |-> lc])
  IN  [p EXCEPT !.cells = IF p.leaf \/ i = NumCells(p) + 1 THEN cells
                          ELSE [cells EXCEPT ![i + 1].lc = rc]]

(* The cell <<key, val>> at position i, whose left child is the old child   *)
(* at i and whose right neighbour (or the page) takes rc as its child.      *)
WithCell(p, i, key, val, rc) ==
  LET lc    == IF p.leaf THEN 0 ELSE ChildAt(p, i)
      cells == InsertAt(p.cells, i, [key |-> key, val |-> val, lc |-> lc])
  IN  IF i = NumCells(p) + 1
      THEN [p EXCEPT !.cells = cells, !.rightmost = rc]
      ELSE [p EXCEPT !.cells = IF p.leaf THEN cells
                               ELSE [cells EXCEPT ![i + 1].lc = rc]]
-----------------------------------------------------------------------------
(* How splitNode deals out the cells of a full page                         *)

(* Mutant: the middle is taken one cell too early.                          *)
PromotedTooEarly(all) == (Len(all) + 1) \div 2 - 1

(* The position of the promoted cell, half of the cells left of it.         *)
Promoted(all) == Len(all) \div 2 + 1

(* Mutant: a leaf's promoted cell moves up although the tree copies it up.  *)
RightStartMovesUp(leaf, mid) == mid + 1

(* Where the right half starts: copy-up keeps the promoted cell of a leaf.  *)
RightStart(leaf, mid) == IF leaf /\ CopyUpLeaves THEN mid ELSE mid + 1

(* Mutant: the next pointers of the two halves are swapped.                 *)
LinkLeavesSwapped(leaf, new, oldNext) ==
  IF leaf /\ CopyUpLeaves THEN [left |-> oldNext, right |-> new]
  ELSE [left |-> InvalidPage, right |-> InvalidPage]

(* The next pointers of the two halves: LinkLeaves of the B-tree sets none. *)
LinkLeaves(leaf, new, oldNext) ==
  IF leaf /\ CopyUpLeaves THEN [left |-> new, right |-> oldNext]
  ELSE [left |-> InvalidPage, right |-> InvalidPage]
=============================================================================
