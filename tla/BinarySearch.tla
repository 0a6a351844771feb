---------------------------- MODULE BinarySearch ----------------------------
(***************************************************************************)
(* The loop of FindIdx (dbms/index/shared/tree.go).  Module Tree uses its  *)
(* result as an operator, FindIdx of module BTPage; this module is the     *)
(* loop itself, on every page whose keys are in order, with the code's     *)
(* indices, which count from 0.                                            *)
(***************************************************************************)
EXTENDS BTPage

CONSTANTS Sought,   \* keys searched for
          Pages     \* pages searched

(* The keys of a page are in order: strictly on a leaf, and with copies of  *)
(* a separator side by side on an internal page.                            *)
InOrder(p) ==
  \A i, j \in 1 .. NumCells(p) : i < j => p.cells[i].key <= p.cells[j].key

ASSUME SearchAssumption ==
  /\ Sought \subseteq Int
  /\ Pages \subseteq Page
  /\ \A p \in Pages : InOrder(p)

VARIABLES node, key,  \* the arguments: the page and the key
          lo, hi      \* the part of the page still to be searched

searchVars == <<node, key, lo, hi>>

SearchInit ==
  /\ node \in Pages
  /\ key \in Sought
  /\ lo = 0
  /\ hi = NumCells(node)

Mid == (lo + hi) \div 2

(* Mutant: the search goes on one cell before Mid.                          *)
SearchRightBefore ==
  /\ lo < hi
  /\ GoesRight(node, Mid + 1, key, node.leaf)
  /\ lo' = Mid - 1
  /\ UNCHANGED <<node, key, hi>>

(* Mutant: the cell at Mid stays in the part to be searched.                *)
SearchRightFromMid ==
  /\ lo < hi
  /\ GoesRight(node, Mid + 1, key, node.leaf)
  /\ lo' = Mid
  /\ UNCHANGED <<node, key, hi>>

SearchRight ==
  /\ lo < hi
  /\ GoesRight(node, Mid + 1, key, node.leaf)
  /\ lo' = Mid + 1
  /\ UNCHANGED <<node, key, hi>>

(* Mutant: the cell at Mid is taken out of the part to be searched.         *)
SearchLeftPastMid ==
  /\ lo < hi
  /\ ~GoesRight(node, Mid + 1, key, node.leaf)
  /\ hi' = Mid - 1
  /\ UNCHANGED <<node, key, lo>>

SearchLeft ==
  /\ lo < hi
  /\ ~GoesRight(node, Mid + 1, key, node.leaf)
  /\ hi' = Mid
  /\ UNCHANGED <<node, key, lo>>

SearchNext == SearchRight \/ SearchLeft

SearchSpec == SearchInit /\ [][SearchNext]_searchVars /\ WF_searchVars(SearchNext)
-----------------------------------------------------------------------------
SearchTypeOK ==
  /\ node \in Pages
  /\ key \in Sought
  /\ lo \in 0 .. NumCells(node)
  /\ hi \in 0 .. NumCells(node)

(* The loop keeps the answer between lo and hi: every cell it has passed on *)
(* the left goes right, every cell it has passed on the right does not.     *)
Bracketed ==
  /\ lo <= hi
  /\ \A i \in 1 .. lo : GoesRight(node, i, key, node.leaf)
  /\ \A i \in hi + 1 .. NumCells(node) : ~GoesRight(node, i, key, node.leaf)

(* When the loop ends, lo is the position the tree modules use, one less    *)
(* because the code counts from 0.                                          *)
ReturnsFindIdx == lo >= hi => lo + 1 = FindIdx(node, key, node.leaf)

(* Every round reads one cell that is on the page and shortens the search.  *)
Shrinks ==
  [][/\ Mid >= 0 /\ Mid < NumCells(node)
     /\ (hi' - lo') < (hi - lo)]_searchVars

(* The loop ends.                                                           *)
Terminates == <>(lo >= hi)
=============================================================================
