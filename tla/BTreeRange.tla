----------------------------- MODULE BTreeRange -----------------------------
(***************************************************************************)
(* Range of dbms/index/btree/btree.go and its iterator: an in-order walk   *)
(* of the B-tree with a stack of frames.  The iterator reads its pages     *)
(* again in every Next and remembers only their ids and its place on them. *)
(*                                                                         *)
(* The program never inserts while it uses an iterator; the interface does *)
(* not forbid it.  InsertsWhileOpen says whether the caller here does.     *)
(***************************************************************************)
EXTENDS BTree, Scans

CONSTANTS
  InsertsWhileOpen,  \* the caller calls the index between two calls of Next
  Bounds             \* bound: the keys a range starts and ends at

ASSUME CallerAssumption == InsertsWhileOpen \in BOOLEAN /\ Bounds \subseteq Int

VARIABLES
  scan,    \* closed, range (Range runs), open, next (Next runs), done, failed
  it,      \* the iterator: start and end of the range, the page Range is on
  stack,   \* RangeIterator.stack, deepest frame last
  seen,    \* history: the pairs Next has produced
  had      \* history: the keys in the range when Range was called

rvars == <<scan, it, stack, seen, had>>

NoRange == [start |-> 0, end |-> 0, at |-> 0]

RangeInit ==
  /\ Init
  /\ scan = "closed"
  /\ it = NoRange
  /\ stack = << >>
  /\ seen = << >>
  /\ had = {}

Stored(s, e) == {k \in Keys : contents[k] # Nil /\ s <= k /\ k <= e}
-----------------------------------------------------------------------------
(* Range: down to the leaf of the start key.                                *)

OpenRange(s, e) ==
  /\ pc = "idle"
  /\ scan = "closed"
  /\ scan' = "range"
  /\ it' = [start |-> s, end |-> e, at |-> root]
  /\ had' = Stored(s, e)
  /\ UNCHANGED <<stack, seen>>

RangeDescend ==
  /\ scan = "range"
  /\ LET p   == PageOf(it.at)
         idx == FindIdx(p, it.start, p.leaf)
     IN  /\ stack' = Append(stack, [id |-> it.at, idx |-> idx,
                                    subtreeDone |-> FALSE])
         /\ IF p.leaf THEN scan' = "open" /\ UNCHANGED it
            ELSE it' = [it EXCEPT !.at = ChildAt(p, idx)] /\ UNCHANGED scan
  /\ UNCHANGED <<seen, had>>
-----------------------------------------------------------------------------
(* Next: one action per round of its loop.                                  *)

CallNext ==
  /\ pc = "idle"
  /\ scan = "open"
  /\ scan' = "next"
  /\ UNCHANGED <<it, stack, seen, had>>

Top == stack[Len(stack)]
ScanPage == PageOf(Top.id)

(* The frame is at a cell it may produce: the subtree left of the cell has  *)
(* been visited, or there is none.                                          *)
AtCell ==
  /\ scan = "next"
  /\ stack # << >>
  /\ ScanPage.leaf \/ Top.subtreeDone
  /\ Top.idx <= NumCells(ScanPage)

(* Mutant: the subtree right of the produced cell is not entered.           *)
FrameBehindPast(f) == [f EXCEPT !.idx = @ + 1]

(* The frame behind the produced cell.                                      *)
FrameBehind(f) == [f EXCEPT !.idx = @ + 1, !.subtreeDone = FALSE]

NextCell ==
  /\ AtCell
  /\ LET c == ScanPage.cells[Top.idx]
     IN  IF c.key > it.end THEN scan' = "done" /\ UNCHANGED <<stack, seen>>
         ELSE /\ seen' = Append(seen, [key |-> c.key, val |-> c.val])
              /\ stack' = Append(Front(stack), FrameBehind(Top))
              /\ scan' = "open"
  /\ UNCHANGED <<it, had>>

Push(id) == stack' = Append(stack, [id |-> id, idx |-> 1, subtreeDone |-> FALSE])

(* The subtree left of the cell, or the rightmost one, comes first.  On a   *)
(* page that was split since, the place may be behind all cells: the child  *)
(* id is then read from a slot that holds no cell pointer, and is no page   *)
(* or any page.                                                             *)
NextChild ==
  /\ scan = "next"
  /\ stack # << >>
  /\ ~ScanPage.leaf
  /\ ~Top.subtreeDone
  /\ IF Top.idx <= NumCells(ScanPage) + 1
     THEN Push(ChildAt(ScanPage, Top.idx)) /\ UNCHANGED scan
     ELSE \/ scan' = "failed" /\ UNCHANGED stack
          \/ \E id \in NodeIds : Push(id) /\ UNCHANGED scan
  /\ UNCHANGED <<it, seen, had>>

(* No cell is left on the page: its frame goes, and the frame below has its *)
(* subtree done.                                                            *)
NextPop ==
  /\ scan = "next"
  /\ stack # << >>
  /\ ScanPage.leaf \/ Top.subtreeDone
  /\ Top.idx > NumCells(ScanPage)
  /\ stack' = LET below == Front(stack)
              IN  [i \in DOMAIN below |->
                     IF i = Len(below) THEN [below[i] EXCEPT !.subtreeDone = TRUE]
                     ELSE below[i]]
  /\ UNCHANGED <<scan, it, seen, had>>

NextEnd ==
  /\ scan = "next"
  /\ stack = << >>
  /\ scan' = "done"
  /\ UNCHANGED <<it, stack, seen, had>>

(* The caller is through with the iterator, before its end or after it.     *)
CloseScan ==
  /\ scan \in {"open", "done", "failed"}
  /\ scan' = "closed"
  /\ it' = NoRange
  /\ stack' = << >>
  /\ seen' = << >>
  /\ had' = {}

ScanStep ==
  \/ RangeDescend
  \/ CallNext
  \/ NextCell
  \/ NextChild
  \/ NextPop
  \/ NextEnd
  \/ CloseScan

MayCall == scan = "closed" \/ (InsertsWhileOpen /\ scan = "open")

RangeNext ==
  \/ MayCall /\ Next /\ UNCHANGED rvars
  \/ \E s, e \in Bounds : OpenRange(s, e) /\ UNCHANGED vars
  \/ ScanStep /\ UNCHANGED vars

RangeSpec == RangeInit /\ [][RangeNext]_<<vars, rvars>>
-----------------------------------------------------------------------------
(* What the scan has to produce: the stored pairs of the range.             *)
Wanted == [k \in Stored(it.start, it.end) |-> contents[k]]

(* A scan that nothing is inserted under produces the pairs of its range in *)
(* the order of their keys, from the first on and each once, and Next ends  *)
(* it only behind the last.                                                 *)
ScanInOrder ==
  scan # "closed" =>
    /\ FirstOf(seen, Wanted)
    /\ scan = "done" => AllOf(seen, Wanted)
    /\ scan # "failed"

(* A key that was in the range when Range was called has been produced when *)
(* Next answers false and reports no error.                                 *)
NothingSkipped ==
  scan = "done" => \A k \in had : \E i \in DOMAIN seen : seen[i].key = k
=============================================================================
