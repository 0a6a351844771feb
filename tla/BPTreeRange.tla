---------------------------- MODULE BPTreeRange -----------------------------
(***************************************************************************)
(* Range of dbms/index/bptree/bptree.go and its iterator: down to the leaf *)
(* of the start key, then right along the leaf chain.  The iterator keeps  *)
(* hold of the page it is on, which is the cached page as long as the      *)
(* cache has it: an Insert changes it under the iterator.                  *)
(*                                                                         *)
(* The program never inserts while it uses an iterator; the interface does *)
(* not forbid it.  InsertsWhileOpen says whether the caller here does.     *)
(***************************************************************************)
EXTENDS BPTree, Scans

CONSTANTS
  InsertsWhileOpen,  \* the caller calls the index between two calls of Next
  Bounds             \* bound: the keys a range starts and ends at

ASSUME CallerAssumption == InsertsWhileOpen \in BOOLEAN /\ Bounds \subseteq Int

VARIABLES
  scan,     \* closed, findLeaf (Range runs), open, next (Next runs), done
  it,       \* the iterator: start and end of the range, leafID and idx
  dropped,  \* the pinned page after the cache let go of it; << >> before
  seen,     \* history: the pairs Next has produced
  had,      \* history: the keys in the range when Range was called
  alone     \* history: no Insert was called since Range was

rvars == <<scan, it, dropped, seen, had, alone>>

NoRange == [start |-> 0, end |-> 0, leafID |-> 0, idx |-> 0]

RangeInit ==
  /\ Init
  /\ scan = "closed"
  /\ it = NoRange
  /\ dropped = << >>
  /\ seen = << >>
  /\ had = {}
  /\ alone = TRUE

Stored(s, e) == {k \in Keys : contents[k] # Nil /\ s <= k /\ k <= e}
-----------------------------------------------------------------------------
(* Range: FindLeaf, then the place of the start key on the leaf.            *)

OpenRange(s, e) ==
  /\ pc = "idle"
  /\ scan = "closed"
  /\ scan' = "findLeaf"
  /\ it' = [start |-> s, end |-> e, leafID |-> root, idx |-> 0]
  /\ had' = Stored(s, e)
  /\ UNCHANGED <<dropped, seen, alone>>

RangeDescend ==
  /\ scan = "findLeaf"
  /\ LET p   == PageOf(it.leafID)
         idx == FindIdx(p, it.start, p.leaf)
     IN  IF p.leaf THEN it' = [it EXCEPT !.idx = idx] /\ scan' = "open"
         ELSE it' = [it EXCEPT !.leafID = ChildAt(p, idx)] /\ UNCHANGED scan
  /\ UNCHANGED <<dropped, seen, had, alone>>
-----------------------------------------------------------------------------
(* Next: one action per round of its loop.                                  *)

CurrPg == IF dropped = << >> THEN PageOf(it.leafID) ELSE dropped[1]

CallNext ==
  /\ pc = "idle"
  /\ scan = "open"
  /\ scan' = IF it.leafID = InvalidPage THEN "done" ELSE "next"
  /\ UNCHANGED <<it, dropped, seen, had, alone>>

NextCell ==
  /\ scan = "next"
  /\ it.idx <= NumCells(CurrPg)
  /\ LET c == CurrPg.cells[it.idx]
     IN  IF c.key > it.end THEN scan' = "done" /\ UNCHANGED <<it, seen>>
         ELSE /\ seen' = Append(seen, [key |-> c.key, val |-> c.val])
              /\ it' = [it EXCEPT !.idx = @ + 1]
              /\ scan' = "open"
  /\ UNCHANGED <<dropped, had, alone>>

(* Mutant: the place on the next leaf is the place on this one.             *)
NextLeafKeepsIdx ==
  /\ scan = "next"
  /\ it.idx > NumCells(CurrPg)
  /\ it' = [it EXCEPT !.leafID = CurrPg.next]
  /\ scan' = IF CurrPg.next = InvalidPage THEN "done" ELSE "next"
  /\ dropped' = << >>
  /\ UNCHANGED <<seen, had, alone>>

(* The leaf is exhausted: its right neighbour is read and pinned.           *)
NextLeaf ==
  /\ scan = "next"
  /\ it.idx > NumCells(CurrPg)
  /\ it' = [it EXCEPT !.leafID = CurrPg.next, !.idx = 1]
  /\ scan' = IF CurrPg.next = InvalidPage THEN "done" ELSE "next"
  /\ dropped' = << >>
  /\ UNCHANGED <<seen, had, alone>>

(* The cache evicts the pinned page: the iterator keeps the page as it is   *)
(* now, later calls read and change another copy of it.                     *)
DropPinned ==
  /\ InsertsWhileOpen
  /\ scan = "open"
  /\ dropped = << >>
  /\ dropped' = <<PageOf(it.leafID)>>
  /\ UNCHANGED <<scan, it, seen, had, alone>>

(* The caller is through with the iterator, before its end or after it.     *)
CloseScan ==
  /\ scan \in {"open", "done"}
  /\ scan' = "closed"
  /\ it' = NoRange
  /\ dropped' = << >>
  /\ seen' = << >>
  /\ had' = {}
  /\ alone' = TRUE

ScanStep ==
  \/ RangeDescend
  \/ CallNext
  \/ NextCell
  \/ NextLeaf
  \/ DropPinned
  \/ CloseScan

MayCall == scan = "closed" \/ (InsertsWhileOpen /\ scan = "open")

IndexStep ==
  /\ MayCall
  /\ Next
  /\ alone' = (alone /\ (scan = "closed" \/ pc' # "insertRec"))
  /\ UNCHANGED <<scan, it, dropped, seen, had>>

RangeNext ==
  \/ IndexStep
  \/ \E s, e \in Bounds : OpenRange(s, e) /\ UNCHANGED vars
  \/ ScanStep /\ UNCHANGED vars

RangeSpec == RangeInit /\ [][RangeNext]_<<vars, rvars>>
-----------------------------------------------------------------------------
(* What the scan has to produce: the stored pairs of the range.             *)
Wanted == [k \in Stored(it.start, it.end) |-> contents[k]]

(* A scan that nothing is inserted under produces the pairs of its range in *)
(* the order of their keys, from the first on and each once, and Next ends  *)
(* it only behind the last.                                                 *)
ScanInOrder ==
  scan # "closed" /\ alone =>
    /\ FirstOf(seen, Wanted)
    /\ scan = "done" => AllOf(seen, Wanted)

(* Whatever is inserted under the scan, a key that was in the range when    *)
(* Range was called has been produced when Next answers false: cells move   *)
(* right on a leaf and to the leaves on its right, never to the left.       *)
NothingSkipped ==
  scan = "done" => \A k \in had : \E i \in DOMAIN seen : seen[i].key = k
=============================================================================
