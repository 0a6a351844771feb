------------------------------- MODULE BPTree -------------------------------
(***************************************************************************)
(* The B+ tree of dbms/index/bptree/bptree.go: the engine of module Tree   *)
(* with the accessor BPTreeAcc.  Internal pages hold separators only; a    *)
(* Get descends to a leaf and walks right from it along the leaf chain.    *)
(***************************************************************************)
EXTENDS Tree

ASSUME BPTreeAssumption == CopyUpLeaves

Get(k) ==
  /\ pc = "idle"
  /\ call' = [op |-> "get", key |-> k]
  /\ path' = <<root>>
  /\ pc' = "findLeaf"
  /\ UNCHANGED <<file, cached, pageCount, root, header, split, contents>>

Answer(val) ==
  /\ call' = [op |-> "answer", key |-> call.key, val |-> val]
  /\ path' = << >>
  /\ pc' = "answer"
  /\ UNCHANGED <<file, cached, pageCount, root, header, split, contents>>

GoTo(id) ==
  /\ path' = <<id>>
  /\ UNCHANGED <<file, cached, pageCount, root, header, split, call, contents>>

FindLeafDescend ==
  /\ pc = "findLeaf"
  /\ ~TopPage.leaf
  /\ GoTo(ChildAt(TopPage, Pos))
  /\ UNCHANGED pc

FindLeafDone ==
  /\ pc = "findLeaf"
  /\ TopPage.leaf
  /\ GoTo(Last(path))
  /\ pc' = "scan"

(* One leaf of Get: the key, a greater key, or nothing but smaller ones.    *)
ScanHit ==
  /\ pc = "scan"
  /\ KeyAt(TopPage, Pos)
  /\ Answer(TopPage.cells[Pos].val)

ScanPast ==
  /\ pc = "scan"
  /\ Pos <= NumCells(TopPage) /\ TopPage.cells[Pos].key > call.key
  /\ Answer(Nil)

ScanNext ==
  /\ pc = "scan"
  /\ Pos = NumCells(TopPage) + 1
  /\ IF TopPage.next = InvalidPage THEN Answer(Nil)
     ELSE GoTo(TopPage.next) /\ UNCHANGED pc

ReturnGet ==
  /\ pc = "answer"
  /\ call' = NoCall
  /\ pc' = "idle"
  /\ UNCHANGED <<file, cached, pageCount, root, header, path, split, contents>>

GetStep ==
  FindLeafDescend \/ FindLeafDone \/ ScanHit \/ ScanPast \/ ScanNext \/ ReturnGet

Next ==
  \/ Engine
  \/ \E k \in Keys : Get(k)
  \/ GetStep

Spec == Init /\ [][Next]_vars
-----------------------------------------------------------------------------
(* The B+ tree does what the interface promises: every Get answers the      *)
(* value of the last Insert of its key, whatever leaves it has moved to.    *)
Promise == INSTANCE Index
ImplementsIndex == Promise!Spec
=============================================================================
