------------------------------- MODULE BTree -------------------------------
(***************************************************************************)
(* The B-tree of dbms/index/btree/btree.go: the engine of module Tree with *)
(* the accessor BTreeAcc.  Every page stores keys with their values, so a  *)
(* Get ends on the first page that holds the key.                          *)
(***************************************************************************)
EXTENDS Tree

ASSUME BTreeAssumption == ~CopyUpLeaves

Get(k) ==
  /\ pc = "idle"
  /\ call' = [op |-> "get", key |-> k]
  /\ path' = <<root>>
  /\ pc' = "get"
  /\ UNCHANGED <<file, cached, pageCount, root, header, split, contents>>

Answer(val) ==
  /\ call' = [op |-> "answer", key |-> call.key, val |-> val]
  /\ path' = << >>
  /\ pc' = "answer"
  /\ UNCHANGED <<file, cached, pageCount, root, header, split, contents>>

(* One page of Tree.Get: the key is here with a value that is not nil, the  *)
(* page is a leaf without it, or the search goes on in a child.             *)
Found == KeyAt(TopPage, Pos) /\ TopPage.cells[Pos].val # Nil

GetHit ==
  /\ pc = "get"
  /\ Found
  /\ Answer(TopPage.cells[Pos].val)

(* Mutant: the search gives up on the first page without the key.           *)
GetMissAnywhere == pc = "get" /\ ~Found /\ Answer(Nil)

GetMiss ==
  /\ pc = "get"
  /\ ~Found
  /\ TopPage.leaf
  /\ Answer(Nil)

GetDescend ==
  /\ pc = "get"
  /\ ~Found
  /\ ~TopPage.leaf
  /\ path' = <<ChildAt(TopPage, Pos)>>
  /\ UNCHANGED <<file, cached, pageCount, root, header, pc, split, call,
                 contents>>

ReturnGet ==
  /\ pc = "answer"
  /\ call' = NoCall
  /\ pc' = "idle"
  /\ UNCHANGED <<file, cached, pageCount, root, header, path, split, contents>>

GetStep == GetHit \/ GetMiss \/ GetDescend \/ ReturnGet

Next ==
  \/ Engine
  \/ \E k \in Keys : Get(k)
  \/ GetStep

Spec == Init /\ [][Next]_vars
-----------------------------------------------------------------------------
(* The B-tree does what the interface promises: every Get answers the value *)
(* of the last Insert of its key, whatever pages were split in between.     *)
Promise == INSTANCE Index
ImplementsIndex == Promise!Spec
=============================================================================
