----------------------------- MODULE TwoIndexes -----------------------------
(***************************************************************************)
(* The LSM index and the list index, which listindex.go:1 calls "a simple  *)
(* in-memory list-based index for testing", under one caller that makes    *)
(* every write on both and walks through ranges of either.                 *)
(***************************************************************************)
EXTENDS LSM

CONSTANT MaxWrites   \* bound: the writes under one walk of the list

ASSUME WritesAssumption == MaxWrites \in Nat

VARIABLES data, size, it, past   \* the list index

List == INSTANCE ListIndex

listVars == <<data, size, it, past>>

TwoInit == Init /\ List!Init

Write(k, v) == Insert(k, v) /\ List!Insert(k, v)

Drop(k) == Delete(k) /\ List!Delete(k)

(* Bound: a range of one index is walked through at a time.                 *)
ScanLSM ==
  /\ it.walk = "closed"
  /\ (\E s, e \in Keys : OpenRange(s, e)) \/ Next \/ CloseRange
  /\ UNCHANGED listVars

WalkList ==
  /\ scan = "closed"
  /\ List!Walk
  /\ UNCHANGED vars

TwoNext ==
  \/ \E k \in Keys, v \in Values : Write(k, v)
  \/ \E k \in Keys : Drop(k)
  \/ ScanLSM
  \/ WalkList

TwoSpec == TwoInit /\ [][TwoNext]_<<vars, listVars>>
-----------------------------------------------------------------------------
(* The list holds each key once, and both indexes answer the Get of a key   *)
(* with the same value, whatever was inserted, overwritten and deleted, and *)
(* however the list's array has grown and shrunk.  Both answers are nil for *)
(* a key that is not there, and only then they differ: the list adds an     *)
(* error, of which index.go:12 does not speak.                              *)
SameUnlessAbsent ==
  \A k \in Keys :
    /\ List!Get(k).val = Get(k).val
    /\ List!Get(k) = Get(k) <=> Get(k).val # Nil
    /\ Cardinality(List!Positions(k)) <= 1

(* Walks over the list keep to what was stored while they were open.        *)
ListWalksStored == List!WalksStored

(* Walks over the list miss no more than deletions have moved.              *)
ListWalksKept == List!WalksKept
=============================================================================
