---------------------------- MODULE BPTreeStore ----------------------------
(***************************************************************************)
(* The B+ tree across sessions and crashes.                                *)
(***************************************************************************)
EXTENDS BPTree, TreeStore

StoreNext == (Next /\ Wear) \/ SessionStep

(* A call, once made, is run on by the goroutine that made it, as long as   *)
(* its process lives.                                                       *)
StoreSpec == StoreInit /\ [][StoreNext]_<<vars, svars>>
             /\ WF_<<vars, svars>>((InsertStep \/ GetStep) /\ Wear)

(* A call returns unless its process ends: also a Get that walks the leaf   *)
(* chain of a tree that a crash has left with a half of a split unlinked.   *)
CallsEnd == (pc # "idle") ~> (pc = "idle" \/ damage = "cut")
=============================================================================
