----------------------------- MODULE BTreeStore -----------------------------
(***************************************************************************)
(* The B-tree across sessions, crashes and failing writes.                 *)
(***************************************************************************)
EXTENDS BTree, TreeStore

StoreNext == (Next /\ Wear) \/ SessionStep

StoreSpec == StoreInit /\ [][StoreNext]_<<vars, svars>>
=============================================================================
