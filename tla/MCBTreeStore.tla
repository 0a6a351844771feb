---------------------------- MODULE MCBTreeStore ----------------------------
EXTENDS BTreeStore

CONSTANTS a, b   \* values

(* b outgrows the cell of a: two cells of 14 + 4 bytes and their pointers   *)
(* fill a page of 53 bytes to the last byte.                                *)
GrowingLen == (a :> 2) @@ (b :> 4)

ThreeKeys == 1 .. 3
OneKey    == {1}
=============================================================================
