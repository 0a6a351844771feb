--------------------------- MODULE MCBPTreeStore ---------------------------
EXTENDS BPTreeStore

CONSTANTS a, b   \* values

(* b outgrows the cell of a: two cells of 10 + 4 bytes and their pointers   *)
(* fill a page of 45 bytes to the last byte.                                *)
GrowingLen == (a :> 2) @@ (b :> 4)

ThreeKeys == 1 .. 3
=============================================================================
