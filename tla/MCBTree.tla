------------------------------ MODULE MCBTree ------------------------------
EXTENDS BTree

CONSTANTS a, b   \* values

(* b outgrows the cell of a.                                                *)
GrowingLen == (a :> 2) @@ (b :> 4)

SmallKeys == 1 .. 4
=============================================================================
