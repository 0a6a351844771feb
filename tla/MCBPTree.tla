------------------------------ MODULE MCBPTree ------------------------------
EXTENDS BPTree

CONSTANTS a, b, c   \* values

(* Each outgrows the one before; a page of 27 bytes has room for one cell,  *)
(* on a leaf as above it.                                                   *)
GrowingLen == (a :> 0) @@ (b :> 1) @@ (c :> 2)

ThreeKeys == 1 .. 3
=============================================================================
