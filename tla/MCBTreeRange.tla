--------------------------- MODULE MCBTreeRange ---------------------------
EXTENDS BTreeRange

CONSTANTS a, b   \* values

(* Two bytes each: two cells of 14 + 2 bytes and their pointers fill a page *)
(* of 49 bytes to the last byte.                                            *)
SameLen == (a :> 2) @@ (b :> 2)

SmallKeys == 1 .. 4
ManyKeys  == 1 .. 7
Ends      == {1, 4, 7}
=============================================================================
