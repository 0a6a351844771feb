--------------------------- MODULE MCBPTreeRange ---------------------------
EXTENDS BPTreeRange

CONSTANT a   \* the value of every key

(* Two cells of 10 + 2 bytes and their pointers fill a page of 41 bytes to  *)
(* the last byte.                                                           *)
OneLen == a :> 2

FiveKeys == 1 .. 5
=============================================================================
