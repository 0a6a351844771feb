---------------------------- MODULE MCTwoIndexes ----------------------------
EXTENDS TwoIndexes

CONSTANTS a, b   \* values

(* Keys of four bits: 0, one between and the last one.                     *)
FewKeys == {0, 3, 7}
=============================================================================
