--------------------------- MODULE MCBinarySearch ---------------------------
EXTENDS BinarySearch, TLC

CONSTANTS a

OneLen == a :> 2

KeysOf(n) == {s \in [1 .. n -> 1 .. 3] :
                \A i, j \in 1 .. n : i < j => s[i] <= s[j]}

(* Every page of up to five cells with keys 1 .. 3 in order, repeated keys   *)
(* included.                                                                *)
SortedPages ==
  UNION {{[leaf |-> leaf,
           cells |-> [i \in 1 .. n |-> [key |-> s[i], val |-> a, lc |-> 0]],
           content |-> 0, rightmost |-> 0, next |-> 0] :
             leaf \in BOOLEAN, s \in KeysOf(n)} : n \in 0 .. 5}

SearchKeys == 0 .. 4
=============================================================================
