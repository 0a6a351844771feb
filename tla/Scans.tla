-------------------------------- MODULE Scans --------------------------------
(***************************************************************************)
(* What Range of dbms/index/index.go promises: Next goes through the pairs *)
(* of a range in the order of their keys.  Stated of the pairs that were   *)
(* produced so far and of the map of the pairs that are in the range.      *)
(***************************************************************************)
EXTENDS Integers

HasKey(pairs, k) == \E i \in DOMAIN pairs : pairs[i].key = k

(* All keys produced so far are smaller than k.                             *)
Before(pairs, k) == \A i \in DOMAIN pairs : pairs[i].key < k

(* The pairs are pairs of the map, in the order of their keys, each once.   *)
Ascending(pairs, want) ==
  /\ \A i, j \in DOMAIN pairs : i < j => pairs[i].key < pairs[j].key
  /\ \A i \in DOMAIN pairs : /\ pairs[i].key \in DOMAIN want
                             /\ pairs[i].val = want[pairs[i].key]

(* They are its pairs from the first on, with none passed over.             *)
FirstOf(pairs, want) ==
  /\ Ascending(pairs, want)
  /\ \A k \in DOMAIN want : HasKey(pairs, k) \/ Before(pairs, k)

(* They are all its pairs.                                                  *)
AllOf(pairs, want) ==
  /\ Ascending(pairs, want)
  /\ \A k \in DOMAIN want : HasKey(pairs, k)
=============================================================================
