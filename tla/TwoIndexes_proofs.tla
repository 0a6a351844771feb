-------------------------- MODULE TwoIndexes_proofs --------------------------
(***************************************************************************)
(* What a walk over the list index finds while the pairs under it are      *)
(* overwritten, appended and deleted, and how much it may miss; that the   *)
(* list index and the LSM index answer alike; and that scans of the LSM    *)
(* index are in order: for all keys and values and any number of writes.   *)
(***************************************************************************)
EXTENDS TwoIndexes, SequencesExt, SequenceLemmas, FiniteSetTheorems,
        TLAPS

Pairs == [key : Keys \cup {0}, val : Values \cup {Nil}]

Walks == [walk : {"closed", "open", "done"}, shared : BOOLEAN, held : Seq(Pairs),
          len : Nat, cur : Nat, start : Keys \cup {0}, end : Keys \cup {0}]

Pasts == [found : Seq(Pairs), stored : SUBSET Pairs,
          kept : SUBSET (Keys \cup {0}), deletes : Nat, writes : Nat]

(* A pair a walk may come by.                                               *)
Allowed(p) == p \in past.stored \/ (p = List!Cleared /\ past.deletes > 0)

ListTypeOK ==
  /\ data \in Seq(Pairs) /\ size \in 0 .. Len(data)
  /\ it \in Walks /\ past \in Pasts

(* Every slot before the iterator's end holds a pair it may come by, also   *)
(* the slots behind the end of the list; while the iterator's array is the  *)
(* list's, what the list holds was stored since Range.                      *)
WalkInv ==
  /\ ListTypeOK
  /\ it.walk = "closed" => it = List!NoWalk /\ past = List!NoPast
  /\ it.len <= Len(List!Walked)
  /\ it.walk # "closed" => \A i \in 1 .. it.len : Allowed(List!Walked[i])
  /\ it.walk # "closed" /\ it.shared =>
       \A i \in 1 .. size : data[i] \in past.stored
  /\ \A i \in 1 .. Len(past.found) :
       List!Within(past.found[i]) /\ Allowed(past.found[i])
-----------------------------------------------------------------------------
(* A cleared slot looks like a pair.                                        *)
LEMMA ClearedIsPair == List!Cleared \in Pairs
BY DEF List!Cleared, Pairs

(* The first of the positions of a key is one of them.                      *)
LEMMA ForemostIn ==
  ASSUME NEW T, T \subseteq Nat, T # {}
  PROVE  List!Foremost(T) \in T
<1>1. \E x \in T : \A y \in T : x <= y
  BY LeastNat
<1>2. QED
  BY <1>1 DEF List!Foremost

(* The position Insert and Delete work on is one of the key.                *)
LEMMA FoundPosition ==
  ASSUME ListTypeOK, NEW k, List!Positions(k) # {}
  PROVE  /\ List!Foremost(List!Positions(k)) \in 1 .. size
         /\ data[List!Foremost(List!Positions(k))].key = k
<1>1. List!Positions(k) \subseteq Nat
  BY DEF List!Positions
<1>2. List!Foremost(List!Positions(k)) \in List!Positions(k)
  BY <1>1, ForemostIn
<1>3. QED
  BY <1>2 DEF List!Positions

(* slices.Delete: the pairs that stay are pairs of the list, the last slot  *)
(* is cleared, nothing changes behind the list.                             *)
LEMMA MovedUpElements ==
  ASSUME ListTypeOK, NEW i \in 1 .. size
  PROVE  LET d == List!MovedUp(i)
         IN  /\ d \in Seq(Pairs) /\ Len(d) = Len(data)
             /\ \A j \in 1 .. size - 1 :
                  d[j] = IF j < i THEN data[j] ELSE data[j + 1]
             /\ \A j \in 1 .. size - 1 : \E l \in 1 .. size : d[j] = data[l]
             /\ d[size] = List!Cleared
             /\ \A j \in size + 1 .. Len(data) : d[j] = data[j]
<1> DEFINE a == SubSeq(data, 1, size)
           r == RemoveAt(a, i)
           m == Append(r, List!Cleared)
           t == SubSeq(data, size + 1, Len(data))
           d == List!MovedUp(i)
<1>1. /\ data \in Seq(Pairs) /\ size \in Nat /\ Len(data) \in Nat
      /\ size <= Len(data) /\ size >= 1
  BY DEF ListTypeOK
<1>2. \A j \in 1 .. Len(data) : data[j] \in Pairs
  BY <1>1, ElementOfSeq
<1>3. /\ a \in Seq(Pairs) /\ Len(a) = size
      /\ \A j \in 1 .. size : a[j] = data[j]
  <2>1. \A j \in 1 .. size : data[j] \in Pairs
    BY <1>1, <1>2
  <2>2. QED
    BY <1>1, <2>1, SubSeqProperties
<1>4. /\ t \in Seq(Pairs) /\ Len(t) = Len(data) - size
      /\ \A j \in 1 .. Len(data) - size : t[j] = data[size + 1 + j - 1]
  <2>1. \A j \in size + 1 .. Len(data) : data[j] \in Pairs
    BY <1>1, <1>2
  <2>2. QED
    BY <1>1, <2>1, SubSeqProperties
<1>5. d = m \o t
  BY DEF List!MovedUp, List!RemoveAt, RemoveAt
<1> HIDE DEF a, t, d
<1>6. /\ r \in Seq(Pairs) /\ Len(r) = size - 1
      /\ \A j \in 1 .. size - 1 : r[j] = IF j < i THEN a[j] ELSE a[j + 1]
  BY <1>3, RemoveAtElements
<1> HIDE DEF r
<1>7. /\ m \in Seq(Pairs) /\ Len(m) = size /\ m[size] = List!Cleared
      /\ \A j \in 1 .. size - 1 : m[j] = r[j]
  BY <1>1, <1>6, ClearedIsPair
<1> HIDE DEF m
<1>8. /\ m \o t \in Seq(Pairs) /\ Len(m \o t) = Len(m) + Len(t)
      /\ \A j \in 1 .. Len(m) + Len(t) :
           (m \o t)[j] = IF j <= Len(m) THEN m[j] ELSE t[j - Len(m)]
  BY <1>4, <1>7, ConcatProperties
<1>9. d \in Seq(Pairs) /\ Len(d) = Len(data)
  BY <1>1, <1>4, <1>5, <1>7, <1>8
<1>10. \A j \in 1 .. Len(data) : d[j] = IF j <= size THEN m[j] ELSE t[j - size]
  BY <1>1, <1>4, <1>5, <1>7, <1>8
<1>11. ASSUME NEW j \in 1 .. size - 1
       PROVE  /\ d[j] = IF j < i THEN data[j] ELSE data[j + 1]
              /\ \E l \in 1 .. size : d[j] = data[l]
  <2>1. d[j] = r[j]
    BY <1>1, <1>7, <1>10
  <2>2. CASE j < i
    BY <1>1, <1>3, <1>6, <2>1, <2>2
  <2>3. CASE ~(j < i)
    <3>1. j + 1 \in 1 .. size /\ d[j] = a[j + 1]
      BY <1>1, <1>6, <2>1, <2>3
    <3>2. d[j] = data[j + 1]
      BY <1>3, <3>1
    <3>3. QED
      BY <2>3, <3>1, <3>2
  <2>4. QED
    BY <2>2, <2>3
<1>12. d[size] = List!Cleared
  BY <1>1, <1>7, <1>10
<1>13. ASSUME NEW j \in size + 1 .. Len(data)
       PROVE  d[j] = data[j]
  <2>1. j - size \in 1 .. Len(data) - size /\ j \in 1 .. Len(data) /\ ~(j <= size)
    BY <1>1
  <2>2. d[j] = t[j - size]
    BY <1>10, <2>1
  <2>3. t[j - size] = data[size + 1 + (j - size) - 1]
    BY <1>4, <2>1
  <2>4. size + 1 + (j - size) - 1 = j
    BY <1>1
  <2>5. QED
    BY <2>2, <2>3, <2>4
<1>14. QED
  BY <1>9, <1>11, <1>12, <1>13 DEF d
-----------------------------------------------------------------------------
(* What the invariant says of each part of the state.                       *)
LEMMA TypesOfList ==
  ASSUME WalkInv
  PROVE  /\ data \in Seq(Pairs) /\ Len(data) \in Nat
         /\ size \in Nat /\ size <= Len(data)
         /\ it.walk \in {"closed", "open", "done"} /\ it.shared \in BOOLEAN
         /\ it.held \in Seq(Pairs) /\ it.len \in Nat /\ it.cur \in Nat
         /\ past.found \in Seq(Pairs) /\ past.stored \subseteq Pairs
         /\ past.deletes \in Nat /\ past.writes \in Nat
         /\ it \in Walks /\ past \in Pasts
         /\ List!Walked \in Seq(Pairs)
         /\ it.len <= Len(List!Walked)
BY DEF WalkInv, ListTypeOK, Walks, Pasts, List!Walked

(* The list after an Insert: the pair is in the slot of its key, or behind  *)
(* the last slot, or at the end of a new array.                             *)
LEMMA Inserted ==
  ASSUME WalkInv, NEW k \in Keys, NEW v \in Values, List!Insert(k, v)
  PROVE  LET pair == [key |-> k, val |-> v]
         IN  /\ data' \in Seq(Pairs) /\ size' \in 0 .. Len(data')
             /\ List!Positions(k) = {} =>
                  /\ size' = size + 1 /\ data'[size + 1] = pair
                  /\ \A i \in 1 .. size : data'[i] = data[i]
             /\ \/ it' = it /\ ~it.shared
                \/ /\ it' = it /\ Len(data') = Len(data)
                   /\ \A i \in 1 .. Len(data) : data'[i] = pair \/ data'[i] = data[i]
                   /\ \A i \in 1 .. size' :
                        data'[i] = pair \/ (i <= size /\ data'[i] = data[i])
                \/ it.shared /\ it' = [it EXCEPT !.shared = FALSE, !.held = data]
<1> DEFINE pair == [key |-> k, val |-> v]
<1>1. /\ data \in Seq(Pairs) /\ Len(data) \in Nat /\ size \in Nat
      /\ size <= Len(data) /\ pair \in Pairs /\ it.shared \in BOOLEAN
  BY TypesOfList DEF Pairs
<1>2. CASE List!Positions(k) # {}
  <2> DEFINE f == List!Foremost(List!Positions(k))
  <2>1. f \in 1 .. size /\ data[f].key = k
    BY <1>2, FoundPosition DEF WalkInv
  <2>2. data' = [data EXCEPT ![f].val = v] /\ size' = size /\ it' = it
    BY <1>2 DEF List!Insert
  <2> HIDE DEF f
  <2>3. f \in 1 .. Len(data) /\ data[f] \in Pairs
    BY <1>1, <2>1
  <2>4. [data[f] EXCEPT !.val = v] = pair
    BY <2>1, <2>3 DEF Pairs
  <2>5. data' = [data EXCEPT ![f] = pair]
    BY <2>2, <2>4
  <2> HIDE DEF pair
  <2>6. /\ data' \in Seq(Pairs) /\ Len(data') = Len(data)
        /\ \A i \in 1 .. Len(data) : data'[i] = IF i = f THEN pair ELSE data[i]
    BY <1>1, <2>3, <2>5, ExceptSeq
  <2>7. \A i \in 1 .. size' :
          data'[i] = pair \/ (i <= size /\ data'[i] = data[i])
    BY <1>1, <2>2, <2>6
  <2>8. QED
    BY <1>1, <1>2, <2>2, <2>6, <2>7 DEF pair
<1>3. CASE List!Positions(k) = {} /\ size < Len(data)
  <2>1. data' = [data EXCEPT ![size + 1] = pair] /\ size' = size + 1 /\ it' = it
    BY <1>1, <1>3 DEF List!Insert, List!Appended
  <2>2. size + 1 \in 1 .. Len(data)
    BY <1>1, <1>3
  <2> HIDE DEF pair
  <2>3. /\ data' \in Seq(Pairs) /\ Len(data') = Len(data)
        /\ \A i \in 1 .. Len(data) :
             data'[i] = IF i = size + 1 THEN pair ELSE data[i]
    BY <1>1, <2>1, <2>2, ExceptSeq
  <2>4. \A i \in 1 .. size' :
          data'[i] = pair \/ (i <= size /\ data'[i] = data[i])
    BY <1>1, <2>1, <2>2, <2>3
  <2>5. data'[size + 1] = pair /\ \A i \in 1 .. size : data'[i] = data[i]
    BY <1>1, <2>2, <2>3
  <2>6. QED
    BY <1>1, <2>1, <2>2, <2>3, <2>4, <2>5 DEF pair
<1>4. CASE List!Positions(k) = {} /\ size = Len(data)
  <2> DEFINE z == [i \in 1 .. size - 1 |-> List!Cleared]
  <2>1. /\ data' = Append(data, pair) \o z /\ size' = size + 1
        /\ it' = IF it.shared
                 THEN [it EXCEPT !.shared = FALSE, !.held = data] ELSE it
    <3>1. ~(size < Len(data))
      BY <1>1, <1>4
    <3>2. data' = Append(data, pair) \o z /\ size' = size + 1
      BY <1>4, <3>1 DEF List!Insert, List!Appended
    <3>3. it' = IF it.shared
                THEN [it EXCEPT !.shared = FALSE, !.held = data] ELSE it
      BY <1>4 DEF List!Insert
    <3>4. QED
      BY <3>2, <3>3
  <2>2. z \in Seq(Pairs) /\ Len(z) \in Nat
    <3>1. \E n \in Nat : 1 .. size - 1 = 1 .. n
      <4>1. CASE size = 0
        <5>1. 1 .. size - 1 = 1 .. 0
          BY <4>1
        <5>2. QED
          BY <5>1
      <4>2. CASE size # 0
        <5>1. size - 1 \in Nat
          BY <1>1, <4>2
        <5>2. QED
          BY <5>1
      <4>3. QED
        BY <4>1, <4>2
    <3>2. PICK n \in Nat : z = [i \in 1 .. n |-> List!Cleared]
      BY <3>1
    <3>3. [i \in 1 .. n |-> List!Cleared] \in Seq(Pairs)
      BY ClearedIsPair
    <3> HIDE DEF z
    <3>4. QED
      BY <3>2, <3>3
  <2> HIDE DEF z, pair
  <2> DEFINE a == Append(data, pair)
  <2>3. /\ a \in Seq(Pairs) /\ Len(a) = size + 1 /\ a[size + 1] = pair
        /\ \A i \in 1 .. size : a[i] = data[i]
    BY <1>1, <1>4
  <2>4. data' = a \o z
    BY <2>1
  <2> HIDE DEF a
  <2>5. /\ data' \in Seq(Pairs) /\ Len(data') = size + 1 + Len(z)
        /\ \A i \in 1 .. size + 1 + Len(z) : i <= size + 1 => data'[i] = a[i]
    <3>1. /\ a \o z \in Seq(Pairs) /\ Len(a \o z) = Len(a) + Len(z)
          /\ \A i \in 1 .. Len(a) + Len(z) :
               (a \o z)[i] = IF i <= Len(a) THEN a[i] ELSE z[i - Len(a)]
      BY <2>2, <2>3, ConcatProperties
    <3>2. QED
      BY <2>3, <2>4, <3>1
  <2>6. size' \in 0 .. Len(data')
    BY <1>1, <2>1, <2>2, <2>5
  <2>7. data'[size + 1] = pair /\ \A i \in 1 .. size : data'[i] = data[i]
    BY <1>1, <2>2, <2>3, <2>5
  <2>8. QED
    BY <1>1, <2>1, <2>5, <2>6, <2>7 DEF pair
<1>5. QED
  BY <1>1, <1>2, <1>3, <1>4

(* A walk keeps to what was stored under an Insert.                         *)
LEMMA InsertKeeps ==
  ASSUME WalkInv, NEW k \in Keys, NEW v \in Values, List!Insert(k, v)
  PROVE  WalkInv'
<1> DEFINE pair == [key |-> k, val |-> v]
<1>1. /\ data' \in Seq(Pairs) /\ size' \in 0 .. Len(data')
      /\ \/ it' = it /\ ~it.shared
         \/ /\ it' = it /\ Len(data') = Len(data)
            /\ \A i \in 1 .. Len(data) : data'[i] = pair \/ data'[i] = data[i]
            /\ \A i \in 1 .. size' :
                 data'[i] = pair \/ (i <= size /\ data'[i] = data[i])
         \/ it.shared /\ it' = [it EXCEPT !.shared = FALSE, !.held = data]
  BY Inserted
<1>2. past' = IF it.walk = "closed" THEN past
              ELSE [past EXCEPT !.stored = @ \cup {pair}, !.writes = @ + 1]
  BY DEF List!Insert
<1>3. pair \in Pairs
  BY DEF Pairs
<1> HIDE DEF pair
<1>4. /\ past' \in Pasts /\ past'.found = past.found
      /\ past'.deletes = past.deletes /\ past.stored \subseteq past'.stored
      /\ it.walk = "closed" => past' = past
      /\ it.walk # "closed" => pair \in past'.stored
  <2>1. past \in Pasts /\ past.stored \subseteq Pairs /\ past.writes \in Nat
    BY TypesOfList
  <2>2. CASE it.walk = "closed"
    BY <1>2, <2>1, <2>2
  <2>3. CASE it.walk # "closed"
    <3>1. past' = [past EXCEPT !.stored = past.stored \cup {pair},
                               !.writes = past.writes + 1]
      BY <1>2, <2>3
    <3>2. past.stored \cup {pair} \in SUBSET Pairs /\ past.writes + 1 \in Nat
      BY <1>3, <2>1
    <3>3. /\ past' \in Pasts /\ past'.found = past.found
          /\ past'.deletes = past.deletes
          /\ past'.stored = past.stored \cup {pair}
      BY <2>1, <3>1, <3>2 DEF Pasts
    <3>4. QED
      BY <2>3, <3>3
  <2>4. QED
    BY <2>2, <2>3
<1>5. /\ it' \in Walks /\ it'.walk = it.walk /\ it'.len = it.len
      /\ it'.start = it.start /\ it'.end = it.end
  BY <1>1, TypesOfList DEF Walks
<1>6. \A p : Allowed(p) => Allowed(p)'
  BY <1>4 DEF Allowed
<1>7. it.len \in Nat /\ it.len <= Len(List!Walked) /\ size \in Nat
      /\ size <= Len(data)
  BY TypesOfList
<1>8. /\ it.len <= Len((List!Walked)')
      /\ \A i \in 1 .. it.len : \/ (List!Walked)'[i] = List!Walked[i]
                                \/ (List!Walked)'[i] = pair
  <2>1. CASE it' = it /\ ~it.shared
    BY <1>7, <2>1 DEF List!Walked
  <2>2. CASE /\ it' = it /\ it.shared /\ Len(data') = Len(data)
             /\ \A i \in 1 .. Len(data) : data'[i] = pair \/ data'[i] = data[i]
    <3>1. List!Walked = data /\ (List!Walked)' = data'
      BY <2>2 DEF List!Walked
    <3>2. QED
      BY <1>7, <2>2, <3>1
  <2>3. CASE it.shared /\ it' = [it EXCEPT !.shared = FALSE, !.held = data]
    <3>1. ~it'.shared /\ it'.held = data
      BY <2>3, TypesOfList DEF Walks
    <3>2. List!Walked = data /\ (List!Walked)' = data
      BY <2>3, <3>1 DEF List!Walked
    <3>3. QED
      BY <1>7, <3>2
  <2>4. QED
    BY <1>1, <2>1, <2>2, <2>3
<1>9. it'.walk # "closed" => \A i \in 1 .. it'.len : Allowed((List!Walked)[i])'
  <2>1. SUFFICES ASSUME it.walk # "closed", NEW i \in 1 .. it.len
                 PROVE  Allowed((List!Walked)[i])'
    BY <1>5
  <2>2. Allowed(List!Walked[i])
    BY <2>1 DEF WalkInv
  <2>3. QED
    BY <1>4, <1>8, <2>1, <2>2 DEF Allowed
<1>10. it'.walk # "closed" /\ it'.shared =>
         \A i \in 1 .. size' : data'[i] \in past'.stored
  <2>1. SUFFICES ASSUME it'.walk # "closed", it'.shared, NEW i \in 1 .. size'
                 PROVE  data'[i] \in past'.stored
    OBVIOUS
  <2>2. it' = it /\ (data'[i] = pair \/ (i <= size /\ data'[i] = data[i]))
    BY <1>1, <2>1, TypesOfList DEF Walks
  <2>3. i <= size => data[i] \in past.stored
    BY <1>1, <1>7, <2>1, <2>2 DEF WalkInv
  <2>4. QED
    BY <1>4, <2>1, <2>2, <2>3
<1>11. (\A i \in 1 .. Len(past.found) :
          List!Within(past.found[i]) /\ Allowed(past.found[i]))'
  <2>1. \A i \in 1 .. Len(past.found) :
          List!Within(past.found[i]) /\ Allowed(past.found[i])
    BY DEF WalkInv
  <2>2. \A p : List!Within(p) => List!Within(p)'
    BY <1>5 DEF List!Within
  <2>3. QED
    BY <1>4, <1>6, <2>1, <2>2
<1>12. it'.walk = "closed" => it' = List!NoWalk /\ past' = List!NoPast
  <2>1. SUFFICES ASSUME it.walk = "closed"
                 PROVE  it' = List!NoWalk /\ past' = List!NoPast
    BY <1>5
  <2>2. it = List!NoWalk /\ past = List!NoPast
    BY <2>1 DEF WalkInv
  <2>3. ~it.shared
    BY <2>2 DEF List!NoWalk
  <2>4. QED
    BY <1>1, <1>4, <2>1, <2>2, <2>3
<1>13. ListTypeOK'
  BY <1>1, <1>4, <1>5 DEF ListTypeOK
<1>14. QED
  BY <1>5, <1>8, <1>9, <1>10, <1>11, <1>12, <1>13 DEF WalkInv

(* A walk keeps to what was stored under a Delete.                          *)
LEMMA DeleteKeeps ==
  ASSUME WalkInv, NEW k \in Keys, List!DeletePresent(k)
  PROVE  WalkInv'
<1> DEFINE f == List!Foremost(List!Positions(k))
<1>1. /\ data' = List!MovedUp(f) /\ size' = size - 1 /\ it' = it
      /\ past' = IF it.walk = "closed" THEN past
                 ELSE [past EXCEPT !.kept = @ \ {k}, !.deletes = @ + 1,
                                   !.writes = @ + 1]
      /\ List!Positions(k) # {}
  BY DEF List!DeletePresent
<1>2. f \in 1 .. size
  BY <1>1, FoundPosition DEF WalkInv
<1> HIDE DEF f
<1>3. /\ data' \in Seq(Pairs) /\ Len(data') = Len(data)
      /\ \A j \in 1 .. size - 1 : \E l \in 1 .. size : data'[j] = data[l]
      /\ data'[size] = List!Cleared
      /\ \A j \in size + 1 .. Len(data) : data'[j] = data[j]
  BY <1>1, <1>2, MovedUpElements DEF WalkInv
<1>4. /\ past' \in Pasts /\ past'.found = past.found
      /\ past'.stored = past.stored /\ past'.deletes >= past.deletes
      /\ it.walk = "closed" => past' = past
      /\ it.walk # "closed" => past'.deletes > 0
  <2>1. past \in Pasts /\ past.deletes \in Nat /\ past.writes \in Nat
        /\ past.kept \in SUBSET (Keys \cup {0})
    BY TypesOfList DEF Pasts
  <2>2. CASE it.walk = "closed"
    BY <1>1, <2>1, <2>2
  <2>3. CASE it.walk # "closed"
    <3>1. past' = [past EXCEPT !.kept = past.kept \ {k},
                               !.deletes = past.deletes + 1,
                               !.writes = past.writes + 1]
      BY <1>1, <2>3
    <3>2. /\ past.kept \ {k} \in SUBSET (Keys \cup {0})
          /\ past.deletes + 1 \in Nat /\ past.writes + 1 \in Nat
      BY <2>1
    <3>3. /\ past' \in Pasts /\ past'.found = past.found
          /\ past'.stored = past.stored /\ past'.deletes = past.deletes + 1
      BY <2>1, <3>1, <3>2 DEF Pasts
    <3>4. QED
      BY <2>1, <2>3, <3>3
  <2>4. QED
    BY <2>2, <2>3
<1>5. /\ past.deletes \in Nat /\ past'.deletes \in Nat /\ it.len \in Nat
      /\ it.len <= Len(List!Walked) /\ it \in Walks
      /\ size \in Nat /\ size >= 1 /\ size <= Len(data) /\ Len(data) \in Nat
  BY <1>2, <1>4, TypesOfList DEF Pasts
<1>6. \A p : Allowed(p) => Allowed(p)'
  BY <1>4, <1>5 DEF Allowed
<1>7. it.len <= Len((List!Walked)')
  BY <1>1, <1>3, <1>5 DEF List!Walked
<1>8. ASSUME it.walk # "closed"
      PROVE  (\A i \in 1 .. it.len : Allowed(List!Walked[i]))'
  <2>1. \A i \in 1 .. it.len : Allowed(List!Walked[i])
    BY <1>8 DEF WalkInv
  <2>2. CASE ~it.shared
    <3>1. (List!Walked)' = List!Walked
      BY <1>1, <2>2 DEF List!Walked
    <3>2. QED
      BY <1>1, <1>6, <2>1, <3>1
  <2>3. CASE it.shared
    <3>1. List!Walked = data /\ (List!Walked)' = data'
      BY <1>1, <2>3 DEF List!Walked
    <3>2. \A i \in 1 .. size : data[i] \in past.stored
      BY <1>8, <2>3 DEF WalkInv
    <3>3. ASSUME NEW i \in 1 .. it.len
          PROVE  data'[i] \in past'.stored
                 \/ (data'[i] = List!Cleared /\ past'.deletes > 0)
      <4>1. CASE i < size
        <5>1. PICK l \in 1 .. size : data'[i] = data[l]
          BY <1>3, <1>5, <4>1
        <5>2. QED
          BY <1>4, <3>2, <5>1
      <4>2. CASE i = size
        BY <1>3, <1>4, <1>8, <4>2
      <4>3. CASE i > size
        <5>1. data'[i] = data[i]
          BY <1>3, <1>5, <3>1, <4>3
        <5>2. Allowed(data[i])
          BY <2>1, <3>1
        <5>3. QED
          BY <1>4, <1>8, <5>1, <5>2 DEF Allowed
      <4>4. QED
        BY <1>5, <4>1, <4>2, <4>3
    <3>4. QED
      BY <1>1, <3>1, <3>3 DEF Allowed
  <2>4. QED
    BY <1>5, <2>2, <2>3
<1>9. it'.walk # "closed" /\ it'.shared =>
        \A i \in 1 .. size' : data'[i] \in past'.stored
  <2>1. SUFFICES ASSUME it.walk # "closed", it.shared, NEW i \in 1 .. size - 1
                 PROVE  data'[i] \in past'.stored
    BY <1>1
  <2>2. PICK l \in 1 .. size : data'[i] = data[l]
    BY <1>3
  <2>3. QED
    BY <1>4, <2>1, <2>2 DEF WalkInv
<1>10. (\A i \in 1 .. Len(past.found) :
          List!Within(past.found[i]) /\ Allowed(past.found[i]))'
  <2>1. \A i \in 1 .. Len(past.found) :
          List!Within(past.found[i]) /\ Allowed(past.found[i])
    BY DEF WalkInv
  <2>2. \A p : List!Within(p) => List!Within(p)'
    BY <1>1 DEF List!Within
  <2>3. QED
    BY <1>4, <1>6, <2>1, <2>2
<1>11. it'.walk = "closed" => it' = List!NoWalk /\ past' = List!NoPast
  BY <1>1, <1>4 DEF WalkInv
<1>12. ListTypeOK'
  BY <1>1, <1>3, <1>4, <1>5 DEF ListTypeOK
<1>13. QED
  BY <1>1, <1>7, <1>8, <1>9, <1>10, <1>11, <1>12 DEF WalkInv

(* The steps of the walk.                                                   *)
LEMMA RangeKeeps ==
  ASSUME WalkInv, NEW s \in Keys, NEW e \in Keys, List!OpenRange(s, e)
  PROVE  WalkInv'
<1>1. /\ it' = [List!NoWalk EXCEPT !.walk = "open", !.shared = TRUE,
                                   !.len = size, !.start = s, !.end = e]
      /\ past' = [List!NoPast EXCEPT
                    !.stored = List!Stored,
                    !.kept = {p.key : p \in List!Stored} \cap (s .. e)]
      /\ UNCHANGED <<data, size>>
  BY DEF List!OpenRange
<1>2. /\ data \in Seq(Pairs) /\ size \in Nat /\ size <= Len(data)
      /\ Len(data) \in Nat /\ size \in 0 .. Len(data)
  BY TypesOfList DEF WalkInv, ListTypeOK
<1>3. List!Stored \subseteq Pairs
      /\ \A i \in 1 .. size : data[i] \in List!Stored
  BY <1>2 DEF List!Stored
<1>4. /\ it' \in Walks /\ it'.walk = "open" /\ it'.shared /\ it'.len = size
  <2>1. it' = [walk |-> "open", shared |-> TRUE, held |-> << >>, len |-> size,
               cur |-> 0, start |-> s, end |-> e]
    BY <1>1 DEF List!NoWalk
  <2>2. << >> \in Seq(Pairs) /\ 0 \in Nat
    OBVIOUS
  <2>3. QED
    BY <1>2, <2>1, <2>2 DEF Walks
<1>5. {p.key : p \in List!Stored} \cap (s .. e) \in SUBSET (Keys \cup {0})
  BY <1>3 DEF Pairs
<1>6. /\ past' \in Pasts /\ past'.found = << >> /\ past'.stored = List!Stored
  <2> DEFINE kept == {p.key : p \in List!Stored} \cap (s .. e)
  <2>1. past' = [found |-> << >>, stored |-> List!Stored, kept |-> kept,
                 deletes |-> 0, writes |-> 0]
    BY <1>1 DEF List!NoPast
  <2>2. << >> \in Seq(Pairs) /\ 0 \in Nat /\ kept \in SUBSET (Keys \cup {0})
    BY <1>5
  <2> HIDE DEF kept
  <2>3. QED
    BY <1>3, <2>1, <2>2 DEF Pasts
<1>7. (List!Walked)' = data
  BY <1>1, <1>4 DEF List!Walked
<1>8. (\A i \in 1 .. it.len : Allowed(List!Walked[i]))'
  BY <1>3, <1>4, <1>6, <1>7 DEF Allowed
<1>9. (\A i \in 1 .. size : data[i] \in past.stored)'
  BY <1>1, <1>3, <1>6
<1>10. (\A i \in 1 .. Len(past.found) :
          List!Within(past.found[i]) /\ Allowed(past.found[i]))'
  BY <1>6
<1>11. ListTypeOK'
  BY <1>1, <1>2, <1>4, <1>6 DEF ListTypeOK
<1>12. QED
  BY <1>2, <1>4, <1>7, <1>8, <1>9, <1>10, <1>11 DEF WalkInv

(* A Next that finds a pair.                                                *)
LEMMA NextKeeps ==
  ASSUME WalkInv, List!NextFound
  PROVE  WalkInv'
<1> DEFINE i == List!Foremost(List!Ahead)
           p == List!Walked[i]
<1>1. /\ it.walk = "open" /\ List!Ahead # {} /\ it' = [it EXCEPT !.cur = i]
      /\ past' = [past EXCEPT !.found = Append(@, p)]
      /\ UNCHANGED <<data, size>>
  BY DEF List!NextFound
<1>2. it.cur \in Nat /\ it.len \in Nat /\ it \in Walks /\ past \in Pasts
      /\ it.len <= Len(List!Walked) /\ List!Walked \in Seq(Pairs)
      /\ past.found \in Seq(Pairs)
  BY TypesOfList
<1>3. i \in it.cur + 1 .. it.len /\ List!Within(p)
  <2>1. List!Ahead \subseteq Nat
    BY <1>2 DEF List!Ahead
  <2>2. i \in List!Ahead
    BY <1>1, <2>1, ForemostIn
  <2> HIDE DEF i
  <2>3. QED
    BY <2>2 DEF List!Ahead
<1> HIDE DEF i
<1>4. i \in 1 .. it.len /\ i \in Nat /\ i \in 1 .. Len(List!Walked)
  BY <1>2, <1>3
<1>5. p \in Pairs /\ Allowed(p)
  BY <1>1, <1>2, <1>4 DEF WalkInv
<1> HIDE DEF p
<1>6. /\ it' \in Walks /\ UNCHANGED <<it.walk, it.len, it.start, it.end>>
      /\ UNCHANGED <<it.shared, it.held>>
  BY <1>1, <1>2, <1>4 DEF Walks
<1>7. /\ past' \in Pasts /\ past'.found = Append(past.found, p)
      /\ UNCHANGED <<past.stored, past.deletes>>
  <2>1. past' = [past EXCEPT !.found = Append(past.found, p)]
    BY <1>1
  <2>2. Append(past.found, p) \in Seq(Pairs)
    BY <1>2, <1>5
  <2>3. QED
    BY <1>2, <2>1, <2>2 DEF Pasts
<1>8. /\ (List!Walked)' = List!Walked
      /\ \A q : (Allowed(q) => Allowed(q)') /\ (List!Within(q) => List!Within(q)')
  BY <1>1, <1>6, <1>7 DEF List!Walked, List!Within, Allowed
<1>9. (\A j \in 1 .. Len(past.found) :
         List!Within(past.found[j]) /\ Allowed(past.found[j]))'
  <2>1. \A j \in 1 .. Len(past.found) :
          List!Within(past.found[j]) /\ Allowed(past.found[j])
    BY DEF WalkInv
  <2>2. \A j \in 1 .. Len(past'.found) :
          past'.found[j] = p \/ (j \in 1 .. Len(past.found)
                                 /\ past'.found[j] = past.found[j])
    BY <1>2, <1>5, <1>7
  <2>3. QED
    BY <1>3, <1>5, <1>8, <2>1, <2>2
<1>10. ListTypeOK'
  BY <1>1, <1>6, <1>7 DEF ListTypeOK, WalkInv
<1>11. QED
  BY <1>1, <1>6, <1>7, <1>8, <1>9, <1>10 DEF WalkInv

(* A Next that finds none.                                                  *)
LEMMA DoneKeeps ==
  ASSUME WalkInv, List!NextDone
  PROVE  WalkInv'
<1>1. /\ it.walk = "open" /\ it' = [it EXCEPT !.walk = "done", !.cur = it.len]
      /\ UNCHANGED <<data, size, past>>
  BY DEF List!NextDone
<1>2. /\ it' \in Walks /\ it'.walk = "done"
      /\ UNCHANGED <<it.len, it.start, it.end, it.shared, it.held>>
  BY <1>1, TypesOfList DEF Walks
<1>3. /\ (List!Walked)' = List!Walked
      /\ \A q : (Allowed(q) => Allowed(q)') /\ (List!Within(q) => List!Within(q)')
  BY <1>1, <1>2 DEF List!Walked, List!Within, Allowed
<1>4. QED
  BY <1>1, <1>2, <1>3 DEF WalkInv, ListTypeOK

(* No walk is open at first, and after Close.                               *)
LEMMA ClosedWalk ==
  ASSUME data \in Seq(Pairs), size \in 0 .. Len(data),
         it = List!NoWalk, past = List!NoPast
  PROVE  WalkInv
<1>1. /\ it \in Walks /\ it.walk = "closed" /\ it.len = 0 /\ ~it.shared
      /\ it.held = << >>
  BY DEF List!NoWalk, Walks
<1>2. past \in Pasts /\ past.found = << >>
  BY DEF List!NoPast, Pasts
<1>3. List!Walked = << >>
  BY <1>1 DEF List!Walked
<1>4. QED
  BY <1>1, <1>2, <1>3 DEF WalkInv, ListTypeOK
-----------------------------------------------------------------------------
(* The invariant of a walk holds whatever the caller does.                  *)
LEMMA WalkInvHolds ==
  /\ TwoInit => WalkInv
  /\ WalkInv /\ [TwoNext]_<<vars, listVars>> => WalkInv'
<1>1. TwoInit => WalkInv
  <2>1. SUFFICES ASSUME TwoInit PROVE WalkInv
    OBVIOUS
  <2>2. data = << >> /\ size = 0 /\ it = List!NoWalk /\ past = List!NoPast
    BY <2>1 DEF TwoInit, List!Init
  <2>3. data \in Seq(Pairs) /\ size \in 0 .. Len(data)
    BY <2>2
  <2>4. QED
    BY <2>2, <2>3, ClosedWalk
<1>2. WalkInv /\ [TwoNext]_<<vars, listVars>> => WalkInv'
  <2>1. SUFFICES ASSUME WalkInv, [TwoNext]_<<vars, listVars>>
                 PROVE  WalkInv'
    OBVIOUS
  <2>2. CASE \E k \in Keys, v \in Values : Write(k, v)
    BY <2>1, <2>2, InsertKeeps DEF Write
  <2>3. CASE UNCHANGED listVars
    BY <2>1, <2>3
       DEF listVars, WalkInv, ListTypeOK, Allowed, List!Walked, List!Within
  <2>4. CASE \E k \in Keys : Drop(k)
    <3>1. PICK k \in Keys : List!DeletePresent(k) \/ List!DeleteAbsent(k)
      BY <2>4 DEF Drop, List!Delete
    <3>2. CASE List!DeletePresent(k)
      BY <2>1, <3>2, DeleteKeeps
    <3>3. CASE List!DeleteAbsent(k)
      BY <2>3, <3>3 DEF List!DeleteAbsent, listVars
    <3>4. QED
      BY <3>1, <3>2, <3>3
  <2>5. CASE WalkList
    <3>1. CASE \E s, e \in Keys : List!OpenRange(s, e)
      BY <2>1, <3>1, RangeKeeps
    <3>2. CASE List!NextFound
      BY <2>1, <3>2, NextKeeps
    <3>3. CASE List!NextDone
      BY <2>1, <3>3, DoneKeeps
    <3>4. CASE List!CloseRange
      <4>1. /\ it' = List!NoWalk /\ past' = List!NoPast /\ UNCHANGED <<data, size>>
        BY <3>4 DEF List!CloseRange
      <4>2. data' \in Seq(Pairs) /\ size' \in 0 .. Len(data')
        BY <2>1, <4>1 DEF WalkInv, ListTypeOK
      <4>3. /\ it' \in Walks /\ it'.walk = "closed" /\ it'.len = 0
            /\ ~it'.shared /\ it'.held = << >>
        BY <4>1 DEF List!NoWalk, Walks
      <4>4. past' \in Pasts /\ past'.found = << >>
        BY <4>1 DEF List!NoPast, Pasts
      <4>5. (List!Walked)' = << >>
        BY <4>3 DEF List!Walked
      <4>6. QED
        BY <4>1, <4>2, <4>3, <4>4, <4>5
           DEF WalkInv, ListTypeOK, List!NoWalk, List!NoPast
    <3>5. QED
      BY <2>5, <3>1, <3>2, <3>3, <3>4 DEF WalkList, List!Walk
  <2>6. QED
    BY <2>1, <2>2, <2>3, <2>4, <2>5 DEF TwoNext, ScanLSM
<1>3. QED
  BY <1>1, <1>2

(* iterator.Next of the list index, however pairs are overwritten, appended *)
(* and deleted under the walk: every pair it stops at is of the range, and  *)
(* was stored since Range or is a slot that a Delete has cleared.           *)
THEOREM WalksFindStored == TwoSpec => []ListWalksStored
<1>1. WalkInv => ListWalksStored
  <2>1. SUFFICES ASSUME WalkInv, NEW p \in ToSet(past.found)
                 PROVE  List!Within(p) /\ Allowed(p)
    BY DEF ListWalksStored, List!WalksStored, List!ToSet, ToSet, Allowed
  <2>2. PICK i \in 1 .. Len(past.found) : p = past.found[i]
    BY <2>1, TypesOfList DEF ToSet
  <2>3. QED
    BY <2>1, <2>2 DEF WalkInv
<1>2. QED
  BY <1>1, WalkInvHolds, PTL DEF TwoSpec
-----------------------------------------------------------------------------
(* The numbers Pebble orders keys by.                                       *)
Codes == 0 .. 2 ^ Bits - 1

(* Keys of int64 are encoded as different numbers.                          *)
LEMMA EncodeInjective ==
  ASSUME NEW k \in Keys
  PROVE  /\ Encode(k) \in Codes
         /\ \A l \in Keys : Encode(k) = Encode(l) => k = l
<1> DEFINE H == 2 ^ (Bits - 1)
           M == 2 ^ Bits
<1>1. /\ H \in Nat \ {0} /\ M = 2 * H /\ M \in Nat \ {0}
      /\ \A l \in Keys : l \in Int /\ -H <= l /\ l < H
  <2>1. H \in Nat \ {0} /\ M = 2 * H
    BY PowersAssumption
  <2>2. Keys \subseteq -H .. H - 1
    BY LSMAssumption DEF Int64
  <2> HIDE DEF H, M
  <2>3. QED
    BY <2>1, <2>2
<1>2. \A l : Encode(l) = l % M
  BY DEF Encode
<1> HIDE DEF H, M
<1>3. Encode(k) \in 0 .. M - 1
  BY <1>1, <1>2
<1>4. ASSUME NEW l \in Keys, Encode(k) = Encode(l)
      PROVE  k = l
  <2>1. PICK p \in Int, r \in 0 .. M - 1 : k = M * p + r /\ k % M = r
    <3>1. k \in Int /\ M \in Nat \ {0}
      BY <1>1
    <3>2. k \div M \in Int /\ k % M \in 0 .. M - 1 /\ k = M * (k \div M) + (k % M)
      BY <3>1
    <3>3. QED
      BY <3>2
  <2>2. PICK q \in Int, s \in 0 .. M - 1 : l = M * q + s /\ l % M = s
    <3>1. l \in Int /\ M \in Nat \ {0}
      BY <1>1
    <3>2. l \div M \in Int /\ l % M \in 0 .. M - 1 /\ l = M * (l \div M) + (l % M)
      BY <3>1
    <3>3. QED
      BY <3>2
  <2>3. r = s
    BY <1>2, <1>4, <2>1, <2>2
  <2>4. k - l = (p - q) * M
    BY <1>1, <2>1, <2>2, <2>3
  <2>5. -M < k - l /\ k - l < M
    BY <1>1
  <2>6. p - q = 0
    BY <1>1, <2>4, <2>5, SmallMultiple
  <2>7. QED
    BY <1>1, <2>1, <2>2, <2>3, <2>6
<1>5. QED
  BY <1>3, <1>4 DEF Codes, M

(* Both indexes hold the same pairs, the list each key once.                *)
AnswersInv ==
  /\ data \in Seq(Pairs) /\ size \in 0 .. Len(data)
  /\ db \in [Codes -> Values \cup {Nil}]
  /\ \A i \in 1 .. size : /\ data[i].key \in Keys
                          /\ data[i].val # Nil
                          /\ Fetched(data[i].key) = data[i].val
  /\ \A i, j \in 1 .. size : data[i].key = data[j].key => i = j
  /\ \A k \in Keys : Fetched(k) # Nil => \E i \in 1 .. size : data[i].key = k

(* What Set and Delete of Pebble leave in the other slots.                  *)
LEMMA DbUpdated ==
  ASSUME db \in [Codes -> Values \cup {Nil}], NEW k \in Keys,
         NEW v \in Values \cup {Nil}, db' = [db EXCEPT ![Encode(k)] = v]
  PROVE  /\ db' \in [Codes -> Values \cup {Nil}]
         /\ \A l \in Keys : Fetched(l)' = IF l = k THEN v ELSE Fetched(l)
<1>1. Encode(k) \in Codes /\ \A l \in Keys : Encode(l) \in Codes
  BY EncodeInjective
<1>2. \A l \in Keys : l # k => Encode(l) # Encode(k)
  BY EncodeInjective
<1>3. \A l : Fetched(l)' = db'[Encode(l)]
  BY DEF Fetched, Encode
<1>4. QED
  BY <1>1, <1>2, <1>3 DEF Fetched

(* The pairs being the same, the answers are the same, but for the error.   *)
LEMMA AnswersAlike ==
  ASSUME AnswersInv
  PROVE  SameUnlessAbsent
<1>1. SUFFICES ASSUME NEW k \in Keys
               PROVE  /\ List!Get(k).val = Get(k).val
                      /\ List!Get(k) = Get(k) <=> Get(k).val # Nil
                      /\ Cardinality(List!Positions(k)) <= 1
  BY DEF SameUnlessAbsent
<1>2. /\ size \in Nat
      /\ \A i \in 1 .. size : /\ data[i].val # Nil
                              /\ Fetched(data[i].key) = data[i].val
      /\ \A i, j \in 1 .. size : data[i].key = data[j].key => i = j
      /\ Fetched(k) # Nil => \E i \in 1 .. size : data[i].key = k
      /\ Get(k) = [val |-> Fetched(k), err |-> FALSE]
  BY DEF AnswersInv, Get
<1>3. CASE List!Positions(k) = {}
  <2>1. Fetched(k) = Nil /\ List!Get(k) = [val |-> Nil, err |-> TRUE]
    BY <1>2, <1>3 DEF List!Positions, List!Get
  <2>2. Cardinality({}) = 0
    BY FS_EmptySet
  <2>3. QED
    BY <1>2, <1>3, <2>1, <2>2
<1>4. CASE List!Positions(k) # {}
  <2> DEFINE f == List!Foremost(List!Positions(k))
  <2>1. f \in 1 .. size /\ data[f].key = k
    <3>1. List!Positions(k) \subseteq Nat
      BY <1>2 DEF List!Positions
    <3>2. f \in List!Positions(k)
      BY <1>4, <3>1, ForemostIn
    <3>3. QED
      BY <3>2 DEF List!Positions
  <2>2. List!Get(k) = [val |-> data[f].val, err |-> FALSE]
    BY <1>4 DEF List!Get
  <2> HIDE DEF f
  <2>3. List!Positions(k) = {f}
    BY <1>2, <2>1 DEF List!Positions
  <2>4. Cardinality({f}) = 1
    BY FS_Singleton
  <2>5. Fetched(k) = data[f].val /\ data[f].val # Nil
    BY <1>2, <2>1
  <2> DEFINE held == data[f].val
             kept == Fetched(k)
  <2>6. /\ List!Get(k) = [val |-> held, err |-> FALSE] /\ kept = held /\ held # Nil
        /\ Get(k) = [val |-> kept, err |-> FALSE]
    BY <1>2, <2>2, <2>5
  <2> HIDE DEF held, kept
  <2>7. List!Get(k) = Get(k) /\ Get(k).val # Nil
    BY <2>6
  <2>8. QED
    BY <2>3, <2>4, <2>7
<1>5. QED
  BY <1>3, <1>4

(* Insert writes the pair in one slot of the list, a new one when the key   *)
(* has none, and under the same key in Pebble.                              *)
LEMMA WriteAlike ==
  ASSUME AnswersInv, WalkInv, NEW k \in Keys, NEW v \in Values, Write(k, v)
  PROVE  AnswersInv'
<1> DEFINE pair == [key |-> k, val |-> v]
<1>1. /\ data \in Seq(Pairs) /\ size \in Nat /\ size <= Len(data)
      /\ Len(data) \in Nat /\ db \in [Codes -> Values \cup {Nil}]
      /\ \A i \in 1 .. size :
           /\ data[i].key \in Keys /\ data[i].val # Nil
           /\ Fetched(data[i].key) = data[i].val
      /\ \A i, j \in 1 .. size : data[i].key = data[j].key => i = j
      /\ \A l \in Keys : Fetched(l) # Nil => \E i \in 1 .. size : data[i].key = l
  BY DEF AnswersInv
<1>2. data' \in Seq(Pairs) /\ size' \in 0 .. Len(data')
  BY Inserted DEF Write
<1>3. /\ db' \in [Codes -> Values \cup {Nil}]
      /\ \A l \in Keys : Fetched(l)' = IF l = k THEN v ELSE Fetched(l)
  BY <1>1, DbUpdated DEF Write, Insert
<1>4. pair \in Pairs /\ pair.key = k /\ pair.val = v /\ pair.val # Nil
  BY LSMAssumption DEF Pairs
<1>5. CASE List!Positions(k) # {}
  <2> DEFINE f == List!Foremost(List!Positions(k))
  <2>1. f \in 1 .. size /\ data[f].key = k
    BY <1>5, FoundPosition DEF WalkInv
  <2>2. data' = [data EXCEPT ![f].val = v] /\ size' = size
    BY <1>5 DEF Write, List!Insert
  <2> HIDE DEF f
  <2>3. f \in 1 .. Len(data) /\ data[f] \in Pairs
    BY <1>1, <2>1
  <2>4. [data[f] EXCEPT !.val = v] = pair
    BY <2>1, <2>3 DEF Pairs
  <2>5. data' = [data EXCEPT ![f] = pair]
    BY <2>2, <2>4
  <2> HIDE DEF pair
  <2>6. \A i \in 1 .. size : data'[i] = IF i = f THEN pair ELSE data[i]
    BY <1>1, <1>4, <2>3, <2>5, ExceptSeq
  <2>7. \A i \in 1 .. size : data'[i].key = data[i].key
    BY <1>4, <2>1, <2>6
  <2>8. \A i \in 1 .. size : (data[i].key = k <=> i = f)
    BY <1>1, <2>1
  <2>9. \A i \in 1 .. size : (Fetched(data[i].key) = data[i].val)'
    <3>1. TAKE i \in 1 .. size
    <3>2. data[i].key \in Keys
      BY <1>1
    <3>3. Fetched(data[i].key)' = IF data[i].key = k THEN v ELSE Fetched(data[i].key)
      <4>1. \A l \in Keys : Fetched(l)' = IF l = k THEN v ELSE Fetched(l)
        BY <1>3
      <4>2. data'[i].key = data[i].key
        BY <2>7
      <4>3. QED
        BY <3>2, <4>1, <4>2 DEF Fetched, Encode
    <3>4. QED
      BY <1>1, <1>4, <2>6, <2>8, <3>3
  <2>10. \A i \in 1 .. size : data'[i].val # Nil
    BY <1>1, <1>4, <2>6
  <2>11. QED
    BY <1>1, <1>2, <1>3, <2>1, <2>2, <2>7, <2>9, <2>10 DEF AnswersInv
<1>6. CASE List!Positions(k) = {}
  <2> HIDE DEF pair
  <2>1. /\ size' = size + 1 /\ data'[size + 1] = pair
        /\ \A i \in 1 .. size : data'[i] = data[i]
    BY <1>6, Inserted DEF Write, pair
  <2>2. \A i \in 1 .. size : data[i].key # k
    BY <1>6 DEF List!Positions
  <2>3. \A i \in 1 .. size' : \/ i = size + 1 /\ data'[i] = pair
                              \/ i \in 1 .. size /\ data'[i] = data[i]
    BY <1>1, <2>1
  <2>4. \A i \in 1 .. size' :
          (/\ data[i].key \in Keys /\ data[i].val # Nil
           /\ Fetched(data[i].key) = data[i].val)'
    <3>1. SUFFICES ASSUME NEW i \in 1 .. size', NEW p, p = data'[i]
                   PROVE  p.key \in Keys /\ p.val # Nil /\ Fetched(p.key)' = p.val
      BY DEF Fetched, Encode
    <3>2. CASE p = pair
      BY <1>3, <1>4, <3>2
    <3>3. CASE i \in 1 .. size /\ p = data[i]
      BY <1>1, <1>3, <2>2, <3>3
    <3>4. QED
      BY <2>3, <3>1, <3>2, <3>3
  <2>5. \A i, j \in 1 .. size' : data'[i].key = data'[j].key => i = j
    BY <1>1, <1>4, <2>2, <2>3
  <2>6. \A l \in Keys : Fetched(l)' # Nil => \E i \in 1 .. size' : data'[i].key = l
    <3>1. SUFFICES ASSUME NEW l \in Keys, Fetched(l)' # Nil
                   PROVE  \E i \in 1 .. size' : data'[i].key = l
      OBVIOUS
    <3>2. CASE l = k
      BY <1>1, <1>4, <2>1, <3>2
    <3>3. CASE l # k
      <4>1. PICK i \in 1 .. size : data[i].key = l
        BY <1>1, <1>3, <3>1, <3>3
      <4>2. i \in 1 .. size' /\ data'[i].key = l
        BY <1>1, <2>1, <4>1
      <4>3. QED
        BY <4>2
    <3>4. QED
      BY <3>2, <3>3
  <2>7. QED
    BY <1>2, <1>3, <2>4, <2>5, <2>6 DEF AnswersInv
<1>7. QED
  BY <1>5, <1>6

(* Delete takes the pair of the key out of both, and moves the pairs behind *)
(* it in the list.                                                          *)
LEMMA DropAlike ==
  ASSUME AnswersInv, WalkInv, NEW k \in Keys, Drop(k)
  PROVE  AnswersInv'
<1>1. /\ data \in Seq(Pairs) /\ size \in Nat /\ size <= Len(data)
      /\ Len(data) \in Nat /\ db \in [Codes -> Values \cup {Nil}]
      /\ \A i \in 1 .. size :
           /\ data[i].key \in Keys /\ data[i].val # Nil
           /\ Fetched(data[i].key) = data[i].val
      /\ \A i, j \in 1 .. size : data[i].key = data[j].key => i = j
      /\ \A l \in Keys : Fetched(l) # Nil => \E i \in 1 .. size : data[i].key = l
  BY DEF AnswersInv
<1>2. /\ db' \in [Codes -> Values \cup {Nil}]
      /\ \A l \in Keys : Fetched(l)' = IF l = k THEN Nil ELSE Fetched(l)
  BY <1>1, DbUpdated DEF Drop, Delete
<1>3. CASE List!DeleteAbsent(k)
  <2>1. List!Positions(k) = {} /\ UNCHANGED <<data, size>>
    BY <1>3 DEF List!DeleteAbsent
  <2>2. Fetched(k) = Nil /\ \A i \in 1 .. size : data[i].key # k
    BY <1>1, <2>1 DEF List!Positions
  <2>3. \A i \in 1 .. size : Fetched(data[i].key)' = data[i].val
    <3>1. SUFFICES ASSUME NEW i \in 1 .. size, NEW l, l = data[i].key
                   PROVE  Fetched(l)' = data[i].val
      BY <2>1 DEF Fetched, Encode
    <3>2. QED
      BY <1>1, <1>2, <2>2, <3>1
  <2>4. \A i \in 1 .. size' :
          (/\ data[i].key \in Keys /\ data[i].val # Nil
           /\ Fetched(data[i].key) = data[i].val)'
    BY <1>1, <2>1, <2>3
  <2>5. QED
    BY <1>1, <1>2, <2>1, <2>2, <2>4 DEF AnswersInv
<1>4. CASE List!DeletePresent(k)
  <2> DEFINE f == List!Foremost(List!Positions(k))
             back(i) == IF i < f THEN i ELSE i + 1
  <2>1. f \in 1 .. size /\ data[f].key = k
    BY <1>4, FoundPosition DEF WalkInv, List!DeletePresent
  <2>2. data' = List!MovedUp(f) /\ size' = size - 1
    BY <1>4 DEF List!DeletePresent
  <2> HIDE DEF f
  <2>3. /\ data' \in Seq(Pairs) /\ Len(data') = Len(data)
        /\ \A i \in 1 .. size - 1 :
             data'[i] = IF i < f THEN data[i] ELSE data[i + 1]
    BY <2>1, <2>2, MovedUpElements DEF WalkInv
  <2>4. /\ \A i \in 1 .. size' : /\ back(i) \in 1 .. size /\ back(i) # f
                                 /\ data'[i] = data[back(i)]
        /\ \A i, j \in 1 .. size' : back(i) = back(j) => i = j
        /\ \A i \in 1 .. size : i # f => \E j \in 1 .. size' : back(j) = i
    <3>1. /\ f \in Nat /\ f <= size
      BY <2>1, <1>1
    <3>2. \A i \in 1 .. size : i # f => \E j \in 1 .. size' : back(j) = i
      <4>1. SUFFICES ASSUME NEW i \in 1 .. size, i # f
                     PROVE  \E j \in 1 .. size' : back(j) = i
        OBVIOUS
      <4>2. CASE i < f
        <5>1. i \in 1 .. size' /\ back(i) = i
          BY <1>1, <2>1, <2>2, <4>1, <4>2
        <5>2. QED
          BY <5>1
      <4>3. CASE i > f
        <5>1. i - 1 \in 1 .. size' /\ back(i - 1) = i
          BY <1>1, <2>1, <2>2, <4>1, <4>3
        <5>2. QED
          BY <5>1
      <4>4. QED
        BY <1>1, <2>1, <4>1, <4>2, <4>3
    <3>3. QED
      BY <1>1, <2>1, <2>2, <2>3, <3>2
  <2> HIDE DEF back
  <2>5. \A i \in 1 .. size' : data[back(i)].key # k
    BY <1>1, <2>1, <2>4
  <2>6. \A i \in 1 .. size' :
          (/\ data[i].key \in Keys /\ data[i].val # Nil
           /\ Fetched(data[i].key) = data[i].val)'
    <3>1. SUFFICES ASSUME NEW i \in 1 .. size', NEW p, p = data'[i]
                   PROVE  p.key \in Keys /\ p.val # Nil /\ Fetched(p.key)' = p.val
      BY DEF Fetched, Encode
    <3>2. p = data[back(i)] /\ back(i) \in 1 .. size
      BY <2>4, <3>1
    <3>3. QED
      BY <1>1, <1>2, <2>5, <3>2
  <2>7. \A i, j \in 1 .. size' : data'[i].key = data'[j].key => i = j
    BY <1>1, <2>4
  <2>8. \A l \in Keys : Fetched(l)' # Nil => \E i \in 1 .. size' : data'[i].key = l
    <3>1. SUFFICES ASSUME NEW l \in Keys, Fetched(l)' # Nil
                   PROVE  \E i \in 1 .. size' : data'[i].key = l
      OBVIOUS
    <3>2. PICK i \in 1 .. size : data[i].key = l
      BY <1>1, <1>2, <3>1
    <3>3. i # f
      BY <1>2, <2>1, <3>1, <3>2
    <3>4. PICK j \in 1 .. size' : back(j) = i
      BY <2>4, <3>3
    <3>5. QED
      BY <2>4, <3>2, <3>4
  <2>9. size' \in 0 .. Len(data')
    BY <1>1, <2>1, <2>2, <2>3
  <2>10. QED
    BY <1>2, <2>3, <2>6, <2>7, <2>8, <2>9 DEF AnswersInv
<1>5. QED
  BY <1>3, <1>4 DEF Drop, List!Delete

(* Nothing is stored at first.                                              *)
LEMMA EmptyAlike == TwoInit => AnswersInv
<1>1. SUFFICES ASSUME TwoInit PROVE AnswersInv
  OBVIOUS
<1>2. /\ data = << >> /\ size = 0
      /\ db = [u \in Codes |-> Nil]
  BY <1>1 DEF TwoInit, List!Init, Init, Codes
<1>3. \A k \in Keys : Fetched(k) = Nil
  BY <1>2, EncodeInjective DEF Fetched
<1>4. /\ data \in Seq(Pairs) /\ size \in 0 .. Len(data)
      /\ db \in [Codes -> Values \cup {Nil}] /\ 1 .. size = {}
  BY <1>2
<1>5. QED
  BY <1>3, <1>4 DEF AnswersInv

(* Both hold the same pairs whatever the caller does.                       *)
LEMMA AlikeHolds ==
  WalkInv /\ AnswersInv /\ [TwoNext]_<<vars, listVars>>
    => (WalkInv /\ AnswersInv)'
<1>1. SUFFICES ASSUME WalkInv, AnswersInv, [TwoNext]_<<vars, listVars>>
               PROVE  AnswersInv'
  BY WalkInvHolds
<1>2. CASE \E k \in Keys, v \in Values : Write(k, v)
  BY <1>1, <1>2, WriteAlike
<1>3. CASE \E k \in Keys : Drop(k)
  BY <1>1, <1>3, DropAlike
<1>4. CASE UNCHANGED <<data, size, db>>
  BY <1>1, <1>4 DEF AnswersInv, Fetched, Encode
<1>5. CASE ScanLSM
  BY <1>4, <1>5 DEF ScanLSM, OpenRange, Next, CloseRange, listVars
<1>6. CASE WalkList
  BY <1>4, <1>6 DEF WalkList, List!Walk, List!OpenRange, List!NextFound,
                    List!NextDone, List!CloseRange, vars
<1>7. QED
  BY <1>1, <1>2, <1>3, <1>4, <1>5, <1>6 DEF TwoNext, vars, listVars

(* Get of the LSM index and of the list index, whatever is inserted,        *)
(* overwritten and deleted, with walks of both open or not: both answer the *)
(* same value; the answers are the same, error included, exactly for the    *)
(* keys that are stored; and the list holds each key once.                  *)
THEOREM BothAnswerSameValue == TwoSpec => []SameUnlessAbsent
<1>1. TwoInit => WalkInv /\ AnswersInv
  BY WalkInvHolds, EmptyAlike
<1>2. WalkInv /\ AnswersInv /\ [TwoNext]_<<vars, listVars>>
        => (WalkInv /\ AnswersInv)'
  BY AlikeHolds
<1>3. QED
  BY <1>1, <1>2, AnswersAlike, PTL DEF TwoSpec
-----------------------------------------------------------------------------
(* What a walk over the list may miss.                                      *)

(* M holds the keys a Delete has moved past the iterator: every other key   *)
(* that was kept has been found, or is in a slot still to come; in the      *)
(* list's own array that is a slot of the list, not one a Delete has left.  *)
FewMissed(M) ==
  /\ IsFiniteSet(M) /\ Cardinality(M) <= past.deletes
  /\ \A k \in past.kept :
       \/ HasKey(past.found, k) \/ k \in M
       \/ \E i \in it.cur + 1 .. it.len :
            (it.shared => i <= size) /\ List!Walked[i].key = k

(* As long as nothing is deleted, the slots of the walk have keys of their  *)
(* own, and the pairs that were found are in different slots.               *)
NoneTwice ==
  /\ it.shared => it.len <= size
  /\ \A i, j \in 1 .. it.len :
       List!Walked[i].key = List!Walked[j].key => i = j
  /\ \A a \in DOMAIN past.found : \E i \in 1 .. it.len :
       i <= it.cur /\ List!Walked[i].key = past.found[a].key
  /\ \A a, b \in DOMAIN past.found :
       past.found[a].key = past.found[b].key => a = b

KeptInv ==
  it.walk # "closed" =>
    /\ past.kept \subseteq it.start .. it.end
    /\ it.walk = "done" => it.cur = it.len
    /\ \E M : FewMissed(M)
    /\ past.deletes = 0 => NoneTwice

(* The operators that module ListIndex takes from the libraries.            *)
LEMMA ListOperators ==
  ASSUME NEW S
  PROVE  /\ List!Cardinality(S) = Cardinality(S) /\ List!ToSet(S) = ToSet(S)
         /\ List!IsInjective(S) = IsInjective(S)
<1>1. List!Cardinality(S) = Cardinality(S)
  BY DEF List!Cardinality, Cardinality
<1>2. List!ToSet(S) = ToSet(S)
  BY DEF List!ToSet, ToSet
<1>3. List!IsInjective(S) = IsInjective(S)
  BY DEF List!IsInjective, IsInjective
<1>4. QED
  BY <1>1, <1>2, <1>3

(* Insert leaves the keys of the list in their slots.                       *)
LEMMA InsertKeepsKeys ==
  ASSUME WalkInv, NEW k \in Keys, NEW v \in Values, List!Insert(k, v)
  PROVE  /\ \A i \in 1 .. size : data'[i].key = data[i].key
         /\ size' \in Int /\ size <= size'
         /\ \/ it' = it
            \/ it.shared /\ it' = [it EXCEPT !.shared = FALSE, !.held = data]
<1>1. /\ data \in Seq(Pairs) /\ Len(data) \in Nat /\ size \in Nat
      /\ size <= Len(data)
  BY TypesOfList
<1>2. it' = it \/ (it.shared /\ it' = [it EXCEPT !.shared = FALSE, !.held = data])
  BY Inserted
<1>3. CASE List!Positions(k) = {}
  <2>1. size' = size + 1 /\ \A i \in 1 .. size : data'[i] = data[i]
    BY <1>3, Inserted
  <2>2. QED
    BY <1>1, <1>2, <2>1
<1>4. CASE List!Positions(k) # {}
  <2> DEFINE f == List!Foremost(List!Positions(k))
  <2>1. f \in 1 .. size /\ data[f].key = k
    BY <1>4, FoundPosition DEF WalkInv
  <2>2. data' = [data EXCEPT ![f].val = v] /\ size' = size
    BY <1>4 DEF List!Insert
  <2> HIDE DEF f
  <2>3. \A i \in 1 .. size : data'[i].key = data[i].key
    <3>1. TAKE i \in 1 .. size
    <3>2. i \in 1 .. Len(data) /\ data[i] \in Pairs /\ f \in 1 .. Len(data)
      BY <1>1, <2>1
    <3>3. data'[i] = IF i = f THEN [data[i] EXCEPT !.val = v] ELSE data[i]
      BY <1>1, <2>2, <3>2
    <3>4. [data[i] EXCEPT !.val = v].key = data[i].key
      BY <3>2 DEF Pairs
    <3>5. QED
      BY <3>3, <3>4
  <2>4. QED
    BY <1>1, <1>2, <2>2, <2>3
<1>5. QED
  BY <1>3, <1>4

(* An Insert moves no pair of the list.                                     *)
LEMMA InsertKept ==
  ASSUME WalkInv, KeptInv, NEW k \in Keys, NEW v \in Values, List!Insert(k, v)
  PROVE  KeptInv'
<1>1. /\ \A i \in 1 .. size : data'[i].key = data[i].key
      /\ size' \in Int /\ size <= size'
      /\ \/ it' = it
         \/ it.shared /\ it' = [it EXCEPT !.shared = FALSE, !.held = data]
  BY InsertKeepsKeys
<1>2. /\ size \in Nat /\ it \in Walks /\ past \in Pasts
      /\ it.len \in Nat /\ it.cur \in Nat
  BY TypesOfList
<1>3. /\ UNCHANGED <<it.walk, it.len, it.cur, it.start, it.end>>
      /\ it'.shared => it.shared
  BY <1>1, <1>2 DEF Walks
<1>4. SUFFICES ASSUME it.walk # "closed"
               PROVE  KeptInv'
  BY <1>3 DEF KeptInv
<1>5. UNCHANGED <<past.found, past.kept, past.deletes>>
  <2>1. past' = [past EXCEPT !.stored = @ \cup {[key |-> k, val |-> v]},
                             !.writes = @ + 1]
    BY <1>4 DEF List!Insert
  <2>2. QED
    BY <1>2, <2>1 DEF Pasts
<1>6. /\ ~it.shared => (List!Walked)' = List!Walked /\ ~it'.shared
      /\ it.shared => \A i \in 1 .. size : (List!Walked[i].key)' = List!Walked[i].key
  <2>1. CASE it' = it
    BY <1>1, <2>1 DEF List!Walked
  <2>2. CASE it.shared /\ it' = [it EXCEPT !.shared = FALSE, !.held = data]
    <3>1. ~it'.shared /\ it'.held = data
      BY <1>2, <2>2 DEF Walks
    <3>2. (List!Walked)' = List!Walked
      BY <2>2, <3>1 DEF List!Walked
    <3>3. QED
      BY <2>2, <3>2
  <2>3. QED
    BY <1>1, <2>1, <2>2
<1>7. ASSUME NEW i \in 1 .. it.len, it.shared => i <= size
      PROVE  (List!Walked[i].key)' = List!Walked[i].key
  <2>1. CASE it.shared
    BY <1>2, <1>6, <1>7, <2>1
  <2>2. CASE ~it.shared
    BY <1>6, <2>2
  <2>3. QED
    BY <2>1, <2>2
<1>8. PICK M : FewMissed(M)
  BY <1>4 DEF KeptInv
<1>9. FewMissed(M)'
  <2>1. IsFiniteSet(M) /\ Cardinality(M) <= past'.deletes
    BY <1>5, <1>8 DEF FewMissed
  <2>2. ASSUME NEW l \in past.kept, NEW i \in it.cur + 1 .. it.len,
               it.shared => i <= size, List!Walked[i].key = l
        PROVE  (it'.shared => i <= size') /\ (List!Walked[i].key)' = l
    BY <1>1, <1>2, <1>3, <1>7, <2>2
  <2>3. QED
    BY <1>3, <1>5, <1>8, <2>1, <2>2 DEF FewMissed
<1>10. ASSUME past.deletes = 0
       PROVE  NoneTwice'
  <2>1. NoneTwice
    BY <1>4, <1>10 DEF KeptInv
  <2>2. \A i \in 1 .. it.len : (List!Walked[i].key)' = List!Walked[i].key
    BY <1>2, <1>7, <2>1 DEF NoneTwice
  <2>3. it'.shared => it'.len <= size'
    BY <1>1, <1>2, <1>3, <2>1 DEF NoneTwice
  <2>4. QED
    BY <1>3, <1>5, <2>1, <2>2, <2>3 DEF NoneTwice
<1>11. past'.kept \subseteq it'.start .. it'.end
  BY <1>3, <1>4, <1>5 DEF KeptInv
<1>12. QED
  BY <1>3, <1>4, <1>5, <1>9, <1>10, <1>11 DEF KeptInv

(* A Delete before the iterator moves one pair past it, the one it would    *)
(* have come to next.                                                       *)
LEMMA DeleteKept ==
  ASSUME WalkInv, KeptInv, NEW k \in Keys, List!DeletePresent(k)
  PROVE  KeptInv'
<1> DEFINE f == List!Foremost(List!Positions(k))
<1>1. /\ size \in Nat /\ it \in Walks /\ past \in Pasts /\ past.deletes \in Nat
      /\ it.len \in Nat /\ it.cur \in Nat /\ it' = it
  BY TypesOfList DEF List!DeletePresent
<1>2. f \in 1 .. size /\ data[f].key = k
  BY FoundPosition DEF WalkInv, List!DeletePresent
<1>3. data' = List!MovedUp(f) /\ size' = size - 1
  BY DEF List!DeletePresent
<1> HIDE DEF f
<1>4. \A j \in 1 .. size - 1 : data'[j] = IF j < f THEN data[j] ELSE data[j + 1]
  BY <1>2, <1>3, MovedUpElements DEF WalkInv
<1>5. SUFFICES ASSUME it.walk # "closed"
               PROVE  KeptInv'
  BY <1>1 DEF KeptInv
<1>6. /\ past'.found = past.found /\ past'.kept = past.kept \ {k}
      /\ past'.deletes = past.deletes + 1
  <2>1. past' = [past EXCEPT !.kept = @ \ {k}, !.deletes = @ + 1,
                             !.writes = @ + 1]
    BY <1>5 DEF List!DeletePresent
  <2>2. QED
    BY <1>1, <2>1 DEF Pasts
<1>7. PICK M : FewMissed(M)
  BY <1>5 DEF KeptInv
<1> DEFINE x == data[it.cur + 1].key
           N == M \cup {x}
<1>8. IsFiniteSet(N) /\ Cardinality(N) <= past'.deletes
  <2>1. IsFiniteSet(M) /\ Cardinality(M) <= past.deletes /\ Cardinality(M) \in Nat
    BY <1>7, FS_CardinalityType DEF FewMissed
  <2>2. /\ IsFiniteSet(N)
        /\ Cardinality(N) = IF x \in M THEN Cardinality(M) ELSE Cardinality(M) + 1
    BY <2>1, FS_AddElement
  <2> HIDE DEF x, N
  <2>3. QED
    BY <1>1, <1>6, <2>1, <2>2
<1>9. ASSUME NEW l \in past'.kept, ~HasKey(past.found, l), l \notin N
      PROVE  \E i \in it.cur + 1 .. it.len :
               (it.shared => i <= size') /\ (List!Walked[i].key)' = l
  <2>1. l \in past.kept /\ l # k /\ l \notin M /\ l # x
    BY <1>6, <1>9
  <2>2. PICK i \in it.cur + 1 .. it.len :
          (it.shared => i <= size) /\ List!Walked[i].key = l
    BY <1>7, <1>9, <2>1 DEF FewMissed
  <2>3. CASE ~it.shared
    <3>1. (List!Walked)' = List!Walked
      BY <1>1, <2>3 DEF List!Walked
    <3>2. QED
      BY <2>2, <2>3, <3>1
  <2>4. CASE it.shared
    <3>1. /\ i \in 1 .. size /\ data[i].key = l /\ i # f /\ i # it.cur + 1
          /\ (List!Walked)' = data'
      BY <1>1, <1>2, <2>1, <2>2, <2>4 DEF List!Walked
    <3>2. CASE i < f
      <4>1. i \in 1 .. size - 1 /\ data'[i] = data[i]
        BY <1>1, <1>2, <1>4, <3>1, <3>2
      <4>2. QED
        BY <1>1, <1>3, <2>2, <3>1, <4>1
    <3>3. CASE i > f
      <4>1. i - 1 \in 1 .. size - 1 /\ data'[i - 1] = data[i]
        BY <1>1, <1>2, <1>4, <3>1, <3>3
      <4>2. i - 1 \in it.cur + 1 .. it.len /\ i - 1 <= size'
        BY <1>1, <1>3, <2>2, <3>1
      <4>3. QED
        BY <3>1, <4>1, <4>2
    <3>4. QED
      BY <1>1, <1>2, <3>1, <3>2, <3>3
  <2>5. QED
    BY <2>3, <2>4
<1> HIDE DEF x, N
<1>10. \E P : FewMissed(P)'
  <2>1. SUFFICES ASSUME NEW P, P = N PROVE FewMissed(P)'
    OBVIOUS
  <2>2. QED
    BY <1>1, <1>6, <1>8, <1>9, <2>1 DEF FewMissed
<1>11. past'.deletes # 0
  BY <1>1, <1>6
<1>12. past'.kept \subseteq it.start .. it.end
  BY <1>5, <1>6 DEF KeptInv
<1>13. it.walk = "done" => it.cur = it.len
  BY <1>5 DEF KeptInv
<1>14. QED
  BY <1>1, <1>10, <1>11, <1>12, <1>13 DEF KeptInv

(* At Range every pair of the range is still to come.                       *)
LEMMA RangeKept ==
  ASSUME WalkInv, AnswersInv, NEW s \in Keys, NEW e \in Keys,
         List!OpenRange(s, e)
  PROVE  KeptInv'
<1>1. /\ data \in Seq(Pairs) /\ size \in Nat /\ size <= Len(data)
      /\ \A i, j \in 1 .. size : data[i].key = data[j].key => i = j
  BY DEF AnswersInv
<1>2. /\ it' = [walk |-> "open", shared |-> TRUE, held |-> << >>, len |-> size,
                cur |-> 0, start |-> s, end |-> e]
      /\ data' = data /\ size' = size
  BY DEF List!OpenRange, List!NoWalk
<1> DEFINE kept == {p.key : p \in List!Stored} \cap (s .. e)
<1>3. past' = [found |-> << >>, stored |-> List!Stored, kept |-> kept,
               deletes |-> 0, writes |-> 0]
  BY DEF List!OpenRange, List!NoPast
<1>4. kept \subseteq s .. e /\ \A k \in kept : \E i \in 1 .. size : data[i].key = k
  BY DEF List!Stored
<1> HIDE DEF kept
<1>5. /\ past'.kept = kept /\ past'.deletes = 0 /\ DOMAIN past'.found = {}
  BY <1>3
<1>6. (List!Walked)' = data
  BY <1>2 DEF List!Walked
<1>7. IsFiniteSet({}) /\ Cardinality({}) = 0
  BY FS_EmptySet
<1>8. \A k \in kept : \E i \in 0 + 1 .. size :
        (TRUE => i <= size) /\ data[i].key = k
  BY <1>1, <1>4
<1>9. FewMissed({})'
  BY <1>2, <1>5, <1>6, <1>7, <1>8 DEF FewMissed
<1>10. NoneTwice'
  BY <1>1, <1>2, <1>5, <1>6 DEF NoneTwice
<1>11. QED
  BY <1>2, <1>4, <1>5, <1>9, <1>10 DEF KeptInv

(* Next passes over slots of other ranges only.                             *)
LEMMA NextKept ==
  ASSUME WalkInv, KeptInv, List!NextFound
  PROVE  KeptInv'
<1> DEFINE i == List!Foremost(List!Ahead)
           p == List!Walked[i]
<1>1. /\ it.walk = "open" /\ List!Ahead # {} /\ it' = [it EXCEPT !.cur = i]
      /\ past' = [past EXCEPT !.found = Append(@, p)]
      /\ UNCHANGED <<data, size>>
  BY DEF List!NextFound
<1>2. /\ it.cur \in Nat /\ it.len \in Nat /\ it \in Walks /\ past \in Pasts
      /\ past.found \in Seq(Pairs) /\ size \in Nat /\ past.deletes \in Nat
  BY TypesOfList
<1>3. i \in it.cur + 1 .. it.len /\ \A j \in List!Ahead : i <= j
  <2>1. List!Ahead \subseteq Nat
    BY <1>2 DEF List!Ahead
  <2>2. \E m \in List!Ahead : \A j \in List!Ahead : m <= j
    BY <1>1, <2>1, LeastNat
  <2>3. i \in List!Ahead /\ \A j \in List!Ahead : i <= j
    BY <2>2 DEF List!Foremost
  <2> HIDE DEF i
  <2>4. QED
    BY <2>3 DEF List!Ahead
<1> HIDE DEF i
<1>4. /\ UNCHANGED <<it.walk, it.len, it.start, it.end, it.shared, it.held>>
      /\ it'.cur = i
  BY <1>1, <1>2 DEF Walks
<1>5. /\ past'.found = Append(past.found, p)
      /\ UNCHANGED <<past.kept, past.deletes>>
  BY <1>1, <1>2 DEF Pasts
<1>6. (List!Walked)' = List!Walked
  BY <1>1, <1>4 DEF List!Walked
<1>7. /\ DOMAIN past.found = 1 .. Len(past.found) /\ Len(past.found) \in Nat
      /\ DOMAIN past'.found = 1 .. Len(past.found) + 1
      /\ past'.found[Len(past.found) + 1] = p
      /\ \A a \in DOMAIN past.found :
           a \in DOMAIN past'.found /\ past'.found[a] = past.found[a]
      /\ \A a \in DOMAIN past'.found :
           a \in DOMAIN past.found \/ a = Len(past.found) + 1
  BY <1>2, <1>5
<1>8. HasKey(past'.found, p.key)
      /\ \A k : HasKey(past.found, k) => HasKey(past'.found, k)
  BY <1>7 DEF HasKey
<1>9. PICK M : FewMissed(M)
  BY <1>1 DEF KeptInv
<1>10. past.kept \subseteq it.start .. it.end
  BY <1>1 DEF KeptInv
<1>11. ASSUME NEW k \in past.kept, ~HasKey(past'.found, k), k \notin M
       PROVE  \E j \in i + 1 .. it.len :
                (it.shared => j <= size) /\ List!Walked[j].key = k
  <2>1. PICK j \in it.cur + 1 .. it.len :
          (it.shared => j <= size) /\ List!Walked[j].key = k
    BY <1>8, <1>9, <1>11 DEF FewMissed
  <2>2. j \in List!Ahead
    BY <1>10, <2>1 DEF List!Ahead, List!Within
  <2>3. i <= j /\ i # j
    BY <1>3, <1>8, <1>11, <2>1, <2>2
  <2>4. j \in i + 1 .. it.len
    BY <1>2, <1>3, <2>1, <2>3
  <2>5. QED
    BY <2>1, <2>4
<1>12. FewMissed(M)'
  <2>1. IsFiniteSet(M) /\ Cardinality(M) <= past'.deletes
    BY <1>5, <1>9 DEF FewMissed
  <2>2. QED
    BY <1>1, <1>4, <1>5, <1>6, <1>11, <2>1 DEF FewMissed
<1>13. ASSUME past.deletes = 0
       PROVE  NoneTwice'
  <2>1. NoneTwice
    BY <1>1, <1>13 DEF KeptInv
  <2>2. i \in 1 .. it.len /\ i \in Nat /\ i > it.cur
    BY <1>2, <1>3
  <2>3. ASSUME NEW a \in DOMAIN past'.found
        PROVE  \E j \in 1 .. it.len :
                 /\ j <= i /\ List!Walked[j].key = past'.found[a].key
                 /\ a \notin DOMAIN past.found => j = i
                 /\ a \in DOMAIN past.found => j < i
    <3>1. CASE a \in DOMAIN past.found
      <4>1. PICK j \in 1 .. it.len :
              j <= it.cur /\ List!Walked[j].key = past.found[a].key
        BY <2>1, <3>1 DEF NoneTwice
      <4>2. j < i /\ j <= i
        BY <1>2, <2>2, <4>1
      <4>3. QED
        BY <1>7, <3>1, <4>1, <4>2
    <3>2. CASE a \notin DOMAIN past.found
      <4>1. past'.found[a] = p
        BY <1>7, <2>3, <3>2
      <4>2. i <= i
        BY <2>2
      <4>3. QED
        BY <2>2, <3>2, <4>1, <4>2
    <3>3. QED
      BY <3>1, <3>2
  <2>4. ASSUME NEW a \in DOMAIN past'.found, NEW b \in DOMAIN past'.found,
               past'.found[a].key = past'.found[b].key
        PROVE  a = b
    <3>1. PICK j \in 1 .. it.len :
            /\ j <= i /\ List!Walked[j].key = past'.found[a].key
            /\ a \notin DOMAIN past.found => j = i
            /\ a \in DOMAIN past.found => j < i
      BY <2>3
    <3>2. PICK l \in 1 .. it.len :
            /\ l <= i /\ List!Walked[l].key = past'.found[b].key
            /\ b \notin DOMAIN past.found => l = i
            /\ b \in DOMAIN past.found => l < i
      BY <2>3
    <3>3. j = l
      BY <2>1, <2>4, <3>1, <3>2 DEF NoneTwice
    <3>4. a \in DOMAIN past.found <=> b \in DOMAIN past.found
      BY <2>2, <3>1, <3>2, <3>3
    <3>5. CASE a \in DOMAIN past.found
      BY <1>7, <2>1, <2>4, <3>4, <3>5 DEF NoneTwice
    <3>6. CASE a \notin DOMAIN past.found
      BY <1>7, <2>4, <3>4, <3>6
    <3>7. QED
      BY <3>5, <3>6
  <2>5. QED
    BY <1>1, <1>4, <1>6, <2>1, <2>3, <2>4 DEF NoneTwice
<1>14. QED
  BY <1>1, <1>4, <1>5, <1>10, <1>12, <1>13 DEF KeptInv

(* Next ends the walk when no slot of the range is left.                    *)
LEMMA DoneKept ==
  ASSUME WalkInv, KeptInv, List!NextDone
  PROVE  KeptInv'
<1>1. /\ it.walk = "open" /\ it' = [it EXCEPT !.walk = "done", !.cur = it.len]
      /\ UNCHANGED <<data, size, past>> /\ List!Ahead = {}
  BY DEF List!NextDone
<1>2. /\ it'.walk = "done" /\ it'.cur = it.len
      /\ UNCHANGED <<it.len, it.start, it.end, it.shared, it.held>>
      /\ it.cur \in Nat /\ it.len \in Nat
  BY <1>1, TypesOfList DEF Walks
<1>3. (List!Walked)' = List!Walked
  BY <1>1, <1>2 DEF List!Walked
<1>4. past.kept \subseteq it.start .. it.end
  BY <1>1 DEF KeptInv
<1>5. PICK M : FewMissed(M)
  BY <1>1 DEF KeptInv
<1>6. \A k \in past.kept : HasKey(past.found, k) \/ k \in M
  <2>1. ASSUME NEW i \in it.cur + 1 .. it.len, List!Walked[i].key \in past.kept
        PROVE  i \in List!Ahead
    BY <1>4, <2>1 DEF List!Ahead, List!Within
  <2>2. QED
    BY <1>1, <1>5, <2>1 DEF FewMissed
<1>7. FewMissed(M)'
  BY <1>1, <1>5, <1>6 DEF FewMissed
<1>8. past.deletes = 0 => NoneTwice'
  <2>1. SUFFICES ASSUME past.deletes = 0 PROVE NoneTwice'
    OBVIOUS
  <2>2. NoneTwice
    BY <1>1, <2>1 DEF KeptInv
  <2>3. \A i \in 1 .. it.len : i <= it.len
    BY <1>2
  <2>4. QED
    BY <1>1, <1>2, <1>3, <2>2, <2>3 DEF NoneTwice
<1>9. QED
  BY <1>1, <1>2, <1>4, <1>7, <1>8 DEF KeptInv

(* A walk over the list to its end misses at most one pair that stayed for  *)
(* each key deleted under it, and finds none twice while none is deleted:   *)
(* whether or not the list's array has grown away from the iterator's.      *)
THEOREM WalksMissFew == TwoSpec => []ListWalksKept
<1>1. TwoInit => WalkInv /\ AnswersInv /\ KeptInv
  <2>1. TwoInit => KeptInv
    BY DEF TwoInit, List!Init, List!NoWalk, KeptInv
  <2>2. QED
    BY <2>1, WalkInvHolds, EmptyAlike
<1>2. WalkInv /\ AnswersInv /\ KeptInv /\ [TwoNext]_<<vars, listVars>>
        => (WalkInv /\ AnswersInv /\ KeptInv)'
  <2>1. SUFFICES ASSUME WalkInv, AnswersInv, KeptInv,
                        [TwoNext]_<<vars, listVars>>
                 PROVE  KeptInv'
    BY WalkInvHolds, AlikeHolds
  <2>2. CASE \E k \in Keys, v \in Values : Write(k, v)
    BY <2>1, <2>2, InsertKept DEF Write
  <2>3. CASE UNCHANGED listVars
    <3>1. UNCHANGED <<data, size, it, past>>
      BY <2>3 DEF listVars
    <3>2. \A M : FewMissed(M) => FewMissed(M)'
      BY <3>1 DEF FewMissed, List!Walked
    <3>3. NoneTwice => NoneTwice'
      BY <3>1 DEF NoneTwice, List!Walked
    <3>4. QED
      BY <2>1, <3>1, <3>2, <3>3 DEF KeptInv
  <2>4. CASE \E k \in Keys : Drop(k)
    <3>1. PICK k \in Keys : List!DeletePresent(k) \/ List!DeleteAbsent(k)
      BY <2>4 DEF Drop, List!Delete
    <3>2. CASE List!DeletePresent(k)
      BY <2>1, <3>2, DeleteKept
    <3>3. CASE List!DeleteAbsent(k)
      BY <2>3, <3>3 DEF List!DeleteAbsent, listVars
    <3>4. QED
      BY <3>1, <3>2, <3>3
  <2>5. CASE WalkList
    <3>1. CASE \E s, e \in Keys : List!OpenRange(s, e)
      BY <2>1, <3>1, RangeKept
    <3>2. CASE List!NextFound
      BY <2>1, <3>2, NextKept
    <3>3. CASE List!NextDone
      BY <2>1, <3>3, DoneKept
    <3>4. CASE List!CloseRange
      <4>1. it'.walk = "closed"
        BY <3>4 DEF List!CloseRange, List!NoWalk
      <4>2. QED
        BY <4>1 DEF KeptInv
    <3>5. QED
      BY <2>5, <3>1, <3>2, <3>3, <3>4 DEF WalkList, List!Walk
  <2>6. QED
    BY <2>1, <2>2, <2>3, <2>4, <2>5 DEF TwoNext, ScanLSM
<1>3. WalkInv /\ KeptInv => ListWalksKept
  <2>1. SUFFICES ASSUME WalkInv, KeptInv
                 PROVE  List!WalksKept
    BY DEF ListWalksKept
  <2>2. past \in Pasts /\ it.len \in Nat /\ past.found \in Seq(Pairs)
        /\ past.deletes \in Nat
    BY <2>1, TypesOfList
  <2>3. /\ DOMAIN List!FoundKeys = DOMAIN past.found
        /\ \A a \in DOMAIN past.found : List!FoundKeys[a] = past.found[a].key
    BY DEF List!FoundKeys
  <2>4. CASE it.walk = "closed"
    <3>1. past.deletes = 0 /\ DOMAIN past.found = {}
      BY <2>1, <2>4 DEF WalkInv, List!NoPast
    <3>2. IsInjective(List!FoundKeys)
      BY <2>3, <3>1 DEF IsInjective
    <3>3. QED
      BY <2>4, <3>2, ListOperators DEF List!WalksKept
  <2>5. CASE it.walk # "closed"
    <3>1. PICK M : FewMissed(M)
      BY <2>1, <2>5 DEF KeptInv
    <3>2. ASSUME it.walk = "done"
          PROVE  Cardinality(past.kept \ ToSet(List!FoundKeys)) <= past.deletes
      <4>1. it.cur = it.len /\ it.cur + 1 .. it.len = {}
        BY <2>1, <2>2, <3>2 DEF KeptInv
      <4>2. \A k \in past.kept : HasKey(past.found, k) \/ k \in M
        BY <3>1, <4>1 DEF FewMissed
      <4>3. past.kept \ ToSet(List!FoundKeys) \in SUBSET M
        BY <2>3, <4>2 DEF HasKey, ToSet
      <4>4. IsFiniteSet(M) /\ Cardinality(M) <= past.deletes
        BY <3>1 DEF FewMissed
      <4>5. /\ Cardinality(past.kept \ ToSet(List!FoundKeys)) <= Cardinality(M)
            /\ IsFiniteSet(past.kept \ ToSet(List!FoundKeys))
        BY <4>3, <4>4, FS_Subset
      <4>6. /\ Cardinality(past.kept \ ToSet(List!FoundKeys)) \in Nat
            /\ Cardinality(M) \in Nat
        BY <4>4, <4>5, FS_CardinalityType
      <4>7. QED
        BY <2>2, <4>4, <4>5, <4>6
    <3>3. ASSUME past.deletes = 0
          PROVE  IsInjective(List!FoundKeys)
      BY <2>1, <2>3, <2>5, <3>3 DEF KeptInv, NoneTwice, IsInjective
    <3>4. QED
      BY <3>2, <3>3, ListOperators DEF List!WalksKept
  <2>6. QED
    BY <2>4, <2>5
<1>4. QED
  BY <1>1, <1>2, <1>3, PTL DEF TwoSpec
-----------------------------------------------------------------------------
(* What Next of the LSM index produces.                                     *)
Produced == [key : Int, val : Values \cup {Nil}]

(* Keys that are not negative are stored under themselves, so that the      *)
(* snapshot is the range as it was; Pebble's iterator is on the first of    *)
(* the pairs, or on the last that Next has produced.                        *)
PebbleInv ==
  /\ db \in [Codes -> Values \cup {Nil}]
  /\ \A u \in Codes : db[u] # Nil => u \in Keys
  /\ seen \in Seq(Produced)
  /\ scan \in {"closed", "open", "done"}
  /\ scan = "closed" => seen = << >>
  /\ scan # "closed" =>
       /\ snapshot = expected /\ DOMAIN expected \subseteq Keys
       /\ expected \in [DOMAIN expected -> Values \cup {Nil}]
       /\ FirstOf(seen, expected)
  /\ scan = "open" =>
       IF first THEN seen = << >> /\ pos = Seek(DOMAIN expected)
       ELSE /\ HasKey(seen, pos)
            /\ \A i \in DOMAIN seen : seen[i].key <= pos
  /\ scan = "done" => AllOf(seen, expected)

(* Such a key is its own encoding, and the bound behind it the next number. *)
LEMMA NatKeysEncode ==
  ASSUME Keys \subseteq Nat, NEW k \in Keys
  PROVE  /\ Encode(k) = k /\ Decode(k) = k /\ k \in Codes
         /\ EncodeExclusive(k) = k + 1 /\ k # Behind
<1> DEFINE H == 2 ^ (Bits - 1)
           M == 2 ^ Bits
<1>1. H \in Nat \ {0} /\ M = 2 * H
  BY PowersAssumption
<1>2. k \in -H .. H - 1 /\ k \in Nat
  BY LSMAssumption DEF Int64
<1>3. \A l : Encode(l) = l % M
  BY DEF Encode
<1>4. EncodeExclusive(k) = (k + 1) % M
  BY <1>3 DEF EncodeExclusive
<1>5. Decode(k) = IF k < H THEN k ELSE k - M
  BY DEF Decode
<1>6. Codes = 0 .. M - 1 /\ Behind = M
  BY DEF Codes, Behind
<1> HIDE DEF H, M
<1>7. \A l \in 0 .. M - 1 : l % M = l
  BY <1>1
<1>8. k \in 0 .. M - 1 /\ k + 1 \in 0 .. M - 1 /\ k < H /\ k # M
  BY <1>1, <1>2
<1>9. QED
  BY <1>3, <1>4, <1>5, <1>6, <1>7, <1>8

(* Pebble's First and Next go to the least key that is left, if one is.     *)
LEMMA SeekLeast ==
  ASSUME Keys \subseteq Nat, NEW L, L \subseteq Keys
  PROVE  /\ Seek(L) = Behind <=> L = {}
         /\ L # {} => Seek(L) \in L /\ \A k \in L : Seek(L) <= k
<1>1. CASE L = {}
  BY <1>1 DEF Seek
<1>2. CASE L # {}
  <2>1. \E x \in L : \A y \in L : x <= y
    BY <1>2, LeastNat
  <2>2. Min(L) \in L /\ \A y \in L : Min(L) <= y
    BY <2>1 DEF Min
  <2>3. Min(L) # Behind
    BY <2>2, NatKeysEncode
  <2>4. QED
    BY <1>2, <2>2, <2>3 DEF Seek
<1>3. QED
  BY <1>1, <1>2

(* The bounds Range hands to Pebble cut out the range, with both its ends.  *)
LEMMA OpenKeepsPebble ==
  ASSUME Keys \subseteq Nat, PebbleInv,
         NEW s \in Keys, NEW e \in Keys, OpenRange(s, e)
  PROVE  PebbleInv'
<1>1. /\ scan = "closed" /\ scan' = "open" /\ first' = TRUE
      /\ db' = db /\ seen' = seen /\ seen = << >>
      /\ snapshot' = NewIter(Encode(s), EncodeExclusive(e))
      /\ expected' = ValuesOf(s, e) /\ pos' = Seek(DOMAIN snapshot')
  BY DEF OpenRange, PebbleInv
<1>2. /\ Encode(s) = s /\ EncodeExclusive(e) = e + 1 /\ s \in Nat /\ e \in Nat
      /\ \A k \in Keys : Fetched(k) = db[k] /\ k \in Codes
  BY NatKeysEncode DEF Fetched
<1>3. /\ db \in [Codes -> Values \cup {Nil}] /\ DOMAIN db = Codes
      /\ \A u \in Codes : db[u] # Nil => u \in Keys
  BY DEF PebbleInv
<1> DEFINE D == {k \in Keys : db[k] # Nil /\ s <= k /\ k <= e}
<1>4. {w \in DOMAIN db : db[w] # Nil /\ Encode(s) <= w /\ w < EncodeExclusive(e)}
        = D
  <2>1. \A w \in Keys : w < EncodeExclusive(e) <=> w <= e
    BY <1>2
  <2>2. \A w : /\ w \in Codes /\ db[w] # Nil => w \in Keys
               /\ w \in Keys => w \in Codes
    BY <1>2, <1>3
  <2>3. Encode(s) = s /\ DOMAIN db = Codes
    BY <1>2, <1>3
  <2>4. \A w : /\ w \in DOMAIN db
               /\ db[w] # Nil /\ Encode(s) <= w /\ w < EncodeExclusive(e)
              <=> w \in Keys /\ db[w] # Nil /\ s <= w /\ w <= e
    <3>1. TAKE w
    <3>2. w \in Codes /\ db[w] # Nil <=> w \in Keys /\ db[w] # Nil
      BY <2>2
    <3>3. w \in Keys => (w < EncodeExclusive(e) <=> w <= e)
      BY <2>1
    <3>4. QED
      BY ONLY <2>3, <3>2, <3>3
  <2>5. QED
    BY <2>4
<1>5. {l \in Keys : Fetched(l) # Nil /\ s <= l /\ l <= e} = D
  BY <1>2
<1>6. snapshot' = [u \in D |-> db[u]]
  BY <1>1, <1>4 DEF NewIter
<1>7. expected' = [k \in D |-> db[k]]
  BY <1>1, <1>2, <1>5 DEF ValuesOf
<1>8. D \subseteq Keys /\ D \subseteq Codes
  BY <1>2
<1> HIDE DEF D
<1>9. expected' \in [D -> Values \cup {Nil}] /\ DOMAIN expected' = D
  BY <1>3, <1>7, <1>8
<1>10. DOMAIN seen' = {}
  BY <1>1
<1>11. FirstOf(seen, expected)'
  BY <1>10 DEF FirstOf, Ascending, Before
<1>12. QED
  BY <1>1, <1>3, <1>6, <1>7, <1>8, <1>9, <1>11 DEF PebbleInv

(* Next produces the least pair that is left, and ends behind the last.     *)
LEMMA NextKeepsPebble ==
  ASSUME Keys \subseteq Nat, PebbleInv, Next
  PROVE  PebbleInv'
<1> DEFINE L == IF first THEN DOMAIN expected ELSE {u \in DOMAIN expected : pos < u}
           m == Seek(L)
<1>1. /\ scan = "open" /\ snapshot = expected /\ DOMAIN expected \subseteq Keys
      /\ expected \in [DOMAIN expected -> Values \cup {Nil}]
      /\ seen \in Seq(Produced) /\ FirstOf(seen, expected)
  BY DEF Next, PebbleInv
<1>2. UNCHANGED <<db, snapshot, expected>> /\ first' = FALSE
  BY DEF Next
<1>3. m = Advanced
  BY <1>1 DEF Advanced, Left, PebbleInv
<1>4. DOMAIN expected \subseteq Int /\ L \subseteq DOMAIN expected /\ L \subseteq Keys
  BY <1>1
<1>5. /\ \A k \in L : Before(seen, k)
      /\ \A k \in DOMAIN expected : HasKey(seen, k) \/ k \in L
  <2>1. CASE first
    <3>1. DOMAIN seen = {}
      BY <1>1, <2>1 DEF PebbleInv
    <3>2. QED
      BY <2>1, <3>1 DEF Before
  <2>2. CASE ~first
    <3>1. HasKey(seen, pos) /\ \A i \in DOMAIN seen : seen[i].key <= pos
      BY <1>1, <2>2 DEF PebbleInv
    <3>2. \A i \in DOMAIN seen : seen[i].key \in Int
      BY <1>1, <1>4 DEF FirstOf, Ascending
    <3>3. pos \in Int
      BY <3>1, <3>2 DEF HasKey
    <3>4. \A k \in L : Before(seen, k)
      BY <1>4, <2>2, <3>1, <3>2, <3>3 DEF Before
    <3>5. ASSUME NEW k \in DOMAIN expected, ~HasKey(seen, k)
          PROVE  k \in L
      <4>1. Before(seen, k)
        BY <1>1, <3>5 DEF FirstOf
      <4>2. pos < k
        BY <3>1, <4>1 DEF HasKey, Before
      <4>3. QED
        BY <2>2, <4>2
    <3>6. QED
      BY <3>4, <3>5
  <2>3. QED
    BY <2>1, <2>2
<1>6. /\ m = Behind <=> L = {}
      /\ L # {} => m \in L /\ \A k \in L : m <= k
  BY <1>4, SeekLeast
<1>7. CASE m = Behind
  <2>1. scan' = "done" /\ seen' = seen
    BY <1>3, <1>7 DEF Next
  <2>2. AllOf(seen, expected)
    BY <1>1, <1>5, <1>6, <1>7 DEF AllOf, FirstOf
  <2>3. (FirstOf(seen, expected) /\ AllOf(seen, expected))'
    BY <1>1, <1>2, <2>1, <2>2
  <2>4. QED
    BY <1>1, <1>2, <2>1, <2>3 DEF PebbleInv
<1>8. CASE m # Behind
  <2> DEFINE r == [key |-> m, val |-> expected[m]]
  <2>1. m \in L /\ m \in Keys /\ Decode(m) = m /\ m \in DOMAIN expected
    BY <1>4, <1>6, <1>8, NatKeysEncode
  <2>2. scan' = "open" /\ pos' = m /\ seen' = Append(seen, r)
    BY <1>1, <1>3, <1>8, <2>1 DEF Next
  <2>3. r \in Produced
    BY <1>1, <1>4, <2>1 DEF Produced
  <2>4. r.key = m /\ r.val = expected[m]
    OBVIOUS
  <2> HIDE DEF r, m, L
  <2>5. /\ FirstOf(seen', expected) /\ HasKey(seen', m)
        /\ \A i \in DOMAIN seen' : seen'[i].key <= m
    BY <1>1, <1>4, <1>5, <1>6, <1>8, <2>1, <2>2, <2>4, ScanGoesOn
  <2>6. seen' \in Seq(Produced)
    BY <1>1, <2>2, <2>3
  <2>7. FirstOf(seen, expected)' /\ HasKey(seen, pos)'
    BY <1>2, <2>2, <2>5
  <2>8. QED
    BY <1>1, <1>2, <2>2, <2>5, <2>6, <2>7 DEF PebbleInv
<1>9. QED
  BY <1>7, <1>8

(* A write changes the store and no snapshot.                               *)
LEMMA WriteKeepsPebble ==
  ASSUME Keys \subseteq Nat, PebbleInv, NEW k \in Keys, NEW v \in Values \cup {Nil},
         db' = [db EXCEPT ![Encode(k)] = v],
         UNCHANGED <<scan, snapshot, pos, first, seen, expected>>
  PROVE  PebbleInv'
<1>1. Encode(k) = k /\ k \in Codes
  BY NatKeysEncode
<1>2. /\ db' \in [Codes -> Values \cup {Nil}]
      /\ \A u \in Codes : db'[u] # Nil => u \in Keys
  BY <1>1 DEF PebbleInv
<1>3. QED
  BY <1>2 DEF PebbleInv

(* Every scan of the LSM index produces the pairs its range had when Range  *)
(* was called, by their keys and each once, whatever is written under it,   *)
(* up to the largest key, whose successor wraps.  The keys are not          *)
(* negative, as those of the benchmark; the encoding puts negative keys     *)
(* behind all others.                                                       *)
THEOREM LSMScanInOrder ==
  ASSUME Keys \subseteq Nat
  PROVE  TwoSpec => []ScanInOrder
<1>1. TwoInit => PebbleInv
  <2>1. SUFFICES ASSUME TwoInit PROVE PebbleInv
    OBVIOUS
  <2>2. /\ db = [u \in Codes |-> Nil] /\ scan = "closed" /\ seen = << >>
    BY <2>1 DEF TwoInit, Init, Codes
  <2>3. QED
    BY <2>2 DEF PebbleInv
<1>2. PebbleInv /\ [TwoNext]_<<vars, listVars>> => PebbleInv'
  <2>1. SUFFICES ASSUME PebbleInv, [TwoNext]_<<vars, listVars>>
                 PROVE  PebbleInv'
    OBVIOUS
  <2>2. CASE \E k \in Keys, v \in Values : Write(k, v)
    BY <2>1, <2>2, WriteKeepsPebble DEF Write, Insert
  <2>3. CASE \E k \in Keys : Drop(k)
    BY <2>1, <2>3, WriteKeepsPebble DEF Drop, Delete
  <2>4. CASE UNCHANGED vars
    BY <2>1, <2>4 DEF PebbleInv, vars
  <2>5. CASE ScanLSM
    <3>1. CASE \E s, e \in Keys : OpenRange(s, e)
      BY <2>1, <3>1, OpenKeepsPebble
    <3>2. CASE Next
      BY <2>1, <3>2, NextKeepsPebble
    <3>3. CASE CloseRange
      <4>1. /\ scan' = "closed" /\ seen' = << >> /\ db' = db
        BY <3>3 DEF CloseRange
      <4>2. QED
        BY <2>1, <4>1 DEF PebbleInv
    <3>4. QED
      BY <2>5, <3>1, <3>2, <3>3 DEF ScanLSM
  <2>6. CASE WalkList
    BY <2>4, <2>6 DEF WalkList
  <2>7. QED
    BY <2>1, <2>2, <2>3, <2>4, <2>5, <2>6 DEF TwoNext
<1>3. PebbleInv => ScanInOrder
  BY DEF PebbleInv, ScanInOrder
<1>4. QED
  BY <1>1, <1>2, <1>3, PTL DEF TwoSpec
=============================================================================
