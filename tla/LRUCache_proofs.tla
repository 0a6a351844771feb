-------------------------- MODULE LRUCache_proofs --------------------------
(***************************************************************************)
(* The linked list of the page cache is a sequence of entries, whatever    *)
(* the page ids, the pages and the capacity: every get and put relinks it  *)
(* into the sequence module LRU asks for.                                  *)
(***************************************************************************)
EXTENDS LRUCache, SequenceLemmas, FiniteSetTheorems, TLAPS

(* The i-th element of a sequence, nil outside it.                          *)
At(q, i) == IF i \in 1 .. Len(q) THEN q[i] ELSE Nil

Distinct(q) == \A i, j \in 1 .. Len(q) : q[i] = q[j] => i = j

(* The links of the cache are those of the sequence q.                      *)
Links(q) ==
  /\ head = At(q, 1)
  /\ tail = At(q, Len(q))
  /\ \A i \in 1 .. Len(q) : /\ prev[q[i]] = At(q, i - 1)
                            /\ next[q[i]] = At(q, i + 1)

ListOf(q) ==
  /\ q \in Seq(Ids) /\ Distinct(q) /\ Len(q) <= Cap
  /\ items = {q[i] : i \in 1 .. Len(q)}
  /\ Links(q)

IInv == TypeOK /\ \E q : ListOf(q)

(* What a put and a get leave of a sequence.                                *)
MovedToFront(c, p, e) ==
  [i \in 1 .. Len(c) |-> IF i = 1 THEN e ELSE IF i <= p THEN c[i - 1] ELSE c[i]]

PutInFront(c, e) ==
  [i \in 1 .. Len(c) + 1 |-> IF i = 1 THEN e ELSE c[i - 1]]

WithoutLast(c) == [i \in 1 .. Len(c) - 1 |-> c[i]]

(* The entries of a list, as module LRU has them.                           *)
Contents(q, pages) == [i \in 1 .. Len(q) |-> [id |-> q[i], page |-> pages[q[i]]]]
-----------------------------------------------------------------------------
LinkMaps == [Ids -> Ref]

LEMMA SetElements ==
  ASSUME NEW f \in LinkMaps, NEW e \in Ref, NEW v \in Ref
  PROVE  /\ Set(f, e, v) \in LinkMaps
         /\ \A x \in Ids : Set(f, e, v)[x] = IF x = e THEN v ELSE f[x]
  BY CapAssumption DEF Set, Ref, LinkMaps

(* The three changes of a sequence are sequences again.                     *)
LEMMA MovedElements ==
  ASSUME NEW S, NEW c \in Seq(S), NEW p \in 1 .. Len(c), NEW e \in S
  PROVE  LET d == MovedToFront(c, p, e)
         IN  /\ d \in Seq(S) /\ Len(d) = Len(c)
             /\ \A i \in 1 .. Len(c) :
                  d[i] = IF i = 1 THEN e ELSE IF i <= p THEN c[i - 1] ELSE c[i]
<1> DEFINE d == MovedToFront(c, p, e)
<1>1. Len(c) \in Nat /\ \A i \in 1 .. Len(c) : c[i] \in S
  BY ElementOfSeq
<1>2. \A i \in 1 .. Len(c) :
        (IF i = 1 THEN e ELSE IF i <= p THEN c[i - 1] ELSE c[i]) \in S
  BY <1>1
<1>3. d \in [1 .. Len(c) -> S]
  BY <1>2 DEF MovedToFront
<1>4. d \in Seq(S) /\ Len(d) = Len(c)
  BY <1>1, <1>3
<1>5. QED
  BY <1>4 DEF MovedToFront

LEMMA PutElements ==
  ASSUME NEW S, NEW c \in Seq(S), NEW e \in S
  PROVE  LET d == PutInFront(c, e)
         IN  /\ d \in Seq(S) /\ Len(d) = Len(c) + 1
             /\ \A i \in 1 .. Len(c) + 1 : d[i] = IF i = 1 THEN e ELSE c[i - 1]
<1> DEFINE d == PutInFront(c, e)
<1>1. Len(c) \in Nat /\ \A i \in 1 .. Len(c) : c[i] \in S
  BY ElementOfSeq
<1>2. \A i \in 1 .. Len(c) + 1 : (IF i = 1 THEN e ELSE c[i - 1]) \in S
  BY <1>1
<1>3. d \in [1 .. Len(c) + 1 -> S]
  BY <1>2 DEF PutInFront
<1>4. d \in Seq(S) /\ Len(d) = Len(c) + 1
  BY <1>1, <1>3
<1>5. QED
  BY <1>4 DEF PutInFront

LEMMA ShortElements ==
  ASSUME NEW S, NEW c \in Seq(S), Len(c) > 0
  PROVE  LET d == WithoutLast(c)
         IN  /\ d \in Seq(S) /\ Len(d) = Len(c) - 1
             /\ \A i \in 1 .. Len(c) - 1 : d[i] = c[i]
<1> DEFINE d == WithoutLast(c)
<1>1. Len(c) \in Nat /\ \A i \in 1 .. Len(c) : c[i] \in S
  BY ElementOfSeq
<1>2. d \in [1 .. Len(c) - 1 -> S]
  BY <1>1 DEF WithoutLast
<1>3. d \in Seq(S) /\ Len(d) = Len(c) - 1
  BY <1>1, <1>2
<1>4. QED
  BY <1>3 DEF WithoutLast
-----------------------------------------------------------------------------
(* The model's walk, of the links nx from h.                                *)
Followed(h, nx, m) ==
  CHOOSE at : at = [n \in 0 .. m |->
                      IF n = 0 THEN h
                      ELSE IF at[n - 1] = Nil THEN Nil ELSE nx[at[n - 1]]]

(* Following m links from the head of a list of m entries visits them in    *)
(* their order and ends at nil.                                             *)
LEMMA WalkElements ==
  ASSUME NEW q \in Seq(Ids), NEW h, NEW nx,
         h = At(q, 1), \A i \in 1 .. Len(q) : nx[q[i]] = At(q, i + 1)
  PROVE  \A n \in 0 .. Len(q) : Followed(h, nx, Len(q))[n] = At(q, n + 1)
<1>0. Len(q) \in Nat /\ \A i \in 1 .. Len(q) : q[i] \in Ids /\ q[i] # Nil
  BY ElementOfSeq, CapAssumption
<1> DEFINE Rec(at) == [n \in 0 .. Len(q) |->
                        IF n = 0 THEN h
                        ELSE IF at[n - 1] = Nil THEN Nil ELSE nx[at[n - 1]]]
           f == [n \in 0 .. Len(q) |-> At(q, n + 1)]
           w == Followed(h, nx, Len(q))
<1>1. ASSUME NEW n \in 0 .. Len(q)
      PROVE  f[n] = IF n = 0 THEN h
                    ELSE IF f[n - 1] = Nil THEN Nil ELSE nx[f[n - 1]]
  <2>1. CASE n = 0
    BY <1>0, <2>1
  <2>2. CASE n > 0
    <3>1. f[n] = At(q, n + 1) /\ f[n - 1] = q[n] /\ n \in 1 .. Len(q)
      BY <1>0, <2>2 DEF At
    <3>2. QED
      BY <1>0, <2>2, <3>1
  <2>3. QED
    BY <2>1, <2>2
<1>2. f = Rec(f)
  BY <1>1
<1>3. w = CHOOSE at : at = Rec(at)
  BY DEF Followed
<1> HIDE DEF w
<1>4. w = Rec(w)
  <2>1. \E at : at = Rec(at)
    BY <1>2
  <2> HIDE DEF Rec, f
  <2>2. QED
    BY <1>3, <2>1, Zenon
<1>5. w[0] = h /\ \A n \in 1 .. Len(q) :
        w[n] = IF w[n - 1] = Nil THEN Nil ELSE nx[w[n - 1]]
  <2>1. \A n \in 0 .. Len(q) :
          Rec(w)[n] = IF n = 0 THEN h
                      ELSE IF w[n - 1] = Nil THEN Nil ELSE nx[w[n - 1]]
    OBVIOUS
  <2> HIDE DEF Rec
  <2>2. \A n \in 0 .. Len(q) :
          w[n] = IF n = 0 THEN h
                 ELSE IF w[n - 1] = Nil THEN Nil ELSE nx[w[n - 1]]
    BY <1>4, <2>1, Zenon
  <2>3. QED
    BY <1>0, <2>2
<1> HIDE DEF Rec, f
<1> DEFINE T == {n \in 0 .. Len(q) : w[n] # At(q, n + 1)}
<1>6. SUFFICES ASSUME T # {} PROVE FALSE
  BY DEF w
<1>7. PICK n \in T : \A m \in T : n <= m
  <2>1. T \subseteq Nat
    OBVIOUS
  <2> HIDE DEF T
  <2>2. QED
    BY <1>6, <2>1, LeastNat
<1>8. n # 0
  BY <1>0, <1>5 DEF At
<1>9. n \in 1 .. Len(q) /\ w[n - 1] = At(q, n)
  <2>1. n \in 1 .. Len(q) /\ n - 1 \in 0 .. Len(q) /\ ~(n <= n - 1)
    BY <1>0, <1>8
  <2>2. n - 1 \notin T
    BY <1>7, <2>1
  <2>3. QED
    BY <2>1, <2>2
<1>10. w[n] = At(q, n + 1)
  BY <1>0, <1>5, <1>9 DEF At
<1>11. QED
  BY <1>7, <1>10
-----------------------------------------------------------------------------
(* A sequence without repetition has as many elements as places.            *)
LEMMA DistinctCount ==
  ASSUME NEW S, NEW q \in Seq(S), Distinct(q)
  PROVE  /\ IsFiniteSet({q[i] : i \in 1 .. Len(q)})
         /\ Cardinality({q[i] : i \in 1 .. Len(q)}) = Len(q)
<1> DEFINE T == {q[i] : i \in 1 .. Len(q)}
           f == [i \in 1 .. Len(q) |-> q[i]]
<1>1. Len(q) \in Nat
  OBVIOUS
<1>2. f \in Injection(1 .. Len(q), T)
  BY DEF Injection, IsInjective, Distinct
<1>3. f \in Surjection(1 .. Len(q), T)
  BY DEF Surjection
<1>4. ExistsBijection(1 .. Len(q), T)
  BY <1>2, <1>3 DEF ExistsBijection, Bijection
<1>5. IsFiniteSet(1 .. Len(q)) /\ Cardinality(1 .. Len(q)) = Len(q)
  <2>1. ASSUME NEW n \in Nat
        PROVE  IsFiniteSet(1 .. n) /\ Cardinality(1 .. n) = n
    <3>1. IsFiniteSet(1 .. n)
          /\ Cardinality(1 .. n) = IF 1 > n THEN 0 ELSE n - 1 + 1
      BY FS_Interval
    <3>2. QED
      BY <3>1
  <2>2. QED
    BY <1>1, <2>1
<1>6. QED
  BY <1>4, <1>5, FS_Bijection

(* What a list of the links gives to reason with.                           *)
LEMMA ListFacts ==
  ASSUME TypeOK, NEW q, ListOf(q)
  PROVE  /\ q \in Seq(Ids) /\ Len(q) \in Nat
         /\ \A i \in 1 .. Len(q) : q[i] \in items /\ q[i] \in Ids /\ q[i] # Nil
         /\ \A x \in items : \E i \in 1 .. Len(q) : q[i] = x
         /\ IsFiniteSet(items) /\ Cardinality(items) = Len(q)
         /\ \A i, j \in 1 .. Len(q) : q[i] = q[j] => i = j
<1>1. q \in Seq(Ids) /\ Len(q) \in Nat /\ \A i \in 1 .. Len(q) : q[i] \in Ids
  BY ElementOfSeq DEF ListOf
<1>2. IsFiniteSet(items) /\ Cardinality(items) = Len(q)
  BY DistinctCount DEF ListOf
<1>3. QED
  BY <1>1, <1>2, CapAssumption DEF ListOf, Distinct
-----------------------------------------------------------------------------
(* moveToFront: the list with its p-th entry first.                         *)
LEMMA MoveRelinks ==
  ASSUME TypeOK, NEW q, ListOf(q), NEW p \in 1 .. Len(q),
         MoveToFront(q[p]), items' = items
  PROVE  /\ ListOf(MovedToFront(q, p, q[p]))'
         /\ prev' \in [Ids -> Ref] /\ next' \in [Ids -> Ref]
         /\ head' \in Ref /\ tail' \in Ref
<1> DEFINE e == q[p]
           r == MovedToFront(q, p, e)
<1>1. /\ q \in Seq(Ids) /\ Len(q) \in Nat
      /\ \A i \in 1 .. Len(q) : q[i] \in items /\ q[i] \in Ids /\ q[i] # Nil
      /\ \A x \in items : \E i \in 1 .. Len(q) : q[i] = x
      /\ \A i, j \in 1 .. Len(q) : q[i] = q[j] => i = j
  BY ListFacts
<1>2. /\ r \in Seq(Ids) /\ Len(r) = Len(q)
      /\ \A i \in 1 .. Len(q) :
           r[i] = IF i = 1 THEN e ELSE IF i <= p THEN q[i - 1] ELSE q[i]
  <2>1. e \in Ids
    BY <1>1
  <2> HIDE DEF e
  <2>2. QED
    BY <1>1, <2>1, MovedElements
<1>3. /\ head = q[1] /\ tail = q[Len(q)]
      /\ \A i \in 1 .. Len(q) : /\ prev[q[i]] = At(q, i - 1)
                                /\ next[q[i]] = At(q, i + 1)
      /\ Len(q) <= Cap /\ items = {q[i] : i \in 1 .. Len(q)}
      /\ Distinct(q)
  BY <1>1 DEF ListOf, Links, At
<1>4. CASE p = 1
  <2>1. r = q
    <3>1. \A i \in 1 .. Len(q) : r[i] = q[i]
      BY <1>1, <1>2, <1>4
    <3>2. QED
      BY <1>1, <1>2, <3>1, SeqEqual
  <2>2. UNCHANGED <<prev, next, head, tail>>
    BY <1>3, <1>4 DEF MoveToFront
  <2>3. ListOf(q)'
    BY <2>2 DEF ListOf, Links
  <2>4. QED
    BY <2>1, <2>2, <2>3 DEF TypeOK
<1>5. CASE p # 1
  <2>0. e # head /\ e \in Ids /\ head \in Ids /\ prev[e] \in Ref /\ next[e] \in Ref
       /\ prev \in LinkMaps /\ next \in LinkMaps
    BY <1>1, <1>3, <1>5 DEF TypeOK, LinkMaps
  <2>1. /\ prev' = Set([Set(prev, next[e], prev[e]) EXCEPT ![e] = Nil], head, e)
        /\ next' = [Set(next, prev[e], next[e]) EXCEPT ![e] = head]
        /\ tail' = IF tail = e THEN prev[e] ELSE tail
        /\ head' = e
    BY <2>0 DEF MoveToFront
  <2> HIDE DEF e, r
  <2>2. /\ prev' \in LinkMaps
        /\ \A x \in Ids : prev'[x] = IF x = head THEN e
                                     ELSE IF x = e THEN Nil
                                     ELSE IF x = next[e] THEN prev[e] ELSE prev[x]
    <3> DEFINE a == Set(prev, next[e], prev[e])
               b == [a EXCEPT ![e] = Nil]
    <3>1. /\ a \in LinkMaps
          /\ \A x \in Ids : a[x] = IF x = next[e] THEN prev[e] ELSE prev[x]
      BY <2>0, SetElements
    <3> HIDE DEF a
    <3>2. /\ b \in LinkMaps
          /\ \A x \in Ids : b[x] = IF x = e THEN Nil ELSE a[x]
      BY <2>0, <3>1 DEF Ref, LinkMaps
    <3>3. prev' = Set(b, head, e)
      BY <2>1 DEF a
    <3> HIDE DEF b
    <3>4. head \in Ref /\ e \in Ref
      BY <2>0 DEF Ref, LinkMaps
    <3>5. /\ prev' \in LinkMaps
          /\ \A x \in Ids : prev'[x] = IF x = head THEN e ELSE b[x]
      BY <3>2, <3>3, <3>4, SetElements
    <3>6. QED
      BY <3>1, <3>2, <3>5
  <2>3. /\ next' \in LinkMaps
        /\ \A x \in Ids : next'[x] = IF x = e THEN head
                                     ELSE IF x = prev[e] THEN next[e] ELSE next[x]
    <3> DEFINE a == Set(next, prev[e], next[e])
    <3>1. /\ a \in LinkMaps
          /\ \A x \in Ids : a[x] = IF x = prev[e] THEN next[e] ELSE next[x]
      BY <2>0, SetElements
    <3>2. next' = [a EXCEPT ![e] = head]
      BY <2>1
    <3> HIDE DEF a
    <3>3. QED
      BY <2>0, <3>1, <3>2 DEF Ref, LinkMaps
  <2>4. /\ prev[e] = q[p - 1] /\ p - 1 \in 1 .. Len(q)
        /\ next[e] = IF p = Len(q) THEN Nil ELSE q[p + 1]
    BY <1>1, <1>3, <1>5 DEF At, e
  <2>5. head' = At(r, 1) /\ tail' = At(r, Len(r))
    BY <1>1, <1>2, <1>3, <1>5, <2>1, <2>4 DEF At, e
  <2>6. ASSUME NEW i \in 1 .. Len(r)
        PROVE  prev'[r[i]] = At(r, i - 1) /\ next'[r[i]] = At(r, i + 1)
    <3>0. i \in 1 .. Len(q) /\ i \in Nat /\ p \in Nat
      BY <1>1, <1>2, <2>6
    <3>1. CASE i = 1
      <4>1. r[i] = e /\ At(r, i - 1) = Nil /\ 2 \in 1 .. Len(q) /\ At(r, i + 1) = q[1]
        BY <1>1, <1>2, <1>5, <3>0, <3>1 DEF At
      <4>2. QED
        BY <1>3, <2>0, <2>2, <2>3, <4>1
    <3>2. CASE i = 2
      <4>1. r[i] = q[1] /\ At(r, i - 1) = e
        BY <1>1, <1>2, <1>5, <3>0, <3>2 DEF At
      <4>2. prev'[r[i]] = e
        BY <1>3, <2>0, <2>2, <4>1
      <4>3. CASE p = 2
        <5>1. At(r, i + 1) = next[e]
          BY <1>1, <1>2, <2>4, <3>0, <3>2, <4>3 DEF At
        <5>2. QED
          BY <1>3, <2>0, <2>3, <2>4, <4>1, <4>2, <4>3, <5>1
      <4>4. CASE p > 2
        <5>1. At(r, i + 1) = q[2] /\ 2 \in 1 .. Len(q) /\ 1 \in 1 .. Len(q)
          BY <1>1, <1>2, <3>0, <3>2, <4>4 DEF At
        <5>2. next[q[1]] = q[2] /\ q[1] # q[p - 1] /\ q[1] # e
          BY <1>1, <1>3, <2>4, <4>4, <5>1 DEF At, e
        <5>3. QED
          BY <1>1, <2>3, <2>4, <4>1, <4>2, <5>1, <5>2
      <4>5. QED
        BY <1>5, <3>0, <4>3, <4>4
    <3>3. CASE 2 < i /\ i <= p
      <4>1. /\ r[i] = q[i - 1] /\ At(r, i - 1) = q[i - 2]
            /\ i - 1 \in 1 .. Len(q) /\ i - 2 \in 1 .. Len(q)
            /\ At(r, i + 1) = IF i = p THEN (IF p = Len(q) THEN Nil ELSE q[p + 1])
                              ELSE q[i]
        <5>1. /\ r[i] = q[i - 1] /\ At(r, i - 1) = q[i - 2]
              /\ i - 1 \in 1 .. Len(q) /\ i - 2 \in 1 .. Len(q)
          BY <1>1, <1>2, <3>0, <3>3 DEF At
        <5>2. CASE i = p
          BY <1>1, <1>2, <3>0, <3>3, <5>1, <5>2 DEF At
        <5>3. CASE i < p
          <6>1. i + 1 \in 1 .. Len(q) /\ i + 1 <= p /\ i + 1 # 1
            BY <1>1, <3>0, <5>3
          <6>2. r[i + 1] = q[i]
            BY <1>2, <6>1
          <6>3. QED
            BY <1>2, <5>1, <5>3, <6>1, <6>2 DEF At
        <5>4. QED
          BY <3>0, <3>3, <5>2, <5>3
      <4>2. q[i - 1] # q[1] /\ q[i - 1] # e /\ q[i - 1] # next[e]
        BY <1>1, <2>4, <3>0, <3>3, <4>1 DEF e
      <4>3. prev'[r[i]] = q[i - 2]
        <5>1. prev[q[i - 1]] = q[i - 2]
          BY <1>3, <3>0, <4>1 DEF At
        <5>2. q[i - 1] \in Ids
          BY <1>1, <4>1
        <5>3. prev'[q[i - 1]] = prev[q[i - 1]]
          BY <1>3, <2>2, <4>2, <5>2
        <5>4. QED
          BY <4>1, <5>1, <5>3
      <4>4. next'[r[i]] = At(r, i + 1)
        <5>1. next[q[i - 1]] = q[i]
          BY <1>3, <3>0, <4>1 DEF At
        <5>2. q[i - 1] = q[p - 1] <=> i = p
          BY <1>1, <2>4, <3>0, <4>1
        <5>3. QED
          BY <1>1, <2>3, <2>4, <4>1, <4>2, <5>1, <5>2
      <4>5. QED
        BY <4>1, <4>3, <4>4
    <3>4. CASE p < i /\ i # 2
      <4>1. /\ r[i] = q[i] /\ At(r, i - 1) = IF i = p + 1 THEN q[p - 1] ELSE q[i - 1]
            /\ At(r, i + 1) = At(q, i + 1) /\ i # 1 /\ p \in 1 .. Len(q)
        <5>1. r[i] = q[i] /\ i # 1 /\ p \in 1 .. Len(q)
          BY <1>1, <1>2, <1>5, <2>4, <3>0, <3>4
        <5>2. At(r, i - 1) = IF i = p + 1 THEN q[p - 1] ELSE q[i - 1]
          <6>1. i - 1 \in 1 .. Len(q) /\ i - 1 # 1 /\ (i - 1 <= p <=> i = p + 1)
            BY <1>1, <2>4, <3>0, <3>4
          <6>2. At(r, i - 1) = r[i - 1]
            BY <1>2, <1>5, <6>1 DEF At
          <6>3. r[i - 1] = IF i - 1 <= p THEN q[i - 1 - 1] ELSE q[i - 1]
            BY <1>2, <1>5, <6>1
          <6>4. i = p + 1 => i - 1 - 1 = p - 1
            BY <1>1, <3>0
          <6>5. QED
            BY <6>1, <6>2, <6>3, <6>4
        <5>3. At(r, i + 1) = At(q, i + 1)
          BY <1>1, <1>2, <1>5, <2>4, <3>0, <3>4 DEF At
        <5>4. QED
          BY <5>1, <5>2, <5>3
      <4>2. q[i] # q[1] /\ q[i] # e /\ q[i] # prev[e] /\ (q[i] = next[e] <=> i = p + 1)
        BY <1>1, <2>4, <3>0, <3>4, <4>1 DEF e
      <4>3. prev[q[i]] = q[i - 1] /\ next[q[i]] = At(q, i + 1)
        BY <1>3, <3>0, <4>1 DEF At
      <4>4. prev'[r[i]] = IF i = p + 1 THEN q[p - 1] ELSE q[i - 1]
        <5>1. q[i] \in Ids
          BY <1>1, <3>0
        <5>2. prev'[q[i]] = IF i = p + 1 THEN prev[e] ELSE prev[q[i]]
          BY <1>3, <2>2, <4>2, <5>1
        <5>3. QED
          BY <2>4, <4>1, <4>3, <5>2
      <4>5. next'[r[i]] = At(q, i + 1)
        BY <1>1, <2>3, <2>4, <3>0, <4>1, <4>2, <4>3
      <4>6. QED
        BY <4>1, <4>4, <4>5
    <3>5. QED
      BY <1>5, <3>0, <3>1, <3>2, <3>3, <3>4
  <2>7. Distinct(r)
    <3>1. SUFFICES ASSUME NEW i \in 1 .. Len(r), NEW j \in 1 .. Len(r), r[i] = r[j]
                   PROVE  i = j
      BY DEF Distinct
    <3> DEFINE at(k) == IF k = 1 THEN p ELSE IF k <= p THEN k - 1 ELSE k
    <3>2. \A k \in 1 .. Len(r) : at(k) \in 1 .. Len(q) /\ r[k] = q[at(k)]
      BY <1>1, <1>2, <2>4 DEF e
    <3>3. at(i) = at(j)
      <4>1. /\ at(i) \in 1 .. Len(q) /\ r[i] = q[at(i)]
            /\ at(j) \in 1 .. Len(q) /\ r[j] = q[at(j)]
        BY <3>2
      <4> HIDE DEF at
      <4>2. QED
        BY <1>1, <3>1, <4>1
    <3>4. QED
      BY <1>1, <1>2, <3>3
  <2>8. items' = {r[i] : i \in 1 .. Len(r)}
    <3>1. ASSUME NEW i \in 1 .. Len(r)
          PROVE  r[i] \in items
      BY <1>1, <1>2, <2>4 DEF e
    <3>2. ASSUME NEW x \in items
          PROVE  \E i \in 1 .. Len(r) : r[i] = x
      <4>1. PICK k \in 1 .. Len(q) : q[k] = x
        BY <1>1
      <4>2. CASE k = p
        BY <1>2, <4>1, <4>2 DEF e
      <4>3. CASE k < p
        <5>1. k + 1 \in 1 .. Len(r) /\ r[k + 1] = q[k]
          BY <1>1, <1>2, <4>1, <4>3
        <5>2. QED
          BY <4>1, <5>1
      <4>4. CASE k > p
        <5>1. k \in 1 .. Len(r) /\ r[k] = q[k]
          BY <1>1, <1>2, <4>1, <4>4
        <5>2. QED
          BY <4>1, <5>1
      <4>5. QED
        BY <1>1, <4>2, <4>3, <4>4
    <3>3. QED
      BY <3>1, <3>2
  <2>9. /\ ListOf(r)'
        /\ head' \in Ref /\ tail' \in Ref
    <3>1. Links(r)'
      BY <2>5, <2>6 DEF Links
    <3>2. head' \in Ref /\ tail' \in Ref
      BY <2>0, <2>1 DEF TypeOK, Ref
    <3>3. QED
      BY <1>2, <1>3, <2>7, <2>8, <3>1, <3>2 DEF ListOf
  <2>10. QED
    BY <2>2, <2>3, <2>9 DEF r, e, LinkMaps
<1>6. QED
  BY <1>4, <1>5
-----------------------------------------------------------------------------
(* put: the list with a new entry in front, before anything is evicted.     *)
LEMMA PushRelinks ==
  ASSUME TypeOK, NEW q, ListOf(q), NEW id \in Ids, id \notin items
  PROVE  LET r == PutInFront(q, id)
         IN  /\ r \in Seq(Ids) /\ Len(r) = Len(q) + 1 /\ Distinct(r)
             /\ \A i \in 1 .. Len(r) : r[i] = IF i = 1 THEN id ELSE q[i - 1]
             /\ items \cup {id} = {r[i] : i \in 1 .. Len(r)}
             /\ PushedTail(id) = r[Len(r)]
             /\ PushedPrev(id) \in LinkMaps /\ PushedNext(id) \in LinkMaps
             /\ \A i \in 1 .. Len(r) : /\ PushedPrev(id)[r[i]] = At(r, i - 1)
                                       /\ PushedNext(id)[r[i]] = At(r, i + 1)
<1> DEFINE r == PutInFront(q, id)
<1>1. /\ q \in Seq(Ids) /\ Len(q) \in Nat
      /\ \A i \in 1 .. Len(q) : q[i] \in items /\ q[i] \in Ids /\ q[i] # Nil
      /\ \A x \in items : \E i \in 1 .. Len(q) : q[i] = x
      /\ \A i, j \in 1 .. Len(q) : q[i] = q[j] => i = j
  BY ListFacts
<1>2. /\ r \in Seq(Ids) /\ Len(r) = Len(q) + 1
      /\ \A i \in 1 .. Len(r) : r[i] = IF i = 1 THEN id ELSE q[i - 1]
  BY <1>1, PutElements
<1> HIDE DEF r
<1>3. /\ head = At(q, 1) /\ tail = At(q, Len(q))
      /\ \A i \in 1 .. Len(q) : /\ prev[q[i]] = At(q, i - 1)
                                /\ next[q[i]] = At(q, i + 1)
      /\ prev \in LinkMaps /\ next \in LinkMaps /\ head \in Ref
      /\ id # Nil
  BY CapAssumption DEF ListOf, Links, TypeOK, LinkMaps
<1>4. \A i \in 2 .. Len(r) : /\ i - 1 \in 1 .. Len(q) /\ r[i] = q[i - 1]
                             /\ q[i - 1] # id /\ q[i - 1] \in Ids
  BY <1>1, <1>2
<1>5. Distinct(r)
  <2>1. SUFFICES ASSUME NEW i \in 1 .. Len(r), NEW j \in 1 .. Len(r), r[i] = r[j]
                 PROVE  i = j
    BY DEF Distinct
  <2>2. CASE i = 1 \/ j = 1
    BY <1>1, <1>2, <1>4, <2>1, <2>2
  <2>3. CASE i # 1 /\ j # 1
    <3>1. i \in 2 .. Len(r) /\ j \in 2 .. Len(r)
      BY <1>1, <1>2, <2>3
    <3>2. i - 1 \in 1 .. Len(q) /\ j - 1 \in 1 .. Len(q) /\ q[i - 1] = q[j - 1]
      BY <1>4, <2>1, <3>1
    <3>3. i - 1 = j - 1
      BY <1>1, <3>2
    <3>4. QED
      BY <3>1, <3>3
  <2>4. QED
    BY <2>2, <2>3
<1>6. items \cup {id} = {r[i] : i \in 1 .. Len(r)}
  <2>1. ASSUME NEW i \in 1 .. Len(r)
        PROVE  r[i] \in items \cup {id}
    <3>1. CASE i = 1
      BY <1>2, <3>1
    <3>2. CASE i # 1
      <4>1. i \in 2 .. Len(r)
        BY <1>1, <1>2, <3>2
      <4>2. QED
        BY <1>1, <1>4, <4>1
    <3>3. QED
      BY <3>1, <3>2
  <2>2. ASSUME NEW x \in items
        PROVE  \E i \in 1 .. Len(r) : r[i] = x
    <3>1. PICK k \in 1 .. Len(q) : q[k] = x
      BY <1>1
    <3>2. k + 1 \in 1 .. Len(r) /\ r[k + 1] = q[k]
      BY <1>1, <1>2, <3>1
    <3>3. QED
      BY <3>1, <3>2
  <2>3. 1 \in 1 .. Len(r) /\ r[1] = id
    BY <1>1, <1>2
  <2>4. QED
    BY <2>1, <2>2, <2>3
<1>7. PushedTail(id) = r[Len(r)]
  BY <1>1, <1>2, <1>3 DEF PushedTail, At
<1>8. /\ PushedPrev(id) \in LinkMaps
      /\ \A x \in Ids : PushedPrev(id)[x] = IF x = head THEN id
                                            ELSE IF x = id THEN Nil ELSE prev[x]
  <2> DEFINE a == [prev EXCEPT ![id] = Nil]
  <2>1. a \in LinkMaps /\ \A x \in Ids : a[x] = IF x = id THEN Nil ELSE prev[x]
    BY <1>3 DEF LinkMaps, Ref
  <2>2. PushedPrev(id) = Set(a, head, id)
    BY DEF PushedPrev
  <2> HIDE DEF a
  <2>3. id \in Ref
    BY DEF Ref
  <2>4. /\ PushedPrev(id) \in LinkMaps
        /\ \A x \in Ids : PushedPrev(id)[x] = IF x = head THEN id ELSE a[x]
    BY <1>3, <2>1, <2>2, <2>3, SetElements
  <2>5. QED
    BY <2>1, <2>4
<1>9. /\ PushedNext(id) \in LinkMaps
      /\ \A x \in Ids : PushedNext(id)[x] = IF x = id THEN head ELSE next[x]
  BY <1>3 DEF PushedNext, LinkMaps
<1>10. ASSUME NEW i \in 1 .. Len(r)
       PROVE  /\ PushedPrev(id)[r[i]] = At(r, i - 1)
              /\ PushedNext(id)[r[i]] = At(r, i + 1)
  <2>1. CASE i = 1
    <3>1. /\ r[i] = id /\ At(r, i - 1) = Nil
          /\ At(r, i + 1) = IF Len(q) = 0 THEN Nil ELSE q[1]
      BY <1>1, <1>2, <2>1 DEF At
    <3>2. head = (IF Len(q) = 0 THEN Nil ELSE q[1]) /\ id # head
      BY <1>1, <1>3 DEF At
    <3>3. QED
      BY <1>3, <1>8, <1>9, <3>1, <3>2
  <2>2. CASE i # 1
    <3>1. i \in 2 .. Len(r) /\ i \in Nat
      BY <1>1, <1>2, <2>2
    <3>2. /\ i - 1 \in 1 .. Len(q) /\ r[i] = q[i - 1]
          /\ q[i - 1] # id /\ q[i - 1] \in Ids
      BY <1>4, <3>1
    <3>3. At(r, i - 1) = r[i - 1] /\ At(r, i + 1) = At(q, i)
      BY <1>1, <1>2, <3>1, <3>2 DEF At
    <3>4. PushedNext(id)[r[i]] = At(r, i + 1)
      <4>1. next[q[i - 1]] = At(q, i)
        <5>1. next[q[i - 1]] = At(q, (i - 1) + 1) /\ (i - 1) + 1 = i
          BY <1>3, <3>1, <3>2
        <5>2. QED
          BY <5>1
      <4>2. QED
        BY <1>9, <3>2, <3>3, <4>1
    <3>5. CASE i = 2
      <4>1. r[i] = head /\ At(r, i - 1) = id
        BY <1>1, <1>2, <1>3, <3>1, <3>2, <3>5 DEF At
      <4>2. QED
        BY <1>8, <3>2, <3>4, <4>1
    <3>6. CASE i # 2
      <4>1. /\ i - 2 \in 1 .. Len(q) /\ At(r, i - 1) = q[i - 2] /\ q[i - 1] # head
            /\ prev[q[i - 1]] = q[i - 2]
        <5>1. i - 2 \in 1 .. Len(q) /\ i - 1 # 1 /\ 1 \in 1 .. Len(q)
              /\ (i - 1) - 1 = i - 2
          BY <1>1, <3>1, <3>2, <3>6
        <5>2. q[i - 1] # q[1] /\ head = q[1]
          BY <1>1, <1>3, <3>2, <5>1 DEF At
        <5>3. prev[q[i - 1]] = At(q, i - 2)
          BY <1>3, <3>2, <5>1
        <5>4. r[i - 1] = q[i - 2]
          BY <1>1, <1>2, <3>1, <3>2, <5>1
        <5>5. QED
          BY <3>3, <5>1, <5>2, <5>3, <5>4 DEF At
      <4>2. QED
        BY <1>8, <3>2, <3>4, <4>1
    <3>7. QED
      BY <3>5, <3>6
  <2>3. QED
    BY <2>1, <2>2
<1>11. QED
  BY <1>2, <1>5, <1>6, <1>7, <1>8, <1>9, <1>10 DEF r

(* put of a page while the cache has room.                                  *)
LEMMA PutNewRelinks ==
  ASSUME TypeOK, NEW q, ListOf(q), NEW id \in Ids, NEW pg, PutNew(id, pg)
  PROVE  /\ ListOf(PutInFront(q, id))' /\ Len(q) < Cap
         /\ prev' \in LinkMaps /\ next' \in LinkMaps
         /\ head' \in Ref /\ tail' \in Ref
<1> DEFINE r == PutInFront(q, id)
<1>1. /\ id \notin items /\ Cardinality(items) < Cap
      /\ items' = items \cup {id}
      /\ prev' = PushedPrev(id) /\ next' = PushedNext(id)
      /\ head' = id /\ tail' = PushedTail(id)
  BY DEF PutNew
<1>2. /\ r \in Seq(Ids) /\ Len(r) = Len(q) + 1 /\ Distinct(r)
      /\ \A i \in 1 .. Len(r) : r[i] = IF i = 1 THEN id ELSE q[i - 1]
      /\ items \cup {id} = {r[i] : i \in 1 .. Len(r)}
      /\ PushedTail(id) = r[Len(r)]
      /\ PushedPrev(id) \in LinkMaps /\ PushedNext(id) \in LinkMaps
      /\ \A i \in 1 .. Len(r) : /\ PushedPrev(id)[r[i]] = At(r, i - 1)
                                /\ PushedNext(id)[r[i]] = At(r, i + 1)
  <2>1. id \notin items
    BY <1>1
  <2>2. QED
    BY <2>1, PushRelinks
<1>3. Len(q) \in Nat /\ Cardinality(items) = Len(q) /\ Cap \in Nat
  BY ListFacts, CapAssumption
<1> HIDE DEF r
<1>4. head' = At(r, 1) /\ tail' = At(r, Len(r)) /\ r[Len(r)] \in Ids
  BY <1>1, <1>2, <1>3, ElementOfSeq DEF At
<1>5. Links(r)'
  BY <1>1, <1>2, <1>4 DEF Links
<1>6. ListOf(r)'
  <2>1. Len(r) <= Cap
    BY <1>1, <1>2, <1>3
  <2>2. items' = {r[i] : i \in 1 .. Len(r)}
    BY <1>1, <1>2
  <2>3. QED
    BY <1>2, <1>5, <2>1, <2>2 DEF ListOf
<1>7. QED
  BY <1>1, <1>2, <1>3, <1>4, <1>6 DEF r, Ref

(* put of a page, and evict of the last entry.                              *)
LEMMA PutNewEvictingRelinks ==
  ASSUME TypeOK, NEW q, ListOf(q), NEW id \in Ids, NEW pg, PutNewEvicting(id, pg)
  PROVE  /\ ListOf(WithoutLast(PutInFront(q, id)))' /\ Len(q) = Cap
         /\ prev' \in LinkMaps /\ next' \in LinkMaps
         /\ head' \in Ref /\ tail' \in Ref
<1> DEFINE r == PutInFront(q, id)
           s == WithoutLast(r)
           b == BeforeLast(id)
<1>1. /\ id \notin items /\ Cardinality(items) >= Cap
      /\ items' = (items \cup {id}) \ {PushedTail(id)}
      /\ prev' = PushedPrev(id) /\ next' = Set(PushedNext(id), b, Nil)
      /\ head' = (IF b = Nil THEN Nil ELSE id) /\ tail' = b
      /\ b = PushedPrev(id)[PushedTail(id)]
  BY DEF PutNewEvicting, BeforeLast
<1>2. /\ r \in Seq(Ids) /\ Len(r) = Len(q) + 1 /\ Distinct(r)
      /\ \A i \in 1 .. Len(r) : r[i] = IF i = 1 THEN id ELSE q[i - 1]
      /\ items \cup {id} = {r[i] : i \in 1 .. Len(r)}
      /\ PushedTail(id) = r[Len(r)]
      /\ PushedPrev(id) \in LinkMaps /\ PushedNext(id) \in LinkMaps
      /\ \A i \in 1 .. Len(r) : /\ PushedPrev(id)[r[i]] = At(r, i - 1)
                                /\ PushedNext(id)[r[i]] = At(r, i + 1)
  <2>1. id \notin items
    BY <1>1
  <2>2. QED
    BY <2>1, PushRelinks
<1>3. Len(q) \in Nat /\ Len(q) = Cap /\ Cap \in Nat
  <2>1. Len(q) \in Nat /\ Cardinality(items) = Len(q) /\ Len(q) <= Cap
    BY ListFacts DEF ListOf
  <2>2. QED
    BY <1>1, <2>1, CapAssumption
<1> HIDE DEF r, b
<1>4. /\ s \in Seq(Ids) /\ Len(s) = Len(q)
      /\ \A i \in 1 .. Len(q) : s[i] = r[i]
  <2>1. Len(r) > 0 /\ Len(r) - 1 = Len(q) /\ r \in Seq(Ids)
    BY <1>2, <1>3
  <2>2. /\ s \in Seq(Ids) /\ Len(s) = Len(r) - 1
        /\ \A i \in 1 .. Len(r) - 1 : s[i] = r[i]
    BY <2>1, ShortElements
  <2>3. QED
    BY <2>1, <2>2
<1> HIDE DEF s
<1>5. /\ Len(r) \in 1 .. Len(r) /\ b = At(r, Len(q)) /\ b = At(s, Len(q))
      /\ \A i \in 1 .. Len(r) : r[i] \in Ids /\ r[i] # Nil
  BY <1>1, <1>2, <1>3, <1>4, CapAssumption, ElementOfSeq DEF At
<1>6. b \in Ref /\ (b = Nil <=> Len(q) = 0) /\ Nil \in Ref
  BY <1>2, <1>3, <1>5 DEF At, Ref
<1>7. /\ next' \in LinkMaps
      /\ \A x \in Ids : next'[x] = IF x = b THEN Nil ELSE PushedNext(id)[x]
  <2>1. next' = Set(PushedNext(id), b, Nil) /\ PushedNext(id) \in LinkMaps
    BY <1>1, <1>2
  <2>2. QED
    BY <1>6, <2>1, SetElements
<1>8. head' = At(s, 1) /\ tail' = At(s, Len(s))
  BY <1>1, <1>2, <1>3, <1>4, <1>5, <1>6 DEF At
<1>9. ASSUME NEW i \in 1 .. Len(s)
      PROVE  prev'[s[i]] = At(s, i - 1) /\ next'[s[i]] = At(s, i + 1)
  <2>1. /\ i \in 1 .. Len(r) /\ i \in 1 .. Len(q) /\ s[i] = r[i] /\ r[i] \in Ids
        /\ Len(q) \in 1 .. Len(r) /\ b = r[Len(q)]
    BY <1>2, <1>3, <1>4, <1>5 DEF At
  <2>2. prev'[s[i]] = At(s, i - 1)
    <3>1. At(r, i - 1) = At(s, i - 1)
      BY <1>2, <1>3, <1>4, <2>1 DEF At
    <3>2. QED
      BY <1>1, <1>2, <2>1, <3>1
  <2>3. r[i] = b <=> i = Len(q)
    BY <1>2, <2>1 DEF Distinct
  <2>4. CASE i = Len(q)
    BY <1>3, <1>4, <1>7, <2>1, <2>2, <2>3, <2>4 DEF At
  <2>5. CASE i # Len(q)
    <3>1. At(r, i + 1) = At(s, i + 1)
      BY <1>2, <1>3, <1>4, <2>1, <2>5 DEF At
    <3>2. QED
      BY <1>2, <1>7, <2>1, <2>2, <2>3, <2>5, <3>1
  <2>6. QED
    BY <2>4, <2>5
<1>10. Distinct(s)
  <2>1. SUFFICES ASSUME NEW i \in 1 .. Len(s), NEW j \in 1 .. Len(s), s[i] = s[j]
                 PROVE  i = j
    BY DEF Distinct
  <2>2. i \in 1 .. Len(r) /\ j \in 1 .. Len(r) /\ r[i] = r[j]
    BY <1>2, <1>3, <1>4, <2>1
  <2>3. QED
    BY <1>2, <2>2 DEF Distinct
<1>11. items' = {s[i] : i \in 1 .. Len(s)}
  <2>1. ASSUME NEW i \in 1 .. Len(s)
        PROVE  s[i] \in items'
    <3>1. i \in 1 .. Len(r) /\ s[i] = r[i] /\ i # Len(r) /\ Len(r) \in 1 .. Len(r)
      BY <1>2, <1>3, <1>4
    <3>2. r[i] # r[Len(r)]
      BY <1>2, <3>1 DEF Distinct
    <3>3. QED
      BY <1>1, <1>2, <3>1, <3>2
  <2>2. ASSUME NEW x \in items'
        PROVE  \E i \in 1 .. Len(s) : s[i] = x
    <3>1. PICK i \in 1 .. Len(r) : r[i] = x /\ x # r[Len(r)]
      BY <1>1, <1>2
    <3>2. i \in 1 .. Len(s) /\ s[i] = r[i]
      BY <1>2, <1>3, <1>4, <3>1
    <3>3. QED
      BY <3>1, <3>2
  <2>3. QED
    BY <2>1, <2>2
<1>12. Links(s)'
  BY <1>8, <1>9 DEF Links
<1>13. ListOf(s)'
  BY <1>3, <1>4, <1>10, <1>11, <1>12 DEF ListOf
<1>14. head' \in Ref /\ tail' \in Ref
  BY <1>1, <1>6 DEF Ref
<1>15. QED
  BY <1>1, <1>2, <1>3, <1>7, <1>13, <1>14 DEF s, r
-----------------------------------------------------------------------------
LEMMA InitLists == Init => IInv
<1>1. SUFFICES ASSUME Init PROVE IInv
  OBVIOUS
<1>2. TypeOK
  BY <1>1 DEF Init, TypeOK, Ref
<1>3. ListOf(<< >>)
  <2>1. << >> \in Seq(Ids) /\ Len(<< >>) = 0
    OBVIOUS
  <2>2. Links(<< >>)
    BY <1>1, <2>1 DEF Init, Links, At
  <2>3. items = {<< >>[i] : i \in 1 .. Len(<< >>)}
    BY <1>1, <2>1 DEF Init
  <2>4. QED
    BY <2>1, <2>2, <2>3, CapAssumption DEF ListOf, Distinct
<1>4. QED
  BY <1>2, <1>3 DEF IInv

(* Every get and put leaves a list.                                         *)
LEMMA NextKeepsList == IInv /\ [Next]_vars => IInv'
<1>1. SUFFICES ASSUME IInv, [Next]_vars PROVE IInv'
  OBVIOUS
<1>2. TypeOK
  BY <1>1 DEF IInv
<1>3. PICK q : ListOf(q)
  BY <1>1 DEF IInv
<1>4. /\ q \in Seq(Ids) /\ \A x \in items : \E i \in 1 .. Len(q) : q[i] = x
      /\ items \subseteq Ids
  BY <1>2, <1>3, ListFacts DEF TypeOK
<1>5. CASE UNCHANGED vars \/ \E id \in Ids : GetMiss(id)
  <2>1. /\ UNCHANGED <<items, page, prev, next, head, tail>>
        /\ \/ last' = last
           \/ \E id \in Ids : last' = [op |-> "get", id |-> id, page |-> Nil]
    BY <1>5 DEF vars, GetMiss
  <2>2. ListOf(q)'
    BY <1>3, <2>1 DEF ListOf, Links
  <2>3. TypeOK'
    BY <1>2, <2>1 DEF TypeOK
  <2>4. QED
    BY <2>2, <2>3 DEF IInv
<1>6. CASE \E id \in Ids : GetHit(id) \/ \E pg \in Pages : PutExisting(id, pg)
  <2>1. PICK id \in Ids : GetHit(id) \/ \E pg \in Pages : PutExisting(id, pg)
    BY <1>6
  <2>2. /\ id \in items /\ items' = items /\ MoveToFront(id)
        /\ page' \in [Ids -> Pages \cup {Nil}]
        /\ last' \in [op : {"get", "put"}, id : Ids, page : Pages \cup {Nil}]
    BY <1>2, <2>1 DEF GetHit, PutExisting, TypeOK
  <2>3. PICK p \in 1 .. Len(q) : q[p] = id
    BY <1>4, <2>2
  <2>4. /\ ListOf(MovedToFront(q, p, q[p]))'
        /\ prev' \in [Ids -> Ref] /\ next' \in [Ids -> Ref]
        /\ head' \in Ref /\ tail' \in Ref
    BY <1>2, <1>3, <2>2, <2>3, MoveRelinks
  <2>5. TypeOK'
    BY <1>2, <2>2, <2>4 DEF TypeOK
  <2>6. QED
    BY <2>4, <2>5 DEF IInv
<1>7. CASE \E id \in Ids, pg \in Pages : PutNew(id, pg)
  <2>1. PICK id \in Ids, pg \in Pages : PutNew(id, pg)
    BY <1>7
  <2>2. /\ items' \subseteq Ids /\ page' \in [Ids -> Pages \cup {Nil}]
        /\ last' \in [op : {"get", "put"}, id : Ids, page : Pages \cup {Nil}]
    BY <1>2, <2>1 DEF PutNew, TypeOK
  <2>3. /\ ListOf(PutInFront(q, id))'
        /\ prev' \in LinkMaps /\ next' \in LinkMaps
        /\ head' \in Ref /\ tail' \in Ref
    BY <1>2, <1>3, <2>1, PutNewRelinks
  <2>4. TypeOK'
    BY <2>2, <2>3 DEF TypeOK, LinkMaps
  <2>5. QED
    BY <2>3, <2>4 DEF IInv
<1>8. CASE \E id \in Ids, pg \in Pages : PutNewEvicting(id, pg)
  <2>1. PICK id \in Ids, pg \in Pages : PutNewEvicting(id, pg)
    BY <1>8
  <2>2. /\ items' \subseteq Ids /\ page' \in [Ids -> Pages \cup {Nil}]
        /\ last' \in [op : {"get", "put"}, id : Ids, page : Pages \cup {Nil}]
    BY <1>2, <2>1 DEF PutNewEvicting, TypeOK
  <2>3. /\ ListOf(WithoutLast(PutInFront(q, id)))'
        /\ prev' \in LinkMaps /\ next' \in LinkMaps
        /\ head' \in Ref /\ tail' \in Ref
    BY <1>2, <1>3, <2>1, PutNewEvictingRelinks
  <2>4. TypeOK'
    BY <2>2, <2>3 DEF TypeOK, LinkMaps
  <2>5. QED
    BY <2>3, <2>4 DEF IInv
<1>9. QED
  BY <1>1, <1>5, <1>6, <1>7, <1>8 DEF Next

LEMMA IInvHolds == Spec => []IInv
  BY InitLists, NextKeepsList, PTL DEF Spec

(* The walk of the model follows the sequence.                              *)
LEMMA WalkOfList ==
  ASSUME TypeOK, NEW q, ListOf(q)
  PROVE  \A n \in 0 .. Len(q) : Walk[n] = At(q, n + 1)
<1>1. q \in Seq(Ids) /\ Cardinality(items) = Len(q)
  BY ListFacts
<1>2. head = At(q, 1) /\ \A i \in 1 .. Len(q) : next[q[i]] = At(q, i + 1)
  BY DEF ListOf, Links
<1>3. Walk = Followed(head, next, Len(q))
  BY <1>1 DEF Walk, Followed
<1>4. QED
  BY <1>1, <1>2, <1>3, WalkElements

(* evict, moveToFront and put: no relinking loses, repeats or strands an    *)
(* entry, and no more pages are cached than the capacity, in any order of   *)
(* gets and puts of any pages.                                              *)
THEOREM ListIsMap == Spec => []ListMatchesMap
<1>1. IInv => ListMatchesMap
  <2>1. SUFFICES ASSUME IInv PROVE ListMatchesMap
    OBVIOUS
  <2>2. TypeOK
    BY <2>1 DEF IInv
  <2>3. PICK q : ListOf(q)
    BY <2>1 DEF IInv
  <2>4. /\ q \in Seq(Ids) /\ Len(q) \in Nat
        /\ \A i \in 1 .. Len(q) : q[i] \in items /\ q[i] \in Ids /\ q[i] # Nil
        /\ \A x \in items : \E i \in 1 .. Len(q) : q[i] = x
        /\ Cardinality(items) = Len(q)
    BY <2>2, <2>3, ListFacts
  <2>5. \A n \in 0 .. Len(q) : Walk[n] = At(q, n + 1)
    BY <2>2, <2>3, WalkOfList
  <2>6. /\ Len(q) <= Cap /\ head = At(q, 1) /\ tail = At(q, Len(q))
        /\ \A i \in 1 .. Len(q) : /\ prev[q[i]] = At(q, i - 1)
                                  /\ next[q[i]] = At(q, i + 1)
    BY <2>3 DEF ListOf, Links
  <2>7. {Walk[n] : n \in 0 .. Len(q)} \ {Nil} = items
    <3>1. ASSUME NEW n \in 0 .. Len(q), Walk[n] # Nil
          PROVE  Walk[n] \in items
      BY <2>4, <2>5, <3>1 DEF At
    <3>2. ASSUME NEW x \in items
          PROVE  x # Nil /\ \E n \in 0 .. Len(q) : Walk[n] = x
      <4>1. PICK i \in 1 .. Len(q) : q[i] = x
        BY <2>4
      <4>2. i - 1 \in 0 .. Len(q) /\ At(q, (i - 1) + 1) = q[i]
        BY <2>4, <4>1 DEF At
      <4>3. Walk[i - 1] = q[i]
        BY <2>5, <4>2
      <4>4. QED
        BY <2>4, <4>1, <4>2, <4>3
    <3>3. QED
      BY <3>1, <3>2
  <2>8. ASSUME NEW n \in 0 .. Len(q) - 1
        PROVE  /\ Walk[n] \in items
               /\ prev[Walk[n]] = IF n = 0 THEN Nil ELSE Walk[n - 1]
               /\ n = Len(q) - 1 => Walk[n] = tail /\ next[Walk[n]] = Nil
    <3>1. n + 1 \in 1 .. Len(q) /\ Walk[n] = q[n + 1] /\ (n + 1) - 1 = n
      BY <2>4, <2>5 DEF At
    <3>2. prev[Walk[n]] = At(q, n) /\ next[Walk[n]] = At(q, (n + 1) + 1)
      BY <2>6, <3>1
    <3>3. At(q, n) = IF n = 0 THEN Nil ELSE Walk[n - 1]
      <4>1. CASE n = 0
        BY <4>1 DEF At
      <4>2. CASE n # 0
        <5>1. n - 1 \in 0 .. Len(q) /\ (n - 1) + 1 = n
          BY <2>4, <4>2
        <5>2. QED
          BY <2>5, <4>2, <5>1
      <4>3. QED
        BY <4>1, <4>2
    <3>4. n = Len(q) - 1 => q[n + 1] = tail /\ At(q, (n + 1) + 1) = Nil
      BY <2>4, <2>6, <3>1 DEF At
    <3>5. QED
      BY <2>4, <3>1, <3>2, <3>3, <3>4
  <2>9. items = {} => head = Nil /\ tail = Nil
    BY <2>4, <2>6 DEF At
  <2>10. QED
    BY <2>4, <2>6, <2>7, <2>8, <2>9 DEF ListMatchesMap
<1>2. QED
  BY <1>1, IInvHolds, PTL
-----------------------------------------------------------------------------
(* What module LRU does to its sequence, element by element.                *)
Entries == [id : Ids, page : Pages \cup {Nil}]

Once(c) == \A i, j \in 1 .. Len(c) : c[i].id = c[j].id => i = j

LEMMA CachedPosition ==
  ASSUME NEW c \in Seq(Entries), Once(c), NEW p \in 1 .. Len(c)
  PROVE  /\ c[p].id \in LRUOrder!Cached(c)
         /\ LRUOrder!Position(c, c[p].id) = p
<1>1. DOMAIN c = 1 .. Len(c)
  OBVIOUS
<1>2. \A i \in 1 .. Len(c) : c[i].id = c[p].id <=> i = p
  BY DEF Once
<1>3. QED
  BY <1>1, <1>2 DEF LRUOrder!Cached, LRUOrder!Position

(* A page that is cached moves to the front.                                *)
LEMMA FrontOfRest ==
  ASSUME NEW c \in Seq(Entries), Once(c), NEW p \in 1 .. Len(c), NEW e \in Entries
  PROVE  <<e>> \o LRUOrder!WithoutId(c, c[p].id) = MovedToFront(c, p, e)
<1> DEFINE w == LRUOrder!WithoutId(c, c[p].id)
           d == MovedToFront(c, p, e)
           f == <<e>> \o w
<1>0. Len(c) \in Nat
  OBVIOUS
<1>1. w = RemoveAt(c, p)
  BY CachedPosition DEF LRUOrder!WithoutId, LRUOrder!RemoveAt, RemoveAt
<1> HIDE DEF w
<1>2. /\ w \in Seq(Entries) /\ Len(w) = Len(c) - 1
      /\ \A j \in 1 .. Len(c) - 1 : w[j] = IF j < p THEN c[j] ELSE c[j + 1]
  BY <1>1, RemoveAtElements
<1>3. /\ d \in Seq(Entries) /\ Len(d) = Len(c)
      /\ \A i \in 1 .. Len(c) :
           d[i] = IF i = 1 THEN e ELSE IF i <= p THEN c[i - 1] ELSE c[i]
  BY MovedElements
<1> HIDE DEF d
<1>4. /\ f \in Seq(Entries) /\ Len(f) = Len(c)
      /\ \A i \in 1 .. Len(c) : f[i] = IF i = 1 THEN e ELSE w[i - 1]
  <2>1. <<e>> \in Seq(Entries) /\ Len(<<e>>) = 1 /\ <<e>>[1] = e
    OBVIOUS
  <2>2. /\ f \in Seq(Entries) /\ Len(f) = 1 + Len(w)
        /\ \A i \in 1 .. 1 + Len(w) : f[i] = IF i <= 1 THEN <<e>>[i] ELSE w[i - 1]
    BY <1>2, <2>1, ConcatProperties
  <2>3. QED
    BY <1>0, <1>2, <2>1, <2>2
<1> HIDE DEF f
<1>5. ASSUME NEW i \in 1 .. Len(c)
      PROVE  f[i] = d[i]
  <2>1. CASE i = 1
    BY <1>3, <1>4, <2>1
  <2>2. CASE i # 1
    <3>1. i - 1 \in 1 .. Len(c) - 1 /\ f[i] = w[i - 1] /\ (i - 1) + 1 = i
      BY <1>0, <1>4, <2>2
    <3>2. w[i - 1] = IF i - 1 < p THEN c[i - 1] ELSE c[i]
      BY <1>2, <3>1
    <3>3. i - 1 < p <=> i <= p
      BY <1>0
    <3>4. QED
      BY <1>3, <2>2, <3>1, <3>2, <3>3
  <2>3. QED
    BY <2>1, <2>2
<1>6. f = d
  BY <1>3, <1>4, <1>5, SeqEqual
<1>7. QED
  BY <1>6 DEF f, w, d

LEMMA TouchedIs ==
  ASSUME NEW c \in Seq(Entries), Once(c), NEW p \in 1 .. Len(c)
  PROVE  /\ c[p].id \in LRUOrder!Cached(c)
         /\ LRUOrder!Entry(c, c[p].id) = c[p]
         /\ LRUOrder!Touched(c, c[p].id) = MovedToFront(c, p, c[p])
<1>1. c[p].id \in LRUOrder!Cached(c) /\ LRUOrder!Entry(c, c[p].id) = c[p]
  BY CachedPosition DEF LRUOrder!Entry
<1>2. c[p] \in Entries
  BY ElementOfSeq
<1>3. QED
  BY <1>1, <1>2, FrontOfRest DEF LRUOrder!Touched

LEMMA PutCachedIs ==
  ASSUME NEW c \in Seq(Entries), Once(c), Len(c) <= Cap,
         NEW p \in 1 .. Len(c), NEW pg \in Pages
  PROVE  LRUOrder!WithPage(c, c[p].id, pg) =
           MovedToFront(c, p, [id |-> c[p].id, page |-> pg])
<1> DEFINE e == [id |-> c[p].id, page |-> pg]
           d == <<e>> \o LRUOrder!WithoutId(c, c[p].id)
<1>1. e \in Entries
  <2>1. c[p] \in Entries
    BY ElementOfSeq
  <2>2. QED
    BY <2>1 DEF Entries
<1>2. d = MovedToFront(c, p, e)
  <2> HIDE DEF e
  <2>1. QED
    BY <1>1, FrontOfRest
<1>3. Len(MovedToFront(c, p, e)) = Len(c)
  <2> HIDE DEF e
  <2>1. QED
    BY <1>1, MovedElements
<1>4. LRUOrder!WithPage(c, c[p].id, pg) = IF Len(d) > Cap THEN LRUOrder!Front(d) ELSE d
  BY DEF LRUOrder!WithPage
<1> HIDE DEF d
<1>5. ~(Len(d) > Cap)
  BY <1>2, <1>3, CapAssumption
<1>6. QED
  BY <1>2, <1>4, <1>5

LEMMA PutNewIs ==
  ASSUME NEW c \in Seq(Entries), NEW id \in Ids, NEW pg \in Pages,
         \A i \in 1 .. Len(c) : c[i].id # id
  PROVE  LET d == PutInFront(c, [id |-> id, page |-> pg])
         IN  LRUOrder!WithPage(c, id, pg) =
               IF Len(c) + 1 > Cap THEN WithoutLast(d) ELSE d
<1> DEFINE e == [id |-> id, page |-> pg]
           d == PutInFront(c, e)
           f == <<e>> \o c
<1>0. e \in Entries /\ Len(c) \in Nat /\ DOMAIN c = 1 .. Len(c)
  BY DEF Entries
<1>1. LRUOrder!WithoutId(c, id) = c
  BY <1>0 DEF LRUOrder!WithoutId, LRUOrder!Cached
<1>2. LRUOrder!WithPage(c, id, pg) =
        IF Len(f) > Cap THEN SubSeq(f, 1, Len(f) - 1) ELSE f
  BY <1>1 DEF LRUOrder!WithPage, LRUOrder!Front
<1> HIDE DEF e
<1>3. /\ d \in Seq(Entries) /\ Len(d) = Len(c) + 1
      /\ \A i \in 1 .. Len(c) + 1 : d[i] = IF i = 1 THEN e ELSE c[i - 1]
  <2>1. \A i \in 1 .. Len(c) : c[i] \in Entries
    BY ElementOfSeq
  <2>2. d = [i \in 1 .. Len(c) + 1 |-> IF i = 1 THEN e ELSE c[i - 1]]
    BY DEF PutInFront
  <2> HIDE DEF d
  <2>3. d \in [1 .. Len(c) + 1 -> Entries]
    BY <1>0, <2>1, <2>2
  <2>4. QED
    BY <1>0, <2>2, <2>3
<1>4. /\ f \in Seq(Entries) /\ Len(f) = Len(c) + 1
      /\ \A i \in 1 .. Len(c) + 1 : f[i] = IF i = 1 THEN e ELSE c[i - 1]
  <2>1. <<e>> \in Seq(Entries) /\ Len(<<e>>) = 1 /\ <<e>>[1] = e
    BY <1>0
  <2>2. /\ f \in Seq(Entries) /\ Len(f) = 1 + Len(c)
        /\ \A i \in 1 .. 1 + Len(c) : f[i] = IF i <= 1 THEN <<e>>[i] ELSE c[i - 1]
    BY <2>1, ConcatProperties
  <2>3. QED
    BY <1>0, <2>1, <2>2
<1> HIDE DEF d, f
<1>5. f = d
  BY <1>3, <1>4, SeqEqual
<1>6. SubSeq(d, 1, Len(d) - 1) = WithoutLast(d)
  <2> DEFINE u == SubSeq(d, 1, Len(d) - 1)
             v == WithoutLast(d)
  <2>1. /\ u \in Seq(Entries) /\ Len(u) = Len(d) - 1
        /\ \A i \in 1 .. Len(d) - 1 : u[i] = d[i]
    <3>1. \A i \in 1 .. Len(d) - 1 : d[i] \in Entries
      BY <1>0, <1>3, ElementOfSeq
    <3>2. QED
      BY <1>0, <1>3, <3>1, SubSeqProperties
  <2>2. /\ v \in Seq(Entries) /\ Len(v) = Len(d) - 1
        /\ \A i \in 1 .. Len(d) - 1 : v[i] = d[i]
    <3>1. Len(d) > 0
      BY <1>0, <1>3
    <3>2. QED
      BY <1>3, <3>1, ShortElements
  <2> HIDE DEF u, v
  <2>3. u = v
    BY <2>1, <2>2, SeqEqual
  <2>4. QED
    BY <2>3 DEF u, v
<1>7. QED
  BY <1>2, <1>4, <1>5, <1>6 DEF d, e
-----------------------------------------------------------------------------
PageMaps == [Ids -> Pages \cup {Nil}]

LEMMA ContentsElements ==
  ASSUME NEW q \in Seq(Ids), NEW pages \in PageMaps
  PROVE  LET c == Contents(q, pages)
         IN  /\ c \in Seq(Entries) /\ Len(c) = Len(q)
             /\ \A i \in 1 .. Len(q) : c[i] = [id |-> q[i], page |-> pages[q[i]]]
             /\ \A i \in 1 .. Len(q) : c[i].id = q[i] /\ c[i].page = pages[q[i]]
             /\ Distinct(q) => Once(c)
<1> DEFINE c == Contents(q, pages)
<1>1. Len(q) \in Nat /\ \A i \in 1 .. Len(q) : q[i] \in Ids
  BY ElementOfSeq
<1>2. \A i \in 1 .. Len(q) : [id |-> q[i], page |-> pages[q[i]]] \in Entries
  BY <1>1 DEF PageMaps, Entries
<1>3. c \in [1 .. Len(q) -> Entries]
  BY <1>2 DEF Contents
<1>4. c \in Seq(Entries) /\ Len(c) = Len(q)
  BY <1>1, <1>3
<1>5. /\ \A i \in 1 .. Len(q) : c[i] = [id |-> q[i], page |-> pages[q[i]]]
      /\ \A i \in 1 .. Len(q) : c[i].id = q[i] /\ c[i].page = pages[q[i]]
  BY DEF Contents
<1> HIDE DEF c
<1>6. Distinct(q) => Once(c)
  BY <1>4, <1>5 DEF Distinct, Once
<1>7. QED
  BY <1>4, <1>5, <1>6 DEF c

(* The same for sequences of ids.                                           *)
LEMMA MovedIds ==
  ASSUME NEW q \in Seq(Ids), NEW p \in 1 .. Len(q), NEW e \in Ids
  PROVE  LET r == MovedToFront(q, p, e)
         IN  /\ r \in Seq(Ids) /\ Len(r) = Len(q)
             /\ \A i \in 1 .. Len(q) :
                  r[i] = IF i = 1 THEN e ELSE IF i <= p THEN q[i - 1] ELSE q[i]
<1> DEFINE r == MovedToFront(q, p, e)
<1>1. Len(q) \in Nat /\ \A i \in 1 .. Len(q) : q[i] \in Ids
  BY ElementOfSeq
<1>2. \A i \in 1 .. Len(q) :
        (IF i = 1 THEN e ELSE IF i <= p THEN q[i - 1] ELSE q[i]) \in Ids
  BY <1>1
<1>3. r \in [1 .. Len(q) -> Ids]
  BY <1>2 DEF MovedToFront
<1>4. r \in Seq(Ids) /\ Len(r) = Len(q)
  BY <1>1, <1>3
<1>5. QED
  BY <1>4 DEF MovedToFront

(* Relinking the list and changing the sequence come to the same.           *)
LEMMA MovedContents ==
  ASSUME NEW q \in Seq(Ids), Distinct(q), NEW p \in 1 .. Len(q),
         NEW a \in PageMaps, NEW b \in PageMaps,
         \A x \in Ids : x # q[p] => b[x] = a[x]
  PROVE  Contents(MovedToFront(q, p, q[p]), b) =
           MovedToFront(Contents(q, a), p, [id |-> q[p], page |-> b[q[p]]])
<1> DEFINE x == q[p]
           e == [id |-> x, page |-> b[x]]
           r == MovedToFront(q, p, x)
           c == Contents(q, a)
           u == Contents(r, b)
           v == MovedToFront(c, p, e)
<1>1. Len(q) \in Nat /\ \A i \in 1 .. Len(q) : q[i] \in Ids
  BY ElementOfSeq
<1>2. e \in Entries /\ x \in Ids
  BY <1>1 DEF Entries, PageMaps
<1>3. /\ r \in Seq(Ids) /\ Len(r) = Len(q)
      /\ \A i \in 1 .. Len(q) :
           r[i] = IF i = 1 THEN x ELSE IF i <= p THEN q[i - 1] ELSE q[i]
  <2>1. x \in Ids
    BY <1>2
  <2>2. QED
    BY <2>1, MovedIds
<1>4. /\ c \in Seq(Entries) /\ Len(c) = Len(q)
      /\ \A i \in 1 .. Len(q) : c[i] = [id |-> q[i], page |-> a[q[i]]]
  BY ContentsElements
<1> HIDE DEF r, c
<1>5. /\ u \in Seq(Entries) /\ Len(u) = Len(q)
      /\ \A i \in 1 .. Len(q) : u[i] = [id |-> r[i], page |-> b[r[i]]]
  BY <1>3, ContentsElements
<1>6. /\ v \in Seq(Entries) /\ Len(v) = Len(q)
      /\ \A i \in 1 .. Len(q) :
           v[i] = IF i = 1 THEN e ELSE IF i <= p THEN c[i - 1] ELSE c[i]
  <2> HIDE DEF e
  <2>1. p \in 1 .. Len(c)
    BY <1>4
  <2>2. QED
    BY <1>2, <1>4, <2>1, MovedElements
<1> HIDE DEF u, v
<1>7. ASSUME NEW i \in 1 .. Len(q)
      PROVE  u[i] = v[i]
  <2>1. CASE i = 1
    BY <1>3, <1>5, <1>6, <2>1
  <2>2. CASE i # 1 /\ i <= p
    <3>1. i - 1 \in 1 .. Len(q) /\ i - 1 # p
      BY <1>1, <2>2
    <3>2. q[i - 1] \in Ids /\ q[i - 1] # q[p]
      BY <1>1, <3>1 DEF Distinct
    <3>3. u[i] = [id |-> q[i - 1], page |-> b[q[i - 1]]]
      BY <1>3, <1>5, <2>2
    <3>4. v[i] = [id |-> q[i - 1], page |-> a[q[i - 1]]]
      BY <1>4, <1>6, <2>2, <3>1
    <3>5. QED
      BY <3>2, <3>3, <3>4
  <2>3. CASE i > p
    <3>1. q[i] \in Ids /\ q[i] # q[p] /\ i # 1 /\ ~(i <= p)
      BY <1>1, <2>3 DEF Distinct
    <3>2. u[i] = [id |-> q[i], page |-> b[q[i]]]
      BY <1>3, <1>5, <3>1
    <3>3. v[i] = [id |-> q[i], page |-> a[q[i]]]
      BY <1>4, <1>6, <3>1
    <3>4. QED
      BY <3>1, <3>2, <3>3
  <2>4. QED
    BY <1>1, <2>1, <2>2, <2>3
<1>8. u = v
  BY <1>5, <1>6, <1>7, SeqEqual
<1>9. QED
  BY <1>8 DEF u, v, c, r, e, x

LEMMA PutContents ==
  ASSUME NEW q \in Seq(Ids), NEW id \in Ids, \A i \in 1 .. Len(q) : q[i] # id,
         NEW a \in PageMaps, NEW b \in PageMaps,
         \A x \in Ids : x # id => b[x] = a[x]
  PROVE  Contents(PutInFront(q, id), b) =
           PutInFront(Contents(q, a), [id |-> id, page |-> b[id]])
<1> DEFINE e == [id |-> id, page |-> b[id]]
           r == PutInFront(q, id)
           c == Contents(q, a)
           u == Contents(r, b)
           v == PutInFront(c, e)
<1>1. Len(q) \in Nat /\ \A i \in 1 .. Len(q) : q[i] \in Ids
  BY ElementOfSeq
<1>2. e \in Entries
  BY DEF Entries, PageMaps
<1>3. /\ r \in Seq(Ids) /\ Len(r) = Len(q) + 1
      /\ \A i \in 1 .. Len(q) + 1 : r[i] = IF i = 1 THEN id ELSE q[i - 1]
  BY PutElements
<1>4. /\ c \in Seq(Entries) /\ Len(c) = Len(q)
      /\ \A i \in 1 .. Len(q) : c[i] = [id |-> q[i], page |-> a[q[i]]]
  BY ContentsElements
<1> HIDE DEF r, c
<1>5. /\ u \in Seq(Entries) /\ Len(u) = Len(q) + 1
      /\ \A i \in 1 .. Len(q) + 1 : u[i] = [id |-> r[i], page |-> b[r[i]]]
  BY <1>3, ContentsElements
<1>6. /\ v \in Seq(Entries) /\ Len(v) = Len(q) + 1
      /\ \A i \in 1 .. Len(q) + 1 : v[i] = IF i = 1 THEN e ELSE c[i - 1]
  <2> HIDE DEF e
  <2>1. QED
    BY <1>2, <1>4, PutElements
<1> HIDE DEF u, v
<1>7. ASSUME NEW i \in 1 .. Len(q) + 1
      PROVE  u[i] = v[i]
  <2>1. CASE i = 1
    BY <1>3, <1>5, <1>6, <2>1
  <2>2. CASE i # 1
    <3>1. i - 1 \in 1 .. Len(q)
      BY <1>1, <2>2
    <3>2. b[q[i - 1]] = a[q[i - 1]]
      BY <1>1, <3>1
    <3>3. u[i] = [id |-> q[i - 1], page |-> b[q[i - 1]]]
      BY <1>3, <1>5, <2>2
    <3>4. v[i] = [id |-> q[i - 1], page |-> a[q[i - 1]]]
      BY <1>4, <1>6, <2>2, <3>1
    <3>5. QED
      BY <3>2, <3>3, <3>4
  <2>3. QED
    BY <2>1, <2>2
<1>8. u = v
  BY <1>1, <1>5, <1>6, <1>7, SeqEqual
<1>9. QED
  BY <1>8 DEF u, v, c, r, e

LEMMA ShortContents ==
  ASSUME NEW q \in Seq(Ids), Len(q) > 0, NEW a \in PageMaps
  PROVE  Contents(WithoutLast(q), a) = WithoutLast(Contents(q, a))
<1> DEFINE r == WithoutLast(q)
           c == Contents(q, a)
           u == Contents(r, a)
           v == WithoutLast(c)
<1>1. Len(q) \in Nat
  OBVIOUS
<1>2. /\ r \in Seq(Ids) /\ Len(r) = Len(q) - 1
      /\ \A i \in 1 .. Len(q) - 1 : r[i] = q[i]
  BY ShortElements
<1>3. /\ c \in Seq(Entries) /\ Len(c) = Len(q)
      /\ \A i \in 1 .. Len(q) : c[i] = [id |-> q[i], page |-> a[q[i]]]
  BY ContentsElements
<1> HIDE DEF r, c
<1>4. /\ u \in Seq(Entries) /\ Len(u) = Len(q) - 1
      /\ \A i \in 1 .. Len(q) - 1 : u[i] = [id |-> r[i], page |-> a[r[i]]]
  BY <1>2, ContentsElements
<1>5. /\ v \in Seq(Entries) /\ Len(v) = Len(q) - 1
      /\ \A i \in 1 .. Len(q) - 1 : v[i] = c[i]
  BY <1>3, ShortElements
<1> HIDE DEF u, v
<1>6. ASSUME NEW i \in 1 .. Len(q) - 1
      PROVE  u[i] = v[i]
  <2>1. i \in 1 .. Len(q)
    BY <1>1
  <2>2. u[i] = [id |-> q[i], page |-> a[q[i]]] /\ v[i] = c[i]
    BY <1>2, <1>4, <1>5
  <2>3. QED
    BY <1>3, <2>1, <2>2
<1>7. u = v
  BY <1>4, <1>5, <1>6, SeqEqual
<1>8. QED
  BY <1>7 DEF u, v, c, r
-----------------------------------------------------------------------------
(* The value the refinement gives to the sequence of module LRU.            *)
Order == [n \in 1 .. Cardinality(items) |->
            [id |-> Walk[n - 1], page |-> page[Walk[n - 1]]]]

(* The same of the first m entries behind h.                                *)
OrderOf(m, h, nx, pages) ==
  LET w == Followed(h, nx, m)
  IN  [n \in 1 .. m |-> [id |-> w[n - 1], page |-> pages[w[n - 1]]]]

LEMMA OrderIs ==
  ASSUME NEW q \in Seq(Ids), NEW h, NEW nx, NEW pages,
         h = At(q, 1), \A i \in 1 .. Len(q) : nx[q[i]] = At(q, i + 1)
  PROVE  OrderOf(Len(q), h, nx, pages) = Contents(q, pages)
<1> DEFINE w == Followed(h, nx, Len(q))
<1>1. Len(q) \in Nat
  OBVIOUS
<1>2. \A n \in 0 .. Len(q) : w[n] = At(q, n + 1)
  BY WalkElements
<1>3. OrderOf(Len(q), h, nx, pages) =
        [n \in 1 .. Len(q) |-> [id |-> w[n - 1], page |-> pages[w[n - 1]]]]
  BY DEF OrderOf
<1> HIDE DEF w
<1>4. ASSUME NEW n \in 1 .. Len(q)
      PROVE  w[n - 1] = q[n]
  <2>1. n - 1 \in 0 .. Len(q) /\ (n - 1) + 1 = n
    BY <1>1
  <2>2. w[n - 1] = At(q, (n - 1) + 1)
    BY <1>2, <2>1
  <2>3. At(q, n) = q[n]
    BY DEF At
  <2>4. QED
    BY <2>1, <2>2, <2>3
<1>5. QED
  BY <1>3, <1>4 DEF Contents

(* The abstract value of a state whose links are those of q, and of the     *)
(* state after it.                                                          *)
LEMMA OrderOfList ==
  ASSUME NEW q, ListOf(q)
  PROVE  Order = Contents(q, page)
<1>1. /\ q \in Seq(Ids) /\ Distinct(q) /\ items = {q[i] : i \in 1 .. Len(q)}
      /\ head = At(q, 1) /\ \A i \in 1 .. Len(q) : next[q[i]] = At(q, i + 1)
  BY DEF ListOf, Links
<1>2. OrderOf(Len(q), head, next, page) = Contents(q, page)
  BY <1>1, OrderIs
<1>3. Cardinality(items) = Len(q)
  BY <1>1, DistinctCount
<1>4. Order = OrderOf(Cardinality(items), head, next, page)
  BY DEF Order, OrderOf, Walk, Followed
<1>5. QED
  BY <1>2, <1>3, <1>4

LEMMA OrderOfNextList ==
  ASSUME NEW q, ListOf(q)'
  PROVE  Order' = Contents(q, page')
<1>1. /\ q \in Seq(Ids) /\ Distinct(q) /\ items' = {q[i] : i \in 1 .. Len(q)}
      /\ head' = At(q, 1) /\ \A i \in 1 .. Len(q) : next'[q[i]] = At(q, i + 1)
  BY DEF ListOf, Links
<1>2. OrderOf(Len(q), head', next', page') = Contents(q, page')
  BY <1>1, OrderIs
<1>3. Cardinality(items') = Len(q)
  BY <1>1, DistinctCount
<1>4. Order' = OrderOf(Cardinality(items'), head', next', page')
  BY DEF Order, OrderOf, Walk, Followed
<1>5. QED
  BY <1>2, <1>3, <1>4
-----------------------------------------------------------------------------
(* Whatever the order of gets and puts, the linked list caches the pages    *)
(* that module LRU caches, in its order: the page evicted is the one used   *)
(* longest ago, and a get answers the page last put.                        *)
THEOREM CacheIsLRU == Spec => ImplementsLRU
<1>1. Init => LRUOrder!Init
  <2>1. SUFFICES ASSUME Init PROVE LRUOrder!Init
    OBVIOUS
  <2>2. items = {}
    BY <2>1 DEF Init
  <2>3. Cardinality(items) = 0
    BY <2>2, FS_EmptySet
  <2>4. Order = << >>
    BY <2>3 DEF Order
  <2>5. QED
    BY <2>1, <2>4 DEF LRUOrder!Init, Order, Init
<1>2. IInv /\ [Next]_vars => [LRUOrder!Next]_<<Order, last>>
  <2>1. SUFFICES ASSUME IInv, [Next]_vars
                 PROVE  [LRUOrder!Next]_<<Order, last>>
    OBVIOUS
  <2>2. TypeOK
    BY <2>1 DEF IInv
  <2>3. PICK q : ListOf(q)
    BY <2>1 DEF IInv
  <2>4. /\ q \in Seq(Ids) /\ Len(q) \in Nat /\ Len(q) <= Cap /\ Cap \in Nat
        /\ Distinct(q) /\ items = {q[i] : i \in 1 .. Len(q)}
        /\ page \in PageMaps
    BY <2>2, <2>3, CapAssumption DEF ListOf, TypeOK, PageMaps
  <2> DEFINE c == Contents(q, page)
  <2>5. Order = c
    BY <2>3, OrderOfList
  <2>6. /\ c \in Seq(Entries) /\ Len(c) = Len(q) /\ Once(c)
        /\ \A i \in 1 .. Len(q) : c[i] = [id |-> q[i], page |-> page[q[i]]]
        /\ \A i \in 1 .. Len(q) : c[i].id = q[i] /\ c[i].page = page[q[i]]
    BY <2>4, ContentsElements
  <2> HIDE DEF c
  <2>7. LRUOrder!Cached(c) = items
    <3>1. DOMAIN c = 1 .. Len(q) /\ \A i \in 1 .. Len(q) : c[i].id = q[i]
      BY <2>6
    <3>2. QED
      BY <2>4, <3>1 DEF LRUOrder!Cached
  <2>8. CASE UNCHANGED vars
    <3>1. ListOf(q)' /\ page' = page /\ last' = last
      BY <2>3, <2>8 DEF ListOf, Links, vars
    <3>2. Order' = Contents(q, page')
      BY <3>1, OrderOfNextList
    <3>3. QED
      BY <2>5, <3>1, <3>2 DEF c
  <2>9. ASSUME NEW id \in Ids, GetMiss(id)
        PROVE  LRUOrder!Get(id)
    <3>1. /\ id \notin items /\ ListOf(q)' /\ page' = page
          /\ last' = [op |-> "get", id |-> id, page |-> Nil]
      BY <2>3, <2>9 DEF GetMiss, ListOf, Links
    <3>2. Order' = Contents(q, page')
      BY <3>1, OrderOfNextList
    <3>3. Order' = Order /\ id \notin LRUOrder!Cached(Order)
      BY <2>5, <2>7, <3>1, <3>2 DEF c
    <3>4. QED
      BY <3>1, <3>3 DEF LRUOrder!Get, Order
  <2>10. ASSUME NEW id \in items, items' = items, MoveToFront(id)
         PROVE  \E p \in 1 .. Len(q) : /\ q[p] = id /\ c[p].id = id
                                       /\ c[p].page = page[id]
                                       /\ Order' = Contents(MovedToFront(q, p, id), page')
    <3>1. PICK p \in 1 .. Len(q) : q[p] = id
      BY <2>4
    <3>2. ListOf(MovedToFront(q, p, q[p]))'
      BY <2>2, <2>3, <2>10, <3>1, MoveRelinks
    <3>3. Order' = Contents(MovedToFront(q, p, q[p]), page')
      BY <3>2, OrderOfNextList
    <3>4. c[p].id = id /\ c[p].page = page[id]
      BY <2>6, <3>1
    <3>5. QED
      BY <3>1, <3>3, <3>4
  <2>11. ASSUME NEW id \in Ids, GetHit(id)
         PROVE  LRUOrder!Get(id)
    <3>1. /\ id \in items /\ items' = items /\ MoveToFront(id) /\ page' = page
          /\ last' = [op |-> "get", id |-> id, page |-> page[id]]
      BY <2>11 DEF GetHit
    <3>2. PICK p \in 1 .. Len(q) : /\ q[p] = id /\ c[p].id = id
                                   /\ c[p].page = page[id]
                                   /\ Order' = Contents(MovedToFront(q, p, id), page')
      BY <2>10, <3>1
    <3>3. Order' = MovedToFront(c, p, [id |-> id, page |-> page[id]])
      BY <2>4, <3>1, <3>2, MovedContents DEF c
    <3>4. c[p] = [id |-> id, page |-> page[id]]
      BY <2>6, <3>2
    <3>5. /\ id \in LRUOrder!Cached(c) /\ LRUOrder!Entry(c, id) = c[p]
          /\ LRUOrder!Touched(c, id) = MovedToFront(c, p, c[p])
      <4>1. p \in 1 .. Len(c)
        BY <2>6
      <4>2. QED
        BY <2>6, <3>2, <4>1, TouchedIs
    <3>6. /\ Order' = LRUOrder!Touched(Order, id) /\ id \in LRUOrder!Cached(Order)
          /\ LRUOrder!Entry(Order, id).page = page[id]
      BY <2>5, <3>2, <3>3, <3>4, <3>5
    <3>7. QED
      BY <3>1, <3>6 DEF LRUOrder!Get, Order
  <2>12. ASSUME NEW id \in Ids, NEW pg \in Pages, PutExisting(id, pg)
         PROVE  LRUOrder!Put(id, pg)
    <3>1. /\ id \in items /\ items' = items /\ MoveToFront(id)
          /\ page' = [page EXCEPT ![id] = pg]
          /\ last' = [op |-> "put", id |-> id, page |-> pg]
      BY <2>12 DEF PutExisting
    <3>2. PICK p \in 1 .. Len(q) : /\ q[p] = id /\ c[p].id = id
                                   /\ Order' = Contents(MovedToFront(q, p, id), page')
      BY <2>10, <3>1
    <3>3. page' \in PageMaps /\ page'[id] = pg /\ \A x \in Ids : x # id => page'[x] = page[x]
      BY <2>4, <3>1 DEF PageMaps
    <3>4. Order' = MovedToFront(c, p, [id |-> id, page |-> pg])
      BY <2>4, <3>2, <3>3, MovedContents DEF c
    <3>5. LRUOrder!WithPage(c, id, pg) = MovedToFront(c, p, [id |-> id, page |-> pg])
      <4>1. p \in 1 .. Len(c) /\ Len(c) <= Cap
        BY <2>4, <2>6
      <4>2. QED
        BY <2>6, <3>2, <4>1, PutCachedIs
    <3>6. Order' = LRUOrder!WithPage(Order, id, pg)
      BY <2>5, <3>4, <3>5
    <3>7. QED
      BY <3>1, <3>6 DEF LRUOrder!Put, Order
  <2>13. ASSUME NEW id \in Ids, NEW pg \in Pages, id \notin items,
                page' = [page EXCEPT ![id] = pg]
         PROVE  /\ page' \in PageMaps
                /\ Contents(PutInFront(q, id), page') =
                     PutInFront(c, [id |-> id, page |-> pg])
                /\ LRUOrder!WithPage(c, id, pg) =
                     IF Len(q) + 1 > Cap
                     THEN WithoutLast(PutInFront(c, [id |-> id, page |-> pg]))
                     ELSE PutInFront(c, [id |-> id, page |-> pg])
    <3>1. page' \in PageMaps /\ page'[id] = pg /\ \A x \in Ids : x # id => page'[x] = page[x]
      BY <2>4, <2>13 DEF PageMaps
    <3>2. \A i \in 1 .. Len(q) : q[i] # id /\ c[i].id # id
      BY <2>4, <2>6, <2>13
    <3>3. Contents(PutInFront(q, id), page') = PutInFront(c, [id |-> id, page |-> pg])
      BY <2>4, <3>1, <3>2, PutContents DEF c
    <3>4. LRUOrder!WithPage(c, id, pg) =
            IF Len(c) + 1 > Cap
            THEN WithoutLast(PutInFront(c, [id |-> id, page |-> pg]))
            ELSE PutInFront(c, [id |-> id, page |-> pg])
      BY <2>6, <3>2, PutNewIs
    <3>5. QED
      BY <2>6, <3>1, <3>3, <3>4
  <2>14. ASSUME NEW id \in Ids, NEW pg \in Pages, PutNew(id, pg)
         PROVE  LRUOrder!Put(id, pg)
    <3>1. /\ id \notin items /\ page' = [page EXCEPT ![id] = pg]
          /\ last' = [op |-> "put", id |-> id, page |-> pg]
      BY <2>14 DEF PutNew
    <3>2. ListOf(PutInFront(q, id))' /\ Len(q) < Cap
      BY <2>2, <2>3, <2>14, PutNewRelinks
    <3>3. Order' = Contents(PutInFront(q, id), page')
      BY <3>2, OrderOfNextList
    <3>4. ~(Len(q) + 1 > Cap)
      BY <2>4, <3>2
    <3>5. Order' = LRUOrder!WithPage(Order, id, pg)
      BY <2>5, <2>13, <3>1, <3>3, <3>4
    <3>6. QED
      BY <3>1, <3>5 DEF LRUOrder!Put, Order
  <2>15. ASSUME NEW id \in Ids, NEW pg \in Pages, PutNewEvicting(id, pg)
         PROVE  LRUOrder!Put(id, pg)
    <3>1. /\ id \notin items /\ page' = [page EXCEPT ![id] = pg]
          /\ last' = [op |-> "put", id |-> id, page |-> pg]
      BY <2>15 DEF PutNewEvicting
    <3>2. ListOf(WithoutLast(PutInFront(q, id)))' /\ Len(q) = Cap
      BY <2>2, <2>3, <2>15, PutNewEvictingRelinks
    <3>3. Order' = Contents(WithoutLast(PutInFront(q, id)), page')
      BY <3>2, OrderOfNextList
    <3>4. Len(q) + 1 > Cap
      BY <2>4, <3>2
    <3>5. Contents(WithoutLast(PutInFront(q, id)), page') =
            WithoutLast(Contents(PutInFront(q, id), page'))
      <4>1. PutInFront(q, id) \in Seq(Ids) /\ Len(PutInFront(q, id)) = Len(q) + 1
        BY <2>4, PutElements
      <4>2. Len(PutInFront(q, id)) > 0
        BY <2>4, <4>1
      <4>3. page' \in PageMaps
        BY <2>13, <3>1
      <4>4. QED
        BY <4>1, <4>2, <4>3, ShortContents
    <3>6. Order' = LRUOrder!WithPage(Order, id, pg)
      BY <2>5, <2>13, <3>1, <3>3, <3>4, <3>5
    <3>7. QED
      BY <3>1, <3>6 DEF LRUOrder!Put, Order
  <2>16. QED
    BY <2>1, <2>8, <2>9, <2>11, <2>12, <2>14, <2>15 DEF Next, LRUOrder!Next
<1>3. QED
  BY <1>1, <1>2, IInvHolds, PTL DEF Spec, ImplementsLRU, LRUOrder!Spec, Order
=============================================================================
