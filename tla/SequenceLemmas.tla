---------------------------- MODULE SequenceLemmas ----------------------------
(***************************************************************************)
(* Facts about natural numbers and sequences that the proofs share: what   *)
(* numbers add up to, what the list operations of the Go code leave where, *)
(* what the concatenation of a sequence of sequences has where, which sets *)
(* of keys lie side by side, and what a walk along links comes to.         *)
(***************************************************************************)
EXTENDS Integers, Sequences, SequencesExt, Scans, SequenceTheorems,
        FiniteSetTheorems, WellFoundedInduction, TLAPS

(* Every nonempty set of natural numbers has a least element.               *)
LEMMA LeastNat ==
  ASSUME NEW T, T \subseteq Nat, T # {}
  PROVE  \E x \in T : \A y \in T : x <= y
<1>1. PICK x \in T : \A y \in T : ~(<<y, x>> \in OpToRel(<, Nat))
  BY NatLessThanWellFounded, WFMin
<1>2. \A y \in T : ~(y < x)
  BY <1>1 DEF OpToRel
<1>3. QED
  BY <1>2

(* A multiple of n strictly between -n and n is zero.                       *)
LEMMA SmallMultiple ==
  ASSUME NEW n \in Nat \ {0}, NEW k \in Int, -n < k * n, k * n < n
  PROVE  k = 0
<1>1. CASE k >= 1
  <2>1. k * n >= n
    BY <1>1
  <2>2. QED
    BY <2>1
<1>2. CASE k <= -1
  <2>1. k * n <= -n
    BY <1>2
  <2>2. QED
    BY <2>1
<1>3. QED
  BY <1>1, <1>2

(* The remainder is the r of any decomposition a = q * n + r with r below n.*)
LEMMA RemainderUnique ==
  ASSUME NEW n \in Nat \ {0}, NEW q \in Int, NEW r \in 0 .. n - 1
  PROVE  (q * n + r) % n = r
<1> DEFINE a == q * n + r
<1>1. a \in Int
  OBVIOUS
<1>2. /\ a \div n \in Int
      /\ a % n \in 0 .. n - 1
      /\ a = n * (a \div n) + (a % n)
  BY <1>1
<1>3. PICK p \in Int, s \in 0 .. n - 1 : a = n * p + s /\ s = a % n
  BY <1>2
<1>4. (q - p) * n = s - r
  BY <1>3
<1>5. -n < (q - p) * n /\ (q - p) * n < n
  BY <1>4
<1>6. q - p = 0
  BY <1>5, SmallMultiple
<1>7. QED
  BY <1>3, <1>4, <1>6

(* The next multiple.                                                       *)
LEMMA OneMoreTime ==
  ASSUME NEW n \in Int, NEW s \in Int
  PROVE  (n - 1) * s + s = n * s
OBVIOUS

(* The sums of the first of m numbers.                                      *)
Totals(f, c, m) == f = [n \in 0 .. m |-> IF n = 0 THEN 0 ELSE f[n - 1] + c[n]]

(* They can be made.                                                        *)
LEMMA TotalsExist ==
  ASSUME NEW c, NEW m \in Nat
  PROVE  \E f : Totals(f, c, m)
<1> DEFINE Bad == {n \in Nat : ~\E f : Totals(f, c, n)}
<1>1. SUFFICES ASSUME Bad # {} PROVE FALSE
  OBVIOUS
<1>2. PICK n \in Bad : \A l \in Bad : n <= l
  <2>1. Bad \subseteq Nat
    OBVIOUS
  <2> HIDE DEF Bad
  <2>2. QED
    BY <1>1, <2>1, LeastNat
<1>3. n # 0
  <2>1. Totals([l \in 0 .. 0 |-> 0], c, 0)
    BY DEF Totals
  <2>2. QED
    BY <1>2, <2>1
<1>4. n - 1 \in Nat /\ n - 1 \notin Bad /\ n \in Nat
  BY <1>2, <1>3
<1>5. PICK f : Totals(f, c, n - 1)
  BY <1>4
<1> DEFINE g == [l \in 0 .. n |-> IF l = n THEN f[n - 1] + c[n] ELSE f[l]]
<1>6. \A l \in 0 .. n - 1 : g[l] = f[l]
  BY <1>4
<1>7. \A l \in 0 .. n : g[l] = IF l = 0 THEN 0 ELSE g[l - 1] + c[l]
  <2>1. TAKE l \in 0 .. n
  <2>2. CASE l = n
    <3>1. n - 1 \in 0 .. n - 1 /\ n \in 0 .. n
      BY <1>4
    <3>2. QED
      BY <1>3, <1>6, <2>2, <3>1
  <2>3. CASE l # n
    <3>1. l \in 0 .. n - 1 /\ (l # 0 => l - 1 \in 0 .. n - 1)
      BY <1>4, <2>3
    <3>2. f[l] = IF l = 0 THEN 0 ELSE f[l - 1] + c[l]
      BY <1>5, <3>1 DEF Totals
    <3>3. QED
      BY <1>6, <3>1, <3>2
  <2>4. QED
    BY <2>2, <2>3
<1>8. Totals(g, c, n)
  <2>1. g = [l \in 0 .. n |-> g[l]]
    OBVIOUS
  <2> HIDE DEF g
  <2>2. QED
    BY <1>7, <2>1 DEF Totals
<1>9. QED
  BY <1>2, <1>8

(* Sums of numbers are numbers.                                             *)
LEMMA TotalsAreNumbers ==
  ASSUME NEW m \in Nat, NEW f, f[0] = 0,
         \A n \in 1 .. m : \E s \in Nat : f[n] = f[n - 1] + s
  PROVE  \A n \in 0 .. m : f[n] \in Nat
<1> DEFINE Bad == {n \in 0 .. m : f[n] \notin Nat}
<1>1. SUFFICES ASSUME Bad # {} PROVE FALSE
  OBVIOUS
<1>2. PICK n \in Bad : \A l \in Bad : n <= l
  <2>1. Bad \subseteq Nat
    OBVIOUS
  <2> HIDE DEF Bad
  <2>2. QED
    BY <1>1, <2>1, LeastNat
<1>3. n \in 1 .. m /\ n - 1 \in 0 .. m /\ ~(n <= n - 1)
  BY <1>2
<1>4. f[n - 1] \in Nat
  BY <1>2, <1>3
<1>5. QED
  BY <1>2, <1>3, <1>4

(* The sum of m numbers s.                                                  *)
LEMMA TotalOfOneSize ==
  ASSUME NEW m \in Nat, NEW s \in Nat, NEW f, f[0] = 0,
         \A n \in 1 .. m : f[n] = f[n - 1] + s
  PROVE  f[m] = m * s
<1> DEFINE Bad == {n \in 0 .. m : f[n] # n * s}
<1>1. SUFFICES ASSUME Bad # {} PROVE FALSE
  OBVIOUS
<1>2. PICK n \in Bad : \A l \in Bad : n <= l
  <2>1. Bad \subseteq Nat
    OBVIOUS
  <2> HIDE DEF Bad
  <2>2. QED
    BY <1>1, <2>1, LeastNat
<1>3. n \in 0 .. m /\ n \in Int /\ f[n] # n * s
  BY <1>2
<1>4. n # 0
  BY <1>3
<1>5. n \in 1 .. m /\ n - 1 \in 0 .. m /\ ~(n <= n - 1)
  BY <1>3, <1>4
<1>6. n - 1 \notin Bad
  BY <1>2, <1>5
<1>7. f[n - 1] = (n - 1) * s
  BY <1>5, <1>6
<1>8. f[n] = (n - 1) * s + s
  BY <1>5, <1>7
<1>9. QED
  BY <1>3, <1>8, OneMoreTime

(* A test that does not count two bytes is good enough if the bytes are     *)
(* never the last two.                                                      *)
LEMMA OneMoreFits ==
  ASSUME NEW s \in Nat, NEW K \in Nat, K % (s + 2) < s, NEW n \in Nat,
         K - n * (s + 2) >= s
  PROVE  K - (n + 1) * (s + 2) >= 0
<1> DEFINE t == s + 2
           r == K - n * t
<1>1. t \in Nat \ {0} /\ n * t \in Int /\ r \in Int
  OBVIOUS
<1>2. (n + 1) * t = n * t + t
  BY <1>1
<1>3. r >= t
  <2>1. SUFFICES ASSUME r < t
                 PROVE  FALSE
    BY <1>1
  <2>2. r \in 0 .. t - 1 /\ K = n * t + r
    BY <1>1, <2>1
  <2>3. n \in Int /\ t \in Nat \ {0}
    BY <1>1
  <2> HIDE DEF r, t
  <2>4. (n * t + r) % t = r
    BY <2>2, <2>3, RemainderUnique
  <2>5. K % t = r
    BY <2>2, <2>4
  <2>6. QED
    BY <2>5 DEF r, t
<1>4. QED
  BY <1>1, <1>2, <1>3

(* Fewer cells take no more bytes.                                          *)
LEMMA FewerFit ==
  ASSUME NEW m \in Nat, NEW n \in Nat, m <= n, NEW t \in Nat
  PROVE  m * t <= n * t
<1>1. n * t = m * t + (n - m) * t
  OBVIOUS
<1>2. (n - m) * t >= 0
  <2>1. n - m \in Nat
    OBVIOUS
  <2>2. \A k \in Nat : k * t >= 0
    OBVIOUS
  <2>3. QED
    BY <2>1, <2>2
<1>3. m * t \in Int /\ (n - m) * t \in Int
  OBVIOUS
<1>4. QED
  BY <1>1, <1>2, <1>3

(* How much of a page m cells of s bytes leave.                             *)
LEMMA SpaceLeft ==
  ASSUME NEW m \in Nat, NEW s \in Nat, NEW K \in Nat
  PROVE  (K - m * s) - (13 + m * 2) = (K - 13) - m * (s + 2)
OBVIOUS

(* A sequence with an element put in at position i.                         *)
LEMMA InsertAtElements ==
  ASSUME NEW S, NEW s \in Seq(S), NEW e \in S, NEW i \in 1 .. Len(s) + 1
  PROVE  /\ InsertAt(s, i, e) \in Seq(S)
         /\ Len(InsertAt(s, i, e)) = Len(s) + 1
         /\ \A j \in 1 .. Len(s) + 1 :
              InsertAt(s, i, e)[j] = IF j < i THEN s[j]
                                     ELSE IF j = i THEN e ELSE s[j - 1]
<1> DEFINE l == SubSeq(s, 1, i - 1)
           r == SubSeq(s, i, Len(s))
           m == l \o <<e>>
<1>0. Len(s) \in Nat /\ i \in Int /\ \A j \in 1 .. Len(s) : s[j] \in S
  BY ElementOfSeq
<1>1. /\ l \in Seq(S) /\ Len(l) = i - 1
      /\ \A j \in 1 .. i - 1 : l[j] = s[j]
  <2>1. \A j \in 1 .. i - 1 : s[j] \in S
    BY <1>0
  <2>2. QED
    BY <1>0, <2>1, SubSeqProperties
<1>2. /\ r \in Seq(S) /\ Len(r) = Len(s) - i + 1
      /\ \A j \in 1 .. Len(s) - i + 1 : r[j] = s[i + j - 1]
  <2>1. \A j \in i .. Len(s) : s[j] \in S
    BY <1>0
  <2>2. QED
    BY <1>0, <2>1, SubSeqProperties
<1> HIDE DEF l, r
<1>3. <<e>> \in Seq(S) /\ Len(<<e>>) = 1 /\ <<e>>[1] = e
  OBVIOUS
<1>4. /\ m \in Seq(S) /\ Len(m) = i
      /\ \A j \in 1 .. i : m[j] = IF j <= i - 1 THEN l[j] ELSE <<e>>[j - (i - 1)]
  BY <1>0, <1>1, <1>3, ConcatProperties
<1> HIDE DEF m
<1>5. /\ m \o r \in Seq(S) /\ Len(m \o r) = Len(s) + 1
      /\ \A j \in 1 .. Len(s) + 1 :
           (m \o r)[j] = IF j <= i THEN m[j] ELSE r[j - i]
  BY <1>0, <1>2, <1>4, ConcatProperties
<1>6. InsertAt(s, i, e) = m \o r
  BY DEF InsertAt, l, m, r
<1>7. ASSUME NEW j \in 1 .. Len(s) + 1
      PROVE  (m \o r)[j] = IF j < i THEN s[j] ELSE IF j = i THEN e ELSE s[j - 1]
  <2>1. CASE j < i
    BY <1>0, <1>1, <1>4, <1>5, <2>1
  <2>2. CASE j = i
    <3>1. m[j] = <<e>>[1]
      BY <1>0, <1>4, <2>2
    <3>2. QED
      BY <1>0, <1>3, <1>5, <2>2, <3>1
  <2>3. CASE j > i
    <3>1. (m \o r)[j] = r[j - i] /\ j - i \in 1 .. Len(s) - i + 1
      BY <1>0, <1>5, <2>3
    <3>2. r[j - i] = s[i + (j - i) - 1] /\ i + (j - i) - 1 = j - 1
      BY <1>0, <1>2, <3>1
    <3>3. QED
      BY <1>0, <2>3, <3>1, <3>2
  <2>4. j < i \/ j = i \/ j > i
    BY <1>0
  <2>5. QED
    BY <2>1, <2>2, <2>3, <2>4
<1>8. QED
  BY <1>5, <1>6, <1>7

(* A sequence with the element at position i taken out.                     *)
LEMMA RemoveAtElements ==
  ASSUME NEW S, NEW s \in Seq(S), NEW i \in 1 .. Len(s)
  PROVE  /\ RemoveAt(s, i) \in Seq(S)
         /\ Len(RemoveAt(s, i)) = Len(s) - 1
         /\ \A j \in 1 .. Len(s) - 1 :
              RemoveAt(s, i)[j] = IF j < i THEN s[j] ELSE s[j + 1]
<1> DEFINE l == SubSeq(s, 1, i - 1)
           r == SubSeq(s, i + 1, Len(s))
<1>0. Len(s) \in Nat /\ i \in Int /\ \A j \in 1 .. Len(s) : s[j] \in S
  BY ElementOfSeq
<1>1. /\ l \in Seq(S) /\ Len(l) = i - 1
      /\ \A j \in 1 .. i - 1 : l[j] = s[j]
  <2>1. \A j \in 1 .. i - 1 : s[j] \in S
    BY <1>0
  <2>2. QED
    BY <1>0, <2>1, SubSeqProperties
<1>2. /\ r \in Seq(S) /\ Len(r) = Len(s) - i
      /\ \A j \in 1 .. Len(s) - i : r[j] = s[i + 1 + j - 1]
  <2>1. \A j \in i + 1 .. Len(s) : s[j] \in S
    BY <1>0
  <2>2. QED
    BY <1>0, <2>1, SubSeqProperties
<1> HIDE DEF l, r
<1>3. /\ l \o r \in Seq(S) /\ Len(l \o r) = Len(s) - 1
      /\ \A j \in 1 .. Len(s) - 1 :
           (l \o r)[j] = IF j <= i - 1 THEN l[j] ELSE r[j - (i - 1)]
  <2>1. /\ l \o r \in Seq(S)
        /\ Len(l \o r) = Len(l) + Len(r)
        /\ \A j \in 1 .. Len(l) + Len(r) :
             (l \o r)[j] = IF j <= Len(l) THEN l[j] ELSE r[j - Len(l)]
    BY <1>1, <1>2, ConcatProperties
  <2>2. Len(l) = i - 1 /\ Len(l) + Len(r) = Len(s) - 1
    BY <1>0, <1>1, <1>2
  <2>3. QED
    BY <2>1, <2>2
<1>4. RemoveAt(s, i) = l \o r
  BY DEF RemoveAt, l, r
<1>5. ASSUME NEW j \in 1 .. Len(s) - 1
      PROVE  (l \o r)[j] = IF j < i THEN s[j] ELSE s[j + 1]
  <2>1. CASE j < i
    BY <1>0, <1>1, <1>3, <2>1
  <2>2. CASE j >= i
    <3>0. j - (i - 1) \in 1 .. Len(s) - i /\ ~(j <= i - 1)
      BY <1>0, <2>2
    <3>1. (l \o r)[j] = r[j - (i - 1)] /\ j - (i - 1) \in 1 .. Len(s) - i
      BY <1>3, <3>0
    <3>2. r[j - (i - 1)] = s[i + 1 + (j - (i - 1)) - 1]
      BY <1>2, <3>1
    <3>3. i + 1 + (j - (i - 1)) - 1 = j + 1
      BY <1>0
    <3>4. QED
      BY <1>0, <2>2, <3>1, <3>2, <3>3
  <2>3. j < i \/ j >= i
    BY <1>0
  <2>4. QED
    BY <2>1, <2>2, <2>3
<1>6. QED
  BY <1>3, <1>4, <1>5

(* A pair greater than all before it, appended.                             *)
LEMMA AscendingOn ==
  ASSUME NEW S, NEW pairs \in Seq(S), NEW want, Ascending(pairs, want), NEW r,
         Before(pairs, r.key), r.key \in DOMAIN want, r.val = want[r.key],
         NEW more, more = Append(pairs, r)
  PROVE  Ascending(more, want)
<1>1. /\ Len(pairs) \in Nat /\ DOMAIN pairs = 1 .. Len(pairs)
      /\ DOMAIN more = 1 .. Len(pairs) + 1
      /\ more[Len(pairs) + 1] = r
      /\ \A i \in 1 .. Len(pairs) : more[i] = pairs[i]
  OBVIOUS
<1>2. \A i \in DOMAIN more : \/ i \in DOMAIN pairs /\ more[i] = pairs[i]
                             \/ i = Len(pairs) + 1 /\ more[i] = r
  BY <1>1
<1>3. \A i, j \in DOMAIN more : i < j => i \in DOMAIN pairs
  BY <1>1
<1>4. ASSUME NEW i \in DOMAIN more, NEW j \in DOMAIN more, i < j
      PROVE  more[i].key < more[j].key
  BY <1>2, <1>3, <1>4, <1>1 DEF Ascending, Before
<1>5. QED
  BY <1>2, <1>4 DEF Ascending

(* A scan that goes on to the least pair of those still to come, L.         *)
LEMMA ScanGoesOn ==
  ASSUME NEW S, NEW pairs \in Seq(S), NEW want, FirstOf(pairs, want), NEW L,
         L \subseteq DOMAIN want, DOMAIN want \subseteq Int,
         \A k \in L : Before(pairs, k),
         \A k \in DOMAIN want : HasKey(pairs, k) \/ k \in L,
         NEW m \in L, \A k \in L : m <= k, NEW r, r.key = m, r.val = want[m],
         NEW more, more = Append(pairs, r)
  PROVE  /\ FirstOf(more, want) /\ HasKey(more, m)
         /\ \A i \in DOMAIN more : more[i].key <= m
<1>1. /\ Len(pairs) \in Nat /\ DOMAIN pairs = 1 .. Len(pairs)
      /\ DOMAIN more = 1 .. Len(pairs) + 1
      /\ more[Len(pairs) + 1] = r
      /\ \A i \in 1 .. Len(pairs) : more[i] = pairs[i]
  OBVIOUS
<1>2. Ascending(more, want)
  BY AscendingOn DEF FirstOf
<1>3. /\ HasKey(more, m)
      /\ \A k : HasKey(pairs, k) => HasKey(more, k)
  BY <1>1 DEF HasKey
<1>4. \A i \in DOMAIN more : \/ i \in DOMAIN pairs /\ more[i] = pairs[i]
                             \/ more[i] = r
  BY <1>1
<1>5. \A i \in DOMAIN pairs : pairs[i].key \in Int /\ pairs[i].key < m
  BY DEF FirstOf, Ascending, Before
<1>6. \A i \in DOMAIN more : more[i].key <= m
  BY <1>4, <1>5
<1>7. ASSUME NEW k \in DOMAIN want
      PROVE  HasKey(more, k) \/ Before(more, k)
  <2>1. CASE HasKey(pairs, k) \/ k = m
    BY <1>3, <2>1
  <2>2. CASE k \in L /\ k # m
    <3>1. m < k /\ k \in Int /\ m \in Int
      BY <2>2
    <3>2. \A i \in DOMAIN more : more[i].key < k
      BY <1>4, <1>5, <3>1
    <3>3. QED
      BY <3>2 DEF Before
  <2>3. QED
    BY <2>1, <2>2
<1>8. QED
  BY <1>2, <1>3, <1>6, <1>7 DEF FirstOf
-----------------------------------------------------------------------------
(* What FlattenSeq puts where.                                              *)

(* The concatenations of the first i sequences of s, up to m of them.       *)
Joins(f, s, m) ==
  f = [i \in 1 .. m |-> IF i = 1 THEN s[i] ELSE f[i - 1] \o s[i]]

(* One more sequence can always be appended.                                *)
LEMMA JoinsExist ==
  ASSUME NEW s, NEW m \in Nat
  PROVE  \E f : Joins(f, s, m)
<1> DEFINE Bad == {n \in Nat : ~\E f : Joins(f, s, n)}
<1>1. SUFFICES ASSUME Bad # {} PROVE FALSE
  OBVIOUS
<1>2. PICK n \in Bad : \A l \in Bad : n <= l
  <2>1. Bad \subseteq Nat
    OBVIOUS
  <2> HIDE DEF Bad
  <2>2. QED
    BY <1>1, <2>1, LeastNat
<1>3. n # 0
  <2>1. Joins([i \in 1 .. 0 |-> s[i]], s, 0)
    BY DEF Joins
  <2>2. QED
    BY <1>2, <2>1
<1>4. n - 1 \in Nat /\ n - 1 \notin Bad /\ n \in Nat
  BY <1>2, <1>3
<1>5. PICK f : Joins(f, s, n - 1)
  BY <1>4
<1> DEFINE g == [i \in 1 .. n |-> IF i = n
                                  THEN IF n = 1 THEN s[n] ELSE f[n - 1] \o s[n]
                                  ELSE f[i]]
<1>6. \A i \in 1 .. n - 1 : g[i] = f[i]
  BY <1>4
<1>7. \A i \in 1 .. n : g[i] = IF i = 1 THEN s[i] ELSE g[i - 1] \o s[i]
  <2>1. TAKE i \in 1 .. n
  <2>2. CASE i = n
    <3>1. n # 1 => n - 1 \in 1 .. n - 1
      BY <1>3, <1>4
    <3>2. n \in 1 .. n
      BY <1>3, <1>4
    <3>3. QED
      BY <1>6, <2>2, <3>1, <3>2
  <2>3. CASE i # n
    <3>1. i \in 1 .. n - 1 /\ (i # 1 => i - 1 \in 1 .. n - 1)
      BY <1>4, <2>3
    <3>2. f[i] = IF i = 1 THEN s[i] ELSE f[i - 1] \o s[i]
      BY <1>5, <3>1 DEF Joins
    <3>3. QED
      BY <1>6, <3>1, <3>2
  <2>4. QED
    BY <2>2, <2>3
<1>8. Joins(g, s, n)
  <2>1. g = [i \in 1 .. n |-> g[i]]
    OBVIOUS
  <2> HIDE DEF g
  <2>2. QED
    BY <1>7, <2>1 DEF Joins
<1>9. QED
  BY <1>2, <1>8

(* The elements of F are those of the first n sequences of s, one after the *)
(* other: F[t] is element col[t] of the sequence row[t].                    *)
Flat(F, S, s, n, row, col) ==
  /\ F \in Seq(S)
  /\ \A t \in 1 .. Len(F) : /\ row[t] \in 1 .. n /\ col[t] \in 1 .. Len(s[row[t]])
                            /\ F[t] = s[row[t]][col[t]]
  /\ \A t, u \in 1 .. Len(F) :
       t < u => row[t] < row[u] \/ (row[t] = row[u] /\ col[t] < col[u])
  /\ \A i \in 1 .. n : \A j \in 1 .. Len(s[i]) :
       \E t \in 1 .. Len(F) : row[t] = i /\ col[t] = j

(* One more sequence behind.                                                *)
LEMMA FlatGoesOn ==
  ASSUME NEW S, NEW s, NEW n \in Nat, NEW F, NEW row, NEW col,
         Flat(F, S, s, n, row, col), s[n + 1] \in Seq(S)
  PROVE  \E r, c : Flat(F \o s[n + 1], S, s, n + 1, r, c)
<1> DEFINE e == s[n + 1]
           G == F \o e
           l == Len(F)
           r == [t \in 1 .. Len(G) |-> IF t <= l THEN row[t] ELSE n + 1]
           c == [t \in 1 .. Len(G) |-> IF t <= l THEN col[t] ELSE t - l]
<1>1. F \in Seq(S) /\ e \in Seq(S) /\ l \in Nat /\ Len(e) \in Nat
  BY DEF Flat
<1> HIDE DEF e
<1>2. /\ G \in Seq(S) /\ Len(G) = l + Len(e)
      /\ \A t \in 1 .. l : G[t] = F[t]
      /\ \A t \in l + 1 .. l + Len(e) : G[t] = e[t - l]
  BY <1>1
<1> HIDE DEF G, l
<1>3. \A t \in 1 .. l : r[t] = row[t] /\ c[t] = col[t] /\ r[t] \in 1 .. n
  BY <1>1, <1>2 DEF Flat, l
<1>4. \A t \in l + 1 .. Len(G) : r[t] = n + 1 /\ c[t] = t - l /\ c[t] \in 1 .. Len(e)
  BY <1>1, <1>2
<1> HIDE DEF r, c
<1>5. ASSUME NEW t \in 1 .. Len(G)
      PROVE  /\ r[t] \in 1 .. n + 1 /\ c[t] \in 1 .. Len(s[r[t]])
             /\ G[t] = s[r[t]][c[t]]
  <2>1. CASE t \in 1 .. l
    <3>1. /\ row[t] \in 1 .. n /\ col[t] \in 1 .. Len(s[row[t]])
          /\ F[t] = s[row[t]][col[t]]
      BY <2>1 DEF Flat, l
    <3>2. row[t] \in 1 .. n + 1
      BY <3>1
    <3>3. r[t] = row[t] /\ c[t] = col[t] /\ G[t] = F[t]
      BY <1>2, <1>3, <2>1
    <3>4. QED
      BY <3>1, <3>2, <3>3
  <2>2. CASE t \in l + 1 .. Len(G)
    BY <1>2, <1>4, <2>2 DEF e
  <2>3. QED
    BY <1>1, <1>2, <2>1, <2>2
<1>6. ASSUME NEW t \in 1 .. Len(G), NEW u \in 1 .. Len(G), t < u
      PROVE  r[t] < r[u] \/ (r[t] = r[u] /\ c[t] < c[u])
  <2>1. CASE u <= l
    <3>1. t \in 1 .. l /\ u \in 1 .. l
      BY <1>1, <1>2, <1>6, <2>1
    <3>2. row[t] < row[u] \/ (row[t] = row[u] /\ col[t] < col[u])
      BY <1>6, <3>1 DEF Flat, l
    <3>3. QED
      BY <1>3, <3>1, <3>2
  <2>2. CASE t <= l /\ u > l
    <3>1. t \in 1 .. l /\ u \in l + 1 .. Len(G)
      BY <1>1, <1>2, <2>2
    <3>2. r[t] \in 1 .. n /\ r[u] = n + 1
      BY <1>3, <1>4, <3>1
    <3>3. QED
      BY <3>2
  <2>3. CASE t > l
    <3>1. t \in l + 1 .. Len(G) /\ u \in l + 1 .. Len(G)
      BY <1>1, <1>2, <1>6, <2>3
    <3>2. r[t] = n + 1 /\ r[u] = n + 1 /\ c[t] = t - l /\ c[u] = u - l
      BY <1>4, <3>1
    <3>3. QED
      BY <1>1, <1>2, <1>6, <3>2
  <2>4. QED
    BY <1>1, <1>2, <2>1, <2>2, <2>3
<1>7. ASSUME NEW i \in 1 .. n + 1, NEW j \in 1 .. Len(s[i])
      PROVE  \E t \in 1 .. Len(G) : r[t] = i /\ c[t] = j
  <2>1. CASE i \in 1 .. n
    <3>1. PICK t \in 1 .. l : row[t] = i /\ col[t] = j
      BY <2>1 DEF Flat, l
    <3>2. t \in 1 .. Len(G)
      BY <1>1, <1>2
    <3>3. r[t] = i /\ c[t] = j
      BY <1>3, <3>1
    <3>4. QED
      BY <3>2, <3>3
  <2>2. CASE i = n + 1
    <3>1. j \in 1 .. Len(e)
      BY <2>2 DEF e
    <3>2. l + j \in l + 1 .. Len(G) /\ l + j \in 1 .. Len(G) /\ (l + j) - l = j
      BY <1>1, <1>2, <3>1
    <3>3. QED
      BY <1>4, <2>2, <3>2
  <2>3. QED
    BY <2>1, <2>2
<1>8. Flat(G, S, s, n + 1, r, c)
  BY <1>2, <1>5, <1>6, <1>7 DEF Flat
<1>9. QED
  BY <1>8 DEF G, e

(* FlattenSeq lists the elements of all sequences, in order.                *)
LEMMA FlattenElements ==
  ASSUME NEW S, NEW s, Len(s) \in Nat \ {0}, \A i \in 1 .. Len(s) : s[i] \in Seq(S)
  PROVE  \E row, col : Flat(FlattenSeq(s), S, s, Len(s), row, col)
<1> DEFINE m == Len(s)
           f == CHOOSE f : Joins(f, s, m)
<1>1. m \in Nat /\ m # 0 /\ Joins(f, s, m)
  BY JoinsExist
<1>2. FlattenSeq(s) = f[m]
  BY <1>1 DEF FlattenSeq, Joins
<1> HIDE DEF f
<1> DEFINE Bad == {n \in 1 .. m : ~\E row, col : Flat(f[n], S, s, n, row, col)}
<1>3. ASSUME Bad # {} PROVE FALSE
  <2>1. PICK n \in Bad : \A e \in Bad : n <= e
    <3>1. Bad \subseteq Nat
      OBVIOUS
    <3> HIDE DEF Bad
    <3>2. QED
      BY <1>3, <3>1, LeastNat
  <2>2. n \in 1 .. m /\ ~\E row, col : Flat(f[n], S, s, n, row, col)
    BY <2>1
  <2>3. f[n] = IF n = 1 THEN s[n] ELSE f[n - 1] \o s[n]
    BY <1>1, <2>2 DEF Joins
  <2>4. CASE n = 1
    <3> DEFINE F == s[1]
               row == [t \in 1 .. Len(F) |-> 1]
               col == [t \in 1 .. Len(F) |-> t]
    <3>1. F \in Seq(S) /\ Len(F) \in Nat /\ f[1] = F
      BY <1>1, <2>3, <2>4
    <3>2. \A t \in 1 .. Len(F) : row[t] = 1 /\ col[t] = t
      OBVIOUS
    <3> HIDE DEF row, col
    <3>3. Flat(F, S, s, 1, row, col)
      <4>1. \A i \in 1 .. 1 : i = 1
        OBVIOUS
      <4>2. \A t \in 1 .. Len(F) : /\ row[t] \in 1 .. 1 /\ col[t] \in 1 .. Len(s[row[t]])
                                   /\ F[t] = s[row[t]][col[t]]
        BY <3>2
      <4>3. \A t, u \in 1 .. Len(F) :
              t < u => row[t] < row[u] \/ (row[t] = row[u] /\ col[t] < col[u])
        BY <3>2
      <4>4. \A i \in 1 .. 1 : \A j \in 1 .. Len(s[i]) :
              \E t \in 1 .. Len(F) : row[t] = i /\ col[t] = j
        BY <3>2, <4>1
      <4>5. QED
        BY <3>1, <4>2, <4>3, <4>4 DEF Flat
    <3>4. QED
      BY <2>2, <2>4, <3>1, <3>3
  <2>5. CASE n # 1
    <3>1. /\ n - 1 \in 1 .. m /\ ~(n <= n - 1) /\ n - 1 \in Nat
          /\ (n - 1) + 1 = n
      BY <1>1, <2>2, <2>5
    <3>2. PICK row, col : Flat(f[n - 1], S, s, n - 1, row, col)
      BY <2>1, <3>1
    <3>3. s[n] \in Seq(S)
      BY <2>2
    <3>4. \E r, c : Flat(f[n - 1] \o s[(n - 1) + 1], S, s, (n - 1) + 1, r, c)
      <4> DEFINE d == n - 1
      <4>1. d \in Nat /\ s[d + 1] \in Seq(S)
        BY <3>1, <3>3
      <4> HIDE DEF d
      <4>2. ASSUME NEW F, Flat(F, S, s, d, row, col)
            PROVE  \E r, c : Flat(F \o s[d + 1], S, s, d + 1, r, c)
        BY <4>1, <4>2, FlatGoesOn
      <4>3. QED
        BY <3>2, <4>2 DEF d
    <3>5. QED
      BY <2>2, <2>3, <2>5, <3>1, <3>4
  <2>6. QED
    BY <2>4, <2>5
<1>4. m \in 1 .. m
  BY <1>1
<1>5. QED
  BY <1>2, <1>3, <1>4
-----------------------------------------------------------------------------
(* The keys o have no gap.                                                  *)
Convex(o) == \A l, m \in o, k \in Int : l < k /\ k < m => k \in o

(* Key k is greater than those of o.                                        *)
Past(o, k) == k \notin o /\ \E l \in o : l < k

(* Key k is one of o or behind them.                                        *)
From(o, k) == \E l \in o : l <= k

(* The keys n are behind those of o, with none between them.                *)
Adjoin(o, n) ==
  /\ \A l \in o, m \in n : l < m
  /\ \A k \in Int : Past(o, k) => From(n, k)

(* Those of o below s.                                                      *)
Below(o, s) == {k \in o : k < s}

(* What lies before a stretch lies before the lower part of it.             *)
LEMMA BelowAdjoins ==
  ASSUME NEW o, NEW n \in SUBSET Int, NEW s \in Int, Adjoin(o, n), Below(n, s) # {}
  PROVE  Adjoin(o, Below(n, s))
<1>1. \A k \in Below(n, s) : k \in n /\ k < s /\ k \in Int
  BY DEF Below
<1>2. ASSUME NEW k \in Int, Past(o, k)
      PROVE  From(Below(n, s), k)
  <2>1. PICK l \in n : l <= k
    BY <1>2 DEF Adjoin, From
  <2>2. CASE l < s
    <3>1. l \in Below(n, s)
      BY <2>2 DEF Below
    <3>2. QED
      BY <2>1, <3>1 DEF From
  <2>3. CASE ~(l < s)
    <3>1. PICK m \in Below(n, s) : m < s
      BY <1>1
    <3>2. m \in Int /\ l \in Int /\ m <= k
      BY <1>1, <2>1, <2>3, <3>1
    <3>3. QED
      BY <3>2 DEF From
  <2>4. QED
    BY <2>2, <2>3
<1>3. QED
  BY <1>1, <1>2 DEF Adjoin
-----------------------------------------------------------------------------
(* The pages now, and those that links lead to from them.                   *)
Onward(links, now) == now \cup ((UNION {links[id] : id \in now}) \cap DOMAIN links)

(* What the next step comes to.                                             *)
LEMMA OnwardElements ==
  ASSUME NEW links, NEW now, NEW y
  PROVE  y \in Onward(links, now) <=>
           \/ y \in now
           \/ y \in DOMAIN links /\ \E id \in now : y \in links[id]
<1> DEFINE U == UNION {links[id] : id \in now}
<1>1. y \in U <=> \E id \in now : y \in links[id]
  OBVIOUS
<1>2. Onward(links, now) = now \cup (U \cap DOMAIN links)
  BY DEF Onward
<1> HIDE DEF U
<1>3. y \in Onward(links, now) <=> y \in now \/ (y \in DOMAIN links /\ y \in U)
  BY <1>2
<1>4. QED
  BY <1>1, <1>3

(* The sets of pages that links lead to from page r, step by step.          *)
Explores(f, links, r, m) ==
  f = [n \in 0 .. m |-> IF n = 0 THEN {r} ELSE Onward(links, f[n - 1])]

(* A walk can always take one more step: the walk that Reached chooses is   *)
(* one.                                                                     *)
LEMMA WalksExist ==
  ASSUME NEW links, NEW r, NEW m \in Nat
  PROVE  \E f : Explores(f, links, r, m)
<1> DEFINE Bad == {n \in Nat : ~\E f : Explores(f, links, r, n)}
<1>1. SUFFICES ASSUME Bad # {} PROVE FALSE
  OBVIOUS
<1>2. PICK n \in Bad : \A l \in Bad : n <= l
  <2>1. Bad \subseteq Nat
    OBVIOUS
  <2> HIDE DEF Bad
  <2>2. QED
    BY <1>1, <2>1, LeastNat
<1>3. n # 0
  <2>1. Explores([l \in 0 .. 0 |-> {r}], links, r, 0)
    BY DEF Explores
  <2>2. QED
    BY <1>2, <2>1
<1>4. n - 1 \in Nat /\ n - 1 \notin Bad /\ n \in Nat
  BY <1>2, <1>3
<1>5. PICK f : Explores(f, links, r, n - 1)
  BY <1>4
<1> DEFINE g == [l \in 0 .. n |-> IF l = n THEN Onward(links, f[n - 1]) ELSE f[l]]
<1>6. \A l \in 0 .. n - 1 : g[l] = f[l]
  BY <1>4
<1>7. \A l \in 0 .. n : g[l] = IF l = 0 THEN {r} ELSE Onward(links, g[l - 1])
  <2>1. TAKE l \in 0 .. n
  <2>2. CASE l = n
    <3>1. n - 1 \in 0 .. n - 1 /\ n \in 0 .. n
      BY <1>4
    <3>2. QED
      BY <1>3, <1>6, <2>2, <3>1
  <2>3. CASE l # n
    <3>1. l \in 0 .. n - 1 /\ (l # 0 => l - 1 \in 0 .. n - 1)
      BY <1>4, <2>3
    <3>2. f[l] = IF l = 0 THEN {r} ELSE Onward(links, f[l - 1])
      BY <1>5, <3>1 DEF Explores
    <3>3. QED
      BY <1>6, <3>1, <3>2
  <2>4. QED
    BY <2>2, <2>3
<1>8. Explores(g, links, r, n)
  <2>1. g = [l \in 0 .. n |-> g[l]]
    OBVIOUS
  <2> HIDE DEF g
  <2>2. QED
    BY <1>7, <2>1 DEF Explores
<1>9. QED
  BY <1>2, <1>8

(* A walk keeps what it has come to, and leaves no set of pages that its    *)
(* links do not leave.                                                      *)
LEMMA WalkGrows ==
  ASSUME NEW f, NEW links, NEW r, NEW m \in Nat, Explores(f, links, r, m),
         r \in DOMAIN links
  PROVE  /\ f[0] = {r}
         /\ \A n \in 1 .. m : f[n] = Onward(links, f[n - 1])
         /\ \A n \in 0 .. m : f[n] \subseteq f[m] /\ f[n] \subseteq DOMAIN links
<1>1. f[0] = {r} /\ \A n \in 1 .. m : f[n] = Onward(links, f[n - 1])
  BY DEF Explores
<1>2. \A n \in 0 .. m : f[n] \subseteq f[m]
  <2> DEFINE Bad == {d \in 0 .. m : ~(f[m - d] \subseteq f[m])}
  <2>1. SUFFICES ASSUME Bad # {} PROVE FALSE
    <3>1. SUFFICES ASSUME NEW n \in 0 .. m PROVE m - n \notin Bad => f[n] \subseteq f[m]
      BY <2>1
    <3>2. m - n \in 0 .. m /\ m - (m - n) = n
      OBVIOUS
    <3>3. QED
      BY <3>2
  <2>2. PICK d \in Bad : \A e \in Bad : d <= e
    <3>1. Bad \subseteq Nat
      OBVIOUS
    <3> HIDE DEF Bad
    <3>2. QED
      BY <2>1, <3>1, LeastNat
  <2>3. d # 0 /\ d \in 0 .. m
    <3>1. m - 0 = m
      OBVIOUS
    <3>2. QED
      BY <2>2, <3>1
  <2>4. /\ d - 1 \in 0 .. m /\ ~(d <= d - 1)
        /\ m - d + 1 \in 1 .. m /\ m - (d - 1) = m - d + 1 /\ (m - d + 1) - 1 = m - d
    BY <2>3
  <2>5. f[m - d + 1] \subseteq f[m]
    BY <2>2, <2>4
  <2>6. f[m - d] \subseteq f[m - d + 1]
    BY <1>1, <2>4 DEF Onward
  <2>7. QED
    BY <2>2, <2>5, <2>6
<1>3. \A n \in 0 .. m : f[n] \subseteq DOMAIN links
  <2> DEFINE Bad == {n \in 0 .. m : ~(f[n] \subseteq DOMAIN links)}
  <2>1. SUFFICES ASSUME Bad # {} PROVE FALSE
    OBVIOUS
  <2>2. PICK n \in Bad : \A e \in Bad : n <= e
    <3>1. Bad \subseteq Nat
      OBVIOUS
    <3> HIDE DEF Bad
    <3>2. QED
      BY <2>1, <3>1, LeastNat
  <2>3. n \in 1 .. m
    BY <1>1, <2>2
  <2>4. n - 1 \in 0 .. m /\ ~(n <= n - 1)
    BY <2>3
  <2>5. f[n - 1] \subseteq DOMAIN links
    BY <2>2, <2>4
  <2>6. f[n] = Onward(links, f[n - 1])
    BY <1>1, <2>3
  <2>7. f[n] \subseteq DOMAIN links
    <3>1. SUFFICES ASSUME NEW y \in f[n] PROVE y \in DOMAIN links
      OBVIOUS
    <3>2. y \in Onward(links, f[n - 1])
      BY <2>6, <3>1
    <3>3. y \in f[n - 1] \/ y \in DOMAIN links
      BY <3>2, OnwardElements
    <3>4. QED
      BY <2>5, <3>3
  <2>8. QED
    BY <2>2, <2>7
<1>4. QED
  BY <1>1, <1>2, <1>3

(* A walk leaves no set of pages that the links from its pages do not leave.*)
LEMMA WalkStays ==
  ASSUME NEW f, NEW links, NEW r, NEW m \in Nat, Explores(f, links, r, m),
         NEW T, r \in T,
         \A x \in T : \A y \in links[x] : y \in DOMAIN links => y \in T
  PROVE  f[m] \subseteq T
<1> DEFINE Bad == {n \in 0 .. m : ~(f[n] \subseteq T)}
<1>1. ASSUME Bad # {} PROVE FALSE
  <2>1. PICK n \in Bad : \A e \in Bad : n <= e
    <3>1. Bad \subseteq Nat
      OBVIOUS
    <3> HIDE DEF Bad
    <3>2. QED
      BY <1>1, <3>1, LeastNat
  <2>2. n \in 0 .. m /\ ~(f[n] \subseteq T)
    BY <2>1
  <2>3. f[n] = IF n = 0 THEN {r} ELSE Onward(links, f[n - 1])
    BY <2>2 DEF Explores
  <2>4. n # 0
    BY <2>2, <2>3
  <2>5. n - 1 \in 0 .. m /\ ~(n <= n - 1)
    BY <2>2, <2>4
  <2>6. f[n - 1] \subseteq T
    BY <2>1, <2>5
  <2> HIDE DEF Bad
  <2>7. f[n] \subseteq T
    BY <2>3, <2>4, <2>6, OnwardElements
  <2>8. QED
    BY <2>2, <2>7
<1>2. m \in 0 .. m
  OBVIOUS
<1>3. QED
  BY <1>1, <1>2

(* A walk of as many steps as there are pages has come to all it can: every *)
(* step before it stood still had come to a further page.                   *)
LEMMA WalkCloses ==
  ASSUME NEW links, IsFiniteSet(DOMAIN links), NEW r \in DOMAIN links,
         NEW f, Explores(f, links, r, Cardinality(DOMAIN links))
  PROVE  Onward(links, f[Cardinality(DOMAIN links)]) = f[Cardinality(DOMAIN links)]
<1> DEFINE m == Cardinality(DOMAIN links)
<1>1. m \in Nat
  BY FS_CardinalityType
<1> HIDE DEF m
<1>2. /\ f[0] = {r}
      /\ \A n \in 1 .. m : f[n] = Onward(links, f[n - 1])
      /\ \A n \in 0 .. m : f[n] \subseteq f[m] /\ f[n] \subseteq DOMAIN links
  BY <1>1, WalkGrows DEF m
<1>3. SUFFICES ASSUME Onward(links, f[m]) # f[m] PROVE FALSE
  BY DEF m
<1>4. ASSUME NEW n \in 0 .. m PROVE Onward(links, f[n]) # f[n]
  <2>1. SUFFICES ASSUME Onward(links, f[n]) = f[n] PROVE FALSE
    OBVIOUS
  <2> DEFINE Bad == {e \in n .. m : f[e] # f[n]}
  <2>2. m \in Bad
    BY <1>1, <1>3, <2>1
  <2>3. PICK e \in Bad : \A d \in Bad : e <= d
    <3>1. Bad \subseteq Nat
      OBVIOUS
    <3> HIDE DEF Bad
    <3>2. QED
      BY <2>2, <3>1, LeastNat
  <2>4. e \in n .. m /\ f[e] # f[n]
    BY <2>3
  <2>5. e # n /\ e - 1 \in n .. m /\ e \in 1 .. m /\ ~(e <= e - 1)
    BY <1>1, <2>4
  <2>6. f[e - 1] = f[n]
    BY <2>3, <2>5
  <2>7. QED
    BY <1>2, <2>1, <2>4, <2>5, <2>6
<1>5. ASSUME NEW n \in 0 .. m
      PROVE  IsFiniteSet(f[n]) /\ Cardinality(f[n]) \in Nat /\ Cardinality(f[n]) <= m
  <2>1. f[n] \in SUBSET DOMAIN links
    BY <1>2
  <2>2. IsFiniteSet(f[n]) /\ Cardinality(f[n]) <= Cardinality(DOMAIN links)
    BY <2>1, FS_Subset
  <2>3. QED
    BY <2>2, FS_CardinalityType DEF m
<1> DEFINE Few == {n \in 0 .. m : ~(Cardinality(f[n]) > n)}
<1>6. m \in Few
  BY <1>1, <1>5
<1>7. PICK n \in Few : \A e \in Few : n <= e
  <2>1. Few \subseteq Nat
    OBVIOUS
  <2> HIDE DEF Few
  <2>2. QED
    BY <1>6, <2>1, LeastNat
<1>8. n \in 0 .. m /\ ~(Cardinality(f[n]) > n)
  BY <1>7
<1>9. n # 0
  <2>1. Cardinality(f[0]) = 1
    BY <1>2, FS_Singleton
  <2>2. QED
    BY <1>8, <2>1
<1>10. n \in 1 .. m /\ n - 1 \in 0 .. m /\ ~(n <= n - 1)
  BY <1>1, <1>8, <1>9
<1>11. Cardinality(f[n - 1]) > n - 1
  BY <1>7, <1>10
<1> HIDE DEF Few
<1>12. f[n] = Onward(links, f[n - 1]) /\ f[n] # f[n - 1]
  BY <1>2, <1>4, <1>10
<1>13. f[n - 1] \in SUBSET f[n]
  BY <1>12, OnwardElements
<1>14. /\ Cardinality(f[n - 1]) <= Cardinality(f[n])
       /\ Cardinality(f[n - 1]) # Cardinality(f[n])
  BY <1>5, <1>8, <1>12, <1>13, FS_Subset
<1>15. /\ Cardinality(f[n]) \in Nat /\ Cardinality(f[n - 1]) \in Nat
  BY <1>5, <1>8, <1>10
<1>16. QED
  BY <1>8, <1>10, <1>11, <1>14, <1>15
=============================================================================
