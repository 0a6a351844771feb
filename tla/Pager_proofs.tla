---------------------------- MODULE Pager_proofs ----------------------------
(***************************************************************************)
(* What holds of the pager for every set of page contents, every cache     *)
(* capacity, every sync interval and any number of pages.                  *)
(***************************************************************************)
EXTENDS Pager, SequenceLemmas, FiniteSetTheorems, TLAPS

(* Page ids handed out lie below the count in memory while the file is      *)
(* open, and below the count on page 0 while it is closed.                  *)
GivenBelowCount ==
  /\ pageCount \in Nat /\ saved \in Nat /\ given \subseteq Nat
  /\ "close" \notin may /\ "crash" \notin may =>
       \A id \in given : id < (IF open THEN pageCount ELSE saved)

(* As long as every Close manages to write the page count and the process   *)
(* does not crash, Allocate never hands out the same id twice, over any     *)
(* number of times the file is closed and opened.                           *)
THEOREM FreshIds == Spec => []NextIdFresh
<1>1. Init => GivenBelowCount
  BY DEF Init, GivenBelowCount
<1>2. GivenBelowCount /\ [Next]_vars => GivenBelowCount'
  <2>1. SUFFICES ASSUME GivenBelowCount, [Next]_vars, may' = may
                 PROVE  GivenBelowCount'
    BY DEF Next, vars
  <2>2. CASE OpenExisting
    BY <2>1, <2>2 DEF GivenBelowCount, OpenExisting
  <2>3. CASE OpenNew
    BY <2>1, <2>3 DEF GivenBelowCount, OpenNew
  <2>4. CASE \E n \in Intervals : SetSyncInterval(n)
    BY <2>1, <2>4 DEF GivenBelowCount, SetSyncInterval
  <2>5. CASE Allocate
    <3>1. /\ open /\ open' = open /\ saved' = saved
          /\ pageCount' = pageCount + 1 /\ given' = given \cup {pageCount}
      BY <2>5 DEF Allocate
    <3>2. QED
      BY <2>1, <3>1 DEF GivenBelowCount
  <2>6. CASE AllocateFails
    <3>1. /\ open /\ open' = open /\ saved' = saved
          /\ pageCount' = pageCount + 1 /\ given' = given
      BY <2>6 DEF AllocateFails
    <3>2. QED
      BY <2>1, <3>1 DEF GivenBelowCount
  <2>7. CASE \E id \in DOMAIN file : Read(id)
    BY <2>1, <2>7 DEF GivenBelowCount, Read
  <2>8. CASE \E id \in given, d \in Data :
               Write(id, d) \/ WriteFails(id, d) \/ Modify(id, d)
    <3>1. UNCHANGED <<open, saved, pageCount, given>>
      BY <2>8 DEF Write, WriteFails, Modify
    <3>2. QED
      BY <2>1, <3>1 DEF GivenBelowCount
  <2>9. CASE Close
    BY <2>1, <2>9 DEF GivenBelowCount, Close, Gone
  <2>10. CASE CloseFails \/ Crash
    <3>1. "close" \in may' \/ "crash" \in may'
      BY <2>1, <2>10 DEF CloseFails, Crash
    <3>2. pageCount' = 0 /\ saved' = saved /\ given' = given
      BY <2>10 DEF CloseFails, Crash, Gone
    <3>3. QED
      BY <2>1, <3>1, <3>2 DEF GivenBelowCount
  <2>11. CASE UNCHANGED vars
    BY <2>1, <2>11 DEF GivenBelowCount, vars
  <2>12. QED
    BY <2>1, <2>2, <2>3, <2>4, <2>5, <2>6, <2>7, <2>8, <2>9, <2>10, <2>11
       DEF Next, Step
<1>3. GivenBelowCount => NextIdFresh
  BY DEF GivenBelowCount, NextIdFresh
<1>4. QED
  BY <1>1, <1>2, <1>3, PTL DEF Spec
-----------------------------------------------------------------------------
CountInv == /\ pageCount \in Nat /\ saved \in Nat
            /\ SavedNotAhead

(* Whatever fails, and wherever the process crashes, the count on page 0    *)
(* does not run ahead of the count in memory.                               *)
THEOREM SavedCountNotAhead == Spec => []SavedNotAhead
<1>1. Init => CountInv
  BY DEF Init, CountInv, SavedNotAhead
<1>2. CountInv /\ [Next]_vars => CountInv'
  <2>1. SUFFICES ASSUME CountInv, [Next]_vars
                 PROVE  CountInv'
    OBVIOUS
  <2>2. CASE OpenExisting
    BY <2>1, <2>2 DEF CountInv, SavedNotAhead, OpenExisting
  <2>3. CASE OpenNew
    BY <2>1, <2>3 DEF CountInv, SavedNotAhead, OpenNew
  <2>4. CASE Allocate \/ AllocateFails
    <3>1. /\ open /\ open' = open /\ saved' = saved
          /\ pageCount' = pageCount + 1
      BY <2>4 DEF Allocate, AllocateFails
    <3>2. QED
      BY <2>1, <3>1 DEF CountInv, SavedNotAhead
  <2>5. CASE \/ \E n \in Intervals : SetSyncInterval(n)
             \/ \E id \in DOMAIN file : Read(id)
             \/ \E id \in given, d \in Data :
                  Write(id, d) \/ WriteFails(id, d) \/ Modify(id, d)
             \/ UNCHANGED vars
    <3>1. UNCHANGED <<open, saved, pageCount>>
      BY <2>5 DEF SetSyncInterval, Read, Write, WriteFails, Modify, vars
    <3>2. QED
      BY <2>1, <3>1 DEF CountInv, SavedNotAhead
  <2>6. CASE Close \/ CloseFails \/ Crash
    BY <2>1, <2>6 DEF CountInv, SavedNotAhead, Close, CloseFails, Crash, Gone
  <2>7. QED
    BY <2>1, <2>2, <2>3, <2>4, <2>5, <2>6 DEF Next, Step
<1>3. QED
  BY <1>1, <1>2, PTL DEF Spec, CountInv
-----------------------------------------------------------------------------
(* The write that makes the count a multiple of the interval follows        *)
(* interval - 1 writes that did not.                                        *)
LEMMA NextRemainder ==
  ASSUME NEW n \in Nat \ {0}, NEW c \in Nat
  PROVE  (c + 1) % n = IF c % n = n - 1 THEN 0 ELSE (c % n) + 1
<1>1. PICK q \in Int, r \in 0 .. n - 1 : c = q * n + r /\ c % n = r
  <2>1. c \div n \in Int /\ c % n \in 0 .. n - 1 /\ c = (c \div n) * n + (c % n)
    OBVIOUS
  <2>2. QED
    BY <2>1
<1>2. CASE r = n - 1
  <2>1. c + 1 = (q + 1) * n + 0
    BY <1>1, <1>2
  <2>2. ((q + 1) * n + 0) % n = 0
    <3>1. q + 1 \in Int /\ 0 \in 0 .. n - 1
      OBVIOUS
    <3>2. QED
      BY <3>1, RemainderUnique
  <2>3. QED
    BY <1>1, <1>2, <2>1, <2>2
<1>3. CASE r # n - 1
  <2>1. r + 1 \in 0 .. n - 1 /\ c + 1 = q * n + (r + 1)
    BY <1>1, <1>3
  <2>2. (q * n + (r + 1)) % n = r + 1
    BY <2>1, RemainderUnique
  <2>3. QED
    BY <1>1, <1>3, <2>1, <2>2
<1>4. QED
  BY <1>2, <1>3

(* While the interval is the one Open sets, the unsynced writes are what    *)
(* the count of writes leaves of it.                                        *)
SyncInv ==
  "interval" \notin may /\ "sync" \notin may =>
    /\ SyncInterval = DefaultInterval
    /\ open => /\ writeCount \in Nat
               /\ unsynced = writeCount % DefaultInterval

(* One counted write keeps the unsynced writes at the remainder.            *)
LEMMA CountedWrite ==
  ASSUME NEW c \in Nat, NEW u, u = c % DefaultInterval,
         CountWrite(c, DefaultInterval, u)
  PROVE  writeCount' \in Nat /\ unsynced' = writeCount' % DefaultInterval
<1>1. DefaultInterval \in Nat \ {0}
  BY PagerAssumption
<1>2. writeCount' = c + 1
  BY <1>1 DEF CountWrite, Counted
<1>3. unsynced' = IF (c + 1) % DefaultInterval = 0 THEN 0 ELSE u + 1
  BY <1>1 DEF CountWrite, SyncDue
<1>4. c % DefaultInterval \in 0 .. DefaultInterval - 1
  BY <1>1
<1>5. (c + 1) % DefaultInterval =
        IF c % DefaultInterval = DefaultInterval - 1 THEN 0
        ELSE (c % DefaultInterval) + 1
  BY <1>1, NextRemainder
<1>6. QED
  BY <1>1, <1>2, <1>3, <1>4, <1>5

(* When nobody changes the interval and no Sync fails, fewer page writes    *)
(* than the interval are unsynced at any time of a session.                 *)
THEOREM FewWritesUnsynced == Spec => []UnsyncedBounded
<1>0. DefaultInterval \in Nat \ {0}
  BY PagerAssumption
<1>1. Init => SyncInv
  BY DEF Init, SyncInv
<1>2. SyncInv /\ [Next]_vars => SyncInv'
  <2>1. SUFFICES ASSUME SyncInv, [Next]_vars, may' = may,
                        "interval" \notin may, "sync" \notin may
                 PROVE  SyncInv'
    BY DEF Next, vars, SyncInv
  <2>2. CASE OpenExisting
    <3>1. 0 = 0 % DefaultInterval
      <4>1. 0 \in 0 .. DefaultInterval - 1 /\ 0 * DefaultInterval + 0 = 0
        BY <1>0
      <4>2. (0 * DefaultInterval + 0) % DefaultInterval = 0
        BY <1>0, <4>1, RemainderUnique
      <4>3. QED
        BY <4>1, <4>2
    <3>2. QED
      BY <2>1, <2>2, <3>1 DEF SyncInv, OpenExisting
  <2>3. CASE OpenNew
    <3>1. 0 = 0 % DefaultInterval
      <4>1. 0 \in 0 .. DefaultInterval - 1 /\ 0 * DefaultInterval + 0 = 0
        BY <1>0
      <4>2. (0 * DefaultInterval + 0) % DefaultInterval = 0
        BY <1>0, <4>1, RemainderUnique
      <4>3. QED
        BY <4>1, <4>2
    <3>2. CountWrite(0, DefaultInterval, 0) /\ SyncInterval' = DefaultInterval
      BY <2>3 DEF OpenNew
    <3>3. writeCount' \in Nat /\ unsynced' = writeCount' % DefaultInterval
      BY <3>1, <3>2, CountedWrite
    <3>4. QED
      BY <3>2, <3>3 DEF SyncInv
  <2>4. CASE \/ Allocate
             \/ \E id \in given, d \in Data : Write(id, d)
    <3>1. /\ open /\ SyncInterval' = SyncInterval
          /\ CountWrite(writeCount, SyncInterval, unsynced)
      BY <2>4 DEF Allocate, Write
    <3>2. writeCount' \in Nat /\ unsynced' = writeCount' % DefaultInterval
      BY <2>1, <3>1, CountedWrite DEF SyncInv
    <3>3. QED
      BY <2>1, <3>1, <3>2 DEF SyncInv
  <2>5. CASE \/ AllocateFails
             \/ \E id \in DOMAIN file : Read(id)
             \/ \E id \in given, d \in Data : WriteFails(id, d) \/ Modify(id, d)
             \/ UNCHANGED vars
    <3>1. UNCHANGED <<open, SyncInterval, writeCount, unsynced>>
      BY <2>1, <2>5 DEF AllocateFails, Read, WriteFails, Modify, CountUnsyncedWrite,
                  vars
    <3>2. QED
      BY <2>1, <3>1 DEF SyncInv
  <2>6. CASE Close \/ CloseFails \/ Crash
    BY <2>6 DEF SyncInv, Close, CloseFails, Crash, Gone
  <2>7. CASE \E n \in Intervals : SetSyncInterval(n)
    BY <2>1, <2>7 DEF SetSyncInterval
  <2>8. QED
    BY <2>1, <2>2, <2>3, <2>4, <2>5, <2>6, <2>7 DEF Next, Step
<1>3. SyncInv => UnsyncedBounded
  BY <1>0 DEF SyncInv, UnsyncedBounded
<1>4. QED
  BY <1>1, <1>2, <1>3, PTL DEF Spec
-----------------------------------------------------------------------------
(* Cached pages and their contents.                                         *)
Entries == [id : Nat, page : PageContent]

(* No page is cached twice.                                                 *)
Once(c) == \A i, j \in 1 .. Len(c) : c[i].id = c[j].id => i = j

(* A cache the pager can have.                                              *)
GoodCache(c) == c \in Seq(Entries) /\ Once(c) /\ Len(c) <= CachePages

(* Where a cached page is.                                                  *)
LEMMA PositionOfCached ==
  ASSUME NEW c, GoodCache(c), NEW id \in LRU!Cached(c)
  PROVE  /\ LRU!Position(c, id) \in 1 .. Len(c)
         /\ c[LRU!Position(c, id)].id = id
<1>1. DOMAIN c = 1 .. Len(c)
  BY DEF GoodCache
<1>2. \E i \in DOMAIN c : c[i].id = id
  BY DEF LRU!Cached
<1>3. QED
  BY <1>1, <1>2 DEF LRU!Position

(* What is left of a cache when a page is taken out of it.                  *)
LEMMA WithoutIdElements ==
  ASSUME NEW c, GoodCache(c), NEW id \in Nat
  PROVE  LET d == LRU!WithoutId(c, id)
         IN  /\ d \in Seq(Entries)
             /\ Once(d)
             /\ Len(d) = Len(c) - (IF id \in LRU!Cached(c) THEN 1 ELSE 0)
             /\ \A j \in 1 .. Len(d) :
                  d[j].id # id /\ \E i \in 1 .. Len(c) : d[j] = c[i]
<1> DEFINE d == LRU!WithoutId(c, id)
<1>0. /\ c \in Seq(Entries) /\ Once(c) /\ Len(c) \in Nat
      /\ DOMAIN c = 1 .. Len(c)
  BY DEF GoodCache
<1>1. CASE id \notin LRU!Cached(c)
  <2>1. d = c
    BY <1>1 DEF LRU!WithoutId
  <2>2. \A j \in 1 .. Len(c) : c[j].id # id
    BY <1>0, <1>1 DEF LRU!Cached
  <2>3. QED
    BY <1>0, <1>1, <2>1, <2>2
<1>2. CASE id \in LRU!Cached(c)
  <2> DEFINE p == LRU!Position(c, id)
  <2>1. p \in 1 .. Len(c) /\ c[p].id = id
    BY <1>2, PositionOfCached
  <2>2. d = RemoveAt(c, p)
    BY <1>2 DEF LRU!WithoutId, LRU!RemoveAt, RemoveAt
  <2> HIDE DEF p, d
  <2>3. /\ d \in Seq(Entries)
        /\ Len(d) = Len(c) - 1
        /\ \A j \in 1 .. Len(c) - 1 : d[j] = IF j < p THEN c[j] ELSE c[j + 1]
    BY <1>0, <2>1, <2>2, RemoveAtElements
  <2>4. \A j \in 1 .. Len(d) :
          \E i \in 1 .. Len(c) : /\ i # p /\ d[j] = c[i]
                                 /\ i = IF j < p THEN j ELSE j + 1
    BY <1>0, <2>1, <2>3
  <2>5. \A j \in 1 .. Len(d) :
          d[j].id # id /\ \E i \in 1 .. Len(c) : d[j] = c[i]
    BY <1>0, <2>1, <2>4 DEF Once
  <2>6. Once(d)
    <3>1. SUFFICES ASSUME NEW j \in 1 .. Len(d), NEW k \in 1 .. Len(d),
                          d[j].id = d[k].id
                   PROVE  j = k
      BY DEF Once
    <3>2. PICK i \in 1 .. Len(c) : d[j] = c[i] /\ i = IF j < p THEN j ELSE j + 1
      BY <2>4
    <3>3. PICK m \in 1 .. Len(c) : d[k] = c[m] /\ m = IF k < p THEN k ELSE k + 1
      BY <2>4
    <3>4. i = m
      BY <1>0, <3>1, <3>2, <3>3 DEF Once
    <3>5. QED
      BY <1>0, <2>1, <2>3, <3>2, <3>3, <3>4
  <2>7. QED
    BY <1>2, <2>3, <2>5, <2>6 DEF d
<1>3. QED
  BY <1>1, <1>2

(* A page in front of a cache that does not have it.                        *)
LEMMA InFront ==
  ASSUME NEW e \in Entries, NEW c \in Seq(Entries), Once(c),
         \A j \in 1 .. Len(c) : c[j].id # e.id
  PROVE  LET d == <<e>> \o c
         IN  /\ d \in Seq(Entries) /\ Once(d) /\ Len(d) = Len(c) + 1
             /\ d[1] = e
             /\ \A j \in 2 .. Len(d) : j - 1 \in 1 .. Len(c) /\ d[j] = c[j - 1]
<1> DEFINE d == <<e>> \o c
<1>1. Len(c) \in Nat
  OBVIOUS
<1>2. /\ d \in Seq(Entries) /\ Len(d) = Len(c) + 1 /\ d[1] = e
      /\ \A j \in 2 .. Len(d) : j - 1 \in 1 .. Len(c) /\ d[j] = c[j - 1]
  BY <1>1
<1> HIDE DEF d
<1>3. Once(d)
  <2>1. SUFFICES ASSUME NEW i \in 1 .. Len(d), NEW j \in 1 .. Len(d),
                        d[i].id = d[j].id
                 PROVE  i = j
    BY DEF Once
  <2>2. CASE i = 1 /\ j = 1
    BY <2>2
  <2>3. CASE i = 1 /\ j # 1
    <3>1. j - 1 \in 1 .. Len(c) /\ d[j] = c[j - 1] /\ d[i] = e
      BY <1>1, <1>2, <2>3
    <3>2. QED
      BY <2>1, <3>1
  <2>4. CASE i # 1 /\ j = 1
    <3>1. i - 1 \in 1 .. Len(c) /\ d[i] = c[i - 1] /\ d[j] = e
      BY <1>1, <1>2, <2>4
    <3>2. QED
      BY <2>1, <3>1
  <2>5. CASE i # 1 /\ j # 1
    <3>1. i - 1 \in 1 .. Len(c) /\ j - 1 \in 1 .. Len(c)
          /\ c[i - 1].id = c[j - 1].id
      BY <1>1, <1>2, <2>1, <2>5
    <3>2. i - 1 = j - 1
      BY <3>1 DEF Once
    <3>3. QED
      BY <1>1, <1>2, <3>2
  <2>6. QED
    BY <2>2, <2>3, <2>4, <2>5
<1>4. QED
  BY <1>2, <1>3 DEF d

(* put: the page is cached with its new content, the capacity is kept, and  *)
(* the others that stay keep theirs.                                        *)
LEMMA PutKeepsCache ==
  ASSUME NEW c, GoodCache(c), NEW id \in Nat, NEW pg \in PageContent
  PROVE  LET d == LRU!WithPage(c, id, pg)
         IN  /\ GoodCache(d)
             /\ \A j \in 1 .. Len(d) :
                  \/ d[j] = [id |-> id, page |-> pg]
                  \/ d[j].id # id /\ \E i \in 1 .. Len(c) : d[j] = c[i]
<1> DEFINE e == [id |-> id, page |-> pg]
           w == LRU!WithoutId(c, id)
           d == <<e>> \o w
           r == LRU!WithPage(c, id, pg)
<1>1. /\ w \in Seq(Entries) /\ Once(w) /\ Len(w) \in Nat
      /\ Len(w) <= CachePages /\ CachePages \in Nat
      /\ \A j \in 1 .. Len(w) :
           w[j].id # id /\ \E i \in 1 .. Len(c) : w[j] = c[i]
  BY WithoutIdElements, PagerAssumption DEF GoodCache
<1>2. e \in Entries /\ e.id = id
  BY DEF Entries
<1>3. r = IF Len(d) > CachePages THEN SubSeq(d, 1, Len(d) - 1) ELSE d
  BY DEF LRU!WithPage, LRU!Front
<1> HIDE DEF w, r, e
<1>4. /\ d \in Seq(Entries) /\ Once(d) /\ Len(d) = Len(w) + 1 /\ d[1] = e
      /\ \A j \in 2 .. Len(d) : j - 1 \in 1 .. Len(w) /\ d[j] = w[j - 1]
  BY <1>1, <1>2, InFront
<1> HIDE DEF d
<1>5. /\ r \in Seq(Entries) /\ Len(r) \in Nat
      /\ Len(r) <= Len(d) /\ Len(r) <= CachePages
      /\ \A j \in 1 .. Len(r) : r[j] = d[j]
  BY <1>1, <1>3, <1>4
<1>6. Once(r)
  BY <1>4, <1>5 DEF Once
<1>7. \A j \in 1 .. Len(r) :
        r[j] = e \/ (r[j].id # id /\ \E i \in 1 .. Len(c) : r[j] = c[i])
  <2>1. TAKE j \in 1 .. Len(r)
  <2>2. CASE j = 1
    BY <1>4, <1>5, <2>2
  <2>3. CASE j # 1
    <3>1. j \in 2 .. Len(d) /\ r[j] = d[j]
      BY <1>4, <1>5, <2>3
    <3>2. QED
      BY <1>1, <1>4, <3>1
  <2>4. QED
    BY <2>2, <2>3
<1>8. QED
  BY <1>5, <1>6, <1>7 DEF GoodCache, e, r

(* get: the page moves to the front, nothing comes or goes.                 *)
LEMMA TouchKeepsCache ==
  ASSUME NEW c, GoodCache(c), NEW id \in LRU!Cached(c)
  PROVE  LET d == LRU!Touched(c, id)
         IN  /\ GoodCache(d)
             /\ \A j \in 1 .. Len(d) : \E i \in 1 .. Len(c) : d[j] = c[i]
<1> DEFINE p == LRU!Position(c, id)
           w == LRU!WithoutId(c, id)
           d == <<c[p]>> \o w
<1>1. p \in 1 .. Len(c) /\ c[p].id = id
  BY PositionOfCached
<1> HIDE DEF p
<1>2. c \in Seq(Entries) /\ c[p] \in Entries /\ id \in Nat /\ Len(c) \in Nat
      /\ Len(c) <= CachePages
  <2>1. c \in Seq(Entries) /\ Len(c) \in Nat /\ Len(c) <= CachePages
    BY DEF GoodCache
  <2>2. c[p] \in Entries
    BY <1>1, <2>1
  <2>3. QED
    BY <1>1, <2>1, <2>2 DEF Entries
<1>3. /\ w \in Seq(Entries) /\ Once(w) /\ Len(w) = Len(c) - 1
      /\ \A j \in 1 .. Len(w) :
           w[j].id # id /\ \E i \in 1 .. Len(c) : w[j] = c[i]
  BY <1>2, WithoutIdElements
<1>4. LRU!Touched(c, id) = d
  BY DEF LRU!Touched, LRU!Entry, p
<1> HIDE DEF w
<1>5. /\ d \in Seq(Entries) /\ Once(d) /\ Len(d) = Len(w) + 1 /\ d[1] = c[p]
      /\ \A j \in 2 .. Len(d) : j - 1 \in 1 .. Len(w) /\ d[j] = w[j - 1]
  BY <1>1, <1>2, <1>3, InFront
<1> HIDE DEF d
<1>6. \A j \in 1 .. Len(d) : \E i \in 1 .. Len(c) : d[j] = c[i]
  <2>1. TAKE j \in 1 .. Len(d)
  <2>2. CASE j = 1
    BY <1>1, <1>5, <2>2
  <2>3. CASE j # 1
    <3>1. j \in 2 .. Len(d)
      BY <1>3, <1>5, <2>3
    <3>2. QED
      BY <1>3, <1>5, <3>1
  <2>4. QED
    BY <2>2, <2>3
<1>7. QED
  BY <1>2, <1>3, <1>4, <1>5, <1>6 DEF GoodCache

(* The cache after a caller changes a page it was handed, as in Modify.     *)
Changed(c, id, pg) ==
  [i \in DOMAIN c |-> IF c[i].id = id THEN [c[i] EXCEPT !.page = pg] ELSE c[i]]

(* That page is the only one that changes.                                  *)
LEMMA ModifyKeepsCache ==
  ASSUME NEW c, GoodCache(c), NEW id, NEW pg \in PageContent
  PROVE  LET d == Changed(c, id, pg)
         IN  /\ GoodCache(d)
             /\ Len(d) = Len(c)
             /\ \A j \in 1 .. Len(d) : /\ d[j].id = c[j].id
                                       /\ d[j].id # id => d[j] = c[j]
<1> DEFINE new(i) == IF c[i].id = id THEN [c[i] EXCEPT !.page = pg] ELSE c[i]
           d == [i \in 1 .. Len(c) |-> new(i)]
<1>1. /\ c \in Seq(Entries) /\ Once(c) /\ Len(c) \in Nat /\ Len(c) <= CachePages
      /\ DOMAIN c = 1 .. Len(c)
  BY DEF GoodCache
<1>2. \A i \in 1 .. Len(c) : c[i] \in Entries
  BY <1>1
<1>3. \A i \in 1 .. Len(c) : /\ new(i) \in Entries
                             /\ new(i).id = c[i].id
                             /\ new(i).id # id => new(i) = c[i]
  BY <1>2 DEF Entries
<1> HIDE DEF new
<1>4. d \in Seq(Entries) /\ Len(d) = Len(c)
  BY <1>1, <1>3
<1>5. \A j \in 1 .. Len(d) : d[j] = new(j)
  BY <1>4
<1> HIDE DEF d
<1>6. Once(d)
  BY <1>1, <1>3, <1>4, <1>5 DEF Once
<1>7. GoodCache(d)
  BY <1>1, <1>4, <1>6 DEF GoodCache
<1>8. \A j \in 1 .. Len(d) : /\ d[j].id = c[j].id
                             /\ d[j].id # id => d[j] = c[j]
  BY <1>3, <1>4, <1>5
<1>9. QED
  BY <1>1, <1>4, <1>7, <1>8 DEF d, new, Changed

(* As many pages are cached as the cache has elements.                      *)
LEMMA CachedOnce ==
  ASSUME NEW c, GoodCache(c)
  PROVE  Cardinality(LRU!Cached(c)) = Len(c)
<1> DEFINE f == [i \in 1 .. Len(c) |-> c[i].id]
<1>1. Once(c) /\ Len(c) \in Nat /\ DOMAIN c = 1 .. Len(c)
  BY DEF GoodCache
<1>2. LRU!Cached(c) = {c[i].id : i \in 1 .. Len(c)}
  BY <1>1 DEF LRU!Cached
<1>3. f \in Injection(1 .. Len(c), LRU!Cached(c))
  BY <1>1, <1>2 DEF Injection, IsInjective, Once
<1>4. f \in Surjection(1 .. Len(c), LRU!Cached(c))
  BY <1>2 DEF Surjection
<1>5. ExistsBijection(1 .. Len(c), LRU!Cached(c))
  BY <1>3, <1>4 DEF ExistsBijection, Bijection
<1>6. IsFiniteSet(1 .. Len(c)) /\ Cardinality(1 .. Len(c)) = Len(c)
  <2>1. ASSUME NEW n \in Nat
        PROVE  IsFiniteSet(1 .. n) /\ Cardinality(1 .. n) = n
    <3>1. IsFiniteSet(1 .. n)
          /\ Cardinality(1 .. n) = IF 1 > n THEN 0 ELSE n - 1 + 1
      BY FS_Interval
    <3>2. QED
      BY <3>1
  <2>2. QED
    BY <1>1, <2>1
<1>7. QED
  BY <1>5, <1>6, FS_Bijection
-----------------------------------------------------------------------------
(* The file after page id is written.                                       *)
LEMMA ExtendedElements ==
  ASSUME file \in Seq(PageContent), NEW id \in Nat \ {0}, NEW d \in PageContent
  PROVE  LET f == Extended(id, d)
         IN  /\ f \in Seq(PageContent)
             /\ Len(f) = IF id > Len(file) THEN id ELSE Len(file)
             /\ f[id] = d
             /\ \A x \in 1 .. Len(f) :
                  x # id => f[x] = IF x <= Len(file) THEN file[x] ELSE Blank
<1> DEFINE n == IF id > Len(file) THEN id ELSE Len(file)
           at(x) == IF x = id THEN d
                    ELSE IF x <= Len(file) THEN file[x] ELSE Blank
           f == [x \in 1 .. n |-> at(x)]
<1>1. n \in Nat /\ id \in 1 .. n
  OBVIOUS
<1>2. \A x \in 1 .. n : at(x) \in PageContent
  <2>1. TAKE x \in 1 .. n
  <2>2. CASE x <= Len(file)
    <3>1. file[x] \in PageContent
      BY <1>1, <2>2
    <3>2. QED
      BY <2>2, <3>1
  <2>3. CASE ~(x <= Len(file))
    BY <2>3 DEF PageContent
  <2>4. QED
    BY <2>2, <2>3
<1>3. Extended(id, d) = f
  BY DEF Extended
<1>4. at(id) = d
      /\ \A x : x # id => at(x) = IF x <= Len(file) THEN file[x] ELSE Blank
  OBVIOUS
<1> HIDE DEF n, at
<1>5. f \in Seq(PageContent) /\ Len(f) = n /\ \A x \in 1 .. n : f[x] = at(x)
  BY <1>1, <1>2
<1> HIDE DEF f
<1>6. QED
  BY <1>1, <1>3, <1>4, <1>5 DEF n

(* Page id reads as d, on disk and wherever it is cached.                   *)
Shown(f, c, id, d) ==
  /\ f[id] = d
  /\ \A j \in 1 .. Len(c) : c[j].id = id => c[j].page = d

(* Why Read answers what was written: pages handed out are in the file,     *)
(* cached pages too, and both copies of a page agree, also for the pages    *)
(* that were never handed out, which may be handed out later.               *)
StoreInv ==
  /\ pageCount \in Nat /\ saved \in Nat
  /\ open => pageCount > 0
  /\ ~open => cache = << >>
  /\ file \in Seq(PageContent)
  /\ given \subseteq 1 .. Len(file)
  /\ DOMAIN latest = given
  /\ GoodCache(cache)
  /\ \A j \in 1 .. Len(cache) : cache[j].id \in 1 .. Len(file)
  /\ \A id \in given \ behind : Shown(file, cache, id, latest[id])
  /\ \A id \in (1 .. Len(file)) \ given : Shown(file, cache, id, Blank)

(* Allocate's blank page: nothing else in the file changes, the pages of a  *)
(* gap are blank.                                                           *)
LEMMA BlankPageKeeps ==
  ASSUME StoreInv, open
  PROVE  LET f == Extended(pageCount, Blank)
         IN  /\ f \in Seq(PageContent)
             /\ pageCount \in 1 .. Len(f)
             /\ given \subseteq 1 .. Len(f)
             /\ \A j \in 1 .. Len(cache) : cache[j].id \in 1 .. Len(f)
             /\ \A id \in given \ behind :
                  id # pageCount => Shown(f, cache, id, latest[id])
             /\ \A id \in (1 .. Len(f)) \ given : Shown(f, cache, id, Blank)
<1> DEFINE f == Extended(pageCount, Blank)
<1>1. /\ pageCount \in Nat \ {0} /\ Blank \in PageContent
      /\ file \in Seq(PageContent) /\ Len(file) \in Nat
      /\ \A j \in 1 .. Len(cache) : cache[j].id \in 1 .. Len(file)
  BY DEF StoreInv, PageContent
<1>2. /\ f \in Seq(PageContent) /\ f[pageCount] = Blank
      /\ Len(f) = IF pageCount > Len(file) THEN pageCount ELSE Len(file)
      /\ \A x \in 1 .. Len(f) :
           x # pageCount => f[x] = IF x <= Len(file) THEN file[x] ELSE Blank
  BY <1>1, ExtendedElements
<1> HIDE DEF f
<1>3. pageCount \in 1 .. Len(f) /\ 1 .. Len(file) \subseteq 1 .. Len(f)
  BY <1>1, <1>2
<1>4. ASSUME NEW id \in given \ behind, id # pageCount
      PROVE  Shown(f, cache, id, latest[id])
  <2>1. id \in 1 .. Len(file) /\ Shown(file, cache, id, latest[id])
    BY <1>4 DEF StoreInv
  <2>2. f[id] = file[id]
    BY <1>1, <1>2, <1>3, <1>4, <2>1
  <2>3. QED
    BY <2>1, <2>2 DEF Shown
<1>5. ASSUME NEW id \in (1 .. Len(f)) \ given
      PROVE  Shown(f, cache, id, Blank)
  <2>1. CASE id \in 1 .. Len(file)
    <3>1. Shown(file, cache, id, Blank)
      BY <1>5, <2>1 DEF StoreInv
    <3>2. f[id] = Blank
      BY <1>1, <1>2, <2>1, <3>1 DEF Shown
    <3>3. QED
      BY <3>1, <3>2 DEF Shown
  <2>2. CASE id \notin 1 .. Len(file)
    <3>1. f[id] = Blank
      BY <1>1, <1>2, <2>2
    <3>2. \A j \in 1 .. Len(cache) : cache[j].id # id
      BY <1>1, <2>2
    <3>3. QED
      BY <3>1, <3>2 DEF Shown
  <2>3. QED
    BY <2>1, <2>2
<1>6. given \subseteq 1 .. Len(f)
      /\ \A j \in 1 .. Len(cache) : cache[j].id \in 1 .. Len(f)
  BY <1>1, <1>3 DEF StoreInv
<1>7. QED
  BY <1>2, <1>3, <1>4, <1>5, <1>6 DEF f
-----------------------------------------------------------------------------
(* The steps that change what is cached.                                    *)
LEMMA ReadKeeps ==
  ASSUME StoreInv, NEW id \in DOMAIN file, Read(id)
  PROVE  StoreInv'
<1>1. /\ GoodCache(cache) /\ file \in Seq(PageContent)
      /\ \A j \in 1 .. Len(cache) : cache[j].id \in 1 .. Len(file)
      /\ open /\ UNCHANGED <<open, file, saved, pageCount, given, latest, behind>>
  BY DEF StoreInv, Read
<1>2. id \in Nat /\ id \in 1 .. Len(file) /\ file[id] \in PageContent
  BY <1>1
<1>3. /\ GoodCache(cache')
      /\ \A j \in 1 .. Len(cache') :
           \/ cache'[j] = [id |-> id, page |-> file[id]]
           \/ \E i \in 1 .. Len(cache) : cache'[j] = cache[i]
  <2>1. CASE id \in LRU!Cached(cache)
    <3>1. cache' = LRU!Touched(cache, id)
      BY <2>1 DEF Read
    <3>2. QED
      BY <1>1, <2>1, <3>1, TouchKeepsCache
  <2>2. CASE id \notin LRU!Cached(cache)
    <3>1. cache' = LRU!WithPage(cache, id, file[id])
      BY <2>2 DEF Read
    <3>2. QED
      BY <1>1, <1>2, <3>1, PutKeepsCache
  <2>3. QED
    BY <2>1, <2>2
<1>4. \A j \in 1 .. Len(cache') : cache'[j].id \in 1 .. Len(file)
  <2>1. TAKE j \in 1 .. Len(cache')
  <2>2. CASE cache'[j] = [id |-> id, page |-> file[id]]
    BY <1>2, <2>2
  <2>3. CASE \E i \in 1 .. Len(cache) : cache'[j] = cache[i]
    BY <1>1, <2>3
  <2>4. QED
    BY <1>3, <2>2, <2>3
<1>5. ASSUME NEW x, NEW d, Shown(file, cache, x, d)
      PROVE  Shown(file, cache', x, d)
  <2>1. SUFFICES ASSUME NEW j \in 1 .. Len(cache'), cache'[j].id = x
                 PROVE  cache'[j].page = d
    BY <1>5 DEF Shown
  <2>2. CASE cache'[j] = [id |-> id, page |-> file[id]]
    BY <1>5, <2>1, <2>2 DEF Shown
  <2>3. CASE \E i \in 1 .. Len(cache) : cache'[j] = cache[i]
    BY <1>5, <2>1, <2>3 DEF Shown
  <2>4. QED
    BY <1>3, <2>2, <2>3
<1>6. QED
  BY <1>1, <1>3, <1>4, <1>5 DEF StoreInv

(* Write, which gives the page its content in the cache and in the file,    *)
(* and a write that fails, after which the page counts as behind.           *)
LEMMA WriteKeeps ==
  ASSUME StoreInv, NEW id \in given, NEW d \in Data,
         Write(id, d) \/ WriteFails(id, d)
  PROVE  StoreInv'
<1>1. /\ GoodCache(cache) /\ file \in Seq(PageContent) /\ Len(file) \in Nat
      /\ given \subseteq 1 .. Len(file) /\ DOMAIN latest = given
      /\ \A j \in 1 .. Len(cache) : cache[j].id \in 1 .. Len(file)
      /\ open /\ UNCHANGED <<open, saved, pageCount, given>>
      /\ cache' = LRU!WithPage(cache, id, d)
      /\ file' = file \/ file' = Extended(id, d)
  BY DEF StoreInv, Write, WriteFails, CachePut
<1>2. id \in Nat \ {0} /\ id \in 1 .. Len(file) /\ d \in PageContent
  BY <1>1 DEF PageContent
<1>3. /\ GoodCache(cache')
      /\ \A j \in 1 .. Len(cache') :
           \/ cache'[j] = [id |-> id, page |-> d]
           \/ cache'[j].id # id /\ \E i \in 1 .. Len(cache) : cache'[j] = cache[i]
  BY <1>1, <1>2, PutKeepsCache
<1>4. /\ file' \in Seq(PageContent) /\ Len(file') = Len(file)
      /\ \A x \in 1 .. Len(file) : x # id => file'[x] = file[x]
  <2>1. CASE file' = file
    BY <1>1, <2>1
  <2>2. CASE file' = Extended(id, d)
    <3>1. /\ file' \in Seq(PageContent)
          /\ Len(file') = IF id > Len(file) THEN id ELSE Len(file)
          /\ \A x \in 1 .. Len(file') :
               x # id => file'[x] = IF x <= Len(file) THEN file[x] ELSE Blank
      <4>1. LET f == Extended(id, d)
            IN  /\ f \in Seq(PageContent)
                /\ Len(f) = IF id > Len(file) THEN id ELSE Len(file)
                /\ \A x \in 1 .. Len(f) :
                     x # id => f[x] = IF x <= Len(file) THEN file[x] ELSE Blank
        BY <1>1, <1>2, ExtendedElements
      <4>2. QED
        BY <2>2, <4>1
    <3>2. Len(file') = Len(file)
      BY <1>1, <1>2, <3>1
    <3>3. QED
      BY <1>1, <3>1, <3>2
  <2>3. QED
    BY <1>1, <2>1, <2>2
<1>5. \A j \in 1 .. Len(cache') : cache'[j].id \in 1 .. Len(file')
  <2>1. TAKE j \in 1 .. Len(cache')
  <2>2. CASE cache'[j] = [id |-> id, page |-> d]
    BY <1>2, <1>4, <2>2
  <2>3. CASE \E i \in 1 .. Len(cache) : cache'[j] = cache[i]
    BY <1>1, <1>4, <2>3
  <2>4. QED
    BY <1>3, <2>2, <2>3
<1>6. ASSUME NEW x \in 1 .. Len(file), x # id, NEW e, Shown(file, cache, x, e)
      PROVE  Shown(file', cache', x, e)
  <2>1. file'[x] = e
    BY <1>4, <1>6 DEF Shown
  <2>2. SUFFICES ASSUME NEW j \in 1 .. Len(cache'), cache'[j].id = x
                 PROVE  cache'[j].page = e
    BY <2>1 DEF Shown
  <2>3. PICK i \in 1 .. Len(cache) : cache'[j] = cache[i]
    BY <1>3, <1>6, <2>2
  <2>4. QED
    BY <1>6, <2>2, <2>3 DEF Shown
<1>7. CASE Write(id, d)
  <2>1. /\ file' = Extended(id, d) /\ behind' = behind \ {id}
        /\ latest' = With(latest, id, d)
    BY <1>7 DEF Write
  <2>2. file'[id] = d
    BY <1>1, <1>2, <2>1, ExtendedElements
  <2>3. Shown(file', cache', id, d)
    <3>1. SUFFICES ASSUME NEW j \in 1 .. Len(cache'), cache'[j].id = id
                   PROVE  cache'[j].page = d
      BY <2>2 DEF Shown
    <3>2. QED
      BY <1>3, <3>1
  <2>4. /\ DOMAIN latest' = given /\ latest'[id] = d
        /\ \A x \in given : x # id => latest'[x] = latest[x]
    BY <1>1, <2>1 DEF With
  <2>5. ASSUME NEW x \in given \ behind'
        PROVE  Shown(file', cache', x, latest'[x])
    <3>1. CASE x = id
      BY <2>3, <2>4, <3>1
    <3>2. CASE x # id
      <4>1. x \in 1 .. Len(file) /\ Shown(file, cache, x, latest[x])
        BY <1>1, <2>1, <2>5, <3>2 DEF StoreInv
      <4>2. QED
        BY <1>6, <2>4, <2>5, <3>2, <4>1
    <3>3. QED
      BY <3>1, <3>2
  <2>6. \A x \in (1 .. Len(file')) \ given : Shown(file', cache', x, Blank)
    BY <1>4, <1>6 DEF StoreInv
  <2>7. QED
    BY <1>1, <1>3, <1>4, <1>5, <2>4, <2>5, <2>6 DEF StoreInv
<1>8. CASE WriteFails(id, d)
  <2>1. behind' = behind \cup {id} /\ latest' = latest
    BY <1>8 DEF WriteFails
  <2>2. ASSUME NEW x \in given \ behind'
        PROVE  Shown(file', cache', x, latest'[x])
    <3>1. x # id /\ x \in 1 .. Len(file) /\ Shown(file, cache, x, latest[x])
      BY <1>1, <2>1, <2>2 DEF StoreInv
    <3>2. QED
      BY <1>6, <2>1, <3>1
  <2>3. \A x \in (1 .. Len(file')) \ given : Shown(file', cache', x, Blank)
    BY <1>4, <1>6 DEF StoreInv
  <2>4. QED
    BY <1>1, <1>3, <1>4, <1>5, <2>1, <2>2, <2>3 DEF StoreInv
<1>9. QED
  BY <1>7, <1>8

(* A caller that changes a page in place.                                   *)
LEMMA ModifyKeeps ==
  ASSUME StoreInv, NEW id \in given, NEW d \in Data, Modify(id, d)
  PROVE  StoreInv'
<1>1. /\ GoodCache(cache) /\ given \subseteq 1 .. Len(file)
      /\ \A j \in 1 .. Len(cache) : cache[j].id \in 1 .. Len(file)
      /\ open /\ UNCHANGED <<open, file, saved, pageCount, given, latest>>
      /\ behind' = behind \cup {id}
      /\ d \in PageContent
  BY DEF StoreInv, Modify, PageContent
<1>2. /\ GoodCache(cache') /\ Len(cache') = Len(cache)
      /\ \A j \in 1 .. Len(cache') : /\ cache'[j].id = cache[j].id
                                     /\ cache'[j].id # id => cache'[j] = cache[j]
  <2>1. cache' = Changed(cache, id, d)
    BY DEF Modify, Changed
  <2>2. QED
    BY <1>1, <2>1, ModifyKeepsCache
<1>3. ASSUME NEW x, x # id, NEW e, Shown(file, cache, x, e)
      PROVE  Shown(file, cache', x, e)
  BY <1>2, <1>3 DEF Shown
<1>4. \A j \in 1 .. Len(cache') : cache'[j].id \in 1 .. Len(file)
  BY <1>1, <1>2
<1>5. \A x \in given \ behind' : Shown(file, cache', x, latest[x])
  BY <1>1, <1>3 DEF StoreInv
<1>6. \A x \in (1 .. Len(file)) \ given : Shown(file, cache', x, Blank)
  BY <1>1, <1>3 DEF StoreInv
<1>7. QED
  BY <1>1, <1>2, <1>4, <1>5, <1>6 DEF StoreInv
-----------------------------------------------------------------------------
(* Allocate, whether or not it answers the id it took.                      *)
LEMMA AllocateKeeps ==
  ASSUME StoreInv, Allocate \/ AllocateFails
  PROVE  StoreInv'
<1> DEFINE f == Extended(pageCount, Blank)
<1>1. /\ open /\ UNCHANGED <<open, saved, cache>>
      /\ pageCount' = pageCount + 1
      /\ behind' = behind \cup (given \cap {pageCount})
      /\ \/ /\ file' = f
            /\ given' = given \cup {pageCount}
            /\ latest' = With(latest, pageCount, Blank)
         \/ /\ file' = f \/ file' = file
            /\ given' = given /\ latest' = latest
  BY DEF Allocate, AllocateFails
<1>2. /\ f \in Seq(PageContent)
      /\ pageCount \in 1 .. Len(f)
      /\ given \subseteq 1 .. Len(f)
      /\ \A j \in 1 .. Len(cache) : cache[j].id \in 1 .. Len(f)
      /\ \A id \in given \ behind :
           id # pageCount => Shown(f, cache, id, latest[id])
      /\ \A id \in (1 .. Len(f)) \ given : Shown(f, cache, id, Blank)
  BY <1>1, BlankPageKeeps
<1> HIDE DEF f
<1>3. /\ pageCount' \in Nat /\ pageCount' > 0 /\ saved' \in Nat
      /\ GoodCache(cache') /\ (~open' => cache' = << >>)
  BY <1>1 DEF StoreInv
<1>4. CASE /\ file' = f
           /\ given' = given \cup {pageCount}
           /\ latest' = With(latest, pageCount, Blank)
  <2>1. /\ DOMAIN latest' = given' /\ latest'[pageCount] = Blank
        /\ \A id \in given : id # pageCount => latest'[id] = latest[id]
    BY <1>4 DEF With, StoreInv
  <2>2. ASSUME NEW id \in given' \ behind'
        PROVE  Shown(file', cache', id, latest'[id])
    <3>1. CASE id = pageCount
      <4>1. id \in (1 .. Len(f)) \ given
        BY <1>1, <1>2, <2>2, <3>1
      <4>2. QED
        BY <1>1, <1>2, <1>4, <2>1, <3>1, <4>1
    <3>2. CASE id # pageCount
      BY <1>1, <1>2, <1>4, <2>1, <2>2, <3>2
    <3>3. QED
      BY <3>1, <3>2
  <2>3. \A id \in (1 .. Len(file')) \ given' : Shown(file', cache', id, Blank)
    BY <1>1, <1>2, <1>4
  <2>4. given' \subseteq 1 .. Len(file') /\ file' \in Seq(PageContent)
        /\ \A j \in 1 .. Len(cache') : cache'[j].id \in 1 .. Len(file')
    BY <1>1, <1>2, <1>4
  <2>5. QED
    BY <1>1, <1>3, <2>1, <2>2, <2>3, <2>4 DEF StoreInv
<1>5. CASE file' = f /\ given' = given /\ latest' = latest
  <2>1. \A id \in given' \ behind' : Shown(file', cache', id, latest'[id])
    <3>1. TAKE id \in given' \ behind'
    <3>2. id \in given \ behind /\ id # pageCount
      BY <1>1, <1>5
    <3>3. QED
      BY <1>1, <1>2, <1>5, <3>2
  <2>2. \A id \in (1 .. Len(file')) \ given' : Shown(file', cache', id, Blank)
    BY <1>1, <1>2, <1>5
  <2>3. given' \subseteq 1 .. Len(file') /\ file' \in Seq(PageContent)
        /\ \A j \in 1 .. Len(cache') : cache'[j].id \in 1 .. Len(file')
    BY <1>1, <1>2, <1>5
  <2>4. DOMAIN latest' = given'
    BY <1>5 DEF StoreInv
  <2>5. QED
    BY <1>1, <1>3, <2>1, <2>2, <2>3, <2>4 DEF StoreInv
<1>6. CASE file' = file /\ given' = given /\ latest' = latest
  BY <1>1, <1>3, <1>6 DEF StoreInv
<1>7. QED
  BY <1>1, <1>4, <1>5, <1>6

(* Opening the file changes no page.                                        *)
LEMMA OpenKeeps ==
  ASSUME StoreInv, OpenExisting \/ OpenNew
  PROVE  StoreInv'
<1>1. /\ ~open /\ open' /\ pageCount' \in Nat /\ pageCount' > 0 /\ saved' \in Nat
      /\ UNCHANGED <<file, cache, given, latest, behind>>
  BY DEF StoreInv, OpenExisting, OpenNew
<1>2. QED
  BY <1>1 DEF StoreInv

(* A process that ends, however it ends, takes the cached copies with it.   *)
LEMMA GoneKeeps ==
  ASSUME StoreInv, Close \/ CloseFails \/ Crash
  PROVE  StoreInv'
<1>1. /\ ~open' /\ cache' = << >> /\ pageCount' \in Nat /\ saved' \in Nat
      /\ UNCHANGED <<file, given, latest, behind>>
  BY DEF StoreInv, Close, CloseFails, Crash, Gone
<1>2. GoodCache(cache') /\ Len(cache') = 0
  BY <1>1, PagerAssumption DEF GoodCache, Once
<1>3. \A x, d : Shown(file, cache, x, d) => Shown(file, cache', x, d)
  BY <1>2 DEF Shown
<1>4. QED
  BY <1>1, <1>2, <1>3 DEF StoreInv

LEMMA StoreKeeps == Spec => []StoreInv
<1>1. Init => StoreInv
  <2>1. SUFFICES ASSUME Init PROVE StoreInv
    OBVIOUS
  <2>2. /\ ~open /\ file = << >> /\ saved = 0 /\ pageCount = 0 /\ cache = << >>
        /\ given = {} /\ latest = << >> /\ behind = {}
    BY <2>1 DEF Init
  <2>3. GoodCache(cache) /\ Len(cache) = 0
    BY <2>2, PagerAssumption DEF GoodCache, Once
  <2>4. file \in Seq(PageContent) /\ Len(file) = 0 /\ DOMAIN latest = {}
    BY <2>2
  <2>5. QED
    BY <2>2, <2>3, <2>4 DEF StoreInv
<1>2. StoreInv /\ [Next]_vars => StoreInv'
  <2>1. SUFFICES ASSUME StoreInv, [Next]_vars
                 PROVE  StoreInv'
    OBVIOUS
  <2>2. CASE OpenExisting \/ OpenNew
    BY <2>1, <2>2, OpenKeeps
  <2>3. CASE \E n \in Intervals : SetSyncInterval(n)
    <3>1. UNCHANGED <<open, file, saved, pageCount, cache, given, latest, behind>>
      BY <2>3 DEF SetSyncInterval
    <3>2. QED
      BY <2>1, <3>1 DEF StoreInv
  <2>4. CASE Allocate \/ AllocateFails
    BY <2>1, <2>4, AllocateKeeps
  <2>5. CASE \E id \in DOMAIN file : Read(id)
    BY <2>1, <2>5, ReadKeeps
  <2>6. CASE \E id \in given, d \in Data :
               Write(id, d) \/ WriteFails(id, d) \/ Modify(id, d)
    BY <2>1, <2>6, WriteKeeps, ModifyKeeps
  <2>7. CASE Close \/ CloseFails \/ Crash
    BY <2>1, <2>7, GoneKeeps
  <2>8. CASE UNCHANGED vars
    BY <2>1, <2>8 DEF StoreInv, vars
  <2>9. QED
    BY <2>1, <2>2, <2>3, <2>4, <2>5, <2>6, <2>7, <2>8 DEF Next, Step
<1>3. QED
  BY <1>1, <1>2, PTL DEF Spec

(* lruCache.put and moveToFront, whatever calls fail and wherever the       *)
(* process crashes: the cache never holds a page twice, nor more pages than *)
(* its capacity.                                                            *)
THEOREM CacheStaysBounded == Spec => []CacheBounded
<1>1. StoreInv => CacheBounded
  <2>1. SUFFICES ASSUME StoreInv PROVE CacheBounded
    OBVIOUS
  <2>2. GoodCache(cache)
    BY <2>1 DEF StoreInv
  <2>3. QED
    BY <2>2, CachedOnce DEF CacheBounded, GoodCache
<1>2. QED
  BY <1>1, StoreKeeps, PTL

(* Pager.Read, over any number of sessions, failed calls and crashes: the   *)
(* content a page was last given, from the cache or from disk, unless its   *)
(* last change failed or was never written, or it was handed out twice.     *)
THEOREM ReadsAnswerLatest == Spec => []ReadsLatest
<1>1. StoreInv => ReadsLatest
  <2>1. SUFFICES ASSUME StoreInv, NEW id \in DOMAIN latest \ behind
                 PROVE  Content(id) = latest[id]
    BY DEF ReadsLatest
  <2>2. GoodCache(cache) /\ Shown(file, cache, id, latest[id])
    BY <2>1 DEF StoreInv
  <2>3. CASE id \in LRU!Cached(cache)
    <3>1. /\ LRU!Position(cache, id) \in 1 .. Len(cache)
          /\ cache[LRU!Position(cache, id)].id = id
      BY <2>2, <2>3, PositionOfCached
    <3>2. QED
      BY <2>2, <2>3, <3>1 DEF Content, LRU!Entry, Shown
  <2>4. CASE id \notin LRU!Cached(cache)
    BY <2>2, <2>4 DEF Content, Shown
  <2>5. QED
    BY <2>3, <2>4
<1>2. QED
  BY <1>1, StoreKeeps, PTL
-----------------------------------------------------------------------------
(* Pages that no caller has changed since a Close wrote the count have ids  *)
(* below that count, and nothing has given them another content.            *)
SettledInv ==
  \A id \in DOMAIN settled :
    /\ id < saved
    /\ id \in DOMAIN latest \ behind
    /\ settled[id] = latest[id]

(* Allocate takes an id from the count on, which is behind all of them.     *)
LEMMA AllocateSettled ==
  ASSUME SettledInv, StoreInv, SavedNotAhead, Allocate \/ AllocateFails
  PROVE  SettledInv'
<1>1. /\ open /\ UNCHANGED <<saved, settled>>
      /\ behind' = behind \cup (given \cap {pageCount})
      /\ latest' = With(latest, pageCount, Blank) \/ latest' = latest
  BY DEF Allocate, AllocateFails
<1>2. pageCount \in Nat /\ saved \in Nat /\ saved <= pageCount
      /\ DOMAIN latest \subseteq Nat
  BY <1>1 DEF StoreInv, SavedNotAhead
<1>3. SUFFICES ASSUME NEW id \in DOMAIN settled
               PROVE  /\ id < saved
                      /\ id \in DOMAIN latest' \ behind'
                      /\ settled[id] = latest'[id]
  BY <1>1 DEF SettledInv
<1>4. id < saved /\ id \in DOMAIN latest \ behind /\ settled[id] = latest[id]
  BY <1>3 DEF SettledInv
<1>5. id # pageCount
  BY <1>2, <1>4
<1>6. QED
  BY <1>1, <1>4, <1>5 DEF With

(* A page that a caller changes is not settled any more.                    *)
LEMMA ChangesSettled ==
  ASSUME SettledInv, NEW id \in given, NEW d \in Data,
         Write(id, d) \/ WriteFails(id, d) \/ Modify(id, d)
  PROVE  SettledInv'
<1>1. /\ UNCHANGED saved /\ settled' = Without(settled, id)
      /\ behind' \subseteq behind \cup {id}
      /\ latest' = With(latest, id, d) \/ latest' = latest
  BY DEF Write, WriteFails, Modify
<1>2. SUFFICES ASSUME NEW x \in DOMAIN settled'
               PROVE  /\ x < saved
                      /\ x \in DOMAIN latest' \ behind'
                      /\ settled'[x] = latest'[x]
  BY <1>1 DEF SettledInv
<1>3. x \in DOMAIN settled /\ x # id /\ settled'[x] = settled[x]
  BY <1>1, <1>2 DEF Without
<1>4. x < saved /\ x \in DOMAIN latest \ behind /\ settled[x] = latest[x]
  BY <1>3 DEF SettledInv
<1>5. QED
  BY <1>1, <1>3, <1>4 DEF With

LEMMA SettledKeeps == Spec => []SettledInv
<1>1. Init => SettledInv
  BY DEF Init, SettledInv
<1>2. SettledInv /\ StoreInv /\ SavedNotAhead /\ [Next]_vars => SettledInv'
  <2>1. SUFFICES ASSUME SettledInv, StoreInv, SavedNotAhead, [Next]_vars
                 PROVE  SettledInv'
    OBVIOUS
  <2>2. CASE OpenExisting
    <3>1. UNCHANGED <<saved, latest, behind, settled>>
      BY <2>2 DEF OpenExisting
    <3>2. QED
      BY <2>1, <3>1 DEF SettledInv
  <2>3. CASE OpenNew
    <3>1. saved = 0 /\ saved' = 1 /\ UNCHANGED <<latest, behind, settled>>
      BY <2>3 DEF OpenNew
    <3>2. DOMAIN latest \subseteq Nat
      BY <2>1 DEF StoreInv
    <3>3. QED
      BY <2>1, <3>1, <3>2 DEF SettledInv
  <2>4. CASE \E n \in Intervals : SetSyncInterval(n)
    <3>1. UNCHANGED <<saved, latest, behind, settled>>
      BY <2>4 DEF SetSyncInterval
    <3>2. QED
      BY <2>1, <3>1 DEF SettledInv
  <2>5. CASE Allocate \/ AllocateFails
    BY <2>1, <2>5, AllocateSettled
  <2>6. CASE \E id \in DOMAIN file : Read(id)
    <3>1. UNCHANGED <<saved, latest, behind, settled>>
      BY <2>6 DEF Read
    <3>2. QED
      BY <2>1, <3>1 DEF SettledInv
  <2>7. CASE \E id \in given, d \in Data :
               Write(id, d) \/ WriteFails(id, d) \/ Modify(id, d)
    BY <2>1, <2>7, ChangesSettled
  <2>8. CASE Close
    <3>1. saved' = pageCount /\ settled' = Counting /\ UNCHANGED <<latest, behind>>
      BY <2>8 DEF Close, Gone
    <3>2. QED
      BY <3>1 DEF Counting, SettledInv
  <2>9. CASE CloseFails \/ Crash
    <3>1. UNCHANGED <<saved, latest, behind, settled>>
      BY <2>9 DEF CloseFails, Crash, Gone
    <3>2. QED
      BY <2>1, <3>1 DEF SettledInv
  <2>10. CASE UNCHANGED vars
    BY <2>1, <2>10 DEF SettledInv, vars
  <2>11. QED
    BY <2>1, <2>2, <2>3, <2>4, <2>5, <2>6, <2>7, <2>8, <2>9, <2>10 DEF Next, Step
<1>3. QED
  BY <1>1, <1>2, StoreKeeps, SavedCountNotAhead, PTL DEF Spec

(* Allocate, Close and Open, over any number of crashes and failed calls:   *)
(* what was in the file at a Close that wrote the page count reads back in  *)
(* every later session until a caller changes it, since none of its pages   *)
(* is handed out again.                                                     *)
THEOREM SettledPagesRead == Spec => []SettledReadsBack
<1>1. SettledInv /\ StoreInv /\ SavedNotAhead /\ ReadsLatest => SettledReadsBack
  <2>1. SUFFICES ASSUME SettledInv, StoreInv, SavedNotAhead, ReadsLatest, open,
                        NEW id \in DOMAIN settled
                 PROVE  id < pageCount /\ Content(id) = settled[id]
    BY DEF SettledReadsBack
  <2>2. id < saved /\ id \in DOMAIN latest \ behind /\ settled[id] = latest[id]
    BY <2>1 DEF SettledInv
  <2>3. id \in Nat /\ saved \in Nat /\ pageCount \in Nat /\ saved <= pageCount
    BY <2>1, <2>2 DEF StoreInv, SavedNotAhead
  <2>4. Content(id) = latest[id]
    BY <2>1, <2>2 DEF ReadsLatest
  <2>5. QED
    BY <2>2, <2>3, <2>4
<1>2. QED
  BY <1>1, SettledKeeps, StoreKeeps, SavedCountNotAhead, ReadsAnswerLatest, PTL
=============================================================================
