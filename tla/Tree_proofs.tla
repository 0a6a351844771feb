---------------------------- MODULE Tree_proofs -----------------------------
(***************************************************************************)
(* What the engine of module Tree keeps.                                   *)
(*                                                                         *)
(* First that the keys of every page are in order: what the operators of   *)
(* module BTPage do to an ordered page, and the inductive invariant IInv.  *)
(* Then that the pages together are the map of the pairs inserted: which   *)
(* keys each page is for, what an insertion, a split and a new root make   *)
(* of that, and the inductive invariant MapInv.  Then what is left of it   *)
(* when a session ends and the next begins, the levels of the tree from    *)
(* the root to the leaves, where a search comes to, and what a crash       *)
(* leaves.  Last the bytes of the cells: sets that hold every page written,*)
(* those of the type Page first, then the pages that values of one length  *)
(* fill.                                                                   *)
(***************************************************************************)
EXTENDS TreeStore, SequenceLemmas, FiniteSetTheorems, FunctionTheorems, TLAPS

(* The shape of a page.  How many bytes its cells take is left open: no     *)
(* lemma before those of CellBytes is about the free space.                 *)
IsPage(p) ==
  /\ p = [leaf |-> p.leaf, cells |-> p.cells, content |-> p.content,
          rightmost |-> p.rightmost, next |-> p.next]
  /\ p.leaf \in BOOLEAN
  /\ p.cells \in Seq(Cell)
  /\ p.rightmost \in Nat
  /\ p.next \in Int

(* The keys of a page are in order, those of a leaf strictly.               *)
Ordered(p) ==
  \A i, j \in 1 .. NumCells(p) :
    i < j => \/ p.cells[i].key < p.cells[j].key
             \/ ~p.leaf /\ p.cells[i].key = p.cells[j].key

(* The children of an internal page are pages of S.                         *)
ChildrenIn(p, S) ==
  ~p.leaf => /\ p.rightmost \in S
             /\ \A i \in 1 .. NumCells(p) : p.cells[i].lc \in S
-----------------------------------------------------------------------------
(* The cells of a page, one by one.                                         *)
LEMMA CellsOfPage ==
  ASSUME NEW p, IsPage(p)
  PROVE  /\ NumCells(p) \in Nat
         /\ \A i \in 1 .. NumCells(p) :
              /\ p.cells[i] \in Cell
              /\ p.cells[i].key \in Int
              /\ p.cells[i].lc \in Nat
<1>1. p.cells \in Seq(Cell)
  BY DEF IsPage
<1>2. Len(p.cells) \in Nat /\ \A i \in 1 .. Len(p.cells) : p.cells[i] \in Cell
  BY <1>1
<1>3. \A c \in Cell : c.key \in Int /\ c.lc \in Nat
  BY DEF Cell
<1>4. QED
  BY <1>2, <1>3 DEF NumCells

(* FindIdx finds a border between cells that go right and cells that do     *)
(* not, on every page: the first cell that does not go right, or the end.   *)
LEMMA FindIdxIsBorder ==
  ASSUME NEW p, IsPage(p), NEW k \in Int, NEW leaf \in BOOLEAN
  PROVE  LET i == FindIdx(p, k, leaf)
         IN  /\ i \in 1 .. NumCells(p) + 1
             /\ i > 1 => GoesRight(p, i - 1, k, leaf)
             /\ i <= NumCells(p) => ~GoesRight(p, i, k, leaf)
<1> DEFINE n == NumCells(p)
           Border(i) == /\ i > 1 => GoesRight(p, i - 1, k, leaf)
                        /\ i <= n => ~GoesRight(p, i, k, leaf)
           Ends == {i \in 1 .. n + 1 : i <= n => ~GoesRight(p, i, k, leaf)}
<1>1. n \in Nat
  BY CellsOfPage
<1>2. n + 1 \in Ends /\ Ends \subseteq Nat
  BY <1>1
<1>3. PICK e \in Ends : \A y \in Ends : e <= y
  BY <1>2, LeastNat
<1>4. e \in 1 .. n + 1 /\ Border(e)
  <2>1. ASSUME e > 1 PROVE GoesRight(p, e - 1, k, leaf)
    <3>1. e - 1 \in 1 .. n /\ ~(e <= e - 1)
      BY <1>1, <2>1
    <3>2. e - 1 \notin Ends
      BY <1>3, <3>1
    <3>3. QED
      BY <1>1, <3>1, <3>2
  <2>2. QED
    BY <1>1, <2>1
<1> HIDE DEF Border
<1>5. FindIdx(p, k, leaf) = CHOOSE i \in 1 .. n + 1 : Border(i)
  BY DEF FindIdx, Border
<1>6. FindIdx(p, k, leaf) \in 1 .. n + 1 /\ Border(FindIdx(p, k, leaf))
  BY <1>4, <1>5
<1>7. QED
  BY <1>6 DEF Border

(* On an ordered page the cells left of the position hold keys that are at  *)
(* most the key searched for, smaller ones when the search is for a leaf;   *)
(* the cells from it on hold no smaller key.                                *)
LEMMA FindIdxSplitsPage ==
  ASSUME NEW p, IsPage(p), Ordered(p), NEW k \in Int, NEW leaf \in BOOLEAN
  PROVE  LET i == FindIdx(p, k, leaf)
         IN  /\ i \in 1 .. NumCells(p) + 1
             /\ \A j \in 1 .. i - 1 : /\ p.cells[j].key <= k
                                      /\ leaf => p.cells[j].key < k
             /\ \A j \in i .. NumCells(p) : k <= p.cells[j].key
<1> DEFINE i == FindIdx(p, k, leaf)
           n == NumCells(p)
<1>1. /\ i \in 1 .. n + 1
      /\ i > 1 => GoesRight(p, i - 1, k, leaf)
      /\ i <= n => ~GoesRight(p, i, k, leaf)
  BY FindIdxIsBorder
<1>2. n \in Nat /\ \A j \in 1 .. n : p.cells[j].key \in Int
  BY CellsOfPage
<1>3. \A j, l \in 1 .. n : j <= l => p.cells[j].key <= p.cells[l].key
  <2>1. TAKE j, l \in 1 .. n
  <2>2. CASE j < l
    BY <1>2, <2>2 DEF Ordered
  <2>3. CASE j = l
    BY <1>2, <2>3
  <2>4. QED
    BY <1>2, <2>2, <2>3
<1> HIDE DEF i, n
<1>4. ASSUME NEW j \in 1 .. i - 1
      PROVE  p.cells[j].key <= k /\ (leaf => p.cells[j].key < k)
  <2>1. i - 1 \in 1 .. n /\ j \in 1 .. n /\ j <= i - 1 /\ i > 1
    BY <1>1, <1>2
  <2>2. /\ p.cells[i - 1].key <= k
        /\ leaf => p.cells[i - 1].key < k
    BY <1>1, <1>2, <2>1 DEF GoesRight
  <2>3. QED
    BY <1>2, <1>3, <2>1, <2>2
<1>5. ASSUME NEW j \in i .. n
      PROVE  k <= p.cells[j].key
  <2>1. i \in 1 .. n /\ j \in 1 .. n /\ i <= j
    BY <1>1, <1>2
  <2>2. k <= p.cells[i].key
    BY <1>1, <1>2, <2>1 DEF GoesRight
  <2>3. QED
    BY <1>2, <1>3, <2>1, <2>2
<1>6. QED
  BY <1>1, <1>4, <1>5 DEF i, n
-----------------------------------------------------------------------------
(* A page is its five fields.                                               *)
LEMMA FieldsMakePage ==
  ASSUME NEW l \in BOOLEAN, NEW c \in Seq(Cell), NEW n, NEW r \in Nat,
         NEW x \in Int
  PROVE  IsPage([leaf |-> l, cells |-> c, content |-> n, rightmost |-> r,
                 next |-> x])
BY DEF IsPage

(* What a page is with one or two fields replaced.                          *)
LEMMA PageWithCells ==
  ASSUME NEW p, IsPage(p), NEW c
  PROVE  [p EXCEPT !.cells = c] =
           [leaf |-> p.leaf, cells |-> c, content |-> p.content,
            rightmost |-> p.rightmost, next |-> p.next]
BY DEF IsPage

(* The same, of a page whose last child is replaced as well.                *)
LEMMA PageWithCellsAndChild ==
  ASSUME NEW p, IsPage(p), NEW c \in Seq(Cell), NEW r \in Nat
  PROVE  [p EXCEPT !.cells = c, !.rightmost = r] =
           [leaf |-> p.leaf, cells |-> c, content |-> p.content,
            rightmost |-> r, next |-> p.next]
<1> DEFINE q == [p EXCEPT !.cells = c]
<1>1. [p EXCEPT !.cells = c, !.rightmost = r] = [q EXCEPT !.rightmost = r]
  OBVIOUS
<1>2. q = [leaf |-> p.leaf, cells |-> c, content |-> p.content,
           rightmost |-> p.rightmost, next |-> p.next]
  BY PageWithCells
<1> HIDE DEF q
<1>3. QED
  BY <1>1, <1>2

(* The same, of a page whose free space shrinks.                            *)
LEMMA PageWithContent ==
  ASSUME NEW p, IsPage(p), NEW n
  PROVE  [p EXCEPT !.content = @ - n] =
           [leaf |-> p.leaf, cells |-> p.cells, content |-> p.content - n,
            rightmost |-> p.rightmost, next |-> p.next]
BY DEF IsPage

(* The same, of a page one value of which is replaced.                      *)
LEMMA PageWithValue ==
  ASSUME NEW p, IsPage(p), NEW i, NEW v
  PROVE  [p EXCEPT !.cells[i].val = v] =
           [leaf |-> p.leaf, cells |-> [p.cells EXCEPT ![i].val = v],
            content |-> p.content, rightmost |-> p.rightmost, next |-> p.next]
<1>1. [p EXCEPT !.cells[i].val = v]
        = [p EXCEPT !.cells = [p.cells EXCEPT ![i].val = v]]
  OBVIOUS
<1>2. QED
  BY <1>1, PageWithCells

(* A change of the content offset is no change of keys and children.        *)
LEMMA ContentKeepsPage ==
  ASSUME NEW p, IsPage(p), NEW n
  PROVE  LET q == [p EXCEPT !.content = @ - n]
         IN  /\ IsPage(q) /\ q.leaf = p.leaf
             /\ Ordered(p) => Ordered(q)
             /\ \A S : ChildrenIn(p, S) => ChildrenIn(q, S)
             /\ q.cells = p.cells /\ q.rightmost = p.rightmost /\ q.next = p.next
<1> DEFINE q == [p EXCEPT !.content = @ - n]
<1>1. q = [leaf |-> p.leaf, cells |-> p.cells, content |-> p.content - n,
           rightmost |-> p.rightmost, next |-> p.next]
  BY PageWithContent
<1> HIDE DEF q
<1>2. IsPage(q)
  BY <1>1, FieldsMakePage DEF IsPage
<1>3. /\ q.leaf = p.leaf /\ q.cells = p.cells /\ q.rightmost = p.rightmost
      /\ q.next = p.next
  BY <1>1
<1>4. QED
  BY <1>2, <1>3 DEF q, Ordered, ChildrenIn, NumCells

(* Cells one of which has a new value.                                      *)
Overwritten(s, i, v) == [s EXCEPT ![i].val = v]

(* Cells whose keys and children are those of a page's cells.               *)
LEMMA CellUpdated ==
  ASSUME NEW s \in Seq(Cell), NEW i \in 1 .. Len(s), NEW v \in Values \cup {Nil}
  PROVE  LET t == Overwritten(s, i, v)
         IN  /\ t \in Seq(Cell) /\ Len(t) = Len(s)
             /\ \A j \in 1 .. Len(s) : /\ t[j].key = s[j].key
                                       /\ t[j].val = IF j = i THEN v ELSE s[j].val
                                       /\ t[j].lc = s[j].lc
<1> DEFINE c == [s[i] EXCEPT !.val = v]
           t == [s EXCEPT ![i] = c]
<1>1. s[i] \in Cell
  BY ElementOfSeq
<1>2. c \in Cell /\ c.key = s[i].key /\ c.val = v /\ c.lc = s[i].lc
  BY <1>1 DEF Cell
<1>3. Overwritten(s, i, v) = t
  BY DEF Overwritten
<1> HIDE DEF c
<1>4. /\ t \in Seq(Cell) /\ Len(t) = Len(s)
      /\ \A j \in 1 .. Len(s) : t[j] = IF j = i THEN c ELSE s[j]
  BY <1>2, ExceptSeq
<1>5. QED
  BY <1>2, <1>3, <1>4

(* An overwritten value is no change of keys and children.                  *)
LEMMA ValueKeepsPage ==
  ASSUME NEW p, IsPage(p), NEW i \in 1 .. NumCells(p),
         NEW v \in Values \cup {Nil}
  PROVE  LET q == [p EXCEPT !.cells[i].val = v]
         IN  /\ IsPage(q) /\ q.leaf = p.leaf
             /\ Ordered(p) => Ordered(q)
             /\ \A S : ChildrenIn(p, S) => ChildrenIn(q, S)
             /\ NumCells(q) = NumCells(p)
             /\ \A j \in 1 .. NumCells(p) :
                  /\ q.cells[j].key = p.cells[j].key
                  /\ q.cells[j].val = IF j = i THEN v ELSE p.cells[j].val
                  /\ q.cells[j].lc = p.cells[j].lc
             /\ q.rightmost = p.rightmost /\ q.next = p.next
<1> DEFINE t == [p.cells EXCEPT ![i].val = v]
           q == [p EXCEPT !.cells[i].val = v]
<1>1. p.cells \in Seq(Cell) /\ p.rightmost \in Nat /\ p.next \in Int
      /\ p.leaf \in BOOLEAN
  BY DEF IsPage
<1>2. /\ t \in Seq(Cell) /\ Len(t) = Len(p.cells)
      /\ \A j \in 1 .. Len(p.cells) :
           /\ t[j].key = p.cells[j].key
           /\ t[j].val = IF j = i THEN v ELSE p.cells[j].val
           /\ t[j].lc = p.cells[j].lc
  <2>1. i \in 1 .. Len(p.cells)
    BY DEF NumCells
  <2>2. t = Overwritten(p.cells, i, v)
    BY DEF Overwritten
  <2> HIDE DEF t
  <2>3. QED
    BY <1>1, <2>1, <2>2, CellUpdated
<1>3. q = [leaf |-> p.leaf, cells |-> t, content |-> p.content,
           rightmost |-> p.rightmost, next |-> p.next]
  BY PageWithValue
<1> HIDE DEF q, t
<1>4. IsPage(q)
  BY <1>1, <1>2, <1>3, FieldsMakePage
<1>5. /\ q.leaf = p.leaf /\ q.cells = t
      /\ q.rightmost = p.rightmost /\ q.next = p.next
  BY <1>3
<1>6. QED
  BY <1>2, <1>4, <1>5 DEF q, Ordered, ChildrenIn, NumCells
-----------------------------------------------------------------------------
(* Cells with another left child in one of them.                            *)
LEMMA ChildUpdated ==
  ASSUME NEW s \in Seq(Cell), NEW i \in 1 .. Len(s), NEW n \in Nat
  PROVE  LET t == [s EXCEPT ![i].lc = n]
         IN  /\ t \in Seq(Cell) /\ Len(t) = Len(s)
             /\ \A j \in 1 .. Len(s) :
                  /\ t[j].key = s[j].key
                  /\ t[j].val = s[j].val
                  /\ t[j].lc = IF j = i THEN n ELSE s[j].lc
<1> DEFINE c == [s[i] EXCEPT !.lc = n]
           t == [s EXCEPT ![i] = c]
<1>1. s[i] \in Cell
  BY ElementOfSeq
<1>2. c \in Cell /\ c.key = s[i].key /\ c.val = s[i].val /\ c.lc = n
  BY <1>1 DEF Cell
<1>3. [s EXCEPT ![i].lc = n] = t
  OBVIOUS
<1> HIDE DEF c
<1>4. /\ t \in Seq(Cell) /\ Len(t) = Len(s)
      /\ \A j \in 1 .. Len(s) : t[j] = IF j = i THEN c ELSE s[j]
  BY <1>2, ExceptSeq
<1>5. QED
  BY <1>2, <1>3, <1>4

(* The child at a position of an internal page.                             *)
LEMMA ChildOfPage ==
  ASSUME NEW p, IsPage(p), NEW i \in 1 .. NumCells(p) + 1
  PROVE  /\ ChildAt(p, i) \in Nat
         /\ \A S : ChildrenIn(p, S) /\ ~p.leaf => ChildAt(p, i) \in S
<1>1. NumCells(p) \in Nat /\ \A j \in 1 .. NumCells(p) : p.cells[j].lc \in Nat
  BY CellsOfPage
<1>2. p.rightmost \in Nat
  BY DEF IsPage
<1>3. QED
  BY <1>1, <1>2 DEF ChildAt, ChildrenIn

(* What splitNode and doInsert put on a page.                               *)
Insertable(p, i, key, val, rc) ==
  /\ IsPage(p)
  /\ i \in 1 .. NumCells(p) + 1
  /\ key \in Int /\ val \in Values \cup {Nil} /\ rc \in Nat

(* A page with a cell put in at position i.                                 *)
LEMMA WithCellElements ==
  ASSUME NEW p, NEW i, NEW key, NEW val, NEW rc, Insertable(p, i, key, val, rc),
         NEW r, r = WithCell(p, i, key, val, rc)
  PROVE  /\ IsPage(r) /\ r.leaf = p.leaf
         /\ NumCells(r) = NumCells(p) + 1
         /\ \A j \in 1 .. NumCells(p) + 1 :
              r.cells[j].key = IF j < i THEN p.cells[j].key
                               ELSE IF j = i THEN key ELSE p.cells[j - 1].key
         /\ \A S : ChildrenIn(p, S) /\ rc \in S => ChildrenIn(r, S)
         /\ \A j \in 1 .. NumCells(p) + 1 :
              r.cells[j].val = IF j < i THEN p.cells[j].val
                               ELSE IF j = i THEN val ELSE p.cells[j - 1].val
         /\ ~p.leaf => \A j \in 1 .. NumCells(p) + 1 :
              r.cells[j].lc = IF j < i THEN p.cells[j].lc
                              ELSE IF j = i THEN ChildAt(p, i)
                              ELSE IF j = i + 1 THEN rc ELSE p.cells[j - 1].lc
         /\ r.rightmost = IF i = NumCells(p) + 1 THEN rc ELSE p.rightmost
         /\ r.next = p.next
<1>0. /\ IsPage(p) /\ i \in 1 .. NumCells(p) + 1
      /\ key \in Int /\ val \in Values \cup {Nil} /\ rc \in Nat
  BY DEF Insertable
<1> DEFINE q  == WithCell(p, i, key, val, rc)
           n  == NumCells(p)
           lc == IF p.leaf THEN 0 ELSE ChildAt(p, i)
           c  == [key |-> key, val |-> val, lc |-> lc]
           s  == InsertAt(p.cells, i, c)
           t  == [s EXCEPT ![i + 1].lc = rc]
<1>1. /\ p.cells \in Seq(Cell) /\ p.rightmost \in Nat /\ p.next \in Int
      /\ p.leaf \in BOOLEAN
  BY <1>0 DEF IsPage
<1>2. n = Len(p.cells) /\ n \in Nat
  BY <1>0, CellsOfPage DEF NumCells
<1>3. /\ lc \in Nat /\ \A S : ChildrenIn(p, S) /\ ~p.leaf => lc \in S
      /\ ~p.leaf => lc = ChildAt(p, i)
  BY <1>0, <1>1, ChildOfPage
<1> HIDE DEF lc
<1>4. c \in Cell /\ c.key = key /\ c.val = val /\ c.lc = lc
  BY <1>0, <1>3 DEF Cell
<1> HIDE DEF c
<1>5. /\ s \in Seq(Cell) /\ Len(s) = n + 1
      /\ \A j \in 1 .. n + 1 : s[j] = IF j < i THEN p.cells[j]
                                      ELSE IF j = i THEN c ELSE p.cells[j - 1]
  <2>1. i \in 1 .. Len(p.cells) + 1
    BY <1>0, <1>2
  <2>2. /\ s \in Seq(Cell) /\ Len(s) = Len(p.cells) + 1
        /\ \A j \in 1 .. Len(p.cells) + 1 :
             s[j] = IF j < i THEN p.cells[j]
                    ELSE IF j = i THEN c ELSE p.cells[j - 1]
    BY <1>1, <1>4, <2>1, InsertAtElements
  <2>3. QED
    BY <1>2, <2>2
<1> HIDE DEF s
<1>6. \A j \in 1 .. n + 1 :
        /\ s[j].key = IF j < i THEN p.cells[j].key
                      ELSE IF j = i THEN key ELSE p.cells[j - 1].key
        /\ s[j].val = IF j < i THEN p.cells[j].val
                      ELSE IF j = i THEN val ELSE p.cells[j - 1].val
        /\ s[j].lc = IF j < i THEN p.cells[j].lc
                     ELSE IF j = i THEN lc ELSE p.cells[j - 1].lc
  BY <1>0, <1>4, <1>5
<1>7. ASSUME NEW S, ChildrenIn(p, S), ~p.leaf
      PROVE  \A j \in 1 .. n + 1 : s[j].lc \in S
  <2>1. \A j \in 1 .. n : p.cells[j].lc \in S
    BY <1>7 DEF ChildrenIn
  <2>2. lc \in S
    BY <1>3, <1>7
  <2>3. SUFFICES ASSUME NEW j \in 1 .. n + 1
                 PROVE  s[j].lc \in S
    OBVIOUS
  <2>4. s[j].lc = IF j < i THEN p.cells[j].lc
                  ELSE IF j = i THEN lc ELSE p.cells[j - 1].lc
    BY <1>6
  <2>5. i \in 1 .. n + 1 /\ n \in Nat
    BY <1>0, <1>2
  <2>6. CASE j < i
    <3>1. j \in 1 .. n
      BY <2>5, <2>6
    <3>2. QED
      BY <2>1, <2>4, <2>6, <3>1
  <2>7. CASE j = i
    BY <2>2, <2>4, <2>7
  <2>8. CASE j > i
    <3>1. j - 1 \in 1 .. n /\ ~(j < i) /\ j # i
      BY <2>5, <2>8
    <3>2. QED
      BY <2>1, <2>4, <3>1
  <2>9. j < i \/ j = i \/ j > i
    BY <2>5
  <2>10. QED
    BY <2>6, <2>7, <2>8, <2>9
<1>8. CASE i = n + 1
  <2>1. q = [leaf |-> p.leaf, cells |-> s, content |-> p.content,
             rightmost |-> rc, next |-> p.next]
    <3>1. q = [p EXCEPT !.cells = s, !.rightmost = rc]
      BY <1>8 DEF WithCell, s, c, lc
    <3>2. QED
      BY <1>0, <1>5, <3>1, PageWithCellsAndChild
  <2> HIDE DEF q
  <2>2. IsPage(q)
    BY <1>0, <1>1, <1>5, <2>1, FieldsMakePage
  <2>3. /\ q.leaf = p.leaf /\ q.cells = s
        /\ q.rightmost = rc /\ q.next = p.next
    BY <2>1
  <2>4. \A S : ChildrenIn(p, S) /\ rc \in S => ChildrenIn(q, S)
    BY <1>5, <1>7, <2>3 DEF ChildrenIn, NumCells
  <2>5. NumCells(q) = n + 1
    BY <1>5, <2>3 DEF NumCells
  <2>6. QED
    BY <1>0, <1>2, <1>3, <1>6, <1>8, <2>2, <2>3, <2>4, <2>5 DEF q
<1>9. CASE i # n + 1 /\ p.leaf
  <2>1. q = [leaf |-> p.leaf, cells |-> s, content |-> p.content,
             rightmost |-> p.rightmost, next |-> p.next]
    <3>1. q = [p EXCEPT !.cells = s]
      BY <1>9 DEF WithCell, s, c, lc
    <3>2. QED
      BY <1>0, <3>1, PageWithCells
  <2> HIDE DEF q
  <2>2. IsPage(q)
    BY <1>0, <1>1, <1>5, <2>1, FieldsMakePage
  <2>3. /\ q.leaf = p.leaf /\ q.cells = s
        /\ q.rightmost = p.rightmost /\ q.next = p.next
    BY <2>1
  <2>4. \A S : ChildrenIn(q, S)
    BY <1>9, <2>3 DEF ChildrenIn
  <2>5. NumCells(q) = n + 1
    BY <1>5, <2>3 DEF NumCells
  <2>6. QED
    BY <1>6, <1>9, <2>2, <2>3, <2>4, <2>5 DEF q
<1>10. CASE i # n + 1 /\ ~p.leaf
  <2>0. i + 1 \in 1 .. Len(s)
    BY <1>0, <1>2, <1>5, <1>10
  <2>1. q = [leaf |-> p.leaf, cells |-> t, content |-> p.content,
             rightmost |-> p.rightmost, next |-> p.next]
    <3>1. q = [p EXCEPT !.cells = t]
      BY <1>10 DEF WithCell, s, c, lc
    <3>2. QED
      BY <1>0, <3>1, PageWithCells
  <2> HIDE DEF q
  <2>2. /\ t \in Seq(Cell) /\ Len(t) = Len(s)
        /\ \A j \in 1 .. Len(s) :
             /\ t[j].key = s[j].key
             /\ t[j].val = s[j].val
             /\ t[j].lc = IF j = i + 1 THEN rc ELSE s[j].lc
    BY <1>0, <1>5, <2>0, ChildUpdated
  <2> HIDE DEF t
  <2>3. IsPage(q)
    BY <1>0, <1>1, <2>1, <2>2, FieldsMakePage
  <2>4. /\ q.leaf = p.leaf /\ q.cells = t
        /\ q.rightmost = p.rightmost /\ q.next = p.next
    BY <2>1
  <2>5. NumCells(q) = n + 1
    BY <1>5, <2>2, <2>4 DEF NumCells
  <2>6. \A S : ChildrenIn(p, S) /\ rc \in S => ChildrenIn(q, S)
    BY <1>5, <1>7, <1>10, <2>2, <2>4, <2>5 DEF ChildrenIn
  <2>7. QED
    BY <1>0, <1>2, <1>3, <1>5, <1>6, <1>10, <2>2, <2>3, <2>4, <2>5, <2>6 DEF q
<1>11. QED
  BY <1>8, <1>9, <1>10

(* Position i of a page is one where the key fits between its neighbours,   *)
(* on a leaf strictly.                                                      *)
Between(p, i, key) ==
  /\ i \in 1 .. NumCells(p) + 1
  /\ \A j \in 1 .. i - 1 : /\ p.cells[j].key <= key
                           /\ p.leaf => p.cells[j].key < key
  /\ \A j \in i .. NumCells(p) : /\ key <= p.cells[j].key
                                 /\ p.leaf => key < p.cells[j].key

(* A cell put in where its key fits keeps the page ordered.                 *)
LEMMA WithCellOrdered ==
  ASSUME NEW p, IsPage(p), Ordered(p), NEW key \in Int, NEW i,
         Between(p, i, key), NEW val \in Values \cup {Nil}, NEW rc \in Nat
  PROVE  Ordered(WithCell(p, i, key, val, rc))
<1> DEFINE q == WithCell(p, i, key, val, rc)
           n == NumCells(p)
<1>1. i \in 1 .. n + 1
  BY DEF Between
<1>2. /\ q.leaf = p.leaf /\ NumCells(q) = n + 1
      /\ \A j \in 1 .. n + 1 :
           q.cells[j].key = IF j < i THEN p.cells[j].key
                            ELSE IF j = i THEN key ELSE p.cells[j - 1].key
  <2>1. Insertable(p, i, key, val, rc)
    BY <1>1 DEF Insertable
  <2>2. /\ q.leaf = p.leaf /\ NumCells(q) = NumCells(p) + 1
        /\ \A j \in 1 .. NumCells(p) + 1 :
             q.cells[j].key = IF j < i THEN p.cells[j].key
                              ELSE IF j = i THEN key ELSE p.cells[j - 1].key
    BY <2>1, WithCellElements
  <2>3. QED
    BY <2>2
<1>3. n \in Nat /\ \A j \in 1 .. n : p.cells[j].key \in Int
  BY CellsOfPage
<1> HIDE DEF q
<1>4. ASSUME NEW a \in 1 .. n + 1, NEW b \in 1 .. n + 1, a < b
      PROVE  \/ q.cells[a].key < q.cells[b].key
             \/ ~p.leaf /\ q.cells[a].key = q.cells[b].key
  <2>1. CASE b < i
    <3>1. q.cells[a].key = p.cells[a].key /\ q.cells[b].key = p.cells[b].key
      BY <1>1, <1>2, <1>3, <1>4, <2>1
    <3>2. a \in 1 .. n /\ b \in 1 .. n
      BY <1>1, <1>3, <1>4, <2>1
    <3>3. QED
      BY <1>4, <3>1, <3>2 DEF Ordered
  <2>2. CASE b = i
    <3>1. q.cells[a].key = p.cells[a].key /\ q.cells[b].key = key
      BY <1>1, <1>2, <1>3, <1>4, <2>2
    <3>2. a \in 1 .. n /\ a \in 1 .. i - 1
      BY <1>1, <1>3, <1>4, <2>2
    <3>3. p.cells[a].key \in Int
      BY <1>3, <3>2
    <3>4. p.cells[a].key <= key /\ (p.leaf => p.cells[a].key < key)
      BY <3>2 DEF Between
    <3>5. QED
      BY <3>1, <3>3, <3>4
  <2>3. CASE a = i
    <3>1. q.cells[a].key = key /\ q.cells[b].key = p.cells[b - 1].key
      BY <1>1, <1>2, <1>3, <1>4, <2>3
    <3>2. b - 1 \in 1 .. n /\ b - 1 \in i .. n
      BY <1>1, <1>3, <1>4, <2>3
    <3>3. p.cells[b - 1].key \in Int
      BY <1>3, <3>2
    <3>4. key <= p.cells[b - 1].key /\ (p.leaf => key < p.cells[b - 1].key)
      BY <3>2 DEF Between
    <3>5. QED
      BY <3>1, <3>3, <3>4
  <2>4. CASE a < i /\ b > i
    <3>1. q.cells[a].key = p.cells[a].key /\ q.cells[b].key = p.cells[b - 1].key
      BY <1>1, <1>2, <1>3, <1>4, <2>4
    <3>2. /\ a \in 1 .. n /\ a \in 1 .. i - 1
          /\ b - 1 \in 1 .. n /\ b - 1 \in i .. n
      BY <1>1, <1>3, <1>4, <2>4
    <3>3. p.cells[a].key \in Int /\ p.cells[b - 1].key \in Int
      BY <1>3, <3>2
    <3>4. /\ p.cells[a].key <= key /\ (p.leaf => p.cells[a].key < key)
          /\ key <= p.cells[b - 1].key /\ (p.leaf => key < p.cells[b - 1].key)
      BY <3>2 DEF Between
    <3>5. QED
      BY <3>1, <3>3, <3>4
  <2>5. CASE a > i
    <3>1. /\ q.cells[a].key = p.cells[a - 1].key
          /\ q.cells[b].key = p.cells[b - 1].key
      BY <1>1, <1>2, <1>3, <1>4, <2>5
    <3>2. a - 1 \in 1 .. n /\ b - 1 \in 1 .. n /\ a - 1 < b - 1
      BY <1>1, <1>3, <1>4, <2>5
    <3>3. QED
      BY <3>1, <3>2 DEF Ordered
  <2>6. b < i \/ b = i \/ a = i \/ (a < i /\ b > i) \/ a > i
    BY <1>1, <1>3
  <2>7. QED
    BY <2>1, <2>2, <2>3, <2>4, <2>5, <2>6
<1>5. QED
  BY <1>2, <1>4 DEF Ordered, q

(* A page with a cell deleted.                                              *)
LEMMA DeleteCellElements ==
  ASSUME NEW p, IsPage(p), NEW i \in 1 .. NumCells(p)
  PROVE  LET q == DeleteCell(p, i)
         IN  /\ IsPage(q) /\ q.leaf = p.leaf
             /\ NumCells(q) = NumCells(p) - 1
             /\ \A j \in 1 .. NumCells(q) :
                  q.cells[j].key = IF j < i THEN p.cells[j].key
                                   ELSE p.cells[j + 1].key
             /\ \A j \in 1 .. NumCells(q) :
                  q.cells[j].val = IF j < i THEN p.cells[j].val
                                   ELSE p.cells[j + 1].val
             /\ q.next = p.next
             /\ Ordered(p) => Ordered(q)
             /\ \A S : ChildrenIn(p, S) => ChildrenIn(q, S)
<1> DEFINE q == DeleteCell(p, i)
           n == NumCells(p)
           s == RemoveAt(p.cells, i)
<1>1. /\ p.cells \in Seq(Cell) /\ p.rightmost \in Nat /\ p.next \in Int
      /\ p.leaf \in BOOLEAN
  BY DEF IsPage
<1>2. n = Len(p.cells) /\ n \in Nat
  BY CellsOfPage DEF NumCells
<1>3. /\ s \in Seq(Cell) /\ Len(s) = n - 1
      /\ \A j \in 1 .. n - 1 : s[j] = IF j < i THEN p.cells[j] ELSE p.cells[j + 1]
  <2>1. i \in 1 .. Len(p.cells)
    BY <1>2
  <2>2. /\ s \in Seq(Cell) /\ Len(s) = Len(p.cells) - 1
        /\ \A j \in 1 .. Len(p.cells) - 1 :
             s[j] = IF j < i THEN p.cells[j] ELSE p.cells[j + 1]
    BY <1>1, <2>1, RemoveAtElements
  <2>3. QED
    BY <1>2, <2>2
<1>4. q = [leaf |-> p.leaf, cells |-> s, content |-> p.content,
           rightmost |-> p.rightmost, next |-> p.next]
  BY PageWithCells DEF DeleteCell
<1> HIDE DEF q, s
<1>5. IsPage(q)
  BY <1>1, <1>3, <1>4, FieldsMakePage
<1>6. /\ q.leaf = p.leaf /\ q.cells = s
      /\ q.rightmost = p.rightmost /\ q.next = p.next
  BY <1>4
<1>7. NumCells(q) = n - 1
  BY <1>3, <1>6 DEF NumCells
<1>8. \A j \in 1 .. n - 1 :
        \E l \in 1 .. n : q.cells[j] = p.cells[l] /\ l = IF j < i THEN j ELSE j + 1
  <2>1. TAKE j \in 1 .. n - 1
  <2>2. CASE j < i
    BY <1>2, <1>3, <1>6, <2>2
  <2>3. CASE j >= i
    <3>1. q.cells[j] = p.cells[j + 1] /\ j + 1 \in 1 .. n
      BY <1>2, <1>3, <1>6, <2>3
    <3>2. QED
      BY <1>2, <2>3, <3>1
  <2>4. j < i \/ j >= i
    BY <1>2
  <2>5. QED
    BY <2>2, <2>3, <2>4
<1>9. Ordered(p) => Ordered(q)
  <2>1. SUFFICES ASSUME Ordered(p), NEW a \in 1 .. n - 1, NEW b \in 1 .. n - 1,
                        a < b
                 PROVE  \/ q.cells[a].key < q.cells[b].key
                        \/ ~p.leaf /\ q.cells[a].key = q.cells[b].key
    BY <1>6, <1>7 DEF Ordered
  <2>2. PICK l \in 1 .. n : q.cells[a] = p.cells[l] /\ l = IF a < i THEN a ELSE a + 1
    BY <1>8
  <2>3. PICK m \in 1 .. n : q.cells[b] = p.cells[m] /\ m = IF b < i THEN b ELSE b + 1
    BY <1>8
  <2>4. l < m
    BY <1>2, <2>1, <2>2, <2>3
  <2>5. QED
    BY <2>1, <2>2, <2>3, <2>4 DEF Ordered
<1>10. \A S : ChildrenIn(p, S) => ChildrenIn(q, S)
  BY <1>6, <1>7, <1>8 DEF ChildrenIn
<1>11. \A j \in 1 .. n - 1 :
         /\ q.cells[j].key = IF j < i THEN p.cells[j].key ELSE p.cells[j + 1].key
         /\ q.cells[j].val = IF j < i THEN p.cells[j].val ELSE p.cells[j + 1].val
  BY <1>3, <1>6
<1>12. QED
  BY <1>5, <1>6, <1>7, <1>9, <1>10, <1>11 DEF q

(* A page filled with a stretch of the cells of another one.                *)
LEMMA StretchOfPage ==
  ASSUME NEW p, IsPage(p), Ordered(p), NEW a \in Int, NEW b \in Int,
         1 <= a, a <= b + 1, b <= NumCells(p), NEW r \in Nat, NEW x \in Int
  PROVE  LET q == NewPage(p.leaf, SubSeq(p.cells, a, b), r, x)
         IN  /\ IsPage(q) /\ q.leaf = p.leaf
             /\ Ordered(q)
             /\ NumCells(q) = b - a + 1
             /\ \A j \in 1 .. b - a + 1 : q.cells[j] = p.cells[a + j - 1]
             /\ q.rightmost = r /\ q.next = x
             /\ \A S : ChildrenIn(p, S) /\ (p.leaf \/ r \in S) => ChildrenIn(q, S)
<1> DEFINE s == SubSeq(p.cells, a, b)
           q == NewPage(p.leaf, s, r, x)
<1>1. p.cells \in Seq(Cell) /\ p.leaf \in BOOLEAN
  BY DEF IsPage
<1>2. NumCells(p) = Len(p.cells) /\ NumCells(p) \in Nat
  BY CellsOfPage DEF NumCells
<1>3. /\ s \in Seq(Cell) /\ Len(s) = b - a + 1
      /\ \A j \in 1 .. b - a + 1 : s[j] = p.cells[a + j - 1]
  <2>1. \A j \in a .. b : p.cells[j] \in Cell
    BY <1>1, <1>2, CellsOfPage
  <2>2. QED
    BY <1>1, <1>2, <2>1, SubSeqProperties
<1>4. /\ q.leaf = p.leaf /\ q.cells = s /\ q.rightmost = r /\ q.next = x
      /\ IsPage(q)
  BY <1>1, <1>3, FieldsMakePage DEF NewPage
<1> HIDE DEF q, s
<1>5. NumCells(q) = b - a + 1
  BY <1>3, <1>4 DEF NumCells
<1>6. Ordered(q)
  <2>1. SUFFICES ASSUME NEW j \in 1 .. b - a + 1, NEW l \in 1 .. b - a + 1,
                        j < l
                 PROVE  \/ q.cells[j].key < q.cells[l].key
                        \/ ~p.leaf /\ q.cells[j].key = q.cells[l].key
    BY <1>4, <1>5 DEF Ordered
  <2>2. /\ a + j - 1 \in 1 .. NumCells(p) /\ a + l - 1 \in 1 .. NumCells(p)
        /\ a + j - 1 < a + l - 1
    BY <1>2, <2>1
  <2>3. q.cells[j] = p.cells[a + j - 1] /\ q.cells[l] = p.cells[a + l - 1]
    BY <1>3, <1>4
  <2>4. QED
    BY <2>2, <2>3 DEF Ordered
<1>7. ASSUME NEW S, ChildrenIn(p, S), p.leaf \/ r \in S
      PROVE  ChildrenIn(q, S)
  <2>1. SUFFICES ASSUME ~p.leaf, NEW j \in 1 .. b - a + 1
                 PROVE  q.cells[j].lc \in S
    BY <1>4, <1>5, <1>7 DEF ChildrenIn
  <2>2. a + j - 1 \in 1 .. NumCells(p)
    BY <1>2
  <2>3. QED
    BY <1>3, <1>4, <1>7, <2>1, <2>2 DEF ChildrenIn
<1>8. QED
  BY <1>3, <1>4, <1>5, <1>6, <1>7 DEF q, s

(* The position FindIdx answers on a page without the key is one where the  *)
(* key fits; on an internal page, whose keys may repeat, with it as well.   *)
LEMMA FoundPositionFits ==
  ASSUME NEW p, IsPage(p), Ordered(p), NEW k \in Int, NEW i,
         i = FindIdx(p, k, p.leaf),
         p.leaf /\ i <= NumCells(p) => p.cells[i].key # k
  PROVE  Between(p, i, k)
<1> DEFINE n == NumCells(p)
<1>1. p.leaf \in BOOLEAN
  BY DEF IsPage
<1>2. n \in Nat /\ \A j \in 1 .. n : p.cells[j].key \in Int
  BY CellsOfPage
<1>3. /\ i \in 1 .. n + 1
      /\ \A j \in 1 .. i - 1 : /\ p.cells[j].key <= k
                               /\ p.leaf => p.cells[j].key < k
      /\ \A j \in i .. n : k <= p.cells[j].key
  BY <1>1, FindIdxSplitsPage
<1>4. ASSUME p.leaf, NEW j \in i .. n
      PROVE  k < p.cells[j].key
  <2>1. i \in 1 .. n /\ j \in 1 .. n /\ i \in i .. n
    BY <1>2, <1>3
  <2>2. k < p.cells[i].key
    <3>1. i <= NumCells(p)
      BY <1>2, <2>1
    <3>2. p.cells[i].key # k
      BY <1>4, <3>1, Zenon
    <3>3. k <= p.cells[i].key /\ p.cells[i].key \in Int
      BY <1>2, <1>3, <2>1
    <3>4. QED
      BY <3>2, <3>3
  <2>3. i < j => p.cells[i].key < p.cells[j].key
    BY <1>4, <2>1 DEF Ordered
  <2>4. i = j \/ i < j
    BY <1>2, <1>3
  <2>5. QED
    BY <1>2, <2>1, <2>2, <2>3, <2>4
<1>5. QED
  BY <1>3, <1>4 DEF Between

(* On a page with the key, it is one where the key fits once its cell is    *)
(* gone.                                                                    *)
LEMMA DeletedPositionFits ==
  ASSUME NEW p, IsPage(p), Ordered(p), NEW k \in Int, NEW i,
         i = FindIdx(p, k, p.leaf), i <= NumCells(p), p.cells[i].key = k
  PROVE  Between(DeleteCell(p, i), i, k)
<1> DEFINE n == NumCells(p)
           q == DeleteCell(p, i)
<1>1. p.leaf \in BOOLEAN
  BY DEF IsPage
<1>2. n \in Nat /\ \A j \in 1 .. n : p.cells[j].key \in Int
  BY CellsOfPage
<1>3. /\ i \in 1 .. n + 1
      /\ \A j \in 1 .. i - 1 : /\ p.cells[j].key <= k
                               /\ p.leaf => p.cells[j].key < k
      /\ \A j \in i .. n : k <= p.cells[j].key
  BY <1>1, FindIdxSplitsPage
<1>4. i \in 1 .. n
  BY <1>2, <1>3
<1>5. /\ NumCells(q) = n - 1 /\ q.leaf = p.leaf
      /\ \A j \in 1 .. n - 1 : q.cells[j].key = IF j < i THEN p.cells[j].key
                                                ELSE p.cells[j + 1].key
  BY <1>4, DeleteCellElements
<1> HIDE DEF q
<1>6. ASSUME NEW j \in 1 .. i - 1
      PROVE  q.cells[j].key <= k /\ (q.leaf => q.cells[j].key < k)
  <2>1. j \in 1 .. n - 1 /\ j < i
    BY <1>2, <1>4
  <2>2. q.cells[j].key = p.cells[j].key
    BY <1>5, <2>1
  <2>3. QED
    BY <1>3, <1>5, <2>2
<1>7. ASSUME NEW j \in i .. n - 1
      PROVE  k <= q.cells[j].key /\ (q.leaf => k < q.cells[j].key)
  <2>1. j \in 1 .. n - 1 /\ ~(j < i) /\ j + 1 \in i .. n /\ i < j + 1
    BY <1>2, <1>4
  <2>2. q.cells[j].key = p.cells[j + 1].key
    BY <1>5, <2>1
  <2>3. k <= p.cells[j + 1].key
    BY <1>3, <2>1
  <2>4. j + 1 \in 1 .. n
    BY <1>2, <2>1
  <2>5. p.leaf => p.cells[i].key < p.cells[j + 1].key
    BY <1>4, <2>1, <2>4 DEF Ordered
  <2>6. QED
    BY <1>5, <2>2, <2>3, <2>5
<1>8. i \in 1 .. (n - 1) + 1
  BY <1>2, <1>4
<1>9. QED
  BY <1>5, <1>6, <1>7, <1>8 DEF Between, q
-----------------------------------------------------------------------------

(* No write fails, node pages are allocated and the root is one of them.    *)
Shape ==
  /\ ~WritesMayFail
  /\ pageCount \in Nat /\ pageCount >= 3
  /\ DOMAIN file = NodeIds
  /\ DOMAIN cached \subseteq NodeIds
  /\ root \in NodeIds

(* A page, in order.                                                        *)
GoodPage(p) == IsPage(p) /\ Ordered(p)

(* Pages are ordered, on disk and in the cache, and of one kind in both.    *)
PagesGood ==
  /\ \A id \in NodeIds : GoodPage(file[id])
  /\ \A id \in DOMAIN cached : /\ GoodPage(cached[id])
                               /\ cached[id].leaf = file[id].leaf

(* The right half of a split between Allocate and its first write.          *)
Awaited(id) == pc = "writeRight" /\ id = split.right

(* Internal pages point to pages, so that a descent ends up on one.         *)
Linked ==
  pc # "corrupt" =>
    /\ \A id \in NodeIds : Awaited(id) \/ ChildrenIn(file[id], NodeIds)
    /\ \A id \in DOMAIN cached : ChildrenIn(cached[id], NodeIds)

(* What the running Insert was called with.                                 *)
CallGood ==
  pc \in {"insertRec", "writeRight", "insertSplit", "newRoot"} =>
    call.key \in Int /\ call.val \in Values

(* The frames of an insertion, those that wait for a child being internal.  *)
FramesGood ==
  pc \in {"insertRec", "writeRight", "insertSplit"} =>
    /\ path \in Seq(NodeIds) /\ path # << >>
    /\ \A j \in 1 .. Len(path) :
         j < Len(path) \/ pc = "insertSplit" => ~file[path[j]].leaf

(* What a split hands to the frame above.                                   *)
SplitGood ==
  pc \in {"writeRight", "insertSplit", "newRoot"} =>
    /\ split.key \in Int
    /\ split.val \in Values \cup {Nil}
    /\ split.right \in NodeIds

(* What splitNode hands over before its second write.                       *)
HalfGood ==
  pc = "writeRight" =>
    /\ GoodPage(split.page)
    /\ ChildrenIn(split.page, NodeIds)
    /\ \A j \in 1 .. Len(path) : path[j] # split.right

(* The inductive invariant behind PagesSorted.                              *)
IInv ==
  Shape /\ PagesGood /\ Linked /\ CallGood /\ FramesGood /\ SplitGood /\ HalfGood
-----------------------------------------------------------------------------
(* A page as the engine reads it is a good one of the kind it has on disk.  *)
LEMMA ReadGood ==
  ASSUME IInv, NEW id \in NodeIds
  PROVE  /\ GoodPage(PageOf(id))
         /\ PageOf(id).leaf = file[id].leaf
         /\ pc # "corrupt" /\ ~Awaited(id) => ChildrenIn(PageOf(id), NodeIds)
BY DEF IInv, PagesGood, Linked, PageOf

(* The invariant says what FindIdx relies on.                               *)
LEMMA SortedByInv == IInv => PagesSorted
<1>1. SUFFICES ASSUME IInv, NEW id \in NodeIds
               PROVE  Ordered(PageOf(id))
  BY DEF PagesSorted, Ordered, IInv, Shape
<1>2. QED
  BY <1>1, ReadGood DEF GoodPage

(* The two pages the program makes without cells.                           *)
LEMMA EmptyPagesGood ==
  /\ GoodPage(EmptyLeaf) /\ EmptyLeaf.leaf
  /\ GoodPage(BlankPage) /\ ~BlankPage.leaf
<1>1. << >> \in Seq(Cell) /\ InvalidPage \in Int
  BY DEF InvalidPage
<1>2. \A p : p.cells = << >> => Ordered(p)
  BY DEF Ordered, NumCells
<1>3. GoodPage(EmptyLeaf) /\ EmptyLeaf.leaf
  <2>1. IsPage(EmptyLeaf)
    BY <1>1, FieldsMakePage DEF EmptyLeaf, NewPage
  <2>2. EmptyLeaf.cells = << >> /\ EmptyLeaf.leaf
    BY DEF EmptyLeaf, NewPage
  <2>3. QED
    BY <1>2, <2>1, <2>2 DEF GoodPage
<1>4. GoodPage(BlankPage) /\ ~BlankPage.leaf
  <2>1. IsPage(BlankPage)
    BY <1>1 DEF BlankPage, IsPage
  <2>2. BlankPage.cells = << >> /\ ~BlankPage.leaf
    BY DEF BlankPage
  <2>3. QED
    BY <1>2, <2>1, <2>2 DEF GoodPage
<1>5. QED
  BY <1>3, <1>4

(* A new file holds one empty leaf.                                         *)
LEMMA InitInv ==
  ASSUME ~WritesMayFail, Init
  PROVE  IInv
<1>1. NodeIds = {2} /\ DOMAIN cached = {} /\ pc = "idle"
  BY DEF Init, NodeIds
<1>2. DOMAIN file = NodeIds /\ file[2] = EmptyLeaf
  BY <1>1 DEF Init
<1>3. Shape
  BY <1>1, <1>2 DEF Init, Shape
<1>4. PagesGood
  BY <1>1, <1>2, EmptyPagesGood DEF PagesGood
<1>5. Linked
  BY <1>1, <1>2, EmptyPagesGood DEF Linked, ChildrenIn
<1>6. QED
  BY <1>1, <1>3, <1>4, <1>5
     DEF IInv, CallGood, FramesGood, SplitGood, HalfGood
-----------------------------------------------------------------------------
(* A good page written where no call waits for a split keeps the invariant. *)
LEMMA WriteAndReturnKeeps ==
  ASSUME IInv, pc \in {"insertRec", "insertSplit"}, NEW id \in NodeIds,
         NEW p, GoodPage(p), ChildrenIn(p, NodeIds), WriteAndReturn(id, p)
  PROVE  IInv'
<1>1. /\ file' = [file EXCEPT ![id] = p]
      /\ cached' = Without(cached, id)
      /\ pc' \in {"return", "corrupt"}
      /\ pageCount' = pageCount /\ root' = root
  BY DEF WriteAndReturn, WriteNode, IInv, Shape
<1>2. NodeIds' = NodeIds
  BY <1>1 DEF NodeIds
<1>3. /\ DOMAIN file' = NodeIds
      /\ \A x \in NodeIds : file'[x] = IF x = id THEN p ELSE file[x]
  BY <1>1 DEF IInv, Shape
<1>4. /\ DOMAIN cached' = DOMAIN cached \ {id}
      /\ \A x \in DOMAIN cached' : cached'[x] = cached[x]
  BY <1>1 DEF Without
<1>5. Shape'
  BY <1>1, <1>2, <1>3, <1>4 DEF IInv, Shape
<1>6. PagesGood'
  BY <1>2, <1>3, <1>4 DEF IInv, Shape, PagesGood
<1>7. Linked'
  <2>1. \A x \in NodeIds : ChildrenIn(file[x], NodeIds)
    BY DEF IInv, Linked, Awaited
  <2>2. \A x \in NodeIds : ChildrenIn(file'[x], NodeIds)
    BY <1>3, <2>1
  <2>3. \A x \in DOMAIN cached' : ChildrenIn(cached'[x], NodeIds)
    BY <1>4 DEF IInv, Linked
  <2>4. QED
    BY <1>2, <2>2, <2>3 DEF Linked, ChildrenIn, NumCells
<1>8. QED
  BY <1>1, <1>5, <1>6, <1>7
     DEF IInv, CallGood, FramesGood, SplitGood, HalfGood

(* A cell put in where its key fits keeps a good page good.                 *)
LEMMA WithCellGood ==
  ASSUME NEW S, NEW p, GoodPage(p), ChildrenIn(p, S),
         NEW key \in Int, NEW i, Between(p, i, key),
         NEW val \in Values \cup {Nil}, NEW rc \in Nat, p.leaf \/ rc \in S
  PROVE  /\ GoodPage(WithCell(p, i, key, val, rc))
         /\ WithCell(p, i, key, val, rc).leaf = p.leaf
         /\ NumCells(WithCell(p, i, key, val, rc)) >= 1
         /\ ChildrenIn(WithCell(p, i, key, val, rc), S)
<1> DEFINE q == WithCell(p, i, key, val, rc)
<1>1. i \in 1 .. NumCells(p) + 1 /\ NumCells(p) \in Nat
  BY CellsOfPage DEF Between, GoodPage
<1>2. /\ IsPage(q) /\ q.leaf = p.leaf /\ NumCells(q) = NumCells(p) + 1
      /\ rc \in S => ChildrenIn(q, S)
  <2>1. Insertable(p, i, key, val, rc)
    BY <1>1 DEF GoodPage, Insertable
  <2>2. IsPage(q) /\ q.leaf = p.leaf /\ NumCells(q) = NumCells(p) + 1
    BY <2>1, WithCellElements
  <2>3. rc \in S => ChildrenIn(q, S)
    BY <2>1, WithCellElements
  <2>4. QED
    BY <2>2, <2>3
<1>3. Ordered(q)
  BY WithCellOrdered DEF GoodPage
<1> HIDE DEF q
<1>4. ChildrenIn(q, S)
  BY <1>2 DEF ChildrenIn
<1>5. QED
  BY <1>1, <1>2, <1>3, <1>4 DEF q, GoodPage

(* The two halves splitNode makes of the page q of all cells, x and y being *)
(* their next pointers.                                                     *)
LeftHalf(q, x) ==
  NewPage(q.leaf, SubSeq(q.cells, 1, Promoted(q.cells) - 1),
          IF q.leaf THEN 0 ELSE q.cells[Promoted(q.cells)].lc, x)

(* The page splitNode makes of the cells from the promoted one on.          *)
RightHalf(q, y) ==
  NewPage(q.leaf,
          SubSeq(q.cells, RightStart(q.leaf, Promoted(q.cells)), Len(q.cells)),
          IF q.leaf THEN 0 ELSE q.rightmost, y)

(* The two halves of a split are good pages of the split page's kind.       *)
LEMMA HalvesGood ==
  ASSUME NEW S, S \subseteq Nat, NEW q, GoodPage(q), ChildrenIn(q, S),
         NumCells(q) >= 1, NEW x \in Int, NEW y \in Int
  PROVE  /\ GoodPage(LeftHalf(q, x)) /\ LeftHalf(q, x).leaf = q.leaf
         /\ ChildrenIn(LeftHalf(q, x), S)
         /\ GoodPage(RightHalf(q, y)) /\ ChildrenIn(RightHalf(q, y), S)
         /\ Promoted(q.cells) \in 1 .. NumCells(q)
<1> DEFINE mid   == Promoted(q.cells)
           left  == LeftHalf(q, x)
           right == RightHalf(q, y)
<1> DEFINE n == NumCells(q)
           a == RightStart(q.leaf, mid)
           r == IF q.leaf THEN 0 ELSE q.cells[mid].lc
           t == IF q.leaf THEN 0 ELSE q.rightmost
<1>1. n = Len(q.cells) /\ n \in Nat
  BY CellsOfPage DEF GoodPage, NumCells
<1>2. mid \in 1 .. n
  <2>1. \A m \in Nat : m >= 1 => m \div 2 + 1 \in 1 .. m
    OBVIOUS
  <2>2. mid = n \div 2 + 1 /\ n >= 1
    BY <1>1 DEF Promoted
  <2>3. QED
    BY <1>1, <2>1, <2>2
<1>3. a \in Int /\ 1 <= a /\ a <= n + 1
  BY <1>1, <1>2 DEF RightStart
<1>4. r \in Nat /\ (q.leaf \/ r \in S)
  BY <1>2, CellsOfPage DEF GoodPage, ChildrenIn
<1>5. t \in Nat /\ (q.leaf \/ t \in S)
  BY DEF GoodPage, IsPage, ChildrenIn
<1> HIDE DEF r, t, a
<1>6. GoodPage(left) /\ left.leaf = q.leaf /\ ChildrenIn(left, S)
  <2>1. left = NewPage(q.leaf, SubSeq(q.cells, 1, mid - 1), r, x)
    BY DEF r, LeftHalf
  <2>2. 1 \in Int /\ mid - 1 \in Int /\ 1 <= (mid - 1) + 1 /\ mid - 1 <= NumCells(q)
    BY <1>1, <1>2
  <2>3. QED
    BY <1>4, <2>1, <2>2, StretchOfPage DEF GoodPage
<1>7. GoodPage(right) /\ ChildrenIn(right, S)
  <2>1. right = NewPage(q.leaf, SubSeq(q.cells, a, n), t, y)
    BY <1>1 DEF a, t, RightHalf
  <2>2. n \in Int /\ a \in Int /\ 1 <= a /\ a <= n + 1 /\ n <= NumCells(q)
    BY <1>1, <1>3
  <2> HIDE DEF n, right
  <2>3. QED
    BY <1>5, <2>1, <2>2, StretchOfPage DEF GoodPage
<1>8. QED
  BY <1>2, <1>6, <1>7

(* splitNode keeps the invariant.                                           *)
LEMMA SplitNodeKeeps ==
  ASSUME IInv, pc \in {"insertRec", "insertSplit"},
         NEW id \in NodeIds, id = Last(path),
         NEW p, GoodPage(p), p.leaf = file[id].leaf, ChildrenIn(p, NodeIds),
         NEW key \in Int, NEW i, Between(p, i, key),
         NEW val \in Values \cup {Nil}, NEW rc \in Nat,
         p.leaf \/ rc \in NodeIds,
         SplitNode(id, p, i, key, val, rc)
  PROVE  IInv'
<1> DEFINE q     == WithCell(p, i, key, val, rc)
           all   == q.cells
           mid   == Promoted(all)
           next  == LinkLeaves(p.leaf, pageCount, p.next)
           left  == NewPage(p.leaf, SubSeq(all, 1, mid - 1),
                            IF p.leaf THEN 0 ELSE all[mid].lc, next.left)
           right == NewPage(p.leaf,
                            SubSeq(all, RightStart(p.leaf, mid), Len(all)),
                            IF p.leaf THEN 0 ELSE q.rightmost, next.right)
<1>1. /\ pageCount' = pageCount + 1
      /\ file' = [x \in NodeIds \cup {pageCount} |->
                    IF x = id THEN left
                    ELSE IF x = pageCount THEN BlankPage ELSE file[x]]
      /\ cached' = Without(cached, id)
      /\ split' = [key |-> all[mid].key,
                   val |-> IF p.leaf /\ CopyUpLeaves THEN Nil ELSE all[mid].val,
                   right |-> pageCount, page |-> right]
      /\ pc' = IF Fits(left) /\ Fits(right) THEN "writeRight" ELSE "corrupt"
      /\ UNCHANGED <<root, header, path, call, contents>>
  <2>1. /\ WriteNode(Extended, id, left)
        /\ left = NewPage(p.leaf, LeftCells(all, mid),
                          IF p.leaf THEN 0 ELSE all[mid].lc, next.left)
    BY DEF SplitNode, LeftCells
  <2>2. /\ file' = [Extended EXCEPT ![id] = left]
        /\ cached' = Without(cached, id)
    BY <2>1 DEF WriteNode, IInv, Shape
  <2>3. Extended = [x \in NodeIds \cup {pageCount} |->
                      IF x = pageCount THEN BlankPage ELSE file[x]]
    BY DEF Extended, With, IInv, Shape
  <2>4. /\ split' = [key |-> all[mid].key,
                     val |-> IF p.leaf /\ CopyUpLeaves THEN Nil ELSE all[mid].val,
                     right |-> pageCount, page |-> right]
        /\ pc' = IF Fits(left) /\ Fits(right) THEN "writeRight" ELSE "corrupt"
        /\ UNCHANGED <<root, header, path, call, contents>>
        /\ pageCount' = pageCount + 1
    BY <2>1 DEF SplitNode, Allocate, LeftCells
  <2> HIDE DEF left, right, q, all, mid, next
  <2>5. QED
    BY <2>2, <2>3, <2>4
<1>2. pageCount \in Nat /\ pageCount >= 3 /\ id # pageCount
  BY DEF IInv, Shape, NodeIds
<1>3. NumCells(q) >= 1 /\ ChildrenIn(q, NodeIds)
  BY WithCellGood
<1>4. GoodPage(q) /\ q.leaf = p.leaf
  BY WithCellGood
<1>6. next.left \in Int /\ next.right \in Int
  BY <1>2 DEF LinkLeaves, InvalidPage, GoodPage, IsPage
<1> HIDE DEF q, next
<1>7. /\ GoodPage(left) /\ left.leaf = p.leaf /\ ChildrenIn(left, NodeIds)
      /\ GoodPage(right) /\ ChildrenIn(right, NodeIds)
      /\ mid \in 1 .. NumCells(q)
  <2>1. NodeIds \subseteq Nat
    BY <1>2 DEF NodeIds
  <2>2. left = LeftHalf(q, next.left)
    BY <1>4 DEF LeftHalf
  <2>3. right = RightHalf(q, next.right)
    BY <1>4 DEF RightHalf
  <2>4. mid = Promoted(q.cells)
    OBVIOUS
  <2> HIDE DEF left, right, mid
  <2>5. /\ GoodPage(LeftHalf(q, next.left))
        /\ LeftHalf(q, next.left).leaf = q.leaf
        /\ ChildrenIn(LeftHalf(q, next.left), NodeIds)
        /\ GoodPage(RightHalf(q, next.right))
        /\ ChildrenIn(RightHalf(q, next.right), NodeIds)
        /\ Promoted(q.cells) \in 1 .. NumCells(q)
    BY <1>3, <1>4, <1>6, <2>1, HalvesGood
  <2>6. QED
    BY <1>4, <2>2, <2>3, <2>4, <2>5
<1>8. /\ all[mid].key \in Int /\ all[mid].val \in Values \cup {Nil}
  BY <1>4, <1>7, CellsOfPage DEF GoodPage, Cell
<1> HIDE DEF left, right, mid, all
<1>9. NodeIds' = NodeIds \cup {pageCount}
  BY <1>1, <1>2 DEF NodeIds
<1>10. /\ DOMAIN file' = NodeIds \cup {pageCount}
       /\ file'[id] = left /\ file'[pageCount] = BlankPage
       /\ \A x \in NodeIds : x # id => file'[x] = file[x]
  BY <1>1, <1>2 DEF NodeIds
<1>11. /\ DOMAIN cached' = DOMAIN cached \ {id}
       /\ \A x \in DOMAIN cached' : cached'[x] = cached[x]
  BY <1>1 DEF Without
<1>12. ASSUME NEW pg, ChildrenIn(pg, NodeIds)
       PROVE  ChildrenIn(pg, NodeIds \cup {pageCount})
  BY <1>12 DEF ChildrenIn
<1>13. Shape'
  BY <1>1, <1>2, <1>9, <1>10, <1>11 DEF IInv, Shape
<1>14. PagesGood'
  <2>1. \A x \in NodeIds \cup {pageCount} : GoodPage(file'[x])
    BY <1>7, <1>10, EmptyPagesGood DEF IInv, PagesGood
  <2>2. \A x \in DOMAIN cached' : /\ GoodPage(cached'[x])
                                  /\ cached'[x].leaf = file'[x].leaf
    BY <1>10, <1>11 DEF IInv, PagesGood, Shape
  <2>3. QED
    BY <1>9, <2>1, <2>2 DEF PagesGood
<1>15. Linked'
  <2>1. SUFFICES ASSUME pc' # "corrupt"
                 PROVE  Linked'
    BY DEF Linked
  <2>2. pc' = "writeRight" /\ split'.right = pageCount
    BY <1>1, <2>1
  <2>3. \A x \in NodeIds : ChildrenIn(file[x], NodeIds)
    BY DEF IInv, Linked, Awaited
  <2>4. \A x \in NodeIds : ChildrenIn(file'[x], NodeIds \cup {pageCount})
    BY <1>7, <1>10, <1>12, <2>3
  <2>5. \A x \in DOMAIN cached' : ChildrenIn(cached'[x], NodeIds \cup {pageCount})
    BY <1>11, <1>12 DEF IInv, Linked
  <2>6. \A x \in NodeIds' : Awaited(x)' \/ ChildrenIn(file'[x], NodeIds')
    BY <1>9, <2>2, <2>4 DEF Awaited
  <2>7. QED
    BY <1>9, <2>5, <2>6 DEF Linked, ChildrenIn, NumCells
<1>16. CallGood'
  BY <1>1 DEF IInv, CallGood
<1>17. /\ path' = path /\ path \in Seq(NodeIds) /\ path # << >>
       /\ \A j \in 1 .. Len(path) : path[j] \in NodeIds
       /\ \A j \in 1 .. Len(path) : j < Len(path) => ~file[path[j]].leaf
  BY <1>1 DEF IInv, FramesGood
<1>18. FramesGood'
  <2>1. \A x \in NodeIds : file'[x].leaf = file[x].leaf
    BY <1>7, <1>10
  <2>2. path \in Seq(NodeIds \cup {pageCount})
    BY <1>17
  <2>3. pc' # "insertSplit"
    BY <1>1
  <2>4. QED
    BY <1>9, <1>17, <2>1, <2>2, <2>3 DEF FramesGood
<1>19. SplitGood'
  BY <1>1, <1>8, <1>9 DEF SplitGood
<1>20. HalfGood'
  <2>1. \A j \in 1 .. Len(path) : path[j] # pageCount
    BY <1>2, <1>17 DEF NodeIds
  <2>2. ChildrenIn(right, NodeIds \cup {pageCount})
    BY <1>7, <1>12
  <2>3. split'.page = right /\ split'.right = pageCount
    BY <1>1
  <2>4. GoodPage(split'.page)
    BY <1>7, <2>3
  <2>5. ChildrenIn(split'.page, NodeIds')
    BY <1>9, <2>2, <2>3
  <2>6. QED
    BY <1>17, <2>1, <2>3, <2>4, <2>5
       DEF HalfGood, GoodPage, IsPage, Ordered, ChildrenIn, NumCells
<1>21. QED
  BY <1>13, <1>14, <1>15, <1>16, <1>18, <1>19, <1>20 DEF IInv

(* doInsert keeps the invariant, whether the cell finds room or not.        *)
LEMMA DoInsertKeeps ==
  ASSUME IInv, pc \in {"insertRec", "insertSplit"},
         NEW id \in NodeIds, id = Last(path),
         NEW p, GoodPage(p), p.leaf = file[id].leaf, ChildrenIn(p, NodeIds),
         NEW key \in Int, NEW i, Between(p, i, key),
         NEW val \in Values \cup {Nil}, NEW rc \in Nat,
         p.leaf \/ rc \in NodeIds,
         DoInsert(id, p, i, key, val, rc)
  PROVE  IInv'
<1> DEFINE size == CellSize(p.leaf, val)
           q    == WithCell(p, i, key, val, rc)
           w    == [q EXCEPT !.content = @ - size]
<1>1. CASE HasRoom(p, size) /\ WriteAndReturn(id, w)
  <2>1. GoodPage(q) /\ ChildrenIn(q, NodeIds)
    BY WithCellGood
  <2> HIDE DEF q, size
  <2>5. GoodPage(w) /\ ChildrenIn(w, NodeIds)
    BY <2>1, ContentKeepsPage DEF GoodPage
  <2> HIDE DEF w
  <2>6. QED
    BY <1>1, <2>5, WriteAndReturnKeeps
<1>2. CASE ~HasRoom(p, size) /\ SplitNode(id, p, i, key, val, rc)
  BY <1>2, SplitNodeKeeps
<1>3. QED
  BY <1>1, <1>2 DEF DoInsert

(* The page of the frame on top.                                            *)
LEMMA TopGood ==
  ASSUME IInv, pc \in {"insertRec", "insertSplit"}
  PROVE  /\ Last(path) \in NodeIds
         /\ GoodPage(TopPage) /\ TopPage.leaf \in BOOLEAN
         /\ TopPage.leaf = file[Last(path)].leaf
         /\ ChildrenIn(TopPage, NodeIds)
         /\ pc = "insertSplit" => ~TopPage.leaf
<1>1. path \in Seq(NodeIds) /\ path # << >>
  BY DEF IInv, FramesGood
<1>2. Len(path) \in 1 .. Len(path) /\ path[Len(path)] \in NodeIds
  BY <1>1
<1>3. Last(path) = path[Len(path)]
  BY DEF Last
<1>4. pc = "insertSplit" => ~file[Last(path)].leaf
  BY <1>2, <1>3 DEF IInv, FramesGood
<1>5. ~Awaited(Last(path)) /\ pc # "corrupt"
  BY DEF Awaited
<1>6. QED
  BY <1>2, <1>3, <1>4, <1>5, ReadGood DEF TopPage, GoodPage, IsPage
-----------------------------------------------------------------------------
(* One lemma for every action.                                              *)

(* A value overwritten in place leaves the keys as they are.                *)
LEMMA InsertOverwriteKeeps ==
  ASSUME IInv, InsertOverwrite
  PROVE  IInv'
<1> DEFINE id == Last(path)
           w  == OverwriteValue(TopPage, Pos, call.val)
<1>1. /\ pc = "insertRec" /\ Pos <= NumCells(TopPage)
      /\ WriteAndReturn(id, w)
  BY DEF InsertOverwrite, Room, KeyAt
<1>2. /\ id \in NodeIds /\ GoodPage(TopPage) /\ ChildrenIn(TopPage, NodeIds)
      /\ TopPage.leaf \in BOOLEAN
  BY <1>1, TopGood
<1>3. call.key \in Int /\ call.val \in Values
  BY <1>1 DEF IInv, CallGood
<1>4. Pos \in 1 .. NumCells(TopPage)
  <2>1. Pos \in 1 .. NumCells(TopPage) + 1
    BY <1>2, <1>3, FindIdxIsBorder DEF Pos, GoodPage
  <2>2. NumCells(TopPage) \in Nat
    BY <1>2, CellsOfPage DEF GoodPage
  <2>3. QED
    BY <1>1, <2>1, <2>2
<1>5. GoodPage(w) /\ ChildrenIn(w, NodeIds)
  <2> DEFINE t == [TopPage EXCEPT !.cells[Pos].val = call.val]
  <2>1. GoodPage(t) /\ ChildrenIn(t, NodeIds)
    BY <1>2, <1>3, <1>4, ValueKeepsPage DEF GoodPage
  <2> HIDE DEF t
  <2>2. w = TopPage \/ w = t
    BY DEF OverwriteValue, t
  <2>3. QED
    BY <1>2, <2>1, <2>2
<1> HIDE DEF w, id
<1>6. QED
  BY <1>1, <1>2, <1>5, WriteAndReturnKeeps

(* The page InsertInLeaf and InsertDescend go on with, and the position     *)
(* they found before a cell was dropped.                                    *)
LEMMA DroppedGood ==
  ASSUME IInv, pc = "insertRec"
  PROVE  LET d == Dropped(TopPage, Pos)
         IN  /\ GoodPage(d) /\ d.leaf = TopPage.leaf
             /\ ChildrenIn(d, NodeIds)
             /\ Between(d, Pos, call.key)
<1> DEFINE p == TopPage
           d == Dropped(TopPage, Pos)
<1>1. GoodPage(p) /\ ChildrenIn(p, NodeIds) /\ p.leaf \in BOOLEAN
  BY TopGood
<1>2. call.key \in Int
  BY DEF IInv, CallGood
<1>3. Pos = FindIdx(p, call.key, p.leaf)
  BY DEF Pos
<1>4. CASE KeyAt(p, Pos)
  <2>1. d = DeleteCell(p, Pos)
    BY <1>4 DEF Dropped
  <2>2. Pos <= NumCells(p) /\ p.cells[Pos].key = call.key
    BY <1>4 DEF KeyAt
  <2>3. Pos \in 1 .. NumCells(p)
    <3>1. Pos \in 1 .. NumCells(p) + 1 /\ NumCells(p) \in Nat
      BY <1>1, <1>2, <1>3, FindIdxIsBorder, CellsOfPage DEF GoodPage
    <3>2. QED
      BY <2>2, <3>1
  <2> HIDE DEF d, p
  <2>4. GoodPage(d) /\ d.leaf = p.leaf /\ ChildrenIn(d, NodeIds)
    BY <1>1, <2>1, <2>3, DeleteCellElements DEF GoodPage
  <2>5. Between(d, Pos, call.key)
    BY <1>1, <1>2, <1>3, <2>1, <2>2, DeletedPositionFits DEF GoodPage
  <2>6. QED
    BY <2>4, <2>5 DEF d, p
<1>5. CASE ~KeyAt(p, Pos)
  <2>1. d = p
    BY <1>5 DEF Dropped
  <2>2. p.leaf /\ Pos <= NumCells(p) => p.cells[Pos].key # call.key
    BY <1>5 DEF KeyAt
  <2> HIDE DEF d, p
  <2>3. Between(p, Pos, call.key)
    BY <1>1, <1>2, <1>3, <2>2, FoundPositionFits DEF GoodPage
  <2>4. QED
    BY <1>1, <2>1, <2>3 DEF d, p
<1>6. QED
  BY <1>4, <1>5

(* A key goes to where it was searched, also after its cell was dropped.    *)
LEMMA InsertInLeafKeeps ==
  ASSUME IInv, InsertInLeaf
  PROVE  IInv'
<1> DEFINE d == Dropped(TopPage, Pos)
<1>1. /\ pc = "insertRec" /\ TopPage.leaf
      /\ DoInsert(Last(path), d, Pos, call.key, call.val, 0)
  BY DEF InsertInLeaf
<1>2. Last(path) \in NodeIds /\ TopPage.leaf = file[Last(path)].leaf
  BY <1>1, TopGood
<1>3. call.key \in Int /\ call.val \in Values \cup {Nil} /\ 0 \in Nat
  BY <1>1 DEF IInv, CallGood
<1>4. /\ GoodPage(d) /\ d.leaf = TopPage.leaf /\ ChildrenIn(d, NodeIds)
      /\ Between(d, Pos, call.key)
  BY <1>1, DroppedGood
<1> HIDE DEF d
<1>5. d.leaf /\ d.leaf = file[Last(path)].leaf
  BY <1>1, <1>2, <1>4
<1>6. QED
  BY <1>1, <1>2, <1>3, <1>4, <1>5, DoInsertKeeps

(* The promoted key goes to where the page read again has it.               *)
LEMMA InsertSplitKeeps ==
  ASSUME IInv, InsertSplit
  PROVE  IInv'
<1> DEFINE i == FindIdx(TopPage, split.key, FALSE)
<1>1. /\ pc = "insertSplit"
      /\ DoInsert(Last(path), TopPage, i, split.key, split.val, split.right)
  BY DEF InsertSplit
<1>2. /\ Last(path) \in NodeIds /\ GoodPage(TopPage)
      /\ ChildrenIn(TopPage, NodeIds)
      /\ TopPage.leaf = file[Last(path)].leaf
      /\ TopPage.leaf = FALSE
  BY <1>1, TopGood
<1>3. /\ split.key \in Int /\ split.val \in Values \cup {Nil}
      /\ split.right \in NodeIds /\ split.right \in Nat
  BY <1>1 DEF IInv, SplitGood, Shape, NodeIds
<1>4. Between(TopPage, i, split.key)
  BY <1>2, <1>3, FoundPositionFits DEF GoodPage
<1> HIDE DEF i
<1>5. QED
  BY <1>1, <1>2, <1>3, <1>4, DoInsertKeeps

(* A dropped cell leaves an internal page in order; its child is a page.    *)
LEMMA InsertDescendKeeps ==
  ASSUME IInv, InsertDescend
  PROVE  IInv'
<1> DEFINE d     == Dropped(TopPage, Pos)
           id    == Last(path)
           child == ChildAt(d, Pos)
<1>1. /\ pc = "insertRec" /\ ~TopPage.leaf
      /\ path' = Append(path, child)
      /\ UNCHANGED <<file, pageCount, root, pc, split, call>>
  BY DEF InsertDescend
<1>2. id \in NodeIds /\ TopPage.leaf = file[id].leaf
  BY <1>1, TopGood
<1>3. /\ GoodPage(d) /\ d.leaf = TopPage.leaf /\ ChildrenIn(d, NodeIds)
      /\ Between(d, Pos, call.key)
  BY <1>1, DroppedGood
<1> HIDE DEF d
<1>4. child \in NodeIds
  <2>1. Pos \in 1 .. NumCells(d) + 1
    BY <1>3 DEF Between
  <2>2. QED
    BY <1>1, <1>3, <2>1, ChildOfPage DEF GoodPage
<1> HIDE DEF child, id
<1>5. /\ DOMAIN cached' \subseteq DOMAIN cached \cup {id}
      /\ \A x \in DOMAIN cached' : \/ x = id /\ cached'[x] = d
                                   \/ x \in DOMAIN cached /\ cached'[x] = cached[x]
  BY DEF InsertDescend, d, id, With
<1>6. NodeIds' = NodeIds
  BY <1>1 DEF NodeIds
<1>7. Shape'
  BY <1>1, <1>2, <1>5, <1>6 DEF IInv, Shape
<1>8. PagesGood'
  <2>1. \A x \in DOMAIN cached' : /\ GoodPage(cached'[x])
                                  /\ cached'[x].leaf = file[x].leaf
    BY <1>2, <1>3, <1>5 DEF IInv, PagesGood
  <2>2. QED
    BY <1>1, <1>6, <2>1 DEF IInv, PagesGood
<1>9. Linked'
  <2>1. \A x \in DOMAIN cached' : ChildrenIn(cached'[x], NodeIds)
    BY <1>1, <1>3, <1>5 DEF IInv, Linked
  <2>2. \A x \in NodeIds : ChildrenIn(file'[x], NodeIds)
    BY <1>1 DEF IInv, Linked, Awaited
  <2>3. QED
    BY <1>6, <2>1, <2>2 DEF Linked, ChildrenIn, NumCells
<1>10. FramesGood'
  <2>1. /\ path \in Seq(NodeIds) /\ path # << >>
        /\ \A j \in 1 .. Len(path) : j < Len(path) => ~file[path[j]].leaf
    BY <1>1 DEF IInv, FramesGood
  <2>2. /\ path' \in Seq(NodeIds) /\ path' # << >> /\ Len(path') = Len(path) + 1
        /\ \A j \in 1 .. Len(path) : path'[j] = path[j]
    BY <1>1, <1>4, <2>1, AppendProperties
  <2>3. ~file[path[Len(path)]].leaf
    BY <1>1, <1>2 DEF id, Last
  <2>4. ASSUME NEW j \in 1 .. Len(path'), j < Len(path')
        PROVE  ~file'[path'[j]].leaf
    <3>1. j \in 1 .. Len(path) /\ (j < Len(path) \/ j = Len(path))
      BY <2>1, <2>2, <2>4
    <3>2. QED
      BY <1>1, <2>1, <2>2, <2>3, <3>1
  <2>5. QED
    BY <1>1, <1>6, <2>2, <2>4 DEF FramesGood
<1>11. QED
  BY <1>1, <1>7, <1>8, <1>9, <1>10
     DEF IInv, CallGood, SplitGood, HalfGood

(* The right half comes to its page, which nobody has read before.          *)
LEMMA WriteRightKeeps ==
  ASSUME IInv, WriteRight
  PROVE  IInv'
<1> DEFINE id == split.right
<1>1. /\ pc = "writeRight"
      /\ file' = [file EXCEPT ![id] = split.page]
      /\ cached' = Without(cached, id)
      /\ path' = Front(path)
      /\ pc' = IF Len(path) = 1 THEN "newRoot" ELSE "insertSplit"
      /\ UNCHANGED <<pageCount, root, split, call>>
  BY DEF WriteRight, WriteNode, IInv, Shape
<1>2. /\ id \in NodeIds /\ GoodPage(split.page)
      /\ ChildrenIn(split.page, NodeIds)
      /\ \A j \in 1 .. Len(path) : path[j] # id
  BY <1>1 DEF IInv, SplitGood, HalfGood
<1>3. NodeIds' = NodeIds
  BY <1>1 DEF NodeIds
<1>4. /\ DOMAIN file' = NodeIds
      /\ \A x \in NodeIds : file'[x] = IF x = id THEN split.page ELSE file[x]
  BY <1>1 DEF IInv, Shape
<1>5. /\ DOMAIN cached' = DOMAIN cached \ {id}
      /\ \A x \in DOMAIN cached' : cached'[x] = cached[x]
  BY <1>1 DEF Without
<1>6. Shape'
  BY <1>1, <1>3, <1>4, <1>5 DEF IInv, Shape
<1>7. PagesGood'
  BY <1>2, <1>3, <1>4, <1>5 DEF IInv, Shape, PagesGood
<1>8. Linked'
  <2>1. \A x \in NodeIds : x # id => ChildrenIn(file[x], NodeIds)
    BY <1>1 DEF IInv, Linked, Awaited
  <2>2. \A x \in NodeIds : ChildrenIn(file'[x], NodeIds)
    BY <1>2, <1>4, <2>1
  <2>3. \A x \in DOMAIN cached' : ChildrenIn(cached'[x], NodeIds)
    BY <1>1, <1>5 DEF IInv, Linked
  <2>4. QED
    BY <1>3, <2>2, <2>3 DEF Linked, ChildrenIn, NumCells
<1>9. FramesGood'
  <2>1. SUFFICES ASSUME pc' = "insertSplit"
                 PROVE  FramesGood'
    BY <1>1 DEF FramesGood
  <2>2. /\ path \in Seq(NodeIds) /\ path # << >>
        /\ \A j \in 1 .. Len(path) : j < Len(path) => ~file[path[j]].leaf
    BY <1>1 DEF IInv, FramesGood
  <2>3. Len(path) \in Nat /\ Len(path) >= 2
    <3>1. Len(path) # 1
      BY <1>1, <2>1
    <3>2. Len(path) \in Nat /\ Len(path) # 0
      BY <2>2
    <3>3. QED
      BY <3>1, <3>2
  <2>4. /\ path' \in Seq(NodeIds) /\ Len(path') = Len(path) - 1
        /\ \A j \in 1 .. Len(path) - 1 : path'[j] = path[j]
    <3>1. path' = SubSeq(path, 1, Len(path) - 1)
      BY <1>1 DEF Front
    <3>2. \A j \in 1 .. Len(path) - 1 : path[j] \in NodeIds
      BY <2>2
    <3>3. QED
      BY <2>2, <2>3, <3>1, <3>2, SubSeqProperties
  <2>5. ASSUME NEW j \in 1 .. Len(path')
        PROVE  ~file'[path'[j]].leaf
    <3>1. j \in 1 .. Len(path) /\ j < Len(path) /\ path'[j] = path[j]
      BY <2>3, <2>4
    <3>2. path[j] \in NodeIds /\ path[j] # id
      BY <1>2, <2>2, <3>1
    <3>3. QED
      BY <1>4, <2>2, <3>1, <3>2
  <2>6. path' # << >>
    BY <2>3, <2>4
  <2>7. QED
    BY <1>3, <2>4, <2>5, <2>6 DEF FramesGood
<1>10. CallGood' /\ SplitGood' /\ HalfGood'
  BY <1>1, <1>3 DEF IInv, CallGood, SplitGood, HalfGood
<1>11. QED
  BY <1>6, <1>7, <1>8, <1>9, <1>10 DEF IInv

(* The new root is an internal page with one cell and two children.         *)
LEMMA NewRootKeeps ==
  ASSUME IInv, NewRoot
  PROVE  IInv'
<1> DEFINE p == NewPage(FALSE, <<RootCell>>, split.right, InvalidPage)
<1>1. /\ pc = "newRoot"
      /\ file' = [x \in NodeIds \cup {pageCount} |->
                    IF x = pageCount THEN p ELSE file[x]]
      /\ pc' \in {"writeHeader", "corrupt"}
      /\ pageCount' = pageCount + 1
      /\ root' = pageCount
      /\ DOMAIN cached' = DOMAIN cached
      /\ \A x \in DOMAIN cached : cached'[x] = cached[x]
  <2>1. /\ pc = "newRoot"
        /\ WriteNode(Extended, pageCount, p)
        /\ pc' \in {"writeHeader", "corrupt"}
        /\ pageCount' = pageCount + 1
        /\ root' = pageCount
    BY DEF NewRoot, Allocate
  <2> HIDE DEF p
  <2>2. /\ file' = [Extended EXCEPT ![pageCount] = p]
        /\ cached' = Without(cached, pageCount)
    BY <2>1 DEF WriteNode, IInv, Shape
  <2>3. Extended = [x \in NodeIds \cup {pageCount} |->
                      IF x = pageCount THEN BlankPage ELSE file[x]]
    BY DEF Extended, With, IInv, Shape
  <2>4. /\ DOMAIN cached' = DOMAIN cached
        /\ \A x \in DOMAIN cached : cached'[x] = cached[x]
    <3>1. pageCount \notin DOMAIN cached
      BY DEF IInv, Shape, NodeIds
    <3>2. QED
      BY <2>2, <3>1 DEF Without
  <2>5. QED
    BY <2>1, <2>2, <2>3, <2>4
<1>2. /\ pageCount \in Nat /\ pageCount >= 3 /\ NodeIds \subseteq Nat
      /\ root \in NodeIds /\ split.right \in NodeIds /\ split.key \in Int
      /\ split.val \in Values \cup {Nil}
  BY <1>1 DEF IInv, Shape, SplitGood, NodeIds
<1>3. RootCell \in Cell /\ RootCell.lc = root
  BY <1>2 DEF RootCell, Cell
<1>4. /\ p.leaf = FALSE /\ p.cells = <<RootCell>> /\ p.rightmost = split.right
      /\ IsPage(p)
  <2> DEFINE c == RootCell
  <2> HIDE DEF c
  <2>1. c \in Cell
    BY <1>3 DEF c
  <2>2. <<c>> \in Seq(Cell)
    BY <2>1
  <2>3. split.right \in Nat /\ InvalidPage \in Int
    <3>1. split.right \in Nat
      BY <1>2
    <3>2. InvalidPage \in Int
      BY DEF InvalidPage
    <3>3. QED
      BY <3>1, <3>2
  <2>4. QED
    BY <2>2, <2>3, FieldsMakePage DEF NewPage, c
<1> HIDE DEF p
<1>5. NumCells(p) = 1 /\ p.cells[1] = RootCell
  BY <1>4 DEF NumCells
<1>6. GoodPage(p)
  BY <1>4, <1>5 DEF GoodPage, Ordered
<1>7. ChildrenIn(p, NodeIds \cup {pageCount})
  BY <1>2, <1>3, <1>4, <1>5 DEF ChildrenIn
<1>8. NodeIds' = NodeIds \cup {pageCount} /\ pageCount \notin NodeIds
  BY <1>1, <1>2 DEF NodeIds
<1>9. /\ DOMAIN file' = NodeIds \cup {pageCount}
      /\ file'[pageCount] = p
      /\ \A x \in NodeIds : file'[x] = file[x]
  BY <1>1, <1>8
<1>10. ASSUME NEW pg, ChildrenIn(pg, NodeIds)
       PROVE  ChildrenIn(pg, NodeIds \cup {pageCount})
  BY <1>10 DEF ChildrenIn
<1>11. Shape'
  BY <1>1, <1>2, <1>8, <1>9 DEF IInv, Shape
<1>12. PagesGood'
  BY <1>1, <1>6, <1>8, <1>9 DEF IInv, Shape, PagesGood
<1>13. Linked'
  <2>1. \A x \in NodeIds : ChildrenIn(file[x], NodeIds)
    BY <1>1 DEF IInv, Linked, Awaited
  <2>2. \A x \in NodeIds' : ChildrenIn(file'[x], NodeIds')
    BY <1>7, <1>8, <1>9, <1>10, <2>1
  <2>3. \A x \in DOMAIN cached' : ChildrenIn(cached'[x], NodeIds')
    BY <1>1, <1>8, <1>10 DEF IInv, Linked
  <2>4. QED
    BY <2>2, <2>3 DEF Linked, ChildrenIn, NumCells
<1>14. QED
  BY <1>1, <1>11, <1>12, <1>13 DEF IInv, CallGood, FramesGood, SplitGood, HalfGood

(* A call begins at the root.                                               *)
LEMMA InsertKeeps ==
  ASSUME IInv, NEW k \in Keys, NEW v \in Values, Insert(k, v)
  PROVE  IInv'
<1>1. /\ pc = "idle" /\ pc' = "insertRec"
      /\ call' = [op |-> "insert", key |-> k, val |-> v]
      /\ path' = <<root>>
      /\ UNCHANGED <<file, cached, pageCount, root, split>>
  BY DEF Insert
<1>2. NodeIds' = NodeIds /\ root \in NodeIds
  BY <1>1 DEF NodeIds, IInv, Shape
<1>3. Shape' /\ PagesGood'
  BY <1>1, <1>2 DEF IInv, Shape, PagesGood
<1>4. Linked'
  <2>1. \A x \in NodeIds : ChildrenIn(file'[x], NodeIds)
    BY <1>1 DEF IInv, Linked, Awaited
  <2>2. \A x \in DOMAIN cached' : ChildrenIn(cached'[x], NodeIds)
    BY <1>1 DEF IInv, Linked
  <2>3. QED
    BY <1>2, <2>1, <2>2 DEF Linked, ChildrenIn, NumCells
<1>5. CallGood'
  BY <1>1, KeysAssumption DEF CallGood
<1>6. FramesGood'
  BY <1>1, <1>2 DEF FramesGood
<1>7. QED
  BY <1>1, <1>3, <1>4, <1>5, <1>6 DEF IInv, SplitGood, HalfGood

(* The cache gives a page up: the copy on disk is a good page of its kind.  *)
LEMMA EvictKeeps ==
  ASSUME IInv, NEW id \in DOMAIN cached, Evict(id)
  PROVE  IInv'
<1>1. /\ cached' = Without(cached, id)
      /\ UNCHANGED <<file, pageCount, root, pc, path, split, call>>
  BY DEF Evict
<1>2. NodeIds' = NodeIds
  BY <1>1 DEF NodeIds
<1>3. /\ DOMAIN cached' = DOMAIN cached \ {id}
      /\ \A x \in DOMAIN cached' : cached'[x] = cached[x]
  BY <1>1 DEF Without
<1>4. Shape' /\ PagesGood'
  BY <1>1, <1>2, <1>3 DEF IInv, Shape, PagesGood
<1>5. Linked'
  <2>1. SUFFICES ASSUME pc # "corrupt" PROVE Linked'
    BY <1>1 DEF Linked
  <2>2. \A x \in NodeIds : Awaited(x)' \/ ChildrenIn(file'[x], NodeIds)
    BY <1>1, <2>1 DEF IInv, Linked, Awaited
  <2>3. \A x \in DOMAIN cached' : ChildrenIn(cached'[x], NodeIds)
    BY <1>3, <2>1 DEF IInv, Linked
  <2>4. QED
    BY <1>2, <2>2, <2>3 DEF Linked, ChildrenIn, NumCells
<1>6. CallGood' /\ FramesGood' /\ SplitGood'
  BY <1>1, <1>2 DEF IInv, CallGood, FramesGood, SplitGood
<1>7. HalfGood'
  BY <1>1, <1>2 DEF IInv, HalfGood, GoodPage, IsPage, Ordered, ChildrenIn, NumCells
<1>8. QED
  BY <1>4, <1>5, <1>6, <1>7 DEF IInv

(* A step outside of an insertion that changes no page.                     *)
LEMMA ReadOnlyKeeps ==
  ASSUME IInv, UNCHANGED <<file, cached, pageCount, root>>,
         pc \notin {"writeRight", "corrupt"},
         pc' \notin {"insertRec", "writeRight", "insertSplit", "newRoot"}
  PROVE  IInv'
<1>1. NodeIds' = NodeIds
  BY DEF NodeIds
<1>2. Shape' /\ PagesGood'
  BY <1>1 DEF IInv, Shape, PagesGood
<1>3. Linked'
  <2>1. \A x \in NodeIds : ChildrenIn(file'[x], NodeIds)
    BY DEF IInv, Linked, Awaited
  <2>2. \A x \in DOMAIN cached' : ChildrenIn(cached'[x], NodeIds)
    BY DEF IInv, Linked
  <2>3. QED
    BY <1>1, <2>1, <2>2 DEF Linked, ChildrenIn, NumCells
<1>4. QED
  BY <1>2, <1>3 DEF IInv, CallGood, FramesGood, SplitGood, HalfGood

(* Every step of the engine keeps the invariant.                            *)
LEMMA EngineKeeps ==
  ASSUME IInv, Engine
  PROVE  IInv'
<1>1. CASE \E k \in Keys, v \in Values : Insert(k, v)
  BY <1>1, InsertKeeps
<1>2. CASE InsertOverwrite
  BY <1>2, InsertOverwriteKeeps
<1>3. CASE InsertInLeaf
  BY <1>3, InsertInLeafKeeps
<1>4. CASE InsertDescend
  BY <1>4, InsertDescendKeeps
<1>5. CASE WriteRight
  BY <1>5, WriteRightKeeps
<1>6. CASE InsertSplit
  BY <1>6, InsertSplitKeeps
<1>7. CASE NewRoot
  BY <1>7, NewRootKeeps
<1>8. CASE WriteHeader
  BY <1>8, ReadOnlyKeeps DEF WriteHeader
<1>9. CASE ReturnInsert
  BY <1>9, ReadOnlyKeeps DEF ReturnInsert
<1>10. CASE \E k \in DeleteKeys : Delete(k)
  BY <1>10, ReadOnlyKeeps DEF Delete
<1>11. CASE \E id \in DOMAIN cached : Evict(id)
  BY <1>11, EvictKeeps
<1>12. QED
  BY <1>1, <1>2, <1>3, <1>4, <1>5, <1>6, <1>7, <1>8, <1>9, <1>10, <1>11
     DEF Engine, InsertStep

(* A stuttering step changes nothing.                                       *)
LEMMA StutterKeeps ==
  ASSUME IInv, UNCHANGED vars
  PROVE  IInv'
<1>1. /\ UNCHANGED <<file, cached, pageCount, root, pc, path, split, call>>
      /\ NodeIds' = NodeIds
  BY DEF vars, NodeIds
<1>2. Shape' /\ PagesGood' /\ CallGood' /\ FramesGood' /\ SplitGood'
  BY <1>1 DEF IInv, Shape, PagesGood, CallGood, FramesGood, SplitGood
<1>3. Linked'
  BY <1>1 DEF IInv, Linked, Awaited, ChildrenIn, NumCells
<1>4. HalfGood'
  BY <1>1 DEF IInv, HalfGood, GoodPage, IsPage, Ordered, ChildrenIn, NumCells
<1>5. QED
  BY <1>2, <1>3, <1>4 DEF IInv
-----------------------------------------------------------------------------
(* Which keys a page is for.  The separator s of an internal page has its   *)
(* own key on its right in a B+ tree, where the leaves keep it; in a B-tree *)
(* on neither side.                                                         *)
After(s, k) == s < k \/ (CopyUpLeaves /\ s = k)

(* Where the search for k leads from an internal page.                      *)
Way(p, k) == FindIdx(p, k, FALSE)

(* The cell of p at j has the key k.                                        *)
KeyOn(p, j, k) == j <= NumCells(p) /\ p.cells[j].key = k

(* The keys of o that the internal page p sends to its child at j.          *)
Share(p, o, j) ==
  {k \in o : /\ j > 1 => After(p.cells[j - 1].key, k)
             /\ j <= NumCells(p) => k < p.cells[j].key}

(* No key is on the page twice.                                             *)
Increasing(p) ==
  \A i, j \in 1 .. NumCells(p) : i < j => p.cells[i].key < p.cells[j].key

(* Below every key of o there is another one.                               *)
NoLeast(o) == \A k \in o : \E l \in o : l < k

(* What is asked of the page p with id x, when page y is for the keys       *)
(* own[y], is lev[y] levels above the leaves and hangs in a place for the   *)
(* keys whole[y], and the tree is to hold want.                             *)

(* The leaves are the pages of level 0.                                     *)
KindOK(p, x, lev) == p.leaf <=> lev[x] = 0

(* The child at i is one level below, for the keys that lead there.         *)
ChildOK(p, i, x, ids, own, lev, whole) ==
  /\ ChildAt(p, i) \in ids
  /\ lev[x] = lev[ChildAt(p, i)] + 1
  /\ whole[ChildAt(p, i)] = Share(p, own[x], i)

(* The same of every child.                                                 *)
ChildrenOK(p, x, ids, own, lev, whole) ==
  ~p.leaf => \A i \in 1 .. NumCells(p) + 1 : ChildOK(p, i, x, ids, own, lev, whole)

(* The keys of a page are among those it is for.                            *)
KeysOK(p, o) == \A i \in 1 .. NumCells(p) : p.cells[i].key \in o \cap Keys

(* Where pairs are stored, they are those that are to be stored.            *)
ValuesOK(p, want) ==
  p.leaf \/ ~CopyUpLeaves =>
    \A i \in 1 .. NumCells(p) : /\ p.cells[i].val = want[p.cells[i].key]
                                /\ p.cells[i].val # Nil

(* A leaf has every stored key that it is for.                              *)
LeafOK(p, o, want) ==
  p.leaf => \A k \in o \cap Keys : want[k] # Nil =>
              \E i \in 1 .. NumCells(p) : p.cells[i].key = k

(* In a B-tree no page below has a key of the page among its keys.          *)
Topmost(k, n, ids, own, lev) == \A y \in ids : lev[y] < n => k \notin own[y]

OnceOK(p, x, ids, own, lev) ==
  ~CopyUpLeaves =>
    \A i \in 1 .. NumCells(p) : Topmost(p.cells[i].key, lev[x], ids, own, lev)

(* In a B+ tree a page is for some key, an empty leaf for ever smaller ones.*)
RoomOK(p, o) ==
  CopyUpLeaves => /\ o # {}
                  /\ p.leaf /\ NumCells(p) = 0 => NoLeast(o)

(* In a B+ tree the page next to a leaf is the one for the keys behind its  *)
(* own; for none if it has none.                                            *)
NextOK(p, x, ids, own, lev) ==
  CopyUpLeaves /\ p.leaf =>
    /\ Convex(own[x])
    /\ \/ p.next = InvalidPage /\ \A k \in Int : ~Past(own[x], k)
       \/ /\ p.next \in ids /\ lev[p.next] = 0
          /\ Adjoin(own[x], own[p.next])

(* All of these.                                                            *)
PageOK(p, x, ids, own, lev, whole, want) ==
  /\ IsPage(p) /\ Increasing(p)
  /\ KindOK(p, x, lev)
  /\ ChildrenOK(p, x, ids, own, lev, whole)
  /\ KeysOK(p, own[x])
  /\ ValuesOK(p, want)
  /\ LeafOK(p, own[x], want)
  /\ OnceOK(p, x, ids, own, lev)
  /\ RoomOK(p, own[x])
  /\ NextOK(p, x, ids, own, lev)

(* Pages of one level share no key; page r is the root and for all keys.    *)
Spread(ids, r, own, lev, whole) ==
  /\ own \in [ids -> SUBSET Int]
  /\ lev \in [ids -> Nat]
  /\ whole \in [ids -> SUBSET Int]
  /\ r \in ids /\ whole[r] = Int
  /\ \A x \in ids : lev[x] <= lev[r]
  /\ \A x, y \in ids : x # y /\ lev[x] = lev[y] => own[x] \cap own[y] = {}

(* Every page of H is where and what the table says.                        *)
Valid(H, ids, r, own, lev, whole, want) ==
  /\ Spread(ids, r, own, lev, whole)
  /\ \A x \in ids : PageOK(H[x], x, ids, own, lev, whole, want)
-----------------------------------------------------------------------------
(* The share of a child is what the search sends there.                     *)
LEMMA ShareIsFound ==
  ASSUME NEW p, IsPage(p), Increasing(p), NEW o, o \subseteq Int, NEW k \in o,
         NEW j \in 1 .. NumCells(p) + 1
  PROVE  k \in Share(p, o, j) <=> j = Way(p, k) /\ ~KeyOn(p, j, k)
<1> DEFINE n == NumCells(p)
           f == Way(p, k)
<1>1. n \in Nat /\ k \in Int /\ \A i \in 1 .. n : p.cells[i].key \in Int
  BY CellsOfPage
<1>2. /\ f \in 1 .. n + 1
      /\ f > 1 => GoesRight(p, f - 1, k, FALSE)
      /\ f <= n => ~GoesRight(p, f, k, FALSE)
  BY <1>1, FindIdxIsBorder DEF Way
<1> HIDE DEF f
<1>3. /\ f > 1 => After(p.cells[f - 1].key, k)
      /\ f <= n => ~After(p.cells[f].key, k)
  BY <1>2 DEF GoesRight, After
<1>4. ASSUME j = f, ~KeyOn(p, j, k)
      PROVE  k \in Share(p, o, j)
  <2>1. j > 1 => After(p.cells[j - 1].key, k)
    BY <1>1, <1>2, <1>3, <1>4
  <2>2. ASSUME j <= n PROVE k < p.cells[j].key
    <3>1. j \in 1 .. n /\ p.cells[j].key # k /\ ~After(p.cells[j].key, k)
      BY <1>1, <1>2, <1>3, <1>4, <2>2 DEF KeyOn
    <3>2. QED
      BY <1>1, <3>1 DEF After
  <2>3. QED
    BY <2>1, <2>2 DEF Share
<1>5. ASSUME k \in Share(p, o, j)
      PROVE  j = f /\ ~KeyOn(p, j, k)
  <2>1. /\ j > 1 => After(p.cells[j - 1].key, k)
        /\ j <= n => k < p.cells[j].key
    BY <1>5 DEF Share
  <2>2. ~KeyOn(p, j, k)
    BY <1>1, <2>1 DEF KeyOn
  <2>3. ~(j < f)
    <3>1. SUFFICES ASSUME j < f PROVE FALSE
      OBVIOUS
    <3>2. j \in 1 .. n /\ f - 1 \in 1 .. n /\ j <= f - 1 /\ f > 1
      BY <1>1, <1>2, <3>1
    <3>3. After(p.cells[f - 1].key, k)
      BY <1>2, <1>3, <3>2
    <3>4. p.cells[f - 1].key <= k /\ k < p.cells[j].key
      BY <1>1, <2>1, <3>2, <3>3 DEF After
    <3>5. j < f - 1 => p.cells[j].key < p.cells[f - 1].key
      BY <3>2 DEF Increasing
    <3>6. j = f - 1 \/ j < f - 1
      BY <1>1, <3>2
    <3>7. QED
      BY <1>1, <3>2, <3>4, <3>5, <3>6
  <2>4. ~(f < j)
    <3>1. SUFFICES ASSUME f < j PROVE FALSE
      OBVIOUS
    <3>2. f \in 1 .. n /\ j - 1 \in 1 .. n /\ f <= j - 1 /\ j > 1
      BY <1>1, <1>2, <3>1
    <3>3. After(p.cells[j - 1].key, k) /\ ~After(p.cells[f].key, k)
      BY <1>2, <1>3, <2>1, <3>2
    <3>4. f # j - 1
      BY <3>3
    <3>5. f < j - 1
      BY <1>1, <3>2, <3>4
    <3>6. p.cells[f].key < p.cells[j - 1].key
      BY <3>2, <3>5 DEF Increasing
    <3>7. QED
      BY <1>1, <3>2, <3>3, <3>6 DEF After
  <2>5. QED
    BY <1>1, <1>2, <2>2, <2>3, <2>4
<1>6. QED
  BY <1>4, <1>5 DEF f

(* A page between whose children at i and i + 1 the separator s now stands. *)
Joined(p, o, i, s, val, rc) ==
  /\ Insertable(p, i, s, val, rc)
  /\ Increasing(p) /\ ~p.leaf
  /\ o \subseteq Int /\ s \in Share(p, o, i)

(* The children around the cell that was put in.                            *)
LEMMA JoinedChildren ==
  ASSUME NEW p, NEW o, NEW i, NEW s, NEW val, NEW rc,
         Joined(p, o, i, s, val, rc), NEW q, q = WithCell(p, i, s, val, rc)
  PROVE  /\ NumCells(q) = NumCells(p) + 1
         /\ \A j \in 1 .. i : ChildAt(q, j) = ChildAt(p, j)
         /\ ChildAt(q, i + 1) = rc
         /\ \A j \in i + 2 .. NumCells(p) + 2 : ChildAt(q, j) = ChildAt(p, j - 1)
<1> DEFINE n == NumCells(p)
<1>1. Insertable(p, i, s, val, rc) /\ ~p.leaf
  BY DEF Joined
<1>2. n \in Nat /\ i \in 1 .. n + 1
  BY <1>1, CellsOfPage DEF Insertable
<1>3. /\ NumCells(q) = n + 1
      /\ \A j \in 1 .. n + 1 :
           q.cells[j].lc = IF j < i THEN p.cells[j].lc
                           ELSE IF j = i THEN ChildAt(p, i)
                           ELSE IF j = i + 1 THEN rc ELSE p.cells[j - 1].lc
      /\ q.rightmost = IF i = n + 1 THEN rc ELSE p.rightmost
  BY <1>1, WithCellElements
<1> HIDE DEF n
<1>4. ASSUME NEW j \in 1 .. i
      PROVE  ChildAt(q, j) = ChildAt(p, j)
  <2>1. ChildAt(q, j) = q.cells[j].lc /\ j \in 1 .. n + 1
    BY <1>2, <1>3 DEF ChildAt
  <2>2. CASE j < i
    BY <1>2, <1>3, <2>1, <2>2 DEF ChildAt, n
  <2>3. CASE j = i
    BY <1>2, <1>3, <2>1, <2>3
  <2>4. QED
    BY <1>2, <2>2, <2>3
<1>5. ChildAt(q, i + 1) = rc
  <2>1. CASE i = n + 1
    BY <1>2, <1>3, <2>1 DEF ChildAt
  <2>2. CASE i # n + 1
    <3>1. i + 1 \in 1 .. n + 1 /\ i + 1 # (n + 1) + 1 /\ ~(i + 1 < i) /\ i + 1 # i
      BY <1>2, <2>2
    <3>2. QED
      BY <1>3, <3>1 DEF ChildAt
  <2>3. QED
    BY <2>1, <2>2
<1>6. ASSUME NEW j \in i + 2 .. n + 2
      PROVE  ChildAt(q, j) = ChildAt(p, j - 1)
  <2>1. CASE j = n + 2
    <3>1. i # n + 1 /\ j = (n + 1) + 1 /\ j - 1 = n + 1
      BY <1>2, <2>1
    <3>2. QED
      BY <1>3, <3>1 DEF ChildAt, n
  <2>2. CASE j # n + 2
    <3>1. /\ j \in 1 .. n + 1 /\ ~(j < i) /\ j # i /\ j # i + 1
          /\ j # (n + 1) + 1 /\ j - 1 # n + 1
      BY <1>2, <2>2
    <3>2. QED
      BY <1>3, <3>1 DEF ChildAt, n
  <2>3. QED
    BY <2>1, <2>2
<1>7. QED
  BY <1>3, <1>4, <1>5, <1>6 DEF n

(* The keys of the child at i are dealt out to i and i + 1.                 *)
LEMMA JoinedShares ==
  ASSUME NEW p, NEW o, NEW i, NEW s, NEW val, NEW rc,
         Joined(p, o, i, s, val, rc), NEW q, q = WithCell(p, i, s, val, rc)
  PROVE  /\ \A j \in 1 .. i - 1 : Share(q, o, j) = Share(p, o, j)
         /\ Share(q, o, i) = {k \in Share(p, o, i) : k < s}
         /\ Share(q, o, i + 1) = {k \in Share(p, o, i) : After(s, k)}
         /\ \A j \in i + 2 .. NumCells(p) + 2 : Share(q, o, j) = Share(p, o, j - 1)
<1> DEFINE n == NumCells(p)
<1>1. /\ IsPage(p) /\ i \in 1 .. n + 1 /\ s \in Int
      /\ o \subseteq Int /\ Insertable(p, i, s, val, rc)
  BY DEF Joined, Insertable
<1>2. n \in Nat /\ \A j \in 1 .. n : p.cells[j].key \in Int
  BY <1>1, CellsOfPage
<1>3. /\ NumCells(q) = n + 1
      /\ \A j \in 1 .. n + 1 :
           q.cells[j].key = IF j < i THEN p.cells[j].key
                            ELSE IF j = i THEN s ELSE p.cells[j - 1].key
  BY <1>1, WithCellElements
<1> HIDE DEF n
<1>4. /\ i > 1 => After(p.cells[i - 1].key, s)
      /\ i <= n => s < p.cells[i].key
  BY DEF Joined, Share, n
<1>5. \A j \in 1 .. n + 1 : j < i => q.cells[j].key = p.cells[j].key
  BY <1>3
<1>6. q.cells[i].key = s
  BY <1>1, <1>2, <1>3
<1>7. \A j \in 1 .. n + 1 : j > i => q.cells[j].key = p.cells[j - 1].key
  BY <1>1, <1>2, <1>3
<1>8. ASSUME NEW j \in 1 .. i - 1
      PROVE  Share(q, o, j) = Share(p, o, j)
  <2>1. j \in 1 .. n /\ j \in 1 .. n + 1 /\ j < i
    BY <1>1, <1>2
  <2>2. j > 1 => q.cells[j - 1].key = p.cells[j - 1].key
    <3>1. j > 1 => j - 1 \in 1 .. n + 1 /\ j - 1 < i
      BY <1>1, <1>2, <2>1
    <3>2. QED
      BY <1>5, <3>1
  <2>3. q.cells[j].key = p.cells[j].key /\ j <= n /\ j <= n + 1
    BY <1>2, <1>5, <2>1
  <2>4. QED
    BY <1>3, <2>2, <2>3 DEF Share, n
<1>9. Share(q, o, i) = {k \in Share(p, o, i) : k < s}
  <2>1. i > 1 => q.cells[i - 1].key = p.cells[i - 1].key
    <3>1. i > 1 => i - 1 \in 1 .. n + 1 /\ i - 1 < i
      BY <1>1, <1>2
    <3>2. QED
      BY <1>5, <3>1
  <2>2. ASSUME NEW k \in o, k < s
        PROVE  i <= n => k < p.cells[i].key
    <3>1. i <= n => i \in 1 .. n
      BY <1>1, <1>2
    <3>2. QED
      BY <1>1, <1>2, <1>4, <2>2, <3>1
  <2>3. i <= n + 1
    BY <1>1, <1>2
  <2>4. QED
    BY <1>3, <1>6, <2>1, <2>2, <2>3 DEF Share, n
<1>10. Share(q, o, i + 1) = {k \in Share(p, o, i) : After(s, k)}
  <2>1. i + 1 > 1 /\ (i + 1) - 1 = i
    BY <1>1, <1>2
  <2>2. i + 1 <= n + 1 => q.cells[i + 1].key = p.cells[i].key
    <3>1. i + 1 <= n + 1 => i + 1 \in 1 .. n + 1 /\ i + 1 > i /\ (i + 1) - 1 = i
      BY <1>1, <1>2
    <3>2. QED
      BY <1>7, <3>1
  <2>3. ASSUME NEW k \in o, After(s, k)
        PROVE  i > 1 => After(p.cells[i - 1].key, k)
    <3>1. i > 1 => i - 1 \in 1 .. n
      BY <1>1, <1>2
    <3>2. QED
      BY <1>1, <1>2, <1>4, <2>3, <3>1 DEF After
  <2>4. i + 1 <= n + 1 <=> i <= n
    BY <1>1, <1>2
  <2>5. QED
    BY <1>3, <1>6, <2>1, <2>2, <2>3, <2>4 DEF Share, n
<1>11. ASSUME NEW j \in i + 2 .. n + 2
       PROVE  Share(q, o, j) = Share(p, o, j - 1)
  <2>1. /\ j > 1 /\ j - 1 > 1 /\ (j - 1) - 1 \in 1 .. n
        /\ j - 1 \in 1 .. n + 1 /\ j - 1 > i
        /\ j <= n + 1 <=> j - 1 <= n
    BY <1>1, <1>2
  <2>2. q.cells[j - 1].key = p.cells[(j - 1) - 1].key
    BY <1>7, <2>1
  <2>3. j <= n + 1 => q.cells[j].key = p.cells[j - 1].key
    <3>1. j <= n + 1 => j \in 1 .. n + 1 /\ j > i
      BY <1>1, <1>2
    <3>2. QED
      BY <1>7, <3>1
  <2>4. QED
    BY <1>3, <2>1, <2>2, <2>3 DEF Share, n
<1>12. QED
  BY <1>8, <1>9, <1>10, <1>11 DEF n

(* The separator keeps the keys of the page in order: in a B+ tree because  *)
(* the split page kept a key below it.                                      *)
LEMMA JoinedIncreasing ==
  ASSUME NEW p, NEW o, NEW i, NEW s, NEW val, NEW rc,
         Joined(p, o, i, s, val, rc), NEW q, q = WithCell(p, i, s, val, rc),
         CopyUpLeaves => \E k \in Share(p, o, i) : k < s
  PROVE  Increasing(q)
<1> DEFINE n == NumCells(p)
<1>1. /\ IsPage(p) /\ i \in 1 .. n + 1 /\ s \in Int /\ Increasing(p)
      /\ o \subseteq Int /\ Insertable(p, i, s, val, rc)
  BY DEF Joined, Insertable
<1>2. n \in Nat /\ \A j \in 1 .. n : p.cells[j].key \in Int
  BY <1>1, CellsOfPage
<1>3. /\ NumCells(q) = n + 1
      /\ \A j \in 1 .. n + 1 :
           q.cells[j].key = IF j < i THEN p.cells[j].key
                            ELSE IF j = i THEN s ELSE p.cells[j - 1].key
  BY <1>1, WithCellElements
<1>4. i > 1 => p.cells[i - 1].key < s
  <2>1. SUFFICES ASSUME i > 1 PROVE p.cells[i - 1].key < s
    OBVIOUS
  <2>2. i - 1 \in 1 .. n /\ p.cells[i - 1].key \in Int
    BY <1>1, <1>2, <2>1
  <2>3. After(p.cells[i - 1].key, s)
    BY <2>1 DEF Joined, Share
  <2>4. CASE CopyUpLeaves
    <3>1. PICK k \in Share(p, o, i) : k < s
      BY <2>4
    <3>2. k \in Int /\ After(p.cells[i - 1].key, k)
      BY <1>1, <2>1 DEF Share
    <3>3. QED
      BY <1>1, <2>2, <3>1, <3>2 DEF After
  <2>5. QED
    BY <2>3, <2>4 DEF After
<1>5. i <= n => s < p.cells[i].key
  BY DEF Joined, Share
<1> HIDE DEF n
<1>6. \A a, b \in 1 .. n : a <= b => p.cells[a].key <= p.cells[b].key
  BY <1>1, <1>2 DEF Increasing, n
<1>7. \A a \in 1 .. n : a < i => p.cells[a].key < s
  <2>1. TAKE a \in 1 .. n
  <2>2. HAVE a < i
  <2>3. i - 1 \in 1 .. n /\ a <= i - 1 /\ i > 1
    BY <1>1, <1>2, <2>2
  <2>4. p.cells[a].key <= p.cells[i - 1].key /\ p.cells[i - 1].key < s
    BY <1>4, <1>6, <2>3
  <2>5. QED
    BY <1>1, <1>2, <2>3, <2>4
<1>8. \A a \in 1 .. n : i <= a => s < p.cells[a].key
  <2>1. TAKE a \in 1 .. n
  <2>2. HAVE i <= a
  <2>3. i \in 1 .. n
    BY <1>1, <1>2, <2>2
  <2>4. p.cells[i].key <= p.cells[a].key /\ s < p.cells[i].key
    BY <1>5, <1>6, <2>2, <2>3
  <2>5. QED
    BY <1>1, <1>2, <2>3, <2>4
<1>9. ASSUME NEW a \in 1 .. n + 1, NEW b \in 1 .. n + 1, a < b
      PROVE  q.cells[a].key < q.cells[b].key
  <2>1. CASE b < i
    <3>1. a \in 1 .. n /\ b \in 1 .. n /\ a < i
      BY <1>1, <1>2, <1>9, <2>1
    <3>2. q.cells[a].key = p.cells[a].key /\ q.cells[b].key = p.cells[b].key
      BY <1>3, <2>1, <3>1
    <3>3. QED
      BY <1>1, <1>9, <3>1, <3>2 DEF Increasing, n
  <2>2. CASE b = i
    <3>1. a \in 1 .. n /\ a < i
      BY <1>1, <1>2, <1>9, <2>2
    <3>2. q.cells[a].key = p.cells[a].key /\ q.cells[b].key = s
      BY <1>3, <2>2, <3>1
    <3>3. QED
      BY <1>7, <3>1, <3>2
  <2>3. CASE b > i
    <3>1. /\ b - 1 \in 1 .. n /\ i <= b - 1 /\ ~(b < i) /\ b # i
          /\ q.cells[b].key = p.cells[b - 1].key
      BY <1>1, <1>2, <1>3, <2>3
    <3>2. CASE a < i
      <4>1. a \in 1 .. n /\ a < b - 1 /\ q.cells[a].key = p.cells[a].key
        BY <1>1, <1>2, <1>3, <3>1, <3>2
      <4>2. QED
        BY <1>1, <3>1, <4>1 DEF Increasing, n
    <3>3. CASE a = i
      <4>1. q.cells[a].key = s
        BY <1>3, <3>3
      <4>2. QED
        BY <1>8, <3>1, <4>1
    <3>4. CASE a > i
      <4>1. /\ a - 1 \in 1 .. n /\ a - 1 < b - 1
            /\ q.cells[a].key = p.cells[a - 1].key
        BY <1>1, <1>2, <1>3, <1>9, <3>1, <3>4
      <4>2. QED
        BY <1>1, <3>1, <4>1 DEF Increasing, n
    <3>5. QED
      BY <1>1, <3>2, <3>3, <3>4
  <2>4. QED
    BY <1>1, <2>1, <2>2, <2>3
<1>10. QED
  BY <1>3, <1>9 DEF Increasing
-----------------------------------------------------------------------------
(* A split that the page above does not know of yet: page l was split at s, *)
(* the right half is page rt, and s is promoted with the value sv.          *)
Whole(own, l, s, rt) == [own EXCEPT ![l] = own[l] \cup {s} \cup own[rt]]

(* The halves share out the keys left and right of s.                       *)
Halved(ids, own, lev, want, l, rt, s, sv) ==
  /\ l \in ids /\ rt \in ids /\ l # rt /\ lev[rt] = lev[l]
  /\ s \in Keys /\ s \in Int
  /\ \A k \in own[l] : k < s
  /\ \A k \in own[rt] : After(s, k)
  /\ CopyUpLeaves => s \in own[rt]
  /\ ~CopyUpLeaves => /\ sv = want[s] /\ sv # Nil
                      /\ Topmost(s, lev[l] + 1, ids, own, lev)

(* The tree is sound but for the right half, which hangs nowhere yet.       *)
Splitting(H, ids, r, own, lev, want, l, rt, s, sv) ==
  /\ Valid(H, ids, r, own, lev, Whole(own, l, s, rt), want)
  /\ Halved(ids, own, lev, want, l, rt, s, sv)

(* Page l hangs under page u, at position i.                                *)
Above(H, ids, u, i, l) ==
  /\ u \in ids /\ ~H[u].leaf
  /\ i \in 1 .. NumCells(H[u]) + 1 /\ ChildAt(H[u], i) = l

(* The split page hangs under page u, at position i.                        *)
SplitUnder(H, ids, r, own, lev, want, l, rt, s, sv, u, i) ==
  /\ Splitting(H, ids, r, own, lev, want, l, rt, s, sv)
  /\ Above(H, ids, u, i, l)

(* The page above the two halves is the only one that has page l below it,  *)
(* and has it there once: where the search for s leads.                     *)
LEMMA OneParent ==
  ASSUME NEW H, NEW ids, NEW r, NEW own, NEW lev, NEW want,
         NEW l, NEW rt, NEW s, NEW sv, NEW u, NEW i,
         SplitUnder(H, ids, r, own, lev, want, l, rt, s, sv, u, i)
  PROVE  /\ s \in own[u] /\ lev[u] = lev[l] + 1
         /\ s \in Share(H[u], own[u], i)
         /\ Share(H[u], own[u], i) = own[l] \cup {s} \cup own[rt]
         /\ i = Way(H[u], s)
<1> DEFINE W == Whole(own, l, s, rt)
<1>0. /\ u \in ids /\ ~H[u].leaf
      /\ i \in 1 .. NumCells(H[u]) + 1 /\ ChildAt(H[u], i) = l
  BY DEF SplitUnder, Above
<1>1. /\ Spread(ids, r, own, lev, W) /\ PageOK(H[u], u, ids, own, lev, W, want)
      /\ l \in ids
  BY <1>0 DEF SplitUnder, Splitting, Valid, Halved
<1>2. own \in [ids -> SUBSET Int]
  BY <1>1 DEF Spread
<1>3. W[l] = own[l] \cup {s} \cup own[rt]
  BY <1>1, <1>2 DEF Whole
<1> HIDE DEF W
<1>4. ChildOK(H[u], i, u, ids, own, lev, W)
  BY <1>0, <1>1 DEF PageOK, ChildrenOK
<1>5. lev[u] = lev[l] + 1 /\ W[l] = Share(H[u], own[u], i)
  BY <1>0, <1>4 DEF ChildOK
<1>6. s \in Share(H[u], own[u], i)
  BY <1>3, <1>5
<1>7. s \in own[u] /\ own[u] \subseteq Int
  BY <1>0, <1>2, <1>6 DEF Share
<1>8. IsPage(H[u]) /\ Increasing(H[u])
  BY <1>1 DEF PageOK
<1>9. i = Way(H[u], s)
  BY <1>0, <1>6, <1>7, <1>8, ShareIsFound
<1>10. QED
  BY <1>3, <1>5, <1>6, <1>7, <1>9

(* Every other page hangs where it did once the separator is in place.      *)
LEMMA JoinOthers ==
  ASSUME NEW H, NEW ids, NEW r, NEW own, NEW lev, NEW want,
         NEW l, NEW rt, NEW s, NEW sv,
         Splitting(H, ids, r, own, lev, want, l, rt, s, sv),
         NEW u \in ids, ~H[u].leaf, s \in own[u], lev[u] = lev[l] + 1,
         NEW y \in ids, y # u
  PROVE  PageOK(H[y], y, ids, own, lev, own, want)
<1> DEFINE W == Whole(own, l, s, rt)
<1>1. /\ Spread(ids, r, own, lev, W) /\ PageOK(H[y], y, ids, own, lev, W, want)
      /\ l \in ids
  BY DEF SplitUnder, Splitting, Valid, Halved
<1>2. own \in [ids -> SUBSET Int]
  BY <1>1 DEF Spread
<1>3. \A x \in ids : x # l => W[x] = own[x]
  BY <1>1, <1>2 DEF Whole
<1> HIDE DEF W
<1>4. ASSUME ~H[y].leaf, NEW j \in 1 .. NumCells(H[y]) + 1
      PROVE  ChildOK(H[y], j, y, ids, own, lev, own)
  <2>1. ChildOK(H[y], j, y, ids, own, lev, W)
    BY <1>1, <1>4 DEF PageOK, ChildrenOK
  <2>2. ChildAt(H[y], j) # l
    <3>1. SUFFICES ASSUME ChildAt(H[y], j) = l PROVE FALSE
      OBVIOUS
    <3>2. s \in own[y] /\ lev[y] = lev[l] + 1
      <4>1. SplitUnder(H, ids, r, own, lev, want, l, rt, s, sv, y, j)
        BY <1>4, <3>1 DEF SplitUnder, Above
      <4>2. QED
        BY <4>1, OneParent
    <3>3. QED
      BY <1>1, <3>2 DEF Spread
  <2>3. QED
    BY <1>3, <2>1, <2>2 DEF ChildOK
<1>5. ChildrenOK(H[y], y, ids, own, lev, own)
  BY <1>4 DEF ChildrenOK
<1>6. QED
  BY <1>1, <1>5 DEF PageOK

(* The page above, with the separator in it.                                *)
LEMMA JoinHere ==
  ASSUME NEW H, NEW ids, NEW r, NEW own, NEW lev, NEW want,
         NEW l, NEW rt, NEW s, NEW sv, NEW u, NEW i,
         SplitUnder(H, ids, r, own, lev, want, l, rt, s, sv, u, i),
         ids \subseteq Nat, sv \in Values \cup {Nil},
         NEW q, q = WithCell(H[u], i, s, sv, rt)
  PROVE  PageOK(q, u, ids, own, lev, own, want)
<1> DEFINE W == Whole(own, l, s, rt)
           p == H[u]
           n == NumCells(p)
           o == own[u]
<1>0. /\ u \in ids /\ ~p.leaf
      /\ i \in 1 .. n + 1 /\ ChildAt(p, i) = l
  BY DEF SplitUnder, Above
<1>1. /\ Spread(ids, r, own, lev, W) /\ PageOK(p, u, ids, own, lev, W, want)
      /\ Halved(ids, own, lev, want, l, rt, s, sv)
  BY <1>0 DEF SplitUnder, Splitting, Valid
<1>2. /\ own \in [ids -> SUBSET Int] /\ l \in ids /\ rt \in ids /\ l # rt
      /\ s \in Keys /\ s \in Int /\ rt \in Nat /\ o \subseteq Int
  BY <1>0, <1>1 DEF Spread, Halved
<1>3. /\ W[l] = own[l] \cup {s} \cup own[rt]
      /\ \A x \in ids : x # l => W[x] = own[x]
  BY <1>2 DEF Whole
<1>4. /\ s \in own[u] /\ lev[u] = lev[l] + 1
      /\ s \in Share(p, o, i)
      /\ Share(p, o, i) = own[l] \cup {s} \cup own[rt]
      /\ i = Way(p, s)
  BY OneParent
<1>5. IsPage(p) /\ Increasing(p)
  BY <1>1 DEF PageOK
<1>6. Joined(p, o, i, s, sv, rt) /\ Insertable(p, i, s, sv, rt)
  BY <1>0, <1>2, <1>4, <1>5 DEF Joined, Insertable
<1>7. n \in Nat
  BY <1>5, CellsOfPage
<1>8. /\ IsPage(q) /\ q.leaf = p.leaf /\ NumCells(q) = n + 1
      /\ \A j \in 1 .. n + 1 :
           q.cells[j].key = IF j < i THEN p.cells[j].key
                            ELSE IF j = i THEN s ELSE p.cells[j - 1].key
      /\ \A j \in 1 .. n + 1 :
           q.cells[j].val = IF j < i THEN p.cells[j].val
                            ELSE IF j = i THEN sv ELSE p.cells[j - 1].val
  BY <1>6, WithCellElements
<1>9. /\ \A j \in 1 .. i : ChildAt(q, j) = ChildAt(p, j)
      /\ ChildAt(q, i + 1) = rt
      /\ \A j \in i + 2 .. n + 2 : ChildAt(q, j) = ChildAt(p, j - 1)
  BY <1>6, JoinedChildren
<1>10. /\ \A j \in 1 .. i - 1 : Share(q, o, j) = Share(p, o, j)
       /\ Share(q, o, i) = {k \in Share(p, o, i) : k < s}
       /\ Share(q, o, i + 1) = {k \in Share(p, o, i) : After(s, k)}
       /\ \A j \in i + 2 .. n + 2 : Share(q, o, j) = Share(p, o, j - 1)
  BY <1>6, JoinedShares
<1>11. \A j \in 1 .. n + 1 : ChildOK(p, j, u, ids, own, lev, W)
  BY <1>0, <1>1 DEF PageOK, ChildrenOK
<1> HIDE DEF W, p, n, o
<1>12. Share(q, o, i) = own[l] /\ Share(q, o, i + 1) = own[rt]
  <2>1. /\ own[l] \subseteq Int /\ own[rt] \subseteq Int
        /\ \A k \in own[l] : k < s
        /\ \A k \in own[rt] : After(s, k)
        /\ CopyUpLeaves => s \in own[rt]
    BY <1>1, <1>2 DEF Halved
  <2>2. \A k \in Int : ~(k < s /\ After(s, k))
    BY <1>2 DEF After
  <2>3. ~(s < s) /\ (After(s, s) <=> CopyUpLeaves)
    BY <1>2 DEF After
  <2>4. /\ own[l] = {k \in own[l] \cup {s} \cup own[rt] : k < s}
        /\ own[rt] = {k \in own[l] \cup {s} \cup own[rt] : After(s, k)}
    BY <2>1, <2>2, <2>3
  <2>5. QED
    BY <1>4, <1>10, <2>4
<1>13. \A j \in 1 .. n + 1 : j # i => ChildAt(p, j) # l
  <2>1. TAKE j \in 1 .. n + 1
  <2>2. SUFFICES ASSUME ChildAt(p, j) = l PROVE j = i
    OBVIOUS
  <2>3. SplitUnder(H, ids, r, own, lev, want, l, rt, s, sv, u, j)
    BY <1>0, <2>2 DEF SplitUnder, Above, p, n
  <2>4. j = Way(H[u], s)
    BY <2>3, OneParent
  <2>5. QED
    BY <1>4, <2>4 DEF p
<1>14. ASSUME NEW j \in 1 .. n + 2
       PROVE  ChildOK(q, j, u, ids, own, lev, own)
  <2>0. i \in 1 .. n + 1
    BY <1>0
  <2>1. CASE j < i
    <3>1. j \in 1 .. n + 1 /\ j \in 1 .. i - 1 /\ j \in 1 .. i /\ j # i
      BY <1>7, <2>0, <2>1
    <3>2. ChildOK(p, j, u, ids, own, lev, W) /\ ChildAt(p, j) # l
      BY <1>11, <1>13, <3>1
    <3>3. ChildAt(q, j) = ChildAt(p, j) /\ Share(q, o, j) = Share(p, o, j)
      BY <1>9, <1>10, <3>1
    <3>4. QED
      BY <1>3, <3>2, <3>3 DEF ChildOK, o
  <2>2. CASE j = i
    <3>1. ChildAt(q, j) = l
      BY <1>0, <1>9, <2>0, <2>2
    <3>2. QED
      BY <1>2, <1>4, <1>12, <2>2, <3>1 DEF ChildOK, o
  <2>3. CASE j = i + 1
    <3>1. ChildAt(q, j) = rt /\ lev[rt] = lev[l]
      BY <1>1, <1>9, <2>3 DEF Halved
    <3>2. QED
      BY <1>2, <1>4, <1>12, <2>3, <3>1 DEF ChildOK, o
  <2>4. CASE j > i + 1
    <3>1. j - 1 \in 1 .. n + 1 /\ j \in i + 2 .. n + 2 /\ j - 1 # i
      BY <1>7, <2>0, <2>4
    <3>2. ChildOK(p, j - 1, u, ids, own, lev, W) /\ ChildAt(p, j - 1) # l
      BY <1>11, <1>13, <3>1
    <3>3. ChildAt(q, j) = ChildAt(p, j - 1) /\ Share(q, o, j) = Share(p, o, j - 1)
      BY <1>9, <1>10, <3>1
    <3>4. QED
      BY <1>3, <3>2, <3>3 DEF ChildOK, o
  <2>5. QED
    BY <2>0, <2>1, <2>2, <2>3, <2>4
<1>15. ChildrenOK(q, u, ids, own, lev, own)
  <2>1. NumCells(q) + 1 = n + 2
    BY <1>7, <1>8
  <2>2. QED
    BY <1>14, <2>1 DEF ChildrenOK
<1>16. Increasing(q)
  <2>1. ASSUME CopyUpLeaves PROVE \E k \in Share(p, o, i) : k < s
    <3>1. PageOK(H[l], l, ids, own, lev, Whole(own, l, s, rt), want)
      BY <1>2 DEF SplitUnder, Splitting, Valid
    <3>2. own[l] # {}
      BY <2>1, <3>1 DEF PageOK, RoomOK
    <3>3. \A k \in own[l] : k < s
      BY <1>1 DEF Halved
    <3>4. QED
      BY <1>4, <3>2, <3>3
  <2>2. QED
    BY <1>6, <2>1, JoinedIncreasing DEF p
<1>17. \A j \in 1 .. n + 1 :
         \/ q.cells[j].key = s /\ q.cells[j].val = sv
         \/ \E m \in 1 .. n : /\ q.cells[j].key = p.cells[m].key
                              /\ q.cells[j].val = p.cells[m].val
  <2>0. i \in 1 .. n + 1
    BY <1>0
  <2>1. TAKE j \in 1 .. n + 1
  <2>2. CASE j < i
    BY <1>7, <1>8, <2>0, <2>2
  <2>3. CASE j = i
    BY <1>8, <2>3
  <2>4. CASE j > i
    <3>1. j - 1 \in 1 .. n /\ ~(j < i) /\ j # i
      BY <1>7, <2>0, <2>4
    <3>2. QED
      BY <1>8, <3>1
  <2>5. QED
    BY <2>0, <2>2, <2>3, <2>4
<1>18. KeysOK(q, o)
  BY <1>1, <1>2, <1>4, <1>8, <1>17 DEF PageOK, KeysOK, n, o
<1>19. ValuesOK(q, want)
  <2>1. SUFFICES ASSUME ~CopyUpLeaves, NEW j \in 1 .. n + 1
                 PROVE  q.cells[j].val = want[q.cells[j].key] /\ q.cells[j].val # Nil
    BY <1>0, <1>8 DEF ValuesOK
  <2>2. sv = want[s] /\ sv # Nil
    BY <1>1, <2>1 DEF Halved
  <2>3. \A m \in 1 .. n : /\ p.cells[m].val = want[p.cells[m].key]
                          /\ p.cells[m].val # Nil
    BY <1>1, <2>1 DEF PageOK, ValuesOK, n
  <2>4. QED
    BY <1>17, <2>2, <2>3
<1>20. OnceOK(q, u, ids, own, lev)
  <2>1. SUFFICES ASSUME ~CopyUpLeaves, NEW j \in 1 .. n + 1
                 PROVE  Topmost(q.cells[j].key, lev[u], ids, own, lev)
    BY <1>8 DEF OnceOK
  <2>2. Topmost(s, lev[u], ids, own, lev)
    BY <1>1, <1>4, <2>1 DEF Halved
  <2>3. \A m \in 1 .. n : Topmost(p.cells[m].key, lev[u], ids, own, lev)
    BY <1>1, <2>1 DEF PageOK, OnceOK, n
  <2>4. QED
    BY <1>17, <2>2, <2>3
<1>21. ~q.leaf /\ KindOK(q, u, lev)
  BY <1>0, <1>1, <1>8 DEF PageOK, KindOK
<1>22. LeafOK(q, o, want) /\ RoomOK(q, o) /\ NextOK(q, u, ids, own, lev)
  BY <1>1, <1>21 DEF PageOK, RoomOK, LeafOK, NextOK, o
<1>23. QED
  BY <1>8, <1>15, <1>16, <1>18, <1>19, <1>20, <1>21, <1>22 DEF PageOK, o

(* G has the pages of H, and on page u the separator s, put in where the    *)
(* search for it leads.                                                     *)
TakesIn(H, G, ids, u, s, sv, rt) ==
  /\ G[u] = WithCell(H[u], Way(H[u], s), s, sv, rt)
  /\ \A x \in ids : x # u => G[x] = H[x]

(* Every page is for the keys of its place again.                           *)
LEMMA JoinSound ==
  ASSUME NEW H, NEW ids, NEW r, NEW own, NEW lev, NEW want,
         NEW l, NEW rt, NEW s, NEW sv, NEW u, NEW i,
         SplitUnder(H, ids, r, own, lev, want, l, rt, s, sv, u, i),
         ids \subseteq Nat, sv \in Values \cup {Nil},
         NEW G, TakesIn(H, G, ids, u, s, sv, rt)
  PROVE  Valid(G, ids, r, own, lev, own, want)
<1> DEFINE W == Whole(own, l, s, rt)
<1>1. /\ Spread(ids, r, own, lev, W) /\ l \in ids /\ u \in ids /\ ~H[u].leaf
  BY DEF SplitUnder, Splitting, Valid, Halved, Above
<1>2. /\ s \in own[u] /\ lev[u] = lev[l] + 1
      /\ i = Way(H[u], s)
  BY OneParent
<1>3. \A x \in ids : PageOK(G[x], x, ids, own, lev, own, want)
  <2>1. PageOK(G[u], u, ids, own, lev, own, want)
    <3>1. G[u] = WithCell(H[u], i, s, sv, rt)
      BY <1>2 DEF TakesIn
    <3>2. QED
      BY <3>1, JoinHere
  <2>2. \A x \in ids : x # u => PageOK(H[x], x, ids, own, lev, own, want)
    BY <1>1, <1>2, JoinOthers DEF SplitUnder
  <2>3. QED
    BY <2>1, <2>2 DEF TakesIn
<1>4. own[r] = Int
  <2>1. /\ own \in [ids -> SUBSET Int] /\ lev \in [ids -> Nat]
        /\ r \in ids /\ W[r] = Int /\ lev[u] <= lev[r]
    BY <1>1 DEF Spread
  <2>2. lev[u] \in Nat /\ lev[l] \in Nat /\ lev[r] \in Nat
    BY <1>1, <2>1
  <2>3. r # l
    BY <1>2, <2>1, <2>2
  <2>4. QED
    BY <1>1, <2>1, <2>3 DEF Whole
<1>5. Spread(ids, r, own, lev, own)
  BY <1>1, <1>4 DEF Spread
<1>6. QED
  BY <1>3, <1>5 DEF Valid
-----------------------------------------------------------------------------
(* Page q is page p with the pair of k and v on it, in the place of the     *)
(* pair that p may have for k; an internal page has one.                    *)
Updates(p, q, k, v) ==
  /\ IsPage(q) /\ Increasing(q) /\ q.leaf = p.leaf /\ q.next = p.next
  /\ \A j \in 1 .. NumCells(q) :
       IF q.cells[j].key = k THEN q.cells[j].val = v
       ELSE \E i \in 1 .. NumCells(p) : /\ p.cells[i].key = q.cells[j].key
                                        /\ p.cells[i].val = q.cells[j].val
  /\ \E j \in 1 .. NumCells(q) : q.cells[j].key = k
  /\ \A i \in 1 .. NumCells(p) :
       \E j \in 1 .. NumCells(q) : q.cells[j].key = p.cells[i].key
  /\ ~p.leaf =>
       /\ NumCells(q) = NumCells(p)
       /\ \A j \in 1 .. NumCells(p) : q.cells[j].key = p.cells[j].key
       /\ \A j \in 1 .. NumCells(p) + 1 : ChildAt(q, j) = ChildAt(p, j)

(* The page x that stores k is to store the value v for it.                 *)
Updating(H, ids, r, own, lev, want, x, k, v) ==
  /\ Valid(H, ids, r, own, lev, own, want)
  /\ want \in [Keys -> Values \cup {Nil}]
  /\ x \in ids /\ k \in own[x] /\ k \in Keys /\ v \in Values
  /\ H[x].leaf \/ ~CopyUpLeaves

(* What is stored after k was given the value v.                            *)
Updated(want, k, v) == [want EXCEPT ![k] = v]

(* Only k has another value.                                                *)
LEMMA StoredValues ==
  ASSUME NEW want \in [Keys -> Values \cup {Nil}], NEW k \in Keys, NEW v
  PROVE  /\ Updated(want, k, v)[k] = v
         /\ \A l \in Keys : l # k => Updated(want, k, v)[l] = want[l]
BY DEF Updated

(* The page that was given the new pair.                                    *)
LEMMA UpdateHere ==
  ASSUME NEW H, NEW ids, NEW r, NEW own, NEW lev, NEW want, NEW x, NEW k, NEW v,
         Updating(H, ids, r, own, lev, want, x, k, v),
         NEW q, Updates(H[x], q, k, v)
  PROVE  /\ PageOK(q, x, ids, own, lev, own, Updated(want, k, v))
         /\ ~CopyUpLeaves => Topmost(k, lev[x], ids, own, lev)
<1> DEFINE p == H[x]
           o == own[x]
           w == Updated(want, k, v)
<1>1. /\ Spread(ids, r, own, lev, own) /\ PageOK(p, x, ids, own, lev, own, want)
      /\ want \in [Keys -> Values \cup {Nil}]
      /\ x \in ids /\ k \in o /\ k \in Keys /\ v \in Values
      /\ p.leaf \/ ~CopyUpLeaves
  BY DEF Updating, Valid
<1>2. w[k] = v /\ \A l \in Keys : l # k => w[l] = want[l]
  BY <1>1, StoredValues
<1> HIDE DEF w, p, o
<1>3. Updates(p, q, k, v) /\ o = own[x]
  BY DEF p, o
<1>4. v # Nil
  BY <1>1, ValuesAssumption
<1>5. IsPage(q) /\ Increasing(q) /\ q.leaf = p.leaf /\ q.next = p.next
  BY <1>3 DEF Updates
<1>6. KindOK(q, x, lev) /\ NextOK(q, x, ids, own, lev)
  BY <1>1, <1>5 DEF PageOK, KindOK, NextOK
<1>7. ChildrenOK(q, x, ids, own, lev, own)
  <2>1. SUFFICES ASSUME ~q.leaf, NEW j \in 1 .. NumCells(q) + 1
                 PROVE  ChildOK(q, j, x, ids, own, lev, own)
    BY DEF ChildrenOK
  <2>2. /\ NumCells(q) = NumCells(p)
        /\ \A m \in 1 .. NumCells(p) : q.cells[m].key = p.cells[m].key
        /\ ChildAt(q, j) = ChildAt(p, j)
    BY <1>3, <1>5, <2>1 DEF Updates
  <2>3. ChildOK(p, j, x, ids, own, lev, own)
    BY <1>1, <1>5, <2>1, <2>2 DEF PageOK, ChildrenOK
  <2>4. Share(q, o, j) = Share(p, o, j)
    <3>1. NumCells(p) \in Nat
      BY <1>1, CellsOfPage DEF PageOK
    <3>2. j > 1 => q.cells[j - 1].key = p.cells[j - 1].key
      BY <2>2, <3>1
    <3>3. j <= NumCells(p) => q.cells[j].key = p.cells[j].key
      BY <2>2, <3>1
    <3>4. QED
      BY <2>2, <3>2, <3>3 DEF Share
  <2>5. QED
    BY <1>3, <2>2, <2>3, <2>4 DEF ChildOK
<1>8. KeysOK(p, o) /\ KeysOK(q, o)
  BY <1>1, <1>3 DEF PageOK, KeysOK, Updates
<1>9. ValuesOK(q, w)
  <2>1. SUFFICES ASSUME NEW j \in 1 .. NumCells(q)
                 PROVE  q.cells[j].val = w[q.cells[j].key] /\ q.cells[j].val # Nil
    BY DEF ValuesOK
  <2>2. CASE q.cells[j].key = k
    BY <1>2, <1>3, <1>4, <2>2 DEF Updates
  <2>3. CASE q.cells[j].key # k
    <3>1. PICK i \in 1 .. NumCells(p) : /\ p.cells[i].key = q.cells[j].key
                                        /\ p.cells[i].val = q.cells[j].val
      BY <1>3, <2>3 DEF Updates
    <3>2. p.cells[i].val = want[p.cells[i].key] /\ p.cells[i].val # Nil
      BY <1>1 DEF PageOK, ValuesOK
    <3>3. q.cells[j].key \in Keys
      BY <1>8 DEF KeysOK
    <3>4. QED
      BY <1>2, <2>3, <3>1, <3>2, <3>3
  <2>4. QED
    BY <2>2, <2>3
<1>10. LeafOK(q, o, w)
  <2>1. SUFFICES ASSUME q.leaf, NEW l \in o \cap Keys, w[l] # Nil
                 PROVE  \E j \in 1 .. NumCells(q) : q.cells[j].key = l
    BY DEF LeafOK
  <2>2. CASE l = k
    BY <1>3, <2>2 DEF Updates
  <2>3. CASE l # k
    <3>1. want[l] # Nil
      BY <1>2, <2>1, <2>3
    <3>2. PICK i \in 1 .. NumCells(p) : p.cells[i].key = l
      BY <1>1, <1>5, <2>1, <3>1 DEF PageOK, LeafOK, o
    <3>3. QED
      BY <1>3, <3>2 DEF Updates
  <2>4. QED
    BY <2>2, <2>3
<1>11. ASSUME ~CopyUpLeaves
       PROVE  /\ OnceOK(q, x, ids, own, lev)
              /\ Topmost(k, lev[x], ids, own, lev)
  <2>1. CASE p.leaf
    <3>1. lev[x] = 0 /\ \A y \in ids : lev[y] \in Nat
      BY <1>1, <2>1 DEF PageOK, KindOK, Spread
    <3>2. \A l : Topmost(l, lev[x], ids, own, lev)
      BY <3>1 DEF Topmost
    <3>3. QED
      BY <3>2 DEF OnceOK
  <2>2. CASE ~p.leaf
    <3>1. \A j \in 1 .. NumCells(p) : Topmost(p.cells[j].key, lev[x], ids, own, lev)
      BY <1>1, <1>11 DEF PageOK, OnceOK
    <3>2. /\ NumCells(q) = NumCells(p)
          /\ \A m \in 1 .. NumCells(p) : q.cells[m].key = p.cells[m].key
          /\ \E j \in 1 .. NumCells(q) : q.cells[j].key = k
      BY <1>3, <2>2 DEF Updates
    <3>3. \A j \in 1 .. NumCells(q) : Topmost(q.cells[j].key, lev[x], ids, own, lev)
      BY <3>1, <3>2
    <3>4. QED
      BY <3>2, <3>3 DEF OnceOK
  <2>3. QED
    BY <2>1, <2>2
<1>12. RoomOK(q, o)
  <2>1. NumCells(q) # 0
    <3>1. PICK j \in 1 .. NumCells(q) : q.cells[j].key = k
      BY <1>3 DEF Updates
    <3>2. QED
      BY <3>1
  <2>2. QED
    BY <1>1, <2>1 DEF RoomOK
<1>13. OnceOK(q, x, ids, own, lev)
  BY <1>11 DEF OnceOK
<1>14. PageOK(q, x, ids, own, lev, own, w)
  BY <1>3, <1>5, <1>6, <1>7, <1>8, <1>9, <1>10, <1>12, <1>13 DEF PageOK
<1>15. QED
  BY <1>11, <1>14 DEF w

(* No other page stores k, nor should.                                      *)
LEMMA UpdateOthers ==
  ASSUME NEW H, NEW ids, NEW r, NEW own, NEW lev, NEW want, NEW x, NEW k, NEW v,
         Updating(H, ids, r, own, lev, want, x, k, v),
         ~CopyUpLeaves => Topmost(k, lev[x], ids, own, lev),
         NEW y \in ids, y # x
  PROVE  PageOK(H[y], y, ids, own, lev, own, Updated(want, k, v))
<1> DEFINE p == H[y]
           o == own[y]
           w == Updated(want, k, v)
<1>1. /\ Spread(ids, r, own, lev, own)
      /\ PageOK(p, y, ids, own, lev, own, want)
      /\ PageOK(H[x], x, ids, own, lev, own, want)
      /\ want \in [Keys -> Values \cup {Nil}]
      /\ x \in ids /\ k \in own[x] /\ k \in Keys
      /\ H[x].leaf \/ ~CopyUpLeaves
  BY DEF Updating, Valid
<1>2. w[k] = v /\ \A l \in Keys : l # k => w[l] = want[l]
  BY <1>1, StoredValues
<1>3. lev[x] \in Nat /\ lev[y] \in Nat
  BY <1>1 DEF Spread
<1>4. k \in o => lev[y] # lev[x]
  BY <1>1 DEF Spread
<1> HIDE DEF w, p, o
<1>5. p.leaf => k \notin o
  <2>1. SUFFICES ASSUME p.leaf, k \in o PROVE FALSE
    OBVIOUS
  <2>2. lev[y] = 0 /\ lev[x] # 0
    BY <1>1, <1>4, <2>1 DEF PageOK, KindOK
  <2>3. ~CopyUpLeaves /\ lev[y] < lev[x]
    BY <1>1, <1>3, <2>2 DEF PageOK, KindOK
  <2>4. QED
    BY <2>1, <2>3 DEF Topmost, o
<1>6. ASSUME p.leaf \/ ~CopyUpLeaves, NEW i \in 1 .. NumCells(p)
      PROVE  p.cells[i].key # k
  <2>1. SUFFICES ASSUME p.cells[i].key = k PROVE FALSE
    OBVIOUS
  <2>2. k \in o
    BY <1>1, <2>1 DEF PageOK, KeysOK, o
  <2>3. ~p.leaf /\ ~CopyUpLeaves
    BY <1>5, <1>6, <2>2
  <2>4. CASE lev[y] < lev[x]
    BY <2>2, <2>3, <2>4 DEF Topmost, o
  <2>5. CASE lev[x] < lev[y]
    BY <1>1, <2>1, <2>3, <2>5 DEF PageOK, OnceOK, Topmost
  <2>6. QED
    BY <1>3, <1>4, <2>2, <2>4, <2>5
<1>7. KeysOK(p, o)
  BY <1>1 DEF PageOK, o
<1>8. ValuesOK(p, w)
  <2>1. SUFFICES ASSUME p.leaf \/ ~CopyUpLeaves, NEW i \in 1 .. NumCells(p)
                 PROVE  p.cells[i].val = w[p.cells[i].key] /\ p.cells[i].val # Nil
    BY DEF ValuesOK
  <2>2. p.cells[i].val = want[p.cells[i].key] /\ p.cells[i].val # Nil
    BY <1>1, <2>1 DEF PageOK, ValuesOK
  <2>3. p.cells[i].key \in Keys /\ p.cells[i].key # k
    BY <1>6, <1>7, <2>1 DEF KeysOK
  <2>4. QED
    BY <1>2, <2>2, <2>3
<1>9. LeafOK(p, o, w)
  <2>1. SUFFICES ASSUME p.leaf, NEW l \in o \cap Keys, w[l] # Nil
                 PROVE  \E j \in 1 .. NumCells(p) : p.cells[j].key = l
    BY DEF LeafOK
  <2>2. want[l] # Nil
    BY <1>2, <1>5, <2>1
  <2>3. QED
    BY <1>1, <2>1, <2>2 DEF PageOK, LeafOK, o
<1>10. QED
  BY <1>1, <1>8, <1>9 DEF PageOK, p, o, w

(* A pair put on the page that is for its key.                              *)
LEMMA UpdateSound ==
  ASSUME NEW H, NEW ids, NEW r, NEW own, NEW lev, NEW want, NEW x, NEW k, NEW v,
         Updating(H, ids, r, own, lev, want, x, k, v),
         NEW G, Updates(H[x], G[x], k, v), \A y \in ids : y # x => G[y] = H[y]
  PROVE  Valid(G, ids, r, own, lev, own, Updated(want, k, v))
<1>1. Spread(ids, r, own, lev, own) /\ x \in ids
  BY DEF Updating, Valid
<1>2. /\ PageOK(G[x], x, ids, own, lev, own, Updated(want, k, v))
      /\ ~CopyUpLeaves => Topmost(k, lev[x], ids, own, lev)
  BY UpdateHere
<1>3. \A y \in ids : y # x => PageOK(H[y], y, ids, own, lev, own, Updated(want, k, v))
  BY <1>2, UpdateOthers
<1>4. QED
  BY <1>1, <1>2, <1>3 DEF Valid
-----------------------------------------------------------------------------
(* The halves of a page split at its cell m: the cells left of m, and those *)
(* from a on, which is m itself or the cell after it.                       *)
IsLeft(p, q, m) ==
  /\ IsPage(q) /\ q.leaf = p.leaf /\ NumCells(q) = m - 1
  /\ \A j \in 1 .. m - 1 : q.cells[j] = p.cells[j]
  /\ ~p.leaf => q.rightmost = p.cells[m].lc

(* Page q is what a split of p at a leaves on the right.                    *)
IsRight(p, q, a) ==
  /\ IsPage(q) /\ q.leaf = p.leaf /\ NumCells(q) = NumCells(p) - a + 1
  /\ \A j \in 1 .. NumCells(p) - a + 1 : q.cells[j] = p.cells[a + j - 1]
  /\ ~p.leaf => q.rightmost = p.rightmost

(* The keys on the right of the separator s.                                *)
Beyond(o, s) == {k \in o : After(s, k)}

(* Page q has the cells a to b of page p.                                   *)
Stretch(p, q, a, b, r, x) ==
  /\ IsPage(q) /\ q.leaf = p.leaf /\ NumCells(q) = b - a + 1
  /\ \A j \in 1 .. b - a + 1 : q.cells[j] = p.cells[a + j - 1]
  /\ q.rightmost = r /\ q.next = x

(* NewPage with the cells a to b of a page in order.                        *)
LEMMA StretchCells ==
  ASSUME NEW p, IsPage(p), Ordered(p), NEW a \in Int, NEW b \in Int,
         1 <= a, a <= b + 1, b <= NumCells(p), NEW r \in Nat, NEW x \in Int
  PROVE  Stretch(p, NewPage(p.leaf, SubSeq(p.cells, a, b), r, x), a, b, r, x)
<1> DEFINE q == NewPage(p.leaf, SubSeq(p.cells, a, b), r, x)
<1>1. IsPage(q) /\ q.leaf = p.leaf /\ NumCells(q) = b - a + 1
  BY StretchOfPage
<1>2. \A j \in 1 .. b - a + 1 : q.cells[j] = p.cells[a + j - 1]
  <2>1. p.cells \in Seq(Cell) /\ NumCells(p) = Len(p.cells) /\ NumCells(p) \in Nat
    BY CellsOfPage DEF IsPage, NumCells
  <2>2. \A j \in a .. b : p.cells[j] \in Cell
    BY <2>1, CellsOfPage
  <2>3. q.cells = SubSeq(p.cells, a, b)
    BY DEF NewPage
  <2>4. QED
    BY <2>1, <2>2, <2>3, SubSeqProperties
<1>3. q.rightmost = r /\ q.next = x
  BY DEF NewPage
<1> HIDE DEF q
<1>4. QED
  BY <1>1, <1>2, <1>3 DEF Stretch, q

(* The two halves of a split, cell by cell.                                 *)
LEMMA HalvesElements ==
  ASSUME NEW p, IsPage(p), Increasing(p), NumCells(p) >= 1,
         NEW x \in Int, NEW y \in Int
  PROVE  /\ Promoted(p.cells) \in 1 .. NumCells(p)
         /\ NumCells(p) >= 2 => Promoted(p.cells) >= 2
         /\ IsLeft(p, LeftHalf(p, x), Promoted(p.cells))
         /\ LeftHalf(p, x).next = x
         /\ IsRight(p, RightHalf(p, y), RightStart(p.leaf, Promoted(p.cells)))
         /\ RightHalf(p, y).next = y
<1> DEFINE n == NumCells(p)
           m == Promoted(p.cells)
           a == RightStart(p.leaf, m)
           r == IF p.leaf THEN 0 ELSE p.cells[m].lc
           t == IF p.leaf THEN 0 ELSE p.rightmost
<1>1. n = Len(p.cells) /\ n \in Nat /\ Ordered(p)
  BY CellsOfPage DEF NumCells, Ordered, Increasing
<1>2. m \in 1 .. n /\ (n >= 2 => m >= 2)
  <2>1. \A i \in Nat : /\ i >= 1 => i \div 2 + 1 \in 1 .. i
                       /\ i >= 2 => i \div 2 + 1 >= 2
    OBVIOUS
  <2>2. m = n \div 2 + 1 /\ n >= 1
    BY <1>1 DEF Promoted
  <2>3. QED
    BY <1>1, <2>1, <2>2
<1>3. a \in Int /\ 1 <= a /\ a <= n + 1
  BY <1>1, <1>2 DEF RightStart
<1>4. r \in Nat /\ t \in Nat
  BY <1>2, CellsOfPage DEF IsPage
<1> HIDE DEF r, t, a, m, n
<1>5. IsLeft(p, LeftHalf(p, x), m) /\ LeftHalf(p, x).next = x
  <2> DEFINE q == NewPage(p.leaf, SubSeq(p.cells, 1, m - 1), r, x)
  <2>1. LeftHalf(p, x) = q
    BY DEF r, m, LeftHalf
  <2>2. /\ 1 \in Int /\ m - 1 \in Int /\ 1 <= (m - 1) + 1 /\ m - 1 <= NumCells(p)
        /\ (m - 1) - 1 + 1 = m - 1
    BY <1>1, <1>2 DEF n
  <2>3. Stretch(p, q, 1, m - 1, r, x)
    BY <1>1, <1>4, <2>2, StretchCells
  <2> HIDE DEF q
  <2>4. \A j \in 1 .. m - 1 : q.cells[j] = p.cells[j]
    BY <2>2, <2>3 DEF Stretch
  <2>5. ~p.leaf => q.rightmost = p.cells[m].lc
    BY <2>3 DEF r, Stretch
  <2>6. QED
    BY <2>1, <2>2, <2>3, <2>4, <2>5 DEF IsLeft, Stretch
<1>6. IsRight(p, RightHalf(p, y), a) /\ RightHalf(p, y).next = y
  <2> DEFINE q == NewPage(p.leaf, SubSeq(p.cells, a, n), t, y)
  <2>1. RightHalf(p, y) = q
    BY <1>1 DEF t, a, m, RightHalf
  <2>2. n \in Int /\ n <= NumCells(p)
    BY <1>1 DEF n
  <2>3. Stretch(p, q, a, n, t, y)
    BY <1>1, <1>3, <1>4, <2>2, StretchCells
  <2> HIDE DEF q
  <2>4. ~p.leaf => q.rightmost = p.rightmost
    BY <2>3 DEF t, Stretch
  <2>5. QED
    BY <2>1, <2>3, <2>4 DEF IsRight, n, Stretch
<1>7. QED
  BY <1>2, <1>5, <1>6 DEF a, m, n

(* The left half keeps the children up to m and what they are for.          *)
LEMMA LeftShares ==
  ASSUME NEW p, IsPage(p), Increasing(p), ~p.leaf, NEW o, o \subseteq Int,
         NEW m \in 1 .. NumCells(p), NEW q, IsLeft(p, q, m), NEW j \in 1 .. m
  PROVE  /\ ChildAt(q, j) = ChildAt(p, j)
         /\ Share(q, Below(o, p.cells[m].key), j) = Share(p, o, j)
<1> DEFINE n == NumCells(p)
           s == p.cells[m].key
<1>1. n \in Nat /\ \A i \in 1 .. n : p.cells[i].key \in Int
  BY CellsOfPage
<1>2. /\ NumCells(q) = m - 1 /\ \A i \in 1 .. m - 1 : q.cells[i] = p.cells[i]
      /\ q.rightmost = p.cells[m].lc
  BY DEF IsLeft
<1>3. j \in 1 .. n /\ j # n + 1 /\ j <= n /\ s \in Int
  BY <1>1
<1>4. ChildAt(q, j) = ChildAt(p, j)
  <2>1. CASE j = m
    BY <1>1, <1>2, <1>3, <2>1 DEF ChildAt
  <2>2. CASE j # m
    <3>1. j \in 1 .. m - 1 /\ j # (m - 1) + 1
      BY <1>1, <2>2
    <3>2. QED
      BY <1>2, <1>3, <3>1 DEF ChildAt
  <2>3. QED
    BY <2>1, <2>2
<1>5. j > 1 => q.cells[j - 1] = p.cells[j - 1]
  <2>1. j > 1 => j - 1 \in 1 .. m - 1
    BY <1>1
  <2>2. QED
    BY <1>2, <2>1
<1>6. ASSUME NEW k \in o
      PROVE  (k < s /\ (j <= m - 1 => k < q.cells[j].key)) <=> k < p.cells[j].key
  <2>1. k \in Int
    OBVIOUS
  <2>2. CASE j = m
    BY <1>1, <2>2
  <2>3. CASE j # m
    <3>1. j \in 1 .. m - 1 /\ j < m /\ j <= m - 1
      BY <1>1, <2>3
    <3>2. q.cells[j] = p.cells[j] /\ p.cells[j].key < s
      BY <1>2, <1>3, <3>1 DEF Increasing
    <3>3. QED
      BY <1>1, <1>3, <2>1, <3>1, <3>2
  <2>4. QED
    BY <2>2, <2>3
<1> HIDE DEF s, n
<1>7. Share(q, Below(o, s), j) = Share(p, o, j)
  BY <1>2, <1>3, <1>5, <1>6 DEF Share, Below, n
<1>8. QED
  BY <1>4, <1>7 DEF s

(* The right half keeps those after m.                                      *)
LEMMA RightShares ==
  ASSUME NEW p, IsPage(p), Increasing(p), ~p.leaf, NEW o, o \subseteq Int,
         NEW m \in 1 .. NumCells(p), NEW q, IsRight(p, q, m + 1),
         NEW j \in 1 .. NumCells(p) - m + 1
  PROVE  /\ ChildAt(q, j) = ChildAt(p, m + j)
         /\ Share(q, Beyond(o, p.cells[m].key), j) = Share(p, o, m + j)
<1> DEFINE n == NumCells(p)
           s == p.cells[m].key
<1>1. n \in Nat /\ \A i \in 1 .. n : p.cells[i].key \in Int
  BY CellsOfPage
<1>2. /\ NumCells(q) = n - m /\ \A i \in 1 .. n - m : q.cells[i] = p.cells[m + i]
      /\ q.rightmost = p.rightmost
  <2>1. /\ NumCells(q) = n - (m + 1) + 1
        /\ \A i \in 1 .. n - (m + 1) + 1 : q.cells[i] = p.cells[(m + 1) + i - 1]
        /\ q.rightmost = p.rightmost
    BY DEF IsRight
  <2>2. n - (m + 1) + 1 = n - m /\ \A i \in Int : (m + 1) + i - 1 = m + i
    BY <1>1
  <2>3. QED
    BY <2>1, <2>2
<1>3. /\ s \in Int /\ m + j > 1 /\ (m + j = n + 1 <=> j = (n - m) + 1)
      /\ m + j <= n <=> j <= n - m
  BY <1>1
<1>4. ChildAt(q, j) = ChildAt(p, m + j)
  <2>1. CASE j = (n - m) + 1
    BY <1>2, <1>3, <2>1 DEF ChildAt
  <2>2. CASE j # (n - m) + 1
    <3>1. j \in 1 .. n - m
      BY <1>1, <2>2
    <3>2. QED
      BY <1>2, <1>3, <2>2, <3>1 DEF ChildAt
  <2>3. QED
    BY <2>1, <2>2
<1>5. j <= n - m => q.cells[j] = p.cells[m + j]
  <2>1. j <= n - m => j \in 1 .. n - m
    BY <1>1
  <2>2. QED
    BY <1>2, <2>1
<1>6. ASSUME NEW k \in o
      PROVE  (After(s, k) /\ (j > 1 => After(q.cells[j - 1].key, k)))
               <=> After(p.cells[m + j - 1].key, k)
  <2>1. k \in Int
    OBVIOUS
  <2>2. CASE j = 1
    <3>1. m + j - 1 = m
      BY <1>1, <2>2
    <3>2. QED
      BY <2>2, <3>1
  <2>3. CASE j # 1
    <3>1. /\ j - 1 \in 1 .. n - m /\ j > 1 /\ m + (j - 1) = m + j - 1
          /\ m + j - 1 \in 1 .. n /\ m < m + j - 1
      BY <1>1, <2>3
    <3>2. q.cells[j - 1] = p.cells[m + j - 1]
      BY <1>2, <3>1
    <3>3. s < p.cells[m + j - 1].key
      BY <1>1, <3>1 DEF Increasing
    <3>4. QED
      BY <1>1, <1>3, <2>1, <3>1, <3>2, <3>3 DEF After
  <2>4. QED
    BY <2>2, <2>3
<1> HIDE DEF s, n
<1>7. Share(q, Beyond(o, s), j) = Share(p, o, m + j)
  <2>1. ASSUME NEW k \in o
        PROVE  (j <= NumCells(q) => k < q.cells[j].key)
                 <=> (m + j <= NumCells(p) => k < p.cells[m + j].key)
    BY <1>2, <1>3, <1>5 DEF n
  <2>2. ASSUME NEW k \in o
        PROVE  k \in Share(q, Beyond(o, s), j) <=> k \in Share(p, o, m + j)
    BY <1>3, <1>6, <2>1 DEF Share, Beyond
  <2>3. /\ Share(q, Beyond(o, s), j) \subseteq o
        /\ Share(p, o, m + j) \subseteq o
    BY DEF Share, Beyond
  <2>4. QED
    BY <2>2, <2>3
<1>8. QED
  BY <1>4, <1>7 DEF s

(* Page x, with the cell that found no room on it, is split into itself and *)
(* the new page z at the separator s.                                       *)
OwnHalved(own, ids, x, z, s) ==
  [y \in ids \cup {z} |-> IF y = x THEN Below(own[x], s)
                          ELSE IF y = z THEN Beyond(own[x], s) ELSE own[y]]

(* Both halves are on the level of the split page.                          *)
LevHalved(lev, ids, x, z) ==
  [y \in ids \cup {z} |-> IF y = z THEN lev[x] ELSE lev[y]]

(* The key a split promotes.                                                *)
MidKey(p) == p.cells[Promoted(p.cells)].key

(* What splitNode promotes with the key.                                    *)
MidVal(p) == IF p.leaf /\ CopyUpLeaves THEN Nil ELSE p.cells[Promoted(p.cells)].val

Halving(H, ids, r, own, lev, want, x, z) ==
  /\ Valid(H, ids, r, own, lev, own, want)
  /\ x \in ids /\ z \notin ids
  /\ Promoted(H[x].cells) \in 1 .. NumCells(H[x])
  /\ CopyUpLeaves /\ H[x].leaf /\ Promoted(H[x].cells) = 1 => NoLeast(own[x])

(* What the split changes in the table of keys and levels.                  *)
HalvedSpread(ids, own, lev, x, z, s, o, v, w) ==
  /\ x \in ids /\ z \notin ids /\ x # z /\ s \in own[x] /\ s \in Int
  /\ own \in [ids -> SUBSET Int] /\ lev \in [ids -> Nat]
  /\ o \in [ids \cup {z} -> SUBSET Int] /\ v \in [ids \cup {z} -> Nat]
  /\ o[x] = Below(own[x], s) /\ o[z] = Beyond(own[x], s)
  /\ \A y \in ids : y # x => o[y] = own[y]
  /\ \A y \in ids : o[y] \subseteq own[y]
  /\ v[z] = lev[x] /\ \A y \in ids : v[y] = lev[y]
  /\ w \in [ids \cup {z} -> SUBSET Int]
  /\ \A y \in ids : w[y] = own[y]
  /\ w[z] = o[z]

(* The new table is what the rest of the argument needs of it.              *)
LEMMA HalvedSpreads ==
  ASSUME NEW H, NEW ids, NEW r, NEW own, NEW lev, NEW want, NEW x, NEW z,
         Halving(H, ids, r, own, lev, want, x, z),
         NEW s, s = MidKey(H[x]), NEW o, o = OwnHalved(own, ids, x, z, s)
  PROVE  /\ HalvedSpread(ids, own, lev, x, z, s, o, LevHalved(lev, ids, x, z),
                         Whole(o, x, s, z))
         /\ s \in Keys
<1>1. /\ Spread(ids, r, own, lev, own) /\ PageOK(H[x], x, ids, own, lev, own, want)
      /\ x \in ids /\ z \notin ids /\ x # z
      /\ Promoted(H[x].cells) \in 1 .. NumCells(H[x])
  BY DEF Halving, Valid
<1>2. s \in own[x] /\ s \in Keys
  BY <1>1 DEF PageOK, KeysOK, MidKey
<1>3. own \in [ids -> SUBSET Int] /\ lev \in [ids -> Nat]
  BY <1>1 DEF Spread
<1>4. s \in Int /\ own[x] \subseteq Int
  BY <1>1, <1>2, <1>3
<1>5. Below(own[x], s) \subseteq own[x] /\ Beyond(own[x], s) \subseteq own[x]
  BY DEF Below, Beyond
<1>6. own[x] = Below(own[x], s) \cup {s} \cup Beyond(own[x], s)
  BY <1>2, <1>4 DEF Below, Beyond, After
<1>7. /\ o \in [ids \cup {z} -> SUBSET Int]
      /\ o[x] = Below(own[x], s) /\ o[z] = Beyond(own[x], s)
      /\ \A y \in ids : y # x => o[y] = own[y]
  BY <1>1, <1>3, <1>4, <1>5 DEF OwnHalved
<1>8. \A y \in ids : o[y] \subseteq own[y]
  BY <1>5, <1>7
<1> DEFINE v == LevHalved(lev, ids, x, z)
           w == Whole(o, x, s, z)
<1>9. /\ v \in [ids \cup {z} -> Nat]
      /\ v[z] = lev[x] /\ \A y \in ids : v[y] = lev[y]
  BY <1>1, <1>3 DEF LevHalved
<1>10. /\ w \in [ids \cup {z} -> SUBSET Int]
       /\ w[x] = o[x] \cup {s} \cup o[z]
       /\ \A y \in ids \cup {z} : y # x => w[y] = o[y]
  BY <1>1, <1>4, <1>7 DEF Whole
<1> HIDE DEF v, w
<1>11. \A y \in ids : w[y] = own[y]
  BY <1>1, <1>6, <1>7, <1>10
<1>12. QED
  BY <1>1, <1>2, <1>3, <1>4, <1>7, <1>8, <1>9, <1>10, <1>11
     DEF HalvedSpread, v, w

(* Fewer keys in the table: no page has come to be for a key it was not for.*)
LEMMA StillTopmost ==
  ASSUME NEW ids, NEW own, NEW lev, NEW x, NEW z, NEW s, NEW o, NEW v, NEW w,
         HalvedSpread(ids, own, lev, x, z, s, o, v, w),
         NEW k, NEW n, Topmost(k, n, ids, own, lev)
  PROVE  Topmost(k, n, ids \cup {z}, o, v)
<1>1. SUFFICES ASSUME NEW y \in ids \cup {z}, v[y] < n
               PROVE  k \notin o[y]
  BY DEF Topmost
<1>2. CASE y = z
  <2>1. lev[x] < n /\ x \in ids /\ o[y] \subseteq own[x]
    BY <1>1, <1>2 DEF HalvedSpread, Beyond
  <2>2. QED
    BY <2>1 DEF Topmost
<1>3. CASE y # z
  <2>1. y \in ids /\ lev[y] < n /\ o[y] \subseteq own[y]
    BY <1>1, <1>3 DEF HalvedSpread
  <2>2. QED
    BY <2>1 DEF Topmost
<1>4. QED
  BY <1>2, <1>3

(* A stretch of keys cut in two at s.                                       *)
LEMMA CutConvex ==
  ASSUME CopyUpLeaves, NEW o \in SUBSET Int, NEW s \in o, Convex(o)
  PROVE  /\ Convex(Below(o, s)) /\ Convex(Beyond(o, s))
         /\ Adjoin(Below(o, s), Beyond(o, s))
         /\ \A k \in Int : Past(Beyond(o, s), k) => Past(o, k)
<1>1. s \in Int /\ \A k \in o : k \in Int
  OBVIOUS
<1>2. /\ \A k \in Int : k \in Below(o, s) <=> k \in o /\ k < s
      /\ \A k \in Int : k \in Beyond(o, s) <=> k \in o /\ s <= k
      /\ Below(o, s) \subseteq Int /\ Beyond(o, s) \subseteq Int
  <2>1. \A k \in Int : After(s, k) <=> s <= k
    BY <1>1 DEF After
  <2>2. QED
    BY <1>1, <2>1 DEF Below, Beyond
<1> DEFINE b == Below(o, s)
           d == Beyond(o, s)
<1> HIDE DEF b, d
<1>3. Convex(b) /\ Convex(d)
  BY <1>1, <1>2 DEF Convex, b, d
<1>4. \A l \in b, m \in d : l < m
  BY <1>1, <1>2 DEF b, d
<1>5. ASSUME NEW k \in Int, Past(b, k)
      PROVE  From(d, k)
  <2>1. PICK l \in b : l < k
    BY <1>5 DEF Past
  <2>2. l \in o /\ l < s /\ l \in Int
    BY <1>2, <2>1 DEF b
  <2>3. ~(k < s)
    BY <1>1, <1>2, <1>5, <2>1, <2>2 DEF Past, Convex, b
  <2>4. s \in d /\ s <= k
    BY <1>1, <1>2, <2>3 DEF d
  <2>5. QED
    BY <2>4 DEF From
<1>6. ASSUME NEW k \in Int, Past(d, k)
      PROVE  Past(o, k)
  <2>1. PICK l \in d : l < k
    BY <1>6 DEF Past
  <2>2. l \in o /\ s <= l /\ l \in Int
    BY <1>2, <2>1 DEF d
  <2>3. k \notin o
    BY <1>1, <1>2, <1>6, <2>1, <2>2 DEF Past, d
  <2>4. QED
    BY <2>1, <2>2, <2>3 DEF Past
<1>7. QED
  BY <1>3, <1>4, <1>5, <1>6 DEF Adjoin, b, d

(* The other pages hang where they did, for what they were.                 *)
LEMMA HalvedOthers ==
  ASSUME NEW ids, NEW own, NEW lev, NEW x, NEW z, NEW s, NEW o, NEW v, NEW w,
         HalvedSpread(ids, own, lev, x, z, s, o, v, w),
         CopyUpLeaves => o[x] # {},
         NEW want, NEW y \in ids, y # x, NEW p,
         PageOK(p, y, ids, own, lev, own, want)
  PROVE  PageOK(p, y, ids \cup {z}, o, v, w, want)
<1>1. o[y] = own[y] /\ v[y] = lev[y]
  BY DEF HalvedSpread
<1>2. ChildrenOK(p, y, ids \cup {z}, o, v, w)
  <2>1. SUFFICES ASSUME ~p.leaf, NEW j \in 1 .. NumCells(p) + 1
                 PROVE  ChildOK(p, j, y, ids \cup {z}, o, v, w)
    BY DEF ChildrenOK
  <2>2. ChildOK(p, j, y, ids, own, lev, own)
    BY <2>1 DEF PageOK, ChildrenOK
  <2>3. ChildAt(p, j) \in ids
    BY <2>2 DEF ChildOK
  <2>4. /\ v[ChildAt(p, j)] = lev[ChildAt(p, j)]
        /\ w[ChildAt(p, j)] = own[ChildAt(p, j)]
    BY <2>3 DEF HalvedSpread
  <2>5. QED
    BY <1>1, <2>2, <2>3, <2>4 DEF ChildOK
<1>3. OnceOK(p, y, ids \cup {z}, o, v)
  BY <1>1, StillTopmost DEF PageOK, OnceOK
<1>4. NextOK(p, y, ids \cup {z}, o, v)
  <2>1. SUFFICES ASSUME CopyUpLeaves, p.leaf, p.next \in ids, lev[p.next] = 0,
                        Adjoin(own[y], own[p.next])
                 PROVE  /\ p.next \in ids \cup {z} /\ v[p.next] = 0
                        /\ Adjoin(o[y], o[p.next])
    BY <1>1 DEF PageOK, NextOK
  <2>2. p.next \in ids \cup {z} /\ v[p.next] = 0
    BY <2>1 DEF HalvedSpread
  <2>3. CASE p.next # x
    BY <1>1, <2>1, <2>2, <2>3 DEF HalvedSpread
  <2>4. CASE p.next = x
    <3>1. o[x] = Below(own[x], s) /\ own[x] \subseteq Int /\ s \in Int
      BY DEF HalvedSpread
    <3>2. Adjoin(own[y], Below(own[x], s))
      BY <2>1, <2>4, <3>1, BelowAdjoins
    <3>3. QED
      BY <1>1, <2>2, <2>4, <3>1, <3>2
  <2>5. QED
    BY <2>3, <2>4
<1>5. KindOK(p, y, v)
  BY <1>1 DEF PageOK, KindOK
<1>6. QED
  BY <1>1, <1>2, <1>3, <1>4, <1>5 DEF PageOK

(* The cells of q are cells of p.                                           *)
PartOf(p, q) ==
  /\ q.leaf = p.leaf
  /\ \A j \in 1 .. NumCells(q) : \E i \in 1 .. NumCells(p) : q.cells[j] = p.cells[i]

(* What both halves inherit.                                                *)
LEMMA HalfInherits ==
  ASSUME NEW ids, NEW own, NEW lev, NEW x, NEW z, NEW s, NEW o, NEW v, NEW w,
         HalvedSpread(ids, own, lev, x, z, s, o, v, w),
         NEW want, NEW p, PageOK(p, x, ids, own, lev, own, want),
         NEW y, y = x \/ y = z, NEW q, PartOf(p, q)
  PROVE  /\ KindOK(q, y, v)
         /\ ValuesOK(q, want)
         /\ OnceOK(q, y, ids \cup {z}, o, v)
         /\ \A j \in 1 .. NumCells(q) : q.cells[j].key \in own[x] \cap Keys
<1>1. v[y] = lev[x]
  BY DEF HalvedSpread
<1>2. KindOK(q, y, v)
  BY <1>1 DEF PageOK, KindOK, PartOf
<1>3. ValuesOK(q, want)
  BY DEF PageOK, ValuesOK, PartOf
<1>4. \A j \in 1 .. NumCells(q) : q.cells[j].key \in own[x] \cap Keys
  BY DEF PageOK, KeysOK, PartOf
<1>5. OnceOK(q, y, ids \cup {z}, o, v)
  <2>1. SUFFICES ASSUME ~CopyUpLeaves, NEW j \in 1 .. NumCells(q)
                 PROVE  Topmost(q.cells[j].key, v[y], ids \cup {z}, o, v)
    BY DEF OnceOK
  <2>2. Topmost(q.cells[j].key, lev[x], ids, own, lev)
    BY <2>1 DEF PageOK, OnceOK, PartOf
  <2>3. QED
    BY <1>1, <2>2, StillTopmost
<1>6. QED
  BY <1>2, <1>3, <1>4, <1>5

(* The two halves as pages of their own, and whom they are for.             *)
Dealt(ids, own, lev, want, x, z, p, m, s, o, v, w) ==
  /\ HalvedSpread(ids, own, lev, x, z, s, o, v, w)
  /\ PageOK(p, x, ids, own, lev, own, want)
  /\ m \in 1 .. NumCells(p) /\ s = p.cells[m].key
  /\ \A y \in ids : CopyUpLeaves => own[y] # {}

(* The left half is for the keys below the separator.                       *)
LEMMA LeftOK ==
  ASSUME NEW ids, NEW own, NEW lev, NEW want, NEW x, NEW z, NEW p, NEW m,
         NEW s, NEW o, NEW v, NEW w,
         Dealt(ids, own, lev, want, x, z, p, m, s, o, v, w),
         CopyUpLeaves /\ p.leaf /\ m = 1 => NoLeast(own[x]),
         NEW q, IsLeft(p, q, m),
         CopyUpLeaves /\ p.leaf => q.next = z
  PROVE  PageOK(q, x, ids \cup {z}, o, v, w, want)
<1>1. /\ HalvedSpread(ids, own, lev, x, z, s, o, v, w)
      /\ PageOK(p, x, ids, own, lev, own, want)
      /\ m \in 1 .. NumCells(p) /\ s = p.cells[m].key
  BY DEF Dealt
<1>2. /\ IsPage(p) /\ Increasing(p)
      /\ IsPage(q) /\ q.leaf = p.leaf /\ NumCells(q) = m - 1
      /\ \A j \in 1 .. m - 1 : q.cells[j] = p.cells[j]
  BY <1>1 DEF PageOK, IsLeft
<1>3. NumCells(p) \in Nat /\ \A i \in 1 .. NumCells(p) : p.cells[i].key \in Int
  BY <1>2, CellsOfPage
<1>4. /\ o[x] = Below(own[x], s) /\ own[x] \subseteq Int
      /\ x \in ids /\ s \in own[x] /\ s \in Int /\ v[x] = lev[x]
      /\ own \in [ids -> SUBSET Int]
  BY <1>1 DEF HalvedSpread
<1>5. \A j \in 1 .. m - 1 : j \in 1 .. NumCells(p) /\ j < m
  BY <1>1, <1>3
<1>6. Increasing(q)
  BY <1>2, <1>5 DEF Increasing
<1>7. /\ KindOK(q, x, v) /\ ValuesOK(q, want) /\ OnceOK(q, x, ids \cup {z}, o, v)
      /\ \A j \in 1 .. NumCells(q) : q.cells[j].key \in own[x] \cap Keys
  <2>1. PartOf(p, q)
    BY <1>2, <1>5 DEF PartOf
  <2>2. QED
    BY <1>1, <1>2, <2>1, HalfInherits
<1>8. KeysOK(q, o[x])
  <2>1. ASSUME NEW j \in 1 .. m - 1
        PROVE  q.cells[j].key < s
    BY <1>1, <1>2, <1>5 DEF Increasing
  <2>2. QED
    BY <1>2, <1>4, <1>7, <2>1 DEF KeysOK, Below
<1>9. ChildrenOK(q, x, ids \cup {z}, o, v, w)
  <2>1. SUFFICES ASSUME ~p.leaf, NEW j \in 1 .. m
                 PROVE  ChildOK(q, j, x, ids \cup {z}, o, v, w)
    <3>1. NumCells(q) + 1 = m
      BY <1>1, <1>2
    <3>2. QED
      BY <1>2, <3>1 DEF ChildrenOK
  <2>2. ChildAt(q, j) = ChildAt(p, j) /\ Share(q, o[x], j) = Share(p, own[x], j)
    BY <1>1, <1>2, <1>4, <2>1, LeftShares
  <2>3. ChildOK(p, j, x, ids, own, lev, own)
    BY <1>1, <1>3, <2>1 DEF PageOK, ChildrenOK
  <2>4. ChildAt(p, j) \in ids
    BY <2>3 DEF ChildOK
  <2>5. /\ v[ChildAt(p, j)] = lev[ChildAt(p, j)]
        /\ w[ChildAt(p, j)] = own[ChildAt(p, j)]
    BY <1>1, <2>4 DEF HalvedSpread
  <2>6. QED
    BY <1>4, <2>2, <2>3, <2>4, <2>5 DEF ChildOK
<1>10. LeafOK(q, o[x], want)
  <2>1. SUFFICES ASSUME p.leaf, NEW k \in o[x] \cap Keys, want[k] # Nil
                 PROVE  \E j \in 1 .. m - 1 : q.cells[j].key = k
    BY <1>2 DEF LeafOK
  <2>2. k \in own[x] /\ k < s
    BY <1>4 DEF Below
  <2>3. PICK i \in 1 .. NumCells(p) : p.cells[i].key = k
    BY <1>1, <2>1, <2>2 DEF PageOK, LeafOK
  <2>4. i \in 1 .. m - 1
    <3>1. ~(i = m) /\ ~(m < i)
      BY <1>1, <1>2, <1>3, <2>2, <2>3 DEF Increasing
    <3>2. QED
      BY <1>1, <1>3, <3>1
  <2>5. QED
    BY <1>2, <2>3, <2>4
<1>11. ASSUME CopyUpLeaves
       PROVE  o[x] # {} /\ (q.leaf /\ NumCells(q) = 0 => NoLeast(o[x]))
  <2>1. CASE ~p.leaf
    <3>1. ChildOK(p, m, x, ids, own, lev, own) /\ m \in 1 .. m
      BY <1>1, <1>3, <2>1 DEF PageOK, ChildrenOK
    <3>2. own[ChildAt(p, m)] # {}
      BY <1>11, <3>1 DEF Dealt, ChildOK
    <3>3. own[ChildAt(p, m)] = Share(p, own[x], m)
      BY <3>1 DEF ChildOK
    <3>4. Share(p, own[x], m) \subseteq o[x]
      <4>1. m <= NumCells(p)
        BY <1>1
      <4>2. QED
        BY <1>1, <1>4, <4>1 DEF Share, Below
    <3>5. QED
      BY <1>2, <2>1, <3>2, <3>3, <3>4
  <2>2. CASE p.leaf /\ m # 1
    <3>1. 1 \in 1 .. NumCells(q) /\ NumCells(q) # 0
      BY <1>1, <1>2, <2>2
    <3>2. QED
      BY <1>8, <3>1 DEF KeysOK
  <2>3. CASE p.leaf /\ m = 1
    <3>1. NoLeast(own[x])
      BY <1>11, <2>3
    <3>2. PICK k \in own[x] : k < s
      BY <1>4, <3>1 DEF NoLeast
    <3>3. k \in o[x]
      BY <1>4, <3>2 DEF Below
    <3>4. NoLeast(o[x])
      <4>1. SUFFICES ASSUME NEW l \in o[x] PROVE \E h \in o[x] : h < l
        BY DEF NoLeast
      <4>2. l \in own[x] /\ l < s
        BY <1>4 DEF Below
      <4>3. PICK h \in own[x] : h < l
        BY <3>1, <4>2 DEF NoLeast
      <4>4. h \in Int /\ l \in Int /\ h < s
        BY <1>4, <4>2, <4>3
      <4>5. h \in o[x]
        BY <1>4, <4>4 DEF Below
      <4>6. QED
        BY <4>3, <4>5
    <3>5. QED
      BY <3>3, <3>4
  <2>4. QED
    BY <2>1, <2>2, <2>3
<1>12. RoomOK(q, o[x])
  BY <1>11 DEF RoomOK
<1>13. NextOK(q, x, ids \cup {z}, o, v)
  <2>1. SUFFICES ASSUME CopyUpLeaves, p.leaf
                 PROVE  /\ Convex(o[x])
                        /\ q.next \in ids \cup {z} /\ v[q.next] = 0
                        /\ Adjoin(o[x], o[q.next])
    BY <1>2 DEF NextOK
  <2>2. lev[x] = 0 /\ v[z] = lev[x] /\ q.next = z /\ o[z] = Beyond(own[x], s)
    BY <1>1, <2>1 DEF PageOK, KindOK, HalvedSpread
  <2>3. Convex(own[x])
    BY <1>1, <2>1 DEF PageOK, NextOK
  <2>4. Convex(Below(own[x], s)) /\ Adjoin(Below(own[x], s), Beyond(own[x], s))
    BY <1>4, <2>1, <2>3, CutConvex
  <2>5. QED
    BY <1>4, <2>2, <2>4
<1>14. QED
  BY <1>2, <1>6, <1>7, <1>8, <1>9, <1>10, <1>12, <1>13 DEF PageOK

(* The right half is for the keys beyond the separator.                     *)
LEMMA RightOK ==
  ASSUME NEW ids, NEW own, NEW lev, NEW want, NEW x, NEW z, NEW p, NEW m,
         NEW s, NEW o, NEW v, NEW w,
         Dealt(ids, own, lev, want, x, z, p, m, s, o, v, w),
         NEW q, IsRight(p, q, RightStart(p.leaf, m)),
         CopyUpLeaves /\ p.leaf => q.next = p.next
  PROVE  PageOK(q, z, ids \cup {z}, o, v, w, want)
<1> DEFINE n == NumCells(p)
           a == RightStart(p.leaf, m)
<1>1. /\ HalvedSpread(ids, own, lev, x, z, s, o, v, w)
      /\ PageOK(p, x, ids, own, lev, own, want)
      /\ m \in 1 .. n /\ s = p.cells[m].key
  BY DEF Dealt
<1>2. /\ IsPage(p) /\ Increasing(p)
      /\ IsPage(q) /\ q.leaf = p.leaf /\ NumCells(q) = n - a + 1
      /\ \A j \in 1 .. n - a + 1 : q.cells[j] = p.cells[a + j - 1]
  BY <1>1 DEF PageOK, IsRight
<1>3. n \in Nat /\ \A i \in 1 .. n : p.cells[i].key \in Int
  BY <1>2, CellsOfPage
<1>4. /\ o[z] = Beyond(own[x], s) /\ own[x] \subseteq Int
      /\ x \in ids /\ s \in own[x] /\ s \in Int /\ v[z] = lev[x]
      /\ own \in [ids -> SUBSET Int]
  BY <1>1 DEF HalvedSpread
<1>5. /\ a \in Int
      /\ p.leaf /\ CopyUpLeaves => a = m
      /\ ~(p.leaf /\ CopyUpLeaves) => a = m + 1
  BY <1>1 DEF RightStart
<1> HIDE DEF a, n
<1>6. \A j \in 1 .. n - a + 1 : a + j - 1 \in 1 .. n /\ m <= a + j - 1
  BY <1>1, <1>3, <1>5
<1>7. Increasing(q)
  <2>1. SUFFICES ASSUME NEW j \in 1 .. n - a + 1, NEW l \in 1 .. n - a + 1, j < l
                 PROVE  q.cells[j].key < q.cells[l].key
    BY <1>2 DEF Increasing
  <2>2. /\ a + j - 1 \in 1 .. n /\ a + l - 1 \in 1 .. n
        /\ a + j - 1 < a + l - 1
    BY <1>5, <1>6, <2>1
  <2>3. q.cells[j] = p.cells[a + j - 1] /\ q.cells[l] = p.cells[a + l - 1]
    BY <1>2
  <2>4. QED
    BY <1>2, <2>2, <2>3 DEF Increasing, n
<1>8. /\ KindOK(q, z, v) /\ ValuesOK(q, want) /\ OnceOK(q, z, ids \cup {z}, o, v)
      /\ \A j \in 1 .. NumCells(q) : q.cells[j].key \in own[x] \cap Keys
  <2>1. PartOf(p, q)
    BY <1>2, <1>6 DEF n, PartOf
  <2>2. QED
    BY <1>1, <1>2, <2>1, HalfInherits
<1>9. \A i \in 1 .. n : \/ i < m /\ p.cells[i].key < s
                        \/ i = m /\ p.cells[i].key = s
                        \/ i > m /\ s < p.cells[i].key
  BY <1>1, <1>2, <1>3 DEF Increasing, n
<1>10. KeysOK(q, o[z])
  <2>1. ASSUME NEW j \in 1 .. n - a + 1
        PROVE  After(s, q.cells[j].key)
    <3>1. q.cells[j] = p.cells[a + j - 1] /\ a + j - 1 \in 1 .. n
      BY <1>2, <1>6
    <3>2. CASE p.leaf /\ CopyUpLeaves
      <4>1. s < q.cells[j].key \/ s = q.cells[j].key
        BY <1>1, <1>5, <1>6, <1>9, <3>1, <3>2
      <4>2. QED
        BY <3>2, <4>1 DEF After
    <3>3. CASE ~(p.leaf /\ CopyUpLeaves)
      <4>1. a + j - 1 > m
        BY <1>1, <1>5, <3>3
      <4>2. s < q.cells[j].key
        BY <1>1, <1>9, <3>1, <4>1
      <4>3. QED
        BY <4>2 DEF After
    <3>4. QED
      BY <3>2, <3>3
  <2>2. QED
    BY <1>2, <1>4, <1>8, <2>1 DEF KeysOK, Beyond
<1>11. ChildrenOK(q, z, ids \cup {z}, o, v, w)
  <2>1. SUFFICES ASSUME ~p.leaf, NEW j \in 1 .. n - m + 1
                 PROVE  ChildOK(q, j, z, ids \cup {z}, o, v, w)
    <3>1. ~p.leaf => NumCells(q) + 1 = n - m + 1
      BY <1>1, <1>2, <1>3, <1>5
    <3>2. QED
      BY <1>2, <3>1 DEF ChildrenOK
  <2>2. ChildAt(q, j) = ChildAt(p, m + j) /\ Share(q, o[z], j) = Share(p, own[x], m + j)
    <3>1. IsRight(p, q, m + 1)
      BY <1>5, <2>1 DEF a
    <3>2. QED
      BY <1>1, <1>2, <1>4, <2>1, <3>1, RightShares DEF n
  <2>3. m + j \in 1 .. n + 1
    BY <1>1, <1>3
  <2>4. ChildOK(p, m + j, x, ids, own, lev, own)
    BY <1>1, <2>1, <2>3 DEF PageOK, ChildrenOK, n
  <2>5. ChildAt(p, m + j) \in ids
    BY <2>4 DEF ChildOK
  <2>6. /\ v[ChildAt(p, m + j)] = lev[ChildAt(p, m + j)]
        /\ w[ChildAt(p, m + j)] = own[ChildAt(p, m + j)]
    BY <1>1, <2>5 DEF HalvedSpread
  <2>7. QED
    BY <1>4, <2>2, <2>4, <2>5, <2>6 DEF ChildOK
<1>12. LeafOK(q, o[z], want)
  <2>1. SUFFICES ASSUME p.leaf, NEW k \in o[z] \cap Keys, want[k] # Nil
                 PROVE  \E j \in 1 .. n - a + 1 : q.cells[j].key = k
    BY <1>2 DEF LeafOK
  <2>2. k \in own[x] /\ After(s, k)
    BY <1>4 DEF Beyond
  <2>3. PICK i \in 1 .. n : p.cells[i].key = k
    BY <1>1, <2>1, <2>2 DEF PageOK, LeafOK, n
  <2>4. a <= i
    <3>1. CASE CopyUpLeaves
      <4>1. a = m
        BY <1>5, <2>1, <3>1
      <4>2. ~(k < s)
        BY <1>3, <1>4, <2>2, <2>3 DEF After
      <4>3. QED
        BY <1>1, <1>9, <2>3, <4>1, <4>2
    <3>2. CASE ~CopyUpLeaves
      <4>1. a = m + 1
        BY <1>5, <3>2
      <4>2. s < k
        BY <2>2, <3>2 DEF After
      <4>3. i > m
        BY <1>3, <1>4, <1>9, <2>3, <4>2
      <4>4. QED
        BY <1>1, <4>1, <4>3
    <3>3. QED
      BY <3>1, <3>2
  <2>5. i - a + 1 \in 1 .. n - a + 1 /\ a + (i - a + 1) - 1 = i
    BY <1>3, <1>5, <2>4
  <2>6. QED
    BY <1>2, <2>3, <2>5
<1>13. RoomOK(q, o[z])
  <2>1. SUFFICES ASSUME CopyUpLeaves
                 PROVE  s \in o[z] /\ (q.leaf => NumCells(q) # 0)
    BY DEF RoomOK
  <2>2. s \in o[z]
    BY <1>4, <2>1 DEF Beyond, After
  <2>3. q.leaf => NumCells(q) # 0
    BY <1>1, <1>2, <1>3, <1>5, <2>1
  <2>4. QED
    BY <2>2, <2>3
<1>14. NextOK(q, z, ids \cup {z}, o, v)
  <2> DEFINE d == Beyond(own[x], s)
             last == \A k \in Int : ~Past(own[x], k)
             y    == p.next
  <2>1. SUFFICES ASSUME CopyUpLeaves, p.leaf
                 PROVE  /\ Convex(d)
                        /\ \/ y = InvalidPage /\ \A k \in Int : ~Past(d, k)
                           \/ /\ y \in ids \cup {z} /\ v[y] = 0
                              /\ Adjoin(d, o[y])
    BY <1>2, <1>4 DEF NextOK
  <2>2. /\ Convex(own[x])
        /\ \/ y = InvalidPage /\ last
           \/ y \in ids /\ lev[y] = 0 /\ Adjoin(own[x], own[y])
    BY <1>1, <2>1 DEF PageOK, NextOK
  <2>3. Convex(d) /\ \A k \in Int : Past(d, k) => Past(own[x], k)
    BY <1>4, <2>1, <2>2, CutConvex
  <2>4. CASE y = InvalidPage /\ last
    BY <2>3, <2>4
  <2>5. CASE y \in ids /\ lev[y] = 0 /\ Adjoin(own[x], own[y])
    <3>1. y # x
      <4>1. s < s => FALSE
        BY <1>4
      <4>2. QED
        BY <1>4, <2>5, <4>1 DEF Adjoin
    <3>2. y \in ids \cup {z} /\ v[y] = 0 /\ o[y] = own[y]
      BY <1>1, <2>5, <3>1 DEF HalvedSpread
    <3>3. d \subseteq own[x]
      BY DEF Beyond
    <3> HIDE DEF d
    <3>4. Adjoin(d, own[y])
      BY <2>3, <2>5, <3>3 DEF Adjoin
    <3>5. QED
      BY <2>3, <3>2, <3>4
  <2>6. QED
    BY <2>2, <2>4, <2>5
<1>15. QED
  BY <1>2, <1>7, <1>8, <1>10, <1>11, <1>12, <1>13, <1>14 DEF PageOK

(* The page split in two: what is wanted is still stored where a search     *)
(* finds it once the separator is in place.                                 *)
LEMMA HalveSound ==
  ASSUME NEW H, NEW ids, NEW r, NEW own, NEW lev, NEW want, NEW x, NEW z,
         Halving(H, ids, r, own, lev, want, x, z),
         NEW nl, NEW nr, nl \in Int, nr \in Int,
         CopyUpLeaves /\ H[x].leaf => nl = z /\ nr = H[x].next,
         NEW G, G[x] = LeftHalf(H[x], nl), G[z] = RightHalf(H[x], nr),
         \A y \in ids : y # x => G[y] = H[y]
  PROVE  Splitting(G, ids \cup {z}, r, OwnHalved(own, ids, x, z, MidKey(H[x])),
                   LevHalved(lev, ids, x, z), want, x, z,
                   MidKey(H[x]), MidVal(H[x]))
<1> DEFINE p == H[x]
           m == Promoted(p.cells)
           s == MidKey(H[x])
           o == OwnHalved(own, ids, x, z, s)
           v == LevHalved(lev, ids, x, z)
           w == Whole(o, x, s, z)
<1>1. /\ Spread(ids, r, own, lev, own)
      /\ \A y \in ids : PageOK(H[y], y, ids, own, lev, own, want)
      /\ x \in ids /\ z \notin ids /\ m \in 1 .. NumCells(p)
      /\ CopyUpLeaves /\ p.leaf /\ m = 1 => NoLeast(own[x])
  BY DEF Halving, Valid
<1>2. HalvedSpread(ids, own, lev, x, z, s, o, v, w) /\ s \in Keys
  BY HalvedSpreads
<1>3. s = p.cells[m].key
  BY DEF MidKey
<1>4. IsPage(p) /\ Increasing(p)
  BY <1>1 DEF PageOK
<1> HIDE DEF w, v, o, s, m, p
<1>5. Dealt(ids, own, lev, want, x, z, p, m, s, o, v, w)
  <2>1. PageOK(p, x, ids, own, lev, own, want)
    BY <1>1 DEF p
  <2>2. \A y \in ids : CopyUpLeaves => own[y] # {}
    BY <1>1 DEF PageOK, RoomOK
  <2>3. QED
    BY <1>1, <1>2, <1>3, <2>1, <2>2 DEF Dealt
<1>6. /\ IsLeft(p, G[x], m) /\ G[x].next = nl
      /\ IsRight(p, G[z], RightStart(p.leaf, m)) /\ G[z].next = nr
  <2>1. NumCells(p) >= 1
    BY <1>1, <1>4, CellsOfPage
  <2>2. QED
    BY <1>4, <2>1, HalvesElements DEF p, m
<1>7. PageOK(G[x], x, ids \cup {z}, o, v, w, want)
  <2>1. CopyUpLeaves /\ p.leaf => G[x].next = z
    BY <1>6 DEF p
  <2>2. QED
    BY <1>1, <1>5, <1>6, <2>1, LeftOK
<1>8. PageOK(G[z], z, ids \cup {z}, o, v, w, want)
  <2>1. CopyUpLeaves /\ p.leaf => G[z].next = p.next
    BY <1>6 DEF p
  <2>2. QED
    BY <1>5, <1>6, <2>1, RightOK
<1>9. \A y \in ids : y # x => PageOK(G[y], y, ids \cup {z}, o, v, w, want)
  <2>1. CopyUpLeaves => o[x] # {}
    BY <1>7 DEF PageOK, RoomOK
  <2>2. QED
    BY <1>1, <1>2, <2>1, HalvedOthers
<1>10. \A a, b \in ids \cup {z} : a # b /\ v[a] = v[b] => o[a] \cap o[b] = {}
  <2>1. \A a, b \in ids : a # b /\ lev[a] = lev[b] => own[a] \cap own[b] = {}
    BY <1>1 DEF Spread
  <2>2. \A a, b \in ids : a # b /\ v[a] = v[b] => o[a] \cap o[b] = {}
    <3>1. SUFFICES ASSUME NEW a \in ids, NEW b \in ids, a # b, v[a] = v[b]
                   PROVE  o[a] \cap o[b] = {}
      OBVIOUS
    <3>2. lev[a] = lev[b] /\ o[a] \subseteq own[a] /\ o[b] \subseteq own[b]
      BY <1>2, <3>1 DEF HalvedSpread
    <3>3. own[a] \cap own[b] = {}
      BY <2>1, <3>1, <3>2
    <3>4. QED
      BY <3>2, <3>3
  <2>3. \A b \in ids : v[z] = v[b] => o[z] \cap o[b] = {}
    <3>1. SUFFICES ASSUME NEW b \in ids, v[z] = v[b]
                   PROVE  o[z] \cap o[b] = {}
      OBVIOUS
    <3>2. CASE b = x
      <4>1. /\ o[b] = Below(own[x], s) /\ o[z] = Beyond(own[x], s)
            /\ own[x] \subseteq Int /\ s \in Int
        BY <1>2, <3>2 DEF HalvedSpread
      <4>2. QED
        BY <4>1 DEF Below, Beyond, After
    <3>3. CASE b # x
      <4>1. /\ lev[b] = lev[x] /\ o[z] = Beyond(own[x], s) /\ o[b] = own[b]
        BY <1>2, <3>1, <3>3 DEF HalvedSpread
      <4>2. own[x] \cap own[b] = {}
        BY <1>1, <2>1, <3>3, <4>1
      <4>3. QED
        BY <4>1, <4>2 DEF Beyond
    <3>4. QED
      BY <3>2, <3>3
  <2>4. QED
    BY <2>2, <2>3
<1>11. Spread(ids \cup {z}, r, o, v, w)
  <2>1. r \in ids /\ own[r] = Int /\ \A y \in ids : lev[y] <= lev[r]
    BY <1>1 DEF Spread
  <2>2. /\ o \in [ids \cup {z} -> SUBSET Int] /\ v \in [ids \cup {z} -> Nat]
        /\ w \in [ids \cup {z} -> SUBSET Int]
        /\ w[r] = Int /\ \A y \in ids \cup {z} : v[y] <= v[r]
    BY <1>2, <2>1 DEF HalvedSpread
  <2>3. QED
    BY <1>10, <2>1, <2>2 DEF Spread
<1>12. Valid(G, ids \cup {z}, r, o, v, w, want)
  BY <1>7, <1>8, <1>9, <1>11 DEF Valid
<1>13. Halved(ids \cup {z}, o, v, want, x, z, s, MidVal(H[x]))
  <2>1. /\ x \in ids /\ x # z /\ v[z] = v[x] /\ s \in Int /\ s \in own[x]
        /\ o[x] = Below(own[x], s) /\ o[z] = Beyond(own[x], s)
    BY <1>2 DEF HalvedSpread
  <2>2. /\ \A k \in o[x] : k < s
        /\ \A k \in o[z] : After(s, k)
        /\ CopyUpLeaves => s \in o[z]
    BY <2>1 DEF Below, Beyond, After
  <2>3. ASSUME ~CopyUpLeaves
        PROVE  MidVal(H[x]) = want[s] /\ MidVal(H[x]) # Nil
    <3>1. MidVal(H[x]) = p.cells[m].val
      BY <2>3 DEF MidVal, p, m
    <3>2. PageOK(p, x, ids, own, lev, own, want)
      BY <1>1 DEF p
    <3>3. p.cells[m].val = want[p.cells[m].key] /\ p.cells[m].val # Nil
      BY <1>1, <2>3, <3>2 DEF PageOK, ValuesOK
    <3>4. QED
      BY <1>3, <3>1, <3>3
  <2>4. ASSUME ~CopyUpLeaves
        PROVE  Topmost(s, v[x] + 1, ids \cup {z}, o, v)
    <3>1. Topmost(s, lev[x], ids, own, lev)
      <4>1. PageOK(p, x, ids, own, lev, own, want)
        BY <1>1 DEF p
      <4>2. QED
        BY <1>1, <1>3, <2>4, <4>1 DEF PageOK, OnceOK
    <3>2. Topmost(s, lev[x], ids \cup {z}, o, v)
      BY <1>2, <3>1, StillTopmost
    <3>3. SUFFICES ASSUME NEW y \in ids \cup {z}, v[y] < v[x] + 1, s \in o[y]
                   PROVE  FALSE
      BY DEF Topmost
    <3>4. v[y] \in Nat /\ v[x] \in Nat /\ v[x] = lev[x]
      BY <1>2, <2>1 DEF HalvedSpread
    <3>5. v[y] = v[x]
      <4>1. ~(v[y] < lev[x])
        BY <3>2, <3>3 DEF Topmost
      <4>2. QED
        BY <3>3, <3>4, <4>1
    <3>6. y # x
      BY <2>1, <3>3 DEF Below
    <3>7. y # z
      BY <2>1, <2>4, <3>3 DEF Beyond, After
    <3>8. y \in ids /\ lev[y] = lev[x] /\ o[y] = own[y]
      BY <1>2, <3>4, <3>5, <3>6, <3>7 DEF HalvedSpread
    <3>9. own[x] \cap own[y] = {}
      BY <1>1, <3>6, <3>8 DEF Spread
    <3>10. QED
      BY <2>1, <3>3, <3>8, <3>9
  <2>5. QED
    BY <1>2, <2>1, <2>2, <2>3, <2>4 DEF Halved
<1>14. QED
  BY <1>12, <1>13 DEF Splitting, o, v, w, s
-----------------------------------------------------------------------------
(* A new root z over the halves of the old one.                             *)
OwnRooted(own, ids, z) == [y \in ids \cup {z} |-> IF y = z THEN Int ELSE own[y]]

(* The new root is one level above the old one.                             *)
LevRooted(lev, ids, r, z) ==
  [y \in ids \cup {z} |-> IF y = z THEN lev[r] + 1 ELSE lev[y]]

(* The new root over the halves r and rt of the old one.                    *)
RootPage(r, s, sv, rt) ==
  NewPage(FALSE, <<[key |-> s, val |-> sv, lc |-> r]>>, rt, InvalidPage)

(* The cells and children of a new root.                                    *)
LEMMA RootPageCells ==
  ASSUME NEW r \in Nat, NEW rt \in Nat, NEW s \in Int, NEW sv \in Values \cup {Nil},
         NEW p, p = RootPage(r, s, sv, rt)
  PROVE  /\ IsPage(p) /\ ~p.leaf /\ NumCells(p) = 1
         /\ p.cells[1].key = s /\ p.cells[1].val = sv
         /\ ChildAt(p, 1) = r /\ ChildAt(p, 2) = rt
<1> DEFINE c == [key |-> s, val |-> sv, lc |-> r]
<1>1. c \in Cell /\ c.key = s /\ c.val = sv /\ c.lc = r
  BY DEF Cell
<1>2. p = NewPage(FALSE, <<c>>, rt, InvalidPage)
  BY DEF RootPage
<1> HIDE DEF c
<1>3. <<c>> \in Seq(Cell) /\ Len(<<c>>) = 1 /\ <<c>>[1] = c
  BY <1>1
<1>4. InvalidPage \in Int
  BY DEF InvalidPage
<1>5. IsPage(p) /\ ~p.leaf /\ p.cells = <<c>> /\ p.rightmost = rt
  <2> DEFINE t == <<c>>
  <2>1. t \in Seq(Cell) /\ p = NewPage(FALSE, t, rt, InvalidPage)
    BY <1>2, <1>3
  <2> HIDE DEF t
  <2>2. IsPage(p)
    BY <1>4, <2>1, FieldsMakePage DEF NewPage
  <2>3. ~p.leaf /\ p.cells = t /\ p.rightmost = rt
    BY <2>1 DEF NewPage
  <2>4. QED
    BY <2>2, <2>3 DEF t
<1>6. NumCells(p) = 1 /\ p.cells[1] = c
  BY <1>3, <1>5 DEF NumCells
<1>7. QED
  BY <1>1, <1>5, <1>6 DEF ChildAt

(* The old root is split, and p is to be the new root z.                    *)
Rooting(H, ids, r, own, lev, want, rt, s, sv, z, p) ==
  /\ Splitting(H, ids, r, own, lev, want, r, rt, s, sv)
  /\ ids \subseteq Nat /\ z \notin ids
  /\ sv \in Values \cup {Nil} /\ p = RootPage(r, s, sv, rt)

(* The new table: the new root is for all keys, above all other pages.      *)
Rooted(ids, own, lev, r, z, o, v) ==
  /\ r \in ids /\ z \notin ids /\ lev[r] \in Nat
  /\ own \in [ids -> SUBSET Int] /\ lev \in [ids -> Nat]
  /\ o \in [ids \cup {z} -> SUBSET Int] /\ v \in [ids \cup {z} -> Nat]
  /\ o[z] = Int /\ v[z] = lev[r] + 1
  /\ \A y \in ids : o[y] = own[y] /\ v[y] = lev[y]
  /\ \A y \in ids : lev[y] \in Nat /\ lev[y] <= lev[r]

(* The new table is one.                                                    *)
LEMMA RootedTable ==
  ASSUME NEW H, NEW ids, NEW r, NEW own, NEW lev, NEW want, NEW rt, NEW s, NEW sv,
         NEW z, NEW p, Rooting(H, ids, r, own, lev, want, rt, s, sv, z, p)
  PROVE  Rooted(ids, own, lev, r, z, OwnRooted(own, ids, z), LevRooted(lev, ids, r, z))
<1>1. /\ own \in [ids -> SUBSET Int] /\ lev \in [ids -> Nat]
      /\ r \in ids /\ z \notin ids
      /\ \A y \in ids : lev[y] <= lev[r]
  BY DEF Rooting, Splitting, Valid, Spread
<1>2. /\ OwnRooted(own, ids, z) \in [ids \cup {z} -> SUBSET Int]
      /\ OwnRooted(own, ids, z)[z] = Int
      /\ \A y \in ids : OwnRooted(own, ids, z)[y] = own[y]
  BY <1>1 DEF OwnRooted
<1>3. /\ LevRooted(lev, ids, r, z) \in [ids \cup {z} -> Nat]
      /\ LevRooted(lev, ids, r, z)[z] = lev[r] + 1
      /\ \A y \in ids : LevRooted(lev, ids, r, z)[y] = lev[y]
  BY <1>1 DEF LevRooted
<1>4. QED
  BY <1>1, <1>2, <1>3 DEF Rooted

(* The new root is above every page that was there.                         *)
LEMMA RootedTopmost ==
  ASSUME NEW ids, NEW own, NEW lev, NEW r, NEW z, NEW o, NEW v,
         Rooted(ids, own, lev, r, z, o, v),
         NEW k, NEW n \in Nat, n <= lev[r] + 1, Topmost(k, n, ids, own, lev)
  PROVE  Topmost(k, n, ids \cup {z}, o, v)
<1>1. SUFFICES ASSUME NEW y \in ids \cup {z}, v[y] < n
               PROVE  k \notin o[y]
  BY DEF Topmost
<1>2. y # z
  BY <1>1 DEF Rooted
<1>3. y \in ids /\ lev[y] < n /\ o[y] = own[y]
  BY <1>1, <1>2 DEF Rooted
<1>4. QED
  BY <1>3 DEF Topmost

(* The pages below the new root are as they should be.                      *)
LEMMA RootedOthers ==
  ASSUME NEW H, NEW ids, NEW r, NEW own, NEW lev, NEW want, NEW rt, NEW s, NEW sv,
         NEW z, NEW p, Rooting(H, ids, r, own, lev, want, rt, s, sv, z, p),
         NEW o, NEW v, Rooted(ids, own, lev, r, z, o, v), NEW y \in ids
  PROVE  PageOK(H[y], y, ids \cup {z}, o, v, o, want)
<1> DEFINE w == Whole(own, r, s, rt)
<1>1. /\ PageOK(H[y], y, ids, own, lev, w, want)
      /\ own \in [ids -> SUBSET Int]
  BY DEF Rooting, Splitting, Valid, Spread
<1>2. \A x \in ids : x # r => w[x] = own[x]
  BY <1>1 DEF Whole
<1> HIDE DEF w
<1>3. o[y] = own[y] /\ v[y] = lev[y] /\ lev[y] \in Nat /\ lev[y] <= lev[r]
      /\ lev[r] \in Nat
  BY DEF Rooted
<1>4. ChildrenOK(H[y], y, ids \cup {z}, o, v, o)
  <2>1. SUFFICES ASSUME ~H[y].leaf, NEW j \in 1 .. NumCells(H[y]) + 1
                 PROVE  ChildOK(H[y], j, y, ids \cup {z}, o, v, o)
    BY DEF ChildrenOK
  <2> DEFINE c == ChildAt(H[y], j)
  <2>2. ChildOK(H[y], j, y, ids, own, lev, w)
    BY <1>1, <2>1 DEF PageOK, ChildrenOK
  <2>3. c \in ids /\ lev[y] = lev[c] + 1 /\ w[c] = Share(H[y], own[y], j)
    BY <2>2 DEF ChildOK
  <2>4. o[c] = own[c] /\ v[c] = lev[c] /\ lev[c] \in Nat
    BY <2>3 DEF Rooted
  <2>5. c # r
    BY <1>3, <2>3, <2>4
  <2>6. QED
    BY <1>2, <1>3, <2>3, <2>4, <2>5 DEF ChildOK
<1>5. OnceOK(H[y], y, ids \cup {z}, o, v)
  <2>1. SUFFICES ASSUME ~CopyUpLeaves, NEW i \in 1 .. NumCells(H[y])
                 PROVE  Topmost(H[y].cells[i].key, lev[y], ids \cup {z}, o, v)
    BY <1>3 DEF OnceOK
  <2>2. Topmost(H[y].cells[i].key, lev[y], ids, own, lev)
    BY <1>1, <2>1 DEF PageOK, OnceOK
  <2>3. lev[y] <= lev[r] + 1
    BY <1>3
  <2>4. QED
    BY <1>3, <2>2, <2>3, RootedTopmost
<1>6. NextOK(H[y], y, ids \cup {z}, o, v)
  BY <1>1, <1>3 DEF PageOK, NextOK, Rooted
<1>7. KindOK(H[y], y, v)
  BY <1>1, <1>3 DEF PageOK, KindOK
<1>8. QED
  BY <1>1, <1>3, <1>4, <1>5, <1>6, <1>7 DEF PageOK

(* The new root is as it should be.                                         *)
LEMMA RootedRoot ==
  ASSUME NEW H, NEW ids, NEW r, NEW own, NEW lev, NEW want, NEW rt, NEW s, NEW sv,
         NEW z, NEW p, Rooting(H, ids, r, own, lev, want, rt, s, sv, z, p),
         NEW o, NEW v, Rooted(ids, own, lev, r, z, o, v)
  PROVE  PageOK(p, z, ids \cup {z}, o, v, o, want)
<1> DEFINE w == Whole(own, r, s, rt)
<1>1. /\ own \in [ids -> SUBSET Int] /\ r \in ids /\ w[r] = Int
      /\ Halved(ids, own, lev, want, r, rt, s, sv)
  BY DEF Rooting, Splitting, Valid, Spread
<1>2. /\ rt \in ids /\ s \in Keys /\ s \in Int /\ lev[rt] = lev[r]
      /\ \A k \in own[r] : k < s
      /\ \A k \in own[rt] : After(s, k)
      /\ CopyUpLeaves => s \in own[rt]
  BY <1>1 DEF Halved
<1>3. own[r] \cup {s} \cup own[rt] = Int
  BY <1>1 DEF Whole
<1>4. /\ r \in Nat /\ rt \in Nat /\ sv \in Values \cup {Nil}
      /\ p = RootPage(r, s, sv, rt)
  BY <1>1, <1>2 DEF Rooting
<1>5. /\ IsPage(p) /\ ~p.leaf /\ NumCells(p) = 1
      /\ p.cells[1].key = s /\ p.cells[1].val = sv
      /\ ChildAt(p, 1) = r /\ ChildAt(p, 2) = rt
  BY <1>2, <1>4, RootPageCells
<1>6. /\ o[z] = Int /\ v[z] = lev[r] + 1 /\ lev[r] \in Nat
      /\ o[r] = own[r] /\ v[r] = lev[r] /\ o[rt] = own[rt] /\ v[rt] = lev[r]
      /\ o \in [ids \cup {z} -> SUBSET Int]
  BY <1>2 DEF Rooted
<1>7. Share(p, Int, 1) = own[r] /\ Share(p, Int, 2) = own[rt]
  <2>1. /\ Share(p, Int, 1) = {k \in Int : k < s}
        /\ Share(p, Int, 2) = {k \in Int : After(s, k)}
    BY <1>5 DEF Share
  <2>2. /\ \A k \in Int : ~(k < s /\ After(s, k))
        /\ ~(s < s) /\ (After(s, s) <=> CopyUpLeaves)
    BY <1>2 DEF After
  <2>3. /\ {k \in Int : k < s} = own[r]
        /\ {k \in Int : After(s, k)} = own[rt]
    BY <1>1, <1>2, <1>3, <2>2
  <2>4. QED
    BY <2>1, <2>3
<1> HIDE DEF w
<1>8. ChildrenOK(p, z, ids \cup {z}, o, v, o)
  <2>1. \A j \in 1 .. NumCells(p) + 1 : j = 1 \/ j = 2
    BY <1>5
  <2>2. ChildOK(p, 1, z, ids \cup {z}, o, v, o)
    BY <1>1, <1>5, <1>6, <1>7 DEF ChildOK
  <2>3. ChildOK(p, 2, z, ids \cup {z}, o, v, o)
    BY <1>2, <1>5, <1>6, <1>7 DEF ChildOK
  <2>4. QED
    BY <2>1, <2>2, <2>3 DEF ChildrenOK
<1>9. Increasing(p) /\ KeysOK(p, o[z]) /\ KindOK(p, z, v)
  BY <1>2, <1>5, <1>6 DEF Increasing, KeysOK, KindOK
<1>10. ValuesOK(p, want)
  BY <1>1, <1>5 DEF ValuesOK, Halved
<1>11. OnceOK(p, z, ids \cup {z}, o, v)
  <2>1. SUFFICES ASSUME ~CopyUpLeaves
                 PROVE  Topmost(s, lev[r] + 1, ids \cup {z}, o, v)
    BY <1>5, <1>6 DEF OnceOK
  <2>2. Topmost(s, lev[r] + 1, ids, own, lev)
    BY <1>1, <2>1 DEF Halved
  <2>3. lev[r] + 1 \in Nat /\ lev[r] + 1 <= lev[r] + 1
    BY <1>6
  <2>4. QED
    BY <2>2, <2>3, RootedTopmost
<1>12. LeafOK(p, o[z], want) /\ RoomOK(p, o[z]) /\ NextOK(p, z, ids \cup {z}, o, v)
  BY <1>5, <1>6 DEF LeafOK, RoomOK, NextOK
<1>13. QED
  BY <1>5, <1>8, <1>9, <1>10, <1>11, <1>12 DEF PageOK

(* The old root split, and a new one set over its halves.                   *)
LEMMA RootSound ==
  ASSUME NEW H, NEW ids, NEW r, NEW own, NEW lev, NEW want, NEW rt, NEW s, NEW sv,
         NEW z, NEW p, Rooting(H, ids, r, own, lev, want, rt, s, sv, z, p),
         NEW G, G[z] = p, \A y \in ids : G[y] = H[y],
         NEW o, o = OwnRooted(own, ids, z), NEW v, v = LevRooted(lev, ids, r, z)
  PROVE  Valid(G, ids \cup {z}, z, o, v, o, want)
<1>1. Rooted(ids, own, lev, r, z, o, v)
  BY RootedTable
<1>2. PageOK(G[z], z, ids \cup {z}, o, v, o, want)
  BY <1>1, RootedRoot
<1>3. \A y \in ids : PageOK(G[y], y, ids \cup {z}, o, v, o, want)
  BY <1>1, RootedOthers
<1>4. \A a, b \in ids \cup {z} : a # b /\ v[a] = v[b] => o[a] \cap o[b] = {}
  <2>1. \A a, b \in ids : a # b /\ lev[a] = lev[b] => own[a] \cap own[b] = {}
    BY DEF Rooting, Splitting, Valid, Spread
  <2>2. \A a, b \in ids : a # b /\ v[a] = v[b] => o[a] \cap o[b] = {}
    BY <1>1, <2>1 DEF Rooted
  <2>3. \A b \in ids : v[z] # v[b]
    BY <1>1 DEF Rooted
  <2>4. QED
    BY <2>2, <2>3
<1>5. Spread(ids \cup {z}, z, o, v, o)
  <2>1. \A y \in ids \cup {z} : v[y] <= v[z]
    BY <1>1 DEF Rooted
  <2>2. QED
    BY <1>1, <1>4, <2>1 DEF Spread, Rooted
<1>6. QED
  BY <1>2, <1>3, <1>5 DEF Valid
-----------------------------------------------------------------------------
(* How many bytes a page has left is no matter of where its keys are.       *)
LEMMA ContentOK ==
  ASSUME NEW p, NEW x, NEW ids, NEW own, NEW lev, NEW whole, NEW want,
         PageOK(p, x, ids, own, lev, whole, want),
         NEW n, NEW q, q = [p EXCEPT !.content = @ - n]
  PROVE  PageOK(q, x, ids, own, lev, whole, want)
<1>1. IsPage(p)
  BY DEF PageOK
<1>2. /\ IsPage(q) /\ q.leaf = p.leaf /\ q.cells = p.cells
      /\ q.rightmost = p.rightmost /\ q.next = p.next
  BY <1>1, ContentKeepsPage
<1>3. NumCells(q) = NumCells(p) /\ \A i : ChildAt(q, i) = ChildAt(p, i)
  BY <1>2 DEF NumCells, ChildAt
<1>4. \A o, j : Share(q, o, j) = Share(p, o, j)
  BY <1>2, <1>3 DEF Share
<1>5. ChildrenOK(q, x, ids, own, lev, whole)
  <2>1. ChildrenOK(p, x, ids, own, lev, whole)
    BY DEF PageOK
  <2>2. QED
    BY <1>2, <1>3, <1>4, <2>1 DEF ChildrenOK, ChildOK
<1>6. KindOK(q, x, lev) /\ Increasing(q) /\ KeysOK(q, own[x])
  BY <1>2, <1>3 DEF PageOK, KindOK, Increasing, KeysOK
<1>7. ValuesOK(q, want) /\ LeafOK(q, own[x], want)
  BY <1>2, <1>3 DEF PageOK, ValuesOK, LeafOK
<1>8. OnceOK(q, x, ids, own, lev) /\ RoomOK(q, own[x]) /\ NextOK(q, x, ids, own, lev)
  BY <1>2, <1>3 DEF PageOK, OnceOK, RoomOK, NextOK
<1>9. QED
  BY <1>2, <1>5, <1>6, <1>7, <1>8 DEF PageOK

(* G has the pages of H, with n bytes less free on page x.                  *)
Filled(H, G, ids, x, n) ==
  /\ G[x] = [H[x] EXCEPT !.content = @ - n]
  /\ \A y \in ids : y # x => G[y] = H[y]

(* The free space of a page tells nothing of its keys.                      *)
LEMMA ContentSound ==
  ASSUME NEW H, NEW ids, NEW r, NEW own, NEW lev, NEW want,
         Valid(H, ids, r, own, lev, own, want),
         NEW x \in ids, NEW n, NEW G, Filled(H, G, ids, x, n)
  PROVE  Valid(G, ids, r, own, lev, own, want)
<1>1. /\ Spread(ids, r, own, lev, own)
      /\ \A y \in ids : PageOK(H[y], y, ids, own, lev, own, want)
  BY DEF Valid
<1>2. PageOK(G[x], x, ids, own, lev, own, want)
  BY <1>1, ContentOK DEF Filled
<1>3. QED
  BY <1>1, <1>2 DEF Valid, Filled
-----------------------------------------------------------------------------
(* What the running call should leave stored, from the moment its pair is on*)
(* a page.                                                                  *)
Pending  == pc \in {"writeRight", "insertSplit", "newRoot"}
(* The pair of the running Insert is on a page.                             *)
Inserted == Pending \/ pc \in {"writeHeader", "return"}
Want     == IF Inserted THEN Updated(contents, call.key, call.val) ELSE contents

(* The pages as they are once the right half of a split is written.         *)
Held == [id \in NodeIds |-> IF Awaited(id) THEN split.page ELSE file[id]]

(* The table explains the pages, a pending split included.                  *)
TreeSound(own, lev, left) ==
  IF Pending THEN Splitting(Held, NodeIds, root, own, lev, Want, left,
                            split.right, split.key, split.val)
  ELSE Valid(Held, NodeIds, root, own, lev, own, Want)

(* Which page was split: that of the frame about to return, a child of the  *)
(* page of the next frame, or the root.                                     *)
SplitAt(left) ==
  /\ pc = "writeRight" => left = Last(path)
  /\ pc = "insertSplit" => \E i : Above(Held, NodeIds, Last(path), i, left)
  /\ pc = "newRoot" => left = root

(* The frames lead down from the root, and to where the key is to go.       *)
Chain(own, lev) ==
  /\ pc \in {"insertRec", "writeRight", "insertSplit"} =>
       /\ path[1] = root
       /\ \A j \in 1 .. Len(path) - 1 :
            \E i : Above(Held, NodeIds, path[j], i, path[j + 1])
       /\ \A i, j \in 1 .. Len(path) : i < j => lev[path[j]] < lev[path[i]]
  /\ pc = "insertRec" => call.key \in own[Last(path)]

(* A search is on a page for its key, or past the leaf that would have it.  *)
Reading(own, lev) ==
  /\ pc \in {"get", "findLeaf"} =>
       \E x \in NodeIds : path = <<x>> /\ call.key \in own[x]
  /\ pc = "scan" =>
       \E x \in NodeIds : /\ path = <<x>> /\ lev[x] = 0
                          /\ call.key \in own[x] \/ contents[call.key] = Nil

(* The table explains the pages, the open frames and the search.            *)
Arranged(own, lev, left) ==
  /\ TreeSound(own, lev, left)
  /\ SplitAt(left)
  /\ Chain(own, lev)
  /\ Reading(own, lev)

(* The running call, and what is stored.                                    *)
CallOK ==
  /\ contents \in [Keys -> Values \cup {Nil}]
  /\ pc = "idle" => call = NoCall
  /\ pc \in {"insertRec", "writeRight", "insertSplit", "newRoot", "writeHeader",
             "return"} =>
       call.op = "insert" /\ call.key \in Keys /\ call.val \in Values
  /\ pc \in {"get", "findLeaf", "scan"} => call.op = "get" /\ call.key \in Keys
  /\ pc = "answer" => call.op = "answer"

(* The inductive invariant: some table of keys and levels explains the pages*)
(* and the running call.                                                    *)
MapInv ==
  /\ IInv /\ DOMAIN cached = {}
  /\ CallOK
  /\ pc # "corrupt" => \E own, lev, left : Arranged(own, lev, left)

(* The new value outgrew the old one, and dropping the old cell would take a*)
(* child of an internal page with it or leave a full leaf of a B+ tree empty*)
Ousts ==
  /\ pc = "insertRec" /\ KeyAt(TopPage, Pos) /\ ~Room
  /\ TopPage.leaf =>
       /\ CopyUpLeaves /\ NumCells(TopPage) = 1
       /\ ~HasRoom(Dropped(TopPage, Pos), CellSize(TopPage.leaf, call.val))
-----------------------------------------------------------------------------
(* In a new file the only page is for all keys.                             *)
LEMMA InitMaps ==
  ASSUME ~WritesMayFail, Init
  PROVE  MapInv
<1> DEFINE own == [x \in {2} |-> Int]
           lev == [x \in {2} |-> 0]
<1>1. IInv
  BY InitInv
<1>2. /\ NodeIds = {2} /\ DOMAIN cached = {} /\ pc = "idle" /\ root = 2
      /\ contents = [k \in Keys |-> Nil] /\ call = NoCall
  BY DEF Init, NodeIds
<1>3. Held[2] = EmptyLeaf
  BY <1>2 DEF Init, Held, Awaited
<1>4. CallOK
  BY <1>2 DEF CallOK
<1>5. Valid(Held, NodeIds, root, own, lev, own, Want)
  <2> DEFINE p == EmptyLeaf
  <2>1. /\ p.leaf /\ NumCells(p) = 0 /\ p.next = InvalidPage
        /\ IsPage(p) /\ NumCells(p) \in Nat
    BY EmptyPagesGood DEF GoodPage, EmptyLeaf, NewPage, NumCells
  <2>2. own[2] = Int /\ lev[2] = 0
    OBVIOUS
  <2>3. own \in [{2} -> SUBSET Int] /\ lev \in [{2} -> Nat]
    OBVIOUS
  <2>4. Want = contents
    BY <1>2 DEF Want, Inserted, Pending
  <2> HIDE DEF own, lev, p
  <2>5. Spread({2}, 2, own, lev, own)
    BY <2>2, <2>3 DEF Spread
  <2>6. \A i \in 1 .. NumCells(p) : FALSE
    BY <2>1
  <2>7. Increasing(p) /\ KindOK(p, 2, lev) /\ ChildrenOK(p, 2, {2}, own, lev, own)
    BY <2>1, <2>2, <2>6 DEF Increasing, KindOK, ChildrenOK
  <2>8. KeysOK(p, own[2]) /\ ValuesOK(p, Want) /\ OnceOK(p, 2, {2}, own, lev)
    BY <2>6 DEF KeysOK, ValuesOK, OnceOK
  <2>9. LeafOK(p, own[2], Want)
    BY <1>2, <2>4 DEF LeafOK
  <2>10. RoomOK(p, own[2])
    <3>1. NoLeast(Int)
      <4>1. \A k \in Int : k - 1 \in Int /\ k - 1 < k
        OBVIOUS
      <4>2. QED
        BY <4>1 DEF NoLeast
    <3>2. QED
      BY <2>2, <3>1 DEF RoomOK
  <2>11. NextOK(p, 2, {2}, own, lev)
    <3>1. own[2] = Int /\ p.next = InvalidPage
      BY <2>1, <2>2
    <3>2. Convex(Int) /\ \A k \in Int : ~Past(Int, k)
      BY DEF Convex, Past
    <3>3. QED
      BY <3>1, <3>2 DEF NextOK
  <2>12. PageOK(p, 2, {2}, own, lev, own, Want)
    BY <2>1, <2>7, <2>8, <2>9, <2>10, <2>11 DEF PageOK
  <2>13. QED
    BY <1>2, <1>3, <2>5, <2>12 DEF Valid, p
<1>6. Arranged(own, lev, 2)
  <2> HIDE DEF own, lev
  <2>1. QED
    BY <1>2, <1>5 DEF Arranged, TreeSound, Pending, SplitAt, Chain, Reading
<1> HIDE DEF own, lev
<1>7. QED
  BY <1>1, <1>2, <1>4, <1>6 DEF MapInv
-----------------------------------------------------------------------------
(* A step that changes no page, while no split is under way.                *)
LEMMA SameTree ==
  ASSUME UNCHANGED <<file, pageCount, root, split, contents>>,
         pc # "writeRight", pc' # "writeRight"
  PROVE  /\ NodeIds' = NodeIds
         /\ Held' = Held
<1>1. NodeIds' = NodeIds
  BY DEF NodeIds
<1>2. QED
  BY <1>1 DEF Held, Awaited

(* A page is on disk as the engine reads it.                                *)
LEMMA ReadHeld ==
  ASSUME MapInv, pc # "writeRight", NEW id \in NodeIds
  PROVE  PageOf(id) = file[id] /\ Held[id] = file[id]
BY DEF MapInv, PageOf, Held, Awaited

(* A page written when no more is to be done than to return.                *)
LEMMA HeldAfterWrite ==
  ASSUME MapInv, pc \in {"insertRec", "insertSplit"}, NEW id \in NodeIds, NEW p,
         WriteAndReturn(id, p)
  PROVE  /\ NodeIds' = NodeIds /\ root' = root
         /\ UNCHANGED <<call, contents>> /\ pc' \in {"return", "corrupt"}
         /\ DOMAIN cached' = {}
         /\ Held'[id] = p
         /\ \A y \in NodeIds : y # id => Held'[y] = Held[y]
<1>1. /\ file' = [file EXCEPT ![id] = p]
      /\ cached' = Without(cached, id)
      /\ pc' \in {"return", "corrupt"}
      /\ UNCHANGED <<pageCount, root, call, contents>>
  BY DEF WriteAndReturn, WriteNode, MapInv, IInv, Shape
<1>2. NodeIds' = NodeIds
  BY <1>1 DEF NodeIds
<1>3. DOMAIN cached' = {}
  BY <1>1 DEF Without, MapInv
<1>4. /\ file'[id] = p
      /\ \A y \in NodeIds : y # id => file'[y] = file[y]
  BY <1>1 DEF MapInv, IInv, Shape
<1>5. Held' = [y \in NodeIds |-> file'[y]]
  BY <1>1, <1>2 DEF Held, Awaited
<1>6. \A y \in NodeIds : Held[y] = file[y]
  BY ReadHeld
<1>7. QED
  BY <1>1, <1>2, <1>3, <1>4, <1>5, <1>6

(* A page with the pair is written, and the call is about to return.        *)
LEMMA WriteAndReturnMaps ==
  ASSUME MapInv, IInv', pc \in {"insertRec", "insertSplit"}, NEW id \in NodeIds,
         NEW p, WriteAndReturn(id, p), NEW own, NEW lev,
         Valid(Held', NodeIds, root, own, lev, own,
               Updated(contents, call.key, call.val))
  PROVE  MapInv'
<1>1. /\ NodeIds' = NodeIds /\ root' = root
      /\ UNCHANGED <<call, contents>> /\ pc' \in {"return", "corrupt"}
      /\ DOMAIN cached' = {}
  BY HeldAfterWrite
<1>2. CallOK'
  BY <1>1 DEF MapInv, CallOK
<1>3. SUFFICES ASSUME pc' = "return"
               PROVE  Arranged(own, lev, 0)'
  BY <1>1, <1>2 DEF MapInv
<1>4. Want' = Updated(contents, call.key, call.val)
  BY <1>1, <1>3 DEF Want, Inserted
<1>5. TreeSound(own, lev, 0)'
  BY <1>1, <1>3, <1>4 DEF TreeSound, Pending
<1>6. QED
  BY <1>3, <1>5 DEF Arranged, SplitAt, Chain, Reading

(* What splitNode leaves behind before its second write.                    *)
LEMMA HeldAfterSplit ==
  ASSUME MapInv, pc \in {"insertRec", "insertSplit"}, NEW id \in NodeIds,
         NEW p, NEW i, NEW key, NEW val, NEW rc,
         SplitNode(id, p, i, key, val, rc), pc' # "corrupt",
         NEW q, q = WithCell(p, i, key, val, rc), q.leaf = p.leaf,
         NEW next, next = LinkLeaves(p.leaf, pageCount, p.next)
  PROVE  /\ NodeIds' = NodeIds \cup {pageCount} /\ pageCount \notin NodeIds
         /\ UNCHANGED <<root, path, call, contents>> /\ pc' = "writeRight"
         /\ DOMAIN cached' = {}
         /\ split'.key = MidKey(q) /\ split'.val = MidVal(q)
         /\ split'.right = pageCount
         /\ Held'[id] = LeftHalf(q, next.left)
         /\ Held'[pageCount] = RightHalf(q, next.right)
         /\ \A y \in NodeIds : y # id => Held'[y] = Held[y]
<1> DEFINE all   == q.cells
           mid   == Promoted(all)
           left  == NewPage(p.leaf, SubSeq(all, 1, mid - 1),
                            IF p.leaf THEN 0 ELSE all[mid].lc, next.left)
           right == NewPage(p.leaf,
                            SubSeq(all, RightStart(p.leaf, mid), Len(all)),
                            IF p.leaf THEN 0 ELSE q.rightmost, next.right)
<1>1. /\ WriteNode(Extended, id, left)
      /\ pageCount' = pageCount + 1
      /\ split' = [key |-> all[mid].key,
                   val |-> IF p.leaf /\ CopyUpLeaves THEN Nil ELSE all[mid].val,
                   right |-> pageCount, page |-> right]
      /\ pc' = IF Fits(left) /\ Fits(right) THEN "writeRight" ELSE "corrupt"
      /\ UNCHANGED <<root, path, call, contents>>
  BY DEF SplitNode, LeftCells, Allocate
<1>2. left = LeftHalf(q, next.left) /\ right = RightHalf(q, next.right)
  BY DEF LeftHalf, RightHalf
<1>3. /\ split'.key = MidKey(q) /\ split'.val = MidVal(q)
      /\ split'.right = pageCount /\ split'.page = right
  BY <1>1 DEF MidKey, MidVal
<1> HIDE DEF left, right, mid, all
<1>4. pc' = "writeRight"
  BY <1>1
<1>5. file' = [Extended EXCEPT ![id] = left] /\ cached' = Without(cached, id)
  BY <1>1 DEF WriteNode, MapInv, IInv, Shape
<1>6. Extended = [x \in NodeIds \cup {pageCount} |->
                    IF x = pageCount THEN BlankPage ELSE file[x]]
  BY DEF Extended, With, MapInv, IInv, Shape
<1>7. NodeIds' = NodeIds \cup {pageCount} /\ pageCount \notin NodeIds
  BY <1>1 DEF NodeIds, MapInv, IInv, Shape
<1>8. /\ file'[id] = left
      /\ \A y \in NodeIds : y # id => file'[y] = file[y]
  BY <1>5, <1>6, <1>7
<1>9. Held' = [y \in NodeIds \cup {pageCount} |->
                 IF y = pageCount THEN right ELSE file'[y]]
  BY <1>3, <1>4, <1>7 DEF Held, Awaited
<1>10. DOMAIN cached' = {}
  BY <1>5 DEF Without, MapInv
<1>11. \A y \in NodeIds : Held[y] = file[y]
  BY ReadHeld
<1>12. QED
  BY <1>1, <1>2, <1>3, <1>4, <1>7, <1>8, <1>9, <1>10, <1>11

(* The frames above do not see the split of the page of the last one.       *)
LEMMA ChainAfterSplit ==
  ASSUME MapInv, pc \in {"insertRec", "insertSplit"}, NEW id, id = Last(path),
         NEW own, NEW lev \in [NodeIds -> Nat], Chain(own, lev), path' = path, root' = root,
         NodeIds' = NodeIds \cup {pageCount}, pc' = "writeRight",
         \A y \in NodeIds : y # id => Held'[y] = Held[y],
         NEW o, NEW v, \A y \in NodeIds : v[y] = lev[y]
  PROVE  Chain(o, v)'
<1>1. /\ path \in Seq(NodeIds) /\ path # << >> /\ Len(path) \in Nat
      /\ \A j \in 1 .. Len(path) : path[j] \in NodeIds
  BY DEF MapInv, IInv, FramesGood
<1>2. /\ path[1] = root
      /\ \A j \in 1 .. Len(path) - 1 :
           \E i : Above(Held, NodeIds, path[j], i, path[j + 1])
      /\ \A i, j \in 1 .. Len(path) : i < j => lev[path[j]] < lev[path[i]]
  BY DEF Chain
<1>3. Len(path) \in 1 .. Len(path) /\ id = path[Len(path)]
  BY <1>1 DEF Last
<1>4. ASSUME NEW j \in 1 .. Len(path) - 1
      PROVE  \E i : Above(Held', NodeIds', path[j], i, path[j + 1])
  <2>1. PICK i : Above(Held, NodeIds, path[j], i, path[j + 1])
    BY <1>2
  <2>2. j \in 1 .. Len(path) /\ j < Len(path)
    BY <1>1
  <2>3. lev[path[Len(path)]] < lev[path[j]]
    BY <1>2, <1>3, <2>2
  <2>4. path[j] \in NodeIds /\ lev[path[j]] \in Int
    BY <1>1, <2>2
  <2>5. path[j] # id
    BY <1>3, <2>3, <2>4
  <2>6. Held'[path[j]] = Held[path[j]]
    BY <2>4, <2>5
  <2>7. QED
    BY <2>1, <2>6 DEF Above
<1>5. \A i, j \in 1 .. Len(path) : i < j => v[path[j]] < v[path[i]]
  BY <1>1, <1>2
<1>6. QED
  BY <1>2, <1>4, <1>5 DEF Chain

(* A page with the pair is split, and the split is pending.                 *)
LEMMA SplitNodeMaps ==
  ASSUME MapInv, IInv', pc \in {"insertRec", "insertSplit"},
         NEW id \in NodeIds, id = Last(path),
         NEW p, NEW i, NEW key, NEW val, NEW rc,
         SplitNode(id, p, i, key, val, rc), pc' # "corrupt",
         NEW own, NEW lev, Chain(own, lev),
         NEW G, G[id] = WithCell(p, i, key, val, rc),
         \A y \in NodeIds : y # id => G[y] = Held[y],
         G[id].leaf = p.leaf, G[id].next = p.next, p.next \in Int,
         Halving(G, NodeIds, root, own, lev, Updated(contents, call.key, call.val),
                 id, pageCount)
  PROVE  MapInv'
<1> DEFINE q    == WithCell(p, i, key, val, rc)
           next == LinkLeaves(p.leaf, pageCount, p.next)
           want == Updated(contents, call.key, call.val)
<1> SUFFICES ASSUME NEW o, o = OwnHalved(own, NodeIds, id, pageCount, MidKey(q)),
                    NEW v, v = LevHalved(lev, NodeIds, id, pageCount)
             PROVE  MapInv'
  OBVIOUS
<1>1. /\ NodeIds' = NodeIds \cup {pageCount} /\ pageCount \notin NodeIds
      /\ UNCHANGED <<root, path, call, contents>> /\ pc' = "writeRight"
      /\ DOMAIN cached' = {}
      /\ split'.key = MidKey(q) /\ split'.val = MidVal(q)
      /\ split'.right = pageCount
      /\ Held'[id] = LeftHalf(q, next.left)
      /\ Held'[pageCount] = RightHalf(q, next.right)
      /\ \A y \in NodeIds : y # id => Held'[y] = Held[y]
  BY HeldAfterSplit
<1>2. /\ next.left \in Int /\ next.right \in Int
      /\ CopyUpLeaves /\ p.leaf => next.left = pageCount /\ next.right = p.next
  BY DEF LinkLeaves, InvalidPage, MapInv, IInv, Shape
<1>3. G[id] = q
  OBVIOUS
<1> HIDE DEF q, next, want
<1>4. Splitting(Held', NodeIds \cup {pageCount}, root, o, v, want, id, pageCount,
                MidKey(q), MidVal(q))
  <2> DEFINE nl == next.left
             nr == next.right
  <2>1. /\ Held'[id] = LeftHalf(G[id], nl) /\ Held'[pageCount] = RightHalf(G[id], nr)
        /\ \A y \in NodeIds : y # id => Held'[y] = G[y]
    BY <1>1, <1>3
  <2>2. /\ nl \in Int /\ nr \in Int
        /\ CopyUpLeaves /\ G[id].leaf => nl = pageCount /\ nr = G[id].next
    BY <1>2
  <2>3. Halving(G, NodeIds, root, own, lev, want, id, pageCount)
    BY DEF want
  <2> HIDE DEF nl, nr
  <2> DEFINE F == Held'
  <2> HIDE DEF F
  <2>4. Splitting(F, NodeIds \cup {pageCount}, root,
                  OwnHalved(own, NodeIds, id, pageCount, MidKey(G[id])),
                  LevHalved(lev, NodeIds, id, pageCount), want, id, pageCount,
                  MidKey(G[id]), MidVal(G[id]))
    BY <2>1, <2>2, <2>3, HalveSound, ZenonT(60) DEF F
  <2>5. QED
    BY <1>3, <2>4 DEF F
<1>5. lev \in [NodeIds -> Nat]
  BY DEF Halving, Valid, Spread
<1>6. \A y \in NodeIds : v[y] = lev[y]
  BY <1>1 DEF LevHalved
<1>7. Chain(o, v)'
  BY <1>1, <1>5, <1>6, ChainAfterSplit
<1>8. Want' = want
  BY <1>1 DEF Want, Inserted, Pending, want
<1>9. TreeSound(o, v, id)'
  BY <1>1, <1>4, <1>8 DEF TreeSound, Pending
<1>10. SplitAt(id)' /\ Reading(o, v)'
  BY <1>1 DEF SplitAt, Reading
<1>11. Arranged(o, v, id)'
  BY <1>7, <1>9, <1>10 DEF Arranged
<1>12. CallOK'
  BY <1>1 DEF MapInv, CallOK
<1>13. QED
  BY <1>1, <1>11, <1>12 DEF MapInv

(* What doInsert puts on the page of the frame on top: in G the cell is on  *)
(* the page already, whether it has room there or not.                      *)
Placing(G, id, q, own, lev) ==
  /\ id = Last(path) /\ id \in NodeIds
  /\ Chain(own, lev)
  /\ G[id] = q
  /\ \A y \in NodeIds : y # id => G[y] = Held[y]
  /\ Valid(G, NodeIds, root, own, lev, own, Updated(contents, call.key, call.val))
  /\ NumCells(q) >= 1

(* Whether the cell finds room or not, the pair is stored.                  *)
LEMMA DoInsertMaps ==
  ASSUME MapInv, IInv', pc \in {"insertRec", "insertSplit"},
         NEW G, NEW id, NEW q, NEW own, NEW lev, Placing(G, id, q, own, lev),
         NEW p, NEW i, NEW key, NEW val, NEW rc,
         DoInsert(id, p, i, key, val, rc), q = WithCell(p, i, key, val, rc),
         q.leaf = p.leaf, q.next = p.next, p.next \in Int,
         CopyUpLeaves /\ q.leaf /\ NumCells(q) = 1
         /\ ~HasRoom(p, CellSize(p.leaf, val)) => NoLeast(own[id])
  PROVE  MapInv'
<1> DEFINE want == Updated(contents, call.key, call.val)
           n    == CellSize(p.leaf, val)
<1>1. /\ id = Last(path) /\ id \in NodeIds /\ Chain(own, lev) /\ G[id] = q
      /\ \A y \in NodeIds : y # id => G[y] = Held[y]
      /\ Valid(G, NodeIds, root, own, lev, own, want)
      /\ NumCells(q) >= 1
  BY DEF Placing
<1> HIDE DEF want
<1>2. CASE WriteAndReturn(id, [q EXCEPT !.content = @ - n])
  <2> DEFINE w == [q EXCEPT !.content = @ - n]
  <2>1. w = [G[id] EXCEPT !.content = @ - n]
    BY <1>1
  <2> HIDE DEF w, n
  <2>2. /\ NodeIds' = NodeIds /\ root' = root
        /\ Held'[id] = w
        /\ \A y \in NodeIds : y # id => Held'[y] = Held[y]
    BY <1>1, <1>2, HeldAfterWrite DEF w
  <2> DEFINE F == Held'
  <2>3. Filled(G, F, NodeIds, id, n)
    BY <1>1, <2>1, <2>2 DEF Filled
  <2> HIDE DEF F
  <2>4. Valid(F, NodeIds, root, own, lev, own, want)
    BY <1>1, <2>3, ContentSound
  <2>5. QED
    BY <1>1, <1>2, <2>4, WriteAndReturnMaps DEF F, w, want
<1>3. CASE /\ SplitNode(id, p, i, key, val, rc)
           /\ ~HasRoom(p, CellSize(p.leaf, val))
  <2>1. CASE pc' = "corrupt"
    <3>1. DOMAIN cached' = {} /\ UNCHANGED <<call, contents>>
      <4>1. \E f, x : WriteNode(f, id, x) /\ UNCHANGED <<call, contents>>
        BY <1>3 DEF SplitNode
      <4>2. QED
        BY <4>1 DEF WriteNode, Without, MapInv, IInv, Shape
    <3>2. CallOK'
      BY <2>1, <3>1 DEF MapInv, CallOK
    <3>3. QED
      BY <2>1, <3>1, <3>2 DEF MapInv
  <2>2. CASE pc' # "corrupt"
    <3>1. IsPage(q) /\ Increasing(q)
      BY <1>1 DEF Valid, PageOK
    <3>2. /\ Promoted(q.cells) \in 1 .. NumCells(q)
          /\ NumCells(q) >= 2 => Promoted(q.cells) >= 2
      BY <1>1, <3>1, HalvesElements
    <3>3. NumCells(q) \in Nat
      BY <3>1, CellsOfPage
    <3>4. CopyUpLeaves /\ q.leaf /\ Promoted(q.cells) = 1 => NoLeast(own[id])
      <4>1. Promoted(q.cells) = 1 => NumCells(q) = 1
        BY <1>1, <3>2, <3>3
      <4>2. QED
        BY <1>3, <4>1
    <3>5. pageCount \notin NodeIds
      BY DEF NodeIds, MapInv, IInv, Shape
    <3>6. Halving(G, NodeIds, root, own, lev, want, id, pageCount)
      BY <1>1, <3>2, <3>4, <3>5 DEF Halving
    <3>7. QED
      BY <1>1, <1>3, <2>2, <3>6, SplitNodeMaps DEF want
  <2>3. QED
    BY <2>1, <2>2
<1>4. QED
  BY <1>2, <1>3 DEF DoInsert
-----------------------------------------------------------------------------
(* A page that has no key twice is in order; so is a leaf in order.         *)
LEMMA IncreasingOrdered ==
  ASSUME NEW p, IsPage(p)
  PROVE  /\ Increasing(p) => Ordered(p)
         /\ p.leaf /\ Ordered(p) => Increasing(p)
BY DEF Increasing, Ordered

(* A value overwritten in place.                                            *)
LEMMA OverwriteUpdates ==
  ASSUME NEW p, IsPage(p), Increasing(p), NEW i \in 1 .. NumCells(p),
         NEW k, k = p.cells[i].key, NEW v \in Values,
         NEW q, q = [p EXCEPT !.cells[i].val = v]
  PROVE  Updates(p, q, k, v)
<1>1. /\ IsPage(q) /\ q.leaf = p.leaf
      /\ NumCells(q) = NumCells(p)
      /\ \A j \in 1 .. NumCells(p) :
           /\ q.cells[j].key = p.cells[j].key
           /\ q.cells[j].val = IF j = i THEN v ELSE p.cells[j].val
           /\ q.cells[j].lc = p.cells[j].lc
      /\ q.rightmost = p.rightmost /\ q.next = p.next
  BY ValueKeepsPage
<1>2. NumCells(p) \in Nat /\ \A j \in 1 .. NumCells(p) : p.cells[j].key \in Int
  BY CellsOfPage
<1>3. Increasing(q)
  BY <1>1 DEF Increasing
<1>4. \A j \in 1 .. NumCells(p) : j # i => p.cells[j].key # k
  <2>1. ASSUME NEW j \in 1 .. NumCells(p), j # i
        PROVE  p.cells[j].key # k
    <3>1. j < i \/ i < j
      BY <1>2, <2>1
    <3>2. p.cells[j].key < p.cells[i].key \/ p.cells[i].key < p.cells[j].key
      BY <3>1 DEF Increasing
    <3>3. QED
      BY <1>2, <3>2
  <2>2. QED
    BY <2>1
<1>5. \A j \in 1 .. NumCells(q) :
        IF q.cells[j].key = k THEN q.cells[j].val = v
        ELSE \E n \in 1 .. NumCells(p) : /\ p.cells[n].key = q.cells[j].key
                                         /\ p.cells[n].val = q.cells[j].val
  BY <1>1, <1>4
<1>6. \A j \in 1 .. NumCells(p) + 1 : ChildAt(q, j) = ChildAt(p, j)
  <2>1. ASSUME NEW j \in 1 .. NumCells(p) + 1
        PROVE  ChildAt(q, j) = ChildAt(p, j)
    <3>1. j = NumCells(p) + 1 \/ j \in 1 .. NumCells(p)
      BY <1>2
    <3>2. QED
      BY <1>1, <3>1 DEF ChildAt
  <2>2. QED
    BY <2>1
<1>7. QED
  BY <1>1, <1>3, <1>5, <1>6 DEF Updates

(* Position i of the leaf p is where the search for k comes to.             *)
SpotOn(p, k, i) ==
  IsPage(p) /\ Increasing(p) /\ p.leaf /\ k \in Int /\ i = FindIdx(p, k, p.leaf)

(* The position is one of the leaf, or right behind its cells.              *)
LEMMA SpotOnLeaf ==
  ASSUME NEW p, NEW k, NEW i, SpotOn(p, k, i)
  PROVE  /\ IsPage(p) /\ Increasing(p) /\ p.leaf /\ k \in Int
         /\ NumCells(p) \in Nat /\ i \in 1 .. NumCells(p) + 1
<1> DEFINE leaf == p.leaf
<1>1. /\ IsPage(p) /\ Increasing(p) /\ leaf /\ k \in Int /\ leaf \in BOOLEAN
      /\ i = FindIdx(p, k, leaf)
  BY DEF SpotOn, IsPage
<1>2. NumCells(p) \in Nat
  BY <1>1, CellsOfPage
<1> HIDE DEF leaf
<1>3. i \in 1 .. NumCells(p) + 1
  BY <1>1, FindIdxIsBorder
<1>4. QED
  BY <1>1, <1>2, <1>3 DEF leaf

(* A new pair on a leaf.                                                    *)
LEMMA InsertUpdates ==
  ASSUME NEW p, NEW k, NEW i, SpotOn(p, k, i), ~KeyOn(p, i, k), NEW v \in Values,
         NEW q, q = WithCell(p, i, k, v, 0)
  PROVE  Updates(p, q, k, v) /\ NumCells(q) = NumCells(p) + 1
<1>0. /\ IsPage(p) /\ Increasing(p) /\ p.leaf /\ k \in Int
      /\ NumCells(p) \in Nat /\ i \in 1 .. NumCells(p) + 1
  BY SpotOnLeaf
<1>1. Between(p, i, k)
  <2>0. i = FindIdx(p, k, p.leaf)
    BY DEF SpotOn
  <2>1. Ordered(p)
    BY <1>0, IncreasingOrdered
  <2>2. p.leaf /\ i <= NumCells(p) => p.cells[i].key # k
    BY DEF KeyOn
  <2>3. QED
    BY <1>0, <2>0, <2>1, <2>2, FoundPositionFits
<1>2. Insertable(p, i, k, v, 0)
  BY <1>0 DEF Insertable
<1>3. NumCells(p) \in Nat /\ i \in 1 .. NumCells(p) + 1
  BY <1>0
<1>4. /\ IsPage(q) /\ q.leaf = p.leaf /\ NumCells(q) = NumCells(p) + 1
      /\ \A j \in 1 .. NumCells(p) + 1 :
           q.cells[j].key = IF j < i THEN p.cells[j].key
                            ELSE IF j = i THEN k ELSE p.cells[j - 1].key
      /\ \A j \in 1 .. NumCells(p) + 1 :
           q.cells[j].val = IF j < i THEN p.cells[j].val
                            ELSE IF j = i THEN v ELSE p.cells[j - 1].val
      /\ q.next = p.next
  BY <1>2, WithCellElements
<1>5. Ordered(q)
  <2>1. Ordered(p)
    BY <1>0, IncreasingOrdered
  <2>2. QED
    BY <1>0, <1>1, <2>1, WithCellOrdered
<1>6. Increasing(q)
  BY <1>0, <1>4, <1>5, IncreasingOrdered
<1>7. \A j \in 1 .. NumCells(p) : p.cells[j].key # k /\ p.cells[j].key \in Int
  <2>1. ASSUME NEW j \in 1 .. NumCells(p)
        PROVE  p.cells[j].key # k /\ p.cells[j].key \in Int
    <3>1. p.cells[j].key \in Int
      BY <1>0, CellsOfPage
    <3>2. j \in 1 .. i - 1 \/ j \in i .. NumCells(p)
      BY <1>3
    <3>3. p.cells[j].key < k \/ k < p.cells[j].key
      BY <1>0, <1>1, <3>2 DEF Between
    <3>4. QED
      BY <3>1, <3>3
  <2>2. QED
    BY <2>1
<1>8. ASSUME NEW j \in 1 .. NumCells(q)
      PROVE  IF q.cells[j].key = k THEN q.cells[j].val = v
             ELSE \E n \in 1 .. NumCells(p) : /\ p.cells[n].key = q.cells[j].key
                                              /\ p.cells[n].val = q.cells[j].val
  <2>1. CASE j < i
    <3>1. j \in 1 .. NumCells(p)
      BY <1>3, <1>4, <2>1
    <3>2. q.cells[j].key = p.cells[j].key /\ q.cells[j].val = p.cells[j].val
      BY <1>4, <2>1
    <3>3. QED
      BY <1>7, <3>1, <3>2
  <2>2. CASE j = i
    BY <1>3, <1>4, <2>2
  <2>3. CASE j > i
    <3>1. j - 1 \in 1 .. NumCells(p)
      BY <1>3, <1>4, <2>3
    <3>2. /\ q.cells[j].key = p.cells[j - 1].key
          /\ q.cells[j].val = p.cells[j - 1].val
      BY <1>3, <1>4, <2>3
    <3>3. QED
      BY <1>7, <3>1, <3>2
  <2>4. j < i \/ j = i \/ j > i
    BY <1>3
  <2>5. QED
    BY <2>1, <2>2, <2>3, <2>4
<1>9. i \in 1 .. NumCells(q) /\ q.cells[i].key = k
  BY <1>3, <1>4
<1>10. ASSUME NEW n \in 1 .. NumCells(p)
       PROVE  \E j \in 1 .. NumCells(q) : q.cells[j].key = p.cells[n].key
  <2>1. CASE n < i
    <3>1. n \in 1 .. NumCells(q) /\ q.cells[n].key = p.cells[n].key
      BY <1>3, <1>4, <2>1
    <3>2. QED
      BY <3>1
  <2>2. CASE n >= i
    <3>1. n + 1 \in 1 .. NumCells(p) + 1 /\ ~(n + 1 < i) /\ n + 1 # i
          /\ (n + 1) - 1 = n
      BY <1>3, <2>2
    <3>2. q.cells[n + 1].key = p.cells[n].key
      BY <1>4, <3>1
    <3>3. QED
      BY <1>4, <3>1, <3>2
  <2>3. n < i \/ n >= i
    BY <1>3
  <2>4. QED
    BY <2>1, <2>2, <2>3
<1>11. QED
  BY <1>0, <1>4, <1>6, <1>8, <1>9, <1>10 DEF Updates

(* A pair in the place of the dropped one.                                  *)
LEMMA ReplaceUpdates ==
  ASSUME NEW p, NEW k, NEW i, SpotOn(p, k, i), KeyOn(p, i, k), NEW v \in Values,
         NEW q, q = WithCell(DeleteCell(p, i), i, k, v, 0)
  PROVE  Updates(p, q, k, v) /\ NumCells(q) = NumCells(p)
<1> DEFINE d == DeleteCell(p, i)
<1>0. IsPage(p) /\ Increasing(p) /\ p.leaf /\ k \in Int
  BY SpotOnLeaf
<1>1. NumCells(p) \in Nat /\ i \in 1 .. NumCells(p) /\ p.cells[i].key = k
  <2>1. NumCells(p) \in Nat /\ i \in 1 .. NumCells(p) + 1
    BY SpotOnLeaf
  <2>2. QED
    BY <2>1 DEF KeyOn
<1>2. /\ IsPage(d) /\ d.leaf = p.leaf /\ NumCells(d) = NumCells(p) - 1
      /\ \A j \in 1 .. NumCells(d) :
           d.cells[j].key = IF j < i THEN p.cells[j].key ELSE p.cells[j + 1].key
      /\ \A j \in 1 .. NumCells(d) :
           d.cells[j].val = IF j < i THEN p.cells[j].val ELSE p.cells[j + 1].val
      /\ d.next = p.next
  BY <1>0, <1>1, DeleteCellElements
<1> HIDE DEF d
<1>3. Insertable(d, i, k, v, 0)
  BY <1>0, <1>1, <1>2 DEF Insertable
<1>4. /\ IsPage(q) /\ q.leaf = d.leaf /\ NumCells(q) = NumCells(d) + 1
      /\ \A j \in 1 .. NumCells(d) + 1 :
           q.cells[j].key = IF j < i THEN d.cells[j].key
                            ELSE IF j = i THEN k ELSE d.cells[j - 1].key
      /\ \A j \in 1 .. NumCells(d) + 1 :
           q.cells[j].val = IF j < i THEN d.cells[j].val
                            ELSE IF j = i THEN v ELSE d.cells[j - 1].val
      /\ q.next = d.next
  <2>1. q = WithCell(d, i, k, v, 0)
    BY DEF d
  <2>2. QED
    BY <1>3, <2>1, WithCellElements
<1>5. NumCells(q) = NumCells(p)
  BY <1>1, <1>2, <1>4
<1>6. ASSUME NEW j \in 1 .. NumCells(p)
      PROVE  /\ q.cells[j].key = p.cells[j].key
             /\ q.cells[j].val = IF j = i THEN v ELSE p.cells[j].val
  <2>1. CASE j < i
    <3>1. j \in 1 .. NumCells(d) /\ j \in 1 .. NumCells(d) + 1
      BY <1>1, <1>2, <2>1
    <3>2. QED
      BY <1>1, <1>2, <1>4, <2>1, <3>1
  <2>2. CASE j = i
    <3>1. j \in 1 .. NumCells(d) + 1 /\ ~(j < i)
      BY <1>1, <1>2, <2>2
    <3>2. QED
      BY <1>1, <1>4, <2>2, <3>1
  <2>3. CASE j > i
    <3>1. /\ j \in 1 .. NumCells(d) + 1 /\ j - 1 \in 1 .. NumCells(d)
          /\ ~(j < i) /\ j # i /\ ~(j - 1 < i) /\ (j - 1) + 1 = j
      BY <1>1, <1>2, <2>3
    <3>2. q.cells[j].key = d.cells[j - 1].key /\ q.cells[j].val = d.cells[j - 1].val
      BY <1>4, <3>1
    <3>3. /\ d.cells[j - 1].key = p.cells[(j - 1) + 1].key
          /\ d.cells[j - 1].val = p.cells[(j - 1) + 1].val
      BY <1>2, <3>1
    <3>4. QED
      BY <3>1, <3>2, <3>3
  <2>4. j < i \/ j = i \/ j > i
    BY <1>1
  <2>5. QED
    BY <2>1, <2>2, <2>3, <2>4
<1>7. Increasing(q)
  BY <1>0, <1>5, <1>6 DEF Increasing
<1>8. \A j \in 1 .. NumCells(p) : j # i => p.cells[j].key # k
  <2>1. ASSUME NEW j \in 1 .. NumCells(p), j # i
        PROVE  p.cells[j].key # k
    <3>1. j < i \/ i < j
      BY <1>1, <2>1
    <3>2. p.cells[j].key < p.cells[i].key \/ p.cells[i].key < p.cells[j].key
      BY <1>0, <1>1, <3>1 DEF Increasing
    <3>3. p.cells[j].key \in Int
      BY <1>0, CellsOfPage
    <3>4. QED
      BY <1>1, <3>2, <3>3
  <2>2. QED
    BY <2>1
<1>9. \A j \in 1 .. NumCells(q) :
        IF q.cells[j].key = k THEN q.cells[j].val = v
        ELSE \E n \in 1 .. NumCells(p) : /\ p.cells[n].key = q.cells[j].key
                                         /\ p.cells[n].val = q.cells[j].val
  BY <1>1, <1>5, <1>6, <1>8
<1>10. QED
  BY <1>0, <1>1, <1>2, <1>4, <1>5, <1>6, <1>7, <1>9 DEF Updates
-----------------------------------------------------------------------------
(* One lemma for every action.                                              *)

(* The search for the place begins at the root, which is for all keys.      *)
LEMMA InsertMaps ==
  ASSUME MapInv, IInv', NEW k \in Keys, NEW v \in Values, Insert(k, v)
  PROVE  MapInv'
<1>1. /\ pc = "idle" /\ pc' = "insertRec"
      /\ call' = [op |-> "insert", key |-> k, val |-> v]
      /\ path' = <<root>> /\ path'[1] = root /\ Len(path') = 1
      /\ UNCHANGED <<file, cached, pageCount, root, split, contents>>
  BY DEF Insert
<1>2. NodeIds' = NodeIds /\ Held' = Held
  BY <1>1, SameTree
<1>3. PICK own, lev, left : Arranged(own, lev, left)
  BY <1>1 DEF MapInv
<1>4. Valid(Held, NodeIds, root, own, lev, own, contents)
  BY <1>1, <1>3 DEF Arranged, TreeSound, Want, Inserted, Pending
<1>5. own[root] = Int
  BY <1>4 DEF Valid, Spread
<1>6. Want' = contents
  BY <1>1 DEF Want, Inserted, Pending
<1>7. TreeSound(own, lev, left)'
  BY <1>1, <1>2, <1>4, <1>6 DEF TreeSound, Pending
<1>8. Chain(own, lev)'
  <2>1. Last(path') = root
    BY <1>1 DEF Last
  <2>2. call'.key \in Int
    BY <1>1, KeysAssumption
  <2>3. \A j \in 1 .. Len(path') - 1 : FALSE
    BY <1>1
  <2>4. \A i, j \in 1 .. Len(path') : ~(i < j)
    BY <1>1
  <2>5. QED
    BY <1>1, <1>5, <2>1, <2>2, <2>3, <2>4 DEF Chain
<1>9. Arranged(own, lev, left)'
  BY <1>1, <1>7, <1>8 DEF Arranged, SplitAt, Reading
<1>10. CallOK'
  BY <1>1 DEF MapInv, CallOK
<1>11. DOMAIN cached' = {}
  BY <1>1 DEF MapInv
<1>12. QED
  BY <1>9, <1>10, <1>11 DEF MapInv

(* The page of the frame on top is one of those of the tree.                *)
LEMMA TopHeld ==
  ASSUME MapInv, pc \in {"insertRec", "insertSplit"}
  PROVE  /\ Last(path) \in NodeIds
         /\ TopPage = Held[Last(path)] /\ TopPage.leaf \in BOOLEAN
<1>1. Last(path) \in NodeIds /\ TopPage.leaf \in BOOLEAN
  BY TopGood DEF MapInv
<1>2. QED
  BY <1>1, ReadHeld DEF TopPage

(* The page an insertion has come to is for the key.                        *)
Come(own, lev) ==
  /\ Valid(Held, NodeIds, root, own, lev, own, contents)
  /\ PageOK(TopPage, Last(path), NodeIds, own, lev, own, contents)
  /\ Last(path) \in NodeIds /\ TopPage = Held[Last(path)]
  /\ call.key \in own[Last(path)] /\ call.key \in Keys /\ call.key \in Int
  /\ call.val \in Values
  /\ contents \in [Keys -> Values \cup {Nil}]
  /\ Chain(own, lev)

(* The frame on top is on a page for the key.                               *)
LEMMA TopIsCome ==
  ASSUME MapInv, pc = "insertRec", NEW own, NEW lev, NEW left,
         Arranged(own, lev, left)
  PROVE  Come(own, lev)
<1>1. Last(path) \in NodeIds /\ TopPage = Held[Last(path)]
  BY TopHeld
<1>2. /\ call.key \in Keys /\ call.key \in Int /\ call.val \in Values
      /\ contents \in [Keys -> Values \cup {Nil}]
  BY KeysAssumption DEF MapInv, CallOK
<1>3. Valid(Held, NodeIds, root, own, lev, own, contents)
  BY DEF Arranged, TreeSound, Want, Inserted, Pending
<1>4. PageOK(TopPage, Last(path), NodeIds, own, lev, own, contents)
  BY <1>1, <1>3 DEF Valid
<1>5. Chain(own, lev) /\ call.key \in own[Last(path)]
  BY DEF Arranged, Chain
<1>6. QED
  BY <1>1, <1>2, <1>3, <1>4, <1>5 DEF Come

(* In a B+ tree the search passes the separators that are equal to the key. *)
LEMMA SeparatorPassed ==
  ASSUME NEW p, IsPage(p), ~p.leaf, CopyUpLeaves, NEW k \in Int,
         NEW i, i = Way(p, k)
  PROVE  ~KeyOn(p, i, k)
<1>1. i <= NumCells(p) => ~GoesRight(p, i, k, FALSE)
  BY FindIdxIsBorder DEF Way
<1>2. QED
  BY <1>1 DEF KeyOn, GoesRight

(* The position of the key on the page of the frame on top.                 *)
LEMMA PosIsFound ==
  ASSUME IsPage(TopPage), call.key \in Int
  PROVE  /\ NumCells(TopPage) \in Nat
         /\ Pos \in 1 .. NumCells(TopPage) + 1
         /\ ~TopPage.leaf => Pos = Way(TopPage, call.key)
         /\ Increasing(TopPage) /\ TopPage.leaf => SpotOn(TopPage, call.key, Pos)
<1> DEFINE leaf == TopPage.leaf
<1>1. Pos = FindIdx(TopPage, call.key, leaf) /\ leaf \in BOOLEAN
  BY DEF Pos, IsPage
<1>2. ~leaf => Pos = Way(TopPage, call.key)
  BY <1>1 DEF Way
<1>3. Increasing(TopPage) /\ leaf => SpotOn(TopPage, call.key, Pos)
  BY <1>1 DEF SpotOn
<1> HIDE DEF leaf
<1>4. Pos \in 1 .. NumCells(TopPage) + 1
  BY <1>1, FindIdxIsBorder
<1>5. NumCells(TopPage) \in Nat
  BY CellsOfPage
<1>6. QED
  BY <1>2, <1>3, <1>4, <1>5 DEF leaf

(* The key is here, and its value is replaced: on a page that stores it.    *)
LEMMA OverwriteHeld ==
  ASSUME MapInv, InsertOverwrite, NEW own, NEW lev, Come(own, lev)
  PROVE  /\ Updates(Held[Last(path)], Held'[Last(path)], call.key, call.val)
         /\ \A y \in NodeIds : y # Last(path) => Held'[y] = Held[y]
         /\ NodeIds' = NodeIds /\ root' = root
         /\ TopPage.leaf \/ ~CopyUpLeaves
         /\ \E p : WriteAndReturn(Last(path), p)
<1> DEFINE id == Last(path)
           p  == TopPage
           w  == [TopPage EXCEPT !.cells[Pos].val = call.val]
<1>1. /\ pc = "insertRec" /\ KeyOn(p, Pos, call.key)
      /\ WriteAndReturn(id, OverwriteValue(p, Pos, call.val))
  BY DEF InsertOverwrite, Room, KeyAt, KeyOn
<1>2. IsPage(p) /\ Increasing(p) /\ call.key \in Int /\ call.val \in Values
  BY DEF Come, PageOK
<1>3. Pos \in 1 .. NumCells(p) /\ call.key = p.cells[Pos].key
  <2>1. NumCells(p) \in Nat /\ Pos \in 1 .. NumCells(p) + 1
    BY <1>2, PosIsFound
  <2>2. QED
    BY <1>1, <2>1 DEF KeyOn
<1>4. p.leaf \/ ~CopyUpLeaves
  <2>1. SUFFICES ASSUME ~p.leaf, CopyUpLeaves
                 PROVE  FALSE
    OBVIOUS
  <2>2. Pos = Way(p, call.key)
    BY <1>2, <2>1, PosIsFound
  <2>3. ~KeyOn(p, Pos, call.key)
    BY <1>2, <2>1, <2>2, SeparatorPassed
  <2>4. QED
    BY <1>1, <2>3
<1>5. OverwriteValue(p, Pos, call.val) = w
  BY <1>4 DEF OverwriteValue
<1> HIDE DEF w
<1>6. /\ Held'[id] = w
      /\ \A y \in NodeIds : y # id => Held'[y] = Held[y]
      /\ NodeIds' = NodeIds /\ root' = root
  BY <1>1, <1>5, HeldAfterWrite DEF Come
<1>7. Updates(p, w, call.key, call.val)
  BY <1>2, <1>3, OverwriteUpdates DEF w
<1>8. Updates(Held[id], Held'[id], call.key, call.val)
  BY <1>6, <1>7 DEF Come
<1>9. QED
  BY <1>1, <1>4, <1>6, <1>8

(* The page of the frame on top has the new value.                          *)
LEMMA InsertOverwriteMaps ==
  ASSUME MapInv, IInv', InsertOverwrite
  PROVE  MapInv'
<1> DEFINE id == Last(path)
           F  == Held'
<1>1. pc = "insertRec"
  BY DEF InsertOverwrite
<1>2. PICK own, lev, left : Arranged(own, lev, left)
  BY <1>1 DEF MapInv
<1>3. Come(own, lev)
  BY <1>1, <1>2, TopIsCome
<1>4. /\ Updates(Held[id], F[id], call.key, call.val)
      /\ \A y \in NodeIds : y # id => F[y] = Held[y]
      /\ TopPage.leaf \/ ~CopyUpLeaves
  BY <1>3, OverwriteHeld
<1>5. PICK p : WriteAndReturn(id, p)
  BY <1>3, OverwriteHeld
<1>6. Updating(Held, NodeIds, root, own, lev, contents, id, call.key, call.val)
  BY <1>3, <1>4 DEF Come, Updating
<1> HIDE DEF F
<1>7. Valid(F, NodeIds, root, own, lev, own,
            Updated(contents, call.key, call.val))
  BY <1>4, <1>6, UpdateSound
<1>8. id \in NodeIds
  BY <1>3 DEF Come
<1>9. QED
  BY <1>1, <1>5, <1>7, <1>8, WriteAndReturnMaps DEF F

(* The leaf with the new pair on it, in the place of an outgrown one.       *)
LEMMA LeafUpdates ==
  ASSUME NEW own, NEW lev, Come(own, lev), TopPage.leaf,
         NEW d, d = Dropped(TopPage, Pos),
         NEW q, q = WithCell(d, Pos, call.key, call.val, 0)
  PROVE  /\ Updates(TopPage, q, call.key, call.val)
         /\ d.leaf = TopPage.leaf /\ d.next = TopPage.next
         /\ NumCells(q) = IF KeyAt(TopPage, Pos) THEN NumCells(TopPage)
                          ELSE NumCells(TopPage) + 1
<1> DEFINE p == TopPage
<1>1. IsPage(p) /\ Increasing(p) /\ call.key \in Int /\ call.val \in Values
  BY DEF Come, PageOK
<1>2. /\ NumCells(p) \in Nat /\ Pos \in 1 .. NumCells(p) + 1
      /\ SpotOn(p, call.key, Pos)
  BY <1>1, PosIsFound
<1>3. KeyAt(p, Pos) <=> KeyOn(p, Pos, call.key)
  BY DEF KeyAt, KeyOn
<1>4. CASE KeyAt(p, Pos)
  <2>1. d = DeleteCell(p, Pos)
    BY <1>4 DEF Dropped
  <2>2. Pos \in 1 .. NumCells(p)
    BY <1>2, <1>4 DEF KeyAt
  <2>3. d.leaf = p.leaf /\ d.next = p.next
    BY <1>1, <2>1, <2>2, DeleteCellElements
  <2>4. Updates(p, q, call.key, call.val) /\ NumCells(q) = NumCells(p)
    BY <1>1, <1>2, <1>3, <1>4, <2>1, ReplaceUpdates
  <2>5. QED
    BY <1>4, <2>3, <2>4
<1>5. CASE ~KeyAt(p, Pos)
  <2>1. d = p
    BY <1>5 DEF Dropped
  <2>2. Updates(p, q, call.key, call.val) /\ NumCells(q) = NumCells(p) + 1
    BY <1>1, <1>2, <1>3, <1>5, <2>1, InsertUpdates
  <2>3. QED
    BY <1>5, <2>1, <2>2
<1>6. QED
  BY <1>4, <1>5

(* The pages with the pair on the only leaf that may have the key.          *)
LEMMA LeafPlaced ==
  ASSUME MapInv, InsertInLeaf, NEW own, NEW lev, Come(own, lev),
         NEW d, d = Dropped(TopPage, Pos),
         NEW q, q = WithCell(d, Pos, call.key, call.val, 0),
         NEW G, G = [y \in NodeIds |-> IF y = Last(path) THEN q ELSE Held[y]]
  PROVE  /\ Placing(G, Last(path), q, own, lev)
         /\ Updates(Held[Last(path)], G[Last(path)], call.key, call.val)
         /\ \A y \in NodeIds : y # Last(path) => G[y] = Held[y]
         /\ q.leaf = d.leaf /\ q.next = d.next /\ d.next \in Int
<1> DEFINE id == Last(path)
           p  == TopPage
           want == Updated(contents, call.key, call.val)
<1>1. TopPage.leaf
  BY DEF InsertInLeaf
<1>2. IsPage(p) /\ id \in NodeIds /\ p = Held[id] /\ Chain(own, lev)
  BY DEF Come, PageOK
<1>3. /\ Updates(p, q, call.key, call.val)
      /\ d.leaf = p.leaf /\ d.next = p.next
  BY <1>1, LeafUpdates
<1>4. /\ IsPage(q) /\ q.leaf = p.leaf /\ q.next = p.next
      /\ \E j \in 1 .. NumCells(q) : q.cells[j].key = call.key
  BY <1>3 DEF Updates
<1>5. NumCells(q) \in Nat /\ NumCells(q) >= 1
  BY <1>4, CellsOfPage
<1>6. /\ G[id] = q
      /\ \A y \in NodeIds : y # id => G[y] = Held[y]
  BY <1>2
<1> HIDE DEF want, id
<1>7. Valid(G, NodeIds, root, own, lev, own, want)
  <2>1. Updating(Held, NodeIds, root, own, lev, contents, id, call.key, call.val)
    BY <1>1 DEF Come, Updating, id
  <2>2. Updates(Held[id], G[id], call.key, call.val)
    BY <1>2, <1>3, <1>6
  <2>3. QED
    BY <1>6, <2>1, <2>2, UpdateSound DEF want
<1>8. Placing(G, id, q, own, lev)
  BY <1>2, <1>5, <1>6, <1>7 DEF Placing, want, id
<1>9. d.next \in Int
  BY <1>2, <1>3 DEF IsPage
<1>10. QED
  BY <1>2, <1>3, <1>4, <1>6, <1>8, <1>9 DEF id

(* It has room there, or the leaf is split.                                 *)
LEMMA InsertInLeafMaps ==
  ASSUME MapInv, IInv', ~Ousts, InsertInLeaf
  PROVE  MapInv'
<1> SUFFICES ASSUME NEW d, d = Dropped(TopPage, Pos),
                    NEW q, q = WithCell(d, Pos, call.key, call.val, 0)
             PROVE  MapInv'
  OBVIOUS
<1> DEFINE id == Last(path)
           p  == TopPage
           G  == [y \in NodeIds |-> IF y = id THEN q ELSE Held[y]]
<1>1. /\ pc = "insertRec" /\ TopPage.leaf /\ ~Room
      /\ DoInsert(id, d, Pos, call.key, call.val, 0)
  BY DEF InsertInLeaf
<1>2. PICK own, lev, left : Arranged(own, lev, left)
  BY <1>1 DEF MapInv
<1>3. Come(own, lev)
  BY <1>1, <1>2, TopIsCome
<1>4. /\ d.leaf = p.leaf
      /\ NumCells(q) = IF KeyAt(p, Pos) THEN NumCells(p) ELSE NumCells(p) + 1
  BY <1>1, <1>3, LeafUpdates
<1>5. NumCells(p) \in Nat /\ RoomOK(p, own[id])
  BY <1>3, CellsOfPage DEF Come, PageOK
<1>6. /\ Placing(G, id, q, own, lev)
      /\ q.leaf = d.leaf /\ q.next = d.next /\ d.next \in Int
  BY <1>3, LeafPlaced
<1> HIDE DEF G, id
<1>7. ASSUME CopyUpLeaves, NumCells(q) = 1,
             ~HasRoom(d, CellSize(d.leaf, call.val))
      PROVE  NoLeast(own[id])
  <2>1. CASE KeyAt(p, Pos)
    <3>1. NumCells(p) = 1
      BY <1>4, <1>7, <2>1
    <3>2. ~HasRoom(Dropped(p, Pos), CellSize(p.leaf, call.val))
      BY <1>4, <1>7
    <3>3. QED
      BY <1>1, <1>7, <2>1, <3>1, <3>2 DEF Ousts
  <2>2. CASE ~KeyAt(p, Pos)
    <3>1. NumCells(p) = 0
      BY <1>4, <1>5, <1>7, <2>2
    <3>2. QED
      BY <1>1, <1>5, <1>7, <3>1 DEF RoomOK
  <2>3. QED
    BY <2>1, <2>2
<1>8. CopyUpLeaves /\ q.leaf /\ NumCells(q) = 1
      /\ ~HasRoom(d, CellSize(d.leaf, call.val)) => NoLeast(own[id])
  BY <1>7
<1>9. QED
  BY <1>1, <1>6, <1>8, DoInsertMaps

(* The child an insertion goes on with.                                     *)
LEMMA InsertDescendMaps ==
  ASSUME MapInv, IInv', ~Ousts, InsertDescend
  PROVE  MapInv'
<1> DEFINE id == Last(path)
           p  == TopPage
<1>1. /\ pc = "insertRec" /\ pc' = "insertRec" /\ ~p.leaf /\ ~Room
      /\ UNCHANGED <<file, pageCount, root, split, call, contents>>
  BY DEF InsertDescend
<1>2. ~KeyAt(p, Pos)
  BY <1>1 DEF Ousts
<1>3. cached' = cached /\ path' = Append(path, ChildAt(p, Pos))
  BY <1>1, <1>2 DEF InsertDescend, Dropped
<1>4. PICK own, lev, left : Arranged(own, lev, left)
  BY <1>1 DEF MapInv
<1>5. Come(own, lev)
  BY <1>1, <1>4, TopIsCome
<1>6. /\ IsPage(p) /\ Increasing(p) /\ id \in NodeIds /\ p = Held[id]
      /\ call.key \in own[id] /\ call.key \in Int
      /\ ChildrenOK(p, id, NodeIds, own, lev, own)
      /\ own[id] \subseteq Int /\ lev \in [NodeIds -> Nat]
  BY <1>5 DEF Come, PageOK, Valid, Spread
<1>7. /\ Pos \in 1 .. NumCells(p) + 1 /\ Pos = Way(p, call.key)
  BY <1>1, <1>6, PosIsFound
<1>8. ~KeyOn(p, Pos, call.key)
  BY <1>2 DEF KeyAt, KeyOn
<1> HIDE DEF p, id
<1>9. call.key \in Share(p, own[id], Pos)
  <2> DEFINE k == call.key
             o == own[id]
  <2>1. k \in o /\ o \subseteq Int /\ Pos = Way(p, k) /\ ~KeyOn(p, Pos, k)
    BY <1>6, <1>7, <1>8
  <2> HIDE DEF k, o
  <2>2. k \in Share(p, o, Pos)
    BY <1>6, <1>7, <2>1, ShareIsFound
  <2>3. QED
    BY <2>2 DEF k, o
<1> SUFFICES ASSUME NEW child, child = ChildAt(p, Pos)
             PROVE  MapInv'
  OBVIOUS
<1>10. /\ child \in NodeIds /\ lev[id] = lev[child] + 1
       /\ call.key \in own[child]
  <2>1. ChildOK(p, Pos, id, NodeIds, own, lev, own)
    BY <1>1, <1>6, <1>7 DEF ChildrenOK, p
  <2>2. QED
    BY <1>9, <2>1 DEF ChildOK
<1>11. Above(Held, NodeIds, id, Pos, child)
  BY <1>1, <1>6, <1>7 DEF Above, p
<1>12. NodeIds' = NodeIds /\ Held' = Held
  BY <1>1, SameTree
<1>13. /\ path \in Seq(NodeIds) /\ Len(path) \in Nat /\ Len(path) >= 1
       /\ \A j \in 1 .. Len(path) : path[j] \in NodeIds
  BY <1>1 DEF MapInv, IInv, FramesGood
<1>14. /\ path' \in Seq(NodeIds) /\ Len(path') = Len(path) + 1
       /\ \A j \in 1 .. Len(path) : path'[j] = path[j]
       /\ path'[Len(path) + 1] = child
  BY <1>3, <1>10, <1>13, AppendProperties DEF p
<1>15. /\ path[1] = root /\ path[Len(path)] = id
       /\ \A j \in 1 .. Len(path) - 1 :
            \E i : Above(Held, NodeIds, path[j], i, path[j + 1])
       /\ \A i, j \in 1 .. Len(path) : i < j => lev[path[j]] < lev[path[i]]
  BY <1>1, <1>5 DEF Come, Chain, id, Last
<1>16. Chain(own, lev)'
  <2>1. path'[1] = root'
    BY <1>1, <1>13, <1>14, <1>15
  <2>2. ASSUME NEW j \in 1 .. Len(path') - 1
        PROVE  \E i : Above(Held', NodeIds', path'[j], i, path'[j + 1])
    <3>1. CASE j = Len(path)
      <4>1. path'[j] = id /\ path'[j + 1] = child
        BY <1>13, <1>14, <1>15, <3>1
      <4>2. QED
        BY <1>11, <1>12, <4>1
    <3>2. CASE j # Len(path)
      <4>1. j \in 1 .. Len(path) - 1 /\ j \in 1 .. Len(path) /\ j + 1 \in 1 .. Len(path)
        BY <1>13, <1>14, <3>2
      <4>2. path'[j] = path[j] /\ path'[j + 1] = path[j + 1]
        BY <1>14, <4>1
      <4>3. QED
        BY <1>12, <1>15, <4>1, <4>2
    <3>3. QED
      BY <3>1, <3>2
  <2>3. ASSUME NEW i \in 1 .. Len(path'), NEW j \in 1 .. Len(path'), i < j
        PROVE  lev[path'[j]] < lev[path'[i]]
    <3>1. i \in 1 .. Len(path) /\ path'[i] = path[i]
      BY <1>13, <1>14, <2>3
    <3>2. CASE j = Len(path) + 1
      <4>1. path'[j] = child
        BY <1>14, <3>2
      <4>2. /\ lev[child] \in Nat /\ lev[id] \in Nat /\ lev[path[i]] \in Nat
        BY <1>6, <1>10, <1>13, <3>1
      <4>3. i = Len(path) \/ i < Len(path)
        BY <1>13, <3>1
      <4>4. lev[id] <= lev[path[i]]
        BY <1>13, <1>15, <3>1, <4>2, <4>3
      <4>5. QED
        BY <1>10, <3>1, <4>1, <4>2, <4>4
    <3>3. CASE j # Len(path) + 1
      <4>1. j \in 1 .. Len(path) /\ path'[j] = path[j]
        BY <1>13, <1>14, <3>3
      <4>2. QED
        BY <1>15, <2>3, <3>1, <4>1
    <3>4. QED
      BY <3>2, <3>3
  <2>4. Last(path') = child
    BY <1>14 DEF Last
  <2>5. call'.key \in own[Last(path')]
    BY <1>1, <1>10, <2>4
  <2>6. QED
    BY <2>1, <2>2, <2>3, <2>5 DEF Chain
<1>17. TreeSound(own, lev, left)'
  <2>1. Want' = contents
    BY <1>1 DEF Want, Inserted, Pending
  <2>2. QED
    BY <1>1, <1>5, <1>12, <2>1 DEF TreeSound, Pending, Come
<1>18. Arranged(own, lev, left)'
  BY <1>1, <1>16, <1>17 DEF Arranged, SplitAt, Reading
<1>19. CallOK' /\ DOMAIN cached' = {}
  BY <1>1, <1>3 DEF MapInv, CallOK
<1>20. QED
  BY <1>18, <1>19 DEF MapInv

(* The second write of a split makes the file what it was taken to be.      *)
LEMMA RightHeld ==
  ASSUME MapInv, WriteRight
  PROVE  /\ pc = "writeRight" /\ path' = Front(path)
         /\ pc' = IF Len(path) = 1 THEN "newRoot" ELSE "insertSplit"
         /\ UNCHANGED <<root, split, call, contents>>
         /\ NodeIds' = NodeIds /\ Held' = Held /\ DOMAIN cached' = {}
<1> DEFINE rt == split.right
<1>1. /\ pc = "writeRight"
      /\ file' = [file EXCEPT ![rt] = split.page]
      /\ cached' = Without(cached, rt)
      /\ path' = Front(path)
      /\ pc' = IF Len(path) = 1 THEN "newRoot" ELSE "insertSplit"
      /\ UNCHANGED <<pageCount, root, split, call, contents>>
  BY DEF WriteRight, WriteNode, MapInv, IInv, Shape
<1>2. NodeIds' = NodeIds /\ rt \in NodeIds /\ DOMAIN cached' = {}
  BY <1>1 DEF NodeIds, MapInv, IInv, SplitGood, Without
<1>3. /\ file'[rt] = split.page
      /\ \A y \in NodeIds : y # rt => file'[y] = file[y]
  BY <1>1, <1>2 DEF MapInv, IInv, Shape
<1>4. Held' = Held
  <2>1. Held' = [y \in NodeIds |-> file'[y]]
    BY <1>1, <1>2 DEF Held, Awaited
  <2>2. Held = [y \in NodeIds |-> IF y = rt THEN split.page ELSE file[y]]
    BY <1>1 DEF Held, Awaited
  <2>3. QED
    BY <1>3, <2>1, <2>2
<1>5. QED
  BY <1>1, <1>2, <1>4

(* The frame of the split page returns.                                     *)
LEMMA WriteRightMaps ==
  ASSUME MapInv, IInv', WriteRight
  PROVE  MapInv'
<1>1. /\ pc = "writeRight" /\ path' = Front(path)
      /\ pc' = IF Len(path) = 1 THEN "newRoot" ELSE "insertSplit"
      /\ UNCHANGED <<root, split, call, contents>>
  BY RightHeld
<1>2. NodeIds' = NodeIds /\ DOMAIN cached' = {}
  BY RightHeld
<1>4. Held' = Held
  BY RightHeld
<1>5. PICK own, lev, left : Arranged(own, lev, left)
  BY <1>1 DEF MapInv
<1>6. TreeSound(own, lev, left)'
  <2>1. Want' = Want
    BY <1>1 DEF Want, Inserted, Pending
  <2>2. QED
    BY <1>1, <1>2, <1>4, <1>5, <2>1 DEF Arranged, TreeSound, Pending
<1>7. left = Last(path)
  BY <1>1, <1>5 DEF Arranged, SplitAt
<1>8. /\ path[1] = root
      /\ \A j \in 1 .. Len(path) - 1 :
           \E i : Above(Held, NodeIds, path[j], i, path[j + 1])
      /\ \A i, j \in 1 .. Len(path) : i < j => lev[path[j]] < lev[path[i]]
  BY <1>1, <1>5 DEF Arranged, Chain
<1>9. /\ path \in Seq(NodeIds) /\ Len(path) \in Nat /\ Len(path) >= 1
      /\ left = path[Len(path)]
      /\ \A j \in 1 .. Len(path) : path[j] \in NodeIds
  BY <1>1, <1>7 DEF MapInv, IInv, FramesGood, Last
<1>10. CallOK'
  BY <1>1 DEF MapInv, CallOK
<1>11. CASE Len(path) = 1
  <2>1. pc' = "newRoot" /\ left = root
    BY <1>1, <1>8, <1>9, <1>11
  <2>2. Arranged(own, lev, left)'
    BY <1>1, <1>6, <2>1 DEF Arranged, SplitAt, Chain, Reading
  <2>3. QED
    BY <1>2, <1>10, <2>2 DEF MapInv
<1>12. CASE Len(path) # 1
  <2>1. pc' = "insertSplit" /\ Len(path) >= 2
    <3>1. Len(path) >= 2
      <4>1. Len(path) \in Nat /\ Len(path) >= 1
        BY <1>9
      <4>2. \A m \in Nat : m >= 1 /\ m # 1 => m >= 2
        OBVIOUS
      <4>3. QED
        BY <1>12, <4>1, <4>2
    <3>2. QED
      BY <1>1, <1>12, <3>1
  <2>2. /\ path' \in Seq(NodeIds) /\ Len(path') = Len(path) - 1
        /\ \A j \in 1 .. Len(path) - 1 : path'[j] = path[j]
    <3>1. path' = SubSeq(path, 1, Len(path) - 1)
      BY <1>1 DEF Front
    <3>2. \A j \in 1 .. Len(path) - 1 : path[j] \in NodeIds
      BY <1>9
    <3>3. QED
      BY <1>9, <2>1, <3>1, <3>2, SubSeqProperties
  <2>3. SplitAt(left)'
    <3>1. Last(path') = path[Len(path) - 1]
      BY <1>9, <2>1, <2>2 DEF Last
    <3>2. Len(path) - 1 \in 1 .. Len(path) - 1 /\ (Len(path) - 1) + 1 = Len(path)
      BY <1>9, <2>1
    <3>3. \E i : Above(Held, NodeIds, path[Len(path) - 1], i, left)
      BY <1>8, <1>9, <3>2
    <3>4. QED
      BY <1>2, <1>4, <2>1, <3>1, <3>3 DEF SplitAt
  <2>4. Chain(own, lev)'
    <3>1. path'[1] = root'
      BY <1>1, <1>8, <1>9, <2>1, <2>2
    <3>2. ASSUME NEW j \in 1 .. Len(path') - 1
          PROVE  \E i : Above(Held', NodeIds', path'[j], i, path'[j + 1])
      <4>1. /\ j \in 1 .. Len(path) - 1 /\ j + 1 \in 1 .. Len(path) - 1
        BY <1>9, <2>1, <2>2
      <4>2. path'[j] = path[j] /\ path'[j + 1] = path[j + 1]
        BY <2>2, <4>1
      <4>3. QED
        BY <1>2, <1>4, <1>8, <4>1, <4>2
    <3>3. \A i, j \in 1 .. Len(path') : i < j => lev[path'[j]] < lev[path'[i]]
      BY <1>8, <1>9, <2>2
    <3>4. QED
      BY <2>1, <3>1, <3>2, <3>3 DEF Chain
  <2>5. Arranged(own, lev, left)'
    BY <1>6, <2>1, <2>3, <2>4 DEF Arranged, Reading
  <2>6. QED
    BY <1>2, <1>10, <2>5 DEF MapInv
<1>13. QED
  BY <1>11, <1>12

(* The pages with the separator where the search for it leads.              *)
LEMMA SplitPlaced ==
  ASSUME MapInv, InsertSplit, NEW p, p = TopPage, NEW i, i = Way(p, split.key),
         NEW q, q = WithCell(p, i, split.key, split.val, split.right),
         NEW G, G = [y \in NodeIds |-> IF y = Last(path) THEN q ELSE Held[y]],
         NEW own, NEW lev, NEW left, Arranged(own, lev, left)
  PROVE  /\ Placing(G, Last(path), q, own, lev)
         /\ Joined(Held[Last(path)], own[Last(path)], i, split.key, split.val,
                   split.right)
         /\ G[Last(path)] = WithCell(Held[Last(path)], i, split.key, split.val,
                                     split.right)
         /\ \A y \in NodeIds : y # Last(path) => G[y] = Held[y]
         /\ ~p.leaf /\ q.leaf = p.leaf /\ q.next = p.next /\ p.next \in Int
<1> DEFINE id   == Last(path)
           want == Updated(contents, call.key, call.val)
<1>1. pc = "insertSplit"
  BY DEF InsertSplit
<1>2. id \in NodeIds /\ p = Held[id]
  BY <1>1, TopHeld
<1>3. Splitting(Held, NodeIds, root, own, lev, want, left,
                split.right, split.key, split.val)
  BY <1>1 DEF Arranged, TreeSound, Want, Inserted, Pending
<1>4. PICK n : Above(Held, NodeIds, id, n, left)
  BY <1>1 DEF Arranged, SplitAt
<1>5. NodeIds \subseteq Nat /\ split.val \in Values \cup {Nil}
  BY <1>1 DEF MapInv, IInv, Shape, SplitGood, NodeIds
<1>6. /\ G[id] = q
      /\ \A y \in NodeIds : y # id => G[y] = Held[y]
  BY <1>2
<1> HIDE DEF id
<1>7. /\ Valid(G, NodeIds, root, own, lev, own, want)
      /\ split.key \in Share(p, own[id], i) /\ own[id] \subseteq Int
  <2> DEFINE s  == split.key
             sv == split.val
             rt == split.right
             ids == NodeIds
  <2>1. SplitUnder(Held, ids, root, own, lev, want, left, rt, s, sv, id, n)
    BY <1>3, <1>4 DEF SplitUnder
  <2>2. TakesIn(Held, G, ids, id, s, sv, rt)
    BY <1>2, <1>6 DEF TakesIn
  <2>3. ids \subseteq Nat /\ sv \in Values \cup {Nil} /\ id \in ids
    BY <1>2, <1>5
  <2>4. p = Held[id] /\ i = Way(p, s)
    BY <1>2
  <2> HIDE DEF s, sv, rt, ids, want
  <2>5. Valid(G, ids, root, own, lev, own, want)
    BY <2>1, <2>2, <2>3, JoinSound
  <2>6. s \in Share(Held[id], own[id], n) /\ n = Way(Held[id], s)
    BY <2>1, OneParent
  <2>7. own[id] \subseteq Int
    BY <2>3, <2>5 DEF Valid, Spread
  <2>8. QED
    BY <2>4, <2>5, <2>6, <2>7 DEF ids, s
<1>8. ~p.leaf /\ IsPage(p)
  BY <1>1, <1>2, <1>4, TopGood DEF Above, GoodPage, MapInv
<1>9. i \in 1 .. NumCells(p) + 1 /\ split.key \in Int /\ split.right \in Nat
  <2>1. split.key \in Int /\ split.right \in Nat
    BY <1>1, <1>5 DEF MapInv, IInv, SplitGood
  <2>2. QED
    BY <1>8, <2>1, FindIdxIsBorder DEF Way
<1>10. Insertable(p, i, split.key, split.val, split.right)
  BY <1>5, <1>8, <1>9 DEF Insertable
<1>11. /\ q.leaf = p.leaf /\ q.next = p.next /\ NumCells(q) = NumCells(p) + 1
  <2> DEFINE s  == split.key
             sv == split.val
             rt == split.right
  <2>1. Insertable(p, i, s, sv, rt) /\ q = WithCell(p, i, s, sv, rt)
    BY <1>10
  <2> HIDE DEF s, sv, rt
  <2>2. QED
    BY <2>1, WithCellElements
<1>12. NumCells(q) >= 1 /\ p.next \in Int
  BY <1>8, <1>11, CellsOfPage DEF IsPage
<1>13. Chain(own, lev)
  BY DEF Arranged
<1>14. Placing(G, id, q, own, lev)
  BY <1>2, <1>6, <1>7, <1>12, <1>13 DEF Placing, id
<1>15. Increasing(p)
  <2>1. PageOK(Held[id], id, NodeIds, own, lev, Whole(own, left, split.key, split.right),
               want)
    BY <1>2, <1>3 DEF Splitting, Valid
  <2>2. QED
    BY <1>2, <2>1 DEF PageOK
<1>16. Joined(p, own[id], i, split.key, split.val, split.right)
  BY <1>7, <1>8, <1>10, <1>15 DEF Joined
<1>17. QED
  BY <1>2, <1>6, <1>8, <1>11, <1>12, <1>14, <1>16 DEF id

(* The frame above takes the separator.                                     *)
LEMMA InsertSplitMaps ==
  ASSUME MapInv, IInv', InsertSplit
  PROVE  MapInv'
<1> SUFFICES ASSUME NEW p, p = TopPage, NEW i, i = Way(p, split.key),
                    NEW q, q = WithCell(p, i, split.key, split.val, split.right)
             PROVE  MapInv'
  OBVIOUS
<1> DEFINE id == Last(path)
           G  == [y \in NodeIds |-> IF y = id THEN q ELSE Held[y]]
<1>1. /\ pc = "insertSplit"
      /\ DoInsert(id, p, i, split.key, split.val, split.right)
  BY DEF InsertSplit, Way
<1>2. PICK own, lev, left : Arranged(own, lev, left)
  BY <1>1 DEF MapInv
<1>3. /\ Placing(G, id, q, own, lev)
      /\ ~p.leaf /\ q.leaf = p.leaf /\ q.next = p.next /\ p.next \in Int
  BY <1>2, SplitPlaced
<1>4. ~q.leaf
  BY <1>3
<1> HIDE DEF G, id
<1>5. QED
  BY <1>1, <1>3, <1>4, DoInsertMaps

(* A new root over the two halves of the old one.                           *)
LEMMA RootHeld ==
  ASSUME MapInv, NewRoot, pc' # "corrupt"
  PROVE  /\ Held'[pageCount] = RootPage(root, split.key, split.val, split.right)
         /\ \A y \in NodeIds : Held'[y] = Held[y]
         /\ NodeIds' = NodeIds \cup {pageCount} /\ pageCount \notin NodeIds
         /\ NodeIds \subseteq Nat
         /\ split.key \in Int /\ split.val \in Values \cup {Nil}
         /\ pc = "newRoot" /\ pc' = "writeHeader" /\ root' = pageCount
<1> DEFINE p == RootPage(root, split.key, split.val, split.right)
<1>1. /\ pc = "newRoot"
      /\ WriteNode(Extended, pageCount, p)
      /\ pc' = "writeHeader"
      /\ pageCount' = pageCount + 1 /\ root' = pageCount
  BY DEF NewRoot, Allocate, RootPage, RootCell
<1> HIDE DEF p
<1>2. file' = [Extended EXCEPT ![pageCount] = p]
  BY <1>1 DEF WriteNode, MapInv, IInv, Shape
<1>3. Extended = [x \in NodeIds \cup {pageCount} |->
                    IF x = pageCount THEN BlankPage ELSE file[x]]
  BY DEF Extended, With, MapInv, IInv, Shape
<1>4. /\ NodeIds' = NodeIds \cup {pageCount} /\ pageCount \notin NodeIds
      /\ NodeIds \subseteq Nat
  BY <1>1 DEF NodeIds, MapInv, IInv, Shape
<1>5. Held' = [y \in NodeIds \cup {pageCount} |-> file'[y]]
  BY <1>1, <1>4 DEF Held, Awaited
<1>6. file'[pageCount] = p /\ \A y \in NodeIds : file'[y] = file[y]
  BY <1>2, <1>3, <1>4
<1>7. \A y \in NodeIds : Held[y] = file[y]
  BY <1>1, ReadHeld
<1>8. split.key \in Int /\ split.val \in Values \cup {Nil}
  BY <1>1 DEF MapInv, IInv, SplitGood
<1>9. QED
  BY <1>1, <1>4, <1>5, <1>6, <1>7, <1>8 DEF p

(* It is for all keys.                                                      *)
LEMMA NewRootMaps ==
  ASSUME MapInv, IInv', NewRoot
  PROVE  MapInv'
<1> SUFFICES ASSUME NEW p, p = RootPage(root, split.key, split.val, split.right)
             PROVE  MapInv'
  OBVIOUS
<1> DEFINE want == Updated(contents, call.key, call.val)
<1>1. /\ pc = "newRoot"
      /\ pc' \in {"writeHeader", "corrupt"}
      /\ cached' = Without(cached, pageCount)
      /\ UNCHANGED <<split, call, contents>>
  BY DEF NewRoot, WriteNode, MapInv, IInv, Shape
<1>2. DOMAIN cached' = {}
  BY <1>1 DEF Without, MapInv
<1>3. CallOK'
  BY <1>1 DEF MapInv, CallOK
<1>4. SUFFICES ASSUME pc' = "writeHeader"
               PROVE  \E own, lev, left : Arranged(own, lev, left)'
  BY <1>1, <1>2, <1>3 DEF MapInv
<1>5. /\ Held'[pageCount] = p /\ \A y \in NodeIds : Held'[y] = Held[y]
      /\ NodeIds' = NodeIds \cup {pageCount} /\ pageCount \notin NodeIds
      /\ NodeIds \subseteq Nat /\ split.val \in Values \cup {Nil}
      /\ root' = pageCount
  BY <1>4, RootHeld
<1>6. PICK own, lev, left : Arranged(own, lev, left)
  BY <1>1 DEF MapInv
<1>7. Splitting(Held, NodeIds, root, own, lev, want, root,
                split.right, split.key, split.val)
  BY <1>1, <1>6 DEF Arranged, TreeSound, SplitAt, Want, Inserted, Pending
<1> SUFFICES ASSUME NEW o, o = OwnRooted(own, NodeIds, pageCount),
                    NEW v, v = LevRooted(lev, NodeIds, root, pageCount)
             PROVE  Arranged(o, v, left)'
  OBVIOUS
<1>8. Valid(Held', NodeIds \cup {pageCount}, pageCount, o, v, o, want)
  <2> DEFINE s  == split.key
             sv == split.val
             rt == split.right
             F  == Held'
             ids == NodeIds
             z  == pageCount
  <2> HIDE DEF want
  <2>1. Rooting(Held, ids, root, own, lev, want, rt, s, sv, z, p)
    BY <1>5, <1>7 DEF Rooting, want
  <2>2. /\ F[z] = p /\ \A y \in ids : F[y] = Held[y]
        /\ o = OwnRooted(own, ids, z) /\ v = LevRooted(lev, ids, root, z)
    BY <1>5
  <2> HIDE DEF s, sv, rt, F, ids, z
  <2>3. Valid(F, ids \cup {z}, z, o, v, o, want)
    BY <2>1, <2>2, RootSound
  <2>4. QED
    BY <2>3 DEF F, ids, z
<1>9. Want' = want
  BY <1>1, <1>4 DEF Want, Inserted
<1> HIDE DEF want
<1>10. TreeSound(o, v, left)'
  BY <1>1, <1>4, <1>5, <1>8, <1>9 DEF TreeSound, Pending
<1>11. QED
  BY <1>4, <1>10 DEF Arranged, SplitAt, Chain, Reading

(* The header page is none of the tree.                                     *)
LEMMA WriteHeaderMaps ==
  ASSUME MapInv, IInv', WriteHeader
  PROVE  MapInv'
<1>1. /\ pc = "writeHeader" /\ pc' = "return"
      /\ UNCHANGED <<file, cached, pageCount, root, split, call, contents>>
  BY DEF WriteHeader
<1>2. NodeIds' = NodeIds /\ Held' = Held
  BY <1>1, SameTree
<1>3. PICK own, lev, left : Arranged(own, lev, left)
  BY <1>1 DEF MapInv
<1>4. Want' = Want
  BY <1>1 DEF Want, Inserted
<1>5. TreeSound(own, lev, left)'
  BY <1>1, <1>2, <1>3, <1>4 DEF Arranged, TreeSound, Pending
<1>6. Arranged(own, lev, left)'
  BY <1>1, <1>5 DEF Arranged, SplitAt, Chain, Reading
<1>7. CallOK' /\ DOMAIN cached' = {}
  BY <1>1 DEF MapInv, CallOK
<1>8. QED
  BY <1>6, <1>7 DEF MapInv

(* The insertion returns: what was stored is what the contents now are.     *)
LEMMA ReturnInsertMaps ==
  ASSUME MapInv, IInv', ReturnInsert
  PROVE  MapInv'
<1>1. /\ pc = "return" /\ pc' = "idle" /\ call' = NoCall
      /\ contents' = Updated(contents, call.key, call.val)
      /\ UNCHANGED <<file, cached, pageCount, root>>
  BY DEF ReturnInsert, Updated
<1>2. NodeIds' = NodeIds
  BY <1>1 DEF NodeIds
<1>3. Held' = Held
  BY <1>1, <1>2 DEF Held, Awaited
<1>4. PICK own, lev, left : Arranged(own, lev, left)
  BY <1>1 DEF MapInv
<1>5. Want = contents' /\ Want' = contents'
  BY <1>1 DEF Want, Inserted, Pending
<1>6. TreeSound(own, lev, left)'
  BY <1>1, <1>2, <1>3, <1>4, <1>5 DEF Arranged, TreeSound, Pending
<1>7. Arranged(own, lev, left)'
  BY <1>1, <1>6 DEF Arranged, SplitAt, Chain, Reading
<1>8. contents' \in [Keys -> Values \cup {Nil}]
  <2>1. contents \in [Keys -> Values \cup {Nil}] /\ call.val \in Values
    BY <1>1 DEF MapInv, CallOK
  <2>2. QED
    BY <1>1, <2>1 DEF Updated
<1>9. CallOK' /\ DOMAIN cached' = {}
  BY <1>1, <1>8 DEF MapInv, CallOK
<1>10. QED
  BY <1>7, <1>9 DEF MapInv

(* A stuttering step changes nothing.                                       *)
LEMMA StutterMaps ==
  ASSUME MapInv, UNCHANGED vars
  PROVE  MapInv'
<1>1. /\ UNCHANGED <<file, cached, pageCount, root, pc, path, split, call, contents>>
      /\ NodeIds' = NodeIds
  BY DEF vars, NodeIds
<1>2. IInv'
  BY StutterKeeps DEF MapInv
<1>3. Held' = Held /\ Want' = Want
  BY <1>1 DEF Held, Awaited, Want, Inserted, Pending
<1>4. ASSUME NEW own, NEW lev, NEW left, Arranged(own, lev, left)
      PROVE  Arranged(own, lev, left)'
  <2>1. TreeSound(own, lev, left)'
    BY <1>1, <1>3, <1>4 DEF Arranged, TreeSound, Pending
  <2>2. SplitAt(left)' /\ Chain(own, lev)' /\ Reading(own, lev)'
    BY <1>1, <1>3, <1>4 DEF Arranged, SplitAt, Chain, Reading
  <2>3. QED
    BY <2>1, <2>2 DEF Arranged
<1>5. CallOK' /\ DOMAIN cached' = {}
  BY <1>1 DEF MapInv, CallOK
<1>6. pc' # "corrupt" => \E own, lev, left : Arranged(own, lev, left)'
  BY <1>1, <1>4 DEF MapInv
<1>7. QED
  BY <1>2, <1>5, <1>6 DEF MapInv

(* A Delete changes what the index is to hold and no page.                  *)
Deletes == \E k \in DeleteKeys : Delete(k)

(* Every other step of the engine keeps the table.                          *)
LEMMA EngineMaps ==
  ASSUME MapInv, ~Ousts, ~Deletes, Engine
  PROVE  MapInv'
<1>1. IInv'
  BY EngineKeeps DEF MapInv
<1>2. CASE \E k \in Keys, v \in Values : Insert(k, v)
  BY <1>1, <1>2, InsertMaps
<1>3. CASE InsertOverwrite
  BY <1>1, <1>3, InsertOverwriteMaps
<1>4. CASE InsertInLeaf
  BY <1>1, <1>4, InsertInLeafMaps
<1>5. CASE InsertDescend
  BY <1>1, <1>5, InsertDescendMaps
<1>6. CASE WriteRight
  BY <1>1, <1>6, WriteRightMaps
<1>7. CASE InsertSplit
  BY <1>1, <1>7, InsertSplitMaps
<1>8. CASE NewRoot
  BY <1>1, <1>8, NewRootMaps
<1>9. CASE WriteHeader
  BY <1>1, <1>9, WriteHeaderMaps
<1>10. CASE ReturnInsert
  BY <1>1, <1>10, ReturnInsertMaps
<1>11. DOMAIN cached = {}
  BY DEF MapInv
<1>12. QED
  BY <1>2, <1>3, <1>4, <1>5, <1>6, <1>7, <1>8, <1>9, <1>10, <1>11
     DEF Engine, InsertStep, Deletes

(* What a step of the engine does to the call and to the contents.          *)
LEMMA EngineCalls ==
  ASSUME MapInv, ~Deletes, Engine
  PROVE  \/ /\ call = NoCall /\ contents' = contents
            /\ \E k \in Keys, v \in Values :
                 call' = [op |-> "insert", key |-> k, val |-> v]
         \/ /\ call.op = "insert" /\ call' = NoCall
            /\ contents' = [contents EXCEPT ![call.key] = call.val]
         \/ UNCHANGED <<contents, call>>
<1>1. CASE \E k \in Keys, v \in Values : Insert(k, v)
  BY <1>1 DEF Insert, MapInv, CallOK
<1>2. CASE InsertOverwrite
  BY <1>2 DEF InsertOverwrite, WriteAndReturn
<1>3. CASE InsertInLeaf
  BY <1>3 DEF InsertInLeaf, DoInsert, WriteAndReturn, SplitNode
<1>4. CASE InsertDescend
  BY <1>4 DEF InsertDescend
<1>5. CASE WriteRight
  BY <1>5 DEF WriteRight
<1>6. CASE InsertSplit
  BY <1>6 DEF InsertSplit, DoInsert, WriteAndReturn, SplitNode
<1>7. CASE NewRoot
  BY <1>7 DEF NewRoot
<1>8. CASE WriteHeader
  BY <1>8 DEF WriteHeader
<1>9. CASE ReturnInsert
  BY <1>9 DEF ReturnInsert, MapInv, CallOK
<1>10. DOMAIN cached = {}
  BY DEF MapInv
<1>11. QED
  BY <1>1, <1>2, <1>3, <1>4, <1>5, <1>6, <1>7, <1>8, <1>9, <1>10
     DEF Engine, InsertStep, Deletes
-----------------------------------------------------------------------------
(* What a search does, in either tree.                                      *)

(* A search is on page x.                                                   *)
Searching(own, lev, x) ==
  /\ x \in NodeIds /\ path = <<x>>
  /\ Valid(Held, NodeIds, root, own, lev, own, contents)
  /\ PageOK(TopPage, x, NodeIds, own, lev, own, contents)
  /\ call.key \in Keys /\ call.key \in Int
  /\ contents \in [Keys -> Values \cup {Nil}]

(* A search is on a page that would have its key or lead to it.             *)
LEMMA PageSearched ==
  ASSUME MapInv, pc \in {"get", "findLeaf", "scan"}
  PROVE  \E own, lev, left, x :
           /\ Arranged(own, lev, left)
           /\ Searching(own, lev, x)
           /\ pc \in {"get", "findLeaf"} => call.key \in own[x]
           /\ pc = "scan" =>
                lev[x] = 0 /\ (call.key \in own[x] \/ contents[call.key] = Nil)
<1>1. PICK own, lev, left : Arranged(own, lev, left)
  BY DEF MapInv
<1>2. PICK x \in NodeIds :
        /\ path = <<x>>
        /\ pc \in {"get", "findLeaf"} => call.key \in own[x]
        /\ pc = "scan" =>
             lev[x] = 0 /\ (call.key \in own[x] \/ contents[call.key] = Nil)
  BY <1>1 DEF Arranged, Reading
<1>3. Valid(Held, NodeIds, root, own, lev, own, contents)
  BY <1>1 DEF Arranged, TreeSound, Want, Inserted, Pending
<1>4. TopPage = Held[x]
  <2>1. Last(path) = x
    BY <1>2 DEF Last
  <2>2. QED
    BY <1>2, <2>1, ReadHeld DEF TopPage
<1>5. PageOK(TopPage, x, NodeIds, own, lev, own, contents)
  BY <1>3, <1>4 DEF Valid
<1>6. /\ call.key \in Keys /\ call.key \in Int
      /\ contents \in [Keys -> Values \cup {Nil}]
  BY KeysAssumption DEF MapInv, CallOK
<1>7. Searching(own, lev, x)
  BY <1>2, <1>3, <1>5, <1>6 DEF Searching
<1>8. QED
  BY <1>1, <1>2, <1>7

(* A cell found where pairs are stored has the value the index is to hold.  *)
LEMMA HitIsStored ==
  ASSUME NEW own, NEW lev, NEW x, Searching(own, lev, x),
         KeyAt(TopPage, Pos), TopPage.leaf \/ ~CopyUpLeaves
  PROVE  /\ TopPage.cells[Pos].val = contents[call.key]
         /\ TopPage.cells[Pos].val # Nil
<1> DEFINE p == TopPage
<1>1. IsPage(p) /\ ValuesOK(p, contents) /\ call.key \in Int
  BY DEF Searching, PageOK
<1>2. NumCells(p) \in Nat /\ Pos \in 1 .. NumCells(p) + 1
  BY <1>1, PosIsFound
<1>3. Pos \in 1 .. NumCells(p) /\ p.cells[Pos].key = call.key
  BY <1>2 DEF KeyAt
<1>4. QED
  BY <1>1, <1>3 DEF ValuesOK

(* A key that the leaf for it does not have where FindIdx looks is absent.  *)
LEMMA MissIsAbsent ==
  ASSUME NEW own, NEW lev, NEW x, Searching(own, lev, x), call.key \in own[x],
         TopPage.leaf, ~KeyAt(TopPage, Pos)
  PROVE  contents[call.key] = Nil
<1> SUFFICES ASSUME contents[call.key] # Nil
             PROVE  FALSE
  OBVIOUS
<1> DEFINE p    == TopPage
           k    == call.key
           leaf == TopPage.leaf
<1>1. /\ IsPage(p) /\ Increasing(p) /\ LeafOK(p, own[x], contents)
      /\ k \in Int /\ k \in Keys
  BY DEF Searching, PageOK
<1>2. PICK i \in 1 .. NumCells(p) : p.cells[i].key = k
  BY <1>1 DEF LeafOK
<1>3. NumCells(p) \in Nat /\ Pos \in 1 .. NumCells(p) + 1
  BY <1>1, PosIsFound
<1>4. Pos = FindIdx(p, k, leaf) /\ leaf \in BOOLEAN /\ leaf
  BY <1>1 DEF Pos, IsPage
<1>5. Ordered(p)
  BY <1>1, IncreasingOrdered
<1>6. ~(Pos <= NumCells(p) /\ p.cells[Pos].key = k)
  BY DEF KeyAt
<1> HIDE DEF p, k, leaf
<1>7. /\ \A j \in 1 .. Pos - 1 : /\ p.cells[j].key <= k
                                 /\ leaf => p.cells[j].key < k
      /\ \A j \in Pos .. NumCells(p) : k <= p.cells[j].key
  BY <1>1, <1>4, <1>5, FindIdxSplitsPage
<1>8. CASE i < Pos
  <2>1. i \in 1 .. Pos - 1
    BY <1>3, <1>8
  <2>2. p.cells[i].key < k
    BY <1>4, <1>7, <2>1
  <2>3. QED
    BY <1>1, <1>2, <2>2
<1>9. CASE i > Pos
  <2>1. Pos \in 1 .. NumCells(p) /\ Pos \in Pos .. NumCells(p)
    BY <1>3, <1>9
  <2>2. p.cells[Pos].key < p.cells[i].key
    BY <1>1, <1>9, <2>1 DEF Increasing
  <2>3. k <= p.cells[Pos].key /\ p.cells[Pos].key \in Int
    BY <1>1, <1>7, <2>1, CellsOfPage
  <2>4. QED
    BY <1>1, <1>2, <2>2, <2>3
<1>10. CASE i = Pos
  BY <1>2, <1>3, <1>6, <1>10
<1>11. i < Pos \/ i > Pos \/ i = Pos
  BY <1>3
<1>12. QED
  BY <1>8, <1>9, <1>10, <1>11

(* The search goes on in the child for the key.                             *)
LEMMA DescendMaps ==
  ASSUME MapInv, IInv', pc \in {"get", "findLeaf"}, ~TopPage.leaf,
         ~KeyAt(TopPage, Pos), path' = <<ChildAt(TopPage, Pos)>>,
         UNCHANGED <<file, cached, pageCount, root, pc, split, call, contents>>
  PROVE  MapInv'
<1> DEFINE p == TopPage
<1>1. PICK own, lev, left, x :
        /\ Arranged(own, lev, left)
        /\ Searching(own, lev, x) /\ call.key \in own[x]
  BY PageSearched
<1>2. /\ IsPage(p) /\ Increasing(p) /\ x \in NodeIds
      /\ call.key \in Int /\ own[x] \subseteq Int
      /\ ChildrenOK(p, x, NodeIds, own, lev, own)
  BY <1>1 DEF Searching, PageOK, Valid, Spread
<1>3. Pos \in 1 .. NumCells(p) + 1 /\ Pos = Way(p, call.key)
  BY <1>2, PosIsFound
<1>4. ~KeyOn(p, Pos, call.key)
  BY DEF KeyAt, KeyOn
<1>5. call.key \in Share(p, own[x], Pos)
  <2> DEFINE k == call.key
             o == own[x]
  <2>1. k \in o /\ o \subseteq Int /\ Pos = Way(p, k) /\ ~KeyOn(p, Pos, k)
    BY <1>1, <1>2, <1>3, <1>4
  <2> HIDE DEF k, o, p
  <2>2. k \in Share(p, o, Pos)
    BY <1>2, <1>3, <2>1, ShareIsFound
  <2>3. QED
    BY <2>2 DEF k, o
<1> SUFFICES ASSUME NEW child, child = ChildAt(p, Pos)
             PROVE  MapInv'
  OBVIOUS
<1>6. child \in NodeIds /\ call.key \in own[child]
  <2>1. ChildOK(p, Pos, x, NodeIds, own, lev, own)
    BY <1>2, <1>3 DEF ChildrenOK
  <2>2. QED
    BY <1>5, <2>1 DEF ChildOK
<1>7. NodeIds' = NodeIds /\ Held' = Held
  BY SameTree
<1>8. path' = <<child>>
  OBVIOUS
<1> HIDE DEF p
<1>9. Want' = contents
  BY DEF Want, Inserted, Pending
<1>10. TreeSound(own, lev, left)'
  BY <1>1, <1>7, <1>9 DEF TreeSound, Pending, Searching
<1>11. Reading(own, lev)'
  BY <1>6, <1>7, <1>8 DEF Reading
<1>12. Arranged(own, lev, left)'
  BY <1>10, <1>11 DEF Arranged, SplitAt, Chain
<1>13. CallOK' /\ DOMAIN cached' = {}
  BY DEF MapInv, CallOK
<1>14. QED
  BY <1>12, <1>13 DEF MapInv

(* A search begins at the root.                                             *)
LEMMA SearchBegins ==
  ASSUME MapInv, IInv', pc = "idle", pc' \in {"get", "findLeaf"},
         NEW k \in Keys, call' = [op |-> "get", key |-> k], path' = <<root>>,
         UNCHANGED <<file, cached, pageCount, root, split, contents>>
  PROVE  MapInv'
<1>1. PICK own, lev, left : Arranged(own, lev, left)
  BY DEF MapInv
<1>2. NodeIds' = NodeIds /\ Held' = Held
  BY SameTree
<1>3. Valid(Held, NodeIds, root, own, lev, own, contents)
  BY <1>1 DEF Arranged, TreeSound, Want, Inserted, Pending
<1>4. root \in NodeIds /\ own[root] = Int /\ call'.key \in Int
  BY <1>3, KeysAssumption DEF Valid, Spread
<1>5. Want' = contents
  BY DEF Want, Inserted, Pending
<1>6. TreeSound(own, lev, left)'
  BY <1>2, <1>3, <1>5 DEF TreeSound, Pending
<1>7. Reading(own, lev)'
  BY <1>2, <1>4 DEF Reading
<1>8. Arranged(own, lev, left)'
  BY <1>6, <1>7 DEF Arranged, SplitAt, Chain
<1>9. CallOK' /\ DOMAIN cached' = {}
  BY DEF MapInv, CallOK
<1>10. QED
  BY <1>8, <1>9 DEF MapInv

(* A search ends, or its answer is taken.                                   *)
LEMMA SearchEnds ==
  ASSUME MapInv, IInv', pc \in {"get", "findLeaf", "scan", "answer"},
         \/ pc' = "answer" /\ call'.op = "answer"
         \/ pc' = "idle" /\ call' = NoCall,
         UNCHANGED <<file, cached, pageCount, root, split, contents>>
  PROVE  MapInv'
<1>1. PICK own, lev, left : Arranged(own, lev, left)
  BY DEF MapInv
<1>2. NodeIds' = NodeIds /\ Held' = Held
  BY SameTree
<1>3. Valid(Held, NodeIds, root, own, lev, own, contents)
  BY <1>1 DEF Arranged, TreeSound, Want, Inserted, Pending
<1>4. Want' = contents
  BY DEF Want, Inserted, Pending
<1>5. TreeSound(own, lev, left)'
  BY <1>2, <1>3, <1>4 DEF TreeSound, Pending
<1>6. Arranged(own, lev, left)'
  BY <1>5 DEF Arranged, SplitAt, Chain, Reading
<1>7. CallOK' /\ DOMAIN cached' = {}
  BY DEF MapInv, CallOK
<1>8. QED
  BY <1>6, <1>7 DEF MapInv

(* With values of one length no value ever outgrows the one it replaces.    *)
LEMMA SameLengthNeverOusts ==
  ASSUME MapInv, \A v, w \in Values : ValLen[v] = ValLen[w]
  PROVE  ~Ousts
<1> SUFFICES ASSUME pc = "insertRec", KeyAt(TopPage, Pos), ~Room,
                    TopPage.leaf => CopyUpLeaves
             PROVE  FALSE
  BY DEF Ousts
<1> DEFINE p == TopPage
<1>1. PICK own, lev, left : Arranged(own, lev, left)
  BY DEF MapInv
<1>2. Come(own, lev)
  BY <1>1, TopIsCome
<1>3. /\ IsPage(p) /\ ValuesOK(p, contents) /\ KeysOK(p, own[Last(path)])
      /\ call.key \in Int /\ call.val \in Values /\ call.key \in Keys
      /\ contents \in [Keys -> Values \cup {Nil}]
  BY <1>2 DEF Come, PageOK
<1>4. NumCells(p) \in Nat /\ Pos \in 1 .. NumCells(p) + 1
  BY <1>3, PosIsFound
<1>5. Pos \in 1 .. NumCells(p) /\ p.cells[Pos].key = call.key
  BY <1>4 DEF KeyAt
<1>6. p.leaf \/ ~CopyUpLeaves
  <2>1. SUFFICES ASSUME ~p.leaf, CopyUpLeaves
                 PROVE  FALSE
    OBVIOUS
  <2>2. Pos = Way(p, call.key)
    BY <1>3, <2>1, PosIsFound
  <2>3. ~KeyOn(p, Pos, call.key)
    BY <1>3, <2>1, <2>2, SeparatorPassed
  <2>4. QED
    BY <1>5, <1>4, <2>3 DEF KeyOn
<1>7. /\ p.cells[Pos].val = contents[call.key]
      /\ p.cells[Pos].val # Nil
  BY <1>3, <1>5, <1>6 DEF ValuesOK
<1>8. p.cells[Pos].val \in Values
  BY <1>3, <1>7
<1>9. Length(call.val) <= Length(p.cells[Pos].val)
  <2>1. call.val # Nil
    BY <1>3, ValuesAssumption
  <2>2. Length(call.val) = ValLen[call.val]
        /\ Length(p.cells[Pos].val) = ValLen[p.cells[Pos].val]
    BY <1>7, <2>1 DEF Length
  <2>3. ValLen[call.val] \in Nat
    BY <1>3, ValuesAssumption
  <2>4. QED
    BY <1>3, <1>8, <2>2, <2>3
<1>10. QED
  BY <1>9 DEF Room
-----------------------------------------------------------------------------
(* Reached chooses one of the walks there are.                              *)
LEMMA ReachedIsWalk ==
  ASSUME NEW links, NEW r, Cardinality(DOMAIN links) \in Nat
  PROVE  \E f : /\ Explores(f, links, r, Cardinality(DOMAIN links))
                /\ Reached(links, r) = f[Cardinality(DOMAIN links)]
<1> DEFINE m == Cardinality(DOMAIN links)
           f == CHOOSE f : Explores(f, links, r, m)
<1>1. Explores(f, links, r, m)
  BY WalksExist
<1>2. Reached(links, r) = f[m]
  BY DEF Reached, Explores, Onward
<1>3. QED
  BY <1>1, <1>2

(* The links between the pages H, as PagesUnder takes them.                 *)
LinksOf(H, ids) == [id \in ids |-> ToSet(ChildSeq(H[id]))]

(* What the links lead to has no link that leads further.                   *)
LEMMA ReachedCloses ==
  ASSUME NEW links, IsFiniteSet(DOMAIN links), NEW r \in DOMAIN links
  PROVE  /\ r \in Reached(links, r)
         /\ \A x \in Reached(links, r) : \A y \in links[x] :
              y \in DOMAIN links => y \in Reached(links, r)
<1> DEFINE m == Cardinality(DOMAIN links)
<1>1. m \in Nat
  BY FS_CardinalityType
<1>2. PICK f : Explores(f, links, r, m) /\ Reached(links, r) = f[m]
  BY <1>1, ReachedIsWalk
<1>3. Onward(links, f[m]) = f[m]
  BY <1>2, WalkCloses
<1> HIDE DEF m
<1>4. r \in f[m]
  <2>1. f[0] = {r} /\ f[0] \subseteq f[m]
    BY <1>1, <1>2, WalkGrows
  <2>2. QED
    BY <2>1
<1>5. QED
  BY <1>2, <1>3, <1>4, OnwardElements

(* They lead out of no set that they do not leave.                          *)
LEMMA ReachedStays ==
  ASSUME NEW links, IsFiniteSet(DOMAIN links), NEW r, NEW T, r \in T,
         \A x \in T : \A y \in links[x] : y \in DOMAIN links => y \in T
  PROVE  Reached(links, r) \subseteq T
<1> DEFINE m == Cardinality(DOMAIN links)
<1>1. m \in Nat
  BY FS_CardinalityType
<1>2. PICK f : Explores(f, links, r, m) /\ Reached(links, r) = f[m]
  BY <1>1, ReachedIsWalk
<1> HIDE DEF m
<1>3. QED
  BY <1>1, <1>2, WalkStays

(* Links lead from a page to itself, or to pages they are given for.        *)
LEMMA ReachedWithin ==
  ASSUME NEW links, NEW r, IsFiniteSet(DOMAIN links)
  PROVE  Reached(links, r) \subseteq DOMAIN links \cup {r}
BY ReachedStays

(* From page r they lead down to the children of every page they come to.   *)
LEMMA ReachedChildren ==
  ASSUME NEW H, NEW ids, IsFiniteSet(ids), NEW r \in ids
  PROVE  LET T == Reached(LinksOf(H, ids), r)
         IN  /\ r \in T /\ T \subseteq ids
             /\ \A x \in T : ~H[x].leaf => \A i \in 1 .. NumCells(H[x]) + 1 :
                  ChildAt(H[x], i) \in ids => ChildAt(H[x], i) \in T
<1> DEFINE links == LinksOf(H, ids)
           T == Reached(links, r)
<1>1. DOMAIN links = ids /\ \A x \in ids : links[x] = ToSet(ChildSeq(H[x]))
  BY DEF LinksOf
<1> HIDE DEF links
<1>2. r \in T /\ T \subseteq ids /\ \A x \in T : \A y \in links[x] : y \in ids => y \in T
  BY <1>1, ReachedCloses, ReachedWithin
<1> HIDE DEF T
<1>3. ASSUME NEW x \in T, ~H[x].leaf, NEW i \in 1 .. NumCells(H[x]) + 1
      PROVE  ChildAt(H[x], i) \in links[x]
  BY <1>1, <1>2, <1>3 DEF ChildSeq, ToSet
<1>4. QED
  BY <1>2, <1>3 DEF T, links
-----------------------------------------------------------------------------
(* The pair of k is stored on page x, in its cell i.                        *)
Holder(H, ids, x, i, k) ==
  /\ x \in ids /\ (H[x].leaf \/ ~CopyUpLeaves)
  /\ i \in 1 .. NumCells(H[x]) /\ H[x].cells[i].key = k

(* What is stored is what is to be stored.                                  *)
LEMMA HolderValue ==
  ASSUME NEW H, NEW ids, NEW r, NEW own, NEW lev, NEW whole, NEW want,
         Valid(H, ids, r, own, lev, whole, want),
         NEW x, NEW i, NEW k, Holder(H, ids, x, i, k)
  PROVE  /\ k \in Keys /\ k \in own[x]
         /\ H[x].cells[i].val = want[k] /\ want[k] # Nil
<1>1. PageOK(H[x], x, ids, own, lev, whole, want)
  BY DEF Valid, Holder
<1>2. QED
  BY <1>1 DEF Holder, PageOK, KeysOK, ValuesOK

(* A key is stored in one cell only.                                        *)
LEMMA HolderIsOne ==
  ASSUME NEW H, NEW ids, NEW r, NEW own, NEW lev, NEW want,
         Valid(H, ids, r, own, lev, own, want), NEW k,
         NEW x, NEW i, Holder(H, ids, x, i, k),
         NEW y, NEW j, Holder(H, ids, y, j, k)
  PROVE  x = y /\ i = j
<1>1. /\ PageOK(H[x], x, ids, own, lev, own, want)
      /\ PageOK(H[y], y, ids, own, lev, own, want)
      /\ x \in ids /\ y \in ids /\ lev[x] \in Nat /\ lev[y] \in Nat
  BY DEF Valid, Spread, Holder
<1>2. k \in own[x] /\ k \in own[y] /\ k \in Int
  BY HolderValue, KeysAssumption
<1>3. lev[x] = lev[y]
  <2>1. CASE CopyUpLeaves
    BY <1>1, <2>1 DEF Holder, PageOK, KindOK
  <2>2. CASE ~CopyUpLeaves
    <3>1. Topmost(k, lev[x], ids, own, lev) /\ Topmost(k, lev[y], ids, own, lev)
      BY <1>1, <2>2 DEF Holder, PageOK, OnceOK
    <3>2. ~(lev[x] < lev[y]) /\ ~(lev[y] < lev[x])
      BY <1>1, <1>2, <3>1 DEF Topmost
    <3>3. QED
      BY <1>1, <3>2
  <2>3. QED
    BY <2>1, <2>2
<1>4. x = y
  BY <1>1, <1>2, <1>3 DEF Valid, Spread
<1>5. i = j
  <2>1. NumCells(H[x]) \in Nat /\ Increasing(H[x])
    BY <1>1, CellsOfPage DEF PageOK
  <2>2. /\ i \in 1 .. NumCells(H[x]) /\ j \in 1 .. NumCells(H[x])
        /\ H[x].cells[i].key = k /\ H[x].cells[j].key = k
    BY <1>4 DEF Holder
  <2>3. ~(i < j) /\ ~(j < i)
    BY <1>2, <2>1, <2>2 DEF Increasing
  <2>4. QED
    BY <2>1, <2>2, <2>3
<1>6. QED
  BY <1>4, <1>5

(* One level down from an internal page is a child for each of its keys,    *)
(* unless the page itself stores the key.                                   *)
LEMMA HolderOrChild ==
  ASSUME NEW H, NEW ids, NEW r, NEW own, NEW lev, NEW whole, NEW want,
         Valid(H, ids, r, own, lev, whole, want),
         NEW x \in ids, ~H[x].leaf, NEW k \in own[x]
  PROVE  \/ \E i : Holder(H, ids, x, i, k)
         \/ \E j \in 1 .. NumCells(H[x]) + 1 :
              /\ ChildAt(H[x], j) \in ids /\ k \in whole[ChildAt(H[x], j)]
              /\ lev[x] = lev[ChildAt(H[x], j)] + 1
<1> DEFINE p == H[x]
           f == Way(p, k)
<1>1. /\ IsPage(p) /\ Increasing(p) /\ ChildrenOK(p, x, ids, own, lev, whole)
      /\ own[x] \subseteq Int /\ NumCells(p) \in Nat
  BY CellsOfPage DEF Valid, Spread, PageOK
<1>2. f \in 1 .. NumCells(p) + 1
  BY <1>1, FindIdxIsBorder DEF Way
<1>3. CASE KeyOn(p, f, k) /\ ~CopyUpLeaves
  <2>1. f \in 1 .. NumCells(p)
    BY <1>1, <1>2, <1>3 DEF KeyOn
  <2>2. QED
    BY <1>3, <2>1 DEF Holder, KeyOn
<1>4. CASE ~KeyOn(p, f, k)
  <2>1. k \in Share(p, own[x], f)
    BY <1>1, <1>2, <1>4, ShareIsFound
  <2>2. ChildOK(p, f, x, ids, own, lev, whole)
    BY <1>1, <1>2 DEF ChildrenOK
  <2>3. QED
    BY <1>2, <2>1, <2>2 DEF ChildOK
<1>5. CASE KeyOn(p, f, k) /\ CopyUpLeaves
  <2>1. f \in 1 .. NumCells(p) /\ p.cells[f].key = k
    BY <1>1, <1>2, <1>5 DEF KeyOn
  <2>2. k \in Int /\ ~GoesRight(p, f, k, FALSE)
    <3>1. k \in Int /\ NumCells(p) \in Nat /\ f <= NumCells(p)
      BY <1>1, <2>1
    <3>2. QED
      BY <1>1, <3>1, FindIdxIsBorder DEF Way
  <2>3. QED
    BY <1>1, <1>5, <2>1, <2>2, CellsOfPage DEF GoesRight
<1>6. QED
  BY <1>3, <1>4, <1>5

(* Every level of the tree has a page: there are no more levels than pages. *)
LEMMA LevelsArePages ==
  ASSUME NEW H, NEW ids, NEW r, NEW own, NEW lev, NEW want,
         Valid(H, ids, r, own, lev, own, want), IsFiniteSet(ids)
  PROVE  /\ lev[r] \in Nat /\ Cardinality(ids) \in Nat
         /\ lev[r] <= Cardinality(ids) /\ lev[r] + 1 <= Cardinality(ids)
<1> DEFINE L == lev[r]
           Bad == {d \in 0 .. L : \A y \in ids : lev[y] # L - d}
<1>1. /\ lev \in [ids -> Nat] /\ r \in ids /\ L \in Nat
      /\ \A x \in ids : PageOK(H[x], x, ids, own, lev, own, want)
  BY DEF Valid, Spread
<1>2. Bad = {}
  <2>1. SUFFICES ASSUME Bad # {} PROVE FALSE
    OBVIOUS
  <2>2. PICK d \in Bad : \A e \in Bad : d <= e
    <3>1. Bad \subseteq Nat
      OBVIOUS
    <3> HIDE DEF Bad
    <3>2. QED
      BY <2>1, <3>1, LeastNat
  <2>3. d \in 1 .. L
    <3>1. d # 0
      BY <1>1, <2>2
    <3>2. QED
      BY <1>1, <2>2, <3>1
  <2>4. d - 1 \in 0 .. L /\ ~(d <= d - 1)
    BY <1>1, <2>3
  <2>5. PICK x \in ids : lev[x] = L - (d - 1)
    BY <2>2, <2>4
  <2>6. lev[x] # 0
    BY <1>1, <2>3, <2>5
  <2>7. PICK y \in ids : lev[x] = lev[y] + 1
    <3>1. PageOK(H[x], x, ids, own, lev, own, want)
      BY <1>1
    <3>2. ~H[x].leaf /\ IsPage(H[x])
      BY <2>6, <3>1 DEF PageOK, KindOK
    <3>3. 1 \in 1 .. NumCells(H[x]) + 1
      BY <3>2, CellsOfPage
    <3>4. ChildOK(H[x], 1, x, ids, own, lev, own)
      BY <3>1, <3>2, <3>3 DEF PageOK, ChildrenOK
    <3>5. QED
      BY <3>4 DEF ChildOK
  <2>8. lev[y] = L - d
    BY <1>1, <2>3, <2>5, <2>7
  <2>9. QED
    BY <2>2, <2>8
<1>3. \A n \in 0 .. L : \E y \in ids : lev[y] = n
  <2>1. TAKE n \in 0 .. L
  <2>2. L - n \in 0 .. L /\ L - (L - n) = n
    BY <1>1
  <2>3. QED
    BY <1>2, <2>2
<1> DEFINE page == [n \in 0 .. L |-> CHOOSE y \in ids : lev[y] = n]
<1>4. \A n \in 0 .. L : page[n] \in ids /\ lev[page[n]] = n
  BY <1>3
<1>5. page \in Injection(0 .. L, ids)
  <2>1. page \in [0 .. L -> ids]
    BY <1>4
  <2>2. \A m, n \in 0 .. L : page[m] = page[n] => m = n
    BY <1>4
  <2> HIDE DEF page
  <2>3. QED
    BY <2>1, <2>2, Fun_IsInj
<1>6. Cardinality(0 .. L) <= Cardinality(ids)
  BY <1>5, FS_Injection
<1>7. Cardinality(0 .. L) = L + 1
  BY <1>1, FS_Interval
<1>8. Cardinality(ids) \in Nat
  BY FS_CardinalityType
<1>9. QED
  BY <1>1, <1>6, <1>7, <1>8

(* A descent for k through pages S that keep their children ends in S: on a *)
(* leaf for k, or on a page that stores it.                                 *)
LEMMA DescentEnds ==
  ASSUME NEW H, NEW ids, NEW r, NEW own, NEW lev, NEW whole, NEW want,
         Valid(H, ids, r, own, lev, whole, want),
         NEW k \in Int, \A y \in ids : k \in whole[y] => k \in own[y],
         NEW S, r \in S, S \subseteq ids,
         \A x \in S : ~H[x].leaf => \A i \in 1 .. NumCells(H[x]) + 1 :
           ChildAt(H[x], i) \in ids => ChildAt(H[x], i) \in S
  PROVE  \E x \in S : k \in own[x] /\ (H[x].leaf \/ \E i : Holder(H, ids, x, i, k))
<1> DEFINE D == {lev[x] : x \in {y \in S : k \in own[y]}}
<1>1. lev \in [ids -> Nat] /\ r \in ids /\ k \in own[r]
  BY DEF Valid, Spread
<1>2. D \subseteq Nat /\ D # {}
  BY <1>1
<1>3. PICK d \in D : \A e \in D : d <= e
  <2> HIDE DEF D
  <2>1. QED
    BY <1>2, LeastNat
<1>4. PICK x \in S : k \in own[x] /\ lev[x] = d
  BY <1>3
<1>5. SUFFICES ASSUME ~H[x].leaf, ~\E i : Holder(H, ids, x, i, k) PROVE FALSE
  BY <1>4
<1>6. PICK j \in 1 .. NumCells(H[x]) + 1 :
        /\ ChildAt(H[x], j) \in ids /\ k \in whole[ChildAt(H[x], j)]
        /\ lev[x] = lev[ChildAt(H[x], j)] + 1
  BY <1>4, <1>5, HolderOrChild
<1>7. ChildAt(H[x], j) \in S /\ k \in own[ChildAt(H[x], j)]
  BY <1>5, <1>6
<1>8. lev[ChildAt(H[x], j)] \in D /\ lev[ChildAt(H[x], j)] \in Nat
  BY <1>1, <1>6, <1>7
<1>9. ~(d <= lev[ChildAt(H[x], j)])
  BY <1>4, <1>6, <1>8
<1>10. QED
  BY <1>3, <1>8, <1>9
-----------------------------------------------------------------------------
(* Cell i of page x, as CellsOf names it.                                   *)
CellAt(H, x, i) ==
  [id |-> x, at |-> i, pair |-> <<H[x].cells[i].key, H[x].cells[i].val>>]

(* The cell c stores a pair on a page of S.                                 *)
StoredAt(c, H, ids, S) ==
  \E x, i : /\ x \in S /\ Holder(H, ids, x, i, H[x].cells[i].key)
           /\ c = CellAt(H, x, i)

(* All of them are pages.                                                   *)
ArePages(H, ids) == \A x \in ids : IsPage(H[x])

(* The cells pairs are stored in are those of the holders.                  *)
LEMMA CellsAreHolders ==
  ASSUME NEW H, NEW ids, NEW S, S \subseteq ids, ArePages(H, ids), NEW c
  PROVE  c \in CellsOf(H, S) <=> StoredAt(c, H, ids, S)
<1> DEFINE T == {n \in S : H[n].leaf \/ ~CopyUpLeaves}
<1>1. CellsOf(H, S) = UNION {{CellAt(H, x, i) : i \in DOMAIN H[x].cells} : x \in T}
  BY DEF CellsOf, CellAt
<1>2. c \in CellsOf(H, S) <=> \E x \in T : \E i \in DOMAIN H[x].cells : c = CellAt(H, x, i)
  <2> HIDE DEF T
  <2>1. QED
    BY <1>1
<1>3. \A x \in ids : DOMAIN H[x].cells = 1 .. NumCells(H[x])
  BY DEF ArePages, IsPage, NumCells
<1>4. \A x, i : x \in S /\ Holder(H, ids, x, i, H[x].cells[i].key)
                <=> x \in T /\ i \in DOMAIN H[x].cells
  BY <1>3 DEF Holder
<1>5. QED
  BY <1>2, <1>4 DEF StoredAt

(* The pairs on the pages T, and that k is found there.                     *)
PairsOn(H, T) == {c.pair : c \in CellsOf(H, T)}
FoundOn(H, ids, T, k) == \E x \in T : \E i : Holder(H, ids, x, i, k)

(* What is stored of k on pages T that a table explains is what the table   *)
(* says, if it is found at all.                                             *)
LEMMA PairIsStored ==
  ASSUME NEW H, NEW ids, NEW r, NEW own, NEW lev, NEW whole, NEW want,
         Valid(H, ids, r, own, lev, whole, want), NEW T, T \subseteq ids, NEW k,
         want[k] # Nil /\ k \in Keys => FoundOn(H, ids, T, k), NEW v
  PROVE  <<k, v>> \in PairsOn(H, T) <=> k \in Keys /\ v = want[k] /\ want[k] # Nil
<1>1. ArePages(H, ids)
  BY DEF Valid, PageOK, ArePages
<1>2. ASSUME NEW c \in CellsOf(H, T), c.pair = <<k, v>>
      PROVE  k \in Keys /\ v = want[k] /\ want[k] # Nil
  <2>1. StoredAt(c, H, ids, T)
    BY <1>1, CellsAreHolders
  <2>2. PICK x, i : /\ Holder(H, ids, x, i, H[x].cells[i].key)
                    /\ c = CellAt(H, x, i)
    BY <2>1 DEF StoredAt
  <2>3. k = H[x].cells[i].key /\ v = H[x].cells[i].val
    BY <1>2, <2>2 DEF CellAt
  <2>4. QED
    BY <2>2, <2>3, HolderValue
<1>3. ASSUME k \in Keys, v = want[k], want[k] # Nil
      PROVE  \E c \in CellsOf(H, T) : c.pair = <<k, v>>
  <2>1. PICK x, i : x \in T /\ Holder(H, ids, x, i, k)
    BY <1>3 DEF FoundOn
  <2>2. H[x].cells[i].key = k /\ H[x].cells[i].val = v
    BY <1>3, <2>1, HolderValue DEF Holder
  <2>3. StoredAt(CellAt(H, x, i), H, ids, T) /\ CellAt(H, x, i).pair = <<k, v>>
    BY <2>1, <2>2 DEF StoredAt, CellAt
  <2>4. QED
    BY <1>1, <2>3, CellsAreHolders
<1>4. QED
  BY <1>2, <1>3 DEF PairsOn

(* The pages a sound tree leads to store the pairs of want, each once.      *)
LEMMA SoundStores ==
  ASSUME NEW H, NEW ids, NEW r, NEW own, NEW lev, NEW want,
         Valid(H, ids, r, own, lev, own, want), IsFiniteSet(ids),
         NEW T, T = Reached(LinksOf(H, ids), r)
  PROVE  LET cells == CellsOf(H, T)
         IN  /\ {c.pair : c \in cells} =
                   {<<k, want[k]>> : k \in {x \in Keys : want[x] # Nil}}
             /\ \A c, d \in cells : c.pair[1] = d.pair[1] => c = d
<1> DEFINE cells == CellsOf(H, T)
           pairs == PairsOn(H, T)
<1>1. /\ r \in T /\ T \subseteq ids
      /\ \A x \in T : ~H[x].leaf => \A i \in 1 .. NumCells(H[x]) + 1 :
           ChildAt(H[x], i) \in ids => ChildAt(H[x], i) \in T
  BY ReachedChildren DEF Valid, Spread
<1>2. ArePages(H, ids) /\ \A x \in ids : PageOK(H[x], x, ids, own, lev, own, want)
  BY DEF Valid, PageOK, ArePages
<1>3. \A c \in cells : StoredAt(c, H, ids, T)
  BY <1>1, <1>2, CellsAreHolders
<1>4. ASSUME NEW k \in Keys, want[k] # Nil
      PROVE  FoundOn(H, ids, T, k)
  <2>1. PICK x \in T : k \in own[x] /\ (H[x].leaf \/ \E i : Holder(H, ids, x, i, k))
    BY <1>1, KeysAssumption, DescentEnds
  <2>2. x \in ids /\ PageOK(H[x], x, ids, own, lev, own, want)
    BY <1>1, <1>2
  <2>3. H[x].leaf => \E i \in 1 .. NumCells(H[x]) : H[x].cells[i].key = k
    BY <1>4, <2>1, <2>2 DEF PageOK, LeafOK
  <2>4. H[x].leaf => \E i : Holder(H, ids, x, i, k)
    BY <2>2, <2>3 DEF Holder
  <2>5. QED
    BY <2>1, <2>4 DEF FoundOn
<1>5. ASSUME NEW k, NEW v
      PROVE  <<k, v>> \in pairs <=> k \in Keys /\ v = want[k] /\ want[k] # Nil
  <2>1. want[k] # Nil /\ k \in Keys => FoundOn(H, ids, T, k)
    BY <1>4
  <2>2. QED
    BY <1>1, <2>1, PairIsStored
<1>6. ASSUME NEW c \in cells, NEW d \in cells, c.pair[1] = d.pair[1]
      PROVE  c = d
  <2>1. PICK x, i : /\ Holder(H, ids, x, i, H[x].cells[i].key)
                    /\ c = CellAt(H, x, i)
    BY <1>3 DEF StoredAt
  <2>2. PICK y, j : /\ Holder(H, ids, y, j, H[y].cells[j].key)
                    /\ d = CellAt(H, y, j)
    BY <1>3 DEF StoredAt
  <2>3. H[x].cells[i].key = H[y].cells[j].key
    BY <1>6, <2>1, <2>2 DEF CellAt
  <2>4. x = y /\ i = j
    BY <2>1, <2>2, <2>3, HolderIsOne
  <2>5. QED
    BY <2>1, <2>2, <2>4
<1>7. \A c \in cells : c.pair = <<c.pair[1], c.pair[2]>>
  BY <1>3 DEF StoredAt, CellAt
<1> HIDE DEF cells
<1>8. pairs = {<<k, want[k]>> : k \in {x \in Keys : want[x] # Nil}}
  <2>1. \A p \in pairs : \E k, v : p = <<k, v>>
    BY <1>7 DEF PairsOn, cells
  <2> HIDE DEF pairs
  <2>2. QED
    BY <1>5, <2>1
<1>9. QED
  BY <1>6, <1>8 DEF PairsOn, cells

(* The pages of the tree are those that the links between them lead to.     *)
LEMMA InTreeIsReached ==
  ASSUME MapInv, pc = "idle"
  PROVE  /\ Pages = Held /\ IsFiniteSet(NodeIds)
         /\ InTree = Reached(LinksOf(Held, NodeIds), root)
<1>1. Pages = Held
  BY DEF Pages, Held, PageOf, Awaited, MapInv, IInv, Shape
<1>2. IsFiniteSet(NodeIds)
  BY FS_Interval DEF NodeIds, MapInv, IInv, Shape
<1>3. QED
  BY <1>1, <1>2 DEF InTree, PagesUnder, LinksOf, Held

(* When no call runs, the pages are the map that was inserted.              *)
LEMMA MapIsStored == MapInv => StoresContents
<1>1. SUFFICES ASSUME MapInv, pc = "idle"
               PROVE  LET cells == StoredCells
                      IN  /\ {c.pair : c \in cells} =
                                {<<k, contents[k]>> :
                                   k \in {x \in Keys : contents[x] # Nil}}
                          /\ \A c, d \in cells : c.pair[1] = d.pair[1] => c = d
  BY DEF StoresContents
<1>2. PICK own, lev, left : Arranged(own, lev, left)
  BY <1>1 DEF MapInv
<1>3. Valid(Held, NodeIds, root, own, lev, own, contents)
  BY <1>1, <1>2 DEF Arranged, TreeSound, Pending, Want, Inserted
<1>4. /\ IsFiniteSet(NodeIds) /\ StoredCells = CellsOf(Held, InTree)
      /\ InTree = Reached(LinksOf(Held, NodeIds), root)
  BY <1>1, InTreeIsReached DEF StoredCells
<1>5. QED
  BY <1>3, <1>4, SoundStores
-----------------------------------------------------------------------------
(* Where the pages hang                                                     *)

(* Each page but the tops hangs in one place, and no top does.              *)
HangOnce(H, ids, tops) ==
  /\ \A y \in ids \ tops : \E u, i : Above(H, ids, u, i, y)
  /\ \A y \in tops : y \in ids /\ ~\E u, i : Above(H, ids, u, i, y)
  /\ \A y, u, v, i, j : Above(H, ids, u, i, y) /\ Above(H, ids, v, j, y)
                          => y \in ids /\ u = v /\ i = j

(* What hangs where depends on the internal pages alone.                    *)
LEMMA SameHang ==
  ASSUME NEW H, NEW G, NEW ids, NEW tops, HangOnce(H, ids, tops),
         \A u, i, y : Above(G, ids, u, i, y) <=> Above(H, ids, u, i, y)
  PROVE  HangOnce(G, ids, tops)
BY DEF HangOnce

(* A page that was given another value, or a leaf that was given a pair.    *)
LEMMA UpdateHang ==
  ASSUME NEW H, NEW ids, NEW tops, HangOnce(H, ids, tops), NEW x \in ids,
         NEW k, NEW v, NEW G, Updates(H[x], G[x], k, v),
         \A y \in ids : y # x => G[y] = H[y]
  PROVE  HangOnce(G, ids, tops)
<1>1. ASSUME NEW u, NEW i, NEW y
      PROVE  Above(G, ids, u, i, y) <=> Above(H, ids, u, i, y)
  <2>1. CASE u # x
    BY <2>1 DEF Above
  <2>2. CASE u = x
    <3>1. G[x].leaf = H[x].leaf
      BY DEF Updates
    <3>2. CASE ~H[x].leaf
      <4>1. /\ NumCells(G[x]) = NumCells(H[x])
            /\ \A j \in 1 .. NumCells(H[x]) + 1 : ChildAt(G[x], j) = ChildAt(H[x], j)
        BY <3>2 DEF Updates
      <4>2. QED
        BY <2>2, <3>1, <4>1 DEF Above
    <3>3. QED
      BY <2>2, <3>1, <3>2 DEF Above
  <2>3. QED
    BY <2>1, <2>2
<1>2. QED
  BY <1>1, SameHang

(* The content offset of a page says nothing of its children.               *)
LEMMA ContentHang ==
  ASSUME NEW H, NEW ids, NEW tops, HangOnce(H, ids, tops), NEW x \in ids,
         NEW n, NEW G, IsPage(H[x]), Filled(H, G, ids, x, n)
  PROVE  HangOnce(G, ids, tops)
<1>1. /\ G[x].leaf = H[x].leaf /\ G[x].cells = H[x].cells
      /\ G[x].rightmost = H[x].rightmost
  BY DEF IsPage, Filled
<1>2. \A u, i, y : Above(G, ids, u, i, y) <=> Above(H, ids, u, i, y)
  BY <1>1 DEF Above, ChildAt, NumCells, Filled
<1>3. QED
  BY <1>2, SameHang

(* G has the pages of H and on page u the cell that makes rt its child.     *)
Joining(H, G, ids, r, rt, u, o, i, s, val) ==
  /\ HangOnce(H, ids, {r, rt}) /\ r # rt
  /\ u \in ids /\ Joined(H[u], o, i, s, val, rt)
  /\ G[u] = WithCell(H[u], i, s, val, rt)
  /\ \A y \in ids : y # u => G[y] = H[y]

(* The right half of a split gets its place, next to that of the left half. *)
LEMMA JoinHang ==
  ASSUME NEW H, NEW G, NEW ids, NEW r, NEW rt, NEW u, NEW o, NEW i, NEW s, NEW val,
         Joining(H, G, ids, r, rt, u, o, i, s, val)
  PROVE  HangOnce(G, ids, {r})
<1> DEFINE p == H[u]
           q == G[u]
           n == NumCells(p)
<1>1. /\ HangOnce(H, ids, {r, rt}) /\ r # rt /\ u \in ids
      /\ Joined(p, o, i, s, val, rt) /\ ~p.leaf
      /\ q = WithCell(p, i, s, val, rt)
      /\ \A y \in ids : y # u => G[y] = H[y]
  BY DEF Joining, Joined
<1>2. /\ NumCells(q) = n + 1
      /\ \A j \in 1 .. i : ChildAt(q, j) = ChildAt(p, j)
      /\ ChildAt(q, i + 1) = rt
      /\ \A j \in i + 2 .. n + 2 : ChildAt(q, j) = ChildAt(p, j - 1)
  BY <1>1, JoinedChildren
<1>3. n \in Nat /\ i \in 1 .. n + 1 /\ ~q.leaf
  <2>1. Insertable(p, i, s, val, rt)
    BY <1>1 DEF Joined
  <2>2. q.leaf = p.leaf
    BY <1>1, <2>1, WithCellElements
  <2>3. QED
    BY <1>1, <2>1, <2>2, CellsOfPage DEF Insertable
<1> HIDE DEF p, q, n
<1>4. ASSUME NEW v, v # u, NEW j, NEW y
      PROVE  Above(G, ids, v, j, y) <=> Above(H, ids, v, j, y)
  BY <1>1, <1>4 DEF Above
<1>5. ASSUME NEW j, NEW y
      PROVE  Above(G, ids, u, j, y) <=>
               \/ Above(H, ids, u, j, y) /\ j <= i
               \/ j = i + 1 /\ y = rt
               \/ Above(H, ids, u, j - 1, y) /\ j \in i + 2 .. n + 2
  <2>1. Above(G, ids, u, j, y) <=> j \in 1 .. n + 2 /\ ChildAt(q, j) = y
    BY <1>1, <1>2, <1>3 DEF Above, q
  <2>2. \A l : Above(H, ids, u, l, y) <=> l \in 1 .. n + 1 /\ ChildAt(p, l) = y
    BY <1>1 DEF Above, p, n
  <2>3. CASE j \in 1 .. i
    BY <1>2, <1>3, <2>1, <2>2, <2>3
  <2>4. CASE j = i + 1
    BY <1>2, <1>3, <2>1, <2>2, <2>4
  <2>5. CASE j \in i + 2 .. n + 2
    BY <1>2, <1>3, <2>1, <2>2, <2>5
  <2>6. CASE j \notin 1 .. n + 2
    BY <1>2, <1>3, <2>1, <2>2, <2>6
  <2>7. j \in 1 .. n + 2 => j \in 1 .. i \/ j = i + 1 \/ j \in i + 2 .. n + 2
    BY <1>3
  <2>8. QED
    BY <2>3, <2>4, <2>5, <2>6, <2>7
<1>6. /\ \A y \in ids : y # r /\ y # rt => \E v, j : Above(H, ids, v, j, y)
      /\ \A v, j : ~Above(H, ids, v, j, r) /\ ~Above(H, ids, v, j, rt)
      /\ \A y, v, w, j, l : Above(H, ids, v, j, y) /\ Above(H, ids, w, l, y)
                              => y \in ids /\ v = w /\ j = l
      /\ r \in ids /\ rt \in ids
  BY <1>1 DEF HangOnce
<1>7. \A v, j, y : Above(H, ids, v, j, y) /\ v = u => j \in 1 .. n + 1
  BY DEF Above, n, p
<1>8. ASSUME NEW y \in ids \ {r}
      PROVE  \E v, j : Above(G, ids, v, j, y)
  <2>1. CASE y = rt
    <3>1. Above(G, ids, u, i + 1, y)
      BY <1>5, <2>1
    <3>2. QED
      BY <3>1
  <2>2. CASE y # rt
    <3>1. PICK v, j : Above(H, ids, v, j, y)
      BY <1>6, <1>8, <2>2
    <3>2. CASE v # u
      BY <1>4, <3>1, <3>2
    <3>3. CASE v = u /\ j <= i
      BY <1>5, <3>1, <3>3
    <3>4. CASE v = u /\ ~(j <= i)
      <4>1. j \in 1 .. n + 1
        BY <1>7, <3>1, <3>4
      <4>2. j + 1 \in i + 2 .. n + 2 /\ (j + 1) - 1 = j
        BY <1>3, <3>4, <4>1
      <4>3. Above(G, ids, u, j + 1, y)
        BY <1>5, <3>1, <3>4, <4>2
      <4>4. QED
        BY <4>3
    <3>5. QED
      BY <3>2, <3>3, <3>4
  <2>3. QED
    BY <2>1, <2>2
<1>9. ASSUME NEW v, NEW j
      PROVE  ~Above(G, ids, v, j, r)
  <2>1. CASE v # u
    BY <1>4, <1>6, <2>1
  <2>2. CASE v = u
    BY <1>1, <1>5, <1>6, <2>2
  <2>3. QED
    BY <2>1, <2>2
<1>10. ASSUME NEW y, NEW v, NEW w, NEW j, NEW l,
             Above(G, ids, v, j, y), Above(G, ids, w, l, y)
      PROVE  y \in ids /\ v = w /\ j = l
  <2>1. CASE v # u /\ w # u
    BY <1>4, <1>6, <1>10, <2>1
  <2>2. ASSUME NEW a, NEW b, NEW c, a # u, Above(G, ids, a, b, y), Above(G, ids, u, c, y)
        PROVE  FALSE
    <3>1. Above(H, ids, a, b, y) /\ y # rt
      BY <1>4, <1>6, <2>2
    <3>2. \E d : Above(H, ids, u, d, y)
      BY <1>5, <2>2, <3>1
    <3>3. QED
      BY <1>6, <2>2, <3>1, <3>2
  <2>3. CASE v = u /\ w = u
    <3>1. j \in 1 .. n + 2 /\ l \in 1 .. n + 2
      <4>1. j \in 1 .. NumCells(q) + 1 /\ l \in 1 .. NumCells(q) + 1
        BY <1>10, <2>3 DEF Above, q
      <4>2. NumCells(q) + 1 = n + 2
        BY <1>2, <1>3
      <4>3. QED
        BY <4>1, <4>2
    <3>2. \A d, e : Above(H, ids, u, d, y) /\ Above(H, ids, u, e, y) => d = e
      BY <1>6
    <3>3. \A d : Above(H, ids, u, d, rt) => FALSE
      BY <1>6
    <3>4. \/ Above(H, ids, u, j, y) /\ j <= i
          \/ j = i + 1 /\ y = rt
          \/ Above(H, ids, u, j - 1, y) /\ j \in i + 2 .. n + 2
      BY <1>5, <1>10, <2>3
    <3>5. \/ Above(H, ids, u, l, y) /\ l <= i
          \/ l = i + 1 /\ y = rt
          \/ Above(H, ids, u, l - 1, y) /\ l \in i + 2 .. n + 2
      BY <1>5, <1>10, <2>3
    <3>6. CASE y = rt
      <4>1. j = i + 1 /\ l = i + 1
        BY <3>3, <3>4, <3>5, <3>6
      <4>2. QED
        BY <1>6, <2>3, <3>6, <4>1
    <3>7. CASE y # rt
      <4> DEFINE d == IF j <= i THEN j ELSE j - 1
                 e == IF l <= i THEN l ELSE l - 1
      <4>1. Above(H, ids, u, d, y) /\ Above(H, ids, u, e, y)
        BY <1>3, <3>1, <3>4, <3>5, <3>7
      <4>2. d = e
        BY <3>2, <4>1
      <4>3. j # i + 1 /\ l # i + 1
        <5>1. /\ j <= i \/ j \in i + 2 .. n + 2
              /\ l <= i \/ l \in i + 2 .. n + 2
          BY <3>4, <3>5, <3>7
        <5>2. QED
          BY <1>3, <3>1, <5>1
      <4>4. j = l
        BY <1>3, <3>1, <4>2, <4>3
      <4>5. QED
        BY <1>6, <2>3, <4>1, <4>4
    <3>8. QED
      BY <3>6, <3>7
  <2>4. QED
    BY <1>10, <2>1, <2>2, <2>3
<1>11. QED
  BY <1>6, <1>8, <1>9, <1>10 DEF HangOnce

(* The children of a page are dealt out to its two halves.                  *)
LEMMA HalveHang ==
  ASSUME NEW H, NEW ids, NEW r, HangOnce(H, ids, {r}), NEW x \in ids, NEW z,
         z \notin ids, IsPage(H[x]), Increasing(H[x]), NumCells(H[x]) >= 1,
         NEW nl \in Int, NEW nr \in Int,
         NEW G, G[x] = LeftHalf(H[x], nl), G[z] = RightHalf(H[x], nr),
         \A y \in ids : y # x => G[y] = H[y]
  PROVE  HangOnce(G, ids \cup {z}, {r, z})
<1> DEFINE p == H[x]
           n == NumCells(p)
           m == Promoted(p.cells)
           J == ids \cup {z}
<1>1. /\ m \in 1 .. n /\ n \in Nat
      /\ IsLeft(p, G[x], m) /\ IsRight(p, G[z], RightStart(p.leaf, m))
  BY HalvesElements, CellsOfPage
<1>2. G[x].leaf = p.leaf /\ G[z].leaf = p.leaf
  BY <1>1 DEF IsLeft, IsRight
<1>3. ASSUME ~p.leaf
      PROVE  /\ NumCells(G[x]) + 1 = m /\ NumCells(G[z]) + 1 = n - m + 1
             /\ \A j \in 1 .. m : ChildAt(G[x], j) = ChildAt(p, j)
             /\ \A j \in 1 .. n - m + 1 : ChildAt(G[z], j) = ChildAt(p, m + j)
  <2>1. RightStart(p.leaf, m) = m + 1
    BY <1>3 DEF RightStart
  <2> HIDE DEF p, m
  <2>2. NumCells(G[x]) + 1 = m /\ NumCells(G[z]) + 1 = n - m + 1
    <3>1. NumCells(G[x]) = m - 1 /\ NumCells(G[z]) = n - (m + 1) + 1
      BY <1>1, <2>1 DEF IsLeft, IsRight
    <3>2. QED
      BY <1>1, <3>1
  <2>3. {} \subseteq Int /\ IsPage(p) /\ Increasing(p)
    BY DEF p
  <2>4. \A j \in 1 .. m : ChildAt(G[x], j) = ChildAt(p, j)
    BY <1>1, <1>3, <2>3, LeftShares
  <2>5. \A j \in 1 .. n - m + 1 : ChildAt(G[z], j) = ChildAt(p, m + j)
    <3>1. IsRight(p, G[z], m + 1) /\ m \in 1 .. NumCells(p)
      BY <1>1, <2>1
    <3>2. \A j \in 1 .. NumCells(p) - m + 1 : ChildAt(G[z], j) = ChildAt(p, m + j)
      BY <1>3, <2>3, <3>1, RightShares, ZenonT(60)
    <3>3. QED
      BY <3>2 DEF n
  <2>6. QED
    BY <2>2, <2>4, <2>5
<1> HIDE DEF p, m, n
<1>4. \A v, j, y : v \in ids /\ v # x =>
                     (Above(G, J, v, j, y) <=> Above(H, ids, v, j, y))
  BY DEF Above
<1>5. \A j, y : Above(G, J, x, j, y) <=> Above(H, ids, x, j, y) /\ j \in 1 .. m
  <2>1. CASE p.leaf
    BY <1>2, <2>1 DEF Above, p
  <2>2. CASE ~p.leaf
    <3>1. 1 .. m \subseteq 1 .. n + 1
      BY <1>1
    <3>2. QED
      BY <1>2, <1>3, <2>2, <3>1 DEF Above, p, n
  <2>3. QED
    BY <2>1, <2>2
<1>6. \A j, y : Above(G, J, z, j, y) <=> /\ Above(H, ids, x, m + j, y)
                                        /\ j \in 1 .. n - m + 1
  <2>1. CASE p.leaf
    BY <1>2, <2>1 DEF Above, p
  <2>2. CASE ~p.leaf
    <3>1. \A j \in 1 .. n - m + 1 : m + j \in 1 .. n + 1
      BY <1>1
    <3>2. QED
      BY <1>2, <1>3, <2>2, <3>1 DEF Above, p, n
  <2>3. QED
    BY <2>1, <2>2
<1>7. \A v, j, y : Above(G, J, v, j, y) => v \in ids \/ v = z
  BY DEF Above
<1>8. /\ \A y \in ids : y # r => \E v, j : Above(H, ids, v, j, y)
      /\ \A v, j : ~Above(H, ids, v, j, r)
      /\ \A y, v, w, j, l : Above(H, ids, v, j, y) /\ Above(H, ids, w, l, y)
                              => y \in ids /\ v = w /\ j = l
      /\ r \in ids
  BY DEF HangOnce
<1> HIDE DEF J
(* Where a place of G was in H.                                             *)
<1> DEFINE V(v) == IF v = z THEN x ELSE v
           N(v, j) == IF v = z THEN m + j ELSE j
<1>9. \A v, j, y : Above(G, J, v, j, y) => Above(H, ids, V(v), N(v, j), y)
  BY <1>4, <1>5, <1>6, <1>7
<1>10. ASSUME NEW y \in ids \ {r}
       PROVE  \E v, j : Above(G, J, v, j, y)
  <2>1. PICK v, j : Above(H, ids, v, j, y)
    BY <1>8, <1>10
  <2>2. v \in ids /\ (v = x => j \in 1 .. n + 1)
    BY <2>1 DEF Above, n, p
  <2>3. CASE v # x
    BY <1>4, <2>1, <2>2, <2>3
  <2>4. CASE v = x /\ j \in 1 .. m
    BY <1>5, <2>1, <2>4
  <2>5. CASE v = x /\ j \notin 1 .. m
    <3>1. j - m \in 1 .. n - m + 1 /\ m + (j - m) = j
      BY <1>1, <2>2, <2>5
    <3>2. Above(G, J, z, j - m, y)
      BY <1>6, <2>1, <2>5, <3>1
    <3>3. QED
      BY <3>2
  <2>6. QED
    BY <2>3, <2>4, <2>5
<1>11. ASSUME NEW v, NEW j, NEW y, Above(G, J, v, j, y)
       PROVE  y \in ids /\ y # r /\ y # z
  BY <1>8, <1>9, <1>11
<1>12. ASSUME NEW y, NEW v, NEW w, NEW j, NEW l,
              Above(G, J, v, j, y), Above(G, J, w, l, y)
       PROVE  v = w /\ j = l
  <2>1. Above(H, ids, V(v), N(v, j), y) /\ Above(H, ids, V(w), N(w, l), y)
    BY <1>9, <1>12
  <2>2. V(v) = V(w) /\ N(v, j) = N(w, l)
    BY <1>8, <2>1
  <2>3. CASE v = z /\ w = z
    <3>1. j \in 1 .. n - m + 1 /\ l \in 1 .. n - m + 1
      BY <1>6, <1>12, <2>3
    <3>2. m + j = m + l
      BY <2>2, <2>3
    <3>3. j = l
      BY <1>1, <3>1, <3>2
    <3>4. QED
      BY <2>3, <3>3
  <2>4. CASE v # z /\ w # z
    BY <2>2, <2>4
  <2>5. ASSUME NEW a, NEW b, NEW c, a # z, Above(G, J, a, b, y), Above(G, J, z, c, y)
        PROVE  FALSE
    <3>1. Above(H, ids, a, b, y) /\ Above(H, ids, x, m + c, y)
      BY <1>9, <2>5
    <3>2. a = x /\ b = m + c
      BY <1>8, <3>1
    <3>3. b \in 1 .. m /\ c \in 1 .. n - m + 1
      BY <1>5, <1>6, <2>5, <3>2
    <3>4. QED
      BY <1>1, <3>2, <3>3
  <2>6. QED
    BY <1>12, <2>3, <2>4, <2>5
<1>13. QED
  BY <1>8, <1>10, <1>11, <1>12 DEF HangOnce, J

(* The new root z is over the two halves of the old one.                    *)
LEMMA RootHang ==
  ASSUME NEW H, NEW ids, NEW r, NEW rt, HangOnce(H, ids, {r, rt}), r # rt,
         ids \subseteq Nat, NEW z, z \notin ids, NEW s \in Int, NEW sv \in Values \cup {Nil},
         NEW G, G[z] = RootPage(r, s, sv, rt), \A y \in ids : G[y] = H[y]
  PROVE  HangOnce(G, ids \cup {z}, {z})
<1> DEFINE J == ids \cup {z}
<1>1. /\ \A y \in ids : y # r /\ y # rt => \E v, j : Above(H, ids, v, j, y)
      /\ \A v, j : ~Above(H, ids, v, j, r) /\ ~Above(H, ids, v, j, rt)
      /\ \A y, v, w, j, l : Above(H, ids, v, j, y) /\ Above(H, ids, w, l, y)
                              => y \in ids /\ v = w /\ j = l
      /\ r \in ids /\ rt \in ids
  BY DEF HangOnce
<1>2. /\ ~G[z].leaf /\ NumCells(G[z]) = 1
      /\ ChildAt(G[z], 1) = r /\ ChildAt(G[z], 2) = rt
  BY <1>1, RootPageCells
<1>3. \A v, j, y : v # z => (Above(G, J, v, j, y) <=> Above(H, ids, v, j, y))
  BY DEF Above
<1>4. \A j, y : Above(G, J, z, j, y) <=> (j = 1 /\ y = r) \/ (j = 2 /\ y = rt)
  <2>1. \A j : j \in 1 .. 1 + 1 <=> j = 1 \/ j = 2
    OBVIOUS
  <2>2. QED
    BY <1>2, <2>1 DEF Above
<1>5. \A v, j, y : Above(H, ids, v, j, y) => v # z
  BY DEF Above
<1> HIDE DEF J
<1>6. \A y \in ids : \E v, j : Above(G, J, v, j, y)
  BY <1>1, <1>3, <1>4, <1>5
<1>7. \A v, j, y : Above(G, J, v, j, y) => y \in ids /\ y # z
  BY <1>1, <1>3, <1>4
<1>8. ASSUME NEW y, NEW v, NEW w, NEW j, NEW l,
             Above(G, J, v, j, y), Above(G, J, w, l, y)
      PROVE  v = w /\ j = l
  <2>1. CASE v # z /\ w # z
    BY <1>1, <1>3, <1>8, <2>1
  <2>2. CASE v = z /\ w = z
    BY <1>4, <1>8, <2>2
  <2>3. ASSUME NEW a, NEW b, NEW c, a # z, Above(G, J, a, b, y), Above(G, J, z, c, y)
        PROVE  FALSE
    BY <1>1, <1>3, <1>4, <2>3
  <2>4. QED
    BY <1>8, <2>1, <2>2, <2>3
<1>9. QED
  BY <1>6, <1>7, <1>8 DEF HangOnce, J
-----------------------------------------------------------------------------
(* The pages that hang nowhere: the root, and the right half of a split.    *)
Tops == IF Pending THEN {root, split.right} ELSE {root}

(* The inductive invariant behind EachPageOnce, with MapInv.                *)
HangInv ==
  pc # "corrupt" =>
    /\ HangOnce(Held, NodeIds, Tops)
    /\ Pending => root # split.right

(* In a new file there is only the root.                                    *)
LEMMA InitHangs ==
  ASSUME Init
  PROVE  HangInv
<1>1. NodeIds = {2} /\ root = 2 /\ pc = "idle" /\ file[2].leaf
  BY DEF Init, NodeIds, EmptyLeaf, NewPage
<1>2. Held[2].leaf
  BY <1>1 DEF Held, Awaited
<1>3. \A u, i, y : ~Above(Held, NodeIds, u, i, y)
  BY <1>1, <1>2 DEF Above
<1>4. QED
  BY <1>1, <1>3 DEF HangInv, Tops, Pending, HangOnce

(* A step that moves no page.                                               *)
LEMMA StayHangs ==
  ASSUME HangInv, pc # "corrupt", NodeIds' = NodeIds, Held' = Held, root' = root,
         Pending' <=> Pending, Pending => split' = split
  PROVE  HangInv'
<1>1. Tops' = Tops /\ HangOnce(Held', NodeIds', Tops')
  BY DEF HangInv, Tops
<1>2. Pending' => root' # split'.right
  BY DEF HangInv
<1>3. QED
  BY <1>1, <1>2 DEF HangInv

(* Placing a cell, given what the pages are with the cell in place.         *)
LEMMA DoInsertHangs ==
  ASSUME MapInv, pc \in {"insertRec", "insertSplit"},
         NEW G, NEW id, NEW q, NEW own, NEW lev, Placing(G, id, q, own, lev),
         HangOnce(G, NodeIds, {root}),
         NEW p, NEW i, NEW key, NEW val, NEW rc,
         DoInsert(id, p, i, key, val, rc), q = WithCell(p, i, key, val, rc),
         q.leaf = p.leaf, q.next = p.next, p.next \in Int
  PROVE  HangInv'
<1> DEFINE n == CellSize(p.leaf, val)
<1>1. /\ id \in NodeIds /\ G[id] = q
      /\ \A y \in NodeIds : y # id => G[y] = Held[y]
      /\ IsPage(G[id]) /\ Increasing(G[id]) /\ NumCells(G[id]) >= 1
  BY DEF Placing, Valid, PageOK
<1>2. SUFFICES ASSUME pc' # "corrupt"
               PROVE  HangInv'
  BY DEF HangInv
<1> DEFINE F == Held'
<1>3. CASE WriteAndReturn(id, [q EXCEPT !.content = @ - n])
  <2> HIDE DEF n
  <2>1. /\ NodeIds' = NodeIds /\ root' = root /\ pc' = "return"
        /\ F[id] = [q EXCEPT !.content = @ - n]
        /\ \A y \in NodeIds : y # id => F[y] = Held[y]
    BY <1>1, <1>2, <1>3, HeldAfterWrite
  <2>2. Filled(G, F, NodeIds, id, n)
    BY <1>1, <2>1 DEF Filled
  <2> HIDE DEF F
  <2>3. HangOnce(F, NodeIds, {root})
    BY <1>1, <2>2, ContentHang
  <2>4. QED
    BY <2>1, <2>3 DEF HangInv, Tops, Pending, F
<1>4. CASE SplitNode(id, p, i, key, val, rc)
  <2> DEFINE next == LinkLeaves(p.leaf, pageCount, p.next)
             nl   == next.left
             nr   == next.right
             z    == pageCount
  <2>1. nl \in Int /\ nr \in Int /\ root \in NodeIds
    BY DEF LinkLeaves, InvalidPage, MapInv, IInv, Shape
  <2>2. /\ NodeIds' = NodeIds \cup {z} /\ z \notin NodeIds
        /\ root' = root /\ pc' = "writeRight" /\ split'.right = z
        /\ F[id] = LeftHalf(q, nl) /\ F[z] = RightHalf(q, nr)
        /\ \A y \in NodeIds : y # id => F[y] = Held[y]
    BY <1>1, <1>2, <1>4, HeldAfterSplit
  <2>3. /\ F[id] = LeftHalf(G[id], nl) /\ F[z] = RightHalf(G[id], nr)
        /\ \A y \in NodeIds : y # id => F[y] = G[y]
    BY <1>1, <2>2
  <2> HIDE DEF F, nl, nr, z, next
  <2>4. HangOnce(F, NodeIds \cup {z}, {root, z})
    BY <1>1, <2>1, <2>2, <2>3, HalveHang
  <2>5. root' # split'.right
    BY <2>1, <2>2
  <2>6. QED
    BY <2>2, <2>4, <2>5 DEF HangInv, Tops, Pending, F
<1>5. QED
  BY <1>3, <1>4 DEF DoInsert

(* A value overwritten in place.                                            *)
LEMMA InsertOverwriteHangs ==
  ASSUME MapInv, HangInv, InsertOverwrite
  PROVE  HangInv'
<1> DEFINE id == Last(path)
           F  == Held'
<1>1. pc = "insertRec"
  BY DEF InsertOverwrite
<1>2. PICK own, lev, left : Arranged(own, lev, left)
  BY <1>1 DEF MapInv
<1>3. Come(own, lev)
  BY <1>1, <1>2, TopIsCome
<1>4. /\ Updates(Held[id], F[id], call.key, call.val)
      /\ \A y \in NodeIds : y # id => F[y] = Held[y]
      /\ NodeIds' = NodeIds /\ root' = root
      /\ id \in NodeIds
  BY <1>3, OverwriteHeld DEF Come
<1>5. pc' \in {"return", "corrupt"}
  BY <1>3, OverwriteHeld DEF WriteAndReturn
<1>6. HangOnce(Held, NodeIds, {root})
  BY <1>1 DEF HangInv, Tops, Pending
<1> HIDE DEF F, id
<1>7. HangOnce(F, NodeIds, {root})
  BY <1>4, <1>6, UpdateHang
<1>8. QED
  BY <1>4, <1>5, <1>7 DEF HangInv, Tops, Pending, F

(* A pair put on its leaf.                                                  *)
LEMMA InsertInLeafHangs ==
  ASSUME MapInv, HangInv, InsertInLeaf
  PROVE  HangInv'
<1> SUFFICES ASSUME NEW d, d = Dropped(TopPage, Pos),
                    NEW q, q = WithCell(d, Pos, call.key, call.val, 0)
             PROVE  HangInv'
  OBVIOUS
<1> DEFINE id == Last(path)
           G  == [y \in NodeIds |-> IF y = id THEN q ELSE Held[y]]
<1>1. /\ pc = "insertRec"
      /\ DoInsert(id, d, Pos, call.key, call.val, 0)
  BY DEF InsertInLeaf
<1>2. PICK own, lev, left : Arranged(own, lev, left)
  BY <1>1 DEF MapInv
<1>3. Come(own, lev)
  BY <1>1, <1>2, TopIsCome
<1>4. /\ Placing(G, id, q, own, lev)
      /\ Updates(Held[id], G[id], call.key, call.val)
      /\ \A y \in NodeIds : y # id => G[y] = Held[y]
      /\ q.leaf = d.leaf /\ q.next = d.next /\ d.next \in Int
  BY <1>3, LeafPlaced
<1> HIDE DEF G, id
<1>5. HangOnce(Held, NodeIds, {root})
  BY <1>1 DEF HangInv, Tops, Pending
<1>6. id \in NodeIds
  BY <1>4 DEF Placing
<1>7. HangOnce(G, NodeIds, {root})
  BY <1>4, <1>5, <1>6, UpdateHang
<1>8. QED
  BY <1>1, <1>4, <1>7, DoInsertHangs

(* A promoted cell put on the page above.                                   *)
LEMMA InsertSplitHangs ==
  ASSUME MapInv, HangInv, InsertSplit
  PROVE  HangInv'
<1> SUFFICES ASSUME NEW p, p = TopPage, NEW i, i = Way(p, split.key),
                    NEW q, q = WithCell(p, i, split.key, split.val, split.right)
             PROVE  HangInv'
  OBVIOUS
<1> DEFINE id == Last(path)
           G  == [y \in NodeIds |-> IF y = id THEN q ELSE Held[y]]
<1>1. /\ pc = "insertSplit"
      /\ DoInsert(id, p, i, split.key, split.val, split.right)
  BY DEF InsertSplit, Way
<1>2. PICK own, lev, left : Arranged(own, lev, left)
  BY <1>1 DEF MapInv
<1>3. /\ Placing(G, id, q, own, lev)
      /\ Joined(Held[id], own[id], i, split.key, split.val, split.right)
      /\ G[id] = WithCell(Held[id], i, split.key, split.val, split.right)
      /\ \A y \in NodeIds : y # id => G[y] = Held[y]
      /\ ~p.leaf /\ q.leaf = p.leaf /\ q.next = p.next /\ p.next \in Int
  BY <1>2, SplitPlaced
<1> HIDE DEF G, id
<1>4. HangOnce(Held, NodeIds, {root, split.right}) /\ root # split.right
  BY <1>1 DEF HangInv, Tops, Pending
<1>5. id \in NodeIds
  BY <1>3 DEF Placing
<1>6. HangOnce(G, NodeIds, {root})
  <2> DEFINE s  == split.key
             sv == split.val
             rt == split.right
             o  == own[id]
  <2>1. /\ Joined(Held[id], o, i, s, sv, rt)
        /\ G[id] = WithCell(Held[id], i, s, sv, rt)
        /\ HangOnce(Held, NodeIds, {root, rt}) /\ root # rt
    BY <1>3, <1>4
  <2> HIDE DEF s, sv, rt, o
  <2>2. Joining(Held, G, NodeIds, root, rt, id, o, i, s, sv)
    BY <1>3, <1>5, <2>1 DEF Joining
  <2>3. QED
    BY <2>2, JoinHang
<1>7. QED
  BY <1>1, <1>3, <1>6, DoInsertHangs

(* A new root hung over the two halves of the old one.                      *)
LEMMA NewRootHangs ==
  ASSUME MapInv, HangInv, NewRoot
  PROVE  HangInv'
<1>1. SUFFICES ASSUME pc' # "corrupt" PROVE HangInv'
  BY DEF HangInv
<1> DEFINE s  == split.key
           sv == split.val
           rt == split.right
           F  == Held'
           z  == pageCount
<1>2. /\ F[z] = RootPage(root, s, sv, rt)
      /\ \A y \in NodeIds : F[y] = Held[y]
      /\ NodeIds' = NodeIds \cup {z} /\ z \notin NodeIds
      /\ NodeIds \subseteq Nat /\ s \in Int /\ sv \in Values \cup {Nil}
      /\ pc = "newRoot" /\ pc' = "writeHeader" /\ root' = z
  BY <1>1, RootHeld
<1>3. HangOnce(Held, NodeIds, {root, rt}) /\ root # rt
  BY <1>2 DEF HangInv, Tops, Pending
<1> HIDE DEF s, sv, rt, F, z
<1>4. HangOnce(F, NodeIds \cup {z}, {z})
  BY <1>2, <1>3, RootHang
<1>5. QED
  BY <1>2, <1>4 DEF HangInv, Tops, Pending, F

(* Every step of the engine but a Delete and an eviction, of which there are*)
(* none, and every step of a call that changes no page.                     *)
LEMMA EngineHangs ==
  ASSUME MapInv, HangInv, ~Ousts, ~Deletes, Engine
  PROVE  HangInv'
<1>1. CASE \E k \in Keys, v \in Values : Insert(k, v)
  <2>1. /\ pc = "idle" /\ pc' = "insertRec"
        /\ UNCHANGED <<file, pageCount, root, split, contents>>
    BY <1>1 DEF Insert
  <2>2. QED
    BY <2>1, SameTree, StayHangs DEF Pending
<1>2. CASE InsertOverwrite
  BY <1>2, InsertOverwriteHangs
<1>3. CASE InsertInLeaf
  BY <1>3, InsertInLeafHangs
<1>4. CASE InsertDescend
  <2>1. /\ pc = "insertRec" /\ pc' = "insertRec"
        /\ UNCHANGED <<file, pageCount, root, split, contents>>
    BY <1>4 DEF InsertDescend
  <2>2. QED
    BY <2>1, SameTree, StayHangs DEF Pending
<1>5. CASE WriteRight
  <2>1. /\ pc = "writeRight" /\ pc' \in {"newRoot", "insertSplit"}
        /\ UNCHANGED <<root, split>> /\ NodeIds' = NodeIds /\ Held' = Held
    BY <1>5, RightHeld
  <2>2. QED
    BY <2>1, StayHangs DEF Pending
<1>6. CASE InsertSplit
  BY <1>6, InsertSplitHangs
<1>7. CASE NewRoot
  BY <1>7, NewRootHangs
<1>8. CASE WriteHeader
  <2>1. /\ pc = "writeHeader" /\ pc' = "return"
        /\ UNCHANGED <<file, pageCount, root, split, contents>>
    BY <1>8 DEF WriteHeader
  <2>2. QED
    BY <2>1, SameTree, StayHangs DEF Pending
<1>9. CASE ReturnInsert
  <2>1. /\ pc = "return" /\ pc' = "idle"
        /\ UNCHANGED <<file, pageCount, root>>
    BY <1>9 DEF ReturnInsert
  <2>2. NodeIds' = NodeIds
    BY <2>1 DEF NodeIds
  <2>3. Held' = Held
    BY <2>1, <2>2 DEF Held, Awaited
  <2>4. QED
    BY <2>1, <2>2, <2>3, StayHangs DEF Pending
<1>10. DOMAIN cached = {}
  BY DEF MapInv
<1>11. QED
  BY <1>1, <1>2, <1>3, <1>4, <1>5, <1>6, <1>7, <1>8, <1>9, <1>10
     DEF Engine, InsertStep, Deletes

(* A lookup moves no page.                                                  *)
LEMMA LookupHangs ==
  ASSUME HangInv, UNCHANGED <<file, pageCount, root, split>>,
         pc \in {"idle", "get", "findLeaf", "scan", "answer"},
         pc' \in {"idle", "get", "findLeaf", "scan", "answer"}
  PROVE  HangInv'
<1>1. NodeIds' = NodeIds
  BY DEF NodeIds
<1>2. Held' = Held
  BY <1>1 DEF Held, Awaited
<1>3. QED
  BY <1>1, <1>2, StayHangs DEF Pending

(* Nor does a step in which nothing happens.                                *)
LEMMA StutterHangs ==
  ASSUME HangInv, UNCHANGED vars
  PROVE  HangInv'
<1>1. UNCHANGED <<file, pageCount, root, split, pc>> /\ NodeIds' = NodeIds
  BY DEF vars, NodeIds
<1>2. Held' = Held /\ Tops' = Tops /\ (Pending' <=> Pending)
  BY <1>1 DEF Held, Awaited, Tops, Pending
<1>3. QED
  BY <1>1, <1>2 DEF HangInv

(* From the root the links lead to every page of a sound tree in which each *)
(* page but the root hangs somewhere.                                       *)
LEMMA ReachesAll ==
  ASSUME NEW H, NEW ids, NEW r, NEW own, NEW lev, NEW want,
         Valid(H, ids, r, own, lev, own, want), HangOnce(H, ids, {r}),
         IsFiniteSet(ids)
  PROVE  Reached(LinksOf(H, ids), r) = ids
<1> DEFINE T == Reached(LinksOf(H, ids), r)
           Missed == {lev[r] - lev[y] : y \in ids \ T}
<1>1. /\ lev \in [ids -> Nat] /\ r \in ids
      /\ \A x \in ids : lev[x] <= lev[r]
      /\ \A x \in ids : PageOK(H[x], x, ids, own, lev, own, want)
  BY DEF Valid, Spread
<1>2. /\ r \in T /\ T \subseteq ids
      /\ \A x \in T : ~H[x].leaf => \A i \in 1 .. NumCells(H[x]) + 1 :
           ChildAt(H[x], i) \in ids => ChildAt(H[x], i) \in T
  BY <1>1, ReachedChildren
<1> HIDE DEF T
<1>3. SUFFICES ASSUME ids \ T # {} PROVE FALSE
  BY <1>2 DEF T
<1>4. PICK n \in Missed : \A l \in Missed : n <= l
  <2>1. Missed \subseteq Nat /\ Missed # {}
    BY <1>1, <1>3
  <2> HIDE DEF Missed
  <2>2. QED
    BY <2>1, LeastNat
<1>5. PICK y \in ids \ T : n = lev[r] - lev[y]
  BY <1>4
<1>6. PICK x, j : Above(H, ids, x, j, y)
  BY <1>2, <1>5 DEF HangOnce
<1>7. x \in ids /\ ~H[x].leaf /\ y = ChildAt(H[x], j) /\ lev[x] = lev[y] + 1
  BY <1>1, <1>6 DEF Above, PageOK, ChildrenOK, ChildOK
<1>8. ~(n <= lev[r] - lev[x])
  BY <1>1, <1>5, <1>7
<1>9. x \in T
  BY <1>4, <1>7, <1>8
<1>10. QED
  BY <1>2, <1>5, <1>6, <1>7, <1>9 DEF Above

(* When no call runs, the pages are a tree.                                 *)
LEMMA MapHangs == MapInv /\ HangInv => EachPageOnce
<1>1. SUFFICES ASSUME MapInv, HangInv, pc = "idle"
               PROVE  /\ InTree = NodeIds
                      /\ \A u, v \in NodeIds :
                           \A i \in DOMAIN ChildSeq(PageOf(u)),
                              j \in DOMAIN ChildSeq(PageOf(v)) :
                             /\ ChildSeq(PageOf(u))[i] # root
                             /\ ChildSeq(PageOf(u))[i] = ChildSeq(PageOf(v))[j]
                                  => u = v /\ i = j
  BY DEF EachPageOnce
<1>2. PICK own, lev, left : Arranged(own, lev, left)
  BY <1>1 DEF MapInv
<1>3. Valid(Held, NodeIds, root, own, lev, own, contents)
  BY <1>1, <1>2 DEF Arranged, TreeSound, Pending, Want, Inserted
<1>4. HangOnce(Held, NodeIds, {root})
  BY <1>1 DEF HangInv, Tops, Pending
<1>5. InTree = NodeIds
  BY <1>1, <1>3, <1>4, InTreeIsReached, ReachesAll
<1>6. ASSUME NEW u \in NodeIds, NEW i \in DOMAIN ChildSeq(PageOf(u))
      PROVE  Above(Held, NodeIds, u, i, ChildSeq(PageOf(u))[i])
  <2>1. PageOf(u) = Held[u]
    BY <1>1, ReadHeld
  <2>2. ~Held[u].leaf
    BY <1>6, <2>1 DEF ChildSeq
  <2>3. ChildSeq(Held[u]) = [j \in 1 .. NumCells(Held[u]) + 1 |-> ChildAt(Held[u], j)]
    BY <2>2 DEF ChildSeq
  <2>4. QED
    BY <1>6, <2>1, <2>2, <2>3 DEF Above
<1>7. QED
  BY <1>4, <1>5, <1>6 DEF HangOnce
-----------------------------------------------------------------------------
(* The levels of the tree                                                   *)

(* The pages hang in one tree, and their table explains them.               *)
Standing(H, ids, r, own, lev, want) ==
  Valid(H, ids, r, own, lev, own, want) /\ HangOnce(H, ids, {r})

(* The sequence s is the pages n levels above the leaves, from left to      *)
(* right: in a B+ tree, for all keys there are.                             *)
Row(s, n, ids, own, lev) ==
  /\ s \in Seq(ids) /\ Len(s) >= 1
  /\ \A i \in 1 .. Len(s) : lev[s[i]] = n
  /\ \A i, j \in 1 .. Len(s) : s[i] = s[j] => i = j
  /\ \A i, j \in 1 .. Len(s) :
       i < j => \A k \in own[s[i]], l \in own[s[j]] : k < l
  /\ CopyUpLeaves => \A k \in Int : \E i \in 1 .. Len(s) : k \in own[s[i]]

(* The root is a level.                                                     *)
LEMMA RootRow ==
  ASSUME NEW H, NEW ids, NEW r, NEW own, NEW lev, NEW want,
         Valid(H, ids, r, own, lev, own, want)
  PROVE  Row(<<r>>, lev[r], ids, own, lev)
<1>1. r \in ids /\ own[r] = Int
  BY DEF Valid, Spread
<1>2. <<r>> \in Seq(ids) /\ Len(<<r>>) = 1 /\ <<r>>[1] = r
  BY <1>1
<1>3. \A i \in 1 .. Len(<<r>>) : i = 1
  BY <1>2
<1>4. \A k \in Int : \E i \in 1 .. Len(<<r>>) : k \in own[<<r>>[i]]
  BY <1>1, <1>2
<1>5. QED
  BY <1>2, <1>3, <1>4 DEF Row

(* The children of an internal page, from left to right.                    *)
LEMMA ChildrenOfPage ==
  ASSUME NEW H, NEW ids, NEW r, NEW own, NEW lev, NEW want,
         Valid(H, ids, r, own, lev, own, want), NEW x \in ids, lev[x] # 0
  PROVE  /\ ~H[x].leaf /\ IsPage(H[x]) /\ Increasing(H[x]) /\ NumCells(H[x]) \in Nat
         /\ ChildSeq(H[x]) \in Seq(ids) /\ Len(ChildSeq(H[x])) = NumCells(H[x]) + 1
         /\ \A i \in 1 .. NumCells(H[x]) + 1 :
              /\ ChildSeq(H[x])[i] = ChildAt(H[x], i)
              /\ lev[x] = lev[ChildAt(H[x], i)] + 1
              /\ own[ChildAt(H[x], i)] = Share(H[x], own[x], i)
              /\ Above(H, ids, x, i, ChildAt(H[x], i))
<1>1. PageOK(H[x], x, ids, own, lev, own, want)
  BY DEF Valid
<1>2. ~H[x].leaf /\ IsPage(H[x]) /\ Increasing(H[x])
  BY <1>1 DEF PageOK, KindOK
<1>3. NumCells(H[x]) \in Nat
  BY <1>2, CellsOfPage
<1>4. \A i \in 1 .. NumCells(H[x]) + 1 : ChildOK(H[x], i, x, ids, own, lev, own)
  BY <1>1, <1>2 DEF PageOK, ChildrenOK
<1>5. ChildSeq(H[x]) = [i \in 1 .. NumCells(H[x]) + 1 |-> ChildAt(H[x], i)]
  BY <1>2 DEF ChildSeq
<1>6. ChildSeq(H[x]) \in Seq(ids) /\ Len(ChildSeq(H[x])) = NumCells(H[x]) + 1
  <2>1. \A i \in 1 .. NumCells(H[x]) + 1 : ChildAt(H[x], i) \in ids
    BY <1>4 DEF ChildOK
  <2>2. NumCells(H[x]) + 1 \in Nat
    BY <1>3
  <2>3. QED
    BY <1>5, <2>1, <2>2
<1>7. QED
  BY <1>2, <1>3, <1>4, <1>5, <1>6 DEF ChildOK, Above

(* Children further right are for greater keys.                             *)
LEMMA SharesAscend ==
  ASSUME NEW p, IsPage(p), Increasing(p), NEW o, o \subseteq Int,
         NEW i \in 1 .. NumCells(p) + 1, NEW j \in 1 .. NumCells(p) + 1, i < j,
         NEW k \in Share(p, o, i), NEW l \in Share(p, o, j)
  PROVE  k < l
<1>1. /\ NumCells(p) \in Nat /\ k \in Int /\ l \in Int
      /\ \A c \in 1 .. NumCells(p) : p.cells[c].key \in Int
  BY CellsOfPage DEF Share
<1>2. i \in 1 .. NumCells(p) /\ j - 1 \in 1 .. NumCells(p) /\ i <= j - 1
  BY <1>1
<1>3. k < p.cells[i].key /\ After(p.cells[j - 1].key, l)
  BY <1>1, <1>2 DEF Share
<1>4. p.cells[i].key <= p.cells[j - 1].key
  BY <1>1, <1>2 DEF Increasing
<1>5. p.cells[j - 1].key <= l
  BY <1>1, <1>2, <1>3 DEF After
<1>6. QED
  BY <1>1, <1>2, <1>3, <1>4, <1>5

(* The pages below a level, from left to right.                             *)
Children(H, s) == [j \in DOMAIN s |-> ChildSeq(H[s[j]])]

(* They are the next level.                                                 *)
LEMMA NextRow ==
  ASSUME NEW H, NEW ids, NEW r, NEW own, NEW lev, NEW want,
         Standing(H, ids, r, own, lev, want),
         NEW n \in Nat \ {0}, NEW s, Row(s, n, ids, own, lev)
  PROVE  Row(FlattenSeq(Children(H, s)), n - 1, ids, own, lev)
<1> DEFINE b == Children(H, s)
           F == FlattenSeq(b)
           m == Len(s)
<1>1. /\ Valid(H, ids, r, own, lev, own, want)
      /\ lev \in [ids -> Nat] /\ own \in [ids -> SUBSET Int]
  BY DEF Standing, Valid, Spread
<1>2. s \in Seq(ids) /\ m \in Nat \ {0} /\ \A i \in 1 .. m : s[i] \in ids /\ lev[s[i]] = n
  BY DEF Row
<1>3. /\ Len(b) = m /\ \A i \in 1 .. m : b[i] = ChildSeq(H[s[i]])
  BY <1>2 DEF Children
<1>4. ASSUME NEW i \in 1 .. m
      PROVE  /\ ~H[s[i]].leaf /\ IsPage(H[s[i]]) /\ Increasing(H[s[i]])
             /\ NumCells(H[s[i]]) \in Nat
             /\ b[i] \in Seq(ids) /\ Len(b[i]) = NumCells(H[s[i]]) + 1
             /\ \A c \in 1 .. NumCells(H[s[i]]) + 1 :
                  /\ b[i][c] = ChildAt(H[s[i]], c)
                  /\ n = lev[b[i][c]] + 1
                  /\ own[b[i][c]] = Share(H[s[i]], own[s[i]], c)
                  /\ Above(H, ids, s[i], c, b[i][c])
  <2>1. s[i] \in ids /\ lev[s[i]] = n /\ lev[s[i]] # 0
    BY <1>2
  <2>2. QED
    BY <1>1, <1>3, <2>1, ChildrenOfPage
<1> HIDE DEF b
<1>5. PICK row, col : Flat(F, ids, b, m, row, col)
  BY <1>2, <1>3, <1>4, FlattenElements
<1> HIDE DEF F, m
<1>6. ASSUME NEW t \in 1 .. Len(F)
      PROVE  /\ row[t] \in 1 .. m /\ s[row[t]] \in ids
             /\ col[t] \in 1 .. NumCells(H[s[row[t]]]) + 1
             /\ F[t] = b[row[t]][col[t]] /\ F[t] \in ids /\ lev[F[t]] = n - 1
             /\ own[F[t]] = Share(H[s[row[t]]], own[s[row[t]]], col[t])
             /\ Above(H, ids, s[row[t]], col[t], F[t])
  <2>1. /\ row[t] \in 1 .. m /\ col[t] \in 1 .. Len(b[row[t]])
        /\ F[t] = b[row[t]][col[t]]
    BY <1>5 DEF Flat
  <2>2. F \in Seq(ids)
    BY <1>5 DEF Flat
  <2>3. F[t] \in ids
    BY <2>2
  <2>4. n = lev[F[t]] + 1 /\ lev[F[t]] \in Nat
    BY <1>1, <1>4, <2>1, <2>3
  <2>5. /\ col[t] \in 1 .. NumCells(H[s[row[t]]]) + 1 /\ lev[F[t]] = n - 1
        /\ s[row[t]] \in ids
    <3>1. Len(b[row[t]]) = NumCells(H[s[row[t]]]) + 1
      BY <1>4, <2>1
    <3>2. s[row[t]] \in ids
      BY <1>2, <2>1
    <3>3. lev[F[t]] = n - 1
      BY <2>4
    <3>4. QED
      BY <2>1, <3>1, <3>2, <3>3
  <2>6. /\ own[F[t]] = Share(H[s[row[t]]], own[s[row[t]]], col[t])
        /\ Above(H, ids, s[row[t]], col[t], F[t])
    BY <1>4, <2>1, <2>5
  <2>7. QED
    BY <2>1, <2>3, <2>5, <2>6
<1>7. F \in Seq(ids) /\ Len(F) \in Nat
  BY <1>5 DEF Flat
<1>8. Len(F) >= 1
  <2>1. 1 \in 1 .. m /\ 1 \in 1 .. Len(b[1])
    BY <1>2, <1>4 DEF m
  <2>2. \E t \in 1 .. Len(F) : row[t] = 1 /\ col[t] = 1
    BY <1>5, <2>1 DEF Flat
  <2>3. QED
    BY <1>7, <2>2
<1>9. ASSUME NEW t \in 1 .. Len(F), NEW u \in 1 .. Len(F), F[t] = F[u]
      PROVE  t = u
  <2>1. s[row[t]] = s[row[u]] /\ col[t] = col[u]
    <3>1. Above(H, ids, s[row[t]], col[t], F[t]) /\ Above(H, ids, s[row[u]], col[u], F[t])
      BY <1>6, <1>9
    <3>2. QED
      BY <3>1 DEF Standing, HangOnce
  <2>2. row[t] = row[u] /\ row[t] \in Nat /\ col[t] \in Nat
    <3>1. row[t] \in 1 .. m /\ row[u] \in 1 .. m
      BY <1>6
    <3>2. col[t] \in 1 .. NumCells(H[s[row[t]]]) + 1
      BY <1>6
    <3>3. QED
      BY <1>2, <2>1, <3>1, <3>2 DEF Row, m
  <2>3. ~(t < u) /\ ~(u < t)
    BY <1>5, <2>1, <2>2 DEF Flat
  <2>4. QED
    BY <1>7, <2>3
<1>10. ASSUME NEW t \in 1 .. Len(F), NEW u \in 1 .. Len(F), t < u,
              NEW k \in own[F[t]], NEW l \in own[F[u]]
       PROVE  k < l
  <2>1. /\ k \in Share(H[s[row[t]]], own[s[row[t]]], col[t])
        /\ l \in Share(H[s[row[u]]], own[s[row[u]]], col[u])
    BY <1>6, <1>10
  <2>2. row[t] < row[u] \/ (row[t] = row[u] /\ col[t] < col[u])
    BY <1>5, <1>10 DEF Flat
  <2>3. row[t] \in 1 .. m /\ row[u] \in 1 .. m
    BY <1>6
  <2>4. CASE row[t] < row[u]
    <3>1. k \in own[s[row[t]]] /\ l \in own[s[row[u]]]
      BY <2>1 DEF Share
    <3>2. QED
      BY <2>3, <2>4, <3>1 DEF Row, m
  <2>5. CASE row[t] = row[u] /\ col[t] < col[u]
    <3> DEFINE x == s[row[t]]
    <3>1. /\ IsPage(H[x]) /\ Increasing(H[x]) /\ own[x] \subseteq Int
          /\ col[t] \in 1 .. NumCells(H[x]) + 1 /\ col[u] \in 1 .. NumCells(H[x]) + 1
      BY <1>1, <1>4, <1>6, <2>5
    <3>2. k \in Share(H[x], own[x], col[t]) /\ l \in Share(H[x], own[x], col[u])
      BY <2>1, <2>5
    <3> HIDE DEF x
    <3>3. QED
      BY <2>5, <3>1, <3>2, SharesAscend
  <2>6. QED
    BY <2>2, <2>4, <2>5
<1>11. ASSUME CopyUpLeaves, NEW k \in Int
       PROVE  \E t \in 1 .. Len(F) : k \in own[F[t]]
  <2>1. PICK i \in 1 .. m : k \in own[s[i]]
    BY <1>11 DEF Row, m
  <2> DEFINE x == s[i]
             j == Way(H[x], k)
  <2>2. /\ x \in ids /\ IsPage(H[x]) /\ Increasing(H[x]) /\ ~H[x].leaf
        /\ own[x] \subseteq Int /\ k \in own[x] /\ NumCells(H[x]) \in Nat
    BY <1>1, <1>2, <1>4, <2>1
  <2>3. /\ Len(b[i]) = NumCells(H[x]) + 1
        /\ \A c \in 1 .. NumCells(H[x]) + 1 : own[b[i][c]] = Share(H[x], own[x], c)
    BY <1>4
  <2> HIDE DEF x
  <2>4. j \in 1 .. NumCells(H[x]) + 1
    BY <2>2, FindIdxIsBorder DEF Way
  <2>5. ~KeyOn(H[x], j, k)
    BY <1>11, <2>2, SeparatorPassed
  <2> HIDE DEF j
  <2>6. k \in Share(H[x], own[x], j)
    BY <2>2, <2>4, <2>5, ShareIsFound DEF j
  <2>7. k \in own[b[i][j]]
    BY <2>3, <2>4, <2>6
  <2>8. PICK t \in 1 .. Len(F) : row[t] = i /\ col[t] = j
    BY <1>5, <2>3, <2>4 DEF Flat
  <2>9. F[t] = b[i][j]
    BY <1>6, <2>8
  <2>10. QED
    BY <2>7, <2>9
<1>12. QED
  BY <1>6, <1>7, <1>8, <1>9, <1>10, <1>11 DEF Row, F, b

(* A tree at rest, between two calls.                                       *)
Resting(own, lev) ==
  /\ pc = "idle"
  /\ Standing(Held, NodeIds, root, own, lev, contents)
  /\ \A id \in NodeIds : PageOf(id) = Held[id]
  /\ DOMAIN file = NodeIds
  /\ Cardinality(NodeIds) \in Nat /\ lev[root] \in Nat
  /\ lev[root] + 1 <= Cardinality(NodeIds)

LEMMA IdleRests ==
  ASSUME MapInv, HangInv, pc = "idle"
  PROVE  \E own, lev : Resting(own, lev)
<1>1. PICK own, lev, left : Arranged(own, lev, left)
  BY DEF MapInv
<1>2. Valid(Held, NodeIds, root, own, lev, own, contents)
  BY <1>1 DEF Arranged, TreeSound, Pending, Want, Inserted
<1>3. HangOnce(Held, NodeIds, {root})
  BY DEF HangInv, Tops, Pending
<1>4. \A id \in NodeIds : PageOf(id) = Held[id]
  BY ReadHeld
<1>5. IsFiniteSet(NodeIds) /\ DOMAIN file = NodeIds
  BY FS_Interval DEF NodeIds, MapInv, IInv, Shape
<1>6. /\ lev[root] \in Nat /\ Cardinality(NodeIds) \in Nat
      /\ lev[root] + 1 <= Cardinality(NodeIds)
  BY <1>2, <1>5, LevelsArePages
<1>7. QED
  BY <1>2, <1>3, <1>4, <1>5, <1>6 DEF Resting, Standing

(* The levels as Level computes them.                                       *)
Lower(s) == [j \in DOMAIN s |-> ChildSeq(PageOf(s[j]))]

Levels(f, m) ==
  f = [d \in 0 .. m |-> IF d = 0 THEN <<root>> ELSE FlattenSeq(Lower(f[d - 1]))]

LEMMA LevelsExist ==
  ASSUME NEW m \in Nat
  PROVE  \E f : Levels(f, m)
<1> DEFINE Bad == {n \in Nat : ~\E f : Levels(f, n)}
<1>1. SUFFICES ASSUME Bad # {} PROVE FALSE
  OBVIOUS
<1>2. PICK n \in Bad : \A l \in Bad : n <= l
  <2>1. Bad \subseteq Nat
    OBVIOUS
  <2> HIDE DEF Bad
  <2>2. QED
    BY <1>1, <2>1, LeastNat
<1>3. n # 0
  <2>1. Levels([l \in 0 .. 0 |-> <<root>>], 0)
    BY DEF Levels
  <2>2. QED
    BY <1>2, <2>1
<1>4. n - 1 \in Nat /\ n - 1 \notin Bad /\ n \in Nat
  BY <1>2, <1>3
<1>5. PICK f : Levels(f, n - 1)
  BY <1>4
<1> DEFINE g == [l \in 0 .. n |-> IF l = n THEN FlattenSeq(Lower(f[n - 1])) ELSE f[l]]
<1>6. \A l \in 0 .. n - 1 : g[l] = f[l]
  BY <1>4
<1>7. \A l \in 0 .. n : g[l] = IF l = 0 THEN <<root>> ELSE FlattenSeq(Lower(g[l - 1]))
  <2>1. TAKE l \in 0 .. n
  <2>2. CASE l = n
    <3>1. n - 1 \in 0 .. n - 1 /\ n \in 0 .. n
      BY <1>4
    <3>2. QED
      BY <1>3, <1>6, <2>2, <3>1
  <2>3. CASE l # n
    <3>1. l \in 0 .. n - 1 /\ (l # 0 => l - 1 \in 0 .. n - 1)
      BY <1>4, <2>3
    <3>2. f[l] = IF l = 0 THEN <<root>> ELSE FlattenSeq(Lower(f[l - 1]))
      BY <1>5, <3>1 DEF Levels
    <3>3. QED
      BY <1>6, <3>1, <3>2
  <2>4. QED
    BY <2>2, <2>3
<1>8. Levels(g, n)
  <2>1. g = [l \in 0 .. n |-> g[l]]
    OBVIOUS
  <2> HIDE DEF g
  <2>2. QED
    BY <1>7, <2>1 DEF Levels
<1>9. QED
  BY <1>2, <1>8

(* Each level from the root to the leaves is the row of its pages.          *)
LEMMA LevelRows ==
  ASSUME NEW own, NEW lev, Resting(own, lev)
  PROVE  \A d \in 0 .. lev[root] : Row(Level[d], lev[root] - d, NodeIds, own, lev)
<1> DEFINE L == lev[root]
           m == Cardinality(DOMAIN file)
           f == CHOOSE f : Levels(f, m)
<1>1. /\ m \in Nat /\ L \in Nat /\ L + 1 <= m
      /\ Standing(Held, NodeIds, root, own, lev, contents)
      /\ Valid(Held, NodeIds, root, own, lev, own, contents)
  BY DEF Resting, Standing
<1>2. Levels(f, m)
  BY <1>1, LevelsExist
<1>3. Level = f
  BY DEF Level, Levels, Lower
<1> HIDE DEF f, m, L
<1> DEFINE Bad == {d \in 0 .. L : ~Row(f[d], L - d, NodeIds, own, lev)}
<1>4. ASSUME Bad # {} PROVE FALSE
  <2>1. PICK d \in Bad : \A e \in Bad : d <= e
    <3>1. Bad \subseteq Nat
      OBVIOUS
    <3> HIDE DEF Bad
    <3>2. QED
      BY <1>4, <3>1, LeastNat
  <2>2. d \in 0 .. L /\ d \in 0 .. m /\ ~Row(f[d], L - d, NodeIds, own, lev)
    BY <1>1, <2>1
  <2>3. f[d] = IF d = 0 THEN <<root>> ELSE FlattenSeq(Lower(f[d - 1]))
    BY <1>2, <2>2 DEF Levels
  <2>4. CASE d = 0
    <3>1. Row(<<root>>, L, NodeIds, own, lev) /\ L - 0 = L
      BY <1>1, RootRow DEF L
    <3>2. QED
      BY <2>2, <2>3, <2>4, <3>1
  <2>5. CASE d # 0
    <3> DEFINE s == f[d - 1]
               n == L - (d - 1)
    <3>1. /\ d - 1 \in 0 .. L /\ ~(d <= d - 1)
          /\ n \in Nat \ {0} /\ n - 1 = L - d
      BY <1>1, <2>2, <2>5
    <3>2. Row(s, n, NodeIds, own, lev)
      BY <2>1, <3>1
    <3>3. Lower(s) = Children(Held, s)
      <4>1. s \in Seq(NodeIds)
        BY <3>2 DEF Row
      <4> HIDE DEF s
      <4>2. \A j \in DOMAIN s : s[j] \in NodeIds
        BY <4>1
      <4>3. QED
        BY <4>2 DEF Lower, Children, Resting
    <3> HIDE DEF s, n
    <3>4. Row(FlattenSeq(Children(Held, s)), n - 1, NodeIds, own, lev)
      BY <1>1, <3>1, <3>2, NextRow
    <3>5. QED
      BY <2>2, <2>3, <2>5, <3>1, <3>3, <3>4 DEF s
  <2>6. QED
    BY <2>4, <2>5
<1>5. QED
  BY <1>3, <1>4 DEF L

(* The chain of rightmost children as Height follows it.                    *)
Deeper(x) == IF PageOf(x).leaf THEN x ELSE PageOf(x).rightmost

Spine(f, m) == f = [d \in 0 .. m |-> IF d = 0 THEN root ELSE Deeper(f[d - 1])]

LEMMA SpinesExist ==
  ASSUME NEW m \in Nat
  PROVE  \E f : Spine(f, m)
<1> DEFINE Bad == {n \in Nat : ~\E f : Spine(f, n)}
<1>1. SUFFICES ASSUME Bad # {} PROVE FALSE
  OBVIOUS
<1>2. PICK n \in Bad : \A l \in Bad : n <= l
  <2>1. Bad \subseteq Nat
    OBVIOUS
  <2> HIDE DEF Bad
  <2>2. QED
    BY <1>1, <2>1, LeastNat
<1>3. n # 0
  <2>1. Spine([l \in 0 .. 0 |-> root], 0)
    BY DEF Spine
  <2>2. QED
    BY <1>2, <2>1
<1>4. n - 1 \in Nat /\ n - 1 \notin Bad /\ n \in Nat
  BY <1>2, <1>3
<1>5. PICK f : Spine(f, n - 1)
  BY <1>4
<1> DEFINE g == [l \in 0 .. n |-> IF l = n THEN Deeper(f[n - 1]) ELSE f[l]]
<1>6. \A l \in 0 .. n - 1 : g[l] = f[l]
  BY <1>4
<1>7. \A l \in 0 .. n : g[l] = IF l = 0 THEN root ELSE Deeper(g[l - 1])
  <2>1. TAKE l \in 0 .. n
  <2>2. CASE l = n
    <3>1. n - 1 \in 0 .. n - 1 /\ n \in 0 .. n
      BY <1>4
    <3>2. QED
      BY <1>3, <1>6, <2>2, <3>1
  <2>3. CASE l # n
    <3>1. l \in 0 .. n - 1 /\ (l # 0 => l - 1 \in 0 .. n - 1)
      BY <1>4, <2>3
    <3>2. f[l] = IF l = 0 THEN root ELSE Deeper(f[l - 1])
      BY <1>5, <3>1 DEF Spine
    <3>3. QED
      BY <1>6, <3>1, <3>2
  <2>4. QED
    BY <2>2, <2>3
<1>8. Spine(g, n)
  <2>1. g = [l \in 0 .. n |-> g[l]]
    OBVIOUS
  <2> HIDE DEF g
  <2>2. QED
    BY <1>7, <2>1 DEF Spine
<1>9. QED
  BY <1>2, <1>8

(* Height is the number of levels.                                          *)
LEMMA HeightIsLevels ==
  ASSUME NEW own, NEW lev, Resting(own, lev)
  PROVE  Height = lev[root] + 1
<1> DEFINE L == lev[root]
           m == Cardinality(DOMAIN file)
           f == CHOOSE f : Spine(f, m)
           Found(h) == PageOf(f[h - 1]).leaf /\ (h > 1 => ~PageOf(f[h - 2]).leaf)
<1>1. /\ m \in Nat /\ L \in Nat /\ L + 1 <= m
      /\ Valid(Held, NodeIds, root, own, lev, own, contents)
      /\ root \in NodeIds /\ lev \in [NodeIds -> Nat]
  BY DEF Resting, Standing, Valid, Spread
<1>2. Spine(f, m)
  BY <1>1, SpinesExist
<1>3. Height = CHOOSE h \in 1 .. m : Found(h)
  BY DEF Height, Spine, Deeper
<1> HIDE DEF f, m, L
<1>4. ASSUME NEW x \in NodeIds
      PROVE  /\ PageOf(x).leaf <=> lev[x] = 0
             /\ Deeper(x) \in NodeIds
             /\ lev[Deeper(x)] = IF lev[x] = 0 THEN 0 ELSE lev[x] - 1
  <2>1. PageOf(x) = Held[x] /\ PageOK(Held[x], x, NodeIds, own, lev, own, contents)
    BY <1>1 DEF Resting, Valid
  <2>2. PageOf(x).leaf <=> lev[x] = 0
    BY <2>1 DEF PageOK, KindOK
  <2>3. CASE lev[x] = 0
    BY <2>2, <2>3 DEF Deeper
  <2>4. CASE lev[x] # 0
    <3> DEFINE n == NumCells(Held[x])
    <3>1. n \in Nat
      BY <2>1, CellsOfPage DEF PageOK
    <3>2. ChildOK(Held[x], n + 1, x, NodeIds, own, lev, own)
      BY <2>1, <2>2, <2>4, <3>1 DEF PageOK, ChildrenOK
    <3>3. ChildAt(Held[x], n + 1) = Held[x].rightmost
      BY DEF ChildAt
    <3>4. Deeper(x) = Held[x].rightmost
      BY <2>1, <2>2, <2>4 DEF Deeper
    <3>5. lev[Deeper(x)] \in Nat /\ lev[x] \in Nat
      BY <1>1, <3>2, <3>3, <3>4 DEF ChildOK
    <3>6. QED
      BY <2>2, <2>4, <3>2, <3>3, <3>4, <3>5 DEF ChildOK
  <2>5. QED
    BY <2>2, <2>3, <2>4
<1> DEFINE At(d) == f[d] \in NodeIds /\ lev[f[d]] = (IF d <= L THEN L - d ELSE 0)
           Bad == {d \in 0 .. m : ~At(d)}
<1>5. ASSUME Bad # {} PROVE FALSE
  <2>1. PICK d \in Bad : \A e \in Bad : d <= e
    <3>1. Bad \subseteq Nat
      OBVIOUS
    <3> HIDE DEF Bad
    <3>2. QED
      BY <1>5, <3>1, LeastNat
  <2>2. d \in 0 .. m /\ ~At(d)
    BY <2>1
  <2>3. f[d] = IF d = 0 THEN root ELSE Deeper(f[d - 1])
    BY <1>2, <2>2 DEF Spine
  <2>4. d # 0
    BY <1>1, <2>2, <2>3 DEF L
  <2>5. d - 1 \in 0 .. m /\ ~(d <= d - 1)
    BY <1>1, <2>2, <2>4
  <2>6. f[d - 1] \in NodeIds /\ lev[f[d - 1]] = (IF d - 1 <= L THEN L - (d - 1) ELSE 0)
    BY <2>1, <2>5
  <2>7. /\ f[d] \in NodeIds
        /\ lev[f[d]] = IF lev[f[d - 1]] = 0 THEN 0 ELSE lev[f[d - 1]] - 1
    BY <1>4, <2>3, <2>4, <2>6
  <2>8. lev[f[d]] = (IF d <= L THEN L - d ELSE 0)
    BY <1>1, <2>2, <2>6, <2>7
  <2>9. QED
    BY <2>2, <2>7, <2>8
<1>6. \A d \in 0 .. m : PageOf(f[d]).leaf <=> d >= L
  <2>1. TAKE d \in 0 .. m
  <2>2. f[d] \in NodeIds /\ lev[f[d]] = (IF d <= L THEN L - d ELSE 0)
    BY <1>5
  <2>3. PageOf(f[d]).leaf <=> lev[f[d]] = 0
    BY <1>4, <2>2
  <2>4. QED
    BY <1>1, <2>2, <2>3
<1>7. \A h \in 1 .. m : Found(h) <=> h = L + 1
  <2>1. TAKE h \in 1 .. m
  <2>2. h - 1 \in 0 .. m /\ (h > 1 => h - 2 \in 0 .. m)
    BY <1>1
  <2>3. /\ PageOf(f[h - 1]).leaf <=> h - 1 >= L
        /\ h > 1 => (PageOf(f[h - 2]).leaf <=> h - 2 >= L)
    BY <1>6, <2>2
  <2>4. QED
    BY <1>1, <2>3
<1> HIDE DEF Found
<1>8. L + 1 \in 1 .. m
  BY <1>1
<1>9. QED
  BY <1>3, <1>7, <1>8 DEF L

(* When no call runs, the leaves are the lowest level, and no other page is *)
(* a leaf.                                                                  *)
LEMMA MapBalanced == MapInv /\ HangInv => Balanced
<1>1. SUFFICES ASSUME MapInv, HangInv, pc = "idle",
                      NEW d \in 0 .. (Height - 1), NEW id \in ToSet(Level[d])
               PROVE  PageOf(id).leaf <=> d = Height - 1
  BY DEF Balanced
<1>2. PICK own, lev : Resting(own, lev)
  BY <1>1, IdleRests
<1>3. /\ Height = lev[root] + 1 /\ lev[root] \in Nat
      /\ Valid(Held, NodeIds, root, own, lev, own, contents)
      /\ \A x \in NodeIds : PageOf(x) = Held[x]
  BY <1>2, HeightIsLevels DEF Resting, Standing
<1>4. d \in 0 .. lev[root]
  BY <1>1, <1>3
<1>5. Row(Level[d], lev[root] - d, NodeIds, own, lev)
  BY <1>2, <1>4, LevelRows
<1>6. id \in NodeIds /\ lev[id] = lev[root] - d
  <2>1. PICK i \in 1 .. Len(Level[d]) : id = Level[d][i]
    BY <1>1, <1>5 DEF ToSet, Row
  <2>2. QED
    BY <1>5, <2>1 DEF Row
<1>7. PageOf(id).leaf <=> lev[id] = 0
  BY <1>3, <1>6 DEF Valid, PageOK, KindOK
<1>8. QED
  BY <1>3, <1>4, <1>6, <1>7

(* When no call runs, the levels together have no page twice.               *)
LEMMA LevelsApart ==
  ASSUME MapInv, HangInv, pc = "idle"
  PROVE  IsInjective(FlattenSeq([d \in 1 .. Height |-> Level[d - 1]]))
<1> DEFINE s == [d \in 1 .. Height |-> Level[d - 1]]
           F == FlattenSeq(s)
<1>1. PICK own, lev : Resting(own, lev)
  BY IdleRests
<1>2. Height = lev[root] + 1 /\ lev[root] \in Nat
  BY <1>1, HeightIsLevels DEF Resting
<1>3. ASSUME NEW d \in 1 .. Height
      PROVE  s[d] = Level[d - 1] /\ Row(s[d], lev[root] - (d - 1), NodeIds, own, lev)
  <2>1. d - 1 \in 0 .. lev[root]
    BY <1>2
  <2>2. QED
    BY <1>1, <2>1, LevelRows
<1>4. Len(s) = Height /\ Height \in Nat \ {0}
  BY <1>2
<1> HIDE DEF s
<1>5. \A d \in 1 .. Height : s[d] \in Seq(NodeIds)
  BY <1>3 DEF Row
<1>6. PICK row, col : Flat(F, NodeIds, s, Height, row, col)
  BY <1>4, <1>5, FlattenElements
<1> HIDE DEF F
<1>7. F \in Seq(NodeIds)
  BY <1>6 DEF Flat
<1>8. ASSUME NEW t \in 1 .. Len(F), NEW u \in 1 .. Len(F), F[t] = F[u]
      PROVE  t = u
  <2>1. /\ row[t] \in 1 .. Height /\ col[t] \in 1 .. Len(s[row[t]])
        /\ row[u] \in 1 .. Height /\ col[u] \in 1 .. Len(s[row[u]])
        /\ s[row[t]][col[t]] = s[row[u]][col[u]]
    BY <1>6, <1>8 DEF Flat
  <2>2. row[t] = row[u]
    <3>1. /\ lev[s[row[t]][col[t]]] = lev[root] - (row[t] - 1)
          /\ lev[s[row[u]][col[u]]] = lev[root] - (row[u] - 1)
      BY <1>3, <2>1 DEF Row
    <3>2. QED
      BY <1>2, <2>1, <3>1
  <2>3. col[t] = col[u] /\ col[t] \in Nat
    BY <1>3, <2>1, <2>2 DEF Row
  <2>4. ~(t < u) /\ ~(u < t)
    BY <1>4, <1>6, <2>1, <2>2, <2>3 DEF Flat
  <2>5. QED
    BY <1>7, <2>4
<1>9. QED
  BY <1>7, <1>8 DEF IsInjective, F, s

-----------------------------------------------------------------------------
(* Where a search comes to                                                  *)

(* No page below another is on a higher level.                              *)
LEMMA LevelsFall ==
  ASSUME NEW H, NEW ids, NEW r, NEW own, NEW lev, NEW want,
         Valid(H, ids, r, own, lev, own, want), IsFiniteSet(ids), NEW y \in ids
  PROVE  \A x \in Reached(LinksOf(H, ids), y) : x \in ids /\ lev[x] <= lev[y]
<1> DEFINE links == LinksOf(H, ids)
           S == {x \in ids : lev[x] <= lev[y]}
<1>1. lev \in [ids -> Nat] /\ DOMAIN links = ids
  BY DEF LinksOf, Valid, Spread
<1>2. ASSUME NEW x \in S, NEW z \in links[x]
      PROVE  z \in S
  <2>1. x \in ids /\ z \in ToSet(ChildSeq(H[x])) /\ lev[x] <= lev[y]
    BY <1>2 DEF LinksOf
  <2>2. CASE lev[x] = 0
    <3>1. H[x].leaf
      BY <2>1, <2>2 DEF Valid, PageOK, KindOK
    <3>2. ChildSeq(H[x]) = << >>
      BY <3>1 DEF ChildSeq
    <3>3. QED
      BY <2>1, <3>2 DEF ToSet
  <2>3. CASE lev[x] # 0
    <3>1. /\ ChildSeq(H[x]) \in Seq(ids) /\ Len(ChildSeq(H[x])) = NumCells(H[x]) + 1
          /\ \A i \in 1 .. NumCells(H[x]) + 1 :
               /\ ChildSeq(H[x])[i] = ChildAt(H[x], i)
               /\ lev[x] = lev[ChildAt(H[x], i)] + 1
      BY <2>1, <2>3, ChildrenOfPage
    <3>2. PICK i \in 1 .. NumCells(H[x]) + 1 : z = ChildAt(H[x], i) /\ z \in ids
      BY <2>1, <3>1 DEF ToSet
    <3>3. lev[x] = lev[z] + 1
      BY <3>1, <3>2
    <3>4. lev[x] \in Nat /\ lev[y] \in Nat /\ lev[z] \in Nat
      BY <1>1, <2>1, <3>2
    <3>5. QED
      BY <2>1, <3>2, <3>3, <3>4
  <2>4. QED
    BY <2>2, <2>3
<1> HIDE DEF links
<1>3. y \in S
  BY <1>1
<1> HIDE DEF S
<1>4. Reached(links, y) \subseteq S
  BY <1>1, <1>2, <1>3, ReachedStays
<1>5. QED
  BY <1>4 DEF S, links

(* A search never comes back to a page it has left.                         *)
LEMMA MapSearchesEnd == MapInv => NeverBack
<1>1. SUFFICES ASSUME MapInv, pc \in {"get", "findLeaf", "insertRec"},
                      NEW id \in ToSet(ChildSeq(TopPage))
               PROVE  Last(path) \notin PagesUnder(Pages, id)
  BY DEF NeverBack
<1>2. PICK own, lev :
        /\ Valid(Held, NodeIds, root, own, lev, own, contents)
        /\ Last(path) \in NodeIds
  <2>1. CASE pc = "insertRec"
    <3>1. PICK own, lev, left : Arranged(own, lev, left)
      BY <1>1, <2>1 DEF MapInv
    <3>2. Come(own, lev)
      BY <1>1, <2>1, <3>1, TopIsCome
    <3>3. QED
      BY <3>2 DEF Come
  <2>2. CASE pc \in {"get", "findLeaf"}
    <3>1. PICK own, lev, left, x : Searching(own, lev, x)
      BY <1>1, <2>2, PageSearched
    <3>2. Last(path) = x
      BY <3>1 DEF Searching, Last
    <3>3. QED
      BY <3>1, <3>2 DEF Searching
  <2>3. QED
    BY <1>1, <2>1, <2>2
<1> DEFINE x == Last(path)
<1>3. TopPage = Held[x] /\ Pages = Held /\ IsFiniteSet(NodeIds)
  <2>1. PageOf(x) = Held[x]
    BY <1>1, <1>2, ReadHeld
  <2>2. Pages = Held
    BY <1>1 DEF Pages, Held, PageOf, Awaited, MapInv, IInv, Shape
  <2>3. IsFiniteSet(NodeIds)
    BY <1>1, FS_Interval DEF NodeIds, MapInv, IInv, Shape
  <2>4. QED
    BY <2>1, <2>2, <2>3 DEF TopPage
<1> HIDE DEF x
<1>4. lev \in [NodeIds -> Nat]
  BY <1>2 DEF Valid, Spread
<1>5. lev[x] # 0
  <2>1. ~Held[x].leaf
    <3>1. ChildSeq(Held[x]) # << >>
      BY <1>1, <1>3 DEF ToSet
    <3>2. QED
      BY <3>1 DEF ChildSeq
  <2>2. QED
    BY <1>2, <2>1 DEF Valid, PageOK, KindOK, x
<1>6. id \in NodeIds /\ lev[x] = lev[id] + 1
  <2>1. x \in NodeIds
    BY <1>2 DEF x
  <2>2. /\ ChildSeq(Held[x]) \in Seq(NodeIds)
        /\ Len(ChildSeq(Held[x])) = NumCells(Held[x]) + 1
        /\ \A i \in 1 .. NumCells(Held[x]) + 1 :
             /\ ChildSeq(Held[x])[i] = ChildAt(Held[x], i)
             /\ lev[x] = lev[ChildAt(Held[x], i)] + 1
    BY <1>2, <1>5, <2>1, ChildrenOfPage
  <2>3. id \in ToSet(ChildSeq(Held[x]))
    BY <1>1, <1>3
  <2>4. QED
    BY <2>2, <2>3 DEF ToSet
<1>7. ASSUME x \in PagesUnder(Pages, id) PROVE FALSE
  <2>1. PagesUnder(Pages, id) = Reached(LinksOf(Held, NodeIds), id)
    BY <1>3 DEF PagesUnder, LinksOf, Held
  <2>2. lev[x] <= lev[id]
    BY <1>2, <1>3, <1>6, <1>7, <2>1, LevelsFall
  <2>3. lev[id] \in Nat
    BY <1>4, <1>6
  <2>4. QED
    BY <1>6, <2>2, <2>3
<1>8. QED
  BY <1>7 DEF x
-----------------------------------------------------------------------------
(* The header page names the root, but for the time between the two writes  *)
(* of a new root.                                                           *)
HeaderInv == pc \notin {"writeHeader", "corrupt"} => header = root

LEMMA EngineHeader ==
  ASSUME ~WritesMayFail, HeaderInv, Engine
  PROVE  HeaderInv'
<1>1. CASE InsertStep
  <2>1. CASE WriteHeader
    BY <2>1 DEF WriteHeader, HeaderInv
  <2>2. CASE NewRoot
    BY <2>2 DEF NewRoot, HeaderInv
  <2>3. CASE InsertOverwrite \/ InsertInLeaf \/ InsertSplit
    <3>1. /\ UNCHANGED <<header, root>>
          /\ pc \in {"insertRec", "insertSplit"}
      BY <2>3 DEF InsertOverwrite, InsertInLeaf, InsertSplit, DoInsert,
                  WriteAndReturn, SplitNode
    <3>2. QED
      BY <3>1 DEF HeaderInv
  <2>4. CASE InsertDescend \/ WriteRight
    <3>1. UNCHANGED <<header, root>> /\ pc \in {"insertRec", "writeRight"}
      BY <2>4 DEF InsertDescend, WriteRight
    <3>2. QED
      BY <3>1 DEF HeaderInv
  <2>5. CASE ReturnInsert
    BY <2>5 DEF ReturnInsert, HeaderInv
  <2>6. QED
    BY <1>1, <2>1, <2>2, <2>3, <2>4, <2>5 DEF InsertStep
<1>2. CASE \E k \in Keys, v \in Values : Insert(k, v)
  BY <1>2 DEF Insert, HeaderInv
<1>3. CASE Deletes \/ \E id \in DOMAIN cached : Evict(id)
  BY <1>3 DEF Deletes, Delete, Evict, HeaderInv
<1>4. QED
  BY <1>1, <1>2, <1>3 DEF Engine, Deletes

(* Nor does a lookup or a pause change it.                                  *)
LEMMA LookupHeader ==
  ASSUME HeaderInv, UNCHANGED <<root, header>>,
         pc \in {"writeHeader", "corrupt"} => pc' = pc
  PROVE  HeaderInv'
BY DEF HeaderInv
-----------------------------------------------------------------------------
(* What a scan does, in either tree.                                        *)

(* A step of the iterator changes nothing of the tree.                      *)
LEMMA TreeStays ==
  ASSUME MapInv, UNCHANGED vars
  PROVE  /\ MapInv' /\ Held' = Held /\ NodeIds' = NodeIds
         /\ UNCHANGED <<pc, root, contents>>
         /\ \A y : Awaited(y)' <=> Awaited(y)
<1>1. UNCHANGED <<file, pageCount, pc, root, split, contents>>
  BY DEF vars
<1>2. NodeIds' = NodeIds
  BY <1>1 DEF NodeIds
<1>3. Held' = Held
  BY <1>1, <1>2 DEF Held, Awaited
<1>4. QED
  BY <1>1, <1>2, <1>3, StutterMaps DEF Awaited
-----------------------------------------------------------------------------
(* Sessions                                                                 *)

(* What a call on a tree can do to what a session begins with: it takes the *)
(* ids from the page count on, in order.                                    *)
IsMap(f) == f = [x \in DOMAIN f |-> f[x]]

Taken == pageCount .. pageCount' - 1

Moves ==
  /\ pageCount' \in Nat /\ pageCount <= pageCount'
  /\ DOMAIN file' \subseteq DOMAIN file \cup Taken
  /\ root' \in {root} \cup Taken
  /\ header' \in {header, root}
  /\ IsMap(file') /\ IsMap(cached')

(* A write changes one page of a file, on disk or in the cache.             *)
LEMMA WriteMoves ==
  ASSUME IsMap(cached), NEW f, IsMap(f), NEW id, NEW p, WriteNode(f, id, p)
  PROVE  DOMAIN file' = DOMAIN f /\ IsMap(file') /\ IsMap(cached')
BY DEF WriteNode, IsMap, Without, With

(* doInsert writes to a page there is, or takes one id for a second one.    *)
LEMMA DoInsertMoves ==
  ASSUME pageCount \in Nat, IsMap(file), IsMap(cached),
         NEW id, NEW p, NEW i, NEW key, NEW val, NEW rc,
         DoInsert(id, p, i, key, val, rc)
  PROVE  Moves
<1>1. IsMap(Extended) /\ DOMAIN Extended = DOMAIN file \cup {pageCount}
  BY DEF IsMap, Extended, With
<1>2. CASE \E q : WriteAndReturn(id, q)
  <2>1. PICK q : WriteAndReturn(id, q)
    BY <1>2
  <2>2. DOMAIN file' = DOMAIN file /\ IsMap(file') /\ IsMap(cached')
    BY <2>1, WriteMoves DEF WriteAndReturn
  <2>3. QED
    BY <2>1, <2>2 DEF WriteAndReturn, Moves
<1>3. CASE SplitNode(id, p, i, key, val, rc)
  <2>1. /\ pageCount' = pageCount + 1 /\ root' = root /\ header' = header
        /\ \E q : WriteNode(Extended, id, q)
    BY <1>3 DEF SplitNode, Allocate
  <2>2. /\ DOMAIN file' = DOMAIN file \cup {pageCount}
        /\ IsMap(file') /\ IsMap(cached')
    BY <1>1, <2>1, WriteMoves
  <2>3. pageCount \in Taken /\ pageCount' \in Nat /\ pageCount <= pageCount'
    BY <2>1 DEF Taken
  <2>4. QED
    BY <2>1, <2>2, <2>3 DEF Moves
<1>4. QED
  BY <1>2, <1>3 DEF DoInsert

(* So does every step of the engine.                                        *)
LEMMA EngineMoves ==
  ASSUME pageCount \in Nat, IsMap(file), IsMap(cached), Engine
  PROVE  Moves
<1>1. CASE /\ UNCHANGED <<file, pageCount, root>>
           /\ header' \in {header, root} /\ IsMap(cached')
  BY <1>1 DEF Moves
<1>2. CASE \E k \in Keys, v \in Values : Insert(k, v)
  BY <1>1, <1>2 DEF Insert
<1>3. CASE InsertOverwrite
  <2>1. PICK id, p : WriteAndReturn(id, p)
    BY <1>3 DEF InsertOverwrite
  <2>2. DOMAIN file' = DOMAIN file /\ IsMap(file') /\ IsMap(cached')
    BY <2>1, WriteMoves DEF WriteAndReturn
  <2>3. QED
    BY <2>1, <2>2 DEF WriteAndReturn, Moves
<1>4. CASE InsertInLeaf
  BY <1>4, DoInsertMoves DEF InsertInLeaf
<1>5. CASE InsertDescend
  <2>1. IsMap(cached')
    BY <1>5 DEF InsertDescend, With, IsMap
  <2>2. QED
    BY <1>1, <1>5, <2>1 DEF InsertDescend
<1>6. CASE WriteRight
  <2>1. DOMAIN file' = DOMAIN file /\ IsMap(file') /\ IsMap(cached')
    BY <1>6, WriteMoves DEF WriteRight
  <2>2. QED
    BY <1>6, <2>1 DEF WriteRight, Moves
<1>7. CASE InsertSplit
  BY <1>7, DoInsertMoves DEF InsertSplit
<1>8. CASE NewRoot
  <2>1. /\ pageCount' = pageCount + 1 /\ root' = pageCount /\ header' = header
        /\ \E q : WriteNode(Extended, pageCount, q)
    BY <1>8 DEF NewRoot, Allocate
  <2>2. IsMap(Extended) /\ DOMAIN Extended = DOMAIN file \cup {pageCount}
    BY DEF IsMap, Extended, With
  <2>3. /\ DOMAIN file' = DOMAIN file \cup {pageCount}
        /\ IsMap(file') /\ IsMap(cached')
    BY <2>1, <2>2, WriteMoves
  <2>4. pageCount \in Taken /\ pageCount' \in Nat /\ pageCount <= pageCount'
    BY <2>1 DEF Taken
  <2>5. QED
    BY <2>1, <2>3, <2>4 DEF Moves
<1>9. CASE WriteHeader
  BY <1>1, <1>9 DEF WriteHeader
<1>10. CASE ReturnInsert
  BY <1>1, <1>10 DEF ReturnInsert
<1>11. CASE Deletes
  BY <1>1, <1>11 DEF Deletes, Delete
<1>12. CASE \E id \in DOMAIN cached : Evict(id)
  <2>1. IsMap(cached')
    BY <1>12 DEF Evict, Without, IsMap
  <2>2. QED
    BY <1>1, <1>12, <2>1 DEF Evict
<1>13. QED
  BY <1>2, <1>3, <1>4, <1>5, <1>6, <1>7, <1>8, <1>9, <1>10, <1>11, <1>12
     DEF Engine, InsertStep, Deletes

(* A step of a search takes no id at all.                                   *)
LEMMA LookupMoves ==
  ASSUME pageCount \in Nat, IsMap(file), IsMap(cached),
         UNCHANGED <<file, cached, pageCount, root, header>>
  PROVE  Moves
BY DEF Moves

(* Between two sessions there are no pages in memory and no call runs.      *)
NoProcess ==
  /\ cached = << >> /\ pc = "idle" /\ path = << >>
  /\ split = NoSplit /\ call = NoCall

(* As long as every session has ended with Close and no write has failed,   *)
(* all pages there are have ids below the page count, the cache has no page *)
(* that the disk has not before a growing overwrite drops a cell, and the   *)
(* next session knows the root and the count.                               *)
CountInv ==
  /\ pageCount \in Nat /\ saved \in Nat
  /\ IsMap(file) /\ IsMap(cached)
  /\ ~up => NoProcess
  /\ ~mishap =>
       /\ damage \in {"none", "lost"}
       /\ DOMAIN file \subseteq NodeIds /\ root \in NodeIds /\ header \in NodeIds
       /\ damage = "none" => cached = << >>
       /\ ~up => header = root /\ saved = pageCount

(* The first session of a new file.                                         *)
Fresh ==
  /\ Init /\ up /\ saved \in Nat /\ ~mishap /\ damage = "none"

(* A new file is one page.                                                  *)
LEMMA FreshCounts == Fresh => CountInv
<1>1. SUFFICES ASSUME Fresh PROVE CountInv
  OBVIOUS
<1>2. /\ file = [id \in {2} |-> EmptyLeaf] /\ cached = << >>
      /\ pageCount = 3 /\ root = 2 /\ header = 2
  BY <1>1 DEF Fresh, Init
<1>3. NodeIds = {2} /\ DOMAIN file = {2}
  BY <1>2 DEF NodeIds
<1>4. IsMap(file) /\ IsMap(cached)
  BY <1>2 DEF IsMap
<1>5. QED
  BY <1>1, <1>2, <1>3, <1>4 DEF Fresh, CountInv

(* The id that Allocate hands out is no page of the tree.                   *)
LEMMA CountIsNoPage ==
  ASSUME CountInv, ~mishap
  PROVE  ~ReusesPage
<1>1. /\ DOMAIN file \subseteq NodeIds /\ root \in NodeIds /\ header \in NodeIds
      /\ pageCount \in Nat /\ pageCount \notin NodeIds
  BY DEF CountInv, NodeIds
<1>2. IsFiniteSet(DOMAIN file)
  <2>1. IsFiniteSet(NodeIds)
    BY <1>1, FS_Interval DEF NodeIds
  <2>2. QED
    BY <1>1, <2>1, FS_Subset
<1>3. ASSUME NEW f, DOMAIN f = DOMAIN file, NEW r \in NodeIds
      PROVE  pageCount \notin PagesUnder(f, r)
  <2> DEFINE links == [id \in DOMAIN f |-> ToSet(ChildSeq(f[id]))]
  <2>1. DOMAIN links = DOMAIN file
    BY <1>3
  <2> HIDE DEF links
  <2>2. Reached(links, r) \subseteq DOMAIN links \cup {r}
    BY <1>2, <2>1, ReachedWithin
  <2>3. PagesUnder(f, r) = Reached(links, r)
    BY DEF PagesUnder, links
  <2>4. QED
    BY <1>1, <2>1, <2>2, <2>3
<1>4. pageCount \notin InTree
  BY <1>1, <1>3 DEF InTree, Pages
<1>5. pageCount \notin PagesUnder(file, header)
  BY <1>1, <1>3
<1>6. QED
  BY <1>4, <1>5 DEF ReusesPage

(* A map of nothing is the empty one.                                       *)
LEMMA EmptyMap ==
  ASSUME NEW f, IsMap(f), DOMAIN f = {}
  PROVE  f = << >>
BY DEF IsMap

(* A step of a call keeps the count: a page that stays in the cache alone   *)
(* belongs to a write that failed or to a cell dropped with its subtree.    *)
LEMMA WearCounts ==
  ASSUME CountInv, Moves, Wear
  PROVE  CountInv'
<1>1. /\ pageCount' \in Nat /\ saved' \in Nat /\ IsMap(file') /\ IsMap(cached')
      /\ up /\ up'
  BY DEF CountInv, Moves, Wear
<1>2. ASSUME ~mishap'
      PROVE  /\ damage' \in {"none", "lost"}
             /\ (DOMAIN file \subseteq NodeIds)' /\ (root \in NodeIds)'
             /\ (header \in NodeIds)' /\ (damage = "none" => cached = << >>)'
  <2>1. ~mishap /\ ~FailsToWrite
    BY <1>2 DEF Wear
  <2>2. /\ damage \in {"none", "lost"}
        /\ DOMAIN file \subseteq NodeIds /\ root \in NodeIds /\ header \in NodeIds
        /\ damage = "none" => cached = << >>
        /\ pageCount \in Nat
    BY <2>1 DEF CountInv
  <2>3. ~ReusesPage /\ ~WritesUnlinked /\ ~DropsUnwritten
    BY <2>1, <2>2, CountIsNoPage DEF WritesUnlinked, DropsUnwritten
  <2>4. damage' = IF damage = "lost" \/ DropsSubtree \/ LeavesDeleted
                  THEN "lost" ELSE damage
    BY <1>2, <2>3 DEF Wear
  <2>5. NodeIds \subseteq NodeIds' /\ Taken \subseteq NodeIds'
    <3>1. /\ pageCount \in Nat /\ pageCount' \in Nat
          /\ pageCount <= pageCount' /\ 2 <= pageCount
      BY <2>2 DEF Moves, NodeIds
    <3>2. ASSUME NEW m \in Nat, NEW n \in Nat, m <= n, 2 <= m
          PROVE  /\ 2 .. (m - 1) \subseteq 2 .. (n - 1)
                 /\ m .. (n - 1) \subseteq 2 .. (n - 1)
      BY ONLY <3>2
    <3>3. QED
      BY <3>1, <3>2 DEF NodeIds, Taken
  <2>6. (DOMAIN file \subseteq NodeIds)' /\ (root \in NodeIds)' /\ (header \in NodeIds)'
    BY <2>2, <2>5 DEF Moves
  <2>7. ASSUME damage' = "none" PROVE cached' = << >>
    <3>1. damage = "none" /\ ~DropsSubtree
      BY <2>4, <2>7
    <3>2. cached = << >>
      BY <2>2, <3>1
    <3>3. DOMAIN cached' \subseteq DOMAIN cached
      BY <2>1, <3>1 DEF FailsToWrite
    <3>4. DOMAIN cached' = {}
      <4>1. DOMAIN cached = {}
        BY <3>2
      <4>2. QED
        BY <3>3, <4>1
    <3>5. QED
      BY <1>1, <3>4, EmptyMap
  <2>8. QED
    BY <2>2, <2>4, <2>6, <2>7
<1>3. QED
  BY <1>1, <1>2 DEF CountInv

(* Pages left out of the file were there before.                            *)
LEMMA LeadsWithin ==
  ASSUME NEW r, IsFiniteSet(DOMAIN file)
  PROVE  Leads(r) \subseteq DOMAIN file \cup {r}
<1> DEFINE links == [id \in DOMAIN file |-> Links(file[id])]
<1>1. DOMAIN links = DOMAIN file
  OBVIOUS
<1> HIDE DEF links
<1>2. Reached(links, r) \subseteq DOMAIN links \cup {r}
  BY <1>1, ReachedWithin
<1>3. QED
  BY <1>1, <1>2 DEF Leads, links

(* A tree is made anew in a file that was never closed, or has been removed.*)
LEMMA NewFileIsFresh ==
  ASSUME CountInv, OpenNew \/ StartOver
  PROVE  Fresh'
<1>1. CASE OpenNew
  <2>1. mishap
    <3>1. SUFFICES ASSUME ~mishap PROVE FALSE
      OBVIOUS
    <3>2. saved = pageCount /\ root \in NodeIds /\ pageCount \in Nat
      BY <1>1, <3>1 DEF OpenNew, CountInv
    <3>3. saved > 2
      BY <3>2 DEF NodeIds
    <3>4. QED
      BY <1>1, <3>3 DEF OpenNew, Reopens
  <2>2. NoProcess /\ saved \in Nat
    BY <1>1 DEF OpenNew, CountInv
  <2>3. QED
    BY <1>1, <2>1, <2>2 DEF OpenNew, Fresh, Init, NoProcess, NoSplit, NoCall
<1>2. CASE StartOver
  BY <1>2 DEF StartOver, Fresh, Init, NoSplit, NoCall
<1>3. QED
  BY <1>1, <1>2

(* Close, a crash and every way to open a file keep the count, or begin     *)
(* anew.                                                                    *)
LEMMA SessionCounts ==
  ASSUME CountInv, SessionStep
  PROVE  CountInv' \/ Fresh'
<1>1. ASSUME Gone, saved' \in Nat
      PROVE  /\ pageCount' \in Nat /\ saved' \in Nat /\ pageCount' = saved'
             /\ IsMap(cached') /\ NoProcess' /\ ~up'
             /\ root' = header' /\ cached' = << >>
  BY <1>1 DEF Gone, NoProcess, IsMap, NoSplit, NoCall
<1>2. ASSUME Interrupted, saved' \in Nat
      PROVE  CountInv'
  <2>1. Gone /\ mishap' /\ IsMap(file')
    BY <1>2 DEF Interrupted, IsMap
  <2>2. QED
    BY <1>1, <1>2, <2>1 DEF CountInv
<1>3. CASE Close
  <2>1. /\ pageCount \in Nat /\ saved' = pageCount /\ Gone /\ mishap' = mishap
        /\ file' = file /\ header' = root /\ IsMap(file)
    BY <1>3 DEF Close, CountInv
  <2>2. IsMap(file') /\ NodeIds' = NodeIds
    BY <1>1, <2>1 DEF IsMap, NodeIds
  <2>3. ~mishap => damage' = damage
    BY <1>3 DEF Close, LeavesBehind, CountInv
  <2>4. QED
    BY <1>1, <2>1, <2>2, <2>3 DEF CountInv
<1>4. CASE CloseFails
  <2>1. saved' \in Nat
    BY <1>4 DEF CloseFails, CountInv
  <2>2. QED
    BY <1>2, <1>4, <2>1 DEF CloseFails
<1>5. CASE Crash
  <2>1. saved' \in Nat
    BY <1>5 DEF Crash, CountInv
  <2>2. QED
    BY <1>2, <1>5, <2>1 DEF Crash
<1>6. CASE OpenNew \/ StartOver
  BY <1>6, NewFileIsFresh
<1>7. CASE Reopen
  <2>1. NoProcess /\ saved \in Nat /\ ~up /\ pageCount' = saved /\ root' = header
    BY <1>7 DEF Reopen, CountInv
  <2>2. UNCHANGED <<file, cached, header, saved, mishap, damage>> /\ up'
    BY <1>7 DEF Reopen
  <2>3. ~mishap => NodeIds' = NodeIds
    BY <2>1 DEF CountInv, NodeIds
  <2>4. QED
    BY <2>1, <2>2, <2>3 DEF CountInv
<1>8. QED
  BY <1>3, <1>4, <1>5, <1>6, <1>7 DEF SessionStep

(* A page count that is right hands out no page of the tree again.          *)
LEMMA CountsNeverCut == CountInv => NeverCut
BY DEF CountInv, NeverCut

(* A step in which nothing happens keeps the count.                         *)
LEMMA StutterCounts ==
  ASSUME CountInv, UNCHANGED <<vars, svars>>
  PROVE  CountInv'
<1>1. UNCHANGED <<file, cached, pageCount, root, header, pc, path, split, call>>
  BY DEF vars
<1>2. UNCHANGED <<up, saved, mishap, damage>>
  BY DEF svars
<1>3. NodeIds' = NodeIds /\ (NoProcess' <=> NoProcess)
  BY <1>1, <1>2 DEF NodeIds, NoProcess, NoSplit, NoCall
<1>4. QED
  BY <1>1, <1>2, <1>3 DEF CountInv, IsMap
-----------------------------------------------------------------------------
(* What a session leaves behind                                             *)

(* Until the first crash or failed write the pages are ordered, and the map *)
(* of the pairs inserted until a step is taken that is known to lose pairs. *)
SessionInv ==
  /\ CountInv
  /\ ~mishap => IInv
  /\ ~mishap /\ damage = "none" => MapInv /\ HangInv

(* A new file holds nothing, in order.                                      *)
LEMMA FreshSession ==
  ASSUME ~WritesMayFail
  PROVE  Fresh => SessionInv
BY FreshCounts, InitInv, InitMaps, InitHangs DEF Fresh, SessionInv

(* Close takes the pages that only the cache has, and no page of the file.  *)
LEMMA CloseKeeps ==
  ASSUME IInv, Close
  PROVE  IInv'
<1>1. /\ pc = "idle" /\ pc' = "idle" /\ root' = root /\ pageCount' = pageCount
      /\ file' = file /\ cached' = << >> /\ DOMAIN cached' = {}
  BY DEF Close, Gone
<1>2. NodeIds' = NodeIds
  BY <1>1 DEF NodeIds
<1>3. Shape' /\ PagesGood'
  BY <1>1, <1>2 DEF IInv, Shape, PagesGood
<1>4. Linked'
  BY <1>1, <1>2 DEF IInv, Linked, Awaited, ChildrenIn, NumCells
<1>5. QED
  BY <1>1, <1>3, <1>4 DEF IInv, CallGood, FramesGood, SplitGood, HalfGood

(* With none there it keeps the map.                                        *)
LEMMA CloseMaps ==
  ASSUME MapInv, HangInv, cached = << >>, Close
  PROVE  MapInv' /\ HangInv'
<1>1. /\ pc = "idle" /\ pc' = "idle" /\ header' = root /\ root' = root
      /\ pageCount' = pageCount /\ contents' = contents
      /\ cached' = << >> /\ path' = << >> /\ call' = NoCall
      /\ file' = file
  BY DEF Close, Gone
<1>3. UNCHANGED <<file, cached, pageCount, root>>
  BY <1>1
<1>4. IInv'
  BY CloseKeeps DEF MapInv
<1>5. NodeIds' = NodeIds
  BY <1>3 DEF NodeIds
<1>6. Held' = Held
  BY <1>1, <1>3, <1>5 DEF Held, Awaited
<1>7. HangInv'
  BY <1>1, <1>3, <1>5, <1>6, StayHangs DEF Pending
<1>8. PICK own, lev, left : Arranged(own, lev, left)
  BY <1>1 DEF MapInv
<1>9. Want' = Want
  BY <1>1 DEF Want, Inserted, Pending
<1>10. TreeSound(own, lev, left)'
  BY <1>1, <1>3, <1>5, <1>6, <1>8, <1>9 DEF Arranged, TreeSound, Pending
<1>11. Arranged(own, lev, left)'
  BY <1>1, <1>10 DEF Arranged, SplitAt, Chain, Reading
<1>12. CallOK' /\ DOMAIN cached' = {}
  BY <1>1 DEF MapInv, CallOK
<1>13. QED
  BY <1>4, <1>7, <1>11, <1>12 DEF MapInv

(* So does every step between two calls, or it begins with a new file.      *)
LEMMA SessionStays ==
  ASSUME SessionInv, SessionStep
  PROVE  SessionInv' \/ Fresh'
<1>1. SUFFICES ASSUME ~mishap', ~Fresh'
               PROVE  SessionInv'
  <2>1. CountInv' \/ Fresh'
    BY SessionCounts DEF SessionInv
  <2>2. QED
    BY <2>1 DEF SessionInv
<1>2. CountInv'
  BY <1>1, SessionCounts DEF SessionInv
<1>3. CASE Close
  <2>1. /\ ~mishap /\ IInv /\ damage \in {"none", "lost"}
        /\ damage = "none" => cached = << >> /\ MapInv /\ HangInv
    BY <1>1, <1>3 DEF Close, SessionInv, CountInv
  <2>2. damage' = damage
    BY <1>3, <2>1 DEF Close, LeavesBehind
  <2>3. IInv' /\ (damage = "none" => MapInv' /\ HangInv')
    BY <1>3, <2>1, CloseKeeps, CloseMaps
  <2>4. QED
    BY <1>2, <2>2, <2>3 DEF SessionInv
<1>4. CASE CloseFails \/ Crash
  BY <1>1, <1>4 DEF CloseFails, Crash, Interrupted
<1>5. CASE OpenNew \/ StartOver
  BY <1>1, <1>5, NewFileIsFresh DEF SessionInv
<1>6. CASE Reopen
  <2>1. /\ ~up /\ pageCount' = saved /\ root' = header /\ mishap' = mishap
        /\ damage' = damage
        /\ UNCHANGED <<file, cached, header, pc, path, split, call, contents>>
    BY <1>6 DEF Reopen
  <2>2. header = root /\ saved = pageCount
    BY <1>1, <2>1 DEF SessionInv, CountInv
  <2>3. UNCHANGED vars
    BY <2>1, <2>2 DEF vars
  <2>4. IInv'
    BY <1>1, <2>1, <2>3, StutterKeeps DEF SessionInv
  <2>5. damage' = "none" => MapInv' /\ HangInv'
    BY <1>1, <2>1, <2>3, StutterMaps, StutterHangs DEF SessionInv
  <2>6. QED
    BY <1>2, <2>4, <2>5 DEF SessionInv
<1>7. QED
  BY <1>3, <1>4, <1>5, <1>6 DEF SessionStep

(* A cell that the way down drops from an internal page was a B-tree's.     *)
LEMMA DescendDrops ==
  ASSUME IInv, InsertDescend, KeyAt(TopPage, Pos)
  PROVE  DropsSubtree
<1>1. /\ pc = "insertRec" /\ ~TopPage.leaf
      /\ \E id : path' = Append(path, id)
  BY DEF InsertDescend
<1>2. path' # path
  <2>1. PICK id : path' = Append(path, id)
    BY <1>1
  <2>2. path \in Seq(NodeIds)
    BY <1>1 DEF IInv, FramesGood
  <2>3. Len(Append(path, id)) = Len(path) + 1 /\ Len(path) \in Nat
    BY <2>2
  <2>4. QED
    BY <2>1, <2>3
<1>3. ~CopyUpLeaves
  <2>1. SUFFICES ASSUME CopyUpLeaves PROVE FALSE
    OBVIOUS
  <2>2. IsPage(TopPage) /\ call.key \in Int
    BY <1>1, TopGood DEF GoodPage, IInv, CallGood
  <2>3. Pos = Way(TopPage, call.key)
    BY <1>1, <2>2, PosIsFound
  <2>4. ~KeyOn(TopPage, Pos, call.key)
    BY <1>1, <2>1, <2>2, <2>3, SeparatorPassed
  <2>5. QED
    BY <2>4 DEF KeyAt, KeyOn
<1>4. QED
  BY <1>1, <1>2, <1>3 DEF DropsSubtree

(* Where no write can fail, no step of the engine is a mishap: the only page*)
(* left to the cache alone is one a cell was dropped from.                  *)
LEMMA EngineNeverFails ==
  ASSUME ~WritesMayFail, IInv, Engine, Wear, ~mishap
  PROVE  ~mishap'
<1>1. ASSUME NEW f, NEW id, NEW p, WriteNode(f, id, p)
      PROVE  DOMAIN cached' \subseteq DOMAIN cached
  BY <1>1 DEF WriteNode, Without
<1>2. CASE /\ DOMAIN cached' \subseteq DOMAIN cached
           /\ pc = "writeHeader" => header' = root \/ pc' = pc
  BY <1>2 DEF Wear, FailsToWrite
<1>3. CASE \E k \in Keys, v \in Values : Insert(k, v)
  BY <1>2, <1>3 DEF Insert
<1>4. CASE InsertOverwrite
  BY <1>1, <1>2, <1>4 DEF InsertOverwrite, WriteAndReturn
<1>5. CASE InsertInLeaf \/ InsertSplit
  BY <1>1, <1>2, <1>5
     DEF InsertInLeaf, InsertSplit, DoInsert, WriteAndReturn, SplitNode
<1>6. CASE InsertDescend
  <2>1. pc = "insertRec"
    BY <1>6 DEF InsertDescend
  <2>2. CASE KeyAt(TopPage, Pos)
    BY <1>6, <2>1, <2>2, DescendDrops DEF Wear, FailsToWrite
  <2>3. CASE ~KeyAt(TopPage, Pos)
    BY <1>2, <1>6, <2>1, <2>3 DEF InsertDescend
  <2>4. QED
    BY <2>2, <2>3
<1>7. CASE WriteRight
  BY <1>1, <1>2, <1>7 DEF WriteRight
<1>8. CASE NewRoot
  BY <1>1, <1>2, <1>8 DEF NewRoot
<1>9. CASE WriteHeader
  BY <1>2, <1>9 DEF WriteHeader
<1>10. CASE ReturnInsert
  BY <1>2, <1>10 DEF ReturnInsert
<1>11. CASE Deletes
  BY <1>2, <1>11 DEF Deletes, Delete
<1>12. CASE \E id \in DOMAIN cached : Evict(id)
  <2>1. PICK id \in DOMAIN cached : Evict(id)
    BY <1>12
  <2>2. cached' = Without(cached, id) /\ header' = header /\ pc' = pc
    BY <2>1 DEF Evict
  <2>3. DOMAIN cached' \subseteq DOMAIN cached
    BY <2>2 DEF Without
  <2>4. QED
    BY <1>2, <2>2, <2>3
<1>13. QED
  BY <1>3, <1>4, <1>5, <1>6, <1>7, <1>8, <1>9, <1>10, <1>11, <1>12
     DEF Engine, InsertStep, Deletes

(* A step that costs nothing is no Delete of a stored key, and drops no cell*)
(* with its subtree.                                                        *)
LEMMA WearSpares ==
  ASSUME Wear, damage' = "none"
  PROVE  damage = "none" /\ ~DropsSubtree /\ ~LeavesDeleted
BY DEF Wear

(* Every step of the engine in a session keeps the map, or it costs pairs.  *)
LEMMA EngineInSession ==
  ASSUME SessionInv, Engine, Wear, ~mishap', ~Ousts \/ damage' # "none"
  PROVE  SessionInv'
<1>1. ~mishap /\ IInv
  BY DEF Wear, SessionInv
<1>2. IInv'
  BY <1>1, EngineKeeps
<1>3. CountInv'
  BY EngineMoves, WearCounts DEF SessionInv, CountInv
<1>4. ASSUME damage' = "none" PROVE MapInv' /\ HangInv'
  <2>1. damage = "none" /\ ~LeavesDeleted /\ MapInv /\ HangInv
    BY <1>1, <1>4, WearSpares DEF SessionInv
  <2>2. CASE Deletes
    <3>1. UNCHANGED vars
      BY <2>1, <2>2 DEF Deletes, Delete, LeavesDeleted, vars
    <3>2. QED
      BY <2>1, <3>1, StutterMaps, StutterHangs
  <2>3. CASE ~Deletes
    BY <1>4, <2>1, <2>3, EngineMaps, EngineHangs
  <2>4. QED
    BY <2>2, <2>3
<1>5. QED
  BY <1>2, <1>3, <1>4 DEF SessionInv

(* A step of a search in a session keeps what the search keeps.             *)
LEMMA LookupInSession ==
  ASSUME SessionInv, Wear, ~mishap',
         UNCHANGED <<file, cached, pageCount, root, header, split, contents>>,
         IInv => IInv', MapInv => MapInv',
         pc \in {"idle", "get", "findLeaf", "scan", "answer"},
         pc' \in {"idle", "get", "findLeaf", "scan", "answer"}
  PROVE  SessionInv'
<1>1. ~mishap /\ IInv'
  BY DEF Wear, SessionInv
<1>2. CountInv'
  BY LookupMoves, WearCounts DEF SessionInv, CountInv
<1>3. ASSUME damage' = "none" PROVE MapInv' /\ HangInv'
  <2>1. damage = "none" /\ MapInv /\ HangInv
    BY <1>1, <1>3, WearSpares DEF SessionInv
  <2>2. QED
    BY <2>1, LookupHangs
<1>4. QED
  BY <1>1, <1>2, <1>3 DEF SessionInv

(* Nor does anything change when nothing happens.                           *)
LEMMA StutterSession ==
  ASSUME SessionInv, UNCHANGED <<vars, svars>>
  PROVE  SessionInv'
<1>1. CountInv'
  BY StutterCounts DEF SessionInv
<1>2. UNCHANGED vars /\ UNCHANGED <<mishap, damage>>
  BY DEF svars
<1>3. IInv => IInv'
  BY <1>2, StutterKeeps
<1>4. MapInv => MapInv'
  BY <1>2, StutterMaps
<1>5. HangInv => HangInv'
  BY <1>2, StutterHangs
<1>6. QED
  BY <1>1, <1>2, <1>3, <1>4, <1>5 DEF SessionInv

(* Until the first crash or failed write the keys of every page are in order*)
(* and what is stored is what was inserted.                                 *)
LEMMA SessionShows ==
  SessionInv => (~mishap => PagesSorted) /\ (~mishap => StoresSurvivors)
BY SortedByInv, MapIsStored DEF SessionInv, StoresSurvivors

(* Every session ends and begins with the root of the header page.          *)
LEMMA SessionHeader ==
  ASSUME HeaderInv, SessionStep
  PROVE  HeaderInv'
BY DEF SessionStep, Close, CloseFails, Crash, OpenNew, Reopen, StartOver, Gone,
       Interrupted, HeaderInv

(* Until the first crash or failed write, and as long as no step is taken   *)
(* that is known to lose pairs, the pages are a tree that a search gets     *)
(* through.                                                                 *)
LEMMA SessionStands ==
  SessionInv /\ HeaderInv => (~mishap /\ damage = "none" => StaysTree /\ SearchesEnd)
<1>1. SUFFICES ASSUME SessionInv, HeaderInv, ~mishap, damage = "none"
               PROVE  StaysTree /\ SearchesEnd
  OBVIOUS
<1>2. MapInv /\ HangInv
  BY <1>1 DEF SessionInv
<1>3. Balanced /\ NeverBack
  BY <1>2, MapBalanced, MapSearchesEnd
<1>4. NoPageTwice
  BY <1>1, <1>2, LevelsApart DEF NoPageTwice, HeaderInv
<1>5. QED
  BY <1>3, <1>4 DEF StaysTree, SearchesEnd
-----------------------------------------------------------------------------
(* What a crash leaves                                                      *)

(* A process that starts from page r comes to all that the pages it comes to*)
(* lead to.                                                                 *)
LEMMA LeadsClose ==
  ASSUME IsFiniteSet(DOMAIN file), NEW r \in DOMAIN file
  PROVE  /\ r \in Leads(r)
         /\ \A x \in Leads(r) : \A y \in Links(file[x]) :
              y \in DOMAIN file => y \in Leads(r)
<1> DEFINE links == [id \in DOMAIN file |-> Links(file[id])]
<1>1. DOMAIN links = DOMAIN file /\ \A x \in DOMAIN file : links[x] = Links(file[x])
  OBVIOUS
<1>2. Leads(r) = Reached(links, r)
  BY DEF Leads
<1> HIDE DEF links
<1>3. Leads(r) \subseteq DOMAIN file
  BY LeadsWithin
<1>4. QED
  BY <1>1, <1>2, <1>3, ReachedCloses

(* It leaves no set of pages that its links do not leave.                   *)
LEMMA LeadsStay ==
  ASSUME IsFiniteSet(DOMAIN file), NEW T, T \subseteq DOMAIN file, NEW r \in T,
         \A x \in T : \A y \in Links(file[x]) : y \in DOMAIN file => y \in T
  PROVE  Leads(r) \subseteq T
<1> DEFINE links == [id \in DOMAIN file |-> Links(file[id])]
<1>1. DOMAIN links = DOMAIN file /\ \A x \in DOMAIN file : links[x] = Links(file[x])
  OBVIOUS
<1>2. Leads(r) = Reached(links, r)
  BY DEF Leads
<1> HIDE DEF links
<1>3. QED
  BY <1>1, <1>2, ReachedStays

(* In a B+ tree a walk to the right from a leaf for a key that is not       *)
(* greater than k, through pages S that keep their right neighbours, ends in*)
(* S: on the leaf for k.                                                    *)
LEMMA ChainEnds ==
  ASSUME CopyUpLeaves,
         NEW H, NEW ids, NEW r, NEW own, NEW lev, NEW whole, NEW want,
         Valid(H, ids, r, own, lev, whole, want),
         NEW S, S \subseteq ids,
         \A x \in S : H[x].leaf /\ H[x].next \in ids => H[x].next \in S,
         NEW k \in Int, NEW j \in Int, j <= k,
         NEW z \in S, H[z].leaf, j \in own[z]
  PROVE  \E x \in S : H[x].leaf /\ k \in own[x]
<1> DEFINE At(d) == \E x \in S : H[x].leaf /\ k - d \in own[x]
           D == {d \in Nat : At(d)}
<1>1. /\ own \in [ids -> SUBSET Int]
      /\ \A x \in S : /\ NextOK(H[x], x, ids, own, lev) /\ KindOK(H[x], x, lev)
                      /\ H[x].next \in ids => KindOK(H[H[x].next], H[x].next, lev)
  BY DEF Valid, Spread, PageOK
<1>2. k - j \in D
  <2>1. k - j \in Nat /\ k - (k - j) = j
    OBVIOUS
  <2>2. QED
    BY <2>1
<1>3. PICK d \in D : \A e \in D : d <= e
  <2>1. D \subseteq Nat
    OBVIOUS
  <2> HIDE DEF D
  <2>2. QED
    BY <1>2, <2>1, LeastNat
<1>4. PICK x \in S : H[x].leaf /\ k - d \in own[x]
  BY <1>3
<1>5. d \in Nat
  BY <1>3
<1>6. SUFFICES ASSUME k \notin own[x] PROVE FALSE
  BY <1>4
<1>7. k - d \in Int /\ k - d < k
  <2>1. d # 0
    BY <1>4, <1>6
  <2>2. QED
    BY <1>5, <2>1
<1>8. Past(own[x], k)
  BY <1>4, <1>6, <1>7 DEF Past
<1>9. H[x].next \in ids /\ lev[H[x].next] = 0 /\ Adjoin(own[x], own[H[x].next])
  BY <1>1, <1>4, <1>8 DEF NextOK
<1>10. H[x].next \in S /\ H[H[x].next].leaf
  BY <1>1, <1>4, <1>9 DEF KindOK
<1>11. PICK n \in own[H[x].next] : n <= k
  BY <1>8, <1>9 DEF Adjoin, From
<1>12. k - d < n /\ n \in Int
  BY <1>1, <1>4, <1>9, <1>11 DEF Adjoin
<1>13. k - n \in Nat /\ k - (k - n) = n /\ ~(d <= k - n)
  BY <1>5, <1>11, <1>12
<1>14. At(k - n)
  BY <1>10, <1>11, <1>13
<1>15. QED
  BY <1>3, <1>13, <1>14

(* The pages S are on disk as they are in the table's tree H.               *)
OnDisk(S, H, ids) ==
  S \subseteq ids /\ ids \subseteq DOMAIN file /\ \A x \in S : file[x] = H[x]

(* What a process finds in pages that a table explains is what the table    *)
(* says, if it finds it at all.                                             *)
LEMMA SurvivorIsWanted ==
  ASSUME NEW H, NEW ids, NEW q, NEW own, NEW lev, NEW whole, NEW want,
         Valid(H, ids, q, own, lev, whole, want),
         NEW r, OnDisk(Leads(r), H, ids), NEW k \in Keys,
         want[k] \in Values \cup {Nil},
         want[k] # Nil => FoundOn(H, ids, Leads(r), k)
  PROVE  Survivors(r)[k] = want[k]
<1>1. CellsOf(file, Leads(r)) = CellsOf(H, Leads(r)) /\ Leads(r) \subseteq ids
  BY DEF OnDisk, CellsOf
<1> DEFINE pairs == PairsOn(H, Leads(r))
<1>2. \A v : <<k, v>> \in pairs <=> v = want[k] /\ want[k] # Nil
  BY <1>1, PairIsStored
<1>3. Survivors(r)[k] = IF \E v \in Values : <<k, v>> \in pairs
                        THEN CHOOSE v \in Values : <<k, v>> \in pairs
                        ELSE Nil
  BY <1>1 DEF Survivors, PairsOn
<1> HIDE DEF pairs
<1>4. QED
  BY <1>2, <1>3

(* A process that starts from the header page finds k where the table has   *)
(* it, if a descent for k is led right; in a B+ tree, if one for a smaller  *)
(* key is.                                                                  *)
LEMMA Survives ==
  ASSUME NEW H, NEW ids, NEW own, NEW lev, NEW whole, NEW want,
         Valid(H, ids, header, own, lev, whole, want),
         IsFiniteSet(DOMAIN file), OnDisk(Leads(header), H, ids),
         NEW k \in Keys, want[k] \in Values \cup {Nil},
         NEW j \in Int, j <= k, j = k \/ CopyUpLeaves,
         \A y \in ids : j \in whole[y] => j \in own[y]
  PROVE  Survivors(header)[k] = want[k]
<1> DEFINE S == Leads(header)
<1>1. /\ header \in ids /\ header \in DOMAIN file /\ S \subseteq ids /\ k \in Int
      /\ \A x \in S : file[x] = H[x] /\ PageOK(H[x], x, ids, own, lev, whole, want)
  BY KeysAssumption DEF OnDisk, Valid, Spread
<1>2. /\ header \in S
      /\ \A x \in S : \A y \in Links(H[x]) : y \in ids => y \in S
  BY <1>1, LeadsClose DEF OnDisk
<1> HIDE DEF S
<1>3. ASSUME NEW x \in S, ~H[x].leaf, NEW i \in 1 .. NumCells(H[x]) + 1,
             ChildAt(H[x], i) \in ids
      PROVE  ChildAt(H[x], i) \in S
  <2>1. ChildAt(H[x], i) \in ToSet(ChildSeq(H[x]))
    BY <1>3 DEF ChildSeq, ToSet
  <2>2. QED
    BY <1>2, <1>3, <2>1 DEF Links
<1>4. PICK z \in S : j \in own[z] /\ (H[z].leaf \/ \E i : Holder(H, ids, z, i, j))
  BY <1>1, <1>2, <1>3, DescentEnds
<1>5. SUFFICES ASSUME want[k] # Nil
               PROVE  \E x \in S : \E i : Holder(H, ids, x, i, k)
  BY SurvivorIsWanted DEF S, FoundOn
<1>6. ASSUME NEW x \in S, H[x].leaf, k \in own[x]
      PROVE  \E i : Holder(H, ids, x, i, k)
  BY <1>1, <1>5, <1>6 DEF PageOK, LeafOK, Holder
<1>7. CASE CopyUpLeaves
  <2>1. H[z].leaf
    BY <1>4, <1>7 DEF Holder
  <2>2. \A x \in S : H[x].leaf /\ H[x].next \in ids => H[x].next \in S
    BY <1>2, <1>7 DEF Links
  <2>3. \E x \in S : H[x].leaf /\ k \in own[x]
    BY <1>1, <1>4, <1>7, <2>1, <2>2, ChainEnds
  <2>4. QED
    BY <1>6, <2>3
<1>8. CASE ~CopyUpLeaves
  BY <1>4, <1>6, <1>8
<1>9. QED
  BY <1>7, <1>8

(* Which descent leads to k in a tree that misses the right half rt of a    *)
(* split: the one for k, but for the keys of that half; in a B+ tree the one*)
(* for a key of the left half serves them.                                  *)
LEMMA SplitServes ==
  ASSUME NEW H, NEW ids, NEW r, NEW own, NEW lev, NEW want, NEW l, NEW rt,
         NEW s, NEW sv, Splitting(H, ids, r, own, lev, want, l, rt, s, sv),
         NEW k \in Int, CopyUpLeaves \/ k < s
  PROVE  \E j \in Int : /\ j <= k /\ (j = k \/ CopyUpLeaves)
                        /\ \A y \in ids : j \in Whole(own, l, s, rt)[y] => j \in own[y]
<1> DEFINE W == Whole(own, l, s, rt)
<1>1. /\ own \in [ids -> SUBSET Int] /\ l \in ids /\ rt \in ids /\ s \in Int
      /\ \A i \in own[l] : i < s
      /\ \A i \in own[rt] : After(s, i)
      /\ CopyUpLeaves => s \in own[rt] /\ own[l] # {}
  BY DEF Splitting, Halved, Valid, Spread, PageOK, RoomOK
<1>2. /\ W[l] = own[l] \cup {s} \cup own[rt]
      /\ \A y \in ids : y # l => W[y] = own[y]
  BY <1>1 DEF Whole
<1> HIDE DEF W
<1>3. \A j \in Int : j # s /\ j \notin own[rt] => \A y \in ids : j \in W[y] => j \in own[y]
  BY <1>2
<1>4. CASE k < s
  <2>1. k \notin own[rt] /\ k # s
    BY <1>1, <1>4 DEF After
  <2>2. QED
    BY <1>3, <2>1 DEF W
<1>5. CASE CopyUpLeaves /\ ~(k < s)
  <2>1. PICK j \in own[l] : TRUE
    BY <1>1, <1>5
  <2>2. j \in Int /\ j < s /\ j <= k
    BY <1>1, <1>5
  <2>3. j \notin own[rt] /\ j # s
    BY <1>1, <2>2 DEF After
  <2>4. QED
    BY <1>3, <1>5, <2>2, <2>3 DEF W
<1>6. QED
  BY <1>4, <1>5

(* From the header page on disk a process finds what the call was about to  *)
(* have stored, but for the keys of a half that nothing leads to.           *)
Leaves(k) ==
  Survivors(header)[k] = IF Inserted /\ call.key = k THEN call.val ELSE contents[k]

(* Until the header page names the new root, the tree is the old one, which *)
(* misses the half.                                                         *)
RootBehind ==
  pc = "writeHeader" =>
    \E own, lev : Splitting(file, NodeIds \ {root}, header, own, lev, Want,
                            header, split.right, split.key, split.val)

(* A crash in a split.                                                      *)
LEMMA TornLeaves ==
  ASSUME MapInv, Inserted, NEW H, NEW ids, NEW own, NEW lev, NEW l,
         Splitting(H, ids, header, own, lev, Want, l, split.right, split.key,
                   split.val),
         OnDisk(Leads(header), H, ids), NEW k \in Keys, CopyUpLeaves \/ k < split.key
  PROVE  Leaves(k)
<1>1. PICK j \in Int :
        /\ j <= k /\ (j = k \/ CopyUpLeaves)
        /\ \A y \in ids : j \in Whole(own, l, split.key, split.right)[y] => j \in own[y]
  BY SplitServes, KeysAssumption
<1>2. /\ Want[k] \in Values \cup {Nil}
      /\ Want[k] = IF call.key = k THEN call.val ELSE contents[k]
  BY DEF MapInv, CallOK, Want, Updated, Inserted, Pending
<1>3. IsFiniteSet(DOMAIN file)
  BY FS_Interval DEF MapInv, IInv, Shape, NodeIds
<1>4. Survivors(header)[k] = Want[k]
  BY <1>1, <1>2, <1>3, Survives DEF Splitting
<1>5. QED
  BY <1>2, <1>4 DEF Leaves

(* A crash between two writes of an Insert that leave nothing unlinked.     *)
LEMMA WholeLeaves ==
  ASSUME MapInv, ~Pending, pc # "corrupt", header = root, NEW k \in Keys
  PROVE  Leaves(k)
<1>1. PICK own, lev, left : Arranged(own, lev, left)
  BY DEF MapInv
<1>2. Valid(Held, NodeIds, header, own, lev, own, Want)
  BY <1>1 DEF Arranged, TreeSound
<1>3. /\ Want[k] \in Values \cup {Nil}
      /\ Want[k] = IF Inserted /\ call.key = k THEN call.val ELSE contents[k]
  BY DEF MapInv, CallOK, Want, Updated, Inserted, Pending
<1>4. /\ DOMAIN file = NodeIds /\ root \in NodeIds /\ IsFiniteSet(DOMAIN file)
      /\ k \in Int
  BY FS_Interval, KeysAssumption DEF MapInv, IInv, Shape, NodeIds
<1>5. \A x \in NodeIds : Held[x] = file[x]
  BY DEF Held, Awaited, Pending
<1>6. OnDisk(Leads(header), Held, NodeIds)
  BY <1>4, <1>5, LeadsWithin DEF OnDisk
<1>7. Survivors(header)[k] = Want[k]
  BY <1>2, <1>3, <1>4, <1>6, Survives
<1>8. QED
  BY <1>3, <1>7 DEF Leaves

(* The pages a page leads down to are its children.                         *)
LEMMA ChildrenAreLinked ==
  ASSUME NEW p, IsPage(p), NEW y \in ToSet(ChildSeq(p))
  PROVE  ~p.leaf /\ \E i \in 1 .. NumCells(p) + 1 : y = ChildAt(p, i)
<1>1. PICK i \in DOMAIN ChildSeq(p) : y = ChildSeq(p)[i]
  BY DEF ToSet
<1>2. p.leaf => DOMAIN ChildSeq(p) = 1 .. 0
  BY DEF ChildSeq
<1>3. ~p.leaf
  BY <1>1, <1>2
<1>4. QED
  BY <1>1, <1>3 DEF ChildSeq

(* A crash in a split before the page above knows of it.                    *)
LEMMA PendingLeaves ==
  ASSUME MapInv, HangInv, Pending, header = root,
         CopyUpLeaves /\ pc = "writeRight" => ~split.page.leaf,
         NEW k \in Keys, CopyUpLeaves \/ k < split.key
  PROVE  Leaves(k)
<1> DEFINE rt == split.right
           T  == IF pc = "writeRight" THEN NodeIds \ {rt} ELSE NodeIds
<1>1. PICK own, lev, left : Arranged(own, lev, left)
  BY DEF MapInv, Pending
<1>2. Splitting(Held, NodeIds, header, own, lev, Want, left, rt, split.key, split.val)
  BY <1>1 DEF Arranged, TreeSound
<1> DEFINE W == Whole(own, left, split.key, rt)
<1>3. \A x \in NodeIds : PageOK(Held[x], x, NodeIds, own, lev, W, Want)
  BY <1>2 DEF Splitting, Valid
<1>4. /\ DOMAIN file = NodeIds /\ root \in NodeIds /\ IsFiniteSet(DOMAIN file)
      /\ rt \in NodeIds
  BY FS_Interval DEF MapInv, IInv, Shape, NodeIds, SplitGood, Pending
<1>5. \A x \in NodeIds : Awaited(x) \/ Held[x] = file[x]
  BY DEF Held
<1>6. T \subseteq DOMAIN file /\ header \in T /\ \A x \in T : Held[x] = file[x]
  BY <1>4, <1>5 DEF HangInv, Awaited, Pending
<1>7. ASSUME NEW x \in T, NEW y \in Links(file[x]), y \in DOMAIN file
      PROVE  y \in T
  <2>1. SUFFICES ASSUME pc = "writeRight", y = rt PROVE FALSE
    BY <1>4, <1>7
  <2>2. ASSUME y \in ToSet(ChildSeq(file[x])) PROVE \E i : Above(Held, NodeIds, x, i, y)
    <3>1. x \in NodeIds /\ y \in NodeIds /\ file[x] = Held[x] /\ IsPage(Held[x])
      BY <1>3, <1>4, <1>6, <1>7 DEF PageOK
    <3>2. QED
      BY <2>2, <3>1, ChildrenAreLinked DEF Above
  <2>3. ~\E i : Above(Held, NodeIds, x, i, rt)
    BY DEF HangInv, HangOnce, Tops, Pending
  <2>4. CopyUpLeaves /\ Held[x].leaf /\ Held[x].next = rt
    BY <1>6, <2>1, <2>2, <2>3 DEF Links
  <2>5. lev[rt] = 0
    <3>1. x \in NodeIds
      BY <1>4, <1>6
    <3>2. NextOK(Held[x], x, NodeIds, own, lev)
      BY <1>3, <3>1 DEF PageOK
    <3>3. rt # InvalidPage
      BY <1>4 DEF NodeIds, InvalidPage
    <3>4. QED
      BY <2>4, <3>2, <3>3 DEF NextOK
  <2>6. Held[rt] = split.page
    BY <1>4, <2>1 DEF Held, Awaited
  <2>7. split.page.leaf
    BY <1>3, <1>4, <2>5, <2>6 DEF PageOK, KindOK
  <2>8. QED
    BY <2>1, <2>4, <2>7
<1> HIDE DEF T
<1>8. Leads(header) \subseteq T
  BY <1>4, <1>6, <1>7, LeadsStay
<1>9. OnDisk(Leads(header), Held, NodeIds)
  BY <1>4, <1>6, <1>8 DEF OnDisk
<1>10. QED
  BY <1>2, <1>9, TornLeaves DEF Inserted

(* The old tree is not the new one.                                         *)
LEMMA BehindIsApart ==
  ASSUME RootBehind, pc = "writeHeader"
  PROVE  header # root /\ split.key \in Int
BY DEF RootBehind, Splitting, Halved, Valid, Spread

(* A crash between the write of a new root and that of the header page.     *)
LEMMA BehindLeaves ==
  ASSUME MapInv, RootBehind, pc = "writeHeader",
         NEW k \in Keys, CopyUpLeaves \/ k < split.key
  PROVE  Leaves(k)
<1> DEFINE ids == NodeIds \ {root}
           rt  == split.right
<1>1. PICK own, lev : Splitting(file, ids, header, own, lev, Want, header, rt,
                                split.key, split.val)
  BY DEF RootBehind
<1> DEFINE W == Whole(own, header, split.key, rt)
<1>2. header \in ids /\ \A x \in ids : PageOK(file[x], x, ids, own, lev, W, Want)
  BY <1>1 DEF Splitting, Valid, Spread
<1>3. DOMAIN file = NodeIds /\ IsFiniteSet(DOMAIN file)
  BY FS_Interval DEF MapInv, IInv, Shape, NodeIds
<1>4. ASSUME NEW x \in ids, NEW y \in Links(file[x]), y \in DOMAIN file
      PROVE  y \in ids
  <2>1. PageOK(file[x], x, ids, own, lev, W, Want)
    BY <1>2
  <2>2. CASE y \in ToSet(ChildSeq(file[x]))
    <3>1. ~file[x].leaf /\ \E i \in 1 .. NumCells(file[x]) + 1 : y = ChildAt(file[x], i)
      BY <2>1, <2>2, ChildrenAreLinked DEF PageOK
    <3>2. QED
      BY <2>1, <3>1 DEF PageOK, ChildrenOK, ChildOK
  <2>3. CASE CopyUpLeaves /\ file[x].leaf /\ y = file[x].next
    <3>1. y # InvalidPage
      BY <1>3, <1>4 DEF NodeIds, InvalidPage
    <3>2. QED
      BY <2>1, <2>3, <3>1 DEF PageOK, NextOK
  <2>4. QED
    BY <1>4, <2>2, <2>3 DEF Links
<1>5. Leads(header) \subseteq ids
  BY <1>2, <1>3, <1>4, LeadsStay
<1>6. OnDisk(Leads(header), file, ids)
  BY <1>3, <1>5 DEF OnDisk
<1>7. QED
  BY <1>1, <1>2, <1>6, TornLeaves DEF Inserted

(* The write of a new root leaves the old tree on disk as it was.           *)
LEMMA EngineBehind ==
  ASSUME MapInv, HeaderInv, RootBehind, Engine
  PROVE  RootBehind'
<1>1. SUFFICES ASSUME pc' = "writeHeader" PROVE RootBehind'
  BY DEF RootBehind
<1>2. NewRoot
  BY <1>1 DEF Engine, Insert, InsertStep, InsertOverwrite, InsertInLeaf,
              InsertDescend, DoInsert, SplitNode, WriteAndReturn, WriteRight,
              InsertSplit, WriteHeader, ReturnInsert, Delete, MapInv
<1>3. /\ \A y \in NodeIds : Held'[y] = Held[y]
      /\ NodeIds' = NodeIds \cup {pageCount} /\ pageCount \notin NodeIds
      /\ pc = "newRoot" /\ root' = pageCount
  BY <1>1, <1>2, RootHeld
<1>4. NodeIds' \ {root'} = NodeIds /\ \A y \in NodeIds : file'[y] = Held[y]
  BY <1>1, <1>3 DEF Held, Awaited
<1>5. UNCHANGED <<header, split>> /\ Want' = Want /\ header = root
  BY <1>1, <1>2, <1>3 DEF NewRoot, Want, Inserted, Pending, HeaderInv
<1>6. PICK own, lev, left : Arranged(own, lev, left)
  BY <1>3 DEF MapInv
<1>7. Splitting(Held, NodeIds, header, own, lev, Want, header, split.right,
                split.key, split.val)
  BY <1>3, <1>5, <1>6 DEF Arranged, TreeSound, SplitAt, Pending
<1>8. Splitting(file', NodeIds, header, own, lev, Want, header, split.right,
                split.key, split.val)
  BY <1>4, <1>7 DEF Splitting, Valid
<1>9. QED
  BY <1>4, <1>5, <1>8 DEF RootBehind

(* The file lags behind the tree by no more than that.                      *)
BehindInv == ~mishap /\ damage = "none" => RootBehind

LEMMA EngineStaysBehind ==
  ASSUME SessionInv, HeaderInv, BehindInv, Engine, Wear
  PROVE  BehindInv'
<1>1. SUFFICES ASSUME ~mishap', damage' = "none" PROVE RootBehind'
  BY DEF BehindInv
<1>2. ~mishap /\ damage = "none"
  BY <1>1, WearSpares DEF Wear
<1>3. QED
  BY <1>2, EngineBehind DEF SessionInv, BehindInv

LEMMA RestStaysBehind ==
  ASSUME SessionInv, BehindInv,
         SessionStep \/ pc' # "writeHeader" \/ UNCHANGED <<vars, svars>>
  PROVE  BehindInv'
<1>1. CASE pc' # "writeHeader"
  BY <1>1 DEF BehindInv, RootBehind
<1>2. CASE SessionStep
  BY <1>1, <1>2 DEF SessionStep, Close, CloseFails, Crash, Interrupted, Gone, OpenNew,
                    Reopen, StartOver, SessionInv, CountInv, NoProcess
<1>3. CASE UNCHANGED <<vars, svars>>
  <2>1. /\ UNCHANGED <<file, pageCount, root, header, pc, split, call, contents>>
        /\ UNCHANGED <<mishap, damage>>
    BY <1>3 DEF vars, svars
  <2>2. NodeIds' = NodeIds /\ Want' = Want
    BY <2>1 DEF NodeIds, Want, Inserted, Pending
  <2>3. QED
    BY <2>1, <2>2 DEF BehindInv, RootBehind
<1>4. QED
  BY <1>1, <1>2, <1>3

(* The first crash of a file.                                               *)
LEMMA CrashLeaves ==
  ASSUME SessionInv, HeaderInv, BehindInv, Crash => ~mishap /\ PagesFit
  PROVE  Crash /\ Reopens /\ damage' \in {"none", "unlinked"}
           /\ (header = root \/ pc = "writeHeader") =>
           \A k \in Keys :
             \/ contents'[k] = contents[k]
             \/ call.op = "insert" /\ call.key = k /\ contents'[k] = call.val
             \/ HalfWritten /\ ~CopyUpLeaves /\ k >= split.key
<1>1. SUFFICES ASSUME Crash, Reopens, damage' \in {"none", "unlinked"}, NEW k \in Keys
               PROVE  \/ contents'[k] = contents[k]
                      \/ /\ call.op = "insert" /\ call.key = k
                         /\ contents'[k] = call.val
                      \/ HalfWritten /\ ~CopyUpLeaves /\ k >= split.key
  OBVIOUS
<1>2. ~mishap /\ damage = "none" /\ cached = << >> /\ pc # "corrupt"
  BY <1>1 DEF Crash, Interrupted, LeavesBehind, SessionInv, CountInv, PagesFit
<1>3. MapInv /\ HangInv /\ RootBehind
  BY <1>2 DEF SessionInv, BehindInv
<1>4. header' = header /\ contents'[k] = Survivors(header)[k]
  BY <1>1 DEF Crash, Interrupted, Reopens
<1>5. SUFFICES ASSUME ~Leaves(k)
               PROVE  HalfWritten /\ ~CopyUpLeaves /\ k >= split.key
  BY <1>3, <1>4 DEF Leaves, MapInv, CallOK, Inserted, Pending
<1>6. k \in Int
  BY KeysAssumption
<1>7. CASE pc = "writeHeader"
  <2>1. split.key \in Int /\ HalfWritten
    BY <1>3, <1>4, <1>7, BehindIsApart DEF HalfWritten
  <2>2. QED
    BY <1>3, <1>5, <1>6, <1>7, <2>1, BehindLeaves
<1>8. CASE Pending
  <2>1. header = root /\ split.key \in Int /\ HalfWritten
    BY <1>3, <1>8 DEF HeaderInv, Pending, HalfWritten, MapInv, IInv, SplitGood
  <2>2. CopyUpLeaves /\ pc = "writeRight" => ~split.page.leaf
    BY <1>1, <1>2, <2>1 DEF Crash, Interrupted, LeavesBlank
  <2>3. QED
    BY <1>3, <1>5, <1>6, <1>8, <2>1, <2>2, PendingLeaves
<1>9. CASE pc # "writeHeader" /\ ~Pending
  BY <1>2, <1>3, <1>5, <1>9, WholeLeaves DEF HeaderInv
<1>10. QED
  BY <1>7, <1>8, <1>9
-----------------------------------------------------------------------------
(* The bytes the cells of a page take are added up cell by cell.            *)
LEMMA CellBytesIsSum ==
  ASSUME NEW leaf, NEW cells, Len(cells) \in Nat
  PROVE  \E f : /\ f[0] = 0
                /\ \A n \in 1 .. Len(cells) :
                     f[n] = f[n - 1] + CellSize(leaf, cells[n].val)
                /\ CellBytes(leaf, cells) = f[Len(cells)]
<1> DEFINE m == Len(cells)
           c == [n \in 1 .. m |-> CellSize(leaf, cells[n].val)]
           Sums(f) == f = [n \in 0 .. m |->
                             IF n = 0 THEN 0
                             ELSE f[n - 1] + CellSize(leaf, cells[n].val)]
           f == CHOOSE f : Sums(f)
<1>1. \E g : Totals(g, c, m)
  <2> HIDE DEF c
  <2>1. QED
    BY TotalsExist
<1>2. PICK g : Sums(g)
  <2>1. \A n \in 0 .. m : n # 0 => c[n] = CellSize(leaf, cells[n].val)
    OBVIOUS
  <2> HIDE DEF c
  <2>2. QED
    BY <1>1, <2>1 DEF Totals
<1>3. Sums(f)
  <2> HIDE DEF Sums
  <2>1. QED
    BY <1>2
<1>4. CellBytes(leaf, cells) = f[m]
  BY DEF CellBytes
<1> HIDE DEF f
<1>5. f[0] = 0 /\ \A n \in 1 .. m : f[n] = f[n - 1] + CellSize(leaf, cells[n].val)
  BY <1>3
<1>6. QED
  BY <1>4, <1>5

(* A cell has a size.                                                       *)
LEMMA CellHasSize ==
  ASSUME NEW leaf, NEW val \in Values \cup {Nil}
  PROVE  CellSize(leaf, val) \in Nat
<1>1. Length(val) \in Nat
  BY ValuesAssumption DEF Length
<1>2. QED
  BY <1>1 DEF CellSize, BTreeCellSize, BPTreeCellSize

(* The bytes of any cells are a number.                                     *)
LEMMA CellBytesAreNumber ==
  ASSUME NEW leaf, NEW cells \in Seq(Cell)
  PROVE  CellBytes(leaf, cells) \in Nat
<1>1. Len(cells) \in Nat
  OBVIOUS
<1>2. PICK f : /\ f[0] = 0
               /\ \A n \in 1 .. Len(cells) :
                    f[n] = f[n - 1] + CellSize(leaf, cells[n].val)
               /\ CellBytes(leaf, cells) = f[Len(cells)]
  BY <1>1, CellBytesIsSum
<1>3. ASSUME NEW n \in 1 .. Len(cells) PROVE CellSize(leaf, cells[n].val) \in Nat
  <2>1. cells[n] \in Cell
    BY ElementOfSeq
  <2>2. cells[n].val \in Values \cup {Nil}
    BY <2>1 DEF Cell
  <2>3. QED
    BY <2>2, CellHasSize
<1>4. \A n \in 0 .. Len(cells) : f[n] \in Nat
  BY <1>1, <1>2, <1>3, TotalsAreNumbers
<1>5. QED
  BY <1>1, <1>2, <1>4

(* The bytes of cells of one size.                                          *)
LEMMA CellBytesOfOneSize ==
  ASSUME NEW leaf, NEW cells, Len(cells) \in Nat, NEW s \in Nat,
         \A n \in 1 .. Len(cells) : CellSize(leaf, cells[n].val) = s
  PROVE  CellBytes(leaf, cells) = Len(cells) * s
<1>1. PICK f : /\ f[0] = 0
               /\ \A n \in 1 .. Len(cells) :
                    f[n] = f[n - 1] + CellSize(leaf, cells[n].val)
               /\ CellBytes(leaf, cells) = f[Len(cells)]
  BY CellBytesIsSum
<1>2. \A n \in 1 .. Len(cells) : f[n] = f[n - 1] + s
  BY <1>1
<1>3. f[Len(cells)] = Len(cells) * s
  BY <1>1, <1>2, TotalOfOneSize
<1>4. QED
  BY <1>1, <1>3
-----------------------------------------------------------------------------
(* Pages of the shape Page describes, sizes included.                       *)

(* A page whose content offset is a number.                                 *)
LEMMA ShapedIsPage ==
  ASSUME NEW p, IsPage(p), p.content \in Int
  PROVE  p \in Page
BY DEF IsPage, Page

(* A cell put in or taken out and a value overwritten are no change of the  *)
(* content offset: doInsert moves it for itself.                            *)
LEMMA WithCellContent ==
  ASSUME NEW p, IsPage(p), NEW i, NEW key, NEW val, NEW rc
  PROVE  WithCell(p, i, key, val, rc).content = p.content
<1>1. \A c, r : [p EXCEPT !.cells = c, !.rightmost = r].content = p.content
  BY DEF IsPage
<1>2. \A c : [p EXCEPT !.cells = c].content = p.content
  BY DEF IsPage
<1>3. QED
  BY <1>1, <1>2 DEF WithCell

(* The same of a cell taken out.                                            *)
LEMMA DeleteCellContent ==
  ASSUME NEW p, IsPage(p), NEW i
  PROVE  DeleteCell(p, i).content = p.content
BY DEF IsPage, DeleteCell

(* Whatever doInsert makes of page p and a new cell, the page with the cell *)
(* if there is room or its two halves, is in S.                             *)
Admits(S, p, i, key, val, rc) ==
  LET q    == WithCell(p, i, key, val, rc)
      size == CellSize(p.leaf, val)
  IN  /\ HasRoom(p, size) => [q EXCEPT !.content = @ - size] \in S
      /\ ~HasRoom(p, size) =>
           \A x, y \in Int : LeftHalf(q, x) \in S /\ RightHalf(q, y) \in S

(* Every page that is written or about to be is in S, but for the blank     *)
(* page a split has allocated.                                              *)
PagesIn(S) ==
  /\ \A id \in NodeIds :
       \/ file[id] \in S
       \/ file[id] = BlankPage /\ (Awaited(id) \/ pc = "corrupt")
  /\ \A id \in DOMAIN cached : cached[id] \in S
  /\ pc = "writeRight" => split.page \in S

(* Every page the next step of an insertion may make is in S.               *)
Makes(S) ==
  /\ pc = "insertRec" =>
       /\ Room => OverwriteValue(TopPage, Pos, call.val) \in S
       /\ ~Room /\ TopPage.leaf =>
            Admits(S, Dropped(TopPage, Pos), Pos, call.key, call.val, 0)
       /\ ~Room /\ ~TopPage.leaf => Dropped(TopPage, Pos) \in S
  /\ pc = "insertSplit" =>
       Admits(S, TopPage, FindIdx(TopPage, split.key, FALSE),
              split.key, split.val, split.right)
  /\ pc = "newRoot" =>
       NewPage(FALSE, <<RootCell>>, split.right, InvalidPage) \in S

(* The page a frame of an insertion reads.                                  *)
LEMMA TopIn ==
  ASSUME NEW S, IInv, PagesIn(S), pc \in {"insertRec", "insertSplit"}
  PROVE  TopPage \in S
<1>1. Last(path) \in NodeIds
  BY TopGood
<1>2. QED
  BY <1>1 DEF TopPage, PageOf, PagesIn, Awaited

(* A step that writes no page, or lets one go.                              *)
LEMMA RestIn ==
  ASSUME NEW S, PagesIn(S), UNCHANGED <<file, pageCount>>,
         \A id \in DOMAIN cached' : cached'[id] \in S,
         \/ UNCHANGED <<pc, split>>
         \/ pc \notin {"writeRight", "corrupt"} /\ pc' # "writeRight"
  PROVE  PagesIn(S)'
<1>1. NodeIds' = NodeIds
  BY DEF NodeIds
<1>2. QED
  BY <1>1 DEF PagesIn, Awaited

(* A page written at the end of a call.                                     *)
LEMMA WriteIn ==
  ASSUME NEW S, IInv, PagesIn(S), pc \in {"insertRec", "insertSplit"},
         NEW id \in NodeIds, NEW p \in S, WriteAndReturn(id, p)
  PROVE  PagesIn(S)'
<1>1. /\ file' = [file EXCEPT ![id] = p]
      /\ cached' = Without(cached, id)
      /\ pc' \in {"return", "corrupt"}
      /\ pageCount' = pageCount
  BY DEF WriteAndReturn, WriteNode, IInv, Shape
<1>2. NodeIds' = NodeIds
  BY <1>1 DEF NodeIds
<1>3. \A x \in NodeIds : file'[x] = IF x = id THEN p ELSE file[x]
  BY <1>1 DEF IInv, Shape
<1>4. \A x \in DOMAIN cached' : x \in DOMAIN cached /\ cached'[x] = cached[x]
  BY <1>1 DEF Without
<1>5. \A x \in NodeIds : file[x] \in S
  BY DEF PagesIn, Awaited
<1>6. QED
  BY <1>1, <1>2, <1>3, <1>4, <1>5 DEF PagesIn

(* A page split, its right half still to be written.                        *)
LEMMA SplitIn ==
  ASSUME NEW S, IInv, PagesIn(S), pc \in {"insertRec", "insertSplit"},
         NEW id \in NodeIds, NEW p, p.next \in Int,
         NEW i, NEW key, NEW val, NEW rc,
         WithCell(p, i, key, val, rc).leaf = p.leaf,
         \A x, y \in Int : /\ LeftHalf(WithCell(p, i, key, val, rc), x) \in S
                           /\ RightHalf(WithCell(p, i, key, val, rc), y) \in S,
         SplitNode(id, p, i, key, val, rc)
  PROVE  PagesIn(S)'
<1> DEFINE q     == WithCell(p, i, key, val, rc)
           next  == LinkLeaves(p.leaf, pageCount, p.next)
<1>1. pageCount \in Nat /\ id # pageCount /\ pageCount \notin NodeIds
  BY DEF IInv, Shape, NodeIds
<1>2. next.left \in Int /\ next.right \in Int
  BY <1>1 DEF LinkLeaves, InvalidPage
<1>3. LeftHalf(q, next.left) \in S /\ RightHalf(q, next.right) \in S
  BY <1>2
<1>4. /\ pageCount' = pageCount + 1
      /\ WriteNode(Extended, id, LeftHalf(q, next.left))
      /\ split'.right = pageCount /\ split'.page = RightHalf(q, next.right)
      /\ pc' \in {"writeRight", "corrupt"}
  BY DEF SplitNode, Allocate, LeftHalf, RightHalf, LeftCells
<1> HIDE DEF q, next
<1>5. /\ file' = [Extended EXCEPT ![id] = LeftHalf(q, next.left)]
      /\ cached' = Without(cached, id)
  BY <1>4 DEF WriteNode, IInv, Shape
<1>6. Extended = [x \in NodeIds \cup {pageCount} |->
                    IF x = pageCount THEN BlankPage ELSE file[x]]
  BY DEF Extended, With, IInv, Shape
<1>7. NodeIds' = NodeIds \cup {pageCount}
  BY <1>1, <1>4 DEF NodeIds, IInv, Shape
<1>8. \A x \in NodeIds : file'[x] = IF x = id THEN LeftHalf(q, next.left)
                                    ELSE file[x]
  BY <1>1, <1>5, <1>6
<1>9. file'[pageCount] = BlankPage
  BY <1>1, <1>5, <1>6
<1>10. \A x \in DOMAIN cached' : x \in DOMAIN cached /\ cached'[x] = cached[x]
  BY <1>5 DEF Without
<1>11. \A x \in NodeIds : file[x] \in S
  BY DEF PagesIn, Awaited
<1>12. QED
  BY <1>3, <1>4, <1>7, <1>8, <1>9, <1>10, <1>11 DEF PagesIn, Awaited

(* doInsert, whether the cell finds room or not.                            *)
LEMMA DoInsertIn ==
  ASSUME NEW S, IInv, PagesIn(S), pc \in {"insertRec", "insertSplit"},
         NEW id \in NodeIds, NEW p, GoodPage(p),
         NEW i, NEW key, NEW val, NEW rc,
         Insertable(p, i, key, val, rc), Admits(S, p, i, key, val, rc),
         DoInsert(id, p, i, key, val, rc)
  PROVE  PagesIn(S)'
<1> DEFINE size == CellSize(p.leaf, val)
           q    == WithCell(p, i, key, val, rc)
           w    == [q EXCEPT !.content = @ - size]
<1>1. CASE HasRoom(p, size) /\ WriteAndReturn(id, w)
  <2>1. w \in S
    BY <1>1 DEF Admits
  <2> HIDE DEF w
  <2>2. QED
    BY <1>1, <2>1, WriteIn
<1>2. CASE ~HasRoom(p, size) /\ SplitNode(id, p, i, key, val, rc)
  <2>1. \A x, y \in Int : LeftHalf(q, x) \in S /\ RightHalf(q, y) \in S
    BY <1>2 DEF Admits
  <2>2. q.leaf = p.leaf
    BY WithCellElements
  <2>3. p.next \in Int
    BY DEF GoodPage, IsPage
  <2>4. QED
    BY <1>2, <2>1, <2>2, <2>3, SplitIn
<1>3. QED
  BY <1>1, <1>2 DEF DoInsert

(* The right half written.                                                  *)
LEMMA WriteRightIn ==
  ASSUME NEW S, IInv, PagesIn(S), WriteRight
  PROVE  PagesIn(S)'
<1> DEFINE id == split.right
<1>1. /\ pc = "writeRight"
      /\ file' = [file EXCEPT ![id] = split.page]
      /\ cached' = Without(cached, id)
      /\ pc' \in {"newRoot", "insertSplit"}
      /\ pageCount' = pageCount
  BY DEF WriteRight, WriteNode, IInv, Shape
<1>2. id \in NodeIds /\ split.page \in S
  BY <1>1 DEF IInv, SplitGood, PagesIn
<1>3. NodeIds' = NodeIds
  BY <1>1 DEF NodeIds
<1>4. \A x \in NodeIds : file'[x] = IF x = id THEN split.page ELSE file[x]
  BY <1>1 DEF IInv, Shape
<1>5. \A x \in DOMAIN cached' : x \in DOMAIN cached /\ cached'[x] = cached[x]
  BY <1>1 DEF Without
<1>6. \A x \in NodeIds : x # id => file[x] \in S
  BY <1>1 DEF PagesIn, Awaited
<1>7. QED
  BY <1>1, <1>2, <1>3, <1>4, <1>5, <1>6 DEF PagesIn

(* A new root.                                                              *)
LEMMA NewRootIn ==
  ASSUME NEW S, IInv, PagesIn(S), Makes(S), NewRoot
  PROVE  PagesIn(S)'
<1> DEFINE p == NewPage(FALSE, <<RootCell>>, split.right, InvalidPage)
<1>1. /\ pc = "newRoot" /\ pc' \in {"writeHeader", "corrupt"}
      /\ WriteNode(Extended, pageCount, p)
      /\ pageCount' = pageCount + 1
  BY DEF NewRoot, Allocate
<1>2. p \in S
  BY <1>1 DEF Makes
<1> HIDE DEF p
<1>3. /\ file' = [Extended EXCEPT ![pageCount] = p]
      /\ cached' = Without(cached, pageCount)
  BY <1>1 DEF WriteNode, IInv, Shape
<1>4. Extended = [x \in NodeIds \cup {pageCount} |->
                    IF x = pageCount THEN BlankPage ELSE file[x]]
  BY DEF Extended, With, IInv, Shape
<1>5. /\ pageCount \in Nat /\ pageCount \notin NodeIds
      /\ NodeIds' = NodeIds \cup {pageCount}
  BY <1>1 DEF NodeIds, IInv, Shape
<1>6. /\ file'[pageCount] = p
      /\ \A x \in NodeIds : file'[x] = file[x]
  BY <1>3, <1>4, <1>5
<1>7. \A x \in DOMAIN cached' : x \in DOMAIN cached /\ cached'[x] = cached[x]
  BY <1>3 DEF Without
<1>8. \A x \in NodeIds : file[x] \in S
  BY <1>1 DEF PagesIn, Awaited
<1>9. QED
  BY <1>1, <1>2, <1>5, <1>6, <1>7, <1>8 DEF PagesIn

(* A dropped cell leaves the page in the cache.                             *)
LEMMA DescendIn ==
  ASSUME NEW S, IInv, PagesIn(S), Makes(S), InsertDescend
  PROVE  PagesIn(S)'
<1> DEFINE d == Dropped(TopPage, Pos)
<1>1. /\ pc = "insertRec" /\ ~TopPage.leaf /\ ~Room
      /\ UNCHANGED <<file, pageCount, pc, split>>
  BY DEF InsertDescend
<1>2. d \in S
  BY <1>1 DEF Makes
<1> HIDE DEF d
<1>3. \A x \in DOMAIN cached' : \/ cached'[x] = d
                                \/ x \in DOMAIN cached /\ cached'[x] = cached[x]
  BY DEF InsertDescend, d, With
<1>4. QED
  BY <1>1, <1>2, <1>3, RestIn DEF PagesIn

(* Every step of the engine keeps the pages in a set that the pages it      *)
(* makes are in.                                                            *)
LEMMA EngineIn ==
  ASSUME NEW S, IInv, PagesIn(S), Makes(S), Engine
  PROVE  PagesIn(S)'
<1>1. ASSUME NEW k \in Keys, NEW v \in Values, Insert(k, v)
      PROVE  PagesIn(S)'
  <2>1. /\ UNCHANGED <<file, pageCount, cached>>
        /\ pc \notin {"writeRight", "corrupt"} /\ pc' # "writeRight"
    BY <1>1 DEF Insert
  <2>2. QED
    BY <2>1, RestIn DEF PagesIn
<1>2. CASE InsertOverwrite
  <2>1. /\ pc = "insertRec" /\ Room
        /\ WriteAndReturn(Last(path), OverwriteValue(TopPage, Pos, call.val))
    BY <1>2 DEF InsertOverwrite
  <2>2. OverwriteValue(TopPage, Pos, call.val) \in S /\ Last(path) \in NodeIds
    BY <2>1, TopGood DEF Makes
  <2>3. QED
    BY <2>1, <2>2, WriteIn
<1>3. CASE InsertInLeaf
  <2> DEFINE d == Dropped(TopPage, Pos)
  <2>1. /\ pc = "insertRec" /\ TopPage.leaf /\ ~Room
        /\ DoInsert(Last(path), d, Pos, call.key, call.val, 0)
    BY <1>3 DEF InsertInLeaf
  <2>2. Admits(S, d, Pos, call.key, call.val, 0) /\ Last(path) \in NodeIds
    BY <2>1, TopGood DEF Makes
  <2>3. GoodPage(d) /\ Between(d, Pos, call.key)
    BY <2>1, DroppedGood
  <2>4. call.key \in Int /\ call.val \in Values \cup {Nil} /\ 0 \in Nat
    BY <2>1 DEF IInv, CallGood
  <2> HIDE DEF d
  <2>5. Insertable(d, Pos, call.key, call.val, 0)
    BY <2>3, <2>4 DEF Insertable, GoodPage, Between
  <2>6. QED
    BY <2>1, <2>2, <2>3, <2>5, DoInsertIn
<1>4. CASE InsertDescend
  BY <1>4, DescendIn
<1>5. CASE WriteRight
  BY <1>5, WriteRightIn
<1>6. CASE InsertSplit
  <2> DEFINE i == FindIdx(TopPage, split.key, FALSE)
  <2>1. /\ pc = "insertSplit"
        /\ DoInsert(Last(path), TopPage, i, split.key, split.val, split.right)
    BY <1>6 DEF InsertSplit
  <2>2. /\ Admits(S, TopPage, i, split.key, split.val, split.right)
        /\ Last(path) \in NodeIds /\ GoodPage(TopPage) /\ TopPage.leaf = FALSE
    BY <2>1, TopGood DEF Makes
  <2>3. /\ split.key \in Int /\ split.val \in Values \cup {Nil}
        /\ split.right \in Nat
    BY <2>1 DEF IInv, SplitGood, Shape, NodeIds
  <2>4. Between(TopPage, i, split.key)
    BY <2>2, <2>3, FoundPositionFits DEF GoodPage
  <2> HIDE DEF i
  <2>5. Insertable(TopPage, i, split.key, split.val, split.right)
    BY <2>2, <2>3, <2>4 DEF Insertable, GoodPage, Between
  <2>6. QED
    BY <2>1, <2>2, <2>5, DoInsertIn
<1>7. CASE NewRoot
  BY <1>7, NewRootIn
<1>8. CASE WriteHeader
  <2>1. /\ UNCHANGED <<file, pageCount, cached>>
        /\ pc \notin {"writeRight", "corrupt"} /\ pc' # "writeRight"
    BY <1>8 DEF WriteHeader
  <2>2. QED
    BY <2>1, RestIn DEF PagesIn
<1>9. CASE ReturnInsert
  <2>1. /\ UNCHANGED <<file, pageCount, cached>>
        /\ pc \notin {"writeRight", "corrupt"} /\ pc' # "writeRight"
    BY <1>9 DEF ReturnInsert
  <2>2. QED
    BY <2>1, RestIn DEF PagesIn
<1>10. ASSUME NEW k \in DeleteKeys, Delete(k)
       PROVE  PagesIn(S)'
  <2>1. UNCHANGED <<file, pageCount, cached, pc, split>>
    BY <1>10 DEF Delete
  <2>2. QED
    BY <2>1, RestIn DEF PagesIn
<1>11. ASSUME NEW id \in DOMAIN cached, Evict(id)
       PROVE  PagesIn(S)'
  <2>1. /\ cached' = Without(cached, id)
        /\ UNCHANGED <<file, pageCount, pc, split>>
    BY <1>11 DEF Evict
  <2>2. \A x \in DOMAIN cached' : x \in DOMAIN cached /\ cached'[x] = cached[x]
    BY <2>1 DEF Without
  <2>3. QED
    BY <2>1, <2>2, RestIn DEF PagesIn
<1>12. QED
  BY <1>1, <1>2, <1>3, <1>4, <1>5, <1>6, <1>7, <1>8, <1>9, <1>10, <1>11
     DEF Engine, InsertStep
-----------------------------------------------------------------------------
(* A page made anew of cells.                                               *)
LEMMA NewPageContent ==
  ASSUME NEW leaf, NEW cells \in Seq(Cell), NEW r, NEW x
  PROVE  NewPage(leaf, cells, r, x).content \in Int
<1>1. CellBytes(leaf, cells) \in Nat
  BY CellBytesAreNumber
<1>2. QED
  BY <1>1, PageSizeAssumption DEF NewPage

(* What doInsert makes of a page are pages.                                 *)
LEMMA AdmitsPage ==
  ASSUME NEW S, S \subseteq Nat, NEW p, GoodPage(p), p \in Page,
         ChildrenIn(p, S), NEW key \in Int, NEW i, Between(p, i, key),
         NEW val \in Values \cup {Nil}, NEW rc \in Nat, p.leaf \/ rc \in S
  PROVE  Admits(Page, p, i, key, val, rc)
<1> DEFINE q    == WithCell(p, i, key, val, rc)
           size == CellSize(p.leaf, val)
           w    == [q EXCEPT !.content = @ - size]
<1>1. GoodPage(q) /\ ChildrenIn(q, S) /\ NumCells(q) >= 1
  BY WithCellGood
<1>2. q.content \in Int /\ size \in Nat
  BY WithCellContent, CellHasSize DEF Page, GoodPage
<1> HIDE DEF q, size
<1>3. w \in Page
  <2>1. IsPage(w)
    BY <1>1, ContentKeepsPage DEF GoodPage
  <2>2. w.content = q.content - size
    BY <1>1, PageWithContent DEF GoodPage
  <2> HIDE DEF w
  <2>3. QED
    BY <1>2, <2>1, <2>2, ShapedIsPage
<1>4. ASSUME NEW x \in Int, NEW y \in Int
      PROVE  LeftHalf(q, x) \in Page /\ RightHalf(q, y) \in Page
  <2>1. IsPage(LeftHalf(q, x)) /\ IsPage(RightHalf(q, y))
    BY <1>1, HalvesGood DEF GoodPage
  <2>2. LeftHalf(q, x).cells \in Seq(Cell) /\ RightHalf(q, y).cells \in Seq(Cell)
    BY <2>1 DEF IsPage
  <2>3. /\ SubSeq(q.cells, 1, Promoted(q.cells) - 1) \in Seq(Cell)
        /\ SubSeq(q.cells, RightStart(q.leaf, Promoted(q.cells)), Len(q.cells))
             \in Seq(Cell)
    BY <2>2 DEF LeftHalf, RightHalf, NewPage
  <2>4. LeftHalf(q, x).content \in Int /\ RightHalf(q, y).content \in Int
    BY <2>3, NewPageContent DEF LeftHalf, RightHalf
  <2>5. QED
    BY <2>1, <2>4, ShapedIsPage
<1>5. QED
  BY <1>3, <1>4 DEF Admits, q, size

(* The pages an insertion writes are pages.                                 *)
LEMMA MakesPages ==
  ASSUME IInv, PagesIn(Page)
  PROVE  Makes(Page)
<1>1. NodeIds \subseteq Nat /\ pageCount \in Nat
  BY DEF NodeIds, IInv, Shape
<1>2. ASSUME pc \in {"insertRec", "insertSplit"}
      PROVE  /\ TopPage \in Page /\ GoodPage(TopPage) /\ TopPage.leaf \in BOOLEAN
             /\ ChildrenIn(TopPage, NodeIds)
  BY <1>2, TopIn, TopGood
<1>3. ASSUME pc = "insertRec"
      PROVE  /\ Room => OverwriteValue(TopPage, Pos, call.val) \in Page
             /\ Dropped(TopPage, Pos) \in Page
             /\ Between(Dropped(TopPage, Pos), Pos, call.key)
             /\ GoodPage(Dropped(TopPage, Pos))
             /\ ChildrenIn(Dropped(TopPage, Pos), NodeIds)
             /\ Dropped(TopPage, Pos).leaf = TopPage.leaf
             /\ call.key \in Int /\ call.val \in Values \cup {Nil}
  <2> DEFINE p == TopPage
             d == Dropped(p, Pos)
             t == [p EXCEPT !.cells[Pos].val = call.val]
  <2>1. call.key \in Int /\ call.val \in Values
    BY <1>3 DEF IInv, CallGood
  <2>2. IsPage(p) /\ p.content \in Int
    BY <1>2, <1>3 DEF GoodPage, Page
  <2>3. /\ Between(d, Pos, call.key) /\ GoodPage(d) /\ ChildrenIn(d, NodeIds)
        /\ d.leaf = p.leaf
    BY <1>3, DroppedGood
  <2>4. d.content \in Int
    <3>1. DeleteCell(p, Pos).content = p.content
      BY <2>2, DeleteCellContent
    <3>2. QED
      BY <2>2, <3>1 DEF Dropped
  <2>5. d \in Page
    BY <2>3, <2>4, ShapedIsPage DEF GoodPage
  <2>6. ASSUME Room
        PROVE  OverwriteValue(p, Pos, call.val) \in Page
    <3>1. Pos <= NumCells(p)
      BY <2>6 DEF Room, KeyAt
    <3>2. Pos \in 1 .. NumCells(p)
      <4>1. Pos \in 1 .. NumCells(p) + 1
        BY <2>1, <2>2, <1>2, <1>3, FindIdxIsBorder DEF Pos
      <4>2. NumCells(p) \in Nat
        BY <2>2, CellsOfPage
      <4> HIDE DEF p
      <4>3. QED
        BY <3>1, <4>1, <4>2
    <3>3. IsPage(t)
      BY <2>1, <2>2, <3>2, ValueKeepsPage
    <3>4. t.content = p.content
      BY <2>2, PageWithValue
    <3> HIDE DEF t, p
    <3>5. t \in Page
      BY <2>2, <3>3, <3>4, ShapedIsPage
    <3>6. p \in Page
      BY <1>2, <1>3 DEF p
    <3>7. QED
      BY <3>5, <3>6 DEF OverwriteValue, t
  <2>7. QED
    BY <2>1, <2>3, <2>5, <2>6
<1>4. ASSUME pc = "insertRec", TopPage.leaf
      PROVE  Admits(Page, Dropped(TopPage, Pos), Pos, call.key, call.val, 0)
  <2>1. 0 \in Nat /\ Dropped(TopPage, Pos).leaf
    BY <1>3, <1>4
  <2>2. QED
    BY <1>1, <1>3, <1>4, <2>1, AdmitsPage
<1>5. ASSUME pc = "insertSplit"
      PROVE  Admits(Page, TopPage, FindIdx(TopPage, split.key, FALSE),
                    split.key, split.val, split.right)
  <2> DEFINE i == FindIdx(TopPage, split.key, FALSE)
  <2>1. /\ split.key \in Int /\ split.val \in Values \cup {Nil}
        /\ split.right \in NodeIds /\ split.right \in Nat
    BY <1>5 DEF IInv, SplitGood, Shape, NodeIds
  <2>2. TopPage.leaf = FALSE
    BY <1>5, TopGood
  <2>3. Between(TopPage, i, split.key)
    BY <1>2, <1>5, <2>1, <2>2, FoundPositionFits DEF GoodPage
  <2> HIDE DEF i
  <2>4. Admits(Page, TopPage, i, split.key, split.val, split.right)
    BY <1>1, <1>2, <1>5, <2>1, <2>3, AdmitsPage
  <2>5. QED
    BY <2>4 DEF i
<1>6. ASSUME pc = "newRoot"
      PROVE  NewPage(FALSE, <<RootCell>>, split.right, InvalidPage) \in Page
  <2> DEFINE c == RootCell
  <2>1. /\ split.key \in Int /\ split.val \in Values \cup {Nil}
        /\ split.right \in Nat /\ root \in Nat /\ InvalidPage \in Int
    BY <1>6 DEF IInv, SplitGood, Shape, NodeIds, InvalidPage
  <2>2. c \in Cell
    BY <2>1 DEF RootCell, Cell
  <2> HIDE DEF c
  <2>3. <<c>> \in Seq(Cell)
    BY <2>2
  <2>4. NewPage(FALSE, <<c>>, split.right, InvalidPage).content \in Int
    BY <2>3, NewPageContent
  <2>5. IsPage(NewPage(FALSE, <<c>>, split.right, InvalidPage))
    BY <2>1, <2>3, FieldsMakePage DEF NewPage
  <2>6. QED
    BY <2>4, <2>5, ShapedIsPage DEF c
<1>7. QED
  BY <1>3, <1>4, <1>5, <1>6 DEF Makes

(* The page Allocate writes is one.                                         *)
LEMMA BlankIsPage == BlankPage \in Page /\ EmptyLeaf \in Page
<1>1. BlankPage \in Page
  BY DEF BlankPage, Page
<1>2. << >> \in Seq(Cell)
  OBVIOUS
<1>3. EmptyLeaf.content \in Int
  BY <1>2, NewPageContent DEF EmptyLeaf
<1>4. EmptyLeaf \in Page
  BY <1>3, EmptyPagesGood, ShapedIsPage DEF GoodPage
<1>5. QED
  BY <1>1, <1>4
-----------------------------------------------------------------------------
(* Pages that values of one length L fill.                                  *)

(* The bytes of a cell, as the accessors count them.                        *)
CellLen(leaf, L) ==
  IF ~CopyUpLeaves THEN 4 + 8 + 2 + L ELSE IF leaf THEN 8 + 2 + L ELSE 4 + 8

(* A page has place for a cell, and cells of that size with their pointers  *)
(* leave less of it than doInsert takes for room: it does not count the     *)
(* pointer.                                                                 *)
Divides(size) ==
  /\ OffCellPtrs + size + CellPtrSize <= PageSize
  /\ (PageSize - OffCellPtrs) % (size + CellPtrSize) < size

(* All values are of length L, and the cells of both kinds of pages divide  *)
(* a page so.                                                               *)
OneLength(L) ==
  /\ L \in Nat
  /\ \A v \in Values : ValLen[v] = L
  /\ \A leaf \in BOOLEAN : Divides(CellLen(leaf, L))

(* The cells of a page have values where there is a place for one.          *)
HasValues(leaf, cells) ==
  leaf \/ ~CopyUpLeaves => \A j \in 1 .. Len(cells) : cells[j].val \in Values

(* What the offset of a page's content says of its cells.                   *)
Even(p, L) ==
  /\ p.content = PageSize - NumCells(p) * CellLen(p.leaf, L)
  /\ HasValues(p.leaf, p.cells)
  /\ Fits(p)

EvenPages(L) == {p \in Page : Even(p, L)}

(* Cells of one size.                                                       *)
LEMMA CellOfOneSize ==
  ASSUME NEW L, OneLength(L), NEW leaf, NEW val,
         leaf \/ ~CopyUpLeaves => val \in Values
  PROVE  CellSize(leaf, val) = CellLen(leaf, L) /\ CellLen(leaf, L) \in Nat
<1>1. L \in Nat
  BY DEF OneLength
<1>2. val \in Values => Length(val) = L
  BY ValuesAssumption DEF OneLength, Length
<1>3. QED
  BY <1>1, <1>2 DEF CellSize, BTreeCellSize, BPTreeCellSize, CellLen

(* When m cells fit.                                                        *)
LEMMA CellsFit ==
  ASSUME NEW L, OneLength(L), NEW p, NumCells(p) \in Nat, p.leaf \in BOOLEAN,
         p.content = PageSize - NumCells(p) * CellLen(p.leaf, L)
  PROVE  /\ CellLen(p.leaf, L) \in Nat
         /\ FreeSpace(p) = (PageSize - 13) - NumCells(p) * (CellLen(p.leaf, L) + 2)
         /\ Divides(CellLen(p.leaf, L)) /\ PageSize - 13 \in Nat
<1> DEFINE s == CellLen(p.leaf, L)
           n == NumCells(p)
<1>1. s \in Nat
  <2>1. L \in Nat
    BY DEF OneLength
  <2>2. QED
    BY <2>1 DEF CellLen
<1>2. Divides(s)
  BY DEF OneLength
<1> HIDE DEF s
<1>3. PageSize - 13 \in Nat
  BY <1>1, <1>2, PageSizeAssumption DEF Divides, OffCellPtrs, CellPtrSize
<1>4. FreeSpace(p) = (PageSize - n * s) - (13 + n * 2)
  BY DEF FreeSpace, OffCellPtrs, CellPtrSize, s
<1>5. FreeSpace(p) = (PageSize - 13) - n * (s + 2)
  BY <1>1, <1>4, SpaceLeft, PageSizeAssumption
<1>6. QED
  BY <1>1, <1>2, <1>3, <1>5 DEF s

(* A page made of no more cells than fit on one, or of one.                 *)
LEMMA EvenNewPage ==
  ASSUME NEW L, OneLength(L), NEW leaf \in BOOLEAN, NEW cells \in Seq(Cell),
         HasValues(leaf, cells), NEW r, NEW x,
         NewPage(leaf, cells, r, x) \in Page, NEW n \in Nat,
         (PageSize - 13) - n * (CellLen(leaf, L) + 2) >= 0,
         Len(cells) <= n \/ Len(cells) <= 1
  PROVE  NewPage(leaf, cells, r, x) \in EvenPages(L)
<1> DEFINE h == NewPage(leaf, cells, r, x)
           s == CellLen(leaf, L)
           m == Len(cells)
<1>1. \A j \in 1 .. m : CellSize(leaf, cells[j].val) = s
  BY CellOfOneSize DEF HasValues
<1>2. s \in Nat /\ m \in Nat
  <2>1. L \in Nat
    BY DEF OneLength
  <2>2. QED
    BY <2>1 DEF CellLen
<1> HIDE DEF s
<1>3. CellBytes(leaf, cells) = m * s
  BY <1>1, <1>2, CellBytesOfOneSize
<1>4. h.content = PageSize - m * s /\ h.leaf = leaf /\ h.cells = cells
  BY <1>3 DEF NewPage
<1> HIDE DEF h
<1>5. NumCells(h) = m
  BY <1>4 DEF NumCells
<1>6. h.content = PageSize - NumCells(h) * CellLen(h.leaf, L)
  BY <1>4, <1>5 DEF s
<1>7. /\ FreeSpace(h) = (PageSize - 13) - m * (s + 2)
      /\ Divides(s) /\ PageSize - 13 \in Nat
  BY <1>2, <1>4, <1>5, <1>6, CellsFit DEF s
<1>8. s + 2 <= PageSize - 13
  BY <1>2, <1>7, PageSizeAssumption DEF Divides, OffCellPtrs, CellPtrSize
<1>9. m * (s + 2) <= PageSize - 13
  <2>1. n * (s + 2) <= PageSize - 13 /\ n * (s + 2) \in Int
    <3>1. (PageSize - 13) - n * (s + 2) >= 0
      BY DEF s
    <3>2. s + 2 \in Int
      BY <1>2
    <3>3. \A k \in Int : k >= 0 => n * k \in Int
      OBVIOUS
    <3>4. n * (s + 2) \in Int
      BY <1>2, <3>3
    <3>5. QED
      BY <1>7, <3>1, <3>4
  <2>2. s + 2 \in Nat
    BY <1>2
  <2>3. CASE m <= n
    <3>1. m * (s + 2) <= n * (s + 2)
      BY <1>2, <2>2, <2>3, FewerFit
    <3>2. m * (s + 2) \in Int
      BY <1>2, <2>2
    <3>3. QED
      BY <1>7, <2>1, <3>1, <3>2
  <2>4. CASE m <= 1
    <3>1. m * (s + 2) <= 1 * (s + 2)
      BY <1>2, <2>2, <2>4, FewerFit
    <3>2. 1 * (s + 2) = s + 2 /\ m * (s + 2) \in Int
      BY <1>2, <2>2
    <3>3. QED
      BY <1>7, <1>8, <2>2, <3>1, <3>2
  <2>5. QED
    BY <2>3, <2>4
<1>10. Fits(h)
  <2>1. m * (s + 2) \in Int
    BY <1>2
  <2>2. QED
    BY <1>7, <1>9, <2>1 DEF Fits
<1>11. QED
  BY <1>4, <1>6, <1>10 DEF EvenPages, Even, h
(* The cells with the new one have values, if it has one.                   *)
LEMMA WithCellValues ==
  ASSUME NEW p, NEW i, NEW key, NEW val, NEW rc, Insertable(p, i, key, val, rc),
         HasValues(p.leaf, p.cells), p.leaf \/ ~CopyUpLeaves => val \in Values
  PROVE  LET q == WithCell(p, i, key, val, rc)
         IN  /\ HasValues(p.leaf, q.cells)
             /\ Len(q.cells) = NumCells(p) + 1
<1> DEFINE q == WithCell(p, i, key, val, rc)
           n == NumCells(p)
<1>1. /\ NumCells(q) = n + 1
      /\ \A j \in 1 .. n + 1 :
           q.cells[j].val = IF j < i THEN p.cells[j].val
                            ELSE IF j = i THEN val ELSE p.cells[j - 1].val
  BY WithCellElements
<1>2. n \in Nat /\ i \in 1 .. n + 1
  BY CellsOfPage DEF Insertable
<1> HIDE DEF q
<1>3. Len(q.cells) = n + 1
  BY <1>1 DEF NumCells
<1>4. ASSUME p.leaf \/ ~CopyUpLeaves, NEW j \in 1 .. n + 1
      PROVE  q.cells[j].val \in Values
  <2>1. val \in Values /\ \A l \in 1 .. n : p.cells[l].val \in Values
    BY <1>4 DEF HasValues, NumCells
  <2>2. CASE j < i
    <3>1. j \in 1 .. n
      BY <1>2, <2>2
    <3>2. QED
      BY <1>1, <2>1, <2>2, <3>1
  <2>3. CASE j = i
    BY <1>1, <2>1, <2>3
  <2>4. CASE j > i
    <3>1. j - 1 \in 1 .. n /\ ~(j < i) /\ j # i
      BY <1>2, <2>4
    <3>2. QED
      BY <1>1, <2>1, <3>1
  <2>5. QED
    BY <1>2, <2>2, <2>3, <2>4
<1>5. QED
  BY <1>3, <1>4 DEF HasValues, q

(* Some of the cells with values.                                           *)
LEMMA StretchValues ==
  ASSUME NEW leaf, NEW cells \in Seq(Cell), HasValues(leaf, cells),
         NEW a \in Int, NEW b \in Int, 1 <= a, a <= b + 1, b <= Len(cells)
  PROVE  /\ SubSeq(cells, a, b) \in Seq(Cell)
         /\ HasValues(leaf, SubSeq(cells, a, b))
         /\ Len(SubSeq(cells, a, b)) = b - a + 1
<1> DEFINE s == SubSeq(cells, a, b)
<1>0. Len(cells) \in Nat
  OBVIOUS
<1>1. /\ s \in Seq(Cell) /\ Len(s) = b - a + 1
      /\ \A j \in 1 .. b - a + 1 : s[j] = cells[a + j - 1]
  <2>1. \A j \in a .. b : cells[j] \in Cell
    BY <1>0, ElementOfSeq
  <2>2. QED
    BY <2>1, SubSeqProperties
<1> HIDE DEF s
<1>2. ASSUME NEW j \in 1 .. b - a + 1
      PROVE  a + j - 1 \in 1 .. Len(cells)
  BY <1>0
<1>3. QED
  BY <1>1, <1>2 DEF HasValues, s

(* What doInsert makes of an even page are even pages: the cell finds room  *)
(* for its pointer too, or each half has no more cells than the page had.   *)
LEMMA AdmitsEven ==
  ASSUME NEW L, OneLength(L), NEW S, S \subseteq Nat, NEW p, GoodPage(p),
         p \in EvenPages(L), ChildrenIn(p, S), NEW key \in Int, NEW i,
         Between(p, i, key), NEW val \in Values \cup {Nil}, NEW rc \in Nat,
         p.leaf \/ rc \in S, p.leaf \/ ~CopyUpLeaves => val \in Values
  PROVE  Admits(EvenPages(L), p, i, key, val, rc)
<1> DEFINE q    == WithCell(p, i, key, val, rc)
           size == CellSize(p.leaf, val)
           w    == [q EXCEPT !.content = @ - size]
           s    == CellLen(p.leaf, L)
           n    == NumCells(p)
           K    == PageSize - 13
<1>1. p \in Page /\ Even(p, L) /\ n \in Nat /\ p.leaf \in BOOLEAN /\ IsPage(p)
  BY CellsOfPage DEF EvenPages, GoodPage, IsPage
<1>2. Admits(Page, p, i, key, val, rc)
  BY <1>1, AdmitsPage
<1>3. /\ GoodPage(q) /\ q.leaf = p.leaf /\ q.content = p.content
      /\ NumCells(q) >= 1 /\ ChildrenIn(q, S)
  BY <1>1, WithCellGood, WithCellContent
<1>4. Insertable(p, i, key, val, rc)
  BY DEF Insertable, GoodPage, Between
<1>5. HasValues(p.leaf, q.cells) /\ Len(q.cells) = n + 1
  BY <1>1, <1>4, WithCellValues DEF Even
<1>6. size = s /\ s \in Nat
  BY CellOfOneSize
<1>7. /\ FreeSpace(p) = K - n * (s + 2)
      /\ Divides(s) /\ K \in Nat /\ p.content = PageSize - n * s
      /\ FreeSpace(p) >= 0
  BY <1>1, CellsFit DEF Even, Fits
<1> HIDE DEF q, s, size
<1>8. ASSUME HasRoom(p, size)
      PROVE  w \in EvenPages(L)
  <2>1. w \in Page
    BY <1>2, <1>8 DEF Admits, q, size
  <2>2. w.leaf = p.leaf /\ w.cells = q.cells /\ w.content = p.content - s
    BY <1>3, <1>6, PageWithContent DEF GoodPage
  <2> HIDE DEF w
  <2>3. NumCells(w) = n + 1
    BY <1>5, <2>2 DEF NumCells
  <2>4. w.content = PageSize - (n + 1) * s
    <3>1. (n + 1) * s = n * s + s /\ n * s \in Int
      BY <1>1, <1>6
    <3>2. QED
      BY <1>6, <1>7, <2>2, <3>1, PageSizeAssumption
  <2>5. w.content = PageSize - NumCells(w) * CellLen(w.leaf, L)
    BY <2>2, <2>3, <2>4 DEF s
  <2>6. FreeSpace(w) = K - (n + 1) * (s + 2)
    <3>1. NumCells(w) \in Nat /\ w.leaf \in BOOLEAN
      BY <1>1, <2>2, <2>3
    <3>2. FreeSpace(w) = K - NumCells(w) * (CellLen(w.leaf, L) + 2)
      BY <2>5, <3>1, CellsFit
    <3>3. QED
      BY <2>2, <2>3, <3>2 DEF s
  <2>7. K - n * (s + 2) >= s
    BY <1>6, <1>7, <1>8 DEF HasRoom
  <2>8. K % (s + 2) < s
    BY <1>7 DEF Divides, OffCellPtrs, CellPtrSize
  <2>9. K - (n + 1) * (s + 2) >= 0
    <3> HIDE DEF K, n
    <3>1. QED
      BY <1>1, <1>6, <1>7, <2>7, <2>8, OneMoreFits
  <2>10. Fits(w)
    BY <2>6, <2>9 DEF Fits
  <2>11. HasValues(w.leaf, w.cells)
    BY <1>5, <2>2
  <2>12. QED
    BY <2>1, <2>5, <2>10, <2>11 DEF EvenPages, Even
<1>9. ASSUME ~HasRoom(p, size), NEW x \in Int, NEW y \in Int
      PROVE  LeftHalf(q, x) \in EvenPages(L) /\ RightHalf(q, y) \in EvenPages(L)
  <2> DEFINE mid   == Promoted(q.cells)
             a     == RightStart(q.leaf, mid)
             left  == SubSeq(q.cells, 1, mid - 1)
             right == SubSeq(q.cells, a, Len(q.cells))
  <2>1. LeftHalf(q, x) \in Page /\ RightHalf(q, y) \in Page
    BY <1>2, <1>9 DEF Admits, q, size
  <2>2. q.cells \in Seq(Cell) /\ HasValues(q.leaf, q.cells) /\ q.leaf \in BOOLEAN
    BY <1>1, <1>3, <1>5 DEF GoodPage, IsPage
  <2>3. /\ mid \in Int /\ 1 <= mid /\ mid - 1 <= n /\ a \in {mid, mid + 1}
        /\ mid <= n + 1 /\ (n + 1 - mid + 1 <= n \/ n + 1 - mid + 1 <= 1)
    <3>1. \A k \in Nat : /\ (k + 1) \div 2 + 1 \in Int
                         /\ 1 <= (k + 1) \div 2 + 1
                         /\ (k + 1) \div 2 <= k
                         /\ (k + 1) \div 2 <= k + 1
                         /\ k >= 1 => (k + 1) \div 2 >= 1
      OBVIOUS
    <3>2. mid = (n + 1) \div 2 + 1
      BY <1>5 DEF Promoted
    <3>3. a \in {mid, mid + 1}
      BY DEF RightStart
    <3> HIDE DEF mid, a
    <3>4. QED
      BY <1>1, <3>1, <3>2, <3>3
  <2> HIDE DEF mid, a
  <2>4. /\ left \in Seq(Cell) /\ HasValues(q.leaf, left) /\ Len(left) <= n
    <3>1. mid - 1 \in Int /\ 1 <= (mid - 1) + 1 /\ mid - 1 <= Len(q.cells)
      BY <1>1, <1>5, <2>3
    <3>2. /\ left \in Seq(Cell) /\ HasValues(q.leaf, left)
          /\ Len(left) = (mid - 1) - 1 + 1
      BY <2>2, <3>1, StretchValues
    <3>3. QED
      BY <1>1, <2>3, <3>2
  <2>5. /\ right \in Seq(Cell) /\ HasValues(q.leaf, right)
        /\ Len(right) <= n \/ Len(right) <= 1
    <3>1. /\ a \in Int /\ 1 <= a /\ a <= (n + 1) + 1
      BY <1>1, <2>3
    <3>2. /\ right \in Seq(Cell) /\ HasValues(q.leaf, right)
          /\ Len(right) = Len(q.cells) - a + 1
      BY <1>1, <1>5, <2>2, <3>1, StretchValues
    <3> HIDE DEF right
    <3>3. QED
      BY <1>1, <1>5, <2>3, <3>2
  <2>6. K - n * (CellLen(q.leaf, L) + 2) >= 0
    BY <1>3, <1>7 DEF s
  <2> HIDE DEF left, right
  <2>7. LeftHalf(q, x) \in EvenPages(L)
    <3>1. LeftHalf(q, x) = NewPage(q.leaf, left,
                                   IF q.leaf THEN 0 ELSE q.cells[mid].lc, x)
      BY DEF LeftHalf, left, mid
    <3>2. QED
      BY <1>1, <2>1, <2>2, <2>4, <2>6, <3>1, EvenNewPage
  <2>8. RightHalf(q, y) \in EvenPages(L)
    <3>1. RightHalf(q, y) = NewPage(q.leaf, right,
                                    IF q.leaf THEN 0 ELSE q.rightmost, y)
      BY DEF RightHalf, right, a, mid
    <3>2. QED
      BY <1>1, <2>1, <2>2, <2>5, <2>6, <3>1, EvenNewPage
  <2>9. QED
    BY <2>7, <2>8
<1>10. QED
  BY <1>8, <1>9 DEF Admits, q, size
(* A page without cells has place for them.                                 *)
LEMMA EmptyFits ==
  ASSUME NEW L, OneLength(L), NEW leaf \in BOOLEAN
  PROVE  (PageSize - 13) - 0 * (CellLen(leaf, L) + 2) >= 0
<1> DEFINE s == CellLen(leaf, L)
<1>1. L \in Nat /\ Divides(s)
  BY DEF OneLength
<1>2. s \in Nat
  BY <1>1 DEF CellLen
<1> HIDE DEF s
<1>3. PageSize - 13 \in Int /\ PageSize - 13 >= 0
  BY <1>1, <1>2, PageSizeAssumption DEF Divides, OffCellPtrs, CellPtrSize
<1>4. 0 * (s + 2) = 0
  <2>1. \A t \in Int : 0 * t = 0
    OBVIOUS
  <2>2. s + 2 \in Int
    BY <1>2
  <2>3. QED
    BY <2>1, <2>2
<1>5. (PageSize - 13) - 0 * (s + 2) >= 0
  BY <1>3, <1>4
<1>6. QED
  BY <1>5 DEF s

(* The inductive invariant behind PagesFit.                                 *)
FitInv(L) ==
  /\ IInv
  /\ PagesIn(EvenPages(L))
  /\ pc # "corrupt"
  /\ pc \in {"writeRight", "insertSplit", "newRoot"} =>
       CopyUpLeaves \/ split.val \in Values

(* A new file.                                                              *)
LEMMA InitFits ==
  ASSUME ~WritesMayFail, Init, NEW L, OneLength(L)
  PROVE  FitInv(L)
<1>1. IInv
  BY InitInv
<1>2. EmptyLeaf \in EvenPages(L)
  <2>1. << >> \in Seq(Cell) /\ Len(<< >>) = 0 /\ HasValues(TRUE, << >>)
    BY DEF HasValues
  <2>2. NewPage(TRUE, << >>, 0, InvalidPage) \in Page
    BY BlankIsPage DEF EmptyLeaf
  <2>4. (PageSize - 13) - 0 * (CellLen(TRUE, L) + 2) >= 0
    BY EmptyFits
  <2>5. NewPage(TRUE, << >>, 0, InvalidPage) \in EvenPages(L)
    <3>1. TRUE \in BOOLEAN /\ 0 \in Nat /\ Len(<< >>) <= 1
      BY <2>1
    <3>2. QED
      BY <2>1, <2>2, <2>4, <3>1, EvenNewPage
  <2>6. QED
    BY <2>5 DEF EmptyLeaf
<1>3. NodeIds = {2}
  BY DEF Init, NodeIds
<1>4. PagesIn(EvenPages(L))
  BY <1>2, <1>3 DEF Init, PagesIn
<1>5. QED
  BY <1>1, <1>4 DEF Init, FitInv

(* A value of one length is overwritten where its key is: no cell is        *)
(* dropped.                                                                 *)
LEMMA NothingDropped ==
  ASSUME NEW L, OneLength(L), IInv, pc = "insertRec", TopPage \in EvenPages(L),
         ~Room
  PROVE  Dropped(TopPage, Pos) = TopPage
<1> DEFINE p == TopPage
<1>1. SUFFICES ASSUME KeyAt(p, Pos)
               PROVE  FALSE
  BY DEF Dropped
<1>2. IsPage(p) /\ p.leaf \in BOOLEAN
  BY TopGood DEF GoodPage
<1>3. call.key \in Int /\ call.val \in Values
  BY DEF IInv, CallGood
<1>4. NumCells(p) \in Nat /\ Pos \in 1 .. NumCells(p) + 1
      /\ (Pos <= NumCells(p) => ~GoesRight(p, Pos, call.key, p.leaf))
  BY <1>2, <1>3, FindIdxIsBorder, CellsOfPage DEF Pos
<1>5. Pos <= NumCells(p) /\ p.cells[Pos].key = call.key
  BY <1>1 DEF KeyAt
<1>6. p.leaf \/ ~CopyUpLeaves
  BY <1>4, <1>5 DEF GoesRight
<1>7. Even(p, L) /\ Pos \in 1 .. Len(p.cells)
  BY <1>4, <1>5 DEF EvenPages, NumCells
<1>8. p.cells[Pos].val \in Values
  BY <1>6, <1>7 DEF Even, HasValues
<1>9. Length(p.cells[Pos].val) = L /\ Length(call.val) = L /\ L \in Nat
  BY <1>3, <1>8, ValuesAssumption DEF OneLength, Length
<1>10. QED
  BY <1>1, <1>9 DEF Room

(* The pages an insertion writes are even.                                  *)
LEMMA MakesEven ==
  ASSUME NEW L, OneLength(L), FitInv(L)
  PROVE  Makes(EvenPages(L))
<1> DEFINE E == EvenPages(L)
<1>0. IInv /\ PagesIn(E) /\ NodeIds \subseteq Nat
  BY DEF FitInv, NodeIds, IInv, Shape
<1>1. Makes(Page)
  <2>1. E \subseteq Page
    BY DEF EvenPages
  <2> HIDE DEF E
  <2>2. PagesIn(Page)
    BY <1>0, <2>1 DEF PagesIn
  <2>3. QED
    BY <1>0, <2>2, MakesPages
<1>2. ASSUME pc \in {"insertRec", "insertSplit"}
      PROVE  /\ TopPage \in E /\ Even(TopPage, L) /\ TopPage \in Page
             /\ GoodPage(TopPage)
             /\ ChildrenIn(TopPage, NodeIds) /\ TopPage.leaf \in BOOLEAN
  BY <1>0, <1>2, TopIn, TopGood DEF EvenPages
<1>3. ASSUME pc = "insertRec"
      PROVE  /\ Room => OverwriteValue(TopPage, Pos, call.val) \in E
             /\ ~Room => Dropped(TopPage, Pos) = TopPage
             /\ ~Room => Between(TopPage, Pos, call.key)
             /\ call.key \in Int /\ call.val \in Values
  <2> DEFINE p == TopPage
             t == [p EXCEPT !.cells[Pos].val = call.val]
  <2>1. call.key \in Int /\ call.val \in Values
    BY <1>0, <1>3 DEF IInv, CallGood
  <2>2. ~Room => Dropped(p, Pos) = p
    BY <1>0, <1>2, <1>3, NothingDropped
  <2>3. ~Room => Between(p, Pos, call.key)
    BY <1>0, <1>3, <2>2, DroppedGood
  <2>4. ASSUME Room
        PROVE  OverwriteValue(p, Pos, call.val) \in E
    <3>1. CASE CopyUpLeaves /\ ~p.leaf
      BY <1>2, <1>3, <3>1 DEF OverwriteValue
    <3>2. CASE ~(CopyUpLeaves /\ ~p.leaf)
      <4>1. OverwriteValue(p, Pos, call.val) = t
        BY <3>2 DEF OverwriteValue
      <4>2. t \in Page
        BY <1>1, <1>3, <2>4, <4>1 DEF Makes
      <4>3. /\ IsPage(p) /\ Even(p, L) /\ Pos <= NumCells(p)
            /\ p.leaf \in BOOLEAN /\ NumCells(p) \in Nat
        BY <1>2, <1>3, <2>4, CellsOfPage DEF GoodPage, Room, KeyAt
      <4>4. Pos \in 1 .. NumCells(p)
        <5>1. Pos \in 1 .. NumCells(p) + 1
          BY <2>1, <4>3, FindIdxIsBorder DEF Pos
        <5> HIDE DEF p
        <5>2. QED
          BY <4>3, <5>1
      <4>5. /\ t.leaf = p.leaf /\ NumCells(t) = NumCells(p)
            /\ \A j \in 1 .. NumCells(p) :
                 t.cells[j].val = IF j = Pos THEN call.val ELSE p.cells[j].val
        BY <2>1, <4>3, <4>4, ValueKeepsPage
      <4>6. t.content = p.content
        BY <4>3, PageWithValue
      <4> HIDE DEF t, p
      <4>7. HasValues(t.leaf, t.cells)
        BY <2>1, <4>3, <4>5 DEF Even, HasValues, NumCells
      <4>8. Even(t, L)
        BY <4>3, <4>5, <4>6, <4>7 DEF Even, Fits, FreeSpace
      <4>9. QED
        BY <4>1, <4>2, <4>8 DEF EvenPages
    <3>3. QED
      BY <3>1, <3>2
  <2>5. QED
    BY <2>1, <2>2, <2>3, <2>4
<1>4. ASSUME pc = "insertRec", ~Room, TopPage.leaf
      PROVE  Admits(E, TopPage, Pos, call.key, call.val, 0)
  <2> HIDE DEF E
  <2>1. 0 \in Nat /\ call.val \in Values \cup {Nil}
    BY <1>3, <1>4
  <2>2. TopPage \in EvenPages(L)
    BY <1>2, <1>4 DEF E
  <2>3. Admits(EvenPages(L), TopPage, Pos, call.key, call.val, 0)
    BY <1>0, <1>2, <1>3, <1>4, <2>1, <2>2, AdmitsEven
  <2>4. QED
    BY <2>3 DEF E
<1>5. ASSUME pc = "insertSplit"
      PROVE  Admits(E, TopPage, FindIdx(TopPage, split.key, FALSE),
                    split.key, split.val, split.right)
  <2> DEFINE i == FindIdx(TopPage, split.key, FALSE)
  <2>1. /\ split.key \in Int /\ split.val \in Values \cup {Nil}
        /\ split.right \in NodeIds /\ split.right \in Nat
    BY <1>0, <1>5 DEF IInv, SplitGood
  <2>2. TopPage.leaf = FALSE
    BY <1>0, <1>5, TopGood
  <2>3. Between(TopPage, i, split.key)
    BY <1>2, <1>5, <2>1, <2>2, FoundPositionFits DEF GoodPage
  <2>4. TopPage.leaf \/ ~CopyUpLeaves => split.val \in Values
    BY <1>5, <2>2 DEF FitInv
  <2>5. TopPage \in EvenPages(L)
    BY <1>2, <1>5
  <2> HIDE DEF i, E
  <2>6. Admits(EvenPages(L), TopPage, i, split.key, split.val, split.right)
    BY <1>0, <1>2, <1>5, <2>1, <2>3, <2>4, <2>5, AdmitsEven
  <2>7. QED
    BY <2>6 DEF i, E
<1>6. ASSUME pc = "newRoot"
      PROVE  NewPage(FALSE, <<RootCell>>, split.right, InvalidPage) \in E
  <2> DEFINE c == RootCell
  <2>1. /\ split.key \in Int /\ split.val \in Values \cup {Nil} /\ root \in Nat
        /\ CopyUpLeaves \/ split.val \in Values
    BY <1>0, <1>6 DEF IInv, SplitGood, Shape, FitInv
  <2>2. c \in Cell /\ (CopyUpLeaves \/ c.val \in Values)
    BY <2>1 DEF RootCell, Cell
  <2> HIDE DEF c
  <2>3. <<c>> \in Seq(Cell) /\ Len(<<c>>) = 1 /\ <<c>>[1] = c
    BY <2>2
  <2>4. HasValues(FALSE, <<c>>)
    BY <2>2, <2>3 DEF HasValues
  <2>5. NewPage(FALSE, <<c>>, split.right, InvalidPage) \in Page
    BY <1>1, <1>6 DEF Makes, c
  <2>6. (PageSize - 13) - 0 * (CellLen(FALSE, L) + 2) >= 0
    BY EmptyFits
  <2>7. FALSE \in BOOLEAN /\ 0 \in Nat /\ Len(<<c>>) <= 1
    BY <2>3
  <2>8. NewPage(FALSE, <<c>>, split.right, InvalidPage) \in EvenPages(L)
    BY <2>3, <2>4, <2>5, <2>6, <2>7, EvenNewPage
  <2>9. QED
    BY <2>8 DEF c
<1>7. QED
  BY <1>2, <1>3, <1>4, <1>5, <1>6 DEF Makes

(* doInsert stops nowhere, and what a split hands on has a value.           *)
LEMMA DoInsertFits ==
  ASSUME NEW L, OneLength(L), IInv, pc \in {"insertRec", "insertSplit"},
         NEW id, NEW p, GoodPage(p), p \in EvenPages(L),
         ChildrenIn(p, NodeIds), NEW key \in Int, NEW i, Between(p, i, key),
         NEW val \in Values \cup {Nil}, NEW rc \in Nat, p.leaf \/ rc \in NodeIds,
         p.leaf \/ ~CopyUpLeaves => val \in Values,
         Admits(EvenPages(L), p, i, key, val, rc),
         DoInsert(id, p, i, key, val, rc)
  PROVE  /\ pc' # "corrupt"
         /\ pc' \in {"writeRight", "insertSplit", "newRoot"} =>
              CopyUpLeaves \/ split'.val \in Values
<1> DEFINE size == CellSize(p.leaf, val)
           q    == WithCell(p, i, key, val, rc)
           w    == [q EXCEPT !.content = @ - size]
           mid  == Promoted(q.cells)
           next == LinkLeaves(p.leaf, pageCount, p.next)
<1>1. CASE HasRoom(p, size) /\ WriteAndReturn(id, w)
  <2>1. w \in EvenPages(L)
    BY <1>1 DEF Admits
  <2> HIDE DEF w
  <2>2. Fits(w)
    BY <2>1 DEF EvenPages, Even
  <2>3. QED
    BY <1>1, <2>2 DEF WriteAndReturn
<1>2. CASE ~HasRoom(p, size) /\ SplitNode(id, p, i, key, val, rc)
  <2>1. pageCount \in Nat /\ NodeIds \subseteq Nat
    BY DEF IInv, Shape, NodeIds
  <2>2. next.left \in Int /\ next.right \in Int
    BY <2>1 DEF LinkLeaves, InvalidPage, GoodPage, IsPage
  <2>3. GoodPage(q) /\ q.leaf = p.leaf /\ NumCells(q) >= 1 /\ ChildrenIn(q, NodeIds)
    BY WithCellGood
  <2>4. mid \in 1 .. NumCells(q)
    <3> HIDE DEF q
    <3>1. QED
      BY <2>1, <2>2, <2>3, HalvesGood
  <2>5. LeftHalf(q, next.left) \in EvenPages(L) /\ RightHalf(q, next.right) \in EvenPages(L)
    BY <1>2, <2>2 DEF Admits
  <2>6. Fits(LeftHalf(q, next.left)) /\ Fits(RightHalf(q, next.right))
    BY <2>5 DEF EvenPages, Even
  <2>7. /\ split'.val = IF p.leaf /\ CopyUpLeaves THEN Nil ELSE q.cells[mid].val
        /\ pc' = IF Fits(LeftHalf(q, next.left)) /\ Fits(RightHalf(q, next.right))
                 THEN "writeRight" ELSE "corrupt"
    BY <1>2, <2>3 DEF SplitNode, LeftHalf, RightHalf, LeftCells
  <2>8. HasValues(p.leaf, q.cells)
    <3>1. Insertable(p, i, key, val, rc)
      BY DEF Insertable, GoodPage, Between
    <3>2. HasValues(p.leaf, p.cells)
      BY DEF EvenPages, Even
    <3>3. QED
      BY <3>1, <3>2, WithCellValues
  <2> HIDE DEF q, next, mid
  <2>9. CopyUpLeaves \/ q.cells[mid].val \in Values
    BY <2>4, <2>8 DEF HasValues, NumCells
  <2>10. QED
    BY <2>6, <2>7, <2>9
<1>3. QED
  BY <1>1, <1>2 DEF DoInsert

(* The engine keeps the inductive invariant.                                *)
LEMMA EngineFits ==
  ASSUME NEW L, OneLength(L), FitInv(L), Engine
  PROVE  FitInv(L)'
<1> DEFINE Goal == /\ pc' # "corrupt"
                   /\ pc' \in {"writeRight", "insertSplit", "newRoot"} =>
                        CopyUpLeaves \/ split'.val \in Values
<1>0. IInv /\ PagesIn(EvenPages(L)) /\ Makes(EvenPages(L)) /\ NodeIds \subseteq Nat
  BY MakesEven DEF FitInv, NodeIds, IInv, Shape
<1>1. IInv' /\ PagesIn(EvenPages(L))'
  BY <1>0, EngineKeeps, EngineIn
<1>2. ASSUME InsertOverwrite
      PROVE  Goal
  <2>1. /\ pc = "insertRec" /\ Room
        /\ pc' = IF Fits(OverwriteValue(TopPage, Pos, call.val)) THEN "return"
                 ELSE "corrupt"
    BY <1>2 DEF InsertOverwrite, WriteAndReturn
  <2>2. Fits(OverwriteValue(TopPage, Pos, call.val))
    BY <1>0, <2>1 DEF Makes, EvenPages, Even
  <2>3. QED
    BY <2>1, <2>2
<1>3. ASSUME InsertInLeaf
      PROVE  Goal
  <2> DEFINE d == Dropped(TopPage, Pos)
  <2>1. /\ pc = "insertRec" /\ TopPage.leaf /\ ~Room
        /\ DoInsert(Last(path), d, Pos, call.key, call.val, 0)
    BY <1>3 DEF InsertInLeaf
  <2>2. Admits(EvenPages(L), d, Pos, call.key, call.val, 0) /\ TopPage \in EvenPages(L)
    BY <1>0, <2>1, TopIn DEF Makes
  <2>3. /\ GoodPage(d) /\ Between(d, Pos, call.key) /\ ChildrenIn(d, NodeIds)
        /\ d.leaf = TopPage.leaf
    BY <1>0, <2>1, DroppedGood
  <2>4. d = TopPage
    BY <1>0, <2>1, <2>2, NothingDropped
  <2>5. call.key \in Int /\ call.val \in Values /\ 0 \in Nat
    BY <1>0, <2>1 DEF IInv, CallGood
  <2> HIDE DEF d
  <2>6. d \in EvenPages(L) /\ d.leaf /\ call.val \in Values \cup {Nil}
    BY <2>1, <2>2, <2>3, <2>4, <2>5
  <2>7. QED
    BY <1>0, <2>1, <2>2, <2>3, <2>5, <2>6, DoInsertFits
<1>4. ASSUME InsertSplit
      PROVE  Goal
  <2> DEFINE i == FindIdx(TopPage, split.key, FALSE)
  <2>1. /\ pc = "insertSplit"
        /\ DoInsert(Last(path), TopPage, i, split.key, split.val, split.right)
    BY <1>4 DEF InsertSplit
  <2>2. /\ Admits(EvenPages(L), TopPage, i, split.key, split.val, split.right)
        /\ GoodPage(TopPage) /\ TopPage.leaf = FALSE
        /\ ChildrenIn(TopPage, NodeIds) /\ TopPage \in EvenPages(L)
    BY <1>0, <2>1, TopGood, TopIn DEF Makes
  <2>3. /\ split.key \in Int /\ split.val \in Values \cup {Nil}
        /\ split.right \in Nat /\ split.right \in NodeIds
    BY <1>0, <2>1 DEF IInv, SplitGood
  <2>4. Between(TopPage, i, split.key)
    BY <2>2, <2>3, FoundPositionFits DEF GoodPage
  <2>5. TopPage.leaf \/ ~CopyUpLeaves => split.val \in Values
    BY <2>1, <2>2 DEF FitInv
  <2> HIDE DEF i
  <2>6. QED
    BY <1>0, <2>1, <2>2, <2>3, <2>4, <2>5, DoInsertFits
<1>5. ASSUME NewRoot
      PROVE  Goal
  <2> DEFINE p == NewPage(FALSE, <<RootCell>>, split.right, InvalidPage)
  <2>1. pc = "newRoot" /\ pc' = IF Fits(p) THEN "writeHeader" ELSE "corrupt"
    BY <1>5 DEF NewRoot
  <2>2. p \in EvenPages(L)
    BY <1>0, <2>1 DEF Makes
  <2> HIDE DEF p
  <2>3. Fits(p)
    BY <2>2 DEF EvenPages, Even
  <2>4. QED
    BY <2>1, <2>3
<1>6. ASSUME WriteRight
      PROVE  Goal
  <2>1. pc = "writeRight" /\ pc' \in {"newRoot", "insertSplit"} /\ split' = split
    BY <1>6 DEF WriteRight
  <2>2. QED
    BY <2>1 DEF FitInv
<1>7. ASSUME InsertDescend \/ WriteHeader \/ ReturnInsert
      PROVE  Goal
  <2>1. pc' \in {"insertRec", "return", "idle"}
    BY <1>7 DEF InsertDescend, WriteHeader, ReturnInsert
  <2>2. QED
    BY <2>1
<1>8. ASSUME \/ \E k \in Keys, v \in Values : Insert(k, v)
             \/ \E k \in DeleteKeys : Delete(k)
             \/ \E id \in DOMAIN cached : Evict(id)
      PROVE  Goal
  <2>1. pc' = "insertRec" \/ (pc' = pc /\ split' = split)
    BY <1>8 DEF Insert, Delete, Evict
  <2>2. QED
    BY <2>1 DEF FitInv
<1>9. Goal
  BY <1>2, <1>3, <1>4, <1>5, <1>6, <1>7, <1>8 DEF Engine, InsertStep
<1>10. QED
  BY <1>1, <1>9 DEF FitInv

(* So does any step that changes no page and runs no insertion.             *)
LEMMA RestFits ==
  ASSUME NEW L, FitInv(L), IInv', UNCHANGED <<file, cached, pageCount>>,
         \/ UNCHANGED <<pc, split>>
         \/ /\ pc # "writeRight"
            /\ pc' \notin {"writeRight", "insertSplit", "newRoot", "corrupt"}
  PROVE  FitInv(L)'
<1>1. PagesIn(EvenPages(L))'
  BY RestIn DEF FitInv, PagesIn
<1>2. QED
  BY <1>1 DEF FitInv

LEMMA FitsByInv == \A L : FitInv(L) => PagesFit
BY DEF FitInv, PagesFit

(* Nor does a session's end or beginning change a page, but for a new file. *)
SessionFit(L) == SessionInv /\ (~mishap => FitInv(L))

LEMMA FreshFits ==
  ASSUME ~WritesMayFail, NEW L, OneLength(L), Fresh
  PROVE  SessionFit(L)
BY FreshSession, InitFits DEF Fresh, SessionFit

LEMMA SessionStaysFit ==
  ASSUME NEW L, SessionFit(L), SessionStep, ~mishap'
  PROVE  FitInv(L)' \/ Fresh'
<1>1. CASE Close
  <2>1. ~mishap /\ IInv /\ FitInv(L)
    BY <1>1 DEF Close, SessionFit, SessionInv
  <2>2. /\ pc = "idle" /\ pc' = "idle" /\ DOMAIN cached' = {}
        /\ pageCount' = pageCount /\ file' = file
    BY <1>1 DEF Close, Gone
  <2>3. PagesIn(EvenPages(L))'
    BY <2>1, <2>2, RestIn DEF FitInv
  <2>4. QED
    BY <1>1, <2>1, <2>2, <2>3, CloseKeeps DEF FitInv
<1>2. CASE CloseFails \/ Crash
  BY <1>2 DEF CloseFails, Crash, Interrupted
<1>3. CASE OpenNew \/ StartOver
  BY <1>3, NewFileIsFresh DEF SessionFit, SessionInv
<1>4. CASE Reopen
  <2>1. /\ ~up /\ pageCount' = saved /\ root' = header /\ ~mishap
        /\ UNCHANGED <<file, cached, header, pc, path, split, call, contents>>
    BY <1>4 DEF Reopen
  <2>2. header = root /\ saved = pageCount
    BY <2>1 DEF SessionFit, SessionInv, CountInv
  <2>3. UNCHANGED vars
    BY <2>1, <2>2 DEF vars
  <2>4. FitInv(L) /\ IInv
    BY <2>1 DEF SessionFit, FitInv
  <2>5. IInv'
    BY <2>3, <2>4, StutterKeeps
  <2>6. UNCHANGED <<file, cached, pageCount>> /\ UNCHANGED <<pc, split>>
    BY <2>1, <2>2
  <2>7. QED
    BY <2>4, <2>5, <2>6, RestFits
<1>5. QED
  BY <1>1, <1>2, <1>3, <1>4 DEF SessionStep
=============================================================================
