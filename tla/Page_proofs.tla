---------------------------- MODULE Page_proofs ----------------------------
(***************************************************************************)
(* Two theorems about a page.  Its bytes say what module BTPage says of    *)
(* it, as long as the cells and their pointers fit on it; and the loop of  *)
(* FindIdx returns the position the tree modules use, on every page whose  *)
(* keys are in order, however many cells it holds.                         *)
(***************************************************************************)
EXTENDS PageLayout, BinarySearch, SequenceLemmas

IsImage(m) == DOMAIN m = 0 .. PageSize - 1

(* All bytes of a field are in place.                                       *)
Has(m, off, field, value, width) ==
  \A j \in 0 .. width - 1 : m[off + j] = <<field, value, j>>

(* n differs from m at most at the offsets a .. b - 1.                      *)
Elsewhere(m, n, a, b) ==
  \A x \in 0 .. PageSize - 1 : x < a \/ b <= x => n[x] = m[x]

Size(leaf, c) == CellSize(leaf, c.val)

CellIn(m, off, leaf, c) ==
  /\ HasChild(leaf) => Has(m, off, "lc", c.lc, 4)
  /\ Has(m, KeyOff(off, leaf), "key", c.key, 8)
  /\ HasValue(leaf) => /\ Has(m, ValOff(off, leaf), "len", Length(c.val), 2)
                       /\ Has(m, ValOff(off, leaf) + 2, "val", c.val,
                              Length(c.val))

(* What a cell may hold.                                                    *)
CellShape(leaf, c) ==
  /\ c \in Cell
  /\ c.val \in ValuesOf(leaf)
  /\ ~HasChild(leaf) => c.lc = 0

PageShape(p) ==
  /\ p \in Page
  /\ \A i \in 1 .. Len(p.cells) : CellShape(p.leaf, p.cells[i])

(* The header of the page, with n as the number of cells.                   *)
Header(m, p, n) ==
  /\ Has(m, 0, "leaf", p.leaf, 1)
  /\ Has(m, 1, "numCells", n, 2)
  /\ Has(m, 3, "content", p.content, 2)
  /\ Has(m, 5, "rightmost", p.rightmost, 4)
  /\ Has(m, 9, "next", p.next, 4)

(* Cell i of the page lies at at[i], in the cell area.                      *)
InArea(p, at) ==
  \A i \in 1 .. Len(p.cells) : /\ at[i] \in Nat
                               /\ p.content <= at[i]
                               /\ at[i] + Size(p.leaf, p.cells[i]) <= PageSize

Apart(p, at) ==
  \A i, j \in 1 .. Len(p.cells) :
    i # j => \/ at[i] + Size(p.leaf, p.cells[i]) <= at[j]
             \/ at[j] + Size(p.leaf, p.cells[j]) <= at[i]

Slots(m, p, at) ==
  \A i \in 1 .. Len(p.cells) : Has(m, Slot(i - 1), "ptr", at[i], 2)

CellsIn(m, p, at) ==
  \A i \in 1 .. Len(p.cells) : CellIn(m, at[i], p.leaf, p.cells[i])

Placed(m, p, at) ==
  InArea(p, at) /\ Apart(p, at) /\ Slots(m, p, at) /\ CellsIn(m, p, at)

(* The page, byte by byte, while the number of cells still is n.            *)
LaidWith(m, p, n) ==
  /\ IsImage(m) /\ PageShape(p) /\ Fits(p) /\ p.content <= PageSize
  /\ Header(m, p, n)
  /\ \E at : Placed(m, p, at)

(* The strengthening of ReadsBack that the calls of the engine keep.        *)
Laid(m, p) == LaidWith(m, p, Len(p.cells))
-----------------------------------------------------------------------------
(* A field that is written is there, and nothing else changes.              *)
LEMMA PutEffect ==
  ASSUME NEW m, IsImage(m), NEW off \in Nat, NEW width \in Nat,
         off + width <= PageSize, NEW field, NEW value,
         NEW n, n = Put(m, off, field, value, width)
  PROVE  /\ IsImage(n)
         /\ Has(n, off, field, value, width)
         /\ Elsewhere(m, n, off, off + width)
<1>0. PageSize \in Nat
  BY PageSizeAssumption
<1>1. IsImage(n)
  BY DEF IsImage, Put
<1>2. Has(n, off, field, value, width)
  <2>1. SUFFICES ASSUME NEW j \in 0 .. width - 1
                 PROVE  n[off + j] = <<field, value, j>>
    BY DEF Has
  <2>2. /\ off + j \in 0 .. PageSize - 1 /\ off + j \in off .. off + width - 1
        /\ (off + j) - off = j
    BY <1>0
  <2>3. QED
    BY <2>2 DEF IsImage, Put
<1>3. Elsewhere(m, n, off, off + width)
  <2>1. SUFFICES ASSUME NEW x \in 0 .. PageSize - 1, x < off \/ off + width <= x
                 PROVE  n[x] = m[x]
    BY DEF Elsewhere
  <2>2. x \notin off .. off + width - 1
    BY <2>1
  <2>3. QED
    BY <2>2 DEF IsImage, Put
<1>4. QED
  BY <1>1, <1>2, <1>3

(* A field that has all its bytes reads back.                               *)
LEMMA GetHas ==
  ASSUME NEW m, IsImage(m), NEW off \in Nat, NEW width \in Nat \ {0},
         off + width <= PageSize, NEW field, NEW value,
         Has(m, off, field, value, width)
  PROVE  Get(m, off, field, width) = value
<1>0. PageSize \in Nat
  BY PageSizeAssumption
<1>1. off .. off + width - 1 \subseteq DOMAIN m
  BY <1>0 DEF IsImage
<1>2. m[off] = <<field, value, 0>>
  <2>1. 0 \in 0 .. width - 1 /\ off + 0 = off
    OBVIOUS
  <2>2. QED
    BY <2>1 DEF Has
<1>3. m[off][2] = value
  BY <1>2
<1>4. \A j \in 0 .. width - 1 : m[off + j] = <<field, m[off][2], j>>
  BY <1>3 DEF Has
<1>5. QED
  BY <1>1, <1>3, <1>4 DEF Get

(* A field elsewhere stays.                                                 *)
LEMMA HasStays ==
  ASSUME NEW m, NEW n, NEW off \in Nat, NEW width \in Nat,
         off + width <= PageSize, NEW field, NEW value,
         Has(m, off, field, value, width),
         NEW a \in Int, NEW b \in Int, Elsewhere(m, n, a, b),
         off + width <= a \/ b <= off
  PROVE  Has(n, off, field, value, width)
<1>0. PageSize \in Nat
  BY PageSizeAssumption
<1>1. SUFFICES ASSUME NEW j \in 0 .. width - 1
               PROVE  n[off + j] = <<field, value, j>>
  BY DEF Has
<1>2. off + j \in 0 .. PageSize - 1 /\ (off + j < a \/ b <= off + j)
  BY <1>0
<1>3. QED
  BY <1>2 DEF Has, Elsewhere

(* The fields of a cell and their offsets.                                  *)
LEMMA CellFields ==
  ASSUME NEW leaf \in BOOLEAN, NEW c, CellShape(leaf, c), NEW off \in Nat
  PROVE  /\ KeyOff(off, leaf) = IF HasChild(leaf) THEN off + 4 ELSE off
         /\ ValOff(off, leaf) = KeyOff(off, leaf) + 8
         /\ KeyOff(off, leaf) \in Nat /\ ValOff(off, leaf) \in Nat
         /\ Length(c.val) \in Nat
         /\ HasValue(leaf) => Length(c.val) > 0 /\ c.val \in Values
         /\ off + Size(leaf, c) =
              IF HasValue(leaf) THEN ValOff(off, leaf) + 2 + Length(c.val)
              ELSE ValOff(off, leaf)
         /\ Size(leaf, c) \in Nat
<1>1. HasValue(leaf) => c.val \in Values
  BY DEF CellShape, ValuesOf
<1>2. HasValue(leaf) => Length(c.val) = ValLen[c.val] /\ Length(c.val) \in Nat \ {0}
  BY <1>1, ValuesAssumption, LayoutAssumption DEF Length
<1>3. ~HasValue(leaf) => c.val = Nil /\ Length(c.val) = 0
  BY DEF CellShape, ValuesOf, Length
<1>4. /\ KeyOff(off, leaf) = IF HasChild(leaf) THEN off + 4 ELSE off
      /\ ValOff(off, leaf) = KeyOff(off, leaf) + 8
  BY DEF KeyOff, ValOff
<1>5. Size(leaf, c) = (IF HasChild(leaf) THEN 4 ELSE 0) + 8
                      + (IF HasValue(leaf) THEN 2 + Length(c.val) ELSE 0)
  <2>1. CASE ~CopyUpLeaves
    <3>1. HasChild(leaf) /\ HasValue(leaf)
      BY <2>1 DEF HasChild, HasValue
    <3>2. QED
      BY <1>2, <2>1, <3>1 DEF Size, CellSize, BTreeCellSize
  <2>2. CASE CopyUpLeaves /\ leaf
    <3>1. ~HasChild(leaf) /\ HasValue(leaf)
      BY <2>2 DEF HasChild, HasValue
    <3>2. QED
      BY <1>2, <2>2, <3>1 DEF Size, CellSize, BPTreeCellSize
  <2>3. CASE CopyUpLeaves /\ ~leaf
    <3>1. HasChild(leaf) /\ ~HasValue(leaf)
      BY <2>3 DEF HasChild, HasValue
    <3>2. QED
      BY <2>3, <3>1 DEF Size, CellSize, BPTreeCellSize
  <2>4. QED
    BY <2>1, <2>2, <2>3
<1>6. QED
  BY <1>1, <1>2, <1>3, <1>4, <1>5

(* A cell elsewhere stays.                                                  *)
LEMMA CellStays ==
  ASSUME NEW m, NEW n, NEW leaf \in BOOLEAN, NEW c, CellShape(leaf, c),
         NEW off \in Nat, CellIn(m, off, leaf, c),
         off + Size(leaf, c) <= PageSize,
         NEW a \in Int, NEW b \in Int, Elsewhere(m, n, a, b),
         off + Size(leaf, c) <= a \/ b <= off
  PROVE  CellIn(n, off, leaf, c)
<1> DEFINE k == KeyOff(off, leaf)
           v == ValOff(off, leaf)
           l == Length(c.val)
<1>0. PageSize \in Nat
  BY PageSizeAssumption
<1>1. /\ k = IF HasChild(leaf) THEN off + 4 ELSE off
      /\ v = k + 8 /\ k \in Nat /\ v \in Nat /\ l \in Nat
      /\ off + Size(leaf, c) = IF HasValue(leaf) THEN v + 2 + l ELSE v
      /\ Size(leaf, c) \in Nat
  BY CellFields
<1> HIDE DEF k, v, l
<1>2. HasChild(leaf) => Has(n, off, "lc", c.lc, 4)
  <2>1. SUFFICES ASSUME HasChild(leaf) PROVE Has(n, off, "lc", c.lc, 4)
    OBVIOUS
  <2>2. Has(m, off, "lc", c.lc, 4)
    BY <2>1 DEF CellIn
  <2>3. off + 4 <= PageSize /\ (off + 4 <= a \/ b <= off)
    BY <1>0, <1>1, <2>1
  <2>4. QED
    BY <2>2, <2>3, HasStays
<1>3. Has(n, k, "key", c.key, 8)
  <2>1. Has(m, k, "key", c.key, 8)
    BY DEF CellIn, k
  <2>2. k + 8 <= PageSize /\ (k + 8 <= a \/ b <= k)
    BY <1>0, <1>1
  <2>3. QED
    BY <1>1, <2>1, <2>2, HasStays
<1>4. ASSUME HasValue(leaf)
      PROVE  Has(n, v, "len", l, 2) /\ Has(n, v + 2, "val", c.val, l)
  <2>1. Has(m, v, "len", l, 2) /\ Has(m, v + 2, "val", c.val, l)
    BY <1>4 DEF CellIn, v, l
  <2>2. /\ v + 2 <= PageSize /\ (v + 2 <= a \/ b <= v)
        /\ v + 2 \in Nat /\ (v + 2) + l <= PageSize
        /\ ((v + 2) + l <= a \/ b <= v + 2)
    BY <1>0, <1>1, <1>4
  <2>3. QED
    BY <1>1, <2>1, <2>2, HasStays
<1>5. QED
  BY <1>2, <1>3, <1>4 DEF CellIn, k, v, l

(* Two changes, one after the other.                                        *)
LEMMA ElsewhereTwice ==
  ASSUME NEW m, NEW n, NEW o, NEW a \in Int, NEW b \in Int,
         NEW c \in Int, NEW d \in Int, NEW from \in Int, NEW upto \in Int,
         Elsewhere(m, n, a, b), Elsewhere(n, o, c, d),
         from <= a, from <= c, b <= upto, d <= upto
  PROVE  Elsewhere(m, o, from, upto)
<1>0. PageSize \in Nat
  BY PageSizeAssumption
<1>1. SUFFICES ASSUME NEW x \in 0 .. PageSize - 1, x < from \/ upto <= x
               PROVE  o[x] = m[x]
  BY DEF Elsewhere
<1>2. (x < a \/ b <= x) /\ (x < c \/ d <= x)
  BY <1>0, <1>1
<1>3. QED
  BY <1>2 DEF Elsewhere

(* A value and its length, written over the old ones.                       *)
LEMMA PutValueEffect ==
  ASSUME NEW m, IsImage(m), NEW v \in Nat, NEW val, Length(val) \in Nat,
         v + 2 + Length(val) <= PageSize, NEW n, n = PutValue(m, v, val)
  PROVE  /\ IsImage(n)
         /\ Has(n, v, "len", Length(val), 2)
         /\ Has(n, v + 2, "val", val, Length(val))
         /\ Elsewhere(m, n, v, v + 2 + Length(val))
<1> DEFINE l == Length(val)
           o == Put(m, v, "len", l, 2)
<1>0. PageSize \in Nat
  BY PageSizeAssumption
<1>1. /\ v + 2 <= PageSize /\ v + 2 \in Nat /\ (v + 2) + l <= PageSize
      /\ v + 2 <= (v + 2) + l /\ v <= v + 2
  BY <1>0
<1>2. n = Put(o, v + 2, "val", val, l)
  BY DEF PutValue
<1>3. IsImage(o) /\ Has(o, v, "len", l, 2) /\ Elsewhere(m, o, v, v + 2)
  BY <1>1, PutEffect
<1> HIDE DEF o
<1>4. IsImage(n) /\ Has(n, v + 2, "val", val, l)
      /\ Elsewhere(o, n, v + 2, (v + 2) + l)
  BY <1>1, <1>2, <1>3, PutEffect
<1>5. Has(n, v, "len", l, 2)
  BY <1>1, <1>3, <1>4, HasStays
<1>6. Elsewhere(m, n, v, (v + 2) + l)
  BY <1>1, <1>3, <1>4, ElsewhereTwice
<1>7. QED
  BY <1>4, <1>5, <1>6

(* A cell that is written is there, and nothing else changes.               *)
LEMMA WriteCellEffect ==
  ASSUME NEW m, IsImage(m), NEW leaf \in BOOLEAN, NEW c, CellShape(leaf, c),
         NEW off \in Nat, off + Size(leaf, c) <= PageSize,
         NEW n, n = WriteCell(m, off, leaf, c)
  PROVE  /\ IsImage(n)
         /\ CellIn(n, off, leaf, c)
         /\ Elsewhere(m, n, off, off + Size(leaf, c))
<1> DEFINE k == KeyOff(off, leaf)
           v == ValOff(off, leaf)
           l == Length(c.val)
           e == off + Size(leaf, c)
           m1 == IF HasChild(leaf) THEN Put(m, off, "lc", c.lc, 4) ELSE m
           m2 == Put(m1, k, "key", c.key, 8)
<1>0. PageSize \in Nat
  BY PageSizeAssumption
<1>1. /\ k = IF HasChild(leaf) THEN off + 4 ELSE off
      /\ v = k + 8 /\ k \in Nat /\ v \in Nat /\ l \in Nat
      /\ e = IF HasValue(leaf) THEN v + 2 + l ELSE v
      /\ e \in Nat /\ e <= PageSize
  BY CellFields
<1>2. n = IF HasValue(leaf) THEN PutValue(m2, v, c.val) ELSE m2
  BY DEF WriteCell
<1>3. /\ IsImage(m1) /\ Elsewhere(m, m1, off, k)
      /\ HasChild(leaf) => Has(m1, off, "lc", c.lc, 4)
  <2>1. CASE HasChild(leaf)
    <3>1. off + 4 <= PageSize /\ k = off + 4
      BY <1>0, <1>1, <2>1
    <3>2. m1 = Put(m, off, "lc", c.lc, 4)
      BY <2>1
    <3> HIDE DEF m1
    <3>3. IsImage(m1) /\ Has(m1, off, "lc", c.lc, 4)
          /\ Elsewhere(m, m1, off, off + 4)
      BY <3>1, <3>2, PutEffect
    <3>4. QED
      BY <3>1, <3>3
  <2>2. CASE ~HasChild(leaf)
    <3>1. m1 = m
      BY <2>2
    <3>2. QED
      BY <2>2, <3>1 DEF Elsewhere
  <2>3. QED
    BY <2>1, <2>2
<1>4. k + 8 <= PageSize /\ off <= k /\ v <= e
  BY <1>0, <1>1
<1> HIDE DEF m1
<1>5. IsImage(m2) /\ Has(m2, k, "key", c.key, 8) /\ Elsewhere(m1, m2, k, k + 8)
  BY <1>1, <1>3, <1>4, PutEffect
<1> HIDE DEF m2, k, v, l, e
<1>6. /\ IsImage(n) /\ Elsewhere(m2, n, v, e)
      /\ HasValue(leaf) => /\ Has(n, v, "len", l, 2)
                           /\ Has(n, v + 2, "val", c.val, l)
  <2>1. CASE HasValue(leaf)
    <3>1. n = PutValue(m2, v, c.val) /\ v + 2 + l <= PageSize /\ e = v + 2 + l
      BY <1>1, <1>2, <2>1
    <3>2. QED
      BY <1>1, <1>5, <3>1, PutValueEffect DEF l
  <2>2. CASE ~HasValue(leaf)
    <3>1. n = m2
      BY <1>2, <2>2
    <3>2. QED
      BY <1>5, <2>2, <3>1 DEF Elsewhere
  <2>3. QED
    BY <2>1, <2>2
<1>7. Has(n, k, "key", c.key, 8)
  <2>1. k + 8 <= v
    BY <1>1
  <2>2. QED
    BY <1>1, <1>4, <1>5, <1>6, <2>1, HasStays
<1>8. HasChild(leaf) => Has(n, off, "lc", c.lc, 4)
  <2>1. SUFFICES ASSUME HasChild(leaf) PROVE Has(n, off, "lc", c.lc, 4)
    OBVIOUS
  <2>2. off + 4 <= k /\ off + 4 <= v /\ off + 4 <= PageSize /\ k + 8 \in Int
    BY <1>0, <1>1, <1>4, <2>1
  <2>3. Has(m2, off, "lc", c.lc, 4)
    BY <1>1, <1>3, <1>5, <2>1, <2>2, HasStays
  <2>4. QED
    BY <1>1, <1>6, <2>2, <2>3, HasStays
<1>9. Elsewhere(m, n, off, e)
  <2>1. k <= v /\ k + 8 = v /\ off <= v /\ k \in Int /\ v \in Int /\ e \in Int
    BY <1>1, <1>4
  <2>2. Elsewhere(m, m2, off, v)
    BY <1>3, <1>4, <1>5, <2>1, ElsewhereTwice
  <2>3. QED
    BY <1>4, <1>6, <2>1, <2>2, ElsewhereTwice
<1>10. QED
  BY <1>6, <1>7, <1>8, <1>9 DEF CellIn, k, v, l, e
-----------------------------------------------------------------------------
(* What a laid out page answers when its fields are read.                   *)
LEMMA SlotFacts ==
  ASSUME NEW j \in Int
  PROVE  Slot(j) = 13 + 2 * j /\ Slot(j) \in Int
BY DEF Slot, OffCellPtrs, CellPtrSize

LEMMA ShapeFacts ==
  ASSUME NEW p, PageShape(p)
  PROVE  /\ p.leaf \in BOOLEAN /\ p.cells \in Seq(Cell) /\ p.content \in Int
         /\ p.rightmost \in Nat /\ p.next \in Int
         /\ Len(p.cells) \in Nat /\ NumCells(p) = Len(p.cells)
         /\ \A i \in 1 .. Len(p.cells) :
              /\ p.cells[i] \in Cell /\ CellShape(p.leaf, p.cells[i])
              /\ Size(p.leaf, p.cells[i]) \in Nat
<1>1. /\ p.leaf \in BOOLEAN /\ p.cells \in Seq(Cell) /\ p.content \in Int
      /\ p.rightmost \in Nat /\ p.next \in Int
  BY DEF PageShape, Page
<1>2. Len(p.cells) \in Nat /\ NumCells(p) = Len(p.cells)
  BY <1>1 DEF NumCells
<1>3. ASSUME NEW i \in 1 .. Len(p.cells)
      PROVE  /\ p.cells[i] \in Cell /\ CellShape(p.leaf, p.cells[i])
             /\ Size(p.leaf, p.cells[i]) \in Nat
  <2>1. CellShape(p.leaf, p.cells[i]) /\ p.cells[i] \in Cell
    BY DEF PageShape, CellShape
  <2>2. QED
    BY <1>1, <2>1, CellFields
<1>4. QED
  BY <1>1, <1>2, <1>3

(* The slots of a page lie between the header and an offset top.            *)
SlotsBelow(p, top) ==
  \A i \in 1 .. Len(p.cells) : /\ Slot(i - 1) \in Nat
                               /\ 13 <= Slot(i - 1)
                               /\ Slot(i - 1) + 2 <= top

LEMMA SlotsOfPage ==
  ASSUME NEW p, PageShape(p), Fits(p)
  PROVE  SlotsBelow(p, p.content) /\ 13 <= p.content
<1>1. p.content \in Int /\ Len(p.cells) \in Nat /\ NumCells(p) = Len(p.cells)
  BY ShapeFacts
<1>2. p.content >= 13 + 2 * Len(p.cells)
  BY <1>1 DEF Fits, FreeSpace, OffCellPtrs, CellPtrSize
<1>3. ASSUME NEW i \in 1 .. Len(p.cells)
      PROVE  Slot(i - 1) \in Nat /\ 13 <= Slot(i - 1) /\ Slot(i - 1) + 2 <= p.content
  <2>1. i \in Nat /\ 1 <= i /\ i <= Len(p.cells)
        /\ Slot(i - 1) = 13 + 2 * (i - 1)
    BY <1>1, SlotFacts
  <2>2. QED
    BY ONLY <1>1, <1>2, <2>1
<1>4. 13 <= p.content
  BY <1>1, <1>2
<1>5. QED
  BY <1>3, <1>4 DEF SlotsBelow

(* Where things lie on a page that fits.                                    *)
LEMMA LaidFacts ==
  ASSUME NEW m, NEW p, NEW n, LaidWith(m, p, n)
  PROVE  /\ p.content \in Nat /\ p.content <= PageSize /\ PageSize \in Nat
         /\ 13 <= p.content /\ SlotsBelow(p, p.content)
         /\ PageShape(p) /\ IsImage(m) /\ Header(m, p, n)
<1>1. /\ PageShape(p) /\ IsImage(m) /\ Header(m, p, n) /\ Fits(p)
      /\ p.content <= PageSize
  BY DEF LaidWith
<1>2. p.content \in Int
  BY <1>1, ShapeFacts
<1>3. 13 <= p.content /\ SlotsBelow(p, p.content)
  BY <1>1, SlotsOfPage
<1>4. QED
  BY <1>1, <1>2, <1>3, PageSizeAssumption

(* The header fields read back.                                             *)
LEMMA HeaderReads ==
  ASSUME NEW m, NEW p, NEW n, LaidWith(m, p, n)
  PROVE  /\ NumCellsAt(m) = n /\ ContentAt(m) = p.content
         /\ RightmostAt(m) = p.rightmost /\ NextLeafAt(m) = p.next
         /\ Get(m, 0, "leaf", 1) = p.leaf
<1>1. IsImage(m) /\ Header(m, p, n) /\ PageSize \in Nat /\ 13 <= PageSize
  BY LaidFacts
<1>5. NumCellsAt(m) = n
  BY <1>1, GetHas DEF Header, NumCellsAt
<1>6. ContentAt(m) = p.content
  BY <1>1, GetHas DEF Header, ContentAt
<1>7. RightmostAt(m) = p.rightmost
  BY <1>1, GetHas DEF Header, RightmostAt
<1>8. NextLeafAt(m) = p.next
  BY <1>1, GetHas DEF Header, NextLeafAt
<1>9. Get(m, 0, "leaf", 1) = p.leaf
  BY <1>1, GetHas DEF Header
<1>10. QED
  BY <1>5, <1>6, <1>7, <1>8, <1>9

(* Slot i leads to the cell, which reads as itself.                         *)
LEMMA CellReads ==
  ASSUME NEW m, NEW p, NEW n, LaidWith(m, p, n), NEW at, Placed(m, p, at),
         NEW i \in 1 .. Len(p.cells)
  PROVE  /\ CellPtr(m, i - 1) = at[i] /\ at[i] \in Nat
         /\ LCAt(m, at[i], p.leaf) = p.cells[i].lc
         /\ ReadCell(m, i - 1, p.leaf) = p.cells[i]
<1> DEFINE leaf == p.leaf
           c == p.cells[i]
           o == at[i]
<1>0. PageShape(p) /\ IsImage(m) /\ PageSize \in Nat
  BY LaidFacts
<1>1. /\ leaf \in BOOLEAN /\ c \in Cell /\ CellShape(leaf, c)
      /\ Len(p.cells) \in Nat
  BY <1>0, ShapeFacts
<1>2. /\ o \in Nat /\ o + Size(leaf, c) <= PageSize
      /\ Has(m, Slot(i - 1), "ptr", o, 2) /\ CellIn(m, o, leaf, c)
  BY DEF Placed, InArea, Slots, CellsIn
<1>3. CellPtr(m, i - 1) = o
  <2>1. Slot(i - 1) \in Nat /\ Slot(i - 1) + 2 <= PageSize
    <3>1. SlotsBelow(p, p.content)
      BY LaidFacts
    <3>2. Slot(i - 1) \in Nat /\ Slot(i - 1) + 2 <= p.content
      BY <3>1 DEF SlotsBelow
    <3>3. p.content \in Nat /\ p.content <= PageSize
      BY LaidFacts
    <3>4. QED
      BY <1>0, <3>2, <3>3
  <2>2. QED
    BY <1>0, <1>2, <2>1, GetHas DEF CellPtr, CellPtrSize
<1> DEFINE k == KeyOff(o, leaf)
           v == ValOff(o, leaf)
           l == Length(c.val)
<1>4. /\ k = IF HasChild(leaf) THEN o + 4 ELSE o
      /\ v = k + 8 /\ k \in Nat /\ v \in Nat /\ l \in Nat
      /\ HasValue(leaf) => l > 0
      /\ o + Size(leaf, c) = IF HasValue(leaf) THEN v + 2 + l ELSE v
  <2> HIDE DEF c, o, leaf
  <2>1. QED
    BY <1>1, <1>2, CellFields
<1> HIDE DEF c, o, leaf
<1>5. Get(m, k, "key", 8) = c.key
  <2>1. k + 8 <= PageSize
    BY <1>0, <1>2, <1>4
  <2> HIDE DEF k
  <2>2. Has(m, k, "key", c.key, 8)
    BY <1>2 DEF CellIn, k
  <2>3. QED
    BY <1>0, <1>4, <2>1, <2>2, GetHas
<1>6. LCAt(m, o, leaf) = c.lc
  <2>1. CASE HasChild(leaf)
    <3>1. o + 4 <= PageSize
      BY <1>0, <1>2, <1>4, <2>1
    <3>2. QED
      BY <1>0, <1>2, <2>1, <3>1, GetHas DEF CellIn, LCAt
  <2>2. CASE ~HasChild(leaf)
    BY <1>1, <2>2 DEF LCAt, CellShape
  <2>3. QED
    BY <2>1, <2>2
<1>7. (IF HasValue(leaf) THEN ValueAt(m, v) ELSE Nil) = c.val
  <2>1. CASE HasValue(leaf)
    <3> HIDE DEF k, v, l
    <3>1. Has(m, v, "len", l, 2) /\ Has(m, v + 2, "val", c.val, l)
      BY <1>2, <2>1 DEF CellIn, v, l
    <3>2. /\ v + 2 <= PageSize /\ v + 2 \in Nat /\ l \in Nat \ {0}
          /\ (v + 2) + l <= PageSize
      BY <1>0, <1>2, <1>4, <2>1
    <3>3. Get(m, v, "len", 2) = l
      BY <1>0, <1>4, <3>1, <3>2, GetHas
    <3>4. Get(m, v + 2, "val", l) = c.val
      BY <1>0, <3>1, <3>2, GetHas
    <3>5. l # Garbage
      BY <3>2, LayoutAssumption
    <3>6. QED
      BY <2>1, <3>3, <3>4, <3>5 DEF ValueAt
  <2>2. CASE ~HasValue(leaf)
    BY <1>1, <2>2 DEF CellShape, ValuesOf
  <2>3. QED
    BY <2>1, <2>2
<1>8. ReadCell(m, i - 1, leaf) = [key |-> c.key, val |-> c.val, lc |-> c.lc]
  <2>1. o # Garbage
    BY <1>2, LayoutAssumption
  <2>2. QED
    BY <1>3, <1>5, <1>6, <1>7, <2>1 DEF ReadCell
<1>9. c = [key |-> c.key, val |-> c.val, lc |-> c.lc]
  BY <1>1 DEF Cell
<1>10. QED
  BY <1>2, <1>3, <1>6, <1>8, <1>9 DEF c, o, leaf

(* A page that is laid out reads back.                                      *)
LEMMA LaidReadsBack ==
  ASSUME NEW m, NEW p, Laid(m, p)
  PROVE  Decoded(m) = p
<1>1. /\ p \in Page /\ p.cells \in Seq(Cell) /\ Len(p.cells) \in Nat
  BY ShapeFacts DEF Laid, LaidWith, PageShape
<1>2. PICK at : Placed(m, p, at)
  BY DEF Laid, LaidWith
<1>3. [i \in 1 .. Len(p.cells) |-> ReadCell(m, i - 1, p.leaf)] = p.cells
  <2>1. \A i \in 1 .. Len(p.cells) : ReadCell(m, i - 1, p.leaf) = p.cells[i]
    BY <1>2, CellReads DEF Laid
  <2>2. p.cells = [i \in 1 .. Len(p.cells) |-> p.cells[i]]
    BY <1>1
  <2>3. QED
    BY <2>1, <2>2, Zenon
<1>4. Decoded(m) = [leaf |-> p.leaf, cells |-> p.cells, content |-> p.content,
                    rightmost |-> p.rightmost, next |-> p.next]
  BY <1>3, HeaderReads DEF Decoded, Laid
<1>5. p = [leaf |-> p.leaf, cells |-> p.cells, content |-> p.content,
           rightmost |-> p.rightmost, next |-> p.next]
  BY <1>1 DEF Page
<1>6. QED
  BY <1>4, <1>5
-----------------------------------------------------------------------------
(* The header fields, the slots and the cells that a change leaves alone.   *)
LEMMA HeaderStays ==
  ASSUME NEW m, NEW n, NEW p, NEW h, Header(m, p, h), 13 <= PageSize,
         NEW a \in Int, NEW b \in Int, Elsewhere(m, n, a, b), 13 <= a
  PROVE  Header(n, p, h)
<1>0. PageSize \in Nat
  BY PageSizeAssumption
<1>1. Has(n, 0, "leaf", p.leaf, 1)
  BY <1>0, HasStays DEF Header
<1>2. Has(n, 1, "numCells", h, 2)
  BY <1>0, HasStays DEF Header
<1>3. Has(n, 3, "content", p.content, 2)
  BY <1>0, HasStays DEF Header
<1>4. Has(n, 5, "rightmost", p.rightmost, 4)
  BY <1>0, HasStays DEF Header
<1>5. Has(n, 9, "next", p.next, 4)
  BY <1>0, HasStays DEF Header
<1>6. QED
  BY <1>1, <1>2, <1>3, <1>4, <1>5 DEF Header

LEMMA CellsStay ==
  ASSUME NEW m, NEW n, NEW p, PageShape(p), NEW at, InArea(p, at),
         CellsIn(m, p, at),
         p.content \in Nat, NEW a \in Int, NEW b \in Int, Elsewhere(m, n, a, b),
         b <= p.content
  PROVE  CellsIn(n, p, at)
<1>1. SUFFICES ASSUME NEW i \in 1 .. Len(p.cells)
               PROVE  CellIn(n, at[i], p.leaf, p.cells[i])
  BY DEF CellsIn
<1>2. p.leaf \in BOOLEAN /\ CellShape(p.leaf, p.cells[i])
  BY ShapeFacts
<1>3. /\ at[i] \in Nat /\ b <= at[i]
      /\ at[i] + Size(p.leaf, p.cells[i]) <= PageSize
      /\ CellIn(m, at[i], p.leaf, p.cells[i])
  BY DEF InArea, CellsIn
<1>4. QED
  BY <1>2, <1>3, CellStays

LEMMA SlotsStay ==
  ASSUME NEW m, NEW n, NEW p, NEW at, Slots(m, p, at),
         NEW top \in Int, SlotsBelow(p, top), top <= PageSize,
         NEW a \in Int, NEW b \in Int, Elsewhere(m, n, a, b),
         top <= a \/ b <= 13
  PROVE  Slots(n, p, at)
<1>0. PageSize \in Nat
  BY PageSizeAssumption
<1>1. SUFFICES ASSUME NEW i \in 1 .. Len(p.cells)
               PROVE  Has(n, Slot(i - 1), "ptr", at[i], 2)
  BY DEF Slots
<1>2. Slot(i - 1) \in Nat /\ 13 <= Slot(i - 1) /\ Slot(i - 1) + 2 <= top
  BY DEF SlotsBelow
<1>3. Slot(i - 1) + 2 <= PageSize /\ (Slot(i - 1) + 2 <= a \/ b <= Slot(i - 1))
  BY <1>0, <1>2
<1>4. QED
  BY <1>2, <1>3, HasStays DEF Slots
-----------------------------------------------------------------------------
(* q is the page p with another cell at position i.                         *)
OneCellSet(p, i, q) ==
  /\ q \in Page /\ q.leaf = p.leaf /\ q.content = p.content
  /\ q.rightmost = p.rightmost /\ q.next = p.next
  /\ Len(q.cells) = Len(p.cells)
  /\ \A j \in 1 .. Len(p.cells) : j # i => q.cells[j] = p.cells[j]

(* Another cell, that takes no more room, in the place of cell i.           *)
LEMMA OneCellKeeps ==
  ASSUME NEW m, NEW p, NEW h, LaidWith(m, p, h), NEW at, Placed(m, p, at),
         NEW i \in 1 .. Len(p.cells), NEW q, OneCellSet(p, i, q),
         CellShape(p.leaf, q.cells[i]),
         Size(p.leaf, q.cells[i]) <= Size(p.leaf, p.cells[i]),
         NEW n, IsImage(n), CellIn(n, at[i], p.leaf, q.cells[i]),
         NEW a \in Int, NEW b \in Int, Elsewhere(m, n, a, b),
         at[i] <= a, b <= at[i] + Size(p.leaf, p.cells[i])
  PROVE  LaidWith(n, q, h)
<1> DEFINE leaf == p.leaf
           s(j) == Size(leaf, p.cells[j])
           z(j) == Size(leaf, q.cells[j])
<1>1. /\ PageShape(p) /\ IsImage(m) /\ Header(m, p, h) /\ PageSize \in Nat
      /\ p.content \in Nat /\ 13 <= p.content /\ p.content <= PageSize
      /\ SlotsBelow(p, p.content)
  BY LaidFacts
<1>2. /\ q.leaf = leaf /\ q.content = p.content /\ q.rightmost = p.rightmost
      /\ q.next = p.next /\ q \in Page /\ Len(q.cells) = Len(p.cells)
      /\ \A j \in 1 .. Len(p.cells) : j # i => q.cells[j] = p.cells[j]
  BY DEF OneCellSet
<1>3. leaf \in BOOLEAN /\ Len(p.cells) \in Nat
  BY <1>1, ShapeFacts
<1>4. ASSUME NEW j \in 1 .. Len(p.cells)
      PROVE  /\ at[j] \in Nat /\ p.content <= at[j] /\ at[j] + s(j) <= PageSize
             /\ CellIn(m, at[j], leaf, p.cells[j])
  BY DEF Placed, InArea, CellsIn
<1> HIDE DEF leaf
<1>5. ASSUME NEW j \in 1 .. Len(p.cells)
      PROVE  CellShape(leaf, p.cells[j]) /\ CellShape(leaf, q.cells[j])
  <2>1. CellShape(leaf, p.cells[j])
    BY <1>1, ShapeFacts DEF leaf
  <2>2. QED
    BY <1>2, <2>1 DEF leaf
<1>6. ASSUME NEW j \in 1 .. Len(p.cells)
      PROVE  s(j) \in Nat /\ z(j) \in Nat /\ z(j) <= s(j)
  <2>1. s(j) \in Nat /\ z(j) \in Nat
    BY <1>3, <1>4, <1>5, CellFields
  <2>2. CASE j = i
    BY <2>1, <2>2 DEF leaf
  <2>3. CASE j # i
    BY <1>2, <2>1, <2>3
  <2>4. QED
    BY <2>2, <2>3
<1>7. at[i] <= a /\ b <= at[i] + s(i)
  BY DEF leaf
<1> HIDE DEF s, z
<1>8. p.content <= a /\ 13 <= a
  BY <1>1, <1>4, <1>7
<1>9. PageShape(q)
  BY <1>2, <1>5 DEF PageShape
<1>10. Header(n, q, h)
  <2>1. 13 <= PageSize
    BY <1>1
  <2>2. Header(n, p, h)
    BY <1>1, <1>8, <2>1, HeaderStays
  <2>3. QED
    BY <1>2, <2>2 DEF Header, leaf
<1>11. InArea(q, at)
  <2>1. ASSUME NEW j \in 1 .. Len(p.cells)
        PROVE  /\ at[j] \in Nat /\ p.content <= at[j]
               /\ at[j] + z(j) <= PageSize
    BY <1>1, <1>4, <1>6
  <2>2. QED
    BY <1>2, <2>1 DEF InArea, z
<1>12. ASSUME NEW j \in 1 .. Len(p.cells), NEW l \in 1 .. Len(p.cells), j # l
       PROVE  at[j] + s(j) <= at[l] \/ at[l] + s(l) <= at[j]
  BY <1>12 DEF Placed, Apart, leaf, s
<1>13. Apart(q, at)
  <2>1. ASSUME NEW j \in 1 .. Len(p.cells), NEW l \in 1 .. Len(p.cells), j # l
        PROVE  at[j] + z(j) <= at[l] \/ at[l] + z(l) <= at[j]
    <3>1. at[j] + s(j) <= at[l] \/ at[l] + s(l) <= at[j]
      BY <1>12, <2>1
    <3>2. /\ at[j] \in Nat /\ s(j) \in Nat /\ z(j) \in Nat /\ z(j) <= s(j)
          /\ at[l] \in Nat /\ s(l) \in Nat /\ z(l) \in Nat /\ z(l) <= s(l)
      BY <1>4, <1>6
    <3>3. QED
      BY ONLY <3>1, <3>2
  <2>2. QED
    BY <1>2, <2>1 DEF Apart, z
<1>14. Slots(n, q, at)
  <2>1. Slots(n, p, at)
    BY <1>1, <1>8, SlotsStay DEF Placed
  <2>2. QED
    BY <1>2, <2>1 DEF Slots
<1>15. CellsIn(n, q, at)
  <2>1. SUFFICES ASSUME NEW j \in 1 .. Len(p.cells)
                 PROVE  CellIn(n, at[j], leaf, q.cells[j])
    BY <1>2 DEF CellsIn
  <2>2. CASE j # i
    <3>1. at[j] + s(j) <= a \/ b <= at[j]
      <4>1. at[j] + s(j) <= at[i] \/ at[i] + s(i) <= at[j]
        BY <1>12, <2>2
      <4>2. at[j] \in Nat /\ s(j) \in Nat /\ at[i] \in Nat /\ s(i) \in Nat
        BY <1>4, <1>6
      <4>3. a \in Int /\ b \in Int
        OBVIOUS
      <4>4. QED
        BY ONLY <1>7, <4>1, <4>2, <4>3
    <3>2. CellIn(n, at[j], leaf, p.cells[j])
      BY <1>3, <1>4, <1>5, <3>1, CellStays DEF s
    <3>3. QED
      BY <1>2, <2>2, <3>2
  <2>3. CASE j = i
    BY <2>3 DEF leaf
  <2>4. QED
    BY <2>2, <2>3
<1>16. Fits(q) /\ q.content <= PageSize
  <2>1. Fits(p)
    BY DEF LaidWith
  <2>2. QED
    BY <1>1, <1>2, <2>1 DEF Fits, FreeSpace, NumCells
<1>17. QED
  BY <1>9, <1>10, <1>11, <1>13, <1>14, <1>15, <1>16 DEF LaidWith, Placed

(* q is the page p with another value in cell i + 1.                        *)
Overwritten(p, i, val, q) ==
  /\ OneCellSet(p, i + 1, q)
  /\ q.cells[i + 1].val = val /\ q.cells[i + 1].key = p.cells[i + 1].key
  /\ q.cells[i + 1].lc = p.cells[i + 1].lc

LEMMA OverwrittenPage ==
  ASSUME NEW p, PageShape(p), NEW i \in 0 .. Len(p.cells) - 1,
         NEW val \in Values
  PROVE  Overwritten(p, i, val, [p EXCEPT !.cells[i + 1].val = val])
<1> DEFINE c == p.cells[i + 1]
           d == [c EXCEPT !.val = val]
           s == [p.cells EXCEPT ![i + 1] = d]
           q == [p EXCEPT !.cells = s]
<1>1. /\ p.cells \in Seq(Cell) /\ Len(p.cells) \in Nat
      /\ i + 1 \in 1 .. Len(p.cells) /\ c \in Cell /\ p \in Page
  BY ShapeFacts DEF PageShape
<1>2. d.val = val /\ d.key = c.key /\ d.lc = c.lc /\ d \in Cell
  BY <1>1 DEF Cell
<1> HIDE DEF d, c
<1>3. /\ s \in Seq(Cell) /\ Len(s) = Len(p.cells) /\ s[i + 1] = d
      /\ \A j \in 1 .. Len(p.cells) : j # i + 1 => s[j] = p.cells[j]
  BY <1>1, <1>2
<1> HIDE DEF s
<1>4. /\ q \in Page /\ q.leaf = p.leaf /\ q.content = p.content
      /\ q.rightmost = p.rightmost /\ q.next = p.next /\ q.cells = s
  BY <1>1, <1>3 DEF Page
<1> HIDE DEF q
<1>5. Overwritten(p, i, val, q)
  BY <1>2, <1>3, <1>4 DEF Overwritten, OneCellSet, c
<1>6. QED
  BY <1>5 DEF q, s, d, c

(* An overwritten value takes no more room than the old one.                *)
LEMMA OverwriteKeeps ==
  ASSUME NEW m, NEW p, NEW h, LaidWith(m, p, h), HasValue(p.leaf),
         NEW i \in 0 .. Len(p.cells) - 1, NEW val \in Values,
         Length(val) <= Length(p.cells[i + 1].val),
         NEW q, Overwritten(p, i, val, q)
  PROVE  LaidWith(OverwriteAt(m, i, p.leaf, val), q, h)
<1> DEFINE n == OverwriteAt(m, i, p.leaf, val)
           c == p.cells[i + 1]
           d == q.cells[i + 1]
           leaf == p.leaf
<1>0. /\ PageShape(p) /\ IsImage(m) /\ PageSize \in Nat
      /\ p.content \in Nat
  BY LaidFacts
<1>1. /\ leaf \in BOOLEAN /\ Len(p.cells) \in Nat
      /\ i + 1 \in 1 .. Len(p.cells) /\ c \in Cell /\ CellShape(leaf, c)
  BY <1>0, ShapeFacts
<1>2. /\ OneCellSet(p, i + 1, q)
      /\ d.val = val /\ d.key = c.key /\ d.lc = c.lc
  BY DEF Overwritten
<1>3. CellShape(leaf, d)
  <2>1. d \in Cell
    <3>1. q.cells \in Seq(Cell) /\ Len(q.cells) = Len(p.cells)
      BY <1>2 DEF OneCellSet, Page
    <3>2. QED
      BY <1>1, <3>1
  <2> HIDE DEF d, c
  <2>2. QED
    BY <1>1, <1>2, <2>1 DEF CellShape, ValuesOf
<1> HIDE DEF d
<1>6. PICK at : Placed(m, p, at)
  BY DEF LaidWith
<1> DEFINE o == at[i + 1]
           v == ValOff(o, leaf)
           k == KeyOff(o, leaf)
           l == Length(val)
           e == v + 2 + l
<1>7. /\ o \in Nat /\ o + Size(leaf, c) <= PageSize
      /\ CellIn(m, o, leaf, c)
  BY <1>1, <1>6 DEF Placed, InArea, CellsIn
<1>8. /\ k = IF HasChild(leaf) THEN o + 4 ELSE o
      /\ v = k + 8 /\ k \in Nat /\ v \in Nat /\ l \in Nat
      /\ o + Size(leaf, c) = v + 2 + Length(c.val) /\ Length(c.val) \in Nat
      /\ o + Size(leaf, d) = v + 2 + l
      /\ Size(leaf, c) \in Nat /\ Size(leaf, d) \in Nat
  BY <1>1, <1>2, <1>3, <1>7, CellFields
<1>9. n = PutValue(m, v, val)
  <2>1. CellPtr(m, (i + 1) - 1) = o /\ (i + 1) - 1 = i
    BY <1>1, <1>6, CellReads
  <2>2. QED
    BY <2>1 DEF OverwriteAt
<1>10. l <= Length(c.val)
  OBVIOUS
<1> HIDE DEF n, o, v, k, l, c, leaf
<1>11. /\ o <= v /\ v \in Nat /\ o \in Nat /\ e \in Nat
       /\ Size(leaf, d) <= Size(leaf, c) /\ e <= o + Size(leaf, c)
       /\ e <= PageSize
  <2>1. v \in Nat /\ o \in Nat /\ o <= v /\ Size(leaf, d) \in Nat
        /\ Size(leaf, c) \in Nat
    BY <1>7, <1>8
  <2>2. /\ l \in Nat /\ Length(c.val) \in Nat /\ o + Size(leaf, c) <= PageSize
        /\ o + Size(leaf, c) = v + 2 + Length(c.val)
        /\ o + Size(leaf, d) = v + 2 + l
    BY <1>7, <1>8
  <2>3. QED
    BY ONLY <1>0, <1>10, <2>1, <2>2
<1>12. /\ IsImage(n)
       /\ Has(n, v, "len", l, 2) /\ Has(n, v + 2, "val", val, l)
       /\ Elsewhere(m, n, v, e)
  BY <1>0, <1>8, <1>9, <1>11, PutValueEffect DEF l
<1> HIDE DEF e
<1>13. Has(n, k, "key", d.key, 8)
  <2>1. Has(m, k, "key", d.key, 8)
    BY <1>2, <1>7 DEF CellIn, k, c
  <2>2. k + 8 <= PageSize /\ k + 8 <= v
    BY <1>0, <1>7, <1>8
  <2>3. QED
    BY <1>8, <1>11, <1>12, <2>1, <2>2, HasStays
<1>14. HasChild(leaf) => Has(n, o, "lc", d.lc, 4)
  <2>1. SUFFICES ASSUME HasChild(leaf) PROVE Has(n, o, "lc", d.lc, 4)
    OBVIOUS
  <2>2. Has(m, o, "lc", d.lc, 4)
    BY <1>2, <1>7, <2>1 DEF CellIn, c
  <2>3. o + 4 <= PageSize /\ o + 4 <= v
    BY <1>0, <1>7, <1>8, <2>1
  <2>4. QED
    BY <1>7, <1>11, <1>12, <2>2, <2>3, HasStays
<1>15. CellIn(n, o, leaf, d)
  BY <1>2, <1>12, <1>13, <1>14 DEF CellIn, k, v, l
<1>16. QED
  BY <1>1, <1>2, <1>3, <1>6, <1>11, <1>12, <1>15, OneCellKeeps
     DEF c, d, o, leaf, n

(* Another child in a cell.                                                 *)
LEMMA ChildKeeps ==
  ASSUME NEW m, NEW p, NEW h, LaidWith(m, p, h), HasChild(p.leaf),
         NEW i \in 1 .. Len(p.cells), NEW rc \in Nat,
         NEW q, OneCellSet(p, i, q),
         q.cells[i].key = p.cells[i].key, q.cells[i].val = p.cells[i].val,
         q.cells[i].lc = rc
  PROVE  LaidWith(Put(m, CellPtr(m, i - 1), "lc", rc, 4), q, h)
<1> DEFINE n == Put(m, CellPtr(m, i - 1), "lc", rc, 4)
           c == p.cells[i]
           d == q.cells[i]
           leaf == p.leaf
<1>0. PageShape(p) /\ IsImage(m) /\ PageSize \in Nat
  BY LaidFacts
<1>1. leaf \in BOOLEAN /\ Len(p.cells) \in Nat /\ CellShape(leaf, c)
  BY <1>0, ShapeFacts
<1>2. d.val = c.val /\ d.key = c.key /\ d.lc = rc
  OBVIOUS
<1>3. CellShape(leaf, d)
  <2>1. d \in Cell
    <3>1. q.cells \in Seq(Cell) /\ Len(q.cells) = Len(p.cells)
      BY DEF OneCellSet, Page
    <3>2. QED
      BY <1>1, <3>1
  <2> HIDE DEF d, c
  <2>2. QED
    BY <1>1, <1>2, <2>1 DEF CellShape
<1>4. PICK at : Placed(m, p, at)
  BY DEF LaidWith
<1> DEFINE o == at[i]
           k == KeyOff(o, leaf)
           v == ValOff(o, leaf)
           l == Length(c.val)
<1>5. /\ o \in Nat /\ o + Size(leaf, c) <= PageSize /\ CellIn(m, o, leaf, c)
  BY <1>4 DEF Placed, InArea, CellsIn
<1>6. /\ k = o + 4 /\ v = k + 8 /\ k \in Nat /\ v \in Nat /\ l \in Nat
      /\ o + Size(leaf, c) = IF HasValue(leaf) THEN v + 2 + l ELSE v
      /\ Size(leaf, c) \in Nat
  <2>1. HasChild(leaf)
    OBVIOUS
  <2> HIDE DEF leaf, c, o
  <2>2. QED
    BY <1>1, <1>5, <2>1, CellFields
<1>7. n = Put(m, o, "lc", rc, 4)
  <2>1. CellPtr(m, i - 1) = o
    BY <1>4, CellReads
  <2>2. QED
    BY <2>1
<1>8. Size(leaf, d) = Size(leaf, c)
  BY <1>2 DEF Size
<1> HIDE DEF n, o, v, k, l, c, d, leaf
<1>9. o + 4 \in Nat /\ o + 4 <= o + Size(leaf, c) /\ o + 4 <= PageSize
  BY <1>0, <1>5, <1>6
<1>10. IsImage(n) /\ Has(n, o, "lc", rc, 4) /\ Elsewhere(m, n, o, o + 4)
  BY <1>0, <1>5, <1>7, <1>9, PutEffect
<1>11. Has(n, k, "key", d.key, 8)
  <2>1. Has(m, k, "key", d.key, 8)
    BY <1>2, <1>5 DEF CellIn, k
  <2>2. k + 8 <= PageSize /\ o + 4 <= k
    BY <1>0, <1>5, <1>6
  <2>3. QED
    BY <1>5, <1>6, <1>9, <1>10, <2>1, <2>2, HasStays
<1>12. ASSUME HasValue(leaf)
       PROVE  Has(n, v, "len", l, 2) /\ Has(n, v + 2, "val", c.val, l)
  <2>1. Has(m, v, "len", l, 2) /\ Has(m, v + 2, "val", c.val, l)
    BY <1>5, <1>12 DEF CellIn, v, l
  <2>2. /\ v + 2 <= PageSize /\ o + 4 <= v /\ v + 2 \in Nat
        /\ (v + 2) + l <= PageSize /\ o + 4 <= v + 2
    <3>1. o + Size(leaf, c) = v + 2 + l
      BY <1>6, <1>12
    <3>2. o \in Nat /\ v \in Nat /\ l \in Nat /\ o + Size(leaf, c) <= PageSize
      BY <1>5, <1>6
    <3>3. v = (o + 4) + 8
      BY <1>6
    <3>4. PageSize \in Nat
      BY <1>0
    <3>5. QED
      BY ONLY <3>1, <3>2, <3>3, <3>4
  <2>3. QED
    BY <1>5, <1>6, <1>9, <1>10, <2>1, <2>2, HasStays
<1>13. CellIn(n, o, leaf, d)
  BY <1>2, <1>10, <1>11, <1>12 DEF CellIn, k, v, l
<1>14. /\ CellShape(p.leaf, q.cells[i]) /\ IsImage(n)
       /\ Size(p.leaf, q.cells[i]) <= Size(p.leaf, p.cells[i])
       /\ CellIn(n, at[i], p.leaf, q.cells[i])
       /\ Elsewhere(m, n, at[i], at[i] + 4) /\ at[i] \in Nat
       /\ at[i] + 4 \in Int
       /\ at[i] + 4 <= at[i] + Size(p.leaf, p.cells[i])
  BY <1>3, <1>5, <1>6, <1>8, <1>9, <1>10, <1>13 DEF c, d, o, leaf
<1>15. at[i] <= at[i]
  BY <1>14
<1>16. LaidWith(n, q, h)
  BY <1>4, <1>14, <1>15, OneCellKeeps
<1>17. QED
  BY <1>16 DEF n
-----------------------------------------------------------------------------
(* A header field written over the old one.                                 *)
LEMMA HeaderFieldKeeps ==
  ASSUME NEW m, NEW p, NEW h, LaidWith(m, p, h), NEW q \in Page,
         q.leaf = p.leaf, q.cells = p.cells, q.content = p.content,
         NEW n, IsImage(n), NEW g, Header(n, q, g),
         NEW a \in Int, NEW b \in Int, Elsewhere(m, n, a, b), b <= 13
  PROVE  LaidWith(n, q, g)
<1>1. /\ PageShape(p) /\ PageSize \in Nat /\ p.content \in Nat
      /\ 13 <= p.content /\ p.content <= PageSize /\ SlotsBelow(p, p.content)
      /\ Fits(p)
  BY LaidFacts DEF LaidWith
<1>2. PICK at : Placed(m, p, at)
  BY DEF LaidWith
<1>3. PageShape(q)
  BY <1>1 DEF PageShape
<1>4. Fits(q) /\ q.content <= PageSize
  BY <1>1 DEF Fits, FreeSpace, NumCells
<1>5. InArea(q, at) /\ Apart(q, at)
  BY <1>2 DEF Placed, InArea, Apart
<1>6. Slots(n, q, at)
  <2>1. Slots(n, p, at)
    BY <1>1, <1>2, SlotsStay DEF Placed
  <2>2. QED
    BY <2>1 DEF Slots
<1>7. CellsIn(n, q, at)
  <2>1. b <= p.content
    BY <1>1
  <2>2. CellsIn(n, p, at)
    BY <1>1, <1>2, <2>1, CellsStay DEF Placed
  <2>3. QED
    BY <2>2 DEF CellsIn
<1>8. QED
  BY <1>3, <1>4, <1>5, <1>6, <1>7 DEF LaidWith, Placed

LEMMA RightmostKeeps ==
  ASSUME NEW m, NEW p, NEW h, LaidWith(m, p, h), NEW q \in Page,
         q.leaf = p.leaf, q.cells = p.cells, q.content = p.content,
         q.next = p.next
  PROVE  LaidWith(SetRightmost(m, q.rightmost), q, h)
<1> DEFINE rc == q.rightmost
           n == SetRightmost(m, rc)
<1>1. IsImage(m) /\ Header(m, p, h) /\ PageSize \in Nat /\ 13 <= PageSize
  BY LaidFacts
<1>2. IsImage(n) /\ Has(n, 5, "rightmost", rc, 4) /\ Elsewhere(m, n, 5, 5 + 4)
  BY <1>1, PutEffect DEF SetRightmost
<1> HIDE DEF n, rc
<1>3. Has(n, 0, "leaf", p.leaf, 1)
  BY <1>1, <1>2, HasStays DEF Header
<1>4. Has(n, 1, "numCells", h, 2)
  BY <1>1, <1>2, HasStays DEF Header
<1>5. Has(n, 3, "content", p.content, 2)
  BY <1>1, <1>2, HasStays DEF Header
<1>6. Has(n, 9, "next", p.next, 4)
  BY <1>1, <1>2, HasStays DEF Header
<1>7. Header(n, q, h)
  BY <1>2, <1>3, <1>4, <1>5, <1>6 DEF Header, rc
<1>8. LaidWith(n, q, h)
  BY <1>2, <1>7, HeaderFieldKeeps
<1>9. QED
  BY <1>8 DEF n, rc

LEMMA NextLeafKeeps ==
  ASSUME NEW m, NEW p, NEW h, LaidWith(m, p, h), NEW q \in Page,
         q.leaf = p.leaf, q.cells = p.cells, q.content = p.content,
         q.rightmost = p.rightmost
  PROVE  LaidWith(SetNextLeaf(m, q.next), q, h)
<1> DEFINE id == q.next
           n == SetNextLeaf(m, id)
<1>1. IsImage(m) /\ Header(m, p, h) /\ PageSize \in Nat /\ 13 <= PageSize
  BY LaidFacts
<1>2. IsImage(n) /\ Has(n, 9, "next", id, 4) /\ Elsewhere(m, n, 9, 9 + 4)
  BY <1>1, PutEffect DEF SetNextLeaf
<1> HIDE DEF n, id
<1>3. Has(n, 0, "leaf", p.leaf, 1)
  BY <1>1, <1>2, HasStays DEF Header
<1>4. Has(n, 1, "numCells", h, 2)
  BY <1>1, <1>2, HasStays DEF Header
<1>5. Has(n, 3, "content", p.content, 2)
  BY <1>1, <1>2, HasStays DEF Header
<1>6. Has(n, 5, "rightmost", p.rightmost, 4)
  BY <1>1, <1>2, HasStays DEF Header
<1>7. Header(n, q, h)
  BY <1>2, <1>3, <1>4, <1>5, <1>6 DEF Header, id
<1>8. LaidWith(n, q, h)
  BY <1>2, <1>7, HeaderFieldKeeps
<1>9. QED
  BY <1>8 DEF n, id

LEMMA CountKeeps ==
  ASSUME NEW m, NEW p, NEW h, LaidWith(m, p, h), NEW g
  PROVE  LaidWith(SetNumCells(m, g), p, g)
<1> DEFINE n == SetNumCells(m, g)
<1>1. IsImage(m) /\ Header(m, p, h) /\ PageSize \in Nat /\ 13 <= PageSize
      /\ p \in Page
  BY LaidFacts DEF PageShape
<1>2. IsImage(n) /\ Has(n, 1, "numCells", g, 2) /\ Elsewhere(m, n, 1, 1 + 2)
  BY <1>1, PutEffect DEF SetNumCells
<1> HIDE DEF n
<1>3. Has(n, 0, "leaf", p.leaf, 1)
  BY <1>1, <1>2, HasStays DEF Header
<1>4. Has(n, 3, "content", p.content, 2)
  BY <1>1, <1>2, HasStays DEF Header
<1>5. Has(n, 5, "rightmost", p.rightmost, 4)
  BY <1>1, <1>2, HasStays DEF Header
<1>6. Has(n, 9, "next", p.next, 4)
  BY <1>1, <1>2, HasStays DEF Header
<1>7. Header(n, p, g)
  BY <1>2, <1>3, <1>4, <1>5, <1>6 DEF Header
<1>8. LaidWith(n, p, g)
  BY <1>1, <1>2, <1>7, HeaderFieldKeeps
<1>9. QED
  BY <1>8 DEF n
-----------------------------------------------------------------------------
(* Slots and cells of the page are in place, except at position i; the      *)
(* cells lie from the offset top on.                                        *)
OthersPlaced(m, p, i, top, at) ==
  /\ \A j \in 1 .. Len(p.cells) :
       j # i => /\ at[j] \in Nat /\ top <= at[j]
                /\ at[j] + Size(p.leaf, p.cells[j]) <= PageSize
                /\ Has(m, Slot(j - 1), "ptr", at[j], 2)
                /\ CellIn(m, at[j], p.leaf, p.cells[j])
  /\ \A j, l \in 1 .. Len(p.cells) :
       j # i /\ l # i /\ j # l => \/ at[j] + Size(p.leaf, p.cells[j]) <= at[l]
                                  \/ at[l] + Size(p.leaf, p.cells[l]) <= at[j]

(* The header, whatever the content offset is.                              *)
HeaderBut(m, p, n) ==
  /\ Has(m, 0, "leaf", p.leaf, 1)
  /\ Has(m, 1, "numCells", n, 2)
  /\ Has(m, 5, "rightmost", p.rightmost, 4)
  /\ Has(m, 9, "next", p.next, 4)

(* Two slots do not overlap.                                                *)
LEMMA SlotsApart ==
  ASSUME NEW i \in Nat, NEW j \in Nat, i # j
  PROVE  Slot(i) + 2 <= Slot(j) \/ Slot(j) + 2 <= Slot(i)
<1>1. Slot(i) = 13 + 2 * i /\ Slot(j) = 13 + 2 * j
  BY SlotFacts
<1>2. QED
  BY ONLY <1>1, i \in Nat, j \in Nat, i # j

(* The cell carved off the free space, and its slot.                        *)
LEMMA AddCellKeeps ==
  ASSUME NEW m, IsImage(m), NEW q, PageShape(q), Fits(q), NEW h,
         HeaderBut(m, q, h),
         NEW i \in 1 .. Len(q.cells), NEW top \in Nat, top <= PageSize,
         q.content + Size(q.leaf, q.cells[i]) = top,
         NEW at, OthersPlaced(m, q, i, top, at),
         NEW n, n = SetCellPtr(WriteCell(SetContent(m, q.content), q.content,
                                         q.leaf, q.cells[i]),
                               i - 1, q.content)
  PROVE  LaidWith(n, q, h)
<1> DEFINE leaf == q.leaf
           c == q.cells[i]
           off == q.content
           m2 == SetContent(m, off)
           m3 == WriteCell(m2, off, leaf, c)
           sl == Slot(i - 1)
           s(j) == Size(leaf, q.cells[j])
<1>1. PageSize \in Nat /\ SlotsBelow(q, off) /\ 13 <= off
  BY SlotsOfPage, PageSizeAssumption
<1>2. /\ leaf \in BOOLEAN /\ Len(q.cells) \in Nat /\ off \in Int
      /\ \A j \in 1 .. Len(q.cells) : CellShape(leaf, q.cells[j]) /\ s(j) \in Nat
  BY ShapeFacts
<1> HIDE DEF s
<1>3. off \in Nat /\ off + s(i) = top /\ off <= top /\ 13 <= PageSize
  <2>1. off + s(i) = top
    BY DEF s
  <2>2. s(i) \in Nat
    BY <1>2
  <2>3. QED
    BY <1>1, <1>2, <2>1, <2>2
<1>4. /\ sl \in Nat /\ 13 <= sl /\ sl + 2 <= off /\ sl + 2 \in Nat
      /\ n = SetCellPtr(m3, i - 1, off)
  BY <1>1 DEF SlotsBelow
<1>5. IsImage(m2) /\ Has(m2, 3, "content", off, 2) /\ Elsewhere(m, m2, 3, 3 + 2)
  <2>1. m2 = Put(m, 3, "content", off, 2) /\ IsImage(m)
    BY DEF SetContent
  <2>2. 3 \in Nat /\ 2 \in Nat /\ 3 + 2 <= PageSize
    BY <1>1, <1>3
  <2> HIDE DEF m2, off
  <2>3. QED
    BY ONLY <2>1, <2>2, PutEffect
<1> HIDE DEF m2
<1>6. IsImage(m3) /\ CellIn(m3, off, leaf, c) /\ Elsewhere(m2, m3, off, top)
  <2>1. off + Size(leaf, c) = top
    OBVIOUS
  <2>2. CellShape(leaf, c) /\ off + Size(leaf, c) <= PageSize
    BY <1>2, <2>1
  <2>3. m3 = WriteCell(m2, off, leaf, c)
    OBVIOUS
  <2> HIDE DEF c, leaf, off, m3
  <2>4. leaf \in BOOLEAN /\ off \in Nat /\ IsImage(m2)
    BY <1>2, <1>3, <1>5
  <2>5. /\ IsImage(m3) /\ CellIn(m3, off, leaf, c)
        /\ Elsewhere(m2, m3, off, off + Size(leaf, c))
    BY ONLY <2>2, <2>3, <2>4, WriteCellEffect
  <2>6. QED
    BY ONLY <2>1, <2>5, Zenon
<1> HIDE DEF m3
<1>7. n = Put(m3, sl, "ptr", off, 2)
  BY <1>4 DEF SetCellPtr, CellPtrSize
<1>8. IsImage(n) /\ Has(n, sl, "ptr", off, 2) /\ Elsewhere(m3, n, sl, sl + 2)
  <2>1. sl + 2 <= PageSize
    BY <1>1, <1>3, <1>4
  <2>2. QED
    BY <1>4, <1>6, <1>7, <2>1, PutEffect
<1> HIDE DEF leaf, c, off, sl
<1>9. Header(n, q, h)
  <2>1. ASSUME NEW o \in Nat, NEW w \in Nat, o + w <= 13, NEW f, NEW v,
               Has(m2, o, f, v, w)
        PROVE  Has(n, o, f, v, w)
    <3>1. o + w <= PageSize /\ o + w <= off /\ o + w <= sl
      BY <1>1, <1>3, <1>4, <2>1
    <3>2. Has(m3, o, f, v, w)
      BY <1>3, <1>6, <2>1, <3>1, HasStays
    <3>3. QED
      BY <1>4, <1>8, <3>1, <3>2, HasStays
  <2>2. ASSUME NEW o \in Nat, NEW w \in Nat, o + w <= 3 \/ 5 <= o, o + w <= 13,
               NEW f, NEW v, Has(m, o, f, v, w)
        PROVE  Has(n, o, f, v, w)
    <3>1. o + w <= PageSize /\ (o + w <= 3 \/ 3 + 2 <= o)
      BY <1>1, <1>3, <2>2
    <3>2. Has(m2, o, f, v, w)
      BY <1>5, <2>2, <3>1, HasStays
    <3>3. QED
      BY <2>1, <2>2, <3>2
  <2>3. Has(n, 0, "leaf", q.leaf, 1)
    <3>1. Has(m, 0, "leaf", leaf, 1)
      BY DEF HeaderBut, leaf
    <3>2. Has(n, 0, "leaf", leaf, 1)
      BY <2>2, <3>1
    <3>3. QED
      BY <3>2 DEF leaf
  <2>4. Has(n, 1, "numCells", h, 2)
    BY <2>2 DEF HeaderBut
  <2>5. Has(n, 5, "rightmost", q.rightmost, 4)
    BY <2>2 DEF HeaderBut
  <2>6. Has(n, 9, "next", q.next, 4)
    BY <2>2 DEF HeaderBut
  <2>7. Has(n, 3, "content", off, 2)
    BY <1>5, <2>1
  <2>8. QED
    BY <2>3, <2>4, <2>5, <2>6, <2>7 DEF Header, off
<1> DEFINE bt == [j \in 1 .. Len(q.cells) |-> IF j = i THEN off ELSE at[j]]
<1>10. /\ bt[i] = off
       /\ \A j \in 1 .. Len(q.cells) : j # i => bt[j] = at[j]
  OBVIOUS
<1> HIDE DEF bt
<1>11. ASSUME NEW j \in 1 .. Len(q.cells), j # i
       PROVE  /\ at[j] \in Nat /\ top <= at[j] /\ at[j] + s(j) <= PageSize
              /\ Has(m, Slot(j - 1), "ptr", at[j], 2)
              /\ CellIn(m, at[j], leaf, q.cells[j])
  BY <1>11 DEF OthersPlaced, s, leaf
<1>12. InArea(q, bt)
  <2>1. SUFFICES ASSUME NEW j \in 1 .. Len(q.cells)
                 PROVE  bt[j] \in Nat /\ off <= bt[j] /\ bt[j] + s(j) <= PageSize
    BY DEF InArea, off, s, leaf
  <2>2. CASE j = i
    BY <1>3, <1>10, <2>2
  <2>3. CASE j # i
    <3>1. at[j] \in Nat /\ top <= at[j] /\ at[j] + s(j) <= PageSize
          /\ bt[j] = at[j]
      BY <1>10, <1>11, <2>3
    <3>2. QED
      BY <1>3, <3>1
  <2>4. QED
    BY <2>2, <2>3
<1>13. Apart(q, bt)
  <2>1. SUFFICES ASSUME NEW j \in 1 .. Len(q.cells),
                        NEW l \in 1 .. Len(q.cells), j # l
                 PROVE  bt[j] + s(j) <= bt[l] \/ bt[l] + s(l) <= bt[j]
    BY DEF Apart, s, leaf
  <2>2. CASE j = i
    <3>1. bt[l] = at[l] /\ top <= at[l] /\ bt[j] + s(j) = top
      BY <1>3, <1>10, <1>11, <2>1, <2>2
    <3>2. QED
      BY <3>1
  <2>3. CASE l = i
    <3>1. bt[j] = at[j] /\ top <= at[j] /\ bt[l] + s(l) = top
      BY <1>3, <1>10, <1>11, <2>1, <2>3
    <3>2. QED
      BY <3>1
  <2>4. CASE j # i /\ l # i
    <3>1. at[j] + s(j) <= at[l] \/ at[l] + s(l) <= at[j]
      BY <2>1, <2>4 DEF OthersPlaced, s, leaf
    <3>2. QED
      BY <1>10, <2>4, <3>1
  <2>5. QED
    BY <2>2, <2>3, <2>4
<1>14. Slots(n, q, bt)
  <2>1. SUFFICES ASSUME NEW j \in 1 .. Len(q.cells)
                 PROVE  Has(n, Slot(j - 1), "ptr", bt[j], 2)
    BY DEF Slots
  <2>2. CASE j = i
    BY <1>8, <1>10, <2>2 DEF sl
  <2>3. CASE j # i
    <3> DEFINE o == Slot(j - 1)
    <3>1. o \in Nat /\ 13 <= o /\ o + 2 <= off
      BY <1>1 DEF SlotsBelow, off
    <3>2. o + 2 <= sl \/ sl + 2 <= o
      <4>1. i - 1 \in Nat /\ j - 1 \in Nat /\ i - 1 # j - 1
        BY <1>2, <2>3
      <4>2. QED
        BY <4>1, SlotsApart DEF sl
    <3>3. Has(m, o, "ptr", at[j], 2)
      BY <1>11, <2>3
    <3> HIDE DEF o
    <3>4. o + 2 <= PageSize /\ 3 + 2 <= o
      BY <1>1, <1>3, <3>1
    <3>5. Has(m2, o, "ptr", at[j], 2)
      BY <1>5, <3>1, <3>3, <3>4, HasStays
    <3>6. Has(m3, o, "ptr", at[j], 2)
      BY <1>3, <1>6, <3>1, <3>4, <3>5, HasStays
    <3>7. Has(n, o, "ptr", at[j], 2)
      BY <1>4, <1>8, <3>1, <3>2, <3>4, <3>6, HasStays
    <3>8. QED
      BY <1>10, <2>3, <3>7 DEF o
  <2>4. QED
    BY <2>2, <2>3
<1>15. CellsIn(n, q, bt)
  <2>1. SUFFICES ASSUME NEW j \in 1 .. Len(q.cells)
                 PROVE  CellIn(n, bt[j], leaf, q.cells[j])
    BY DEF CellsIn, leaf
  <2>2. CASE j = i
    <3>1. CellShape(leaf, c) /\ off + Size(leaf, c) <= PageSize
      BY <1>2, <1>3 DEF c, s
    <3>2. CellIn(n, off, leaf, c)
      BY <1>2, <1>3, <1>4, <1>6, <1>8, <3>1, CellStays
    <3>3. QED
      BY <1>10, <2>2, <3>2 DEF c
  <2>3. CASE j # i
    <3>1. /\ at[j] \in Nat /\ top <= at[j] /\ at[j] + s(j) <= PageSize
          /\ CellIn(m, at[j], leaf, q.cells[j])
      BY <1>11, <2>3
    <3>2. CellShape(leaf, q.cells[j])
          /\ at[j] + Size(leaf, q.cells[j]) <= PageSize
      BY <1>2, <3>1 DEF s
    <3>3. 3 + 2 <= at[j] /\ sl + 2 <= at[j]
      BY <1>1, <1>3, <1>4, <3>1
    <3>4. CellIn(m2, at[j], leaf, q.cells[j])
      BY <1>2, <1>5, <3>1, <3>2, <3>3, CellStays
    <3>5. CellIn(m3, at[j], leaf, q.cells[j])
      BY <1>2, <1>3, <1>6, <3>1, <3>2, <3>4, CellStays
    <3>6. CellIn(n, at[j], leaf, q.cells[j])
      BY <1>2, <1>4, <1>8, <3>1, <3>2, <3>3, <3>5, CellStays
    <3>7. QED
      BY <1>10, <2>3, <3>6
  <2>4. QED
    BY <2>2, <2>3
<1>16. off <= PageSize
  BY <1>1, <1>3
<1>17. QED
  BY <1>8, <1>9, <1>12, <1>13, <1>14, <1>15, <1>16 DEF LaidWith, Placed, off
-----------------------------------------------------------------------------
(* doInsert's shift of the slots: slot j has what slot j - 1 had.           *)
LEMMA ShiftUpEffect ==
  ASSUME NEW m, IsImage(m), NEW n \in Nat, NEW i \in 0 .. n,
         Slot(n + 1) <= PageSize,
         NEW o, o = ShiftUp(m, i, n)
  PROVE  /\ IsImage(o)
         /\ Elsewhere(m, o, Slot(i + 1), Slot(n + 1))
         /\ \A j \in i + 1 .. n : \A v :
              Has(m, Slot(j - 1), "ptr", v, 2) => Has(o, Slot(j), "ptr", v, 2)
<1> DEFINE from == Slot(i + 1)
           upto == Slot(n + 1)
<1>0. PageSize \in Nat /\ from = 15 + 2 * i /\ upto = 15 + 2 * n /\ upto <= PageSize
  BY PageSizeAssumption, SlotFacts
<1>1. IsImage(o)
  BY DEF IsImage, ShiftUp
<1>2. ASSUME NEW x \in 0 .. PageSize - 1
      PROVE  o[x] = IF x \in from .. upto - 1 THEN m[x - 2] ELSE m[x]
  BY DEF IsImage, ShiftUp, CellPtrSize
<1> HIDE DEF from, upto
<1>3. Elsewhere(m, o, from, upto)
  <2>1. SUFFICES ASSUME NEW x \in 0 .. PageSize - 1, x < from \/ upto <= x
                 PROVE  o[x] = m[x]
    BY DEF Elsewhere
  <2>2. x \notin from .. upto - 1
    BY <1>0, <2>1
  <2>3. QED
    BY <1>2, <2>2
<1>4. ASSUME NEW j \in i + 1 .. n, NEW v, Has(m, Slot(j - 1), "ptr", v, 2)
      PROVE  Has(o, Slot(j), "ptr", v, 2)
  <2>1. Slot(j) = 13 + 2 * j /\ Slot(j - 1) = 11 + 2 * j
    BY SlotFacts
  <2>2. SUFFICES ASSUME NEW b \in 0 .. 1 PROVE o[Slot(j) + b] = <<"ptr", v, b>>
    BY DEF Has
  <2> DEFINE x == Slot(j) + b
  <2>3. /\ x \in 0 .. PageSize - 1 /\ x \in from .. upto - 1
        /\ x - 2 = Slot(j - 1) + b
    <3>1. j \in Int /\ i + 1 <= j /\ j <= n /\ b \in Int /\ 0 <= b /\ b <= 1
      OBVIOUS
    <3>2. i \in Int /\ n \in Int /\ 0 <= i
      OBVIOUS
    <3>3. QED
      BY ONLY <1>0, <2>1, <3>1, <3>2
  <2>4. m[Slot(j - 1) + b] = <<"ptr", v, b>>
    BY <1>4 DEF Has
  <2> HIDE DEF x
  <2>5. o[x] = <<"ptr", v, b>>
    BY <1>2, <2>3, <2>4
  <2>6. QED
    BY <2>5 DEF x
<1>5. QED
  BY <1>1, <1>3, <1>4 DEF from, upto

(* The new cell and the page with it, before its right neighbour learns of  *)
(* its new left child.                                                      *)
NewCell(p, i, k, v) ==
  [key |-> k, val |-> v, lc |-> IF p.leaf THEN 0 ELSE ChildAt(p, i + 1)]

WithNewCell(p, i, k, v) ==
  [leaf |-> p.leaf, cells |-> InsertAt(p.cells, i + 1, NewCell(p, i, k, v)),
   content |-> p.content - CellSize(p.leaf, v),
   rightmost |-> p.rightmost, next |-> p.next]

LEMMA NewCellShape ==
  ASSUME NEW p, PageShape(p), NEW i \in 0 .. Len(p.cells), NEW k \in Int,
         NEW v \in ValuesOf(p.leaf)
  PROVE  /\ CellShape(p.leaf, NewCell(p, i, k, v))
         /\ Size(p.leaf, NewCell(p, i, k, v)) = CellSize(p.leaf, v)
<1> DEFINE c == NewCell(p, i, k, v)
<1>1. /\ p.leaf \in BOOLEAN /\ p.rightmost \in Nat /\ Len(p.cells) \in Nat
      /\ NumCells(p) = Len(p.cells)
      /\ \A j \in 1 .. Len(p.cells) : p.cells[j] \in Cell
  BY ShapeFacts
<1>2. ~p.leaf => ChildAt(p, i + 1) \in Nat
  <2>1. CASE i = Len(p.cells)
    BY <1>1, <2>1 DEF ChildAt
  <2>2. CASE i # Len(p.cells)
    <3>1. i + 1 \in 1 .. Len(p.cells) /\ i + 1 # NumCells(p) + 1
      BY <1>1, <2>2
    <3>2. p.cells[i + 1].lc \in Nat
      BY <1>1, <3>1 DEF Cell
    <3>3. QED
      BY <3>1, <3>2 DEF ChildAt
  <2>3. QED
    BY <2>1, <2>2
<1>3. c.key = k /\ c.val = v /\ c.lc = IF p.leaf THEN 0 ELSE ChildAt(p, i + 1)
  BY DEF NewCell
<1>4. c.lc \in Nat
  BY <1>2, <1>3
<1>5. v \in Values \cup {Nil}
  BY DEF ValuesOf
<1>6. c \in Cell
  BY <1>3, <1>4, <1>5 DEF NewCell, Cell
<1>7. ~HasChild(p.leaf) => c.lc = 0
  BY <1>3 DEF HasChild
<1>8. QED
  BY <1>3, <1>6, <1>7 DEF CellShape, Size

LEMMA NewCellPage ==
  ASSUME NEW p, PageShape(p), NEW i \in 0 .. Len(p.cells), NEW k \in Int,
         NEW v \in ValuesOf(p.leaf), NEW q, q = WithNewCell(p, i, k, v)
  PROVE  /\ PageShape(q) /\ q.leaf = p.leaf /\ q.next = p.next
         /\ q.rightmost = p.rightmost
         /\ q.content = p.content - CellSize(p.leaf, v)
         /\ Len(q.cells) = Len(p.cells) + 1
         /\ \A j \in 1 .. Len(p.cells) + 1 :
              q.cells[j] = IF j < i + 1 THEN p.cells[j]
                           ELSE IF j = i + 1 THEN NewCell(p, i, k, v)
                           ELSE p.cells[j - 1]
<1> DEFINE c == NewCell(p, i, k, v)
           s == InsertAt(p.cells, i + 1, c)
           l == Len(p.cells)
<1>1. /\ p.leaf \in BOOLEAN /\ p.cells \in Seq(Cell) /\ p.content \in Int
      /\ p.rightmost \in Nat /\ p.next \in Int /\ l \in Nat
      /\ \A j \in 1 .. l : CellShape(p.leaf, p.cells[j])
  BY ShapeFacts
<1>2. CellShape(p.leaf, c) /\ c \in Cell /\ CellSize(p.leaf, v) \in Nat
  <2>1. CellShape(p.leaf, c) /\ Size(p.leaf, c) = CellSize(p.leaf, v)
    BY NewCellShape
  <2>2. Size(p.leaf, c) \in Nat
    BY <1>1, <2>1, CellFields
  <2>3. QED
    BY <2>1, <2>2 DEF CellShape
<1> HIDE DEF c
<1>3. i + 1 \in 1 .. Len(p.cells) + 1
  BY <1>1
<1>4. /\ s \in Seq(Cell) /\ Len(s) = l + 1
      /\ \A j \in 1 .. l + 1 : s[j] = IF j < i + 1 THEN p.cells[j]
                                      ELSE IF j = i + 1 THEN c ELSE p.cells[j - 1]
  <2> DEFINE g == i + 1
             t == p.cells
  <2>1. t \in Seq(Cell) /\ c \in Cell /\ g \in 1 .. Len(t) + 1
    BY <1>1, <1>2, <1>3
  <2> HIDE DEF g, t
  <2>2. /\ InsertAt(t, g, c) \in Seq(Cell)
        /\ Len(InsertAt(t, g, c)) = Len(t) + 1
    BY ONLY <2>1, InsertAtElements
  <2>3. \A j \in 1 .. Len(t) + 1 :
             InsertAt(t, g, c)[j] = IF j < g THEN t[j]
                                    ELSE IF j = g THEN c ELSE t[j - 1]
    BY ONLY <2>1, InsertAtElements
  <2>4. QED
    BY <2>2, <2>3 DEF g, t
<1> HIDE DEF s, l
<1>5. /\ q.leaf = p.leaf /\ q.next = p.next /\ q.rightmost = p.rightmost
      /\ q.content = p.content - CellSize(p.leaf, v) /\ q.cells = s
  BY DEF WithNewCell, s, c
<1>6. q \in Page
  BY <1>1, <1>2, <1>4 DEF WithNewCell, Page, s, c
<1>7. ASSUME NEW j \in 1 .. l + 1
      PROVE  CellShape(p.leaf, s[j])
  <2>1. CASE j < i + 1
    <3>1. j \in 1 .. l
      BY <1>1, <2>1 DEF l
    <3>2. QED
      BY <1>1, <1>4, <2>1, <3>1
  <2>2. CASE j = i + 1
    BY <1>2, <1>4, <2>2
  <2>3. CASE j > i + 1
    <3>1. j - 1 \in 1 .. l /\ ~(j < i + 1) /\ j # i + 1
      BY <1>1, <2>3
    <3>2. QED
      BY <1>1, <1>4, <3>1
  <2>4. QED
    BY <1>1, <2>1, <2>2, <2>3
<1>8. PageShape(q)
  BY <1>4, <1>5, <1>6, <1>7 DEF PageShape
<1>9. QED
  BY <1>4, <1>5, <1>8 DEF l, c

(* What WithCell and the smaller cell area make of the page.                *)
Inserted(p, i, k, v, rc, q) ==
  LET r == WithNewCell(p, i, k, v)
  IN  \/ /\ i = Len(p.cells)
         /\ q \in Page /\ q.leaf = r.leaf /\ q.cells = r.cells
         /\ q.content = r.content /\ q.next = r.next /\ q.rightmost = rc
      \/ i # Len(p.cells) /\ p.leaf /\ q = r
      \/ /\ i # Len(p.cells) /\ ~p.leaf
         /\ OneCellSet(r, i + 2, q)
         /\ q.cells[i + 2].key = r.cells[i + 2].key
         /\ q.cells[i + 2].val = r.cells[i + 2].val
         /\ q.cells[i + 2].lc = rc

LEMMA WithCellInserts ==
  ASSUME NEW p, PageShape(p), NEW i \in 0 .. Len(p.cells), NEW k \in Int,
         NEW v \in ValuesOf(p.leaf), NEW rc \in Nat
  PROVE  Inserted(p, i, k, v, rc,
                  [WithCell(p, i + 1, k, v, rc)
                     EXCEPT !.content = @ - CellSize(p.leaf, v)])
<1> DEFINE r == WithNewCell(p, i, k, v)
           s == r.cells
           x == p.content - CellSize(p.leaf, v)
           q == [WithCell(p, i + 1, k, v, rc)
                   EXCEPT !.content = @ - CellSize(p.leaf, v)]
<1>1. p \in Page /\ NumCells(p) = Len(p.cells) /\ Len(p.cells) \in Nat
  BY ShapeFacts DEF PageShape
<1>2. /\ PageShape(r) /\ r.leaf = p.leaf /\ r.next = p.next
      /\ r.rightmost = p.rightmost /\ r.content = x /\ Len(s) = Len(p.cells) + 1
  BY NewCellPage
<1>3. s = InsertAt(p.cells, i + 1, NewCell(p, i, k, v))
  BY DEF WithNewCell
<1>4. r \in Page /\ s \in Seq(Cell) /\ x \in Int
  BY <1>2, ShapeFacts DEF PageShape
<1>5. i + 1 = NumCells(p) + 1 <=> i = Len(p.cells)
  BY <1>1
<1>6. CASE i = Len(p.cells)
  <2>1. q = [[p EXCEPT !.cells = s, !.rightmost = rc] EXCEPT !.content = x]
    <3>1. WithCell(p, i + 1, k, v, rc) = [p EXCEPT !.cells = s, !.rightmost = rc]
      BY <1>3, <1>5, <1>6 DEF WithCell, NewCell
    <3>2. [p EXCEPT !.cells = s, !.rightmost = rc].content = p.content
      BY <1>1 DEF Page
    <3>3. QED
      BY <3>1, <3>2
  <2> HIDE DEF q, s, x, r
  <2>2. /\ q \in Page /\ q.leaf = p.leaf /\ q.cells = s /\ q.content = x
        /\ q.next = p.next /\ q.rightmost = rc
    BY <1>1, <1>4, <2>1 DEF Page
  <2>3. Inserted(p, i, k, v, rc, q)
    BY <1>2, <1>6, <2>2 DEF Inserted, s, r
  <2>4. QED
    BY <2>3 DEF q
<1>7. CASE i # Len(p.cells) /\ p.leaf
  <2>1. q = [[p EXCEPT !.cells = s] EXCEPT !.content = x]
    <3>1. WithCell(p, i + 1, k, v, rc) = [p EXCEPT !.cells = s]
      BY <1>3, <1>5, <1>7 DEF WithCell, NewCell
    <3>2. [p EXCEPT !.cells = s].content = p.content
      BY <1>1 DEF Page
    <3>3. QED
      BY <3>1, <3>2
  <2> HIDE DEF q, s, x
  <2>2. q = r
    <3>1. q = [leaf |-> p.leaf, cells |-> s, content |-> x,
               rightmost |-> p.rightmost, next |-> p.next]
      BY <1>1, <2>1 DEF Page
    <3>2. QED
      BY <1>3, <3>1 DEF WithNewCell, x
  <2>3. Inserted(p, i, k, v, rc, q)
    BY <1>7, <2>2 DEF Inserted, r
  <2>4. QED
    BY <2>3 DEF q
<1>8. CASE i # Len(p.cells) /\ ~p.leaf
  <2> DEFINE c == s[i + 2]
             d == [c EXCEPT !.lc = rc]
             t == [s EXCEPT ![i + 2] = d]
  <2>1. q = [[p EXCEPT !.cells = t] EXCEPT !.content = x]
    <3>0. (i + 1) + 1 = i + 2
      OBVIOUS
    <3>1. WithCell(p, i + 1, k, v, rc) = [p EXCEPT !.cells = t]
      BY <1>3, <1>5, <1>8, <3>0 DEF WithCell, NewCell
    <3>2. [p EXCEPT !.cells = t].content = p.content
      BY <1>1 DEF Page
    <3>3. QED
      BY <3>1, <3>2
  <2>2. i + 2 \in 1 .. Len(s)
    BY <1>1, <1>2, <1>8
  <2>3. c \in Cell
    BY <1>4, <2>2
  <2> HIDE DEF q, s, x, r, c
  <2>4. d \in Cell /\ d.key = c.key /\ d.val = c.val /\ d.lc = rc
    BY <2>3 DEF Cell
  <2> HIDE DEF d
  <2>5. /\ t \in Seq(Cell) /\ Len(t) = Len(s) /\ t[i + 2] = d
        /\ \A j \in 1 .. Len(s) : j # i + 2 => t[j] = s[j]
    BY <1>4, <2>2, <2>4
  <2> HIDE DEF t
  <2>6. /\ q \in Page /\ q.leaf = p.leaf /\ q.cells = t /\ q.content = x
        /\ q.next = p.next /\ q.rightmost = p.rightmost
    BY <1>1, <1>4, <2>1, <2>5 DEF Page
  <2>7. OneCellSet(r, i + 2, q)
    BY <1>2, <2>5, <2>6 DEF OneCellSet, s
  <2>8. Inserted(p, i, k, v, rc, q)
    <3>1. /\ q.cells[i + 2].key = r.cells[i + 2].key
          /\ q.cells[i + 2].val = r.cells[i + 2].val
          /\ q.cells[i + 2].lc = rc
      BY <2>4, <2>5, <2>6 DEF c, s
    <3>2. QED
      BY <1>8, <2>7, <3>1 DEF Inserted, r
  <2>9. QED
    BY <2>8 DEF q
<1>9. QED
  BY <1>6, <1>7, <1>8
-----------------------------------------------------------------------------
(* The child left of position i reads as the page has it.                   *)
LEMMA ChildReads ==
  ASSUME NEW m, NEW p, Laid(m, p), ~p.leaf, NEW i \in 0 .. Len(p.cells)
  PROVE  ChildIdAt(m, i, Len(p.cells)) = ChildAt(p, i + 1)
<1>1. LaidWith(m, p, Len(p.cells))
  BY DEF Laid
<1>2. Len(p.cells) \in Nat /\ NumCells(p) = Len(p.cells)
  BY <1>1, LaidFacts, ShapeFacts
<1>3. CASE i = Len(p.cells)
  <2>1. RightmostAt(m) = p.rightmost
    BY <1>1, HeaderReads
  <2>2. QED
    BY <1>2, <1>3, <2>1 DEF ChildIdAt, ChildAt
<1>4. CASE i # Len(p.cells)
  <2>1. i + 1 \in 1 .. Len(p.cells) /\ (i + 1) - 1 = i
        /\ i + 1 # NumCells(p) + 1
    BY <1>2, <1>4
  <2>2. PICK at : Placed(m, p, at)
    BY <1>1 DEF LaidWith
  <2>3. CellPtr(m, i) = at[i + 1]
        /\ LCAt(m, at[i + 1], p.leaf) = p.cells[i + 1].lc
    <3>1. /\ CellPtr(m, (i + 1) - 1) = at[i + 1]
          /\ LCAt(m, at[i + 1], p.leaf) = p.cells[i + 1].lc
      BY <1>1, <2>1, <2>2, CellReads
    <3>2. QED
      BY <2>1, <3>1
  <2>4. LCAt(m, at[i + 1], p.leaf) = LCAt(m, at[i + 1], FALSE)
    BY DEF LCAt, HasChild
  <2>5. QED
    BY <1>4, <2>1, <2>3, <2>4 DEF ChildIdAt, ChildAt
<1>5. QED
  BY <1>3, <1>4

(* The slots make room and the new cell is written, before its right        *)
(* neighbour learns of its new left child.                                  *)
LEMMA NewCellKeeps ==
  ASSUME NEW m, NEW p, Laid(m, p), NEW i \in 0 .. Len(p.cells), NEW k \in Int,
         NEW v \in ValuesOf(p.leaf), NEW r, r = WithNewCell(p, i, k, v),
         Fits(r),
         NEW n, n = SetCellPtr(WriteCell(SetContent(ShiftUp(m, i, Len(p.cells)),
                                                    r.content),
                                         r.content, p.leaf, NewCell(p, i, k, v)),
                               i, r.content)
  PROVE  LaidWith(n, r, Len(p.cells))
<1> DEFINE l == Len(p.cells)
           leaf == p.leaf
           c == NewCell(p, i, k, v)
           o == ShiftUp(m, i, l)
           s(j) == Size(leaf, p.cells[j])
           z(j) == Size(leaf, r.cells[j])
           src(j) == IF j < i + 1 THEN j ELSE j - 1
<1>1. /\ PageShape(p) /\ IsImage(m) /\ Header(m, p, l) /\ PageSize \in Nat
      /\ p.content \in Nat /\ 13 <= p.content /\ p.content <= PageSize
      /\ SlotsBelow(p, p.content)
  BY LaidFacts DEF Laid
<1>2. PICK at : Placed(m, p, at)
  BY DEF Laid, LaidWith
<1>3. leaf \in BOOLEAN /\ l \in Nat
  BY <1>1, ShapeFacts
<1>4. /\ PageShape(r) /\ r.leaf = leaf /\ r.next = p.next
      /\ r.rightmost = p.rightmost
      /\ r.content = p.content - CellSize(leaf, v)
      /\ Len(r.cells) = l + 1
  BY <1>1, NewCellPage
<1>5. \A j \in 1 .. l + 1 :
        r.cells[j] = IF j < i + 1 THEN p.cells[j]
                     ELSE IF j = i + 1 THEN c ELSE p.cells[j - 1]
  BY <1>1, NewCellPage
<1>6. Size(leaf, c) = CellSize(leaf, v) /\ CellShape(leaf, c)
  BY <1>1, NewCellShape
<1>7. i + 1 \in 1 .. l + 1 /\ i + 1 \in 1 .. Len(r.cells) /\ (i + 1) - 1 = i
  BY <1>3, <1>4
<1>8. r.cells[i + 1] = c
  <2>1. ~(i + 1 < i + 1)
    BY <1>3
  <2>2. QED
    BY <1>5, <1>7, <2>1
<1>9. Slot(l + 1) <= PageSize /\ Slot(l + 1) = 15 + 2 * l /\ Slot(l + 1) \in Int
      /\ Slot(i + 1) = 15 + 2 * i /\ Slot(i + 1) \in Int
      /\ Slot(l + 1) <= r.content
  <2>1. NumCells(r) = l + 1 /\ r.content \in Int
    BY <1>4, ShapeFacts
  <2>2. r.content >= 13 + 2 * (l + 1)
    <3>1. r.content - (13 + (l + 1) * 2) >= 0
      BY ONLY <2>1, Fits(r) DEF Fits, FreeSpace, OffCellPtrs, CellPtrSize
    <3>2. QED
      BY ONLY <1>3, <2>1, <3>1
  <2>3. Slot(l + 1) = 13 + 2 * (l + 1) /\ Slot(i + 1) = 13 + 2 * (i + 1)
    <3>1. l + 1 \in Int /\ i + 1 \in Int
      BY <1>3
    <3>2. QED
      BY ONLY <3>1, SlotFacts
  <2>4. CellSize(leaf, v) \in Nat
    BY <1>3, <1>6, CellFields
  <2>5. i \in Int
    OBVIOUS
  <2>6. r.content = p.content - CellSize(leaf, v)
    BY <1>4
  <2>7. QED
    BY ONLY <1>1, <1>3, <2>1, <2>2, <2>3, <2>4, <2>5, <2>6
<1>10. /\ IsImage(o) /\ Elsewhere(m, o, Slot(i + 1), Slot(l + 1))
       /\ \A j \in i + 1 .. l : \A x :
            Has(m, Slot(j - 1), "ptr", x, 2) => Has(o, Slot(j), "ptr", x, 2)
  BY <1>1, <1>3, <1>9, ShiftUpEffect
<1> HIDE DEF o
<1>11. HeaderBut(o, r, l)
  <2>1. 13 <= PageSize /\ 13 <= Slot(i + 1)
    BY <1>1, <1>9
  <2>2. Header(o, p, l)
    BY <1>1, <1>9, <1>10, <2>1, HeaderStays
  <2>3. QED
    BY <1>4, <2>2 DEF Header, HeaderBut
<1>12. ASSUME NEW j \in 1 .. l + 1, j # i + 1
       PROVE  src(j) \in 1 .. l /\ r.cells[j] = p.cells[src(j)]
  <2>1. CASE j < i + 1
    <3>1. src(j) = j /\ j \in 1 .. l
      BY <1>3, <2>1
    <3>2. QED
      BY <1>5, <2>1, <3>1
  <2>2. CASE ~(j < i + 1)
    <3>1. src(j) = j - 1 /\ j - 1 \in 1 .. l
      BY <1>3, <1>12, <2>2
    <3>2. QED
      BY <1>5, <1>12, <2>2, <3>1
  <2>3. QED
    BY <2>1, <2>2
<1>13. ASSUME NEW j \in 1 .. l
       PROVE  /\ at[j] \in Nat /\ p.content <= at[j] /\ at[j] + s(j) <= PageSize
              /\ Has(m, Slot(j - 1), "ptr", at[j], 2)
              /\ CellIn(m, at[j], leaf, p.cells[j])
              /\ CellShape(leaf, p.cells[j])
  <2>1. CellShape(leaf, p.cells[j])
    BY <1>1, ShapeFacts
  <2>2. QED
    BY <1>2, <2>1 DEF Placed, InArea, Slots, CellsIn
<1>14. ASSUME NEW j \in 1 .. l, NEW h \in 1 .. l, j # h
       PROVE  at[j] + s(j) <= at[h] \/ at[h] + s(h) <= at[j]
  BY <1>2, <1>14 DEF Placed, Apart
<1> DEFINE bt == [j \in 1 .. l + 1 |-> at[src(j)]]
<1>15. \A j \in 1 .. l + 1 : bt[j] = at[src(j)]
  OBVIOUS
<1> HIDE DEF bt
<1>16. ASSUME NEW j \in 1 .. l + 1, j # i + 1
       PROVE  /\ bt[j] \in Nat /\ p.content <= bt[j] /\ bt[j] + z(j) <= PageSize
              /\ Has(o, Slot(j - 1), "ptr", bt[j], 2)
              /\ CellIn(o, bt[j], leaf, r.cells[j])
  <2> DEFINE h == src(j)
  <2>1. h \in 1 .. l /\ r.cells[j] = p.cells[h] /\ bt[j] = at[h]
    BY <1>12, <1>15, <1>16
  <2>2. h = IF j < i + 1 THEN j ELSE j - 1
    OBVIOUS
  <2> HIDE DEF h
  <2>3. /\ at[h] \in Nat /\ p.content <= at[h] /\ at[h] + s(h) <= PageSize
        /\ Has(m, Slot(h - 1), "ptr", at[h], 2)
        /\ CellIn(m, at[h], leaf, p.cells[h]) /\ CellShape(leaf, p.cells[h])
    BY <1>13, <2>1
  <2>4. CellIn(o, at[h], leaf, p.cells[h])
    <3>1. Slot(l + 1) <= at[h]
      <4>1. r.content <= p.content
        <5>1. CellSize(leaf, v) \in Nat
          BY <1>3, <1>6, CellFields
        <5>2. QED
          BY <1>1, <1>4, <5>1
      <4>2. r.content \in Int
        BY <1>4, ShapeFacts
      <4>3. Slot(l + 1) \in Int /\ Slot(l + 1) <= r.content
        BY <1>9
      <4>4. at[h] \in Nat /\ p.content <= at[h] /\ p.content \in Nat
        BY <1>1, <2>3
      <4>5. QED
        BY ONLY <4>1, <4>2, <4>3, <4>4
    <3>2. QED
      BY <1>3, <1>9, <1>10, <2>3, <3>1, CellStays
  <2>5. Has(o, Slot(j - 1), "ptr", at[h], 2)
    <3>1. CASE j < i + 1
      <4>1. h = j /\ j - 1 \in Int
        BY <2>2, <3>1
      <4>2. Slot(j - 1) = 13 + 2 * (j - 1)
        BY <4>1, SlotFacts
      <4>3. Slot(j - 1) \in Nat /\ Slot(j - 1) + 2 <= Slot(i + 1)
            /\ Slot(j - 1) + 2 <= PageSize
        <5>1. j \in Int /\ 1 <= j /\ i \in Int /\ i <= l
          OBVIOUS
        <5>2. QED
          BY ONLY <1>1, <1>3, <1>9, <3>1, <4>2, <5>1
      <4>4. QED
        BY <1>9, <1>10, <2>3, <4>1, <4>3, HasStays
    <3>2. CASE ~(j < i + 1)
      <4>1. h = j - 1 /\ h \in i + 1 .. l
        BY <1>3, <1>16, <2>2, <3>2
      <4>2. QED
        BY <1>10, <2>3, <4>1
    <3>3. QED
      BY <3>1, <3>2
  <2>6. QED
    BY <2>1, <2>3, <2>4, <2>5
<1>17. ASSUME NEW j \in 1 .. l + 1, NEW h \in 1 .. l + 1,
              j # i + 1, h # i + 1, j # h
       PROVE  bt[j] + z(j) <= bt[h] \/ bt[h] + z(h) <= bt[j]
  <2>1. /\ src(j) \in 1 .. l /\ r.cells[j] = p.cells[src(j)]
        /\ bt[j] = at[src(j)]
        /\ src(h) \in 1 .. l /\ r.cells[h] = p.cells[src(h)]
        /\ bt[h] = at[src(h)]
    BY <1>12, <1>15, <1>17
  <2>2. src(j) # src(h)
    BY <1>3, <1>17
  <2>3. QED
    BY <1>14, <2>1, <2>2
<1>18. OthersPlaced(o, r, i + 1, p.content, bt)
  <2>1. ASSUME NEW j \in 1 .. Len(r.cells), j # i + 1
        PROVE  /\ bt[j] \in Nat /\ p.content <= bt[j]
               /\ bt[j] + Size(r.leaf, r.cells[j]) <= PageSize
               /\ Has(o, Slot(j - 1), "ptr", bt[j], 2)
               /\ CellIn(o, bt[j], r.leaf, r.cells[j])
    BY <1>4, <1>16, <2>1
  <2>2. ASSUME NEW j \in 1 .. Len(r.cells), NEW h \in 1 .. Len(r.cells),
               j # i + 1, h # i + 1, j # h
        PROVE  \/ bt[j] + Size(r.leaf, r.cells[j]) <= bt[h]
               \/ bt[h] + Size(r.leaf, r.cells[h]) <= bt[j]
    BY <1>4, <1>17, <2>2
  <2>3. QED
    BY <2>1, <2>2 DEF OthersPlaced
<1>19. r.content + Size(r.leaf, r.cells[i + 1]) = p.content
  <2>1. CellSize(leaf, v) \in Nat
    BY <1>3, <1>6, CellFields
  <2>2. Size(r.leaf, r.cells[i + 1]) = CellSize(leaf, v)
    BY <1>4, <1>6, <1>8
  <2>3. QED
    BY <1>1, <1>4, <2>1, <2>2
<1>20. n = SetCellPtr(WriteCell(SetContent(o, r.content), r.content, r.leaf,
                                r.cells[i + 1]), (i + 1) - 1, r.content)
  BY <1>4, <1>7, <1>8 DEF o
<1>21. QED
  BY <1>1, <1>4, <1>7, <1>10, <1>11, <1>18, <1>19, <1>20, AddCellKeeps

(* doInsert on a page with room for the cell and its pointer.               *)
LEMMA InsertKeeps ==
  ASSUME NEW m, NEW p, Laid(m, p), NEW i \in 0 .. Len(p.cells), NEW k \in Int,
         NEW v \in ValuesOf(p.leaf), NEW rc \in Nat,
         NEW q, Inserted(p, i, k, v, rc, q), Fits(q)
  PROVE  Laid(InsertAtIdx(m, i, Len(p.cells), p.leaf, k, v, rc), q)
<1> DEFINE l == Len(p.cells)
           r == WithNewCell(p, i, k, v)
           c == NewCell(p, i, k, v)
           off == ContentAt(m) - CellSize(p.leaf, v)
           slotted == SetCellPtr(WriteCell(SetContent(ShiftUp(m, i, l), off), off,
                                           p.leaf, c), i, off)
           linked == IF i = l THEN SetRightmost(slotted, rc)
                     ELSE IF p.leaf THEN slotted
                     ELSE Put(slotted, CellPtr(slotted, i + 1), "lc", rc, 4)
           n == InsertAtIdx(m, i, l, p.leaf, k, v, rc)
<1>1. PageShape(p) /\ p.leaf \in BOOLEAN /\ l \in Nat /\ NumCells(p) = l
  BY LaidFacts, ShapeFacts DEF Laid
<1>2. /\ PageShape(r) /\ r.leaf = p.leaf /\ r.next = p.next
      /\ r.rightmost = p.rightmost
      /\ r.content = p.content - CellSize(p.leaf, v)
      /\ Len(r.cells) = l + 1
  BY <1>1, NewCellPage
<1>3. off = r.content
  <2>1. ContentAt(m) = p.content
    BY HeaderReads DEF Laid
  <2>2. QED
    BY <1>2, <2>1
<1>4. c = [key |-> k, val |-> v, lc |-> IF p.leaf THEN 0 ELSE ChildIdAt(m, i, l)]
  <2>1. ~p.leaf => ChildIdAt(m, i, l) = ChildAt(p, i + 1)
    BY ChildReads
  <2>2. QED
    BY <1>1, <2>1 DEF NewCell
<1>5. n = SetNumCells(linked, l + 1)
  BY <1>4 DEF InsertAtIdx
<1> HIDE DEF r
<1>6. /\ Len(q.cells) = l + 1 /\ q.leaf = p.leaf /\ q.content = r.content
      /\ q.next = r.next
  BY <1>1, <1>2 DEF Inserted, r, OneCellSet
<1>7. Fits(r)
  BY <1>2, <1>6 DEF Fits, FreeSpace, NumCells
<1>8. LaidWith(slotted, r, l)
  <2>1. slotted = SetCellPtr(WriteCell(SetContent(ShiftUp(m, i, l), r.content),
                                       r.content, p.leaf, c), i, r.content)
    BY <1>3
  <2>2. r = WithNewCell(p, i, k, v)
    BY DEF r
  <2> HIDE DEF slotted
  <2>3. QED
    BY <1>7, <2>1, <2>2, NewCellKeeps
<1> HIDE DEF slotted, n, off
<1>9. LaidWith(linked, q, l)
  <2>1. CASE i = l
    <3>1. /\ q \in Page /\ q.cells = r.cells /\ q.rightmost = rc
      BY <2>1 DEF Inserted, r
    <3>2. linked = SetRightmost(slotted, q.rightmost)
      BY <2>1, <3>1
    <3>3. LaidWith(SetRightmost(slotted, q.rightmost), q, l)
      BY <1>2, <1>6, <1>8, <3>1, RightmostKeeps
    <3>4. QED
      BY <3>2, <3>3
  <2>2. CASE i # l /\ p.leaf
    <3>1. q = r /\ linked = slotted
      BY <2>2 DEF Inserted, r
    <3>2. QED
      BY <1>8, <3>1
  <2>3. CASE i # l /\ ~p.leaf
    <3>1. /\ OneCellSet(r, i + 2, q) /\ q.cells[i + 2].lc = rc
          /\ q.cells[i + 2].key = r.cells[i + 2].key
          /\ q.cells[i + 2].val = r.cells[i + 2].val
      BY <2>3 DEF Inserted, r
    <3>2. i + 2 \in 1 .. Len(r.cells) /\ (i + 2) - 1 = i + 1
      BY <1>1, <1>2, <2>3
    <3>3. linked = Put(slotted, CellPtr(slotted, (i + 2) - 1), "lc", rc, 4)
      BY <2>3, <3>2
    <3>4. HasChild(r.leaf)
      BY <1>2, <2>3 DEF HasChild
    <3> HIDE DEF linked
    <3>5. LaidWith(Put(slotted, CellPtr(slotted, (i + 2) - 1), "lc", rc, 4), q, l)
      <4> DEFINE e == i + 2
      <4>1. /\ OneCellSet(r, e, q) /\ q.cells[e].lc = rc
            /\ q.cells[e].key = r.cells[e].key
            /\ q.cells[e].val = r.cells[e].val /\ e \in 1 .. Len(r.cells)
        BY <3>1, <3>2
      <4> HIDE DEF e
      <4>2. LaidWith(Put(slotted, CellPtr(slotted, e - 1), "lc", rc, 4), q, l)
        BY <1>8, <3>4, <4>1, ChildKeeps
      <4>3. QED
        BY <4>2 DEF e
    <3>6. QED
      BY <3>3, <3>5
  <2>4. QED
    BY <2>1, <2>2, <2>3
<1> HIDE DEF linked
<1>10. LaidWith(n, q, l + 1)
  BY <1>5, <1>9, CountKeeps
<1>11. QED
  BY <1>6, <1>10 DEF Laid, n
-----------------------------------------------------------------------------
(* DeleteAt's shift of the slots: slot j has what slot j + 1 had.           *)
ShiftDown(m, i, n) ==
  [x \in DOMAIN m |-> IF x \in Slot(i) .. Slot(n - 1) - 1
                      THEN m[x + CellPtrSize] ELSE m[x]]

LEMMA ShiftDownEffect ==
  ASSUME NEW m, IsImage(m), NEW n \in Nat, NEW i \in 0 .. n - 1,
         Slot(n) <= PageSize,
         NEW o, o = ShiftDown(m, i, n)
  PROVE  /\ IsImage(o)
         /\ Elsewhere(m, o, Slot(i), Slot(n - 1))
         /\ \A j \in i .. n - 2 : \A v :
              Has(m, Slot(j + 1), "ptr", v, 2) => Has(o, Slot(j), "ptr", v, 2)
<1> DEFINE from == Slot(i)
           upto == Slot(n - 1)
<1>0. PageSize \in Nat /\ from = 13 + 2 * i /\ upto = 11 + 2 * n /\ upto <= PageSize
  <2>1. Slot(i) = 13 + 2 * i /\ Slot(n - 1) = 13 + 2 * (n - 1)
        /\ Slot(n) = 13 + 2 * n
    BY SlotFacts
  <2>2. n \in Int /\ PageSize \in Nat /\ Slot(n) <= PageSize
    BY PageSizeAssumption
  <2>3. QED
    BY <2>1, <2>2
<1>1. IsImage(o)
  BY DEF IsImage, ShiftDown
<1>2. ASSUME NEW x \in 0 .. PageSize - 1
      PROVE  o[x] = IF x \in from .. upto - 1 THEN m[x + 2] ELSE m[x]
  BY DEF IsImage, ShiftDown, CellPtrSize
<1> HIDE DEF from, upto
<1>3. Elsewhere(m, o, from, upto)
  <2>1. SUFFICES ASSUME NEW x \in 0 .. PageSize - 1, x < from \/ upto <= x
                 PROVE  o[x] = m[x]
    BY DEF Elsewhere
  <2>2. x \notin from .. upto - 1
    BY <1>0, <2>1
  <2>3. QED
    BY <1>2, <2>2
<1>4. ASSUME NEW j \in i .. n - 2, NEW v, Has(m, Slot(j + 1), "ptr", v, 2)
      PROVE  Has(o, Slot(j), "ptr", v, 2)
  <2>1. Slot(j) = 13 + 2 * j /\ Slot(j + 1) = 15 + 2 * j
    BY SlotFacts
  <2>2. SUFFICES ASSUME NEW b \in 0 .. 1 PROVE o[Slot(j) + b] = <<"ptr", v, b>>
    BY DEF Has
  <2> DEFINE x == Slot(j) + b
  <2>3. /\ x \in 0 .. PageSize - 1 /\ x \in from .. upto - 1
        /\ x + 2 = Slot(j + 1) + b
    <3>1. j \in Int /\ i <= j /\ j <= n - 2 /\ b \in Int /\ 0 <= b /\ b <= 1
      OBVIOUS
    <3>2. i \in Int /\ n \in Int /\ 0 <= i
      OBVIOUS
    <3>3. QED
      BY ONLY <1>0, <2>1, <3>1, <3>2
  <2>4. m[Slot(j + 1) + b] = <<"ptr", v, b>>
    BY <1>4 DEF Has
  <2> HIDE DEF x
  <2>5. o[x] = <<"ptr", v, b>>
    BY <1>2, <2>3, <2>4
  <2>6. QED
    BY <2>5 DEF x
<1>5. QED
  BY <1>1, <1>3, <1>4 DEF from, upto

(* q is the page p without cell i + 1.                                      *)
Deleted(p, i, q) ==
  /\ q \in Page /\ q.leaf = p.leaf /\ q.content = p.content
  /\ q.rightmost = p.rightmost /\ q.next = p.next
  /\ Len(q.cells) = Len(p.cells) - 1
  /\ \A j \in 1 .. Len(p.cells) - 1 :
       q.cells[j] = IF j < i + 1 THEN p.cells[j] ELSE p.cells[j + 1]

LEMMA DeleteCellDeletes ==
  ASSUME NEW p, PageShape(p), NEW i \in 0 .. Len(p.cells) - 1
  PROVE  Deleted(p, i, DeleteCell(p, i + 1))
<1> DEFINE e == i + 1
           t == p.cells
           s == RemoveAt(t, e)
           q == [p EXCEPT !.cells = s]
<1>1. t \in Seq(Cell) /\ Len(t) \in Nat /\ p \in Page
  BY ShapeFacts DEF PageShape
<1>2. e \in 1 .. Len(t)
  BY <1>1
<1> HIDE DEF e, t
<1>3. RemoveAt(t, e) \in Seq(Cell) /\ Len(RemoveAt(t, e)) = Len(t) - 1
  BY ONLY <1>1, <1>2, RemoveAtElements
<1>4. \A j \in 1 .. Len(t) - 1 :
        RemoveAt(t, e)[j] = IF j < e THEN t[j] ELSE t[j + 1]
  BY ONLY <1>1, <1>2, RemoveAtElements
<1> HIDE DEF s
<1>5. /\ q \in Page /\ q.leaf = p.leaf /\ q.content = p.content
      /\ q.rightmost = p.rightmost /\ q.next = p.next /\ q.cells = s
  BY <1>1, <1>3 DEF Page, s
<1> HIDE DEF q
<1>6. Deleted(p, i, q)
  BY <1>3, <1>4, <1>5 DEF Deleted, s, t, e
<1>7. q = DeleteCell(p, i + 1)
  BY DEF q, s, t, e, DeleteCell
<1>8. QED
  BY <1>6, <1>7

LEMMA DeleteKeeps ==
  ASSUME NEW m, NEW p, Laid(m, p), NEW i \in 0 .. Len(p.cells) - 1,
         NEW q, Deleted(p, i, q)
  PROVE  Laid(DeleteAt(m, i, Len(p.cells)), q)
<1> DEFINE l == Len(p.cells)
           leaf == p.leaf
           o == ShiftDown(m, i, l)
           s(j) == Size(leaf, p.cells[j])
           z(j) == Size(leaf, q.cells[j])
           src(j) == IF j < i + 1 THEN j ELSE j + 1
<1>1. /\ PageShape(p) /\ IsImage(m) /\ Header(m, p, l) /\ PageSize \in Nat
      /\ p.content \in Nat /\ 13 <= p.content /\ p.content <= PageSize
      /\ SlotsBelow(p, p.content) /\ Fits(p)
  BY LaidFacts DEF Laid, LaidWith
<1>2. PICK at : Placed(m, p, at)
  BY DEF Laid, LaidWith
<1>3. leaf \in BOOLEAN /\ l \in Nat /\ i \in Int /\ 0 <= i /\ i <= l - 1
  BY <1>1, ShapeFacts
<1>4. /\ q \in Page /\ q.leaf = leaf /\ q.content = p.content
      /\ q.rightmost = p.rightmost /\ q.next = p.next /\ Len(q.cells) = l - 1
  BY DEF Deleted
<1>5. \A j \in 1 .. l - 1 :
        q.cells[j] = IF j < i + 1 THEN p.cells[j] ELSE p.cells[j + 1]
  BY DEF Deleted
<1>6. /\ Slot(l) = 13 + 2 * l /\ Slot(l) \in Int /\ Slot(l) <= p.content
      /\ Slot(l) <= PageSize
      /\ Slot(i) = 13 + 2 * i /\ Slot(i) \in Int
      /\ Slot(l - 1) = 11 + 2 * l /\ Slot(l - 1) \in Int
  <2>1. NumCells(p) = l
    BY <1>1, ShapeFacts
  <2>2. p.content - (13 + l * 2) >= 0
    BY ONLY <1>1, <2>1 DEF Fits, FreeSpace, OffCellPtrs, CellPtrSize
  <2>3. l - 1 \in Int /\ l \in Int
    BY <1>3
  <2>4. Slot(l) = 13 + 2 * l /\ Slot(i) = 13 + 2 * i
        /\ Slot(l - 1) = 13 + 2 * (l - 1)
    BY ONLY <1>3, <2>3, SlotFacts
  <2>5. QED
    BY ONLY <1>1, <1>3, <2>2, <2>4
<1>7. /\ IsImage(o) /\ Elsewhere(m, o, Slot(i), Slot(l - 1))
      /\ \A j \in i .. l - 2 : \A x :
           Has(m, Slot(j + 1), "ptr", x, 2) => Has(o, Slot(j), "ptr", x, 2)
  BY <1>1, <1>3, <1>6, ShiftDownEffect
<1> HIDE DEF o
<1>8. Header(o, q, l)
  <2>1. 13 <= PageSize /\ 13 <= Slot(i)
    BY <1>1, <1>3, <1>6
  <2>2. Header(o, p, l)
    BY <1>1, <1>6, <1>7, <2>1, HeaderStays
  <2>3. QED
    BY <1>4, <2>2 DEF Header
<1>9. ASSUME NEW j \in 1 .. l - 1
      PROVE  src(j) \in 1 .. l /\ q.cells[j] = p.cells[src(j)]
  <2>1. CASE j < i + 1
    <3>1. src(j) = j /\ j \in 1 .. l
      BY <1>3, <2>1
    <3>2. QED
      BY <1>5, <2>1, <3>1
  <2>2. CASE ~(j < i + 1)
    <3>1. src(j) = j + 1 /\ j + 1 \in 1 .. l
      BY <1>3, <2>2
    <3>2. QED
      BY <1>5, <2>2, <3>1
  <2>3. QED
    BY <2>1, <2>2
<1>10. ASSUME NEW j \in 1 .. l
       PROVE  /\ at[j] \in Nat /\ p.content <= at[j] /\ at[j] + s(j) <= PageSize
              /\ Has(m, Slot(j - 1), "ptr", at[j], 2)
              /\ CellIn(m, at[j], leaf, p.cells[j])
              /\ CellShape(leaf, p.cells[j])
  <2>1. CellShape(leaf, p.cells[j])
    BY <1>1, ShapeFacts
  <2>2. QED
    BY <1>2, <2>1 DEF Placed, InArea, Slots, CellsIn
<1>11. ASSUME NEW j \in 1 .. l, NEW h \in 1 .. l, j # h
       PROVE  at[j] + s(j) <= at[h] \/ at[h] + s(h) <= at[j]
  BY <1>2, <1>11 DEF Placed, Apart
<1> DEFINE bt == [j \in 1 .. l - 1 |-> at[src(j)]]
<1>12. \A j \in 1 .. l - 1 : bt[j] = at[src(j)]
  OBVIOUS
<1> HIDE DEF bt
<1>13. ASSUME NEW j \in 1 .. l - 1
       PROVE  /\ bt[j] \in Nat /\ p.content <= bt[j] /\ bt[j] + z(j) <= PageSize
              /\ Has(o, Slot(j - 1), "ptr", bt[j], 2)
              /\ CellIn(o, bt[j], leaf, q.cells[j])
              /\ CellShape(leaf, q.cells[j])
  <2> DEFINE h == src(j)
  <2>1. h \in 1 .. l /\ q.cells[j] = p.cells[h] /\ bt[j] = at[h]
    BY <1>9, <1>12
  <2>2. h = IF j < i + 1 THEN j ELSE j + 1
    OBVIOUS
  <2> HIDE DEF h
  <2>3. /\ at[h] \in Nat /\ p.content <= at[h] /\ at[h] + s(h) <= PageSize
        /\ Has(m, Slot(h - 1), "ptr", at[h], 2)
        /\ CellIn(m, at[h], leaf, p.cells[h]) /\ CellShape(leaf, p.cells[h])
    BY <1>10, <2>1
  <2>4. CellIn(o, at[h], leaf, p.cells[h])
    <3>1. Slot(l - 1) <= at[h]
      <4>1. at[h] \in Nat /\ p.content <= at[h]
        BY <2>3
      <4>2. QED
        BY ONLY <1>1, <1>3, <1>6, <4>1
    <3>2. QED
      BY <1>3, <1>6, <1>7, <2>3, <3>1, CellStays
  <2>5. Has(o, Slot(j - 1), "ptr", at[h], 2)
    <3>1. CASE j < i + 1
      <4>1. h = j /\ j - 1 \in Int
        BY <2>2, <3>1
      <4>2. Slot(j - 1) = 13 + 2 * (j - 1)
        BY <4>1, SlotFacts
      <4>3. Slot(j - 1) \in Nat /\ Slot(j - 1) + 2 <= Slot(i)
            /\ Slot(j - 1) + 2 <= PageSize
        <5>1. j \in Int /\ 1 <= j
          OBVIOUS
        <5>2. QED
          BY ONLY <1>1, <1>3, <1>6, <3>1, <4>2, <5>1
      <4>4. QED
        BY <1>6, <1>7, <2>3, <4>1, <4>3, HasStays
    <3>2. CASE ~(j < i + 1)
      <4>1. h = (j - 1) + 2 /\ h - 1 = (j - 1) + 1 /\ j - 1 \in i .. l - 2
        BY <1>3, <2>2, <3>2
      <4>2. QED
        BY <1>7, <2>3, <4>1
    <3>3. QED
      BY <3>1, <3>2
  <2>6. QED
    BY <2>1, <2>3, <2>4, <2>5
<1>14. PageShape(q)
  BY <1>4, <1>13 DEF PageShape
<1>15. InArea(q, bt)
  BY <1>4, <1>13 DEF InArea
<1>16. Apart(q, bt)
  <2>1. ASSUME NEW j \in 1 .. l - 1, NEW h \in 1 .. l - 1, j # h
        PROVE  bt[j] + z(j) <= bt[h] \/ bt[h] + z(h) <= bt[j]
    <3>1. /\ src(j) \in 1 .. l /\ q.cells[j] = p.cells[src(j)]
          /\ bt[j] = at[src(j)]
          /\ src(h) \in 1 .. l /\ q.cells[h] = p.cells[src(h)]
          /\ bt[h] = at[src(h)]
      BY <1>9, <1>12
    <3>2. src(j) # src(h)
      BY <1>3, <2>1
    <3>3. QED
      BY <1>11, <3>1, <3>2
  <2>2. QED
    BY <1>4, <2>1 DEF Apart
<1>17. Slots(o, q, bt)
  BY <1>4, <1>13 DEF Slots
<1>18. CellsIn(o, q, bt)
  BY <1>4, <1>13 DEF CellsIn
<1>19. Fits(q) /\ q.content <= PageSize
  <2>1. p.content - (13 + l * 2) >= 0
    <3>1. NumCells(p) = l
      BY <1>1, ShapeFacts
    <3>2. QED
      BY ONLY <1>1, <3>1 DEF Fits, FreeSpace, OffCellPtrs, CellPtrSize
  <2>2. NumCells(q) = l - 1
    BY <1>4 DEF NumCells
  <2>3. p.content - (13 + (l - 1) * 2) >= 0
    BY ONLY <1>1, <1>3, <2>1
  <2>4. QED
    BY ONLY <1>1, <1>4, <2>2, <2>3 DEF Fits, FreeSpace, OffCellPtrs, CellPtrSize
<1>20. LaidWith(o, q, l)
  BY <1>7, <1>8, <1>14, <1>15, <1>16, <1>17, <1>18, <1>19 DEF LaidWith, Placed
<1>21. DeleteAt(m, i, l) = SetNumCells(o, l - 1)
  BY DEF DeleteAt, o, ShiftDown
<1>22. LaidWith(SetNumCells(o, l - 1), q, l - 1)
  BY <1>20, CountKeeps
<1>23. QED
  BY <1>4, <1>21, <1>22 DEF Laid
-----------------------------------------------------------------------------
(* q is the page p with the cell c at its end.                              *)
Appended(p, c, q) ==
  /\ PageShape(q) /\ q.leaf = p.leaf
  /\ q.content = p.content - Size(p.leaf, c)
  /\ q.rightmost = p.rightmost /\ q.next = p.next
  /\ Len(q.cells) = Len(p.cells) + 1
  /\ \A j \in 1 .. Len(p.cells) : q.cells[j] = p.cells[j]
  /\ q.cells[Len(p.cells) + 1] = c

(* AppendCell on a page with room for the cell and its pointer.             *)
LEMMA AppendKeeps ==
  ASSUME NEW m, NEW p, Laid(m, p), NEW c, CellShape(p.leaf, c),
         NEW q, Appended(p, c, q), Fits(q)
  PROVE  Laid(AppendCell(m, p.leaf, c), q)
<1> DEFINE l == Len(p.cells)
           leaf == p.leaf
           i == l + 1
           off == q.content
           n == SetCellPtr(WriteCell(SetContent(m, off), off, leaf, c), l, off)
<1>1. /\ PageShape(p) /\ IsImage(m) /\ Header(m, p, l) /\ PageSize \in Nat
      /\ p.content \in Nat /\ p.content <= PageSize
  BY LaidFacts DEF Laid
<1>2. leaf \in BOOLEAN /\ l \in Nat /\ i \in 1 .. l + 1
  BY <1>1, ShapeFacts
<1>3. PICK at : Placed(m, p, at)
  BY DEF Laid, LaidWith
<1>4. /\ PageShape(q) /\ q.leaf = leaf /\ off = p.content - Size(leaf, c)
      /\ q.rightmost = p.rightmost /\ q.next = p.next
      /\ Len(q.cells) = l + 1 /\ q.cells[i] = c
      /\ \A j \in 1 .. l : q.cells[j] = p.cells[j]
  BY DEF Appended
<1>5. Size(leaf, c) \in Nat
  BY <1>1, <1>2, CellFields
<1>6. AppendCell(m, leaf, c) = SetNumCells(n, l + 1)
  <2>1. NumCellsAt(m) = l /\ ContentAt(m) = p.content
    BY HeaderReads DEF Laid
  <2>2. ContentAt(m) - CellSize(leaf, c.val) = off
    BY <1>4, <2>1 DEF Size
  <2>3. QED
    BY <2>1, <2>2 DEF AppendCell
<1> HIDE DEF l, leaf, off, n, i
<1>7. HeaderBut(m, q, l)
  BY <1>1, <1>4 DEF Header, HeaderBut, leaf
<1>8. OthersPlaced(m, q, i, p.content, at)
  <2>1. ASSUME NEW j \in 1 .. Len(q.cells), j # i
        PROVE  j \in 1 .. l /\ q.cells[j] = p.cells[j]
    <3>1. j \in 1 .. l
      BY <1>2, <1>4, <2>1 DEF i
    <3>2. QED
      BY <1>4, <3>1
  <2>2. ASSUME NEW j \in 1 .. Len(q.cells), j # i
        PROVE  /\ at[j] \in Nat /\ p.content <= at[j]
               /\ at[j] + Size(q.leaf, q.cells[j]) <= PageSize
               /\ Has(m, Slot(j - 1), "ptr", at[j], 2)
               /\ CellIn(m, at[j], q.leaf, q.cells[j])
    <3>1. j \in 1 .. Len(p.cells) /\ q.cells[j] = p.cells[j] /\ q.leaf = p.leaf
      BY <1>4, <2>1, <2>2 DEF l, leaf
    <3>2. QED
      BY <1>3, <3>1 DEF Placed, InArea, Slots, CellsIn
  <2>3. ASSUME NEW j \in 1 .. Len(q.cells), NEW h \in 1 .. Len(q.cells),
               j # i, h # i, j # h
        PROVE  \/ at[j] + Size(q.leaf, q.cells[j]) <= at[h]
               \/ at[h] + Size(q.leaf, q.cells[h]) <= at[j]
    <3>1. /\ j \in 1 .. Len(p.cells) /\ q.cells[j] = p.cells[j]
          /\ q.leaf = p.leaf
          /\ h \in 1 .. Len(p.cells) /\ q.cells[h] = p.cells[h]
      BY <1>4, <2>1, <2>3 DEF l, leaf
    <3>2. QED
      BY <1>3, <2>3, <3>1 DEF Placed, Apart
  <2>4. QED
    BY <2>2, <2>3 DEF OthersPlaced
<1>9. i \in 1 .. Len(q.cells) /\ i - 1 = l
  BY <1>2, <1>4 DEF i
<1>10. q.content + Size(q.leaf, q.cells[i]) = p.content
  <2>1. q.content = p.content - Size(leaf, c)
        /\ Size(q.leaf, q.cells[i]) = Size(leaf, c)
    BY <1>4 DEF off
  <2>2. QED
    BY <1>1, <1>5, <2>1
<1>11. n = SetCellPtr(WriteCell(SetContent(m, q.content), q.content, q.leaf,
                                q.cells[i]), i - 1, q.content)
  BY <1>4, <1>9 DEF n, off
<1>12. LaidWith(n, q, l)
  BY <1>1, <1>4, <1>7, <1>8, <1>9, <1>10, <1>11, AddCellKeeps
<1>13. LaidWith(SetNumCells(n, l + 1), q, l + 1)
  BY <1>12, CountKeeps
<1>14. QED
  BY <1>4, <1>6, <1>13 DEF Laid, leaf
-----------------------------------------------------------------------------
(* A page as InitPage leaves it.                                            *)
LEMMA InitPageLaid ==
  ASSUME NEW leaf \in BOOLEAN, NEW p \in Page, p.leaf = leaf, Len(p.cells) = 0,
         p.content = PageSize, p.rightmost = 0, p.next = InvalidPage, Fits(p)
  PROVE  Laid(InitPage(leaf), p)
<1> DEFINE m0 == [x \in 0 .. PageSize - 1 |-> Zero]
           m1 == Put(m0, 0, "leaf", leaf, 1)
           m2 == Put(m1, 1, "numCells", 0, 2)
           m3 == Put(m2, 3, "content", PageSize, 2)
           m4 == Put(m3, 9, "next", InvalidPage, 4)
           m5 == Put(m4, 5, "rightmost", 0, 4)
<1>0. PageSize \in Nat /\ 13 <= PageSize
  <2>1. NumCells(p) = 0
    BY DEF NumCells
  <2>2. PageSize - (13 + 0 * 2) >= 0
    BY <2>1 DEF Fits, FreeSpace, OffCellPtrs, CellPtrSize
  <2>3. QED
    BY <2>2, PageSizeAssumption
<1>1. IsImage(m0)
  BY DEF IsImage
<1> HIDE DEF m0
<1>2. IsImage(m1) /\ Has(m1, 0, "leaf", leaf, 1)
  BY <1>0, <1>1, PutEffect
<1> HIDE DEF m1
<1>3. IsImage(m2) /\ Has(m2, 1, "numCells", 0, 2) /\ Elsewhere(m1, m2, 1, 1 + 2)
  <2>1. 1 + 2 <= PageSize
    BY <1>0
  <2>2. m2 = Put(m1, 1, "numCells", 0, 2)
    OBVIOUS
  <2> HIDE DEF m2
  <2>3. QED
    BY <1>2, <2>1, <2>2, PutEffect
<1> HIDE DEF m2
<1>4. IsImage(m3) /\ Has(m3, 3, "content", PageSize, 2)
      /\ Elsewhere(m2, m3, 3, 3 + 2)
  BY <1>0, <1>3, PutEffect
<1> HIDE DEF m3
<1>5. IsImage(m4) /\ Has(m4, 9, "next", InvalidPage, 4)
      /\ Elsewhere(m3, m4, 9, 9 + 4)
  BY <1>0, <1>4, PutEffect
<1> HIDE DEF m4
<1>6. IsImage(m5) /\ Has(m5, 5, "rightmost", 0, 4)
      /\ Elsewhere(m4, m5, 5, 5 + 4)
  BY <1>0, <1>5, PutEffect
<1> HIDE DEF m5
<1>7. Has(m5, 0, "leaf", leaf, 1)
  <2>1. Has(m2, 0, "leaf", leaf, 1)
    BY <1>0, <1>2, <1>3, HasStays
  <2>2. Has(m3, 0, "leaf", leaf, 1)
    BY <1>0, <1>4, <2>1, HasStays
  <2>3. Has(m4, 0, "leaf", leaf, 1)
    BY <1>0, <1>5, <2>2, HasStays
  <2>4. QED
    BY <1>0, <1>6, <2>3, HasStays
<1>8. Has(m5, 1, "numCells", 0, 2)
  <2>1. Has(m3, 1, "numCells", 0, 2)
    BY <1>0, <1>3, <1>4, HasStays
  <2>2. Has(m4, 1, "numCells", 0, 2)
    BY <1>0, <1>5, <2>1, HasStays
  <2>3. QED
    BY <1>0, <1>6, <2>2, HasStays
<1>9. Has(m5, 3, "content", PageSize, 2)
  <2>1. Has(m4, 3, "content", PageSize, 2)
    BY <1>0, <1>4, <1>5, HasStays
  <2>2. QED
    BY <1>0, <1>6, <2>1, HasStays
<1>10. Has(m5, 9, "next", InvalidPage, 4)
  BY <1>0, <1>5, <1>6, HasStays
<1>11. Header(m5, p, 0)
  BY <1>6, <1>7, <1>8, <1>9, <1>10 DEF Header
<1>12. Placed(m5, p, << >>) /\ PageShape(p)
  <2>1. 1 .. Len(p.cells) = {}
    OBVIOUS
  <2>2. QED
    BY <2>1 DEF Placed, InArea, Apart, Slots, CellsIn, PageShape
<1>13. LaidWith(m5, p, 0)
  <2>1. p.content <= PageSize
    BY <1>0
  <2>2. QED
    BY <1>6, <1>11, <1>12, <2>1 DEF LaidWith
<1>14. InitPage(leaf) = m5
  BY DEF InitPage, SetRightmost, SetNextLeaf, SetContent, SetNumCells,
         m0, m1, m2, m3, m4, m5
<1>15. QED
  BY <1>13, <1>14 DEF Laid

(* A page without cells, as splitNode begins to write it.                   *)
LEMMA EmptyPageLaid ==
  ASSUME NEW leaf \in BOOLEAN, NEW p \in Page, p.leaf = leaf, Len(p.cells) = 0,
         p.content = PageSize, Fits(p)
  PROVE  /\ Laid(SetNextLeaf(SetRightmost(InitPage(leaf), p.rightmost), p.next), p)
         /\ p.next = InvalidPage =>
              Laid(SetRightmost(InitPage(leaf), p.rightmost), p)
<1> DEFINE z == [leaf |-> leaf, cells |-> p.cells, content |-> PageSize,
                 rightmost |-> 0, next |-> InvalidPage]
           y == [leaf |-> leaf, cells |-> p.cells, content |-> PageSize,
                 rightmost |-> p.rightmost, next |-> InvalidPage]
           m == InitPage(leaf)
           n == SetRightmost(m, p.rightmost)
           o == SetNextLeaf(n, p.next)
<1>1. /\ p.cells \in Seq(Cell) /\ PageSize \in Int /\ p.rightmost \in Nat
      /\ InvalidPage \in Int
  BY PageSizeAssumption DEF Page, InvalidPage
<1>2. /\ z \in Page /\ z.leaf = leaf /\ z.cells = p.cells
      /\ z.content = PageSize
      /\ z.rightmost = 0 /\ z.next = InvalidPage
  BY <1>1 DEF Page
<1>3. /\ y \in Page /\ y.leaf = leaf /\ y.cells = p.cells
      /\ y.content = PageSize
      /\ y.rightmost = p.rightmost /\ y.next = InvalidPage
  BY <1>1 DEF Page
<1> HIDE DEF z, y, m
<1>4. Fits(z)
  BY <1>2 DEF Fits, FreeSpace, NumCells
<1>5. LaidWith(m, z, 0)
  <2>1. Laid(m, z)
    BY <1>2, <1>4, InitPageLaid DEF m
  <2>2. QED
    BY <1>2, <2>1 DEF Laid
<1>6. LaidWith(n, y, 0)
  <2>1. LaidWith(SetRightmost(m, y.rightmost), y, 0)
    BY <1>2, <1>3, <1>5, RightmostKeeps
  <2>2. QED
    BY <1>3, <2>1
<1> HIDE DEF n
<1>7. LaidWith(o, p, 0)
  BY <1>3, <1>6, NextLeafKeeps
<1>8. p.next = InvalidPage => p = y
  <2>1. p = [leaf |-> p.leaf, cells |-> p.cells, content |-> p.content,
             rightmost |-> p.rightmost, next |-> p.next]
    BY DEF Page
  <2>2. QED
    BY <2>1 DEF y
<1>9. QED
  BY <1>6, <1>7, <1>8 DEF Laid, o, n, m
-----------------------------------------------------------------------------
(* The bytes of the cells of a page, added up cell by cell, and the pages   *)
(* that splitNode makes one cell at a time.                                 *)
Sums(f, leaf, cells, m) ==
  f = [n \in 0 .. m |-> IF n = 0 THEN 0
                        ELSE f[n - 1] + CellSize(leaf, cells[n].val)]

Builds(f, init, leaf, cells, m) ==
  f = [n \in 0 .. m |-> IF n = 0 THEN init
                        ELSE AppendCell(f[n - 1], leaf, cells[n])]

LEMMA SumsExist ==
  ASSUME NEW leaf, NEW cells, NEW m \in Nat
  PROVE  \E f : Sums(f, leaf, cells, m)
<1> DEFINE Bad == {n \in Nat : ~\E f : Sums(f, leaf, cells, n)}
           C(n) == CellSize(leaf, cells[n].val)
<1>1. SUFFICES ASSUME Bad # {} PROVE FALSE
  OBVIOUS
<1>2. PICK n \in Bad : \A l \in Bad : n <= l
  <2>1. Bad \subseteq Nat
    OBVIOUS
  <2> HIDE DEF Bad
  <2>2. QED
    BY <1>1, <2>1, LeastNat
<1>3. n # 0
  <2>1. Sums([l \in 0 .. 0 |-> 0], leaf, cells, 0)
    BY DEF Sums
  <2>2. QED
    BY <1>2, <2>1
<1>4. n - 1 \in Nat /\ n - 1 \notin Bad /\ n \in Nat
  BY <1>2, <1>3
<1>5. PICK f : Sums(f, leaf, cells, n - 1)
  BY <1>4
<1> DEFINE g == [l \in 0 .. n |-> IF l = n THEN f[n - 1] + C(n) ELSE f[l]]
<1>6. \A l \in 0 .. n - 1 : g[l] = f[l]
  BY <1>4
<1>7. \A l \in 0 .. n : g[l] = IF l = 0 THEN 0 ELSE g[l - 1] + C(l)
  <2>1. TAKE l \in 0 .. n
  <2>2. CASE l = n
    <3>1. n - 1 \in 0 .. n - 1 /\ n \in 0 .. n
      BY <1>4
    <3> HIDE DEF C
    <3>2. QED
      BY <1>3, <1>6, <2>2, <3>1
  <2>3. CASE l # n
    <3>1. l \in 0 .. n - 1 /\ (l # 0 => l - 1 \in 0 .. n - 1)
      BY <1>4, <2>3
    <3>2. f[l] = IF l = 0 THEN 0 ELSE f[l - 1] + C(l)
      BY <1>5, <3>1 DEF Sums
    <3> HIDE DEF C
    <3>3. QED
      BY <1>6, <3>1, <3>2
  <2>4. QED
    BY <2>2, <2>3
<1>8. Sums(g, leaf, cells, n)
  <2>1. g = [l \in 0 .. n |-> g[l]]
    OBVIOUS
  <2> HIDE DEF g
  <2>2. QED
    BY <1>7, <2>1 DEF Sums
<1>9. QED
  BY <1>2, <1>8

LEMMA BuildExists ==
  ASSUME NEW init, NEW leaf, NEW cells, NEW m \in Nat
  PROVE  \E f : Builds(f, init, leaf, cells, m)
<1> DEFINE Bad == {n \in Nat : ~\E f : Builds(f, init, leaf, cells, n)}
           C(b, n) == AppendCell(b, leaf, cells[n])
<1>1. SUFFICES ASSUME Bad # {} PROVE FALSE
  OBVIOUS
<1>2. PICK n \in Bad : \A l \in Bad : n <= l
  <2>1. Bad \subseteq Nat
    OBVIOUS
  <2> HIDE DEF Bad
  <2>2. QED
    BY <1>1, <2>1, LeastNat
<1>3. n # 0
  <2>1. Builds([l \in 0 .. 0 |-> init], init, leaf, cells, 0)
    BY DEF Builds
  <2>2. QED
    BY <1>2, <2>1
<1>4. n - 1 \in Nat /\ n - 1 \notin Bad /\ n \in Nat
  BY <1>2, <1>3
<1>5. PICK f : Builds(f, init, leaf, cells, n - 1)
  BY <1>4
<1> DEFINE g == [l \in 0 .. n |-> IF l = n THEN C(f[n - 1], n) ELSE f[l]]
<1>6. \A l \in 0 .. n - 1 : g[l] = f[l]
  BY <1>4
<1>7. \A l \in 0 .. n : g[l] = IF l = 0 THEN init ELSE C(g[l - 1], l)
  <2>1. TAKE l \in 0 .. n
  <2>2. CASE l = n
    <3>1. n - 1 \in 0 .. n - 1 /\ n \in 0 .. n
      BY <1>4
    <3>2. g[n] = C(f[n - 1], n) /\ g[n - 1] = f[n - 1]
      BY <1>6, <3>1
    <3> HIDE DEF C, g
    <3>3. QED
      BY <1>3, <2>2, <3>2
  <2>3. CASE l # n
    <3>1. l \in 0 .. n - 1 /\ (l # 0 => l - 1 \in 0 .. n - 1)
      BY <1>4, <2>3
    <3>2. f[l] = IF l = 0 THEN init ELSE C(f[l - 1], l)
      BY <1>5, <3>1 DEF Builds
    <3>3. g[l] = f[l] /\ (l # 0 => g[l - 1] = f[l - 1])
      BY <1>6, <3>1
    <3> HIDE DEF C, g
    <3>4. QED
      BY <3>2, <3>3
  <2>4. QED
    BY <2>2, <2>3
<1>8. Builds(g, init, leaf, cells, n)
  <2>1. g = [l \in 0 .. n |-> g[l]]
    OBVIOUS
  <2> HIDE DEF g
  <2>2. QED
    BY <1>7, <2>1 DEF Builds
<1>9. QED
  BY <1>2, <1>8

(* CellBytes is the last of the sums, the rebuilt page the last of the      *)
(* pages.                                                                   *)
LEMMA CellBytesIsSum ==
  ASSUME NEW leaf, NEW cells, Len(cells) \in Nat
  PROVE  \E f : /\ Sums(f, leaf, cells, Len(cells))
                /\ CellBytes(leaf, cells) = f[Len(cells)]
<1> DEFINE f == CHOOSE f : Sums(f, leaf, cells, Len(cells))
<1>1. Sums(f, leaf, cells, Len(cells))
  BY SumsExist
<1>2. CellBytes(leaf, cells) = f[Len(cells)]
  BY DEF CellBytes, Sums
<1>3. QED
  BY <1>1, <1>2

LEMMA RebuiltIsBuilt ==
  ASSUME NEW leaf, NEW cells, Len(cells) \in Nat, NEW rc, NEW next, NEW init,
         init = SetNextLeaf(SetRightmost(InitPage(leaf), rc), next)
  PROVE  \E f : /\ Builds(f, init, leaf, cells, Len(cells))
                /\ Rebuilt(leaf, cells, rc, next) = f[Len(cells)]
<1> DEFINE f == CHOOSE f : Builds(f, init, leaf, cells, Len(cells))
<1>1. Builds(f, init, leaf, cells, Len(cells))
  BY BuildExists
<1>2. Rebuilt(leaf, cells, rc, next) = f[Len(cells)]
  BY DEF Rebuilt, Builds
<1>3. QED
  BY <1>1, <1>2

(* splitNode writes a page that fits, cell by cell.                         *)
LEMMA RebuiltLaid ==
  ASSUME NEW leaf \in BOOLEAN, NEW cells \in Seq(Cell),
         \A j \in 1 .. Len(cells) : CellShape(leaf, cells[j]),
         NEW rc \in Nat, NEW next \in Int,
         Fits(NewPage(leaf, cells, rc, next))
  PROVE  Laid(Rebuilt(leaf, cells, rc, next), NewPage(leaf, cells, rc, next))
<1> DEFINE m == Len(cells)
           init == SetNextLeaf(SetRightmost(InitPage(leaf), rc), next)
<1>0. m \in Nat /\ PageSize \in Nat
  BY PageSizeAssumption
<1> HIDE DEF init
<1>1. PICK f : Sums(f, leaf, cells, m) /\ CellBytes(leaf, cells) = f[m]
  BY <1>0, CellBytesIsSum
<1>2. PICK b : /\ Builds(b, init, leaf, cells, m)
               /\ Rebuilt(leaf, cells, rc, next) = b[m]
  BY <1>0, RebuiltIsBuilt DEF init
<1>3. b[0] = init
      /\ \A j \in 1 .. m : b[j] = AppendCell(b[j - 1], leaf, cells[j])
  BY <1>0, <1>2 DEF Builds
<1>4. f[0] = 0 /\ \A j \in 1 .. m : f[j] = f[j - 1] + Size(leaf, cells[j])
  BY <1>0, <1>1 DEF Sums, Size
<1>5. \A j \in 1 .. m : cells[j] \in Cell /\ CellShape(leaf, cells[j])
  BY ElementOfSeq
<1>6. \A j \in 1 .. m : Size(leaf, cells[j]) \in Nat
  BY <1>5, CellFields
<1>7. ASSUME NEW j \in 0 .. m
      PROVE  f[j] \in Nat
  <2> DEFINE Bad == {h \in 0 .. m : f[h] \notin Nat}
  <2>1. SUFFICES ASSUME Bad # {} PROVE FALSE
    OBVIOUS
  <2>2. PICK h \in Bad : \A g \in Bad : h <= g
    <3>1. Bad \subseteq Nat
      OBVIOUS
    <3> HIDE DEF Bad
    <3>2. QED
      BY <2>1, <3>1, LeastNat
  <2>3. h \in 1 .. m /\ h - 1 \in 0 .. m /\ ~(h <= h - 1)
    BY <1>0, <1>4, <2>2
  <2>4. f[h - 1] \in Nat
    BY <2>2, <2>3
  <2>5. QED
    BY <1>4, <1>6, <2>2, <2>3, <2>4
<1>8. NumCells(NewPage(leaf, cells, rc, next)) = m
      /\ NewPage(leaf, cells, rc, next).content = PageSize - f[m]
  BY <1>1 DEF NumCells, NewPage
<1>9. PageSize - f[m] - (13 + m * 2) >= 0
  BY <1>8 DEF Fits, FreeSpace, OffCellPtrs, CellPtrSize
<1>10. ASSUME NEW j \in 0 .. m
       PROVE  PageSize - f[j] - (13 + j * 2) >= 0
  <2> DEFINE Room(h) == PageSize - f[h] - (13 + h * 2) >= 0
             Bad == {d \in 0 .. m : ~Room(m - d)}
  <2>1. Bad = {}
    <3>1. SUFFICES ASSUME Bad # {} PROVE FALSE
      OBVIOUS
    <3>2. PICK d \in Bad : \A g \in Bad : d <= g
      <4>1. Bad \subseteq Nat
        OBVIOUS
      <4> HIDE DEF Bad
      <4>2. QED
        BY <3>1, <4>1, LeastNat
    <3>3. d \in 0 .. m /\ ~Room(m - d)
      BY <3>2
    <3>4. d # 0
      <4>1. m - 0 = m
        BY <1>0
      <4>2. QED
        BY <1>9, <3>3, <4>1
    <3>5. d - 1 \in 0 .. m /\ d - 1 \notin Bad
      <4>1. d - 1 \in 0 .. m /\ ~(d <= d - 1)
        BY <1>0, <3>3, <3>4
      <4> HIDE DEF Bad
      <4>2. QED
        BY <3>2, <4>1
    <3> DEFINE h == m - d
    <3>6. h \in 0 .. m /\ h + 1 \in 1 .. m /\ (h + 1) - 1 = h
          /\ m - (d - 1) = h + 1
      BY <1>0, <3>3, <3>4
    <3>7. Room(h + 1)
      BY <3>5, <3>6
    <3>8. f[h + 1] = f[h] + Size(leaf, cells[h + 1]) /\ f[h] \in Nat
          /\ Size(leaf, cells[h + 1]) \in Nat
      BY <1>4, <1>6, <1>7, <3>6
    <3> HIDE DEF h
    <3>9. h \in Nat
      BY <3>6
    <3>10. Room(h)
      BY ONLY <1>0, <3>7, <3>8, <3>9
    <3>11. QED
      BY <3>3, <3>10 DEF h
  <2>2. m - j \in 0 .. m /\ m - (m - j) = j
    BY <1>0
  <2>3. Room(m - (m - j))
    BY <2>1, <2>2
  <2> HIDE DEF Room
  <2>4. Room(j)
    BY <2>2, <2>3
  <2>5. QED
    BY <2>4 DEF Room
<1> DEFINE P(j) == [leaf |-> leaf, cells |-> SubSeq(cells, 1, j),
                    content |-> PageSize - f[j], rightmost |-> rc, next |-> next]
<1>11. ASSUME NEW j \in 0 .. m
       PROVE  /\ P(j).leaf = leaf /\ P(j).rightmost = rc /\ P(j).next = next
              /\ P(j).content = PageSize - f[j] /\ PageShape(P(j)) /\ Fits(P(j))
              /\ Len(P(j).cells) = j
              /\ \A h \in 1 .. j : P(j).cells[h] = cells[h]
  <2> DEFINE s == SubSeq(cells, 1, j)
  <2>1. /\ s \in Seq(Cell) /\ Len(s) = j
        /\ \A h \in 1 .. j : s[h] = cells[h]
    <3>1. j \in Int /\ \A h \in 1 .. j : cells[h] \in Cell
      BY <1>0, <1>5
    <3>2. /\ s \in Seq(Cell) /\ Len(s) = IF 1 <= j THEN j - 1 + 1 ELSE 0
          /\ \A h \in 1 .. j - 1 + 1 : s[h] = cells[1 + h - 1]
      BY <3>1, SubSeqProperties
    <3>3. j - 1 + 1 = j /\ \A h \in 1 .. j : 1 + h - 1 = h
      BY <3>1
    <3> HIDE DEF s
    <3>4. QED
      BY <3>1, <3>2, <3>3
  <2> HIDE DEF s
  <2>2. P(j) = [leaf |-> leaf, cells |-> s, content |-> PageSize - f[j],
                rightmost |-> rc, next |-> next]
    BY DEF s
  <2>3. PageSize - f[j] \in Int
    BY <1>0, <1>7
  <2> HIDE DEF P
  <2>4. /\ P(j) \in Page /\ P(j).leaf = leaf /\ P(j).rightmost = rc
        /\ P(j).next = next /\ P(j).content = PageSize - f[j] /\ P(j).cells = s
    BY <2>1, <2>2, <2>3 DEF Page
  <2>5. PageShape(P(j))
    <3>1. ASSUME NEW h \in 1 .. j PROVE CellShape(leaf, s[h])
      BY <1>0, <1>5, <2>1
    <3>2. QED
      BY <2>1, <2>4, <3>1 DEF PageShape
  <2>6. Fits(P(j))
    <3>1. NumCells(P(j)) = j
      BY <2>1, <2>4 DEF NumCells
    <3>2. PageSize - f[j] - (13 + j * 2) >= 0
      BY <1>10
    <3>3. QED
      BY ONLY <2>4, <3>1, <3>2 DEF Fits, FreeSpace, OffCellPtrs, CellPtrSize
  <2>7. QED
    BY <2>1, <2>4, <2>5, <2>6
<1> HIDE DEF P
<1>12. Laid(b[0], P(0))
  <2>1. 0 \in 0 .. m
    BY <1>0
  <2>2. /\ P(0).leaf = leaf /\ P(0).rightmost = rc /\ P(0).next = next
        /\ P(0).content = PageSize - f[0] /\ PageShape(P(0)) /\ Fits(P(0))
        /\ Len(P(0).cells) = 0
    BY <1>11, <2>1
  <2>3. P(0).content = PageSize /\ P(0) \in Page
    BY <1>0, <1>4, <2>2 DEF PageShape
  <2>4. Laid(SetNextLeaf(SetRightmost(InitPage(leaf), P(0).rightmost), P(0).next),
             P(0))
    BY <2>2, <2>3, EmptyPageLaid
  <2>5. QED
    BY <1>3, <2>2, <2>4 DEF init
<1>13. ASSUME NEW j \in 1 .. m, Laid(b[j - 1], P(j - 1))
       PROVE  Laid(b[j], P(j))
  <2> DEFINE p == P(j - 1)
             q == P(j)
             c == cells[j]
             d == b[j - 1]
  <2>1. j - 1 \in 0 .. m /\ j \in 0 .. m /\ (j - 1) + 1 = j
    BY <1>0
  <2>2. /\ p.leaf = leaf /\ p.rightmost = rc /\ p.next = next
        /\ p.content = PageSize - f[j - 1]
        /\ Len(p.cells) = j - 1 /\ \A h \in 1 .. j - 1 : p.cells[h] = cells[h]
    BY <1>11, <2>1
  <2>3. /\ q.leaf = leaf /\ q.rightmost = rc /\ q.next = next
        /\ q.content = PageSize - f[j] /\ PageShape(q) /\ Fits(q)
        /\ Len(q.cells) = j /\ \A h \in 1 .. j : q.cells[h] = cells[h]
    BY <1>11, <2>1
  <2>4. PageSize - f[j] = (PageSize - f[j - 1]) - Size(leaf, c)
    <3>1. f[j] = f[j - 1] + Size(leaf, c) /\ f[j - 1] \in Nat
          /\ Size(leaf, c) \in Nat
      BY <1>4, <1>6, <1>7, <2>1
    <3>2. QED
      BY ONLY <1>0, <3>1
  <2>5. b[j] = AppendCell(d, leaf, c) /\ CellShape(leaf, c) /\ Laid(d, p)
    BY <1>3, <1>5, <1>13
  <2> HIDE DEF p, q, d
  <2>6. \A h \in 1 .. j - 1 : q.cells[h] = p.cells[h]
    BY <2>1, <2>2, <2>3
  <2>7. q.cells[j] = c
    BY <2>3
  <2> HIDE DEF c
  <2>8. Appended(p, c, q)
    <3>1. q.content = p.content - Size(p.leaf, c)
      BY <2>2, <2>3, <2>4
    <3>2. Len(q.cells) = Len(p.cells) + 1 /\ q.cells[Len(p.cells) + 1] = c
      BY <2>1, <2>2, <2>3, <2>7
    <3>3. QED
      BY <2>2, <2>3, <2>6, <3>1, <3>2 DEF Appended
  <2>9. Laid(AppendCell(d, p.leaf, c), q)
    BY <2>2, <2>3, <2>5, <2>8, AppendKeeps
  <2>10. QED
    BY <2>2, <2>5, <2>9 DEF q
<1>14. Laid(b[m], P(m))
  <2> DEFINE Bad == {j \in 0 .. m : ~Laid(b[j], P(j))}
  <2>1. Bad = {}
    <3>1. SUFFICES ASSUME Bad # {} PROVE FALSE
      OBVIOUS
    <3>2. PICK h \in Bad : \A g \in Bad : h <= g
      <4>1. Bad \subseteq Nat
        OBVIOUS
      <4> HIDE DEF Bad
      <4>2. QED
        BY <3>1, <4>1, LeastNat
    <3>3. h # 0
      BY <1>12, <3>2
    <3>4. h \in 1 .. m /\ h - 1 \in 0 .. m /\ ~(h <= h - 1)
      BY <1>0, <3>2, <3>3
    <3>5. Laid(b[h - 1], P(h - 1))
      BY <3>2, <3>4
    <3>6. QED
      BY <1>13, <3>2, <3>4, <3>5
  <2>2. m \in 0 .. m
    BY <1>0
  <2>3. QED
    BY <2>1, <2>2
<1>15. P(m) = NewPage(leaf, cells, rc, next)
  <2>1. SubSeq(cells, 1, m) = cells
    OBVIOUS
  <2>2. QED
    BY <1>1, <2>1 DEF P, NewPage
<1>16. QED
  BY <1>2, <1>14, <1>15
-----------------------------------------------------------------------------
(* FindIdx answers with a position of the page or the one behind it,        *)
(* whatever the order of the keys.                                          *)
LEMMA IdxRange ==
  ASSUME NEW p, PageShape(p), NEW k
  PROVE  Idx(p, k) \in 0 .. Len(p.cells)
<1> DEFINE n == NumCells(p)
           G(i) == GoesRight(p, i, k, p.leaf)
           T == {i \in 1 .. n + 1 : i = n + 1 \/ ~G(i)}
           f == FindIdx(p, k, p.leaf)
<1>1. n = Len(p.cells) /\ n \in Nat
  BY ShapeFacts
<1>2. PICK i \in T : \A j \in T : i <= j
  <2>1. T \subseteq Nat /\ n + 1 \in T
    BY <1>1
  <2> HIDE DEF T
  <2>2. T # {}
    BY <2>1
  <2>3. QED
    BY <2>1, <2>2, LeastNat
<1> HIDE DEF n, G
<1>3. i \in 1 .. n + 1 /\ (i <= n => ~G(i))
  BY <1>1, <1>2
<1>4. i > 1 => G(i - 1)
  <2>1. SUFFICES ASSUME i > 1 PROVE G(i - 1)
    OBVIOUS
  <2>2. i - 1 \in 1 .. n + 1 /\ ~(i <= i - 1)
    BY <1>1, <1>3, <2>1
  <2>3. i - 1 \notin T
    <3> HIDE DEF T
    <3>1. QED
      BY <1>2, <2>2
  <2>4. QED
    BY <2>2, <2>3
<1>5. f \in 1 .. n + 1
  BY <1>3, <1>4 DEF FindIdx, n, G
<1>6. Idx(p, k) = f - 1
  BY DEF Idx
<1> HIDE DEF f
<1>7. QED
  BY <1>1, <1>5, <1>6

LEMMA HoldsRange ==
  ASSUME NEW p, PageShape(p), NEW k, Holds(p, k)
  PROVE  Idx(p, k) \in 0 .. Len(p.cells) - 1
<1>1. Idx(p, k) \in 0 .. Len(p.cells) /\ Len(p.cells) \in Nat
      /\ NumCells(p) = Len(p.cells)
  BY IdxRange, ShapeFacts
<1>2. Idx(p, k) < NumCells(p)
  BY DEF Holds
<1>3. QED
  BY <1>1, <1>2

(* A page with a cell more is a page.                                       *)
LEMMA InsertedShape ==
  ASSUME NEW p, PageShape(p), NEW i \in 0 .. Len(p.cells), NEW k \in Int,
         NEW v \in ValuesOf(p.leaf), NEW rc \in Nat,
         NEW q, Inserted(p, i, k, v, rc, q)
  PROVE  PageShape(q) /\ q.leaf = p.leaf /\ Len(q.cells) = Len(p.cells) + 1
<1> DEFINE r == WithNewCell(p, i, k, v)
           l == Len(p.cells)
<1>1. PageShape(r) /\ r.leaf = p.leaf /\ Len(r.cells) = l + 1 /\ l \in Nat
  BY NewCellPage, ShapeFacts
<1> HIDE DEF r
<1>2. CASE i = l
  <2>1. q \in Page /\ q.cells = r.cells /\ q.leaf = r.leaf
    BY <1>2 DEF Inserted, r
  <2>2. QED
    BY <1>1, <2>1 DEF PageShape
<1>3. CASE i # l /\ p.leaf
  <2>1. q = r
    BY <1>3 DEF Inserted, r
  <2>2. QED
    BY <1>1, <2>1
<1>4. CASE i # l /\ ~p.leaf
  <2> DEFINE e == i + 2
  <2>1. OneCellSet(r, e, q) /\ q.cells[e].val = r.cells[e].val
    BY <1>4 DEF Inserted, r
  <2>2. e \in 1 .. Len(r.cells)
    BY <1>1, <1>4
  <2> HIDE DEF e
  <2>3. /\ q \in Page /\ q.leaf = r.leaf /\ Len(q.cells) = Len(r.cells)
        /\ \A j \in 1 .. Len(r.cells) : j # e => q.cells[j] = r.cells[j]
    BY <2>1 DEF OneCellSet
  <2>4. HasChild(q.leaf)
    BY <1>1, <1>4, <2>3 DEF HasChild
  <2>5. ASSUME NEW j \in 1 .. Len(q.cells)
        PROVE  CellShape(q.leaf, q.cells[j])
    <3>1. CellShape(r.leaf, r.cells[j]) /\ j \in 1 .. Len(r.cells)
      BY <1>1, <2>3 DEF PageShape
    <3>2. CASE j # e
      BY <2>3, <3>1, <3>2
    <3>3. CASE j = e
      <4> DEFINE d == q.cells[j]
      <4>1. d \in Cell
        <5>1. q.cells \in Seq(Cell)
          BY <2>3 DEF Page
        <5>2. QED
          BY <5>1, ElementOfSeq
      <4>2. d.val \in ValuesOf(q.leaf)
        BY <2>1, <2>3, <3>1, <3>3 DEF CellShape
      <4>3. QED
        BY <2>4, <4>1, <4>2 DEF CellShape
    <3>4. QED
      BY <3>2, <3>3
  <2>6. QED
    BY <1>1, <2>3, <2>5 DEF PageShape
<1>5. QED
  BY <1>2, <1>3, <1>4

(* The cells of a full page with one more, before splitNode deals them out. *)
LEMMA WithCellShape ==
  ASSUME NEW p, PageShape(p), NEW i \in 0 .. Len(p.cells), NEW k \in Int,
         NEW v \in ValuesOf(p.leaf), NEW rc \in Nat,
         NEW q, q = WithCell(p, i + 1, k, v, rc)
  PROVE  /\ q.cells \in Seq(Cell) /\ q.rightmost \in Nat
         /\ Len(q.cells) \in Nat \ {0} /\ Len(q.cells) = Len(p.cells) + 1
         /\ \A j \in 1 .. Len(q.cells) : CellShape(p.leaf, q.cells[j])
<1> DEFINE o == [q EXCEPT !.content = @ - CellSize(p.leaf, v)]
<1>1. Inserted(p, i, k, v, rc, o)
  BY WithCellInserts
<1>2. o.cells = q.cells /\ o.rightmost = q.rightmost
  <2>1. PICK x, y : \/ q = [p EXCEPT !.cells = x, !.rightmost = rc]
                    \/ q = [p EXCEPT !.cells = y]
    BY Zenon DEF WithCell
  <2>2. p \in Page
    BY DEF PageShape
  <2>3. "cells" \in DOMAIN q /\ "rightmost" \in DOMAIN q
    BY <2>1, <2>2 DEF Page
  <2>4. QED
    BY <2>3
<1> HIDE DEF o
<1>3. PageShape(o) /\ o.leaf = p.leaf /\ Len(o.cells) = Len(p.cells) + 1
  BY <1>1, InsertedShape
<1>4. Len(p.cells) \in Nat /\ o.cells \in Seq(Cell) /\ o.rightmost \in Nat
  BY <1>3, ShapeFacts
<1>5. \A j \in 1 .. Len(o.cells) : CellShape(p.leaf, o.cells[j])
  BY <1>3 DEF PageShape
<1>6. QED
  BY <1>2, <1>3, <1>4, <1>5

(* Part of the cells of a page.                                             *)
LEMMA PartShape ==
  ASSUME NEW leaf, NEW t \in Seq(Cell),
         \A j \in 1 .. Len(t) : CellShape(leaf, t[j]),
         NEW a \in Nat \ {0}, NEW b \in Int, b <= Len(t)
  PROVE  /\ SubSeq(t, a, b) \in Seq(Cell)
         /\ Len(SubSeq(t, a, b)) = IF a <= b THEN b - a + 1 ELSE 0
         /\ \A j \in 1 .. Len(SubSeq(t, a, b)) : CellShape(leaf, SubSeq(t, a, b)[j])
<1> DEFINE s == SubSeq(t, a, b)
<1>1. \A j \in a .. b : t[j] \in Cell
  <2>1. TAKE j \in a .. b
  <2>2. j \in 1 .. Len(t)
    OBVIOUS
  <2>3. QED
    BY <2>2, ElementOfSeq
<1>2. /\ s \in Seq(Cell) /\ Len(s) = IF a <= b THEN b - a + 1 ELSE 0
      /\ \A j \in 1 .. b - a + 1 : s[j] = t[a + j - 1]
  BY <1>1, SubSeqProperties
<1> HIDE DEF s
<1>3. ASSUME NEW j \in 1 .. Len(s)
      PROVE  CellShape(leaf, s[j])
  <2>1. j \in 1 .. b - a + 1 /\ a + j - 1 \in 1 .. Len(t)
    BY <1>2
  <2>2. QED
    BY <1>2, <2>1
<1>4. QED
  BY <1>2, <1>3 DEF s
-----------------------------------------------------------------------------
(* The actions keep the page laid out.                                      *)
IInv == Laid(bytes, page)

LEMMA PutCellKeeps ==
  ASSUME NEW m, NEW p, Laid(m, p), NEW k \in Int, NEW v \in ValuesOf(p.leaf),
         NEW rc \in Nat, PutCell(m, p, k, v, rc), Fits(page)'
  PROVE  IInv'
<1> DEFINE i == Idx(p, k)
           q == [WithCell(p, i + 1, k, v, rc)
                   EXCEPT !.content = @ - CellSize(p.leaf, v)]
<1>1. PageShape(p) /\ NumCells(p) = Len(p.cells)
  BY LaidFacts, ShapeFacts DEF Laid
<1>2. i \in 0 .. Len(p.cells)
  BY <1>1, IdxRange
<1>3. bytes' = InsertAtIdx(m, i, Len(p.cells), p.leaf, k, v, rc) /\ page' = q
  BY <1>1 DEF PutCell
<1> HIDE DEF i
<1>4. Inserted(p, i, k, v, rc, q)
  BY <1>1, <1>2, WithCellInserts
<1> HIDE DEF q
<1>5. Fits(q)
  BY <1>3
<1>6. Laid(InsertAtIdx(m, i, Len(p.cells), p.leaf, k, v, rc), q)
  BY <1>2, <1>4, <1>5, InsertKeeps
<1>7. QED
  BY <1>3, <1>6 DEF IInv

LEMMA OverwriteStep ==
  ASSUME IInv, NEW k \in Keys, NEW v \in Values, Overwrite(k, v)
  PROVE  IInv'
<1> DEFINE i == Idx(page, k)
           q == [page EXCEPT !.cells[i + 1].val = v]
<1>1. /\ Laid(bytes, page) /\ LaidWith(bytes, page, Len(page.cells))
      /\ PageShape(page)
  BY LaidFacts DEF IInv, Laid
<1>2. i \in 0 .. Len(page.cells) - 1
  BY <1>1, HoldsRange DEF Overwrite
<1>3. /\ bytes' = OverwriteAt(bytes, i, page.leaf, v) /\ page' = q
      /\ HasValue(page.leaf) /\ Length(v) <= Length(page.cells[i + 1].val)
  BY DEF Overwrite
<1> HIDE DEF i
<1>4. Overwritten(page, i, v, q)
  BY <1>1, <1>2, OverwrittenPage
<1> HIDE DEF q
<1>5. LaidWith(OverwriteAt(bytes, i, page.leaf, v), q, Len(page.cells))
  BY <1>1, <1>2, <1>3, <1>4, OverwriteKeeps
<1>6. Len(q.cells) = Len(page.cells)
  BY <1>4 DEF Overwritten, OneCellSet
<1>7. QED
  BY <1>3, <1>5, <1>6 DEF IInv, Laid

LEMMA DeleteStep ==
  ASSUME IInv, NEW k, Holds(page, k)
  PROVE  /\ Laid(DeleteAt(bytes, Idx(page, k), NumCells(page)),
                 DeleteCell(page, Idx(page, k) + 1))
         /\ DeleteCell(page, Idx(page, k) + 1).leaf = page.leaf
<1> DEFINE i == Idx(page, k)
<1>1. Laid(bytes, page) /\ PageShape(page) /\ NumCells(page) = Len(page.cells)
  BY LaidFacts, ShapeFacts DEF IInv, Laid
<1>2. i \in 0 .. Len(page.cells) - 1
  BY <1>1, HoldsRange
<1> HIDE DEF i
<1>3. Deleted(page, i, DeleteCell(page, i + 1))
  BY <1>1, <1>2, DeleteCellDeletes
<1>4. Laid(DeleteAt(bytes, i, Len(page.cells)), DeleteCell(page, i + 1))
  BY <1>1, <1>2, <1>3, DeleteKeeps
<1>5. DeleteCell(page, i + 1).leaf = page.leaf
  BY <1>3 DEF Deleted
<1>6. QED
  BY <1>1, <1>4, <1>5 DEF i

(* A half that splitNode writes: cells of the page or the new one, and, but *)
(* for a single cell, no more than there were on the page.                  *)
Half(p, cells) ==
  /\ cells \in Seq(Cell)
  /\ \A j \in 1 .. Len(cells) : CellShape(p.leaf, cells[j])
  /\ Len(cells) <= Len(p.cells) \/ Len(cells) <= 1

LEMMA SplitDeals ==
  ASSUME NEW m, NEW p, Laid(m, p), NEW k \in Int, NEW v \in ValuesOf(p.leaf),
         NEW rc \in Nat, NEW new \in Children, Split(m, p, k, v, rc, new)
  PROVE  \E cells \in Seq(Cell), x \in Nat, y \in Int :
           Half(p, cells) /\ SplitInto(p.leaf, cells, x, y)
<1> DEFINE leaf == p.leaf
           i    == Idx(p, k)
           q    == WithCell(p, i + 1, k, v, rc)
           mid  == Promoted(q.cells)
           next == LinkLeaves(leaf, new, p.next)
           l    == SubSeq(q.cells, 1, mid - 1)
           lr   == IF leaf THEN 0 ELSE q.cells[mid].lc
           r    == SubSeq(q.cells, RightStart(leaf, mid), Len(q.cells))
           rr   == IF leaf THEN 0 ELSE q.rightmost
<1>1. PageShape(p) /\ leaf \in BOOLEAN /\ p.next \in Int
  BY LaidFacts, ShapeFacts DEF Laid
<1>2. i \in 0 .. Len(p.cells)
  BY <1>1, IdxRange
<1>3. k \in Int /\ rc \in Nat /\ new \in Nat
  BY LayoutAssumption DEF RightsOf
<1>4. \/ SplitInto(leaf, l, lr, next.left)
      \/ SplitInto(leaf, r, rr, next.right)
  BY DEF Split
<1> HIDE DEF i
<1>5. /\ q.cells \in Seq(Cell) /\ q.rightmost \in Nat
      /\ Len(q.cells) \in Nat \ {0} /\ Len(q.cells) = Len(p.cells) + 1
      /\ Len(p.cells) \in Nat
      /\ \A j \in 1 .. Len(q.cells) : CellShape(leaf, q.cells[j])
  BY <1>1, <1>2, <1>3, WithCellShape, ShapeFacts
<1> HIDE DEF q, leaf
<1>6. mid \in 1 .. Len(q.cells)
  <2> DEFINE n == Len(q.cells)
  <2>1. n \in Nat /\ n >= 1 /\ mid = n \div 2 + 1
    BY <1>5 DEF Promoted
  <2> HIDE DEF n, mid
  <2>2. \A h \in Nat : h >= 1 => h \div 2 + 1 \in 1 .. h
    OBVIOUS
  <2>3. mid \in 1 .. n
    BY <2>1, <2>2
  <2>4. QED
    BY <2>3 DEF n
<1>7. RightStart(leaf, mid) \in Nat \ {0}
  BY <1>5, <1>6 DEF RightStart
<1>8. next.left \in Int /\ next.right \in Int
  BY <1>1, <1>3 DEF LinkLeaves, InvalidPage
<1>9. lr \in Nat /\ rr \in Nat
  <2>1. q.cells[mid] \in Cell
    BY <1>5, <1>6, ElementOfSeq
  <2>2. q.cells[mid].lc \in Nat
    BY <2>1 DEF Cell
  <2>3. QED
    BY <1>5, <2>2
<1> HIDE DEF mid, next, lr, rr
<1>10. Half(p, l)
  <2>1. mid - 1 \in Int /\ mid - 1 <= Len(q.cells) /\ 1 \in Nat \ {0}
    BY <1>5, <1>6
  <2>2. /\ l \in Seq(Cell) /\ \A j \in 1 .. Len(l) : CellShape(leaf, l[j])
        /\ Len(l) = IF 1 <= mid - 1 THEN (mid - 1) - 1 + 1 ELSE 0
    BY <1>5, <2>1, PartShape
  <2> HIDE DEF l
  <2>3. Len(l) <= Len(p.cells)
    BY <1>5, <1>6, <2>2
  <2>4. QED
    BY <2>2, <2>3 DEF Half, leaf
<1>11. Half(p, r)
  <2> DEFINE a == RightStart(leaf, mid)
             n == Len(q.cells)
  <2>1. n \in Int /\ n <= n /\ a \in Nat \ {0}
    BY <1>5, <1>7
  <2>2. /\ r \in Seq(Cell) /\ \A j \in 1 .. Len(r) : CellShape(leaf, r[j])
        /\ Len(r) = IF a <= n THEN n - a + 1 ELSE 0
    BY <1>5, <2>1, PartShape
  <2>3. mid <= a /\ mid = n \div 2 + 1
    <3>1. mid \in Int
      BY <1>5, <1>6
    <3>2. mid <= a
      BY <3>1 DEF RightStart
    <3>3. mid = n \div 2 + 1
      BY DEF mid, Promoted
    <3>4. QED
      BY <3>2, <3>3
  <2> HIDE DEF r, a, n
  <2>4. n = 1 \/ mid >= 2
    <3>1. \A h \in Nat : h >= 2 => h \div 2 >= 1 /\ h \div 2 \in Int
      OBVIOUS
    <3>2. n \in Nat \ {0}
      BY <1>5 DEF n
    <3>3. CASE n >= 2
      <4>1. n \div 2 >= 1 /\ n \div 2 \in Int
        BY <3>1, <3>2, <3>3
      <4>2. QED
        BY <2>3, <4>1
    <3>4. QED
      BY <3>2, <3>3
  <2>5. Len(r) <= Len(p.cells) \/ Len(r) <= 1
    <3>1. n = Len(p.cells) + 1 /\ Len(p.cells) \in Nat /\ mid \in Int
      BY <1>5, <1>6 DEF n
    <3>2. Len(r) = (IF a <= n THEN n - a + 1 ELSE 0) /\ mid <= a
      BY <2>2, <2>3
    <3>3. QED
      BY ONLY <2>1, <2>4, <3>1, <3>2
  <2>6. QED
    BY <2>2, <2>5 DEF Half, leaf
<1>12. l \in Seq(Cell) /\ r \in Seq(Cell)
  BY <1>10, <1>11 DEF Half
<1> HIDE DEF l, r
<1>13. QED
  BY <1>4, <1>8, <1>9, <1>10, <1>11, <1>12 DEF leaf

LEMMA SplitKeeps ==
  ASSUME NEW m, NEW p, Laid(m, p), NEW k \in Int, NEW v \in ValuesOf(p.leaf),
         NEW rc \in Nat, NEW new \in Children, Split(m, p, k, v, rc, new),
         Fits(page)'
  PROVE  IInv'
<1>1. PICK cells \in Seq(Cell), x \in Nat, y \in Int :
        Half(p, cells) /\ SplitInto(p.leaf, cells, x, y)
  BY SplitDeals
<1>2. /\ bytes' = Rebuilt(p.leaf, cells, x, y)
      /\ page' = NewPage(p.leaf, cells, x, y)
  BY <1>1 DEF SplitInto
<1>3. Fits(NewPage(p.leaf, cells, x, y))
  BY <1>2
<1>4. p.leaf \in BOOLEAN
  BY LaidFacts, ShapeFacts DEF Laid
<1>5. Laid(Rebuilt(p.leaf, cells, x, y), NewPage(p.leaf, cells, x, y))
  BY <1>1, <1>3, <1>4, RebuiltLaid DEF Half
<1>6. QED
  BY <1>2, <1>5 DEF IInv

LEMMA DoInsertKeeps ==
  ASSUME NEW m, NEW p, Laid(m, p), NEW k \in Keys, NEW v \in ValuesOf(p.leaf),
         NEW rc \in Nat, NEW new \in Children, DoInsert(m, p, k, v, rc, new),
         Fits(page)'
  PROVE  IInv'
<1>1. k \in Int
  BY LayoutAssumption
<1>2. QED
  BY <1>1, PutCellKeeps, SplitKeeps DEF DoInsert

LEMMA RegrowStep ==
  ASSUME IInv, NEW k \in Keys, NEW v \in Values, NEW new \in Children,
         Regrow(k, v, new), Fits(page)'
  PROVE  IInv'
<1> DEFINE p == DeleteCell(page, Idx(page, k) + 1)
           m == DeleteAt(bytes, Idx(page, k), NumCells(page))
<1>1. page.leaf /\ Holds(page, k) /\ DoInsert(m, p, k, v, 0, new)
  BY DEF Regrow, Outgrown
<1>2. Laid(m, p) /\ p.leaf = page.leaf
  BY <1>1, DeleteStep
<1> HIDE DEF m, p
<1>3. v \in ValuesOf(p.leaf)
  BY <1>1, <1>2 DEF ValuesOf, HasValue
<1>4. QED
  BY <1>1, <1>2, <1>3, DoInsertKeeps

LEMMA DropStep ==
  ASSUME IInv, NEW k \in Keys, NEW v \in Values, Drop(k, v)
  PROVE  IInv'
BY DeleteStep DEF Drop, Outgrown, IInv

LEMMA InitLaid ==
  ASSUME Init, Fits(page)
  PROVE  IInv
<1>1. PICK leaf \in BOOLEAN : \E rc \in RightsOf(leaf) :
        /\ bytes = SetRightmost(InitPage(leaf), rc)
        /\ page = NewPage(leaf, << >>, rc, InvalidPage)
  BY DEF Init
<1>2. PICK rc \in RightsOf(leaf) :
        /\ bytes = SetRightmost(InitPage(leaf), rc)
        /\ page = NewPage(leaf, << >>, rc, InvalidPage)
  BY <1>1
<1>3. rc \in Nat
  BY LayoutAssumption DEF RightsOf
<1>4. CellBytes(leaf, << >>) = 0
  <2> DEFINE e == << >>
  <2>1. Len(e) = 0
    OBVIOUS
  <2> HIDE DEF e
  <2>2. PICK f : Sums(f, leaf, e, 0) /\ CellBytes(leaf, e) = f[0]
    BY <2>1, CellBytesIsSum
  <2>3. f[0] = 0
    BY <2>2 DEF Sums
  <2>4. QED
    BY <2>2, <2>3 DEF e
<1>5. page = [leaf |-> leaf, cells |-> << >>, content |-> PageSize,
              rightmost |-> rc, next |-> InvalidPage]
  BY <1>2, <1>4, PageSizeAssumption DEF NewPage
<1>6. /\ page \in Page /\ page.leaf = leaf /\ Len(page.cells) = 0
      /\ page.content = PageSize /\ page.rightmost = rc
      /\ page.next = InvalidPage
  BY <1>3, <1>5, PageSizeAssumption DEF Page, InvalidPage
<1>7. Laid(SetRightmost(InitPage(leaf), page.rightmost), page)
  BY <1>6, EmptyPageLaid
<1>8. QED
  BY <1>2, <1>6, <1>7 DEF IInv

LEMMA NextKeepsLaid ==
  ASSUME IInv, [Next]_vars, Fits(page)'
  PROVE  IInv'
<1>1. CASE UNCHANGED vars
  BY <1>1 DEF vars, IInv
<1>2. ASSUME NEW k \in Keys, NEW v \in ValuesOf(page.leaf),
             NEW rc \in RightsOf(page.leaf), NEW new \in Children,
             Insert(k, v, rc, new)
      PROVE  IInv'
  <2>1. rc \in Nat
    BY LayoutAssumption DEF RightsOf
  <2>2. Laid(bytes, page) /\ DoInsert(bytes, page, k, v, rc, new)
    BY <1>2 DEF IInv, Insert
  <2>3. QED
    BY <2>1, <2>2, DoInsertKeeps
<1>3. QED
  BY <1>1, <1>2, OverwriteStep, RegrowStep, DropStep DEF Next

(* The bytes of a page say what module BTPage says of it, after any number  *)
(* of insertions, overwrites, deletions and splits, as long as the cells    *)
(* and their pointers fit on the page.  The room the engine asks for does   *)
(* not count the pointer of the new cell: run page_tight shows a page where *)
(* the last cell is written over the pointers.                              *)
THEOREM PageReadsBack == Spec /\ []Fits(page) => []ReadsBack
<1>1. Init /\ Fits(page) => IInv
  BY InitLaid
<1>2. IInv /\ [Next]_vars /\ Fits(page)' => IInv'
  BY NextKeepsLaid
<1>3. IInv => ReadsBack
  BY LaidReadsBack DEF IInv, ReadsBack
<1>4. QED
  BY <1>1, <1>2, <1>3, PTL DEF Spec
-----------------------------------------------------------------------------
(* Pages that values of one length L fill.                                  *)

CellLen(leaf, L) ==
  IF ~CopyUpLeaves THEN 4 + 8 + 2 + L ELSE IF leaf THEN 8 + 2 + L ELSE 4 + 8

(* A page has place for a cell, and cells of that size with their pointers  *)
(* leave less of it than doInsert takes for room: it does not count the     *)
(* pointer.                                                                 *)
Divides(size) ==
  /\ OffCellPtrs + size + CellPtrSize <= PageSize
  /\ (PageSize - OffCellPtrs) % (size + CellPtrSize) < size

OneLength(L) ==
  /\ L \in Nat
  /\ \A v \in Values : ValLen[v] = L
  /\ \A leaf \in BOOLEAN : Divides(CellLen(leaf, L))

(* What the offset of a page's content says of its cells.                   *)
Even(p, L) == p.content = PageSize - Len(p.cells) * CellLen(p.leaf, L)

LEMMA CellOfOneLength ==
  ASSUME NEW L, OneLength(L), NEW leaf, NEW v \in ValuesOf(leaf)
  PROVE  CellSize(leaf, v) = CellLen(leaf, L)
<1>1. HasValue(leaf) => v \in Values /\ v # Nil /\ ValLen[v] = L
  BY ValuesAssumption DEF ValuesOf, OneLength
<1>2. L \in Int
  BY DEF OneLength
<1>3. QED
  BY <1>1, <1>2 DEF HasValue, CellSize, BTreeCellSize, BPTreeCellSize, CellLen,
                    Length

(* The free bytes of a page with n cells.                                   *)
LEMMA EvenSpace ==
  ASSUME NEW L, OneLength(L), NEW p, Even(p, L), NEW n \in Nat,
         n = Len(p.cells), p.leaf \in BOOLEAN,
         NEW s, s = CellLen(p.leaf, L), NEW K, K = PageSize - 13
  PROVE  /\ s \in Nat /\ K \in Nat /\ s + 2 <= K /\ K % (s + 2) < s
         /\ FreeSpace(p) = K - n * (s + 2)
<1>1. s \in Nat
  <2>1. L \in Nat
    BY DEF OneLength
  <2>2. QED
    BY <2>1 DEF CellLen
<1>2. Divides(s) /\ PageSize \in Nat
  BY PageSizeAssumption DEF OneLength
<1>3. K \in Nat /\ s + 2 <= K /\ K % (s + 2) < s
  BY <1>1, <1>2 DEF Divides, OffCellPtrs, CellPtrSize
<1>4. FreeSpace(p) = (PageSize - n * s) - (13 + n * 2)
  BY DEF FreeSpace, NumCells, OffCellPtrs, CellPtrSize, Even
<1>5. FreeSpace(p) = (PageSize - 13) - n * (s + 2)
  BY <1>1, <1>2, <1>4, SpaceLeft
<1>6. QED
  BY <1>1, <1>3, <1>5

(* The bytes that cells of one size take are a multiple of it.              *)
LEMMA BytesOfOneLength ==
  ASSUME NEW leaf, NEW cells, Len(cells) \in Nat, NEW s \in Nat,
         \A j \in 1 .. Len(cells) : CellSize(leaf, cells[j].val) = s
  PROVE  CellBytes(leaf, cells) = Len(cells) * s
<1> DEFINE m == Len(cells)
<1>1. PICK f : Sums(f, leaf, cells, m) /\ CellBytes(leaf, cells) = f[m]
  BY CellBytesIsSum
<1>2. f[0] = 0 /\ \A n \in 1 .. m : f[n] = f[n - 1] + s
  <2>1. \A n \in 1 .. m : CellSize(leaf, cells[n].val) = s
    OBVIOUS
  <2>2. f[0] = 0 /\ \A n \in 1 .. m : f[n] = f[n - 1] + CellSize(leaf, cells[n].val)
    BY <1>1 DEF Sums
  <2>3. QED
    BY <2>1, <2>2
<1>3. m \in Nat
  OBVIOUS
<1> HIDE DEF m
<1> DEFINE Bad == {n \in 0 .. m : f[n] # n * s}
<1>4. Bad = {}
  <2>1. SUFFICES ASSUME Bad # {} PROVE FALSE
    OBVIOUS
  <2>2. PICK n \in Bad : \A l \in Bad : n <= l
    <3>1. Bad \subseteq Nat
      OBVIOUS
    <3> HIDE DEF Bad
    <3>2. QED
      BY <2>1, <3>1, LeastNat
  <2>3. n \in 0 .. m /\ n \in Int /\ f[n] # n * s
    BY <1>3, <2>2
  <2>4. n # 0
    BY <1>2, <2>3
  <2>5. n \in 1 .. m /\ n - 1 \in 0 .. m /\ ~(n <= n - 1)
    BY <1>3, <2>3, <2>4
  <2>6. f[n - 1] = (n - 1) * s
    BY <2>2, <2>5
  <2>7. f[n] = (n - 1) * s + s
    BY <1>2, <2>5, <2>6
  <2>8. QED
    BY <2>3, <2>7, OneMoreTime
<1>5. CellBytes(leaf, cells) = m * s
  BY <1>1, <1>3, <1>4
<1>6. QED
  BY <1>5 DEF m

(* A page without cells has place for one.                                  *)
LEMMA InitEven ==
  ASSUME NEW L, OneLength(L), Init
  PROVE  Even(page, L) /\ Fits(page)
<1>1. PICK leaf \in BOOLEAN, rc \in Nat :
        page = NewPage(leaf, << >>, rc, InvalidPage)
  BY LayoutAssumption DEF Init, RightsOf
<1> DEFINE e == << >>
           s == CellLen(leaf, L)
<1>2. Len(e) = 0 /\ \A j \in 1 .. Len(e) : CellSize(leaf, e[j].val) = s
  OBVIOUS
<1>3. s \in Nat
  BY DEF CellLen, OneLength
<1> HIDE DEF e, s
<1>4. CellBytes(leaf, e) = Len(e) * s
  BY <1>2, <1>3, BytesOfOneLength
<1>5. /\ page.content = PageSize - Len(e) * s /\ page.leaf = leaf
      /\ page.cells = e
  BY <1>1, <1>4 DEF NewPage, e
<1>6. Even(page, L) /\ Len(page.cells) = 0
  BY <1>2, <1>5 DEF Even, s
<1>7. /\ FreeSpace(page) = (PageSize - 13) - 0 * (s + 2)
      /\ PageSize - 13 \in Nat
  BY <1>5, <1>6, EvenSpace DEF s
<1>8. QED
  BY <1>3, <1>6, <1>7 DEF Fits

(* A page with room for a cell has place for its pointer.                   *)
LEMMA PutCellEven ==
  ASSUME NEW L, OneLength(L), NEW m, NEW p, Laid(m, p), Even(p, L), NEW k \in Int,
         NEW v \in ValuesOf(p.leaf), NEW rc \in Nat, PutCell(m, p, k, v, rc)
  PROVE  (Even(page, L) /\ Fits(page))'
<1> DEFINE i == Idx(p, k)
           n == Len(p.cells)
           s == CellLen(p.leaf, L)
           K == PageSize - 13
           q == [WithCell(p, i + 1, k, v, rc)
                   EXCEPT !.content = @ - CellSize(p.leaf, v)]
<1>1. PageShape(p) /\ NumCells(p) = n /\ n \in Nat /\ p.leaf \in BOOLEAN
      /\ p.content \in Int
  BY LaidFacts, ShapeFacts DEF Laid
<1>2. i \in 0 .. n
  BY <1>1, IdxRange
<1>3. CellSize(p.leaf, v) = s
  BY CellOfOneLength
<1>4. page' = q
  BY <1>1 DEF PutCell
<1>5. FreeSpace(p) >= s
  <2>1. FreeSpaceAt(m, n) >= s
    BY <1>1, <1>3 DEF PutCell
  <2>2. ContentAt(m) = p.content
    BY HeaderReads DEF Laid
  <2>3. QED
    BY <1>1, <2>1, <2>2 DEF FreeSpaceAt, FreeSpace
<1>6. /\ s \in Nat /\ K \in Nat /\ K % (s + 2) < s
      /\ FreeSpace(p) = K - n * (s + 2)
  BY <1>1, EvenSpace
<1> HIDE DEF i
<1>7. Inserted(p, i, k, v, rc, q)
  BY <1>1, <1>2, WithCellInserts
<1> HIDE DEF q
<1>8. PageShape(q) /\ q.leaf = p.leaf /\ Len(q.cells) = n + 1
  BY <1>1, <1>2, <1>7, InsertedShape
<1>9. q.content = p.content - s
  <2> DEFINE r == WithNewCell(p, i, k, v)
  <2>1. r.content = p.content - CellSize(p.leaf, v)
    BY <1>1, <1>2, NewCellPage
  <2>2. q.content = r.content
    BY <1>7 DEF Inserted, OneCellSet
  <2>3. QED
    BY <1>3, <2>1, <2>2
<1>10. Even(q, L)
  <2>1. p.content = PageSize - n * s
    BY DEF Even
  <2> HIDE DEF n, s
  <2>2. (n + 1) * s = n * s + s /\ n * s \in Int
    BY <1>1, <1>6
  <2>3. q.content = PageSize - (n + 1) * s
    BY <1>6, <1>9, <2>1, <2>2, PageSizeAssumption
  <2>4. QED
    BY <1>8, <2>3 DEF Even, s
<1>11. Fits(q)
  <2>1. K - n * (s + 2) >= s
    BY <1>5, <1>6
  <2>2. FreeSpace(q) = K - (n + 1) * (s + 2)
    <3>1. n + 1 \in Nat
      BY <1>1
    <3>2. QED
      BY <1>1, <1>8, <1>10, <3>1, EvenSpace
  <2> HIDE DEF K, n, s
  <2>3. K - (n + 1) * (s + 2) >= 0
    BY <1>1, <1>6, <2>1, OneMoreFits
  <2>4. QED
    BY <2>2, <2>3 DEF Fits
<1>12. QED
  BY <1>4, <1>10, <1>11

(* The halves of a page that fits are no larger.                            *)
LEMMA SplitEven ==
  ASSUME NEW L, OneLength(L), NEW m, NEW p, Laid(m, p), Even(p, L), NEW k \in Int,
         NEW v \in ValuesOf(p.leaf), NEW rc \in Nat, NEW new \in Children,
         Split(m, p, k, v, rc, new)
  PROVE  (Even(page, L) /\ Fits(page))'
<1>1. PICK cells \in Seq(Cell), x \in Nat, y \in Int :
        Half(p, cells) /\ SplitInto(p.leaf, cells, x, y)
  BY SplitDeals
<1> DEFINE h == NewPage(p.leaf, cells, x, y)
           s == CellLen(p.leaf, L)
           K == PageSize - 13
           n == Len(p.cells)
           l == Len(cells)
<1>2. page' = h
  BY <1>1 DEF SplitInto
<1>3. /\ p.leaf \in BOOLEAN /\ n \in Nat /\ l \in Nat /\ Fits(p)
      /\ PageSize \in Nat
  BY LaidFacts, ShapeFacts DEF Laid, LaidWith
<1>4. /\ s \in Nat /\ K \in Nat /\ s + 2 <= K
      /\ FreeSpace(p) = K - n * (s + 2)
  BY <1>3, EvenSpace
<1>5. \A j \in 1 .. l : CellSize(p.leaf, cells[j].val) = s
  BY <1>1, CellOfOneLength DEF Half, CellShape
<1>6. CellBytes(p.leaf, cells) = l * s
  <2> HIDE DEF s
  <2>1. QED
    BY <1>3, <1>4, <1>5, BytesOfOneLength
<1>7. h.content = PageSize - l * s /\ h.leaf = p.leaf /\ Len(h.cells) = l
  BY <1>6 DEF NewPage
<1> HIDE DEF h
<1>8. Even(h, L)
  BY <1>7 DEF Even
<1>9. FreeSpace(h) = K - l * (s + 2)
  BY <1>3, <1>7, <1>8, EvenSpace
<1>10. l <= n \/ l <= 1
  BY <1>1 DEF Half
<1>11. K - n * (s + 2) >= 0
  BY <1>3, <1>4 DEF Fits
<1> HIDE DEF K, l, n, s
<1>12. l * (s + 2) <= K /\ l * (s + 2) \in Int
  <2> DEFINE t == s + 2
  <2>1. t \in Nat /\ t <= K
    BY <1>4
  <2>2. n * t <= K
    BY <1>3, <1>4, <1>11
  <2> HIDE DEF t
  <2>3. l * t \in Int /\ n * t \in Int /\ 1 * t = t
    BY <1>3, <2>1
  <2>4. l <= n => l * t <= n * t
    BY <1>3, <2>1, FewerFit
  <2>5. l <= 1 => l * t <= 1 * t
    BY <1>3, <2>1, FewerFit
  <2>6. l * t <= K
    BY <1>4, <1>10, <2>1, <2>2, <2>3, <2>4, <2>5
  <2>7. QED
    BY <2>3, <2>6 DEF t
<1>13. Fits(h)
  BY <1>4, <1>9, <1>12 DEF Fits
<1>14. QED
  BY <1>2, <1>8, <1>13

(* No value outgrows another.                                               *)
LEMMA NoneOutgrown ==
  ASSUME NEW L, OneLength(L), IInv, NEW k, NEW v \in Values
  PROVE  ~Outgrown(k, v)
<1>1. SUFFICES ASSUME Outgrown(k, v)
               PROVE  FALSE
  OBVIOUS
<1> DEFINE i == Idx(page, k)
           old == page.cells[i + 1].val
<1>2. PageShape(page) /\ Len(page.cells) \in Nat
  BY LaidFacts, ShapeFacts DEF IInv, Laid
<1>3. i \in 0 .. Len(page.cells) - 1
  BY <1>1, <1>2, HoldsRange DEF Outgrown
<1> HIDE DEF i
<1>4. i + 1 \in 1 .. Len(page.cells)
  BY <1>2, <1>3
<1>5. CellShape(page.leaf, page.cells[i + 1])
  BY <1>2, <1>4 DEF PageShape
<1>6. old \in Values
  BY <1>1, <1>5 DEF CellShape, ValuesOf, Outgrown
<1>7. Length(v) > Length(old)
  BY <1>1 DEF Outgrown, i
<1> HIDE DEF old
<1>8. Length(v) = L /\ Length(old) = L /\ L \in Int
  BY <1>6, ValuesAssumption DEF OneLength, Length
<1>9. QED
  BY <1>7, <1>8

LEMMA NextKeepsEven ==
  ASSUME NEW L, OneLength(L), IInv, Even(page, L), Fits(page), [Next]_vars
  PROVE  (Even(page, L) /\ Fits(page))'
<1>1. CASE UNCHANGED vars
  BY <1>1 DEF vars
<1>2. Laid(bytes, page)
  BY DEF IInv
<1>3. ASSUME NEW k \in Keys, NEW v \in ValuesOf(page.leaf),
             NEW rc \in RightsOf(page.leaf), NEW new \in Children,
             Insert(k, v, rc, new)
      PROVE  (Even(page, L) /\ Fits(page))'
  <2>1. k \in Int /\ rc \in Nat
    BY LayoutAssumption DEF RightsOf
  <2>2. PutCell(bytes, page, k, v, rc) \/ Split(bytes, page, k, v, rc, new)
    BY <1>3 DEF Insert, DoInsert
  <2>3. QED
    BY <1>2, <2>1, <2>2, PutCellEven, SplitEven
<1>4. ASSUME NEW k \in Keys, NEW v \in Values, Overwrite(k, v)
      PROVE  (Even(page, L) /\ Fits(page))'
  <2> DEFINE i == Idx(page, k)
             q == [page EXCEPT !.cells[i + 1].val = v]
  <2>1. PageShape(page)
    BY <1>2, LaidFacts DEF Laid
  <2>2. i \in 0 .. Len(page.cells) - 1
    BY <1>4, <2>1, HoldsRange DEF Overwrite
  <2>3. page' = q
    BY <1>4 DEF Overwrite
  <2> HIDE DEF i
  <2>4. Overwritten(page, i, v, q)
    BY <2>1, <2>2, OverwrittenPage
  <2> HIDE DEF q
  <2>5. /\ q.leaf = page.leaf /\ q.content = page.content
        /\ Len(q.cells) = Len(page.cells)
    BY <2>4 DEF Overwritten, OneCellSet
  <2>6. Even(q, L) /\ Fits(q)
    BY <2>5 DEF Even, Fits, FreeSpace, NumCells
  <2>7. QED
    BY <2>3, <2>6
<1>5. QED
  BY <1>1, <1>3, <1>4, NoneOutgrown DEF Next, Regrow, Drop

(* With values of one length, of which cells fill a page to less than one   *)
(* more, the bytes always say what module BTPage says of the page.          *)
THEOREM PageReadsBackOneLength ==
  ASSUME NEW L, OneLength(L)
  PROVE  Spec => []ReadsBack
<1> DEFINE Inv == IInv /\ Even(page, L) /\ Fits(page)
<1>1. Init => Inv
  BY InitEven, InitLaid
<1>2. Inv /\ [Next]_vars => Inv'
  <2>1. SUFFICES ASSUME Inv, [Next]_vars PROVE Inv'
    OBVIOUS
  <2>2. (Even(page, L) /\ Fits(page))'
    BY <2>1, NextKeepsEven
  <2>3. IInv'
    BY <2>1, <2>2, NextKeepsLaid
  <2>4. QED
    BY <2>2, <2>3
<1>3. Inv => ReadsBack
  BY LaidReadsBack DEF IInv, ReadsBack
<1>4. QED
  BY <1>1, <1>2, <1>3, PTL DEF Spec
-----------------------------------------------------------------------------
(* The loop of FindIdx.                                                     *)

(* On a page in order the cells that go right come first.                   *)
LEMMA GoesRightMonotone ==
  ASSUME NEW p \in Page, InOrder(p), NEW k \in Int, NEW leaf \in BOOLEAN,
         NEW i \in 1 .. NumCells(p), NEW j \in 1 .. NumCells(p), i <= j,
         GoesRight(p, j, k, leaf)
  PROVE  GoesRight(p, i, k, leaf)
<1>1. /\ p.cells[i].key \in Int
      /\ p.cells[j].key \in Int
  <2>1. p.cells \in Seq(Cell)
    BY DEF Page
  <2>2. p.cells[i] \in Cell /\ p.cells[j] \in Cell
    BY <2>1 DEF NumCells
  <2>3. QED
    BY <2>2 DEF Cell
<1>2. p.cells[i].key <= p.cells[j].key
  <2>1. CASE i < j
    BY <2>1 DEF InOrder
  <2>2. CASE i = j
    BY <1>1, <2>2
  <2>3. QED
    BY <2>1, <2>2 DEF NumCells, Page
<1>3. QED
  BY <1>1, <1>2 DEF GoesRight

(* At most one position has only cells that go right before it and only     *)
(* cells that do not from it on, and FindIdx chooses it.                    *)
LEMMA FindIdxIsTheBorder ==
  ASSUME NEW p \in Page, InOrder(p), NEW k \in Int, NEW leaf \in BOOLEAN,
         NEW b \in 1 .. NumCells(p) + 1,
         \A i \in 1 .. b - 1 : GoesRight(p, i, k, leaf),
         \A i \in b .. NumCells(p) : ~GoesRight(p, i, k, leaf)
  PROVE  FindIdx(p, k, leaf) = b
<1> DEFINE Border(i) ==
             /\ i > 1 => GoesRight(p, i - 1, k, leaf)
             /\ i <= NumCells(p) => ~GoesRight(p, i, k, leaf)
<1>0. NumCells(p) \in Nat
  BY DEF NumCells, Page
<1>1. Border(b)
  BY <1>0
<1>2. ASSUME NEW i \in 1 .. NumCells(p) + 1, Border(i)
      PROVE  i = b
  <2>1. ~(i < b)
    <3>1. SUFFICES ASSUME i < b PROVE FALSE
      OBVIOUS
    <3>2. i <= NumCells(p) /\ i \in 1 .. b - 1
      BY <1>0, <3>1
    <3>3. QED
      BY <1>2, <3>2
  <2>2. ~(i > b)
    <3>1. SUFFICES ASSUME i > b PROVE FALSE
      OBVIOUS
    <3>2. i > 1 /\ i - 1 \in b .. NumCells(p)
      BY <1>0, <3>1
    <3>3. QED
      BY <1>2, <3>2
  <2>3. QED
    BY <1>0, <2>1, <2>2
<1> HIDE DEF Border
<1>3. FindIdx(p, k, leaf) = CHOOSE i \in 1 .. NumCells(p) + 1 : Border(i)
  BY DEF FindIdx, Border
<1>4. QED
  BY <1>1, <1>2, <1>3
-----------------------------------------------------------------------------
SearchInv == SearchTypeOK /\ Bracketed

LEMMA PageFacts ==
  ASSUME SearchTypeOK
  PROVE  /\ node \in Page /\ InOrder(node) /\ node.leaf \in BOOLEAN
         /\ key \in Int
         /\ NumCells(node) \in Nat /\ lo \in Nat /\ hi \in Nat
BY SearchAssumption DEF SearchTypeOK, Page, NumCells

LEMMA SearchBegins == SearchInit => SearchInv
<1>1. SUFFICES ASSUME SearchInit PROVE SearchInv
  OBVIOUS
<1>2. NumCells(node) \in Nat
  BY <1>1, SearchAssumption DEF SearchInit, NumCells, Page
<1>3. QED
  BY <1>1, <1>2 DEF SearchInit, SearchInv, SearchTypeOK, Bracketed

LEMMA MidFacts ==
  ASSUME SearchTypeOK, lo < hi
  PROVE  /\ Mid \in Nat /\ lo <= Mid /\ Mid < hi
         /\ Mid + 1 \in 1 .. NumCells(node)
<1>1. lo \in Nat /\ hi \in Nat /\ NumCells(node) \in Nat
  BY PageFacts
<1>2. Mid \in Nat /\ lo <= Mid /\ Mid < hi
  BY <1>1 DEF Mid
<1>3. hi <= NumCells(node)
  BY <1>1 DEF SearchTypeOK
<1>4. QED
  BY <1>1, <1>2, <1>3

LEMMA RightKeeps == SearchInv /\ SearchRight => SearchInv'
<1>1. SUFFICES ASSUME SearchInv, SearchRight PROVE SearchInv'
  OBVIOUS
<1>2. PICK m \in Nat : m = Mid
  BY <1>1, MidFacts DEF SearchInv, SearchRight
<1>3. /\ lo <= m /\ m < hi /\ m + 1 \in 1 .. NumCells(node)
      /\ lo' = m + 1 /\ hi' = hi /\ node' = node /\ key' = key
      /\ GoesRight(node, m + 1, key, node.leaf)
  BY <1>1, <1>2, MidFacts DEF SearchInv, SearchRight
<1>4. NumCells(node)' = NumCells(node)
  BY <1>3 DEF NumCells
<1>5. SearchTypeOK'
  BY <1>1, <1>3, <1>4 DEF SearchInv, SearchTypeOK
<1>6. \A i \in 1 .. m + 1 : GoesRight(node, i, key, node.leaf)
  <2>1. TAKE i \in 1 .. m + 1
  <2>2. i \in 1 .. NumCells(node) /\ i <= m + 1
    BY <1>1, <1>3, PageFacts DEF SearchInv
  <2>3. QED
    BY <1>1, <1>3, <2>2, PageFacts, GoesRightMonotone DEF SearchInv
<1>7. Bracketed'
  <2>1. lo' <= hi'
    BY <1>1, <1>3, PageFacts DEF SearchInv
  <2>2. QED
    BY <1>1, <1>3, <1>4, <1>6, <2>1 DEF SearchInv, Bracketed, GoesRight
<1>8. QED
  BY <1>5, <1>7 DEF SearchInv

LEMMA LeftKeeps == SearchInv /\ SearchLeft => SearchInv'
<1>1. SUFFICES ASSUME SearchInv, SearchLeft PROVE SearchInv'
  OBVIOUS
<1>2. PICK m \in Nat : m = Mid
  BY <1>1, MidFacts DEF SearchInv, SearchLeft
<1>3. /\ lo <= m /\ m < hi /\ m + 1 \in 1 .. NumCells(node)
      /\ hi' = m /\ lo' = lo /\ node' = node /\ key' = key
      /\ ~GoesRight(node, m + 1, key, node.leaf)
  BY <1>1, <1>2, MidFacts DEF SearchInv, SearchLeft
<1>4. NumCells(node)' = NumCells(node)
  BY <1>3 DEF NumCells
<1>5. SearchTypeOK'
  BY <1>1, <1>3, <1>4, PageFacts DEF SearchInv, SearchTypeOK
<1>6. \A i \in m + 1 .. NumCells(node) : ~GoesRight(node, i, key, node.leaf)
  <2>1. TAKE i \in m + 1 .. NumCells(node)
  <2>2. i \in 1 .. NumCells(node) /\ m + 1 <= i
    BY <1>1, <1>3, PageFacts DEF SearchInv
  <2>3. QED
    BY <1>1, <1>3, <2>2, PageFacts, GoesRightMonotone DEF SearchInv
<1>7. Bracketed'
  BY <1>1, <1>3, <1>4, <1>6 DEF SearchInv, Bracketed, GoesRight
<1>8. QED
  BY <1>5, <1>7 DEF SearchInv

LEMMA SearchGoesOn == SearchInv /\ [SearchNext]_searchVars => SearchInv'
<1>1. SearchInv /\ UNCHANGED searchVars => SearchInv'
  BY DEF SearchInv, SearchTypeOK, Bracketed, searchVars, GoesRight, NumCells
<1>2. QED
  BY <1>1, RightKeeps, LeftKeeps DEF SearchNext

LEMMA SearchInvHolds == SearchSpec => []SearchInv
BY SearchBegins, SearchGoesOn, PTL DEF SearchSpec

(* The loop never looks at a cell that is not on the page, and keeps the    *)
(* answer between lo and hi.                                                *)
THEOREM SearchStaysOnPage == SearchSpec => [](SearchTypeOK /\ Bracketed)
BY SearchInvHolds, PTL DEF SearchInv

(* When the loop of FindIdx ends on a page in order, lo is the position the *)
(* operator FindIdx of the tree modules chooses.                            *)
THEOREM FindIdxCorrect == SearchSpec => []ReturnsFindIdx
<1>1. SearchInv => ReturnsFindIdx
  <2>1. SUFFICES ASSUME SearchInv, lo >= hi PROVE lo + 1 = FindIdx(node, key, node.leaf)
    BY DEF ReturnsFindIdx
  <2>2. lo = hi /\ lo + 1 \in 1 .. NumCells(node) + 1
    BY <2>1, PageFacts DEF SearchInv, SearchTypeOK, Bracketed
  <2>3. /\ \A i \in 1 .. (lo + 1) - 1 : GoesRight(node, i, key, node.leaf)
        /\ \A i \in lo + 1 .. NumCells(node) :
             ~GoesRight(node, i, key, node.leaf)
    BY <2>1, <2>2, PageFacts DEF SearchInv, Bracketed
  <2>4. QED
    BY <2>1, <2>2, <2>3, PageFacts, FindIdxIsTheBorder DEF SearchInv
<1>2. QED
  BY <1>1, SearchInvHolds, PTL

(* Every round reads a cell of the page and shortens the search, so that    *)
(* the loop runs at most once per cell.                                     *)
THEOREM SearchShrinks == SearchSpec => Shrinks
<1>1. SearchInv /\ [SearchNext]_searchVars =>
        [/\ Mid >= 0 /\ Mid < NumCells(node)
         /\ (hi' - lo') < (hi - lo)]_searchVars
  <2>1. SUFFICES ASSUME SearchInv, SearchNext
                 PROVE  /\ Mid >= 0 /\ Mid < NumCells(node)
                        /\ (hi' - lo') < (hi - lo)
    OBVIOUS
  <2>2. lo < hi /\ lo \in Nat /\ hi \in Nat /\ NumCells(node) \in Nat
    BY <2>1, PageFacts DEF SearchInv, SearchNext, SearchRight, SearchLeft
  <2>3. Mid \in Nat /\ lo <= Mid /\ Mid < hi /\ Mid < NumCells(node)
    BY <2>1, <2>2, MidFacts DEF SearchInv
  <2>4. \/ lo' = Mid + 1 /\ hi' = hi
        \/ hi' = Mid /\ lo' = lo
    BY <2>1 DEF SearchNext, SearchRight, SearchLeft
  <2>5. QED
    BY <2>2, <2>3, <2>4
<1>2. QED
  BY <1>1, SearchInvHolds, PTL DEF SearchSpec, Shrinks
=============================================================================
