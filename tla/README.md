# TLA+ verification of the database index benchmark

This directory models and checks the storage engines of the repository: the
pager with its page cache, the page format, the tree engine behind the B-tree
and the B+ tree, their range iterators, their sessions with crashes between them,
the LSM index with its encoding of keys, and the list index. Paths below are relative to `src/src/` of the repository.

## The system

| part | code | state | operations |
|---|---|---|---|
| pager | `dbms/pager/pager.go` | file, page count, write count, sync interval | Open, Allocate, Read, Write, SetSyncInterval, Close |
| page cache | `dbms/pager/pager.go:168` | map of entries, doubly linked list, capacity | get, put |
| page format | `dbms/index/btpage/page.go` | the bytes of one page | InitPage, accessors of the header and of cell pointers, AllocCell |
| tree engine | `dbms/index/shared/tree.go` | root id, header page, node pages in the pager | Insert, Get, FindLeaf, FindIdx, Height |
| B-tree | `dbms/index/btree/btree.go` | the engine with `BTreeAcc`; iterator with a stack | Open, Insert, Get, Delete, Range, Next, Close |
| B+ tree | `dbms/index/bptree/bptree.go` | the engine with `BPTreeAcc`; iterator on a pinned leaf | Open, Insert, Get, Delete, Range, Next, Close |
| LSM index | `dbms/index/lsm/lsm.go` | Pebble | Insert, Get, Delete, Range, Next |
| list index | `dbms/index/listindex/listindex.go` | a slice of pairs | the same |
| benchmark | `bench/*.go`, `main.go` | data files, results | fill an index, run a workload, write results, draw plots |

The benchmark opens one index after another and calls it from one goroutine.
A tree calls the pager; the pager calls its cache and the file. The only
callbacks are those of the engine into its accessor (`NodeAccessor`). There are
no locks and no goroutines in the indexes, so what makes this code hard is not
parallelism but

* **long sequences of calls**: pages split, roots grow, values are overwritten
  by longer ones, cells are dropped and inserted again;
* **several writes per call**: a split writes the old page, the new page, the
  page above and the header one after another; a page read again after a write
  must be searched again; a page changed in the cache and never written may be
  evicted and come back as it was;
* **iterators that stay open between calls**: they hold page ids, positions,
  the cached page itself, or a slice of the index's own array, while the caller
  may write;
* **failures**: a write, a sync or Close may fail, the process may die between
  two writes, and the page count only reaches the file in Close;
* **bytes**: cells grow down and cell pointers grow up on the same page, and a
  test for free space that is off by two bytes lets them meet;
* **edges**: ties between a key and a separator, the last cell of a page, the
  largest key of a range, an LRU list with one entry.

What makes each part correct:

* pager — ids handed out are fresh; a read returns the last write; the number
  of unsynced writes stays below the interval;
* page cache — list and map describe the same recency order and never exceed
  the capacity; the least recently used page goes;
* page format — fields and cells never overlap, so that everything reads back;
* tree engine — the pages are sorted and fit; the tree is balanced; each page
  hangs in it once; each key is stored at one place;
* trees — a Get answers the last Insert; the leaf chain is the leaf order;
* iterators — every pair of the range once and in order; under insertions, no
  key that was there is skipped;
* sessions — what the next Open finds is what was stored, and a crash costs no
  more than the split it interrupts;
* LSM index — the order of the encodings is the order of the keys;
* list index — each key once; a walk is about pairs that were stored.

## Modules

| module | models | notes |
|---|---|---|
| `Index` | the interface of `dbms/index/index.go` | abstract specification: a map with pending calls |
| `BTPage` | a page as cells and free bytes, cell sizes, how a split deals out | operators only |
| `PageLayout` | one page byte by byte | implements `BTPage`'s page (invariant `ReadsBack`) |
| `BinarySearch` | the loop of `FindIdx` | implements the operator `FindIdx` of `BTPage` |
| `Tree` | `Tree.Insert` with its recursion, Delete, failing writes, evictions; shape of the tree | one step between two page writes |
| `BTree`, `BPTree` | `Get` of the two trees, with `Tree` | refine `Index` |
| `TreeStore` | Open and Close of a tree, its header page and page count, crashes | adds steps to those of `Tree` |
| `BTreeStore`, `BPTreeStore` | the two trees across sessions | `BTree`/`BPTree` with `TreeStore` |
| `BTreeRange`, `BPTreeRange` | Range and Next, with the tree module | one step per round of Next's loop |
| `Recency` | what get and put do to a recency order | operators only; the cache of `Pager` |
| `LRU` | calls of the page cache with their answers | abstract specification |
| `LRUCache` | entries, `prev`, `next`, `head`, `tail`, map | refines `LRU` |
| `Pager` | file, counts, syncs, cache, failures, crashes | over `Recency` |
| `LSM` | key encoding, Range and Next over Pebble | Pebble is external |
| `ListIndex` | a slice over an array, iterators over the same array | operators and actions |
| `TwoIndexes` | `LSM` and `ListIndex` under one caller | INSTANCE of `ListIndex` |
| `Scans` | what the interface promises of Next: the pairs of a range in order, none passed over | operators only; what `ScanInOrder` of three indexes is stated with |
| `SequenceLemmas` | what insertion and removal leave where in a sequence, a scan's next pair, sums, sets of keys side by side, what a walk along links comes to, and arithmetic of cells on a page | cited by the proofs |
| `Page_proofs` | the bytes of a page read back; the loop of `FindIdx` finds the position the tree modules use | checked by TLAPS |
| `LRUCache_proofs`, `Pager_proofs`, `TwoIndexes_proofs` | theorems about these modules | checked by TLAPS |
| `Tree_proofs`, `BTree_proofs`, `BPTree_proofs` | the pages of both trees stay ordered; both are the map their interface promises, stored once; scans of both are in order, and one of the B+ tree skips nothing that is there; a file's first crash loses nothing that was stored, but in a split | checked by TLAPS |
| `MC*` | values of the constants for TLC | |

### How they correspond to the code

**Pages.** A page of `BTPage` is a record of its header fields and of its cells
in cell pointer order. Positions count from 1 where the code's indices count
from 0. `content` is `cellContentStart`; bytes of deleted cells are never
reclaimed, so that `FreeSpace` is the code's. When a cell would run into the
pointer array, the page is no longer described by its cells: the tree modules go
to the state `pc = "corrupt"` and stop, and `PageLayout` shows byte by byte what
happens then. A byte of `PageLayout` is the field last written over it together
with its value and its place in the field; a field of which any byte is lost
reads as `Garbage`. Its actions are what `insertRec` does to one page: `Overwrite`, `Insert`,
and, where the value outgrew its cell, `Regrow` on a leaf and `Drop` on an internal page.
`Insert` and `Regrow` end in `DoInsert`, which puts the cell in (`PutCell`) or makes two
pages of one (`Split`), of which the model follows either.

**FindIdx.** The tree modules take the position from a `CHOOSE` of the border
between cells that go right and cells that do not. That the loop of the code
finds this position on every ordered page is the theorem `FindIdxCorrect`; that
the trees' pages are ordered is the invariant `PagesSorted`, a theorem for both
trees (`BTreePagesSorted`, `BPTreePagesSorted`). Neither rests on the other's
conclusion: the second takes the position by its definition.

**Insert.** The open frames of `insertRec` are the sequence `path`. `InsertOverwrite`,
`InsertInLeaf` and `InsertDescend` are the ways a frame can go on its way down;
`SplitNode` (part of `DoInsert`) and `WriteRight` are the two writes of a split,
`InsertSplit` is the frame above, which reads and searches its page again,
`NewRoot` and `WriteHeader` are the end of `Insert`. A step is never longer than
up to the next page write, so that the states in between are those a crash or an
eviction would meet. `cached` holds pages changed in the cache only, which
happens when a growing value is dropped from an internal page. `Evict` may take
such a page at any time, whatever the cache's capacity: that includes every
order in which the real LRU list can evict. A page write may fail (`WriteNode`):
the cache then has the new page and the file the old one, and the code goes on,
since `splitNode` throws the error away and the other callers return to where
nothing is left to do. At most `MaxUnwritten` pages are unwritten at a time.

**Sessions.** `TreeStore` lets the process end at any step (`Crash`), which is
between any two page writes. `Close` writes the header page and the page count
and no page the cache alone has; `CloseFails` writes either, both or none. The
next process takes the page count from page 0: `Reopen` reads the root from page
1, `OpenNew` (the count is that of a file never closed) makes a new tree over
whatever the file holds. Close changes no page of the file but the first two. After
a crash or a failed Close pages to which nothing leads are left out of `file`:
`Allocate` blanks a page before anything points at it, so that no step can tell them
from pages that do not exist.

A crash may cost pairs, so the history variable `contents` is set to what a
reader that starts from the root can find (`Survivors`), and `CrashKeeps` says
what that must at least be. The history variable `damage` says what has become of
the tree: `unlinked` (a half of a split hangs on its left neighbour only, which a
B+ tree's lookup still finds), `cut` (a page of the tree was handed out again,
left blank or dropped unwritten), `lost` (a growing overwrite has cut off a
subtree, or Delete has left a pair its caller takes for gone). A tree that is
`lost` is closed, crashed and reopened like any other. If the shortened page was
not written by a split in the meantime, it is in the cache alone and ends with the
process: the file still has the page with the old cell, its subtree and the old value,
so that a Close, which reports nothing, or a crash brings the overwritten value back.
From a tree that is cut nothing is asked; the caller removes the file (`StartOver`,
which is `cleanupIndexData` of `bench/tests.go:66`).

**Iterators.** The B-tree's iterator re-reads its pages and keeps ids and
positions; the B+ tree's keeps the cached page itself, which an Insert changes
in place until the cache drops the page (`DropPinned`), and which stays as it is
from then on. The list's iterator keeps a slice of the index's own array: `data`
is that array to its capacity, `it.shared` says that the iterator still walks
over it. An append without free capacity makes an array of twice the size (what
Go does for the few pairs of the model) and leaves the iterator the old one.

**Pager.** Page 0 is the variable `saved`. The variable `may` is chosen once at
the start: it says which of the file's calls may fail, whether the process may
crash and whether the caller changes the interval. This keeps each property's
conditions in one specification. `Modify` is a caller that changes the page
`Read` handed out.

**LSM.** Keys have `Bits` bits instead of 64; the encoding is the unsigned
number of the same bits, and Pebble orders by it. Pebble itself is modelled from
its use: a map, and iterators over the map as it was when they were made.

## Runs

Every property of a passing run is paired with a mutant of the model, an
operator of the same module marked "Mutant:" that changes the definition behind
it the way a plausible bug would; with the mutant in place TLC finds the
property violated. They are never used by the specifications.

| run | question | bounds |
|---|---|---|
| `btree` | Does a B-tree store and find what was inserted, keep every page, and scan in order? | 7 keys, 2 values, two cells per page, ranges between keys 1, 4, 7 |
| `btree_sessions` | What do sessions, crashes, failed writes, growing values, evictions and Delete leave of a B-tree? | 3 keys, values of 2 and 4 bytes, 6 pages, one page unwritten at a time |
| `bptree` | The same as `btree` for a B+ tree, with calls and evictions between two Nexts | 5 keys, one value, two cells per page |
| `bptree_sessions` | What do sessions, crashes and growing values leave of a B+ tree? Do calls end? | 3 keys, values of 2 and 4 bytes, 6 pages |
| `binary_search` | Does the loop end, on the page, at the right position? | all ordered pages of up to 5 cells over 3 keys |
| `lru` | Do list and map implement the recency order? | 4 pages, capacity 3 |
| `pager` | Ids, reads, cache and syncs under failures, crashes and changing intervals; is what a Close has counted there after what fails later? | 3 pages of content, cache of 2, interval 3 |
| `page` | Do bytes read back what was written? | 4 keys, values of 2 and 4 bytes, page of 53 bytes |
| `two_indexes` | Do LSM and list index answer the same value, and when does only one answer an error? Are ranges of the LSM in order, up to the largest key? What do walks over the list see of later writes? | 4-bit keys 0, 3, 7, 3 writes under a walk |
| `btree_grows` | violation: a growing overwrite on an internal page loses a subtree | 4 keys |
| `page_tight` | violation: the free-space test forgets the cell pointer | page of 39 bytes |
| `bptree_grows` | violation: growing overwrites of a key alone on its leaf make a B+ tree lose a pair | 3 keys, 3 lengths, page of 27 bytes |

**Why the bounds are enough.** The page sizes are chosen so that two cells fill
a page to its last byte: a third key splits a leaf, and with seven keys a B-tree
gets an internal page under the root and splits that, so that every branch of
`insertRec` and `splitNode` is taken, at the left end, in the middle and at the
right end of a page, at depths one to three. All orders of insertion are
explored, and every overwrite in every state. `MaxPages` (40 in `btree` and
`bptree`) is never reached there. In the runs of sessions bytes are wasted by
every regrown cell, so that pages would be allocated for ever: `MaxPages` ends
that, after splits of leaves and of a root; page ids start again after a crash,
so that ids are handed out twice well within the bound. A tree that has lost
pairs is followed from session to session, but no further than to its first failed
write or the first step of a call after a crash (`damage` = "left"): what it goes on
to lose says nothing new. Failing writes are in
`btree_sessions` only, where they meet the pages that the B-tree leaves unwritten;
the engine that writes is the same for both trees.
In `binary_search` ties of up to five equal keys occur, which internal pages of
a B+ tree can hold. The pager's interval 3 is the smallest with a write that is
neither right after nor right before a sync; the cache of 2 is the smallest with
an order; `MaxWrites` lets two full intervals pass. The list of capacity 3 has a
head, a middle and a tail to unlink. Four bits make the largest key's bound wrap. Three keys let the list's array grow
to one, two and four slots under a walk, with a free slot behind three pairs.

**Deadlock** is checked except where the model ends: `BinarySearch` (the loop
ends) and `PageLayout` (a page can be full). In the runs of the trees it shows
that every call can always go on.

**Fairness.** `StoreSpec` of the B+ tree and `SearchSpec` of `BinarySearch` assume that
a call that has been made is run on (weak fairness of the steps of the running
call, and of nothing else): the goroutine that calls an index does nothing else
until the call returns. Callers need not call, pages need not be evicted,
processes need not crash, and closed files need not be opened. `CallsEnd` says
that no call is caught in a cycle of pages, however the leaf chain and the
children were linked, also in a tree a crash has left behind. Its exception is
real: a crash between the two writes of a leaf split leaves a left half whose
next page is blank, the blank page's next page is page 0, and a lookup that walks
right goes on from there (`bptree.go:139`). The B-tree's searches only descend:
`SearchesEnd` says without fairness that no search comes to a page twice.

### What the runs show

* With values that keep their length, as in the benchmark (all values have the
  configured size), both trees keep what their interface promises for Insert and
  Get, stay balanced, and lose no page. Ranges are complete and in order.
* A B+ tree iterator never skips a key that was there when it was opened,
  whatever is inserted and evicted while it is open. A B-tree iterator does.
* Growing values break both trees (`btree_grows`, `bptree_grows`), though pages stay
  sorted. Within the bounds of `bptree_sessions` the B+ tree still copes: it takes
  several separators for one key and three levels to lose a pair.
* A tree that is always closed comes back as it was (`StoresSurvivors`,
  `NeverCut`). A crash between two calls loses no pair that was stored, once the
  file has been closed one time; a crash in a split loses, in a B-tree, nothing
  below the promoted key and, in a B+ tree, nothing once both halves are written
  (`CrashKeeps`), because lookups walk right (`GetsAnswer`). All of that ends with
  the next Insert: the page count in the file is older than the tree, and pages of
  the tree are handed out again.
* While the cache keeps the page of a failed write, Gets answer as if it had
  succeeded.
* LSM and list index answer every Get with the same value. For a key that is not
  there, and for no other, they differ: both answer nil, the list with an error and
  the LSM index without (`SameUnlessAbsent`). A walk over the list is not a
  snapshot: it sees overwrites and appended pairs as long as the array has room,
  and deleted pairs once it has not; each Delete under it can hide one pair that
  was there all along, and can make it stop at a cleared slot, which looks like
  key 0 (`ListWalksStored`, `ListWalksKept` say that this is all).
* The LRU list is right. The pager's ids are fresh until a crash or a failed
  Close; the saved count never runs ahead whatever fails, and the ids handed out
  again are never of pages that the last Close had counted, which read back until they
  are changed (`SettledReadsBack`); fewer writes than the
  interval are unsynced unless the interval is changed or a sync fails.

### Disagreements between code and documentation

Found by a run that is part of the project:

1. `shared/tree.go:165` — an existing key on an *internal* B-tree page whose new
   value is longer: `DeleteCell` removes the cell together with its left child;
   the keys below are lost (`btree_grows`). `index.go:7` promises an update. The
   shortened page is not written either: unless a split writes it, Close and Open
   bring back the subtree and the old value (`btree_sessions` follows this).
2. `shared/tree.go:201` — `doInsert` compares the free space with the size of
   the cell, without the two bytes of its pointer: with 0 or 1 bytes to spare
   cell and pointer overlap (`page_tight`).
3. `shared/tree.go:253` — a B+ tree leaf with a single cell whose value has outgrown
   the space its deleted cells left is split into an empty half and that cell. Its
   key is promoted although it is already the separator left of the leaf, and the
   page above holds it twice, three times, ... A split of that page at one of them
   leaves some in the left half, whose range ends there; the next split of this
   half can promote its own upper bound, and then the page above, whose search
   goes past equal separators, hangs the new half behind the wrong child
   (`bptree_grows`). From then on Inserts of keys from the bound on go to empty
   leaves, and a Get that meets such a key walks no further: it answers nil for a
   stored key. `index.go:7` and `index.go:11` promise an update and its value. The
   run uses a page with room for one separator; any odd number of separators will
   do, 291 on a page of 4096 bytes.

Seen while modelling, described by the models, without a run of their own:

* `btree.go:84`, `bptree.go:145`: Delete answers nil and removes nothing;
  `index.go:15` says it removes the entry. The action `Delete` has the code's
  behaviour and the interface's history: a Delete of a stored key is the damage
  `lost` of `TreeStore`.
* `shared/tree.go:253`: a split deals cells out by count; with values of very
  different length one half can be larger than a page. `PagesFit` holds for
  lengths that keep two cells to a page and fails, for instance, for values of
  2 and 20 bytes on pages of 63 bytes.
* `btree.go:129`: the stack of an open B-tree iterator does not know a root made
  since: Next answers false without an error and without the right half, where
  `index.go:29` allows that at the end or on an error. TLC shows it for
  `NothingSkipped` of `BTreeRange` when `InsertsWhileOpen` is TRUE.
* `bptree.go:196`: Next compares with the end of the range only; a key below
  the start inserted into the leaf the iterator is on can be produced.
* `pager.go:78`: after a crash ids in use are handed out and blanked again;
  `pager.go:17` says "total number of pages ever allocated".
* `pager.go:148`: the write count is never reset; `pager.go:19` says "count of
  writes since last sync". It makes no difference until the interval changes.
* `btree.go:68`, `bptree.go:104`: a file whose process died before its first
  Close is taken for empty, and a new tree is made over what it holds;
  `btree.go:61` says a tree is created if the file "does not exist".
* `listindex.go:49`: Get of an absent key answers nil with an error; `index.go:12` says
  it returns nil, and the tests of the other indexes (`index/index_test.go:48`) that it does
  not fail. The list is not among the indexes tested. `SameUnlessAbsent` states the
  difference.
* `pager.go:109`: Close does not sync; `pager.go:121` and `index.go:22` say it
  does. `UnsyncedBounded` is about the time the file is open.
* `lsm.go:102`: a negative key is encoded behind every other one, and a range
  that ends at -1 is empty; `lsm.go:99` says the encoding preserves the order.
  The benchmark draws keys that are not negative. The bound behind the largest
  key wraps too, and is right.
* The repository's README says 90% reads or writes; `bench/tests.go:524` says 95%.

## Proofs

`Page_proofs` is about one page, first its bytes and then the search on it.

`PageReadsBack` and `PageReadsBackOneLength` say that the bytes decode to the page the
tree modules work with, for every page size, both accessors, all values of at least one
byte, and any number of insertions, overwrites, drops and splits.

* `ReadsBack` is not inductive: that each field reads right says nothing of where the
  cells lie, and the next cell could be written over one of them. `Laid` adds this:
  *some* function `at` gives every cell an offset (`Placed`) so that the cells lie
  between the content offset and the end of the page (`InArea`), no two of them overlap
  (`Apart`), slot `i` holds the offset of cell `i` (`Slots`) and the bytes there are
  the cell's (`CellsIn`); the header is in place, and the slots end before the content
  offset (`Fits`). The function is a witness, no variable holds it: a deletion moves
  slots and no cell, so that cells need not lie in the order of their slots and there
  may be bytes no cell owns.
* The code writes fields one after another, and in between the page is not laid out. So
  a lemma is about each call on its own. A field that is written reads as itself and
  other bytes stay (`PutEffect`, `GetHas`, `HasStays`; `WriteCellEffect` for a whole cell);
  `ShiftUpEffect` and `ShiftDownEffect` say what the loops over slots leave where.
  `InsertKeeps`, `OverwriteKeeps`, `DeleteKeeps` and `AppendKeeps` take the calls of the engine
  together, with the cell count written last (`LaidWith` has the count as a parameter).
  `RebuiltLaid` takes the pages `splitNode` writes cell by cell, by the first cell after
  which the page would not be laid out. `OverwriteKeeps` needs that the new value is no
  longer than the old one, as `insertRec` tests.
* That `FreeSpace` asks for enough room cannot be proved, because it does not
  (`page_tight`); hence the condition `[]Fits(page)` of `PageReadsBack`, which TLC finds
  true in every state of the run `page`. With values of one length for which
  `OneLength` holds (below, with the trees' `PagesFit`) the condition goes:
  `PageReadsBackOneLength` has in its invariant how many bytes the cells take (`Even`), and
  shows that no value outgrows another, that a cell with room has a place for its
  pointer, and that no half of a split has more cells than the full page
  (`SplitDeals`). In the trees `Fits` is what `PagesFit` says of every page.

`SearchStaysOnPage`, `FindIdxCorrect` and `SearchShrinks` are about every
set of ordered pages of any length (`BinarySearch` names its specification `SearchSpec`,
since this module extends `PageLayout` too). The inductive invariant
is `SearchTypeOK /\ Bracketed`: every cell left of `lo` goes right, no cell from `hi`
on does. `ReturnsFindIdx` alone says nothing before the loop ends, and is not
inductive. The argument needs that "goes right" is monotone on an ordered page
(`GoesRightMonotone`) and that there is only one border for `CHOOSE` to choose
(`FindIdxIsTheBorder`).

`Pager_proofs`, for every cache capacity, interval and number of pages:

* `FreshIds` — through `GivenBelowCount`: ids are below the count in memory while
  the file is open and below the count in the file while it is closed;
* `SavedCountNotAhead` — by the order of the two counts;
* `FewWritesUnsynced` — through `SyncInv`: while the interval is the one Open
  sets, the number of unsynced writes is the remainder of the write count by the
  interval. The lemmas `RemainderUnique` and `NextRemainder` give the arithmetic;
* `CacheStaysBounded` and `ReadsAnswerLatest` — whatever fails and wherever the
  process crashes, both through `StoreInv`. `ReadsLatest` is not inductive: it
  says nothing of cached copies while the page is in the file as well, of pages
  that no caller has, and of a closed file. `StoreInv` adds that the cache is
  empty while the file is closed, holds each page once (`GoodCache`) and only
  pages of the file, that the cached and the stored copy of a page agree
  (`Shown`), and that pages never handed out read as blank in both: an Allocate
  that failed leaves such pages behind, a caller may read them into the cache,
  and after a crash their ids are handed out again. The lemmas `PutKeepsCache`,
  `TouchKeepsCache` and `ModifyKeepsCache` say what each cache operation does to
  the elements of the recency order;
* `SettledPagesRead` — through `SettledInv`: a page in `settled` has an id below the
  count in the file, is not among `behind`, and was last given what `settled` says, so that
  `ReadsLatest` answers for what is read. By `SavedNotAhead` an Allocate takes an id from
  the count in the file on, whatever failed before, which is none of those.

`LRUCache_proofs`, for every capacity and every set of ids and pages: `ListIsMap`
(the walks along `next` and along `prev` meet exactly the map's entries) and
`CacheIsLRU` (every step of the linked list and the map is a step of `LRU` or
changes nothing `LRU` sees). `ListMatchesMap` speaks of walks and is not inductive;
`IInv` says that *some* sequence of the map's keys has each entry's `prev` and
`next` as its neighbours and `head` and `tail` as its ends (`ListOf`). Each of
`moveToFront`, `addToFront` and `removeTail` turns such a sequence into another
(`MovedIsList`, `AddedIsList`, `CutIsList`), which is the step of `LRU`. There is
only one such sequence (`OnlyOneList`, by the least position at which two would
differ), and it is the one the walk from `head` finds: that makes the refinement's
`order` the sequence of `IInv`, and the walk from `tail` its reverse.

`TwoIndexes_proofs`, for all keys, values and numbers of writes, four theorems.
`WalksFindStored` is about the list index's iterator under writes. `WalksStored` looks at
the pairs already found; `WalkInv` says the same of every slot the iterator still
has before it, whether its array is the list's or one the list has outgrown, and
that as long as the array is shared the list's own pairs were all stored since
Range: a Delete moves them to the front, into slots the walk has yet to visit.
`MovedUpElements` says what `slices.Delete` leaves in each slot, `Inserted` the
three ways in which Insert changes the array. `BothAnswerSameValue` is `SameUnlessAbsent`
through `AnswersInv`: each slot of the list holds what Pebble holds under its key, which
is a value, no two slots have one key, and no key is in Pebble alone. It needs that different
int64 keys are encoded as different unsigned numbers (`EncodeInjective`).
`WalksMissFew` is `ListWalksKept`, a statement about numbers of keys: `KeptInv` says
that *some* set with no more keys than were deleted holds every key that stayed and is
neither found nor still ahead (`FewMissed`). A Delete in front of the iterator moves
one pair past it, and that pair's key joins the set. `LSMScanInOrder` assumes that no
key is negative (`Keys \subseteq Nat`; the benchmark's are 1, 2, ...): then a key is its
own encoding and the exclusive bound is the next number even behind the largest key,
so that Pebble's snapshot is the range (`PebbleInv`, `NatKeysEncode`).

`BTreePagesSorted` and `BPTreePagesSorted`: `Spec => []PagesSorted`, for every set
of integer keys, every set of values, every page size, and evictions of changed
pages at any time, under the assumption that no page write fails
(`~WritesMayFail`; with failing writes an evicted page comes back as it was before
a split, which the run `btree_sessions` covers). The argument has three layers.

* `Tree_proofs` first, one page. `FindIdxIsBorder`: on *every* page there is a border
  for `CHOOSE` to choose (the least position whose cell does not go right).
  `FindIdxSplitsPage`: on an ordered page the keys left of it are not greater and
  those from it on not smaller. `FoundPositionFits` and `DeletedPositionFits`: the
  key fits there, also after the cell with an outgrown value was deleted, although
  `insertRec` does not search again. `WithCellOrdered`, `DeleteCellElements` and
  `StretchOfPage`: what is put in, taken out or dealt out stays ordered and keeps
  its children. Insertion and removal are taken apart into the elements of
  concatenated subsequences (`InsertAtElements`, `RemoveAtElements` of
  `SequenceLemmas`).
* `Tree_proofs` then, the engine. `PagesSorted` is not inductive: a leaf may hold no key
  twice and an internal page may, so it matters that a frame that waits for its
  child is internal and stays so while pages are split, evicted and written; and
  a step reads whatever page a child pointer names, so children must be pages.
  `IInv` adds exactly that: `Shape` (which pages exist), `PagesGood` (ordered, of
  the same kind in cache and file), `Linked` (children are pages, the blank right
  half of a running split excepted, `Awaited`), `CallGood`, `FramesGood`,
  `SplitGood` and `HalfGood` (what `splitNode` hands on between its two writes).
  There is one lemma for every action and `EngineKeeps` over all of them.
* `BTree_proofs` and `BPTree_proofs` add the steps of `Get`, which change no page.

`BTreeImplementsIndex` and `BPTreeImplementsIndex` show that both trees are the map
`Index` describes: every step of the engine and of `Get` is a step of a map with one
call at a time, or changes nothing a caller sees. `BTreeStoresContents` and
`BPTreeStoresContents` show from the same invariant that this map is in the file, each
key in exactly one cell that a walk from the root reaches. Ordered pages are not
enough for that: what is to the left of a separator must be *everything* below it.

* The invariant `MapInv` says that *some* table (`own`, `lev`) gives every page of
  the tree the keys it is responsible for and its level. The table is only a witness,
  no variable holds it. `PageOK` says of one page what the table demands: a
  key of the page is one of its own, each child is responsible for the stretch of
  them between two separators (`Share`) and one level down, a leaf is at level 0
  and holds the value of each of its keys that has one, an internal page of a B-tree
  those of its separators. `Valid` says it of all pages, with the root responsible for
  every integer.
* While a split is handed upwards the table is that of a tree in which one page
  stands for two (`Splitting`): the left half and the right half with the separator
  and its value between them. `Chain` ties the waiting frames to the table, each
  one the parent of the next, so that the separator goes in at the place the
  descent took (`SeparatorPassed`).
* What an operation does to the table is one lemma: a page gets a cell for a key
  (`UpdateSound`), is halved (`HalveSound`), takes in the right half
  (`JoinSound`), or a new root is put over two (`RootSound`); the actions of the
  engine are then taken one by one (`EngineMaps`).
* A search stays on pages that are responsible for its key (`Searching`), so the leaf
  (in a B-tree also an internal page) where it ends has the key if the tree does
  (`HitIsStored`, `MissIsAbsent`).
* For `StoresContents`, the walk of `Reached` is shown to exist (`WalksExist`), to
  come to the page that holds a key, since levels fall along it and there are no
  more levels than pages (`LevelsArePages`), and to find no second one
  (`HolderIsOne`).

`RangeSkipsNothing` is about the B+ tree's iterator while the caller inserts. The
table of `MapInv` says for it how the leaves hang together (`NextOK`): a leaf
is for a stretch of keys without gaps, and its right neighbour is for the keys that
begin where its own end. From this, any set of leaves that contains the page for a
key, or one for smaller keys, and is closed under `next` contains a page with that
key (`ChainReaches`); the statement "the chain from this page comes to the key"
is put in these words (`Later`), since the prover cannot do an induction along the
chain. `ScanInv` says of a key that was there at Range and has not been produced
that it is on the iterator's page at `idx` or behind, or `Later` on the chain from the
page's `next` (`Ahead`). Each step of the engine either moves the keys of a leaf to the
right on their page or hands some to a new right neighbour (`LeavesMove`), which
keeps `Ahead` (`AheadMoves`). Once the cache has dropped the iterator's page the
iterator walks an old copy: there the keys of the copy are smaller than those to come
(`Behind`), so that a key cannot be both passed over on the copy and moved
behind it.

`BPTreeRangeInOrder` and `BTreeRangeInOrder` show that a scan of a tree into which nothing
is inserted meanwhile produces the stored pairs of its range in order, all of them by
the time Next answers false; in the B+ tree with lookups and evictions between two Nexts.

* In the B+ tree `OrderInv` adds to `ScanInv` what an iterator that was left alone has
  before it (`AloneOK`): its copy of a page is the page as the tree has it, and every key
  from `idx` on, and on the leaves behind, is greater than all keys produced.
* In the B-tree the iterator keeps a stack of pages it has not finished. `WalkInv`
  gives each frame the set of keys it stands for (`Upcoming`): those of its page from a
  position on, each cell with the subtree right of it (`FromCell`), and for the top
  frame, if the subtree left of that cell is still to be entered, those too
  (`FromSub`). From the root's frame to the top one each set lies left of the one before
  (`Lined`), everything produced lies left of all of them, and together they hold every
  wanted key that was not produced. A step of Next splits the last set
  (`LinedSplit`, into the child's), takes its first key off (`LinedTake`) or drops it once it is empty
  (`LinedDrop`); that the sets are what the pages say follows from the shares of the
  table in `MapInv` (`SubThenCell`, `CellThenSub`).

`BPTreeLeafChain`, `BTreeSessionsStayTree`, `BPTreeSessionsStayTree` and
`BTreeSearchesEnd` are about the tree as a whole. The properties walk it by recursive
functions, level by level or from the leftmost child to the next; each is
shown to exist and to have the values its definition asks for, by the least argument
at which it would not (`LevelsExist`, `SpinesExist`).

* A level of the tree is a `Row`: a sequence of pages of one level of the table of
  `MapInv`, each page once, the keys of each left of those of the next, in a B+ tree
  without gaps. The root alone is a row (`RootRow`), and the children of a row's pages
  in their order are a row one level down (`NextRow`). What the concatenation of the
  children's sequences has where is `FlattenElements` of `SequenceLemmas`.
* So the levels end after as many steps as the root's entry in `lev` says
  (`HeightIsLevels`), all at leaves (`MapBalanced`), and no two of them share a page
  (`LevelsApart`). `HangInv` excludes pages that hang twice in other ways, `HeaderInv`
  says when the header page may be behind the root.
* In a B+ tree two neighbours of the lowest row border on each other, and `NextOK` of
  the table has `next` name the leaf whose keys begin where a leaf's end
  (`MapChains`).
* A search goes down one level of the table with each page, also while a page waits for
  its right half; so it ends before it has seen as many pages as there are
  (`MapSearchesEnd`).

The theorems about sessions take the same invariants across Close and the next Open.

* `BTreeNeverCut` and `BPTreeNeverCut` assume nothing. `CountInv` says that up to the
  first crash or failed write every page has an id below the page count, that the
  cache has no page the file has not (until a cell is dropped with its subtree), and
  that between two processes `saved` and `header` are the count and the root of the
  last one. So Allocate hands out an id behind every page (`CountIsNoPage`), and what
  Close finds in the cache alone is a page a cell was dropped from, in place of which
  the file has the old page, with ids below the count.
* `SessionInv` adds `IInv` up to the first mishap, and `MapInv` with `HangInv` as long as
  no step has been taken that is known to lose pairs. Close changes no page of the file:
  the pages stay in order without those the cache alone had (`CloseKeeps`), and the
  table stays when there are none (`CloseMaps`). Reopen takes over root and count and changes no page. A new
  file, which OpenNew and StartOver make, is `Fresh`, which is StoreInit with any count
  saved.
* `BTreeSessionsSorted`, `BTreeSessionsStore` and `BTreeSessionsAnswer`, and the same for the
  B+ tree, are what callers see of that. For the B-tree they need no condition on
  values: a cell that goes with its subtree, or a Delete that leaves its key, sets
  `damage`, and `StoresSurvivors` promises nothing afterwards (`DescendDrops`). In a B+ tree
  a leaf with one outgrown cell splits into an empty half without any such mark, so
  there `[]~Ousts` or one length of values remains a condition.

They assume `~WritesMayFail`; crashes may happen (except in the two about answers), and
the theorems speak of every behaviour of a file up to its first crash, and of the new
file that a caller starts after it.

`BTreeCrashKeeps` and `BPTreeCrashKeeps` are about that first crash itself: wherever it
comes, between any two page writes, a reader that starts from the header page finds
every pair that `CrashKeeps` says. Their condition `[][Crash => ~mishap /\ PagesFit]` is on
when the process ends: no file crashes twice (what a second crash leaves depends on the
first, and on the pages handed out again since), and none while a page's cells have
run into its pointers, which the model does not follow. `...OneLength` need only the first
half of it. `CrashKeeps` itself is about trees that have lost nothing before (`damage'` is
"none" or "unlinked"): no growing overwrite has dropped a cell of an internal page, and
no stored key was deleted. After such an overwrite a crash can also bring back the old
value of the key, of which neither the property nor the theorems say anything.

* The pages on disk at that moment were written one by one, and are a tree only
  together with what the process had in memory. So the reader is given a set of pages it
  cannot leave: all that the header page leads to (`LeadsClose`), on which file and
  table agree (`OnDisk`). It stays in any set of pages that no link leaves (`LeadsStay`).
* Whatever the reader takes for a pair of such a set is what the table says
  (`SurvivorIsWanted`). It finds key `k` if the descent for `k` stays on pages that are
  responsible for `k` (`Survives`). In a B+ tree the descent for any smaller key will do:
  from the leaf where that ends the right neighbours come to the one for `k` (`ChainEnds`).
* In a split the table is that of `Splitting`, in which the separator and the keys of the
  right half belong to a page nothing leads down to. Descents for smaller keys are not
  affected (`SplitServes`): in a B-tree these are the keys below the promoted one, in a B+
  tree the left half always has one, from which its neighbour is reached.
* Three cases are left. Between two calls, or with the call's pair on one page, nothing is
  missing (`WholeLeaves`). Between the two writes of a split and the write above them the
  right half is missing; if it is not on disk yet, then no page points at it, unless
  the left half of a leaf does (`PendingLeaves`: the case of `damage' = "cut"`, which
  `CrashKeeps` excludes). Between the new root and the header page the file still is
  the old tree, with the new root as a page that nothing leads to (`BehindLeaves`). For
  that `RootBehind` is carried along as an invariant: `MapInv` only knows the new tree.

What these theorems assume is what the code needs. `BTreeRangeInOrder` is about a caller
that calls nothing else while an iterator is open (`~InsertsWhileOpen`), as the program is:
under inserts a B-tree's iterator, whose frames hold page ids and positions,
really loses its place. No page write fails and nobody calls
`Delete`, which does nothing: with either the trees do not keep their promise,
and the sessions' runs say what is left of it. And no value ousts a cell (`[]~Ousts`):
a value that outgrows the old one makes `insertRec` drop the cell first, which loses
a child of an internal page of a B-tree (run `btree_grows`) or empties a leaf of a B+
tree (`bptree_grows`). Values of one length never do that (`SameLengthNeverOusts`),
so the theorems `...OneLength` for each tree speak of every behaviour of `Spec`, as
the benchmark uses it.

How many bytes a page's cells take is left open in `IInv`, so that nothing up to here
depends on `CellBytes`. The model stops where a page's cells run into its pointers
(`pc = "corrupt"`); these theorems say nothing of the pages after that.

`BTreePagesFit` and `BPTreePagesFit`, and `BTreeSessionsFit` and `BPTreeSessionsFit` from one
session to the next, show that it never comes to that with values of one length;
`BTreeTypeOK` is about the types of the variables.

* `CellBytes` is the last of a chosen sequence of sums. The sums are shown to exist
  (`TotalsExist`, again by the least position at which there would be none), to be
  numbers, and to be a product for cells of one size (`CellBytesOfOneSize`).
* `PagesIn(S)` says that every page of file, cache and a pending split is in a set `S`,
  `Makes(S)` that whatever the next step of an insertion writes is in `S`, and `EngineIn`
  that a step keeps the one under the other, action by action. This is used twice: with
  the pages of `Page` in `TypeInv`, and with the `EvenPages(L)` in `FitInv`, the pages
  whose content offset is the page size less one `CellLen` for every cell.
* `OneLength(L)` is the theorems' hypothesis: all values have length `L`, a page has room
  for one cell with its pointer, and what cells of `s` bytes leave of a page,
  `(PageSize - 13) % (s + 2)`, is less than `s`. The last is exactly what `doInsert` needs,
  because its test does not count the pointer of the new cell: a page with `s` or
  `s + 1` bytes left takes one that does not fit (run `page_tight`). The internal cells
  of a B+ tree have 12 bytes and leave 9, 3 or 5 of a page of 4, 8 or 16 KB. The other
  cells have 14 bytes and the value in a B-tree, 10 and the value in the leaves of a B+
  tree. For values of 128 bytes, as the benchmark stores by default (`main.go:24`), the
  hypothesis holds at all three page sizes; on pages of 4 KB it fails for a B-tree at
  3, 27, 79 and 199 bytes and a few greater lengths only.
* Each half of a split has no more cells than the full page, so it fits too. With
  values of different lengths that does not follow, because `splitNode` deals cells
  out by count.

The assumptions are those the modules name: `PagerAssumption` (an interval of at
least 1 at Open, natural numbers), `SearchAssumption` (pages are pages and are
in order), `KeysAssumption` (keys are integers), `LayoutAssumption` (keys and page ids are
numbers; `Garbage` is no number; a value has a byte at least, since `PageLayout` knows a
value by its bytes), `LSMAssumption` (keys fit their
width), `PowersAssumption` (twice a power of two is the next one: the prover knows
nothing of `^`), `WritesAssumption` and those of `BTPage`. TLC evaluates each of
them in a run.

Only model-checked: `StaysTree`, `StoresSurvivors`, `GetsAnswer`, `SearchesEnd` and `PagesFit`
from the first crash or failed page write of a file on, and what a second crash leaves
(`CrashKeeps`); trees that have lost pairs; `PagesFit` with values of different lengths; the types of
the B+ tree's variables (a lookup there follows `next`, which `TypeInv` takes for
any number); a page whose cells run into its pointers (what is read from it then);
and liveness (`CallsEnd`, `Terminates`), which the prover does not treat.

## Not modelled

* An `Allocate` or a `Read` that fails inside a tree. `splitNode` goes on with id 0,
  which is the pager's page, and then writes the right half over the page count:
  page 0 has no place in a model whose pages are nodes. A Read fails where the
  file is shorter than the page count says, or the disk does.
* Bytes a caller keeps: `Value` of the B+ tree's iterator hands out a slice of the
  page (`bptree.go:200`). The range modules record a value when Next produces it,
  which is when the program looks at it.
* `CountLeaves`, `Print` and `ExportDOT` only read.
* The benchmark's own loops (`bench/tests.go`): one goroutine that fills an index,
  calls it and closes it, and keeps nothing between two calls that an index
  depends on. What it may do to an index is what the callers in the models may do.
  Its statistics, result files, plots and the command line are left out.
* Pebble and the operating system's file, beyond what the code uses of them;
  loss of unsynced pages when the machine stops is bounded by `UnsyncedBounded`
  and not executed.
* The width of offsets: a page of 65536 bytes would wrap `cellContentStart`; the
  program opens pages of 4, 8 and 16 KB.

## What could follow

1. `Range` as an operation of `Index`, so that all four indexes are compared with
   one abstract scan.
2. Page 0 as a page among others, for an `Allocate` that fails within a split.
3. Page sizes with values of different lengths: how small the longest value must be for
   both halves of every split to fit.
4. What lookups answer after the first crash: the tree with an unlinked half is a tree
   under a table of its own, in which a parent misses a child.
