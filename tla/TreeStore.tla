----------------------------- MODULE TreeStore -----------------------------
(***************************************************************************)
(* A tree across sessions: Open and Close of dbms/index/btree/btree.go and *)
(* dbms/index/bptree/bptree.go (which differ in the name of the file only),*)
(* ReadHeader and WriteHeader of dbms/index/shared/tree.go, and a process  *)
(* that ends without Close between any two page writes.                    *)
(*                                                                         *)
(* The file keeps its pages; the page count is written by Close only.      *)
(* Nothing is logged: what a crash may cost is the subject of this module. *)
(***************************************************************************)
EXTENDS Tree

CONSTANT MayCrash   \* a process may end without Close

ASSUME CrashAssumption == MayCrash \in BOOLEAN

VARIABLES
  up,       \* a process has the tree open
  saved,    \* the page count on page 0
  mishap,   \* history: a crash or a failed write since the file was new
  damage    \* history: "none", "lost" (pairs are gone, by a step that is
            \* known to lose them), "unlinked" (the right half of a split
            \* hangs on its left neighbour only), "cut" (a page was reused or
            \* left blank under the tree) or "left" (bound: a tree that has
            \* lost pairs is followed from session to session, but no further
            \* than to its first failed write, or first step after a crash)

svars == <<up, saved, mishap, damage>>

(* Tree's Init is the state behind Open of a new file.                      *)
StoreInit ==
  /\ Init
  /\ up = TRUE
  /\ saved = 1
  /\ mishap = FALSE
  /\ damage = "none"
-----------------------------------------------------------------------------
(* The steps of a call                                                      *)

(* Allocate hands out a page of the tree once more, of the one in memory or *)
(* of the one in the file: the page count it goes by is older than the page.*)
ReusesPage ==
  /\ pageCount' > pageCount
  /\ pageCount \in InTree \cup PagesUnder(file, header)

(* A call starts to write to a tree with an unlinked half.                  *)
WritesUnlinked == damage = "unlinked" /\ call' # call /\ call'.op = "insert"

(* The cache drops a page whose write has failed.                           *)
DropsUnwritten ==
  mishap /\ file' = file /\ ~(DOMAIN cached \subseteq DOMAIN cached')

(* insertRec drops a cell of an internal page with its left child.          *)
DropsSubtree ==
  pc = "insertRec" /\ path' # path /\ KeyAt(TopPage, Pos) /\ ~CopyUpLeaves

(* A page other than one a cell was dropped from stays in the cache alone,  *)
(* or the header page keeps its old root.                                   *)
FailsToWrite ==
  \/ ~DropsSubtree /\ ~(DOMAIN cached' \subseteq DOMAIN cached)
  \/ pc = "writeHeader" /\ pc' # pc /\ header' # root

(* Delete leaves in the tree what its caller takes for gone.                *)
LeavesDeleted == pc = "idle" /\ contents' # contents

(* No call is followed any further.                                         *)
Over == damage \in {"cut", "left"}

Wear ==
  /\ up
  /\ ~Over
  /\ mishap' = (mishap \/ FailsToWrite)
  /\ damage' = IF ReusesPage \/ WritesUnlinked \/ DropsUnwritten THEN "cut"
               ELSE IF damage = "lost" \/ DropsSubtree \/ LeavesDeleted
               THEN IF mishap' THEN "left" ELSE "lost"
               ELSE damage
  /\ UNCHANGED <<up, saved>>
-----------------------------------------------------------------------------
(* Sessions.  Between two of them root and pageCount stand for what the     *)
(* next one reads from page 1 and page 0.                                   *)

(* Open takes a file with no page but the header page for an empty one.     *)
Reopens == saved > 2

(* A lookup in a B-tree descends; in a B+ tree it then walks right as well. *)
Links(p) ==
  ToSet(ChildSeq(p)) \cup (IF CopyUpLeaves /\ p.leaf THEN {p.next} ELSE {})

(* The pages on disk a process that starts from root page r can come to.    *)
Leads(r) == Reached([id \in DOMAIN file |-> Links(file[id])], r)

(* The process is gone, and what it had in memory.                          *)
Gone ==
  /\ up' = FALSE
  /\ pageCount' = saved'
  /\ root' = header'
  /\ cached' = << >>
  /\ path' = << >>
  /\ split' = NoSplit
  /\ call' = NoCall
  /\ pc' = "idle"

(* What is left in the cache when a process ends is a page behind the file: *)
(* it is missing from the tree, unless it is one a cell was dropped from,   *)
(* for which the file still has the old page, its subtree and old value.    *)
LeavesBehind == cached # << >> /\ damage # "lost"

(* Mutant: Close saves the last id for the count.                           *)
CloseSavesLastId ==
  /\ up
  /\ pc = "idle"
  /\ ~Over
  /\ header' = root
  /\ saved' = pageCount - 1
  /\ damage' = IF LeavesBehind THEN "cut" ELSE damage
  /\ UNCHANGED <<file, contents, mishap>>
  /\ Gone

(* Close writes the header page and the page count, and no page that only   *)
(* the cache has.                                                           *)
Close ==
  /\ up
  /\ pc = "idle"
  /\ ~Over
  /\ header' = root
  /\ saved' = pageCount
  /\ damage' = IF LeavesBehind THEN "cut" ELSE damage
  /\ UNCHANGED <<file, contents, mishap>>
  /\ Gone

(* What a process that starts from root page r can find of the pairs in the *)
(* pages on disk.                                                           *)
Survivors(r) ==
  LET pairs == {c.pair : c \in CellsOf(file, Leads(r))}
  IN  [k \in Keys |-> IF \E v \in Values : <<k, v>> \in pairs
                      THEN CHOOSE v \in Values : <<k, v>> \in pairs
                      ELSE Nil]

(* A half of a split is in the file, and its parent, or the header page     *)
(* with the id of a new root, is not.                                       *)
HalfWritten ==
  pc \in {"writeRight", "insertSplit", "newRoot"} \/ header' # root

(* The left half of a leaf is in the file and points at a blank page.       *)
LeavesBlank == CopyUpLeaves /\ pc = "writeRight" /\ split.page.leaf

(* The process ends with something unwritten.  In a B-tree no page points   *)
(* at the right half of a split, in a B+ tree its left neighbour does.      *)
(* Pages that none leads to are left out of the file from here on: Allocate *)
(* blanks a page before any other points at it.                             *)
Interrupted ==
  /\ mishap' = TRUE
  /\ damage' = IF LeavesBehind \/ LeavesBlank THEN "cut"
               ELSE IF HalfWritten /\ CopyUpLeaves /\ damage = "none"
               THEN "unlinked"
               ELSE damage
  /\ contents' = IF saved' > 2 /\ damage' \in {"none", "unlinked"}
                 THEN Survivors(header') ELSE contents
  /\ file' = [id \in Leads(header') |-> file[id]]
  /\ Gone

(* Close ignores the errors of both writes.                                 *)
CloseFails ==
  /\ up
  /\ pc = "idle"
  /\ ~Over
  /\ WritesMayFail
  /\ header' \in {header, root}
  /\ saved' \in {saved, pageCount}
  /\ Interrupted

Crash ==
  /\ up
  /\ MayCrash
  /\ ~Over
  /\ UNCHANGED <<header, saved>>
  /\ Interrupted

(* Open of a file that was never closed makes a new tree in it.  What the   *)
(* file holds of an old one is left out: Allocate blanks each page before   *)
(* any page points at it.                                                   *)
OpenNew ==
  /\ ~up
  /\ ~Reopens
  /\ up' = TRUE
  /\ file' = [id \in {2} |-> EmptyLeaf]
  /\ pageCount' = 3
  /\ root' = 2
  /\ header' = 2
  /\ contents' = IF mishap THEN [k \in Keys |-> Nil] ELSE contents
  /\ mishap' = FALSE
  /\ damage' = "none"
  /\ UNCHANGED <<cached, pc, path, split, call, saved>>

(* The caller of a tree that is cut removes its file, and opens a new one.  *)
StartOver ==
  /\ Over
  /\ up' = TRUE
  /\ file' = [id \in {2} |-> EmptyLeaf]
  /\ cached' = << >>
  /\ pageCount' = 3
  /\ root' = 2
  /\ header' = 2
  /\ pc' = "idle"
  /\ path' = << >>
  /\ split' = NoSplit
  /\ call' = NoCall
  /\ contents' = [k \in Keys |-> Nil]
  /\ saved' = 1
  /\ mishap' = FALSE
  /\ damage' = "none"

(* Mutant: the header page is not read.                                     *)
ReopenFirstRoot ==
  /\ ~up
  /\ Reopens
  /\ up' = TRUE
  /\ pageCount' = saved
  /\ root' = 2
  /\ UNCHANGED <<file, cached, header, pc, path, split, call, contents, saved,
                 mishap, damage>>

Reopen ==
  /\ ~up
  /\ Reopens
  /\ up' = TRUE
  /\ pageCount' = saved
  /\ root' = header
  /\ UNCHANGED <<file, cached, header, pc, path, split, call, contents, saved,
                 mishap, damage>>

SessionStep == Close \/ CloseFails \/ Crash \/ OpenNew \/ Reopen \/ StartOver
-----------------------------------------------------------------------------
(* Properties                                                               *)

(* Between two calls, whatever was closed, reopened, crashed or left to     *)
(* evictions before, the tree stores exactly the pairs that survived: the   *)
(* last values inserted, each once.                                         *)
StoresSurvivors == up /\ damage = "none" => StoresContents

(* Reopening, crashing and outgrown values leave a tree in which no page    *)
(* hangs twice and all leaves are equally deep, until a page is reused.     *)
StaysTree ==
  up /\ damage \in {"none", "lost"} => Balanced /\ NoPageTwice

(* No search comes back to a page it has left, in any tree a crash, a new   *)
(* session or a failed write leaves behind, until a page is reused.         *)
SearchesEnd == up /\ ~Over => NeverBack

(* As long as every session ends with Close and no write fails, no page of  *)
(* the tree is handed out again and none is left blank under it.            *)
NeverCut == ~mishap => damage \notin {"unlinked", "cut"}

(* A Get answers the value of the last Insert that survived: also in a B+   *)
(* tree whose parent page misses a split, where it walks right to the half, *)
(* and also when a write failed, while the cache has the page.              *)
GetsAnswer ==
  [][ pc # "answer" /\ pc' = "answer" /\ damage \in {"none", "unlinked"} =>
        call'.val = contents[call.key] ]_<<vars, svars>>

(* A crash loses no pair that was stored, except in a split: there a B-tree *)
(* loses no key below the promoted one, and a B+ tree loses none at all     *)
(* once both halves are written, or when it is an internal page that splits.*)
(* This is about trees that have lost nothing before: after a growing       *)
(* overwrite on an internal page of a B-tree (damage = "lost") a crash also *)
(* brings back the old value, if the page has not been written since.       *)
CrashKeeps ==
  [][ Crash /\ Reopens /\ damage' \in {"none", "unlinked"}
        /\ (header = root \/ pc = "writeHeader") =>
        \A k \in Keys :
          \/ contents'[k] = contents[k]
          \/ call.op = "insert" /\ call.key = k /\ contents'[k] = call.val
          \/ HalfWritten /\ ~CopyUpLeaves /\ k >= split.key ]_<<vars, svars>>
=============================================================================
