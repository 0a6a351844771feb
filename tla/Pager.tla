------------------------------- MODULE Pager -------------------------------
(***************************************************************************)
(* The pager of dbms/pager/pager.go: a file of pages, a count of the pages *)
(* allocated, an LRU cache, and a Sync every SyncInterval page writes.     *)
(*                                                                         *)
(* The content of a page is a value of Data; page 0, which only holds the  *)
(* page count, is the variable "saved".  Every action is one call of the   *)
(* pager's methods: the program makes them from a single goroutine.  What  *)
(* the operating system may do to a call, and whether the caller changes   *)
(* the interval, is settled at the start by the variable "may".            *)
(***************************************************************************)
EXTENDS Integers, Sequences, FiniteSets

CONSTANTS
  Data,             \* page contents a caller writes
  Blank,            \* the content of a page of zeroes
  CachePages,       \* capacity of the cache
  DefaultInterval,  \* the SyncInterval Open sets (10000)
  Intervals,        \* intervals a caller passes to SetSyncInterval
  Settings,         \* values of "may": sets of "write", "sync", "close",
                    \* "crash" (which may fail or happen) and "interval"
  MaxPages,         \* bound: pages allocated
  MaxWrites         \* bound: page writes counted since Open or the last Sync

ASSUME PagerAssumption ==
  /\ Blank \notin Data
  /\ CachePages \in Nat
  /\ DefaultInterval \in Nat \ {0}
  /\ Intervals \subseteq Nat
  /\ MaxPages \in Nat /\ MaxWrites \in Nat

VARIABLES
  may,           \* what may happen besides calls that succeed
  open,          \* a process has the file open
  file,          \* file[id]: page id as the operating system has it, id >= 1
  saved,         \* the page count on page 0; 0 when the file is empty
  pageCount,     \* Pager.pageCount
  writeCount,    \* Pager.writeCount
  SyncInterval,  \* Pager.SyncInterval
  cache,         \* Pager.cache, most recently used page first
  unsynced,      \* history: page writes since Open or the last Sync
  given,         \* history: the ids Allocate has returned
  latest,        \* history: the content each page was last given
  behind,        \* history: pages whose last change failed or was not written,
                 \* and those handed out a second time while in use
  settled        \* history: what the pages counted at the last Close that wrote
                 \* the page count read then, but those a caller has changed since

vars == <<may, open, file, saved, pageCount, writeCount, SyncInterval, cache,
          unsynced, given, latest, behind, settled>>

LRU == INSTANCE Recency WITH Cap <- CachePages

Init ==
  /\ may \in Settings
  /\ open = FALSE
  /\ file = << >>
  /\ saved = 0
  /\ pageCount = 0
  /\ writeCount = 0
  /\ SyncInterval = DefaultInterval
  /\ cache = << >>
  /\ unsynced = 0
  /\ given = {}
  /\ latest = << >>
  /\ behind = {}
  /\ settled = << >>
-----------------------------------------------------------------------------
(* A file with page id written: a gap before it reads as zeroes.            *)
Extended(id, d) ==
  [x \in 1 .. (IF id > Len(file) THEN id ELSE Len(file)) |->
     IF x = id THEN d ELSE IF x <= Len(file) THEN file[x] ELSE Blank]

Without(f, id) == [x \in DOMAIN f \ {id} |-> f[x]]

With(f, id, d) == [x \in DOMAIN f \cup {id} |-> IF x = id THEN d ELSE f[x]]

(* writePageToDisk after WriteAt succeeded: writes are counted and synced   *)
(* only while the interval is positive, and the count is never reset.       *)
Counted(count, interval) == IF interval > 0 THEN count + 1 ELSE count

(* Mutant: the sync comes one write late.                                   *)
SyncDueLate(count, interval) ==
  interval > 0 /\ (count + 1) % (interval + 1) = 0

SyncDue(count, interval) ==
  interval > 0 /\ (count + 1) % interval = 0

CountWrite(count, interval, dirty) ==
  /\ dirty < MaxWrites /\ count < MaxWrites
  /\ writeCount' = Counted(count, interval)
  /\ unsynced' = IF SyncDue(count, interval) THEN 0 ELSE dirty + 1

(* The same when the Sync fails: the write happened and the caller is told  *)
(* it failed.                                                               *)
CountUnsyncedWrite(count, interval, dirty) ==
  /\ "sync" \in may
  /\ SyncDue(count, interval)
  /\ dirty < MaxWrites /\ count < MaxWrites
  /\ writeCount' = Counted(count, interval)
  /\ unsynced' = dirty + 1
-----------------------------------------------------------------------------
(* Mutant: the count on page 0 is taken for the last id.                    *)
OpenExistingOffByOne ==
  /\ ~open
  /\ saved > 0
  /\ open' = TRUE
  /\ pageCount' = saved - 1
  /\ writeCount' = 0
  /\ unsynced' = 0
  /\ SyncInterval' = DefaultInterval
  /\ UNCHANGED <<file, saved, cache, given, latest, behind, settled>>

(* Open of an existing file reads the page count, of a new one writes it.   *)
OpenExisting ==
  /\ ~open
  /\ saved > 0
  /\ open' = TRUE
  /\ pageCount' = saved
  /\ writeCount' = 0
  /\ unsynced' = 0
  /\ SyncInterval' = DefaultInterval
  /\ UNCHANGED <<file, saved, cache, given, latest, behind, settled>>

OpenNew ==
  /\ ~open
  /\ saved = 0
  /\ open' = TRUE
  /\ pageCount' = 1
  /\ saved' = 1
  /\ CountWrite(0, DefaultInterval, 0)
  /\ SyncInterval' = DefaultInterval
  /\ UNCHANGED <<file, cache, given, latest, behind, settled>>

SetSyncInterval(n) ==
  /\ open
  /\ "interval" \in may
  /\ SyncInterval' = n
  /\ UNCHANGED <<open, file, saved, pageCount, writeCount, cache, unsynced,
                 given, latest, behind, settled>>

(* The count goes up before the blank page is written.                      *)
Allocate ==
  /\ open
  /\ pageCount < MaxPages
  /\ pageCount' = pageCount + 1
  /\ file' = Extended(pageCount, Blank)
  /\ CountWrite(writeCount, SyncInterval, unsynced)
  /\ given' = given \cup {pageCount}
  /\ latest' = With(latest, pageCount, Blank)
  /\ behind' = behind \cup (given \cap {pageCount})
  /\ UNCHANGED <<open, saved, SyncInterval, cache, settled>>

(* An Allocate that fails returns id 0; the id it took is not used again.   *)
AllocateFails ==
  /\ open
  /\ pageCount < MaxPages
  /\ pageCount' = pageCount + 1
  /\ \/ /\ "write" \in may
        /\ UNCHANGED <<file, writeCount, unsynced>>
     \/ /\ file' = Extended(pageCount, Blank)
        /\ CountUnsyncedWrite(writeCount, SyncInterval, unsynced)
  /\ behind' = behind \cup (given \cap {pageCount})
  /\ UNCHANGED <<open, saved, SyncInterval, cache, given, latest, settled>>

(* What Read returns.                                                       *)
Content(id) ==
  IF id \in LRU!Cached(cache) THEN LRU!Entry(cache, id).page ELSE file[id]

Read(id) ==
  /\ open
  /\ cache' = IF id \in LRU!Cached(cache) THEN LRU!Touched(cache, id)
              ELSE LRU!WithPage(cache, id, file[id])
  /\ UNCHANGED <<open, file, saved, pageCount, writeCount, SyncInterval,
                 unsynced, given, latest, behind, settled>>

(* Mutant: a page that is cached already keeps its old content.             *)
CachePutOnce(id, d) ==
  cache' = IF id \in LRU!Cached(cache) THEN cache ELSE LRU!WithPage(cache, id, d)

CachePut(id, d) == cache' = LRU!WithPage(cache, id, d)

(* The page goes to the cache first, then to the file.                      *)
Write(id, d) ==
  /\ open
  /\ CachePut(id, d)
  /\ file' = Extended(id, d)
  /\ CountWrite(writeCount, SyncInterval, unsynced)
  /\ latest' = With(latest, id, d)
  /\ behind' = behind \ {id}
  /\ settled' = Without(settled, id)
  /\ UNCHANGED <<open, saved, pageCount, SyncInterval, given>>

WriteFails(id, d) ==
  /\ open
  /\ CachePut(id, d)
  /\ \/ /\ "write" \in may
        /\ UNCHANGED <<file, writeCount, unsynced>>
     \/ /\ file' = Extended(id, d)
        /\ CountUnsyncedWrite(writeCount, SyncInterval, unsynced)
  /\ behind' = behind \cup {id}
  /\ settled' = Without(settled, id)
  /\ UNCHANGED <<open, saved, pageCount, SyncInterval, given, latest>>

(* Read hands out the cached slice itself: a caller that changes the page   *)
(* changes the cache, and the file stays behind until the page is written.  *)
Modify(id, d) ==
  /\ open
  /\ id \in LRU!Cached(cache)
  /\ cache' = [i \in DOMAIN cache |->
                 IF cache[i].id = id THEN [cache[i] EXCEPT !.page = d]
                 ELSE cache[i]]
  /\ behind' = behind \cup {id}
  /\ settled' = Without(settled, id)
  /\ UNCHANGED <<open, file, saved, pageCount, writeCount, SyncInterval,
                 unsynced, given, latest>>

(* The process is gone: what it kept in memory is lost, the file stays.     *)
Gone ==
  /\ open' = FALSE
  /\ pageCount' = 0
  /\ writeCount' = 0
  /\ SyncInterval' = DefaultInterval
  /\ cache' = << >>
  /\ UNCHANGED <<file, given, latest, behind>>

(* Mutant: Close does not write the page count.                             *)
CloseForgetsCount ==
  /\ open
  /\ UNCHANGED <<saved, unsynced, settled>>
  /\ Gone

(* What the pages of the file read that are counted.                        *)
Counting ==
  [id \in {x \in DOMAIN latest \ behind : x < pageCount} |-> latest[id]]

(* Close writes the page count and ignores a failure of that; it does not   *)
(* sync.                                                                    *)
Close ==
  /\ open
  /\ saved' = pageCount
  /\ settled' = Counting
  /\ unsynced < MaxWrites
  /\ unsynced' = IF SyncDue(writeCount, SyncInterval) THEN 0 ELSE unsynced + 1
  /\ Gone

CloseFails ==
  /\ open
  /\ "close" \in may
  /\ UNCHANGED <<saved, unsynced, settled>>
  /\ Gone

Crash ==
  /\ open
  /\ "crash" \in may
  /\ UNCHANGED <<saved, unsynced, settled>>
  /\ Gone

Step ==
  \/ OpenExisting
  \/ OpenNew
  \/ \E n \in Intervals : SetSyncInterval(n)
  \/ Allocate
  \/ AllocateFails
  \/ \E id \in DOMAIN file : Read(id)
  \/ \E id \in given, d \in Data :
       Write(id, d) \/ WriteFails(id, d) \/ Modify(id, d)
  \/ Close
  \/ CloseFails
  \/ Crash

Next == Step /\ UNCHANGED may

Spec == Init /\ [][Next]_vars
-----------------------------------------------------------------------------
PageContent == Data \cup {Blank}

TypeOK ==
  /\ may \in Settings
  /\ open \in BOOLEAN
  /\ file \in Seq(PageContent)
  /\ saved \in Nat /\ pageCount \in Nat
  /\ writeCount \in Nat /\ SyncInterval \in Nat /\ unsynced \in Nat
  /\ cache \in Seq([id : Nat, page : PageContent])
  /\ given \subseteq Nat
  /\ DOMAIN latest \subseteq Nat
  /\ behind \subseteq Nat
  /\ DOMAIN settled \subseteq Nat

(* The next id Allocate hands out was never handed out before, across all   *)
(* the times the file was closed and opened again, as long as every Close   *)
(* manages to write the page count and the process does not crash.          *)
NextIdFresh ==
  open /\ "close" \notin may /\ "crash" \notin may =>
    \A id \in given : id < pageCount

(* Read returns what the page was last given, from the cache or from disk,  *)
(* unless the last change of the page failed or was never written, or the   *)
(* page was handed out a second time (after a crash) and not written since. *)
ReadsLatest ==
  open => \A id \in DOMAIN latest \ behind : Content(id) = latest[id]

(* What was in the file when a Close last wrote the page count reads back   *)
(* in every later session until a caller changes it: however often the      *)
(* process crashes or Close fails after that, and whatever ids are handed   *)
(* out again then, it is none of those.                                     *)
SettledReadsBack ==
  open => \A id \in DOMAIN settled : id < pageCount /\ Content(id) = settled[id]

(* The cache holds each page once and no more pages than its capacity.      *)
CacheBounded ==
  /\ Len(cache) <= CachePages
  /\ Cardinality(LRU!Cached(cache)) = Len(cache)

(* With the interval Open sets, and syncs that succeed, fewer page writes   *)
(* than the interval are lost when the machine stops: the rest of this      *)
(* session was synced.                                                      *)
UnsyncedBounded ==
  open /\ "interval" \notin may /\ "sync" \notin may =>
    unsynced < DefaultInterval

(* The count on page 0 never runs ahead of the count in memory, so that     *)
(* reopening never takes a page to exist that was not allocated.            *)
SavedNotAhead == open => 0 < saved /\ saved <= pageCount
=============================================================================
