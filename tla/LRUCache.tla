------------------------------ MODULE LRUCache ------------------------------
(***************************************************************************)
(* The page cache of dbms/pager/pager.go: a doubly linked list from the    *)
(* most to the least recently used page, and a map from page ids to list   *)
(* entries.  An entry is named by its id: the map keeps one entry for an   *)
(* id, and an entry that leaves the map is not used again.                 *)
(***************************************************************************)
EXTENDS Naturals, Sequences, FiniteSets

CONSTANTS Ids, Pages, Cap,
          Nil     \* the nil entry and the nil page

ASSUME CapAssumption == Cap \in Nat /\ Nil \notin Ids \cup Pages

VARIABLES
  items,       \* ids in the map
  page,        \* lruEntry.page
  prev, next,  \* lruEntry.prev and lruEntry.next
  head, tail,  \* the most and the least recently used entry
  last         \* history: the last call, with what a get returned

vars == <<items, page, prev, next, head, tail, last>>

Ref == Ids \cup {Nil}

Init ==
  /\ items = {}
  /\ page = [e \in Ids |-> Nil]
  /\ prev = [e \in Ids |-> Nil]
  /\ next = [e \in Ids |-> Nil]
  /\ head = Nil
  /\ tail = Nil
  /\ last = [op |-> "none"]

(* f[e] := v, and nothing when e is nil.                                    *)
Set(f, e, v) == IF e = Nil THEN f ELSE [f EXCEPT ![e] = v]

(* Mutant: moving the last entry to the front leaves tail on it.            *)
MoveToFrontKeepsTail(e) ==
  IF head = e THEN UNCHANGED <<prev, next, head, tail>>
  ELSE /\ prev' = Set([Set(prev, next[e], prev[e]) EXCEPT ![e] = Nil], head, e)
       /\ next' = [Set(next, prev[e], next[e]) EXCEPT ![e] = head]
       /\ head' = e
       /\ UNCHANGED tail

(* The list after e was unlinked and put first.                             *)
MoveToFront(e) ==
  IF head = e THEN UNCHANGED <<prev, next, head, tail>>
  ELSE /\ prev' = Set([Set(prev, next[e], prev[e]) EXCEPT ![e] = Nil], head, e)
       /\ next' = [Set(next, prev[e], next[e]) EXCEPT ![e] = head]
       /\ tail' = IF tail = e THEN prev[e] ELSE tail
       /\ head' = e

(* Mutant: a page that is read keeps its place, as in a FIFO cache.         *)
GetHitInPlace(id) ==
  /\ id \in items
  /\ last' = [op |-> "get", id |-> id, page |-> page[id]]
  /\ UNCHANGED <<items, page, prev, next, head, tail>>

GetHit(id) ==
  /\ id \in items
  /\ MoveToFront(id)
  /\ last' = [op |-> "get", id |-> id, page |-> page[id]]
  /\ UNCHANGED <<items, page>>

GetMiss(id) ==
  /\ id \notin items
  /\ last' = [op |-> "get", id |-> id, page |-> Nil]
  /\ UNCHANGED <<items, page, prev, next, head, tail>>

PutExisting(id, pg) ==
  /\ id \in items
  /\ page' = [page EXCEPT ![id] = pg]
  /\ MoveToFront(id)
  /\ last' = [op |-> "put", id |-> id, page |-> pg]
  /\ UNCHANGED items

(* The list with a new entry in front.                                      *)
PushedPrev(id) == Set([prev EXCEPT ![id] = Nil], head, id)
PushedNext(id) == [next EXCEPT ![id] = head]
PushedTail(id) == IF tail = Nil THEN id ELSE tail

(* The entry before the last one, nil when the new entry is the only one.   *)
BeforeLast(id) == PushedPrev(id)[PushedTail(id)]

PutNew(id, pg) ==
  /\ id \notin items
  /\ Cardinality(items) < Cap
  /\ items' = items \cup {id}
  /\ page' = [page EXCEPT ![id] = pg]
  /\ prev' = PushedPrev(id)
  /\ next' = PushedNext(id)
  /\ head' = id
  /\ tail' = PushedTail(id)
  /\ last' = [op |-> "put", id |-> id, page |-> pg]

(* The map has outgrown the capacity: evict unlinks the last entry, which   *)
(* is the new one when the capacity is zero.                                *)
PutNewEvicting(id, pg) ==
  /\ id \notin items
  /\ Cardinality(items) >= Cap
  /\ items' = (items \cup {id}) \ {PushedTail(id)}
  /\ page' = [page EXCEPT ![id] = pg]
  /\ prev' = PushedPrev(id)
  /\ next' = Set(PushedNext(id), BeforeLast(id), Nil)
  /\ head' = IF BeforeLast(id) = Nil THEN Nil ELSE id
  /\ tail' = BeforeLast(id)
  /\ last' = [op |-> "put", id |-> id, page |-> pg]

Next ==
  \E id \in Ids :
    \/ GetHit(id)
    \/ GetMiss(id)
    \/ \E pg \in Pages :
         PutExisting(id, pg) \/ PutNew(id, pg) \/ PutNewEvicting(id, pg)

Spec == Init /\ [][Next]_vars
-----------------------------------------------------------------------------
TypeOK ==
  /\ items \subseteq Ids
  /\ page \in [Ids -> Pages \cup {Nil}]
  /\ prev \in [Ids -> Ref] /\ next \in [Ids -> Ref]
  /\ head \in Ref /\ tail \in Ref
  /\ last \in {[op |-> "none"]} \cup
       [op : {"get", "put"}, id : Ids, page : Pages \cup {Nil}]

(* The entry n links behind the head of the list.                           *)
Walk ==
  LET at[n \in 0 .. Cardinality(items)] ==
        IF n = 0 THEN head
        ELSE IF at[n - 1] = Nil THEN Nil ELSE next[at[n - 1]]
  IN  at

(* The list and the map hold the same entries, no more than the capacity,   *)
(* each once, and the list read backwards from tail is the list read        *)
(* forwards from head: no relinking loses, repeats or strands an entry.     *)
ListMatchesMap ==
  /\ Cardinality(items) <= Cap
  /\ {Walk[n] : n \in 0 .. Cardinality(items)} \ {Nil} = items
  /\ \A n \in 0 .. Cardinality(items) - 1 :
       /\ Walk[n] \in items
       /\ prev[Walk[n]] = IF n = 0 THEN Nil ELSE Walk[n - 1]
       /\ n = Cardinality(items) - 1 => Walk[n] = tail /\ next[Walk[n]] = Nil
  /\ items = {} => head = Nil /\ tail = Nil

(* Whatever the order of gets and puts, the cache evicts the page used      *)
(* longest ago, and a get answers the latest content of a page it has.      *)
LRUOrder == INSTANCE LRU
              WITH lru <- [n \in 1 .. Cardinality(items) |->
                             [id |-> Walk[n - 1], page |-> page[Walk[n - 1]]]]
ImplementsLRU == LRUOrder!Spec
=============================================================================
