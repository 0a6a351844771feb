-------------------------------- MODULE LRU --------------------------------
(***************************************************************************)
(* What the page cache of dbms/pager/pager.go promises: at most Cap pages, *)
(* most recently used first; the page used longest ago goes first; a get   *)
(* answers the page last put.  Module LRUCache is the linked list that     *)
(* implements it.                                                          *)
(***************************************************************************)
EXTENDS Recency

CONSTANTS Ids,    \* page ids
          Pages,  \* page contents
          Nil     \* the answer for a page that is not cached

VARIABLES lru,    \* the cached pages, most recently used first
          last    \* the last call, with its answer

Init == lru = << >> /\ last = [op |-> "none"]

Get(id) ==
  /\ lru' = IF id \in Cached(lru) THEN Touched(lru, id) ELSE lru
  /\ last' = [op |-> "get", id |-> id,
              page |-> IF id \in Cached(lru) THEN Entry(lru, id).page ELSE Nil]

Put(id, pg) ==
  /\ lru' = WithPage(lru, id, pg)
  /\ last' = [op |-> "put", id |-> id, page |-> pg]

Next == \E id \in Ids : Get(id) \/ \E pg \in Pages : Put(id, pg)

Spec == Init /\ [][Next]_<<lru, last>>
=============================================================================
