------------------------------ MODULE ListIndex ------------------------------
(***************************************************************************)
(* The list index of dbms/index/listindex/listindex.go: a slice of pairs   *)
(* that is searched from its front, and an iterator that keeps the slice   *)
(* as it was when Range was called.  Both slices may be views of one       *)
(* array: an overwrite, a Delete and an append into free capacity change   *)
(* what the iterator walks over, an append that grows the array does not.  *)
(***************************************************************************)
EXTENDS Integers, Sequences, SequencesExt, FiniteSets

CONSTANTS
  Keys,      \* keys a caller uses
  Values,    \* values a caller inserts
  Nil,       \* no value
  MaxWrites  \* bound: the writes that are made under one walk

VARIABLES
  data,  \* the array behind Data, to its capacity
  size,  \* len(Data)
  it,    \* the iterator: where its walk is; whether its array is still data,
         \* or else that array; the length of its slice, cur (0 is the code's
         \* -1), start and end
  past   \* history of the walk: the pairs found; the pairs stored at any time
         \* since Range; the keys kept since Range; the keys deleted, and the
         \* writes called, since Range

NoWalk == [walk |-> "closed", shared |-> FALSE, held |-> << >>, len |-> 0,
           cur |-> 0, start |-> 0, end |-> 0]
NoPast == [found |-> << >>, stored |-> {}, kept |-> {}, deletes |-> 0,
           writes |-> 0]
-----------------------------------------------------------------------------
Cleared == [key |-> 0, val |-> Nil]

Stored == {data[i] : i \in 1 .. size}

Positions(k) == {i \in 1 .. size : data[i].key = k}

Foremost(at) == CHOOSE i \in at : \A j \in at : i <= j

(* A key that is not there is answered with an error.                       *)
Get(k) ==
  IF Positions(k) = {} THEN [val |-> Nil, err |-> TRUE]
  ELSE [val |-> data[Foremost(Positions(k))].val, err |-> FALSE]

Init ==
  /\ data = << >>
  /\ size = 0
  /\ it = NoWalk
  /\ past = NoPast

(* append writes into free capacity, or makes an array of twice the size.   *)
Appended(pair) ==
  IF size < Len(data) THEN [data EXCEPT ![size + 1] = pair]
  ELSE Append(data, pair) \o [i \in 1 .. size - 1 |-> Cleared]

(* The first pair with the key takes the value, or the pair is appended.    *)
Insert(k, v) ==
  LET pair  == [key |-> k, val |-> v]
      grows == Positions(k) = {} /\ size = Len(data)
  IN  /\ past.writes < MaxWrites
      /\ IF Positions(k) = {}
         THEN data' = Appended(pair) /\ size' = size + 1
         ELSE /\ data' = [data EXCEPT ![Foremost(Positions(k))].val = v]
              /\ UNCHANGED size
      /\ it' = IF grows /\ it.shared
               THEN [it EXCEPT !.shared = FALSE, !.held = data] ELSE it
      /\ past' = IF it.walk = "closed" THEN past
                 ELSE [past EXCEPT !.stored = @ \cup {pair}, !.writes = @ + 1]

(* Mutant: the slot of the pair is cleared and the others stay in place.    *)
ClearedInPlace(i) == [data EXCEPT ![i] = Cleared]

(* slices.Delete moves the pairs behind one to the front and clears the     *)
(* slot of the last.                                                        *)
MovedUp(i) ==
  Append(RemoveAt(SubSeq(data, 1, size), i), Cleared)
    \o SubSeq(data, size + 1, Len(data))

DeletePresent(k) ==
  /\ Positions(k) # {}
  /\ past.writes < MaxWrites
  /\ data' = MovedUp(Foremost(Positions(k)))
  /\ size' = size - 1
  /\ past' = IF it.walk = "closed" THEN past
             ELSE [past EXCEPT !.kept = @ \ {k}, !.deletes = @ + 1,
                               !.writes = @ + 1]
  /\ UNCHANGED it

(* An error is answered.                                                    *)
DeleteAbsent(k) == Positions(k) = {} /\ UNCHANGED <<data, size, it, past>>

Delete(k) == DeletePresent(k) \/ DeleteAbsent(k)

OpenRange(s, e) ==
  /\ it.walk = "closed"
  /\ it' = [NoWalk EXCEPT !.walk = "open", !.shared = TRUE, !.len = size,
                          !.start = s, !.end = e]
  /\ past' = [NoPast EXCEPT !.stored = Stored,
                            !.kept = {p.key : p \in Stored} \cap (s .. e)]
  /\ UNCHANGED <<data, size>>

Walked == IF it.shared THEN data ELSE it.held

Within(pair) == it.start <= pair.key /\ pair.key <= it.end

(* Mutant: the walk goes on behind the pair after the one it is on.         *)
AheadPastOne == {i \in it.cur + 2 .. it.len : Within(Walked[i])}

(* Mutant: the end of the range is not looked at.                           *)
AheadToTheLast == {i \in it.cur + 1 .. it.len : it.start <= Walked[i].key}

(* The pairs of the range that the iterator still has before it.            *)
Ahead == {i \in it.cur + 1 .. it.len : Within(Walked[i])}

NextFound ==
  /\ it.walk = "open"
  /\ Ahead # {}
  /\ it' = [it EXCEPT !.cur = Foremost(Ahead)]
  /\ past' = [past EXCEPT !.found = Append(@, Walked[Foremost(Ahead)])]
  /\ UNCHANGED <<data, size>>

NextDone ==
  /\ it.walk = "open"
  /\ Ahead = {}
  /\ it' = [it EXCEPT !.walk = "done", !.cur = it.len]
  /\ UNCHANGED <<data, size, past>>

CloseRange ==
  /\ it.walk # "closed"
  /\ it' = NoWalk
  /\ past' = NoPast
  /\ UNCHANGED <<data, size>>

Walk ==
  \/ \E s, e \in Keys : OpenRange(s, e)
  \/ NextFound
  \/ NextDone
  \/ CloseRange
-----------------------------------------------------------------------------
(* Properties                                                               *)

FoundKeys == [i \in DOMAIN past.found |-> past.found[i].key]

(* Whatever is inserted and deleted under a walk, each pair Next stops at   *)
(* is of the range and was stored since Range was called; or it is a slot a *)
(* Delete has cleared, which looks like key 0 without a value.              *)
WalksStored ==
  \A p \in ToSet(past.found) :
    Within(p) /\ (p \in past.stored \/ (p = Cleared /\ past.deletes > 0))

(* A walk over all its pairs misses at most one of those that stayed for    *)
(* each key deleted under it, and none twice while no key is deleted.       *)
WalksKept ==
  /\ it.walk = "done" =>
       Cardinality(past.kept \ ToSet(FoundKeys)) <= past.deletes
  /\ past.deletes = 0 => IsInjective(FoundKeys)
=============================================================================
