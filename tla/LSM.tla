-------------------------------- MODULE LSM --------------------------------
(***************************************************************************)
(* The LSM index of dbms/index/lsm/lsm.go: int64 keys stored in Pebble as  *)
(* eight bytes, big-endian, which Pebble orders as unsigned numbers.       *)
(*                                                                         *)
(* Pebble is external: a map from encoded keys to values, whose iterators  *)
(* read the map as it was when they were made.  Reads and writes are one   *)
(* step each, and a caller may write between two calls of Next.            *)
(***************************************************************************)
EXTENDS Integers, Sequences, FiniteSetsExt, Scans

CONSTANTS
  Bits,     \* width of a key (64)
  Keys,     \* keys a caller uses
  Values,   \* values a caller inserts
  Nil       \* no value

Int64 == -(2 ^ (Bits - 1)) .. 2 ^ (Bits - 1) - 1

ASSUME LSMAssumption ==
  /\ Bits \in Nat \ {0}
  /\ Keys \subseteq Int64
  /\ Nil \notin Values

(* What a proof uses of the powers of two.                                  *)
ASSUME PowersAssumption ==
  2 ^ (Bits - 1) \in Nat \ {0} /\ 2 ^ Bits = 2 * 2 ^ (Bits - 1)

VARIABLES
  db,        \* Pebble: the stored value of each encoded key, or Nil
  scan,      \* closed, open, or done when Next has answered false
  snapshot,  \* Pebble's iterator: the stored values in its bounds
  pos,       \* Pebble's iterator: the encoded key it is on, or Behind
  first,     \* rangeIterator.first
  seen,      \* history: the pairs Next has produced
  expected   \* history: the values of the range when Range was called

vars == <<db, scan, snapshot, pos, first, seen, expected>>
-----------------------------------------------------------------------------
(* uint64(k), and int64 of what was stored.                                 *)
Encode(k) == k % 2 ^ Bits
Decode(u) == IF u < 2 ^ (Bits - 1) THEN u ELSE u - 2 ^ Bits

(* The exclusive bound behind an inclusive end.  Behind the last key, k + 1 *)
(* wraps to the first one, which is encoded as the number behind the last.  *)
EncodeExclusive(k) == Encode(k + 1)

Init ==
  /\ db = [u \in 0 .. 2 ^ Bits - 1 |-> Nil]
  /\ scan = "closed"
  /\ snapshot = << >>
  /\ pos = 0
  /\ first = FALSE
  /\ seen = << >>
  /\ expected = << >>

Insert(k, v) ==
  /\ db' = [db EXCEPT ![Encode(k)] = v]
  /\ UNCHANGED <<scan, snapshot, pos, first, seen, expected>>

Delete(k) ==
  /\ db' = [db EXCEPT ![Encode(k)] = Nil]
  /\ UNCHANGED <<scan, snapshot, pos, first, seen, expected>>

(* What Pebble has for the key, or Nil for its ErrNotFound.                 *)
Fetched(k) == db[Encode(k)]

(* A key that is not there is answered with nil, and no error.              *)
Get(k) == [val |-> Fetched(k), err |-> FALSE]

(* NewIter: the stored values from lower to below upper, as they are now.   *)
NewIter(lower, upper) ==
  [u \in {w \in DOMAIN db : db[w] # Nil /\ lower <= w /\ w < upper} |-> db[u]]

(* Where Pebble's iterator is when it is on no key.                         *)
Behind == 2 ^ Bits

(* First and Next of Pebble go to the least of the keys that are left.      *)
Seek(left) == IF left = {} THEN Behind ELSE Min(left)

(* The values of the range, by the keys a caller uses.                      *)
ValuesOf(s, e) ==
  [k \in {l \in Keys : Fetched(l) # Nil /\ s <= l /\ l <= e} |-> Fetched(k)]

OpenRange(s, e) ==
  /\ scan = "closed"
  /\ scan' = "open"
  /\ snapshot' = NewIter(Encode(s), EncodeExclusive(e))
  /\ pos' = Seek(DOMAIN snapshot')
  /\ first' = TRUE
  /\ expected' = ValuesOf(s, e)
  /\ UNCHANGED <<db, seen>>

(* The keys of the snapshot that the iterator has yet to come to.           *)
Left == {u \in DOMAIN snapshot : pos < u}

(* Mutant: the first pair is passed over, as Next alone would do.           *)
AdvancedPast == Seek(Left)

(* First has put Pebble's iterator on the first pair already.               *)
Advanced == IF first THEN pos ELSE Seek(Left)

Next ==
  /\ scan = "open"
  /\ first' = FALSE
  /\ pos' = Advanced
  /\ IF Advanced # Behind
     THEN /\ seen' = Append(seen, [key |-> Decode(Advanced),
                                   val |-> snapshot[Advanced]])
          /\ UNCHANGED scan
     ELSE scan' = "done" /\ UNCHANGED seen
  /\ UNCHANGED <<db, snapshot, expected>>

CloseRange ==
  /\ scan # "closed"
  /\ scan' = "closed"
  /\ snapshot' = << >>
  /\ pos' = 0
  /\ first' = FALSE
  /\ seen' = << >>
  /\ expected' = << >>
  /\ UNCHANGED db

LSMNext ==
  \/ \E k \in Keys, v \in Values : Insert(k, v)
  \/ \E k \in Keys : Delete(k)
  \/ \E s, e \in Keys : OpenRange(s, e)
  \/ Next
  \/ CloseRange

Spec == Init /\ [][LSMNext]_vars
-----------------------------------------------------------------------------
(* A scan produces the pairs its range had when Range was called, in the    *)
(* order of their keys, whatever is written under it.                       *)
ScanInOrder ==
  scan # "closed" =>
    /\ FirstOf(seen, expected)
    /\ scan = "done" => AllOf(seen, expected)
=============================================================================
