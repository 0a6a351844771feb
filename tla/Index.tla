------------------------------- MODULE Index -------------------------------
(***************************************************************************)
(* What the Index interface (dbms/index/index.go) promises its caller: an  *)
(* ordered map from keys to values.  A call is pending from its invocation *)
(* to its return; the calls of one index never overlap, because the        *)
(* program runs every index from a single goroutine.                       *)
(*                                                                         *)
(* BTree and BPTree are checked against this specification.                *)
(***************************************************************************)
CONSTANTS Keys,     \* keys a caller uses
          Values,   \* values a caller stores
          Nil       \* the nil slice Get returns for a key that is absent

VARIABLES contents, \* contents[k]: the value the index must hold for k, or Nil
          call      \* the pending call, or the answer of a finished Get

ivars == <<contents, call>>

NoCall == [op |-> "none"]

TypeOK ==
  /\ contents \in [Keys -> Values \cup {Nil}]
  /\ call \in {NoCall}
              \cup [op : {"insert"}, key : Keys, val : Values]
              \cup [op : {"get"}, key : Keys]
              \cup [op : {"answer"}, key : Keys, val : Values \cup {Nil}]

Init ==
  /\ contents = [k \in Keys |-> Nil]
  /\ call = NoCall

CallInsert(k, v) ==
  /\ call = NoCall
  /\ call' = [op |-> "insert", key |-> k, val |-> v]
  /\ UNCHANGED contents

(* Insert adds the pair; if the key already exists, its value is updated.   *)
ReturnInsert ==
  /\ call.op = "insert"
  /\ contents' = [contents EXCEPT ![call.key] = call.val]
  /\ call' = NoCall

CallGet(k) ==
  /\ call = NoCall
  /\ call' = [op |-> "get", key |-> k]
  /\ UNCHANGED contents

(* Get answers the stored value, nil when the key is not found.             *)
AnswerGet ==
  /\ call.op = "get"
  /\ call' = [op |-> "answer", key |-> call.key, val |-> contents[call.key]]
  /\ UNCHANGED contents

ReturnGet ==
  /\ call.op = "answer"
  /\ call' = NoCall
  /\ UNCHANGED contents

(* Delete removes the key.                                                  *)
Delete(k) ==
  /\ call = NoCall
  /\ contents' = [contents EXCEPT ![k] = Nil]
  /\ UNCHANGED call

Next ==
  \/ \E k \in Keys, v \in Values : CallInsert(k, v)
  \/ ReturnInsert
  \/ \E k \in Keys : CallGet(k)
  \/ AnswerGet
  \/ ReturnGet
  \/ \E k \in Keys : Delete(k)

Spec == Init /\ [][Next]_ivars
=============================================================================
