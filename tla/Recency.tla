------------------------------ MODULE Recency ------------------------------
(***************************************************************************)
(* Sequences of cached pages in the order of their use, most recent first: *)
(* what get and put of the page cache (dbms/pager/pager.go) do to it.      *)
(***************************************************************************)
EXTENDS Naturals, Sequences, SequencesExt

CONSTANT Cap   \* capacity, in pages

Cached(c) == {c[i].id : i \in DOMAIN c}

Position(c, id) == CHOOSE i \in DOMAIN c : c[i].id = id

Entry(c, id) == c[Position(c, id)]

WithoutId(c, id) ==
  IF id \in Cached(c) THEN RemoveAt(c, Position(c, id)) ELSE c

Touched(c, id) == <<Entry(c, id)>> \o WithoutId(c, id)

(* Mutant: a page that is cached already is cached once more.               *)
WithPageAgain(c, id, pg) ==
  LET d == <<[id |-> id, page |-> pg]>> \o c
  IN  IF Len(d) > Cap THEN Front(d) ELSE d

WithPage(c, id, pg) ==
  LET d == <<[id |-> id, page |-> pg]>> \o WithoutId(c, id)
  IN  IF Len(d) > Cap THEN Front(d) ELSE d
=============================================================================
