----------------------------- MODULE JsonContent -----------------------------
(***************************************************************************)
(* What a JSON document promises, whatever its text looks like: a value    *)
(* that is null, a text, a word or number, a function from keys to values, *)
(* or a sequence of values, and what each operation does to it.            *)
(***************************************************************************)
EXTENDS Integers, Sequences, SequencesExt

Thing(kind, text, map, items) ==
  [kind |-> kind, text |-> text, map |-> map, items |-> items]
Nothing     == Thing("NULL", <<>>, <<>>, <<>>)
Leaf(kind, text) == Thing(kind, text, <<>>, <<>>)
Map(map)    == Thing("OBJECT", <<>>, map, <<>>)
List(items) == Thing("ARRAY", <<>>, <<>>, items)

(* A property is added or replaced; null becomes an object.                *)
Put(c, k, x) ==
  IF c.kind \in {"NULL", "OBJECT"}
    THEN Map([j \in DOMAIN c.map \union {k} |-> IF j = k THEN x ELSE c.map[j]])
    ELSE c

(* A property goes; an object without properties becomes null.             *)
Drop(c, k) ==
  IF k \notin DOMAIN c.map THEN c
  ELSE IF DOMAIN c.map = {k} THEN Nothing
  ELSE Map([j \in DOMAIN c.map \ {k} |-> c.map[j]])

(* A value is appended; null becomes an array.                             *)
Push(c, x) ==
  IF c.kind \in {"NULL", "ARRAY"} THEN List(Append(c.items, x)) ELSE c

(* A value goes; an array without values becomes null.                     *)
Cut(c, i) ==
  IF i \notin DOMAIN c.items THEN c
  ELSE IF Len(c.items) = 1 THEN Nothing
  ELSE List(RemoveAt(c.items, i))

(* A property is assigned; with a key that is not there the object itself  *)
(* is overwritten, and nothing happens to what is no object.               *)
Store(c, k, x) ==
  IF c.kind # "OBJECT" THEN c
  ELSE IF k \in DOMAIN c.map THEN Map([c.map EXCEPT ![k] = x])
  ELSE x
=============================================================================
