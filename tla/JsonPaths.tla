------------------------------ MODULE JsonPaths ------------------------------
(***************************************************************************)
(* json_paths: the strings of a JSON value that a path leads to, read by   *)
(* extract and written by replace.  A value is a string, an object (a      *)
(* function of its keys) or an array (a sequence); a segment of a path is  *)
(* a key, an index from zero, or all of an array.                          *)
(*                                                                         *)
(* The code goes down the path with idx segments behind it.  So do the     *)
(* functions here, each on the values that idx segments lead to.           *)
(***************************************************************************)
EXTENDS Integers, Sequences, SequencesExt

\* A string is known by what it was and by whether it has been replaced.
Str(s) == [kind |-> "string", string |-> [was |-> s, replaced |-> FALSE]]
Object(map) == [kind |-> "object", map |-> map]
Array(items) == [kind |-> "array", items |-> items]

Key(k) == [kind |-> "key", key |-> k]
Index(n) == [kind |-> "index", index |-> n]
All == [kind |-> "all"]

\* The entries of a value that a segment selects.
Selects(value, seg) ==
    CASE value.kind = "object" /\ seg.kind = "key" -> DOMAIN value.map \intersect {seg.key}
      [] value.kind = "array" /\ seg.kind = "index" -> DOMAIN value.items \intersect {seg.index + 1}
      [] value.kind = "array" /\ seg.kind = "all" -> DOMAIN value.items
      [] OTHER -> {}
Entry(value, e) == IF value.kind = "object" THEN value.map[e] ELSE value.items[e]

\* The values that each number of segments leads to.
Visited(value, path) ==
    LET visited[idx \in 0..Len(path)] ==
          IF idx = 0 THEN {value}
          ELSE UNION {{Entry(v, e) : e \in Selects(v, path[idx])} : v \in visited[idx - 1]}
    IN visited

\* What the selected entries gave, in order.  Of an object it is one at most.
InOrder(value, found) ==
    IF value.kind = "array"
    THEN FlattenSeq([n \in DOMAIN value.items |-> IF n \in DOMAIN found THEN found[n] ELSE <<>>])
    ELSE IF DOMAIN found = {} THEN <<>> ELSE found[CHOOSE k \in DOMAIN found : TRUE]

\* extract_rec.
Extract(value, path) ==
    LET visited == Visited(value, path)
        extracted[idx \in 0..Len(path)] ==
          [v \in visited[idx] |->
              IF idx = Len(path) THEN IF v.kind = "string" THEN <<v.string>> ELSE <<>>
              ELSE InOrder(v, [e \in Selects(v, path[idx + 1]) |-> extracted[idx + 1][Entry(v, e)]])]
    IN extracted[0][value]

\* The value with new entries for some of its own.
RebuiltFirst(value, entries) ==
    CASE value.kind = "object" ->
           Object([k \in DOMAIN value.map |->
               IF k \in DOMAIN entries THEN entries[k] ELSE value.map[k]])
      [] value.kind = "array" ->
           Array([n \in DOMAIN value.items |->
               IF n \in DOMAIN entries /\ (n = 1 \/ n - 1 \notin DOMAIN entries)
               THEN entries[n] ELSE value.items[n]])
      [] OTHER -> value
Rebuilt(value, entries) ==
    CASE value.kind = "object" ->
           Object([k \in DOMAIN value.map |->
               IF k \in DOMAIN entries THEN entries[k] ELSE value.map[k]])
      [] value.kind = "array" ->
           Array([n \in DOMAIN value.items |->
               IF n \in DOMAIN entries THEN entries[n] ELSE value.items[n]])
      [] OTHER -> value

\* replace_rec and replace_async_rec.
Replace(value, path) ==
    LET visited == Visited(value, path)
        replaced[idx \in 0..Len(path)] ==
          [v \in visited[idx] |->
              IF idx = Len(path)
              THEN IF v.kind = "string" THEN [v EXCEPT !.string.replaced = TRUE] ELSE v
              ELSE Rebuilt(v, [e \in Selects(v, path[idx + 1]) |-> replaced[idx + 1][Entry(v, e)]])]
    IN replaced[0][value]
=============================================================================
