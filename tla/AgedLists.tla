------------------------------- MODULE AgedLists -------------------------------
(***************************************************************************)
(* What the program does to its lists that are in the order of insertion:  *)
(* arrays of timestamps, and Maps that serve as caches.                    *)
(***************************************************************************)
EXTENDS Integers, SequencesExt

\* Entries leave from the front, up to the first that is at one of the given places:
\* "while (list.length && list[0] is too old) list.shift()".
FromFirst(s, places) == IF places = {} THEN <<>> ELSE SubSeq(s, Min(places), Len(s))

\* Entries leave from the front until there are n: "while (map.size > n) delete the
\* first key".
Latest(s, n) == IF Len(s) > n THEN SubSeq(s, Len(s) - n + 1, Len(s)) ELSE s

\* The entry at the given place leaves, if there is one: Map.delete.
Deleted(s, places) == IF places = {} THEN s ELSE RemoveAt(s, Min(places))

=============================================================================
