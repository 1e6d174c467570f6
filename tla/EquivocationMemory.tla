--------------------------- MODULE EquivocationMemory ---------------------------
(***************************************************************************)
(* What the node promises about peers that contradict themselves: what a   *)
(* peer said of a height is remembered for the whole window and no longer, *)
(* and saying something else meanwhile is noticed, every time.  Beyond its *)
(* capacity the memory loses what is oldest, and nothing else.             *)
(***************************************************************************)
EXTENDS Integers, FiniteSets

CONSTANTS Peers, Heights, Hashes, Window, Capacity, None

Keys == Peers \X Heights

VARIABLES
  said,    \* what was said under each key, and how long ago, or None
  caught   \* whether the last step found a contradiction

Init ==
  /\ said = [k \in Keys |-> None]
  /\ caught = FALSE

Remembered == {k \in Keys : said[k] # None}

\* What may be lost before the next frame: the oldest, as many as are too many.
Losses ==
  LET excess == Cardinality(Remembered) - Capacity
  IN  IF excess <= 0 THEN {{}}
      ELSE {lost \in SUBSET Remembered :
              /\ Cardinality(lost) = excess
              /\ \A k \in lost, l \in Remembered \ lost : said[k].age >= said[l].age}

Left(lost) == [k \in Keys |-> IF k \in lost THEN None ELSE said[k]]

Contradicts(memory, k, x) == memory[k] # None /\ memory[k].hash # x

Say(k, x) ==
  \E lost \in Losses :
    /\ ~Contradicts(Left(lost), k, x)
    /\ said' = [Left(lost) EXCEPT ![k] = [hash |-> x, age |-> 0]]
    /\ caught' = FALSE

Catch(k, x) ==
  \E lost \in Losses :
    /\ Contradicts(Left(lost), k, x)
    /\ said' = Left(lost)
    /\ caught' = TRUE

Older(s) == IF s = None \/ s.age + 1 >= Window THEN None ELSE [s EXCEPT !.age = @ + 1]

Wait ==
  /\ said' = [k \in Keys |-> Older(said[k])]
  /\ caught' = FALSE

Next == Wait \/ \E k \in Keys, x \in Hashes : Say(k, x) \/ Catch(k, x)

Spec == Init /\ [][Next]_<<said, caught>>

=============================================================================
