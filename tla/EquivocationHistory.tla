-------------------------- MODULE EquivocationHistory --------------------------
(***************************************************************************)
(* The cache and the log of EquivocationLog with a chronicler beside them  *)
(* who forgets nothing: who has ever said what of which height, and of     *)
(* which heights there has been talk since.  What the node makes of a      *)
(* contradiction, from two memories that forget for reasons of their own,  *)
(* is held against it.                                                     *)
(***************************************************************************)
EXTENDS EquivocationLog

VARIABLES
  told,   \* who has ever said which hash of which height
  later   \* of each height, what other heights were spoken of after it first was

chronicle == <<told, later>>
hvars == <<vars, chronicle>>

HInit ==
  /\ Init
  /\ told = {}
  /\ later = [h \in Heights |-> {}]

-----------------------------------------------------------------------------
SpokenOf(h) == \E p \in Peers, x \in Hashes : <<p, h, x>> \in told

Chronicle(p, h, x) ==
  /\ told' = told \cup {<<p, h, x>>}
  /\ later' = [g \in Heights |-> IF g # h /\ SpokenOf(g) THEN later[g] \cup {h} ELSE later[g]]

HNext ==
  \/ \E p \in Peers, h \in Heights, x \in Hashes :
       (Consistent(p, h, x) \/ Contradictory(p, h, x)) /\ Chronicle(p, h, x)
  \/ Tick /\ UNCHANGED chronicle

HSpec == HInit /\ [][HNext]_hvars

-----------------------------------------------------------------------------
Witnesses(h, x) == {q \in Peers : <<q, h, x>> \in told}

\* Whoever is judged for a contradiction has said what it is reproached with.  If it is
\* spared, somebody else has truly said the same; if it is banned, nobody has, unless
\* the log may have forgotten it: only after as many other heights as it holds were
\* spoken of since, in whatever order frames come, contradict and are evicted from
\* the cache, which forgets by other rules than the log.
VerdictsAreJust ==
  verdict # None /\ verdict.kind # "announce" =>
    LET said == Witnesses(verdict.height, verdict.existing)
    IN  /\ verdict.peer \in said
        /\ verdict.kind = "reorg" => said # {verdict.peer}
        /\ verdict.kind = "ban" =>
             said = {verdict.peer} \/ Cardinality(later[verdict.height]) >= MaxHeights

=============================================================================
