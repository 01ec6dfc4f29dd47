------------------------------ MODULE MCSleep ------------------------------
(* Nodes 1, 2 and 3: a chain of twins 1-2-3 (1 and 3 are not similar enough)  *)
(* or a cross-link pair next to a pair of twins.                              *)
EXTENDS SleepCycle

\* Capped cycles over a rotating page without the vector index that delete what they
\* collect, uncapped ones over the whole graph with it that decay it.
MCModes == {[limit |-> 2, capped |-> TRUE, vec |-> FALSE, gc |-> "hard"],
            [limit |-> 3, capped |-> FALSE, vec |-> TRUE, gc |-> "soft"]}
MCNear == {<<1, 3>>}
MCTwin == {<<1, 2>>, <<2, 3>>}
=============================================================================
