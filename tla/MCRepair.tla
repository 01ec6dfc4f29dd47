------------------------------ MODULE MCRepair ------------------------------
(* Three node ids; the first takes every combination of rows, the others a   *)
(* few typical ones.  One embedding and two active nodes are all that an     *)
(* inspection reads.                                                         *)
EXTENDS IntegrityRepair

Ends == {<<"active", "stored", "stored">>, <<"active", "other", "none">>,
         <<"decayed", "stored", "bad">>, <<"absent", "stored", "stored">>}

Tails == {<<"absent", "none", "stored">>, <<"active", "stored", "stored">>}

MCProfiles ==
  {[row |-> <<a, y[1], z[1]>>, emb |-> <<b, y[2], z[2]>>, vec |-> <<c, y[3], z[3]>>,
    perm |-> flags[1], core |-> flags[2], edges |-> {<<1, 2>>, <<1, 1>>}, index |-> index] :
     a \in {"absent", "active", "decayed"}, b \in Vector, c \in Vector, y \in Ends, z \in Tails,
     flags \in {<<{}, {1}>>, <<{1}, {2}>>}, index \in {"ready", "narrow", "unusable"}}

Full == [actions |-> DefaultActions, policy |-> "report", fn |-> TRUE, model |-> "stored",
         parity |-> TRUE]

MCRequests ==
  {Full, [Full EXCEPT !.fn = FALSE],
   [Full EXCEPT !.actions = KnownActions, !.policy = "preserve_permanent"],
   [Full EXCEPT !.policy = "preserve_decay", !.parity = FALSE]}
=============================================================================
