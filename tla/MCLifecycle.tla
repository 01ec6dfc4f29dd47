---------------------------- MODULE MCLifecycle ----------------------------
(* Small instances of SyncLifecycle: two host threads race initialize() and   *)
(* shutdown() of one provider over two generations.                           *)
EXTENDS SyncLifecycle, TLC

Threads == Permutations(Caller) \cup Permutations(Cleaner)
=============================================================================
