---------------------------- MODULE MCAdmission ----------------------------
(* The argument combinations the plugin uses: provider operations and sleep   *)
(* (graph and cache, shared or exclusive), journal bootstrap (graph alone and *)
(* cache alone, exclusive), the audit (graph alone, shared), direct embedding *)
(* (cache alone, cache_exclusive).                                            *)
EXTENDS OperationAdmission

CONSTANTS t1, t2, idA, idB

\* Two threads of two processes.
MCProcess == {{t1}, {t2}}

Args(g, c, x, cx, i) == [graph |-> g, cache |-> c, exclusive |-> x,
                         cacheExclusive |-> cx, identity |-> i]

MCRequests ==
  { Args(TRUE, TRUE, FALSE, FALSE, idA),
    Args(TRUE, TRUE, TRUE, TRUE, idA),
    Args(TRUE, TRUE, FALSE, FALSE, idB),
    Args(TRUE, FALSE, FALSE, FALSE, NoIdentity),
    Args(TRUE, FALSE, TRUE, FALSE, NoIdentity),
    Args(FALSE, TRUE, FALSE, TRUE, idA),
    Args(FALSE, TRUE, TRUE, FALSE, NoIdentity) }
=============================================================================
