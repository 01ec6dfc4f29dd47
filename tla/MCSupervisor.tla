---------------------------- MODULE MCSupervisor ----------------------------
(* One generation and two threads that call encode(): the second may come while  *)
(* the request of a caller that gave up still owns the channel.                  *)
EXTENDS EmbeddingSupervisor, TLC

CONSTANTS s1, r1, r2
=============================================================================
