------------------------------ MODULE MCWarm ------------------------------
(* Two sessions, two runtimes whose callables compete for one permit.        *)
EXTENDS WarmRecall

MCAskers == {"sync", "warm"}
MCSessions == {"s1", "s2"}
=============================================================================
