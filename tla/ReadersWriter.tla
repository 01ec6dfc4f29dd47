---------------------------- MODULE ReadersWriter ----------------------------
(* What graph and cache admission promises to the code that runs under it:    *)
(* an operation enters with all the leases it asked for in one step, an       *)
(* exclusive lease excludes every other lease on the same store, and a lease  *)
(* keeps its mode until the operation leaves.                                 *)
EXTENDS Naturals

CONSTANTS Op,      \* operations that may run: one per thread of control
          Store    \* the stores that have a lock file

Modes == {"none", "sh", "ex"}

VARIABLE admitted   \* admitted[o][s]: the mode in which o holds store s

NoLease == [s \in Store |-> "none"]

TypeOK == admitted \in [Op -> [Store -> Modes]]

Compatible(m, n) == m = "none" \/ n = "none" \/ (m = "sh" /\ n = "sh")

Init == admitted = [o \in Op |-> NoLease]

Enter(o, lease) ==
  /\ admitted[o] = NoLease
  /\ lease # NoLease
  /\ \A p \in Op, s \in Store : Compatible(lease[s], admitted[p][s])
  /\ admitted' = [admitted EXCEPT ![o] = lease]

(* Several operations leave at once when their process dies.                  *)
Leave(P) ==
  admitted' = [o \in Op |-> IF o \in P THEN NoLease ELSE admitted[o]]

Next ==
  \/ \E o \in Op, lease \in [Store -> Modes] : Enter(o, lease)
  \/ \E P \in SUBSET Op : Leave(P)

Spec == Init /\ [][Next]_admitted

(* A store held exclusively by one operation is held by no other.             *)
Exclusion ==
  \A o, p \in Op : o # p =>
    \A s \in Store : Compatible(admitted[o][s], admitted[p][s])
=============================================================================
