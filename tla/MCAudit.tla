------------------------------ MODULE MCAudit ------------------------------
(* Small profiles: at most one defect, and one that exceeds a budget. With a  *)
(* row in each table both passes fit in the budget, with two they do not.     *)
EXTENDS IntegrityAudit

Sized(n, d) == [rows |-> n, large |-> FALSE, defects |-> d]

MCProfiles ==
  {Sized(1, d) : d \in {x \in SUBSET Defects : Cardinality(x) <= 1}}
  \cup {Sized(2, {}), [Sized(1, {}) EXCEPT !.large = TRUE]}

Healthy == {Sized(1, {})}
=============================================================================
