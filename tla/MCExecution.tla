----------------------------- MODULE MCExecution -----------------------------
(* Small instances of ExecutiveExecution for TLC: one delegation of two      *)
(* children with agents of their own, for which two executions compete; or   *)
(* that and another one, with a single child, which needs an agent of the    *)
(* first.                                                                    *)
EXTENDS ExecutiveExecution

CONSTANTS t1, t2, t3, d1, d2, a1, a2, e1, e2, k1

OneDelegation == [x \in Task \cup Execution |-> d1]
OwnAgents == [t \in Task |-> IF t = t1 THEN a1 ELSE a2]

TwoDelegations == [x \in Task \cup Execution |-> IF x \in {t3, e2} THEN d2 ELSE d1]
SharedAgent == [t \in Task |-> IF t = t1 THEN a1 ELSE a2]
==============================================================================
