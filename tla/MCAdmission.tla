---------------------------- MODULE MCAdmission ----------------------------
(* Constants of the Admission runs: "a" passes every policy, "b" only the  *)
(* first one, "c" none.                                                    *)
EXTENDS Admission

CONSTANTS p1, p2, a, b, c

MCAccepts == [v \in 1..MaxPolicies |-> IF v = 1 THEN {a, b} ELSE {a}]
=============================================================================
