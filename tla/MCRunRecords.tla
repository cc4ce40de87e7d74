---------------------------- MODULE MCRunRecords ----------------------------
(***************************************************************************)
(* Three candidates that execute: one of the plain suite, one without a    *)
(* chat template, one measured with deployment checks of which its plan    *)
(* serves one.  One more the envelope does not permit, and one whose       *)
(* planning already failed.  All but the last share a row of the table.    *)
(***************************************************************************)
EXTENDS Findings

CONSTANTS s1, s2, s3, s4, s5, c1, c2

MCPlans == <<s3, s4, s2, s1, s5>>
MCSuiteOf == [s \in {s1, s2, s3, s4, s5} |-> IF s = s5 THEN {c1, c2} ELSE {c1}]
MCRowOf == [s \in {s1, s2, s3, s4, s5} |-> IF s = s4 THEN 2 ELSE 1]
MCUnserved == [s \in {s1, s2, s3, s4, s5} |-> IF s = s5 THEN {c2} ELSE {}]
=============================================================================
