---------------------------- MODULE MCAdmission ----------------------------
(***************************************************************************)
(* TLC instances of Admission.                                             *)
(***************************************************************************)
EXTENDS Admission

CONSTANTS day, week

TwoWindows == [p \in Periods |-> IF p = day THEN 0 ELSE 1]
TwoLimits == [p \in Periods |-> IF p = day THEN 1 ELSE 2]
=============================================================================
