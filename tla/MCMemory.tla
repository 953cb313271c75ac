------------------------------ MODULE MCMemory ------------------------------
(***************************************************************************)
(* TLC instances of Memory.                                                *)
(***************************************************************************)
EXTENDS Memory

CONSTANTS ann, bob, tea, coffee

AFewFacts == [p \in Peers |-> IF p = ann THEN Facts ELSE {tea}]

\* Two failures of ann's extraction are seen, and one of bob's.
FewMessages == [p \in Peers |-> IF p = ann THEN 3 ELSE 2]
=============================================================================
