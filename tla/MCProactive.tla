---------------------------- MODULE MCProactive ----------------------------
(***************************************************************************)
(* TLC instances of Proactive.                                             *)
(***************************************************************************)
EXTENDS Proactive

CONSTANTS ann, bob, k1

\* Open from one to two, besides a window across midnight; and that one alone.
TwoSettings == {{<<1, 2>>, <<3, 0>>}, {<<3, 0>>}}
=============================================================================
