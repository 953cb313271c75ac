------------------------- MODULE MCPluginRegistry -------------------------
(***************************************************************************)
(* TLC instances of PluginRegistry.                                        *)
(***************************************************************************)
EXTENDS PluginRegistry

CONSTANTS fa, fb, fc, a, b, t1, t2, h, a1, a2, b1, x1, c1, c2

MCNameOf == [f \in Files |-> IF f = fb THEN b ELSE a]
MCFileOf == [i \in Instances |-> IF i = b1 THEN fb ELSE IF i = x1 THEN fc ELSE fa]

\* One tool is offered by two plugins, one has the name of a host tool, and one file
\* is another version of a plugin and offers less.
MCOffers == [f \in Files |-> IF f = fa THEN {t1, t2} ELSE IF f = fb THEN {t2, h} ELSE {t2}]
=============================================================================
