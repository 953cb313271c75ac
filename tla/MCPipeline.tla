----------------------------- MODULE MCPipeline -----------------------------
(***************************************************************************)
(* A TLC instance of Pipeline.                                             *)
(***************************************************************************)
EXTENDS Pipeline, TLC

\* A database with a chain of before.
OneChain == {<<Msg(t, "calls", 1), Msg(t, "tool", 1)>> : t \in Earlier}

\* Turns are interchangeable, and so are peers.
TurnSymmetry == Permutations(Turns) \cup Permutations(Peers)
=============================================================================
