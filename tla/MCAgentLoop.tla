---------------------------- MODULE MCAgentLoop ----------------------------
(***************************************************************************)
(* TLC instances of AgentLoop.                                             *)
(***************************************************************************)
EXTENDS AgentLoop, TLC

\* Requests below, at and above the clamp.
MCStepRequests == {0, MaxStepsCap + 1}
MCRoundRequests == {0, MaxToolRoundsCap + 1}

MCSingleStep == {1}
MCNoRounds == {0}

\* Loop ids are interchangeable in the runs that check safety only.
LoopSymmetry == Permutations(LoopIds)
=============================================================================
