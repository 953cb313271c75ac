--------------------------- MODULE MCRetryBreaker ---------------------------
(***************************************************************************)
(* TLC instances of RetryBreaker.                                          *)
(***************************************************************************)
EXTENDS RetryBreaker, TLC

\* Requests below the lower clamp and above the upper one.
MCAskedRetries == {0, AttemptCap + 1}

RequestSymmetry == Permutations(Requests)
=============================================================================
