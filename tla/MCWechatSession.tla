-------------------------- MODULE MCWechatSession --------------------------
(***************************************************************************)
(* TLC instances of WechatSession.                                         *)
(***************************************************************************)
EXTENDS WechatSession

CONSTANTS u1, u2, k1, k2
=============================================================================
