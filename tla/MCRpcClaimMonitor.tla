-------------------------- MODULE MCRpcClaimMonitor --------------------------
(* Two transactions; with two programs, a mentions both and b only the first,
   so that a is found twice. *)
EXTENDS RpcClaimMonitor, TLC

CONSTANTS a, b

MCTouches == [p \in Program |-> IF p = 1 THEN Sig ELSE {a}]
=============================================================================
