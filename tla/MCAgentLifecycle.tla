-------------------------- MODULE MCAgentLifecycle --------------------------
(* A small instance of AgentLifecycle: two calls of startAgent at a time. *)
EXTENDS AgentLifecycle, TLC

CONSTANTS c1, c2

MCCalls == {c1, c2}
MCSymmetry == Permutations(MCCalls)
=============================================================================
