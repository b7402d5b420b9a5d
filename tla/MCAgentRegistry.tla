-------------------------- MODULE MCAgentRegistry --------------------------
(* Instance of AgentRegistry for TLC: a spawn key and names for the sessions,*)
(* which are interchangeable.                                                *)
EXTENDS AgentRegistry, TLC

CONSTANTS s1, s2, k1

Symmetry == Permutations(Sessions)
=============================================================================
