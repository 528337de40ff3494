--------------------------- MODULE MCAgentHarness ---------------------------
(***************************************************************************)
(* AgentHarness for TLC: nothing but the values its configurations choose  *)
(* for the constant that is a set.                                         *)
(***************************************************************************)
EXTENDS AgentHarness

OneByOne == {}
SteerAll == {"steer"}
=============================================================================
