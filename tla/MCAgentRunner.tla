--------------------------- MODULE MCAgentRunner ---------------------------
(***************************************************************************)
(* Small instances of AgentRunner: the bounds of the configurations, and   *)
(* one that a configuration may add as a constraint.                       *)
(***************************************************************************)
EXTENDS AgentRunner

\* Bound: a response that is not streamed makes at most one call.
OneCallUnlessStreamed == mode = "whole" => Cardinality(Calls(current.parts)) <= 1
=============================================================================
