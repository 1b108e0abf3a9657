-------------------------- MODULE MCFlowCollection --------------------------
(* Instances of FlowCollection for TLC, with any of the three adapters. *)
EXTENDS FlowCollection
=============================================================================
