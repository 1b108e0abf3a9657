--------------------------- MODULE MCSampleChannel ---------------------------
(* Instances of SampleChannel for TLC. *)
EXTENDS SampleChannel
=============================================================================
