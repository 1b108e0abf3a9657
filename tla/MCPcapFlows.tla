----------------------------- MODULE MCPcapFlows -----------------------------
(* An instance of PcapFlows for TLC. *)
EXTENDS PcapFlows

CONSTANTS a, b, c, modbus, s7

MCLabelLists == {{modbus}, {s7, Unknown}}
=============================================================================
