----------------------------- MODULE MCModbusLink -----------------------------
(* The sampler and the callback thread as the callers, for TLC. *)
EXTENDS ModbusLink

CONSTANTS sampler, callback
=============================================================================
