--------------------------- MODULE MCMTConnectPoll ---------------------------
(* An instance of MTConnectPoll for TLC. *)
EXTENDS MTConnectPoll
=============================================================================
