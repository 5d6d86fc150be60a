---------------------------- MODULE MCMessageLog ----------------------------
(* MessageLog for TLC: two clients. *)
EXTENDS MessageLog

CONSTANTS gui, pendant

MCClients == {gui, pendant}
=============================================================================
