---------------------------- MODULE MCRemoteCall ----------------------------
(* RemoteCall for TLC: one object of each kind, and the contract that an     *)
(* object which outlives its calls keeps.                                    *)
EXTENDS RemoteCall

CONSTANTS member, local

MCObjects == {member, local}
MCStack == {local}

Member == INSTANCE CallContract WITH
  call <- current[member],
  open <- busy[member],
  answer <- IF hasResponse[member] THEN response[member] ELSE 0

(* A RemoteCall that outlives its calls implements CallContract: the network
   thread's unlocked writes keep to the order that its user relies on. *)
KeepsContract == Member!Contract
=============================================================================
