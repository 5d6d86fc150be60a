---------------------------- MODULE MCStatusPoll ----------------------------
(* StatusPoll for TLC: BusyUntilSeen over the states that can be asked for. *)
EXTENDS StatusPoll

mcIDLE == 3
mcMOVING == 4
mcRUNNING == 6

MCLevels == {mcMOVING, mcRUNNING}
MCMachineStates == {mcIDLE, mcRUNNING}
=============================================================================
