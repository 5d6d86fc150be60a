---------------------------- MODULE MCFileUpload ----------------------------
(* FileUpload for TLC: two clients with files of two blocks. *)
EXTENDS FileUpload, TLC

CONSTANTS first, second

MCClients == {first, second}
MCSymmetry == Permutations(MCClients)
MCBlocks == [c \in MCClients |-> 2]
=============================================================================
