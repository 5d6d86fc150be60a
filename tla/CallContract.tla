---------------------------- MODULE CallContract ----------------------------
(***************************************************************************)
(* What one RemoteCall object (src/include/cncclient.h, class RemoteCall)  *)
(* promises to the thread that uses it: calls are made one at a time, an   *)
(* answer becomes readable only while its own call is the latest one, and  *)
(* it stays readable, unchanged, until the next call or ClearResponse.     *)
(***************************************************************************)
EXTENDS Naturals

VARIABLES
  call,     \* number of the latest call made with this object
  open,     \* TRUE: the latest call is not completed, a new one is refused
  answer    \* call whose answer GetResponse() returns; 0: HasResponse() is FALSE

contractVars == <<call, open, answer>>

ContractInit == call = 0 /\ open = FALSE /\ answer = 0

(* A new call: only when the one before is completed; its answer is gone. *)
Make == /\ open = FALSE
        /\ call' \in Nat /\ call' > call
        /\ open' = TRUE
        /\ answer' = 0

(* The answer of the latest call becomes readable, before the call is completed. *)
Publish == /\ open = TRUE
           /\ answer = 0
           /\ answer' = call
           /\ UNCHANGED <<call, open>>

(* The latest call completes: answered, failed or timed out. *)
Complete == /\ open = TRUE
            /\ open' = FALSE
            /\ UNCHANGED <<call, answer>>

(* The user discards the answer. *)
Discard == answer' = 0 /\ UNCHANGED <<call, open>>

ContractNext == Make \/ Publish \/ Complete \/ Discard

Contract == ContractInit /\ [][ContractNext]_contractVars
=============================================================================
