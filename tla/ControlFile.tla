----------------------------- MODULE ControlFile -----------------------------
(***************************************************************************)
(* What loading a file promises, whatever happens on its way to the        *)
(* server: the control gets a file at once, and it is the whole file of    *)
(* the client that loads it, unless the disk could not hold its end, or    *)
(* the client has been uploading it since before the server was started.   *)
(***************************************************************************)

CONSTANTS
  Clients,
  Whole     \* [Clients -> ...]: the blocks of the client's file

VARIABLES
  holds,    \* what the control has loaded, and whose file it is
  running,  \* the control runs it
  late      \* clients that go on with an upload to a server that has ended

vars == <<holds, running, late>>

None == [kind |-> "none", owner |-> {}, blocks |-> <<>>]
File(c) == [kind |-> "whole", owner |-> {c}, blocks |-> Whole[c]]
Cut(c) == [kind |-> "cut", owner |-> {c}, blocks |-> <<>>]
Left(c) == [kind |-> "left", owner |-> {c}, blocks |-> <<>>]

Init == holds = None /\ running = FALSE /\ late = {}

Load(c) ==
  /\ ~running
  /\ holds' \in {File(c), Cut(c)} \/ (c \in late /\ holds' = Left(c))
  /\ UNCHANGED running

Close == ~running /\ holds' = None /\ UNCHANGED running
Run == holds # None /\ running' = ~running /\ UNCHANGED holds
Forget == UNCHANGED <<holds, running>>

(* Only the end of the server makes clients late. *)
End == holds' = None /\ running' = FALSE /\ late' \subseteq Clients

Next ==
  \/ ((\E c \in Clients : Load(c)) \/ Close \/ Run \/ Forget) /\ late' \subseteq late
  \/ End

Spec == Init /\ [][Next]_vars
==============================================================================
