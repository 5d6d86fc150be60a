--------------------------- MODULE ErrorBroadcast ---------------------------
(***************************************************************************)
(* What the error log promises to those who look at it with                *)
(* Client::GetNextError() (cncclient.h 265-267): each client is shown the  *)
(* errors one by one in the order in which they were logged, none of them  *)
(* twice.  Only a list that was emptied may make it leave errors out, or   *)
(* show an empty string for one.                                           *)
(***************************************************************************)
EXTENDS Naturals, Sequences

CONSTANT Clients

VARIABLES
  logged,   \* errors are numbered 1 .. logged
  shown,    \* per client: what it has shown so far; 0: empty string
  whole     \* no list has been emptied yet

vars == <<logged, shown, whole>>

Init == logged = 0 /\ shown = [c \in Clients |-> <<>>] /\ whole = TRUE

Log == logged' = logged + 1 /\ UNCHANGED <<shown, whole>>

(* The next error; a later one only after a list was emptied.              *)
Show(c) ==
  \E error \in 1 .. logged :
    /\ \A i \in DOMAIN shown[c] : shown[c][i] < error
    /\ whole => error = Len(shown[c]) + 1
    /\ shown' = [shown EXCEPT ![c] = Append(@, error)]
    /\ UNCHANGED <<logged, whole>>

ShowNothing(c) ==
  /\ ~whole
  /\ shown' = [shown EXCEPT ![c] = Append(@, 0)]
  /\ UNCHANGED <<logged, whole>>

Empty == whole' = FALSE /\ UNCHANGED <<logged, shown>>

Next == Log \/ Empty \/ \E c \in Clients : Show(c) \/ ShowNothing(c)

Spec == Init /\ [][Next]_vars
=============================================================================
