----------------------------- MODULE MCDispatch -----------------------------
(* Dispatch for TLC: the methods of Client that send their own name, and the one
   that stops. *)
EXTENDS Dispatch

MCFaithful == Offered \ {"CycleStop", "GetMCodesAsync"}
MCStop == MCFaithful \cup {"CycleStop"}

(* Calls of clients of another version: an unknown request and notification, and
   arguments that do not fit. *)
MCNoForeign == {}
MCForeign == {Request("Probe", "nil"), Notify("Tool", "int"),
              Request("GetError", "string"), Notify("JogVel", "double")}

ASSUME ForeignAssumption == \A msg \in MCForeign : Refused(msg)
=============================================================================
