------------------------------ MODULE Dispatch ------------------------------
(***************************************************************************)
(* From a method of Client to a function of Server: the client names the   *)
(* function in a request or a notification (cncclient.cpp 528-812), the    *)
(* server looks the name up in the table its constructor has bound         *)
(* (cncserver.cpp 433-470), converts the arguments, calls the function and *)
(* answers (52-121, 165-383).  Exceptions come back as the error of an     *)
(* answer or as a notification (cncclient.cpp 179-211).                    *)
(*                                                                         *)
(* One connection, whose messages arrive in order; the tables do not       *)
(* change, so connections do not disturb each other.  Timeouts are in      *)
(* RemoteCall and FileUpload.                                              *)
(***************************************************************************)
EXTENDS Naturals, Sequences, FiniteSets, SequencesExt

CONSTANTS
  Methods,   \* methods of Client, and calls they make, that the user's program uses
  Foreign,   \* messages that a client of another version sends
  MaxCalls   \* bound: calls made

ASSUME BoundsAssumption == MaxCalls \in Nat

VARIABLES
  toServer,  \* messages under way to the server, oldest first
  toClient,  \* messages under way to the client, oldest first
  waiting,   \* answers the client waits for: "call" in Wait(), "poll" between two Poll()
  promised,  \* what the calls made so far stand for: a function of the server, or "none"
  executed,  \* what the server has called for each message it has served, or "none"
  failed     \* failures the client was told of

vars == <<toServer, toClient, waiting, promised, executed, failed>>

-----------------------------------------------------------------------------
(* The client's side: what each method sends. *)

Request(method, args) == [type |-> "request", method |-> method, args |-> args, by |-> "call"]
Notify(method, args) == [type |-> "notify", method |-> method, args |-> args, by |-> "nobody"]
Polled(method) == [Request(method, "nil") EXCEPT !.by = "poll"]

(* Notifications named like their method. *)
Flags == {"DrivesOn", "FeedHold", "BlockDelete", "SingleStep", "OptionalStop", "CycleStart"}
Factors == {"FeedOverride", "SpindleOverride", "RapidOverride"}

(* Requests named like their method, and those of LoadFile(), GetNextError(),
   GetNextMessage() and Poll(). *)
Named == {"Mdi", "SendInit", "LoadFile"}
Indexed == {"GetError", "GetMessage"}
Plain == {"GetGCodes", "GetMCodes"}
Polls == {"GetState", "Version"}

Sends(m) ==
  CASE m \in Flags -> Notify(m, "bool")
    [] m \in Factors -> Notify(m, "double")
    [] m = "CycleStop" -> Notify("CycleStart", "bool")
    [] m = "JogVel" -> Notify("JogVel", "Axes")
    [] m \in {"Home", "HomeAll"} -> Notify("Home", "BoolAxes")
    [] m \in Named -> Request(m, "string")
    [] m = "SendData" -> Request(m, "string, int")
    [] m \in Indexed -> Request(m, "unsigned")
    [] m \in Plain -> Request(m, "nil")
    [] m \in Polls -> Polled(m)
    [] m = "CloseFile" -> Request(m, "int")
    [] m = "Ping" -> Request("Version", "int")
    [] m = "GetGCodesAsync" -> Request("GetGCodes", "nil")
    [] m = "GetMCodesAsync" -> Request("GetGCodes", "nil")

Offered ==
  UNION {Flags, Factors, Named, Indexed, Plain, Polls,
         {"CycleStop", "JogVel", "Home", "HomeAll", "SendData", "CloseFile", "Ping",
          "GetGCodesAsync", "GetMCodesAsync"}}

(* A message is a request, which somebody waits for, or a notification. *)
IsMessage(msg) ==
  /\ msg.by \in {"call", "poll", "nobody"}
  /\ msg.type = IF msg.by = "nobody" THEN "notify" ELSE "request"

ASSUME MethodsAssumption == Methods \subseteq Offered /\ \A msg \in Foreign : IsMessage(msg)

(* What the documentation of the method promises: the server's function of the
   same name, or the one named here. *)
StandsFor(m) ==
  CASE m = "HomeAll" -> "Home"
    [] m = "Ping" -> "Version"
    [] m = "GetGCodesAsync" -> "GetGCodes"
    [] m = "GetMCodesAsync" -> "GetMCodes"
    [] m = "GetState" -> "GetState_"
    [] OTHER -> m

(* A call waits for its answer before the program goes on; Poll() sends a request
   when the last one is answered. *)
Send(msg) ==
  /\ "call" \notin waiting /\ msg.by \notin waiting
  /\ Len(promised) < MaxCalls
  /\ toServer' = Append(toServer, msg)
  /\ waiting' = waiting \cup ({msg.by} \ {"nobody"})
  /\ UNCHANGED <<toClient, executed, failed>>

Call(m) ==
  /\ Send(Sends(m))
  /\ promised' = Append(promised, StandsFor(m))

(* A client of another version calls what this server may not have. *)
CallForeign(msg) ==
  /\ Send(msg)
  /\ promised' = Append(promised, "none")

-----------------------------------------------------------------------------
(* The server's side. *)

(* The constructor binds each function as a request or a notification handler,
   for the arguments it takes. *)
Bind(type, takes, functions) ==
  {[type |-> type, takes |-> takes, function |-> f] : f \in functions}

Handlers == UNION {
  Bind("request", "nil", {"GetState_", "CloseFile", "GetGCodes", "GetMCodes", "Version", "GetPreview"}),
  Bind("request", "string", {"Mdi", "LoadFile", "SendInit"}),
  Bind("request", "unsigned", {"GetOffset", "GetError", "GetMessage"}),
  Bind("request", "int", {"StartPreview"}),
  Bind("request", "string, int", {"SendData"}),
  Bind("notify", "nil", {"CycleStart", "CycleStop", "EndPreview"}),
  Bind("notify", "bool", {"DrivesOn", "FeedHold", "BlockDelete", "SingleStep", "OptionalStop"}),
  Bind("notify", "double", Factors),
  Bind("notify", "Axes", {"JogVel"}),
  Bind("notify", "Axes, double", {"JogStep"}),
  Bind("notify", "BoolAxes", {"Home"})}

(* SetName(): a trailing underscore is not part of the name. *)
MutantSetName(f) == f
SetName(f) == IF f = "GetState_" THEN "GetState" ELSE f

(* The handlers found for a message. *)
Found(msg) == {h \in Handlers : h.type = msg.type /\ SetName(h.function) = msg.method}

(* params.as<P>(): a function without arguments does not look at them; an index
   that is not negative is as good signed as unsigned. *)
Converts(args, takes) ==
  takes \in {"nil", args} \/ (takes = "unsigned" /\ args = "int")

(* Of no use to this server: it has no such function, or other arguments. *)
Refused(msg) == \A h \in Found(msg) : ~Converts(msg.args, h.takes)

(* The server's answer: to a request always one, to a notification the exception
   only, which is sent as a notification, too. *)
MutantResponse(msg, result) == [type |-> "response", to |-> msg.method, result |-> result]
Response(msg, result) == [type |-> "response", to |-> msg.by, result |-> result]
Exception(result) == [type |-> "notify", to |-> "nobody", result |-> result]

MutantAnswer(msg, result) ==
  IF msg.type = "request" /\ result = "done" THEN <<Response(msg, result)>>
  ELSE IF result = "done" THEN <<>>
  ELSE <<Exception(result)>>

Answer(msg, result) ==
  IF msg.type = "request" THEN <<Response(msg, result)>>
  ELSE IF result = "done" THEN <<>>
  ELSE <<Exception(result)>>

(* OnMessage(), lines 68 and 105: "Function not found". *)
ServeUnknown(msg) ==
  /\ Found(msg) = {}
  /\ toClient' = toClient \o Answer(msg, "unknown")
  /\ executed' = Append(executed, "none")

(* Execute(): "Invalid arguments". *)
ServeMisfit(msg) ==
  /\ \E h \in Found(msg) : ~Converts(msg.args, h.takes)
  /\ toClient' = toClient \o Answer(msg, "arguments")
  /\ executed' = Append(executed, "none")

(* Execute(): the function is called, and may throw. *)
ServeCall(msg) ==
  \E h \in Found(msg) :
    /\ Converts(msg.args, h.takes)
    /\ executed' = Append(executed, h.function)
    /\ \E result \in {"done", "thrown"} : toClient' = toClient \o Answer(msg, result)

Serve ==
  /\ toServer # <<>>
  /\ ServeUnknown(Head(toServer)) \/ ServeMisfit(Head(toServer)) \/ ServeCall(Head(toServer))
  /\ toServer' = Tail(toServer)
  /\ UNCHANGED <<waiting, promised, failed>>

(* The client takes an answer, or OnRemoteException() is called. *)
Deliver ==
  LET msg == Head(toClient) IN
  /\ toClient # <<>>
  /\ toClient' = Tail(toClient)
  /\ waiting' = waiting \ {msg.to}
  /\ failed' = failed \cup ({msg.result} \ {"done"})
  /\ UNCHANGED <<toServer, promised, executed>>

-----------------------------------------------------------------------------
Init ==
  /\ toServer = <<>> /\ toClient = <<>> /\ waiting = {}
  /\ promised = <<>> /\ executed = <<>> /\ failed = {}

Next ==
  \/ \E m \in Methods : Call(m)
  \/ \E msg \in Foreign : CallForeign(msg)
  \/ Serve \/ Deliver

Spec == Init /\ [][Next]_vars

-----------------------------------------------------------------------------
Results == {"done", "thrown", "unknown", "arguments"}

(* Type invariant. *)
TypeOK ==
  /\ toServer \in Seq({Sends(m) : m \in Methods} \cup Foreign)
  /\ toClient \in Seq([type : {"response", "notify"}, to : {"call", "poll", "nobody"}, result : Results])
  /\ waiting \subseteq {"call", "poll"} /\ failed \subseteq Results \ {"done"}
  /\ promised \in Seq({StandsFor(m) : m \in Methods} \cup {"none"})
  /\ executed \in Seq({h.function : h \in Handlers} \cup {"none"})

(* The server calls the functions that the client's calls stand for, each once
   and in their order, and none for a message that it does not know: names and
   arguments of the two sides agree.  Not so for
   CycleStop(), "Stop execution" (cncclient.h:222), which sends "CycleStart", nor for
   GetMCodes(RemoteCall&), "Async version of GetMCodes" (cncclient.h:263), which sends
   "GetGCodes"; the passing run leaves them out. *)
ExecutesAsPromised ==
  /\ IsPrefix(executed, promised)
  /\ toServer = <<>> => executed = promised

(* For what the client waits, one request or one answer is under way, and no
   answer comes that nobody waits for: whatever goes wrong in the server, the
   client is told. *)
AnswerComes ==
  \A w \in {"call", "poll"} :
    LET requests == {i \in DOMAIN toServer : toServer[i].by = w}
        answers == {i \in DOMAIN toClient : toClient[i].to = w}
    IN Cardinality(requests) + Cardinality(answers) = IF w \in waiting THEN 1 ELSE 0
=============================================================================
