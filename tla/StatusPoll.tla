----------------------------- MODULE StatusPoll -----------------------------
(***************************************************************************)
(* How a Client (src/src/cncclient.cpp) follows the machine: the GUI       *)
(* thread calls Poll() and sends commands, the network thread of "linear"  *)
(* runs the callbacks of the status call and of the connection, and none   *)
(* of them takes a lock.                                                   *)
(*                                                                         *)
(* Every command that may move the machine raises m_statusCache, so that   *)
(* IsBusy() holds although the states received for a while are older than  *)
(* the command.  linear and TCP keep the order of one socket's messages:   *)
(* the state sent for a request shows every command sent before it.        *)
(***************************************************************************)
EXTENDS Integers

CONSTANTS
  Levels,           \* machine states a command may raise the cache to
  MachineStates,    \* machine states a server reports
  Versions,         \* protocol versions of the servers that may run
  MinVersion,       \* CNCREMOTE_MIN_PROTOCOL_VERSION
  Garbage,          \* values an uninitialised counter may have
  MaxCommands,      \* bound: commands sent
  MaxConnections    \* bound: connections made

NO_SERVER == 0      \* mcNO_SERVER

ASSUME StatesAssumption ==
  /\ Levels \subseteq Nat /\ MachineStates \subseteq Nat /\ Garbage \subseteq Nat
  /\ Versions \subseteq Nat \ {0}
ASSUME BoundsAssumption == MaxCommands \in Nat /\ MaxConnections \in Nat /\ MinVersion \in Nat

VARIABLES
  poll,          \* where the GUI thread is in Poll(); "out": not in it
  version,       \* Poll()'s local: the version just received
  busy,          \* m_StatusCall.m_busy
  answer,        \* m_StatusCall's readable response; NoAnswer: HasResponse() is FALSE
  request,       \* the request that linear holds for m_StatusCall, or NoRequest
  net,           \* what the network thread does next; "idle": no callback runs
  up,            \* the socket is CONNECTED
  connection,    \* number of the latest connection
  retries,       \* Handler::m_retries, as far as OnDisconnect tells it apart: 0 or more
  server,        \* protocol version of the server of the connection
  serverVer,     \* m_serverVer: 0 not known, -1 too old
  machineState,  \* m_state.machineState
  cache,         \* m_statusCache
  lag,           \* m_busyHeart - m_heartBeat, 0 when that is negative
  issued,        \* commands sent
  owed,          \* highest level of the commands no stored state shows yet
  greeted,       \* number of the connection that OnConnect() was last called in
  reported,      \* losses of the connection told by OnDisConnect()
  torn           \* a step of Poll() fell between the writes of OnResponse()

callVars == <<busy, answer, request>>
linkVars == <<up, connection, retries, server>>
toldVars == <<greeted, reported>>
cacheVars == <<cache, lag, issued, owed>>
vars == <<torn, poll, version, callVars, net, linkVars, toldVars, serverVer, machineState, cacheVars>>

Kinds == {"none", "Version", "GetState"}
NoRequest == [kind |-> "none", conn |-> 0, after |-> 0]
NoAnswer == [kind |-> "none", value |-> 0, after |-> 0]

Maximum(a, b) == IF a >= b THEN a ELSE b

-----------------------------------------------------------------------------
(* The constructor sets neither m_statusCache nor the two heartbeats; Connect()
   has been called and the socket is connecting. *)
Init ==
  /\ poll = "out" /\ version = 0
  /\ busy = FALSE /\ answer = NoAnswer /\ request = NoRequest
  /\ net = "idle" /\ up = FALSE /\ connection = 0 /\ retries = 1
  /\ server \in Versions
  /\ serverVer = 0 /\ machineState = NO_SERVER
  /\ cache \in Garbage /\ lag \in Garbage
  /\ issued = 0 /\ owed = 0
  /\ greeted = 0 /\ reported = 0 /\ torn = FALSE

-----------------------------------------------------------------------------
(* The GUI thread. *)

(* A command that may move the machine (JogVel, CycleStart, Home, HomeAll; Mdi
   once it is answered): sent, then SetBusy().  Nothing happens when Send
   fails, as it does on a socket that is not connected. *)
MutantSetBusy(level) ==   \* m_busyHeart = m_heartBeat
  /\ cache' = Maximum(cache, level)
  /\ lag' = 0

SetBusy(level) ==
  /\ cache' = Maximum(cache, level)
  /\ lag' = 1

Command(level) ==
  /\ poll = "out" /\ up
  /\ issued < MaxCommands
  /\ issued' = issued + 1
  /\ owed' = Maximum(owed, level)
  /\ SetBusy(level)
  /\ UNCHANGED <<torn, poll, version, callVars, net, linkVars, toldVars, serverVer, machineState>>

(* Every step of Poll() may fall between OnResponse()'s writes. *)
PollStep == torn' = (torn \/ net = "answered")

(* Poll() begins: connected, and the version of the server is wanted, too old
   or accepted. *)
Poll ==
  /\ PollStep
  /\ poll = "out" /\ up
  /\ serverVer >= 0
  /\ poll' = IF serverVer = 0 THEN "version" ELSE "state"
  /\ UNCHANGED <<version, callVars, net, linkVars, toldVars, serverVer, machineState, cacheVars>>

(* Lines 425-437: a version has come; OnConnect() or OnIncorrectVersion() is
   called.  A state left from before does not convert to a float: ignored. *)
ReadVersion ==
  /\ PollStep
  /\ poll = "version"
  /\ IF answer.kind = "Version"
     THEN /\ poll' = "accept"
          /\ version' = answer.value
          /\ greeted' = IF answer.value < MinVersion THEN greeted ELSE connection
     ELSE poll' = "ask" /\ UNCHANGED <<version, greeted>>
  /\ UNCHANGED <<callVars, net, linkVars, reported, serverVer, machineState, cacheVars>>

(* Lines 433-440: m_serverVer, then ClearResponse(). *)
MutantAcceptVersion ==   \* m_serverVer is not set
  /\ PollStep
  /\ poll = "accept"
  /\ answer' = NoAnswer
  /\ poll' = "ask"
  /\ UNCHANGED <<version, busy, request, net, linkVars, toldVars, serverVer, machineState, cacheVars>>

AcceptVersion ==
  /\ PollStep
  /\ poll = "accept"
  /\ serverVer' = IF version < MinVersion THEN -1 ELSE version
  /\ answer' = NoAnswer
  /\ poll' = "ask"
  /\ UNCHANGED <<version, busy, request, net, linkVars, toldVars, machineState, cacheVars>>

(* CallAsync() on m_StatusCall, not busy.  On a lost connection Send fails and
   the exception is swallowed, with m_busy set. *)
MutantSend(kind) ==   \* m_hasResponse is left set
  /\ busy' = TRUE
  /\ answer' = answer
  /\ request' = IF up THEN [kind |-> kind, conn |-> connection, after |-> issued]
                      ELSE NoRequest

Send(kind) ==
  /\ busy' = TRUE
  /\ answer' = NoAnswer
  /\ request' = IF up THEN [kind |-> kind, conn |-> connection, after |-> issued]
                      ELSE NoRequest

(* Lines 446-456. *)
AskVersion ==
  /\ PollStep
  /\ poll = "ask"
  /\ IF ~busy /\ serverVer = 0 THEN Send("Version") ELSE UNCHANGED callVars
  /\ poll' = "out"
  /\ UNCHANGED <<version, net, linkVars, toldVars, serverVer, machineState, cacheVars>>

(* Lines 463-478: the state is stored, the cache expires.  The response is not
   cleared: CallAsync() does that, if it is reached. *)
MutantExpire ==   \* m_heartBeat is not incremented
  /\ cache' = IF lag = 0 THEN 0 ELSE cache
  /\ lag' = lag

Expire ==
  /\ cache' = IF lag = 0 THEN 0 ELSE cache
  /\ lag' = Maximum(lag - 1, 0)

StoreState ==
  /\ PollStep
  /\ poll = "state"
  /\ poll' = "next"
  /\ IF answer.kind = "GetState"
     THEN /\ machineState' = answer.value
          /\ Expire
          /\ owed' = IF answer.after = issued THEN 0 ELSE owed
     ELSE UNCHANGED <<machineState, cache, lag, owed>>
  /\ UNCHANGED <<version, callVars, net, linkVars, toldVars, serverVer, issued>>

(* Lines 479-491. *)
AskState ==
  /\ PollStep
  /\ poll = "next"
  /\ IF ~busy THEN Send("GetState") ELSE UNCHANGED callVars
  /\ poll' = "out"
  /\ UNCHANGED <<version, net, linkVars, toldVars, serverVer, machineState, cacheVars>>

-----------------------------------------------------------------------------
(* The network thread: one callback at a time. *)

(* OnResponse() up to m_hasResponse = true; the server has answered. *)
Respond(value) ==
  /\ net = "idle" /\ up
  /\ request.kind # "none" /\ request.conn = connection
  /\ answer' = [kind |-> request.kind, value |-> value, after |-> request.after]
  /\ request' = NoRequest
  /\ net' = "answered"
  /\ UNCHANGED <<torn, poll, version, busy, linkVars, toldVars, serverVer, machineState, cacheVars>>

OnResponse ==
  \/ request.kind = "Version" /\ Respond(server)
  \/ request.kind = "GetState" /\ \E s \in MachineStates : Respond(s)

(* OnError(): a timeout, or the connection is lost.  m_error is not used here. *)
OnError ==
  /\ net = "idle"
  /\ request.kind # "none"
  /\ request' = NoRequest
  /\ net' = "failed"
  /\ UNCHANGED <<torn, poll, version, busy, answer, linkVars, toldVars, serverVer, machineState, cacheVars>>

(* Both: m_busy = false. *)
CallbackEnds ==
  /\ net \in {"answered", "failed"}
  /\ busy' = FALSE
  /\ net' = "idle"
  /\ UNCHANGED <<torn, poll, version, answer, request, linkVars, toldVars, serverVer, machineState, cacheVars>>

(* The (re)connection succeeds: Handler::OnConnect().  Another server may have
   been started meanwhile. *)
MutantOnConnect ==   \* m_retries is not reset
  /\ net = "idle" /\ ~up
  /\ connection < MaxConnections
  /\ up' = TRUE
  /\ connection' = connection + 1
  /\ server' \in Versions
  /\ UNCHANGED <<torn, poll, version, callVars, net, retries, toldVars, serverVer, machineState, cacheVars>>

OnConnect ==
  /\ net = "idle" /\ ~up
  /\ connection < MaxConnections
  /\ up' = TRUE
  /\ connection' = connection + 1
  /\ retries' = 0
  /\ server' \in Versions
  /\ UNCHANGED <<torn, poll, version, callVars, net, toldVars, serverVer, machineState, cacheVars>>

(* The socket is disconnected, or fails to connect: Handler::OnDisconnect(),
   which calls OnDisConnect2() when it is the first time in a row, and starts
   the timer of the next attempt. *)
MutantOnDisconnect ==   \* m_retries is counted without a limit
  /\ net = "idle"
  /\ up' = FALSE
  /\ net' = IF retries = 0 THEN "forget" ELSE "idle"
  /\ retries' = retries + 1
  /\ UNCHANGED <<torn, poll, version, callVars, connection, server, toldVars, serverVer,
                 machineState, cacheVars>>

OnDisconnect ==
  /\ net = "idle"
  /\ up' = FALSE
  /\ net' = IF retries = 0 THEN "forget" ELSE "idle"
  /\ retries' = 1
  /\ UNCHANGED <<torn, poll, version, callVars, connection, server, toldVars, serverVer,
                 machineState, cacheVars>>

(* OnDisConnect2(): m_serverVer, m_state, the user's OnDisConnect(). *)
ForgetVersion ==
  /\ net = "forget"
  /\ serverVer' = 0
  /\ net' = "forgotten"
  /\ UNCHANGED <<torn, poll, version, callVars, linkVars, toldVars, machineState, cacheVars>>

ForgetState ==
  /\ net = "forgotten"
  /\ machineState' = NO_SERVER
  /\ reported' = reported + 1
  /\ net' = "idle"
  /\ UNCHANGED <<torn, poll, version, callVars, linkVars, greeted, serverVer, cacheVars>>

-----------------------------------------------------------------------------
Gui == \/ \E level \in Levels : Command(level)
       \/ Poll \/ ReadVersion \/ AcceptVersion \/ AskVersion \/ StoreState \/ AskState

Network == \/ OnResponse \/ OnError \/ CallbackEnds
           \/ OnConnect \/ OnDisconnect \/ ForgetVersion \/ ForgetState

Next == Gui \/ Network

Spec == Init /\ [][Next]_vars

(* The GUI keeps calling Poll(), the network thread runs its callbacks, and
   while the server is reachable a request is answered in time again and again
   (GetState_ and Version do not wait for the machine), not each time within
   the microseconds that a Poll() takes. *)
FairSpec ==
  /\ Spec
  /\ WF_vars(Poll) /\ WF_vars(ReadVersion) /\ WF_vars(AcceptVersion)
  /\ WF_vars(AskVersion) /\ WF_vars(StoreState) /\ WF_vars(AskState)
  /\ WF_vars(OnError) /\ WF_vars(CallbackEnds) /\ SF_vars(OnResponse /\ poll = "out")
  /\ WF_vars(ForgetVersion) /\ WF_vars(ForgetState)

-----------------------------------------------------------------------------
(* Client::IsBusy(). *)
IsBusy(state) ==
  \/ ~up
  \/ IF cache > machineState THEN cache > state ELSE machineState > state

(* A request that failed to be sent: m_StatusCall is busy for ever. *)
Stuck == busy /\ request.kind = "none" /\ net \notin {"answered", "failed"}

(* Type invariant. *)
TypeOK ==
  /\ poll \in {"out", "version", "accept", "ask", "state", "next"}
  /\ version \in Nat
  /\ busy \in BOOLEAN
  /\ answer \in [kind : Kinds, value : Nat, after : 0 .. MaxCommands]
  /\ request \in [kind : Kinds, conn : 0 .. MaxConnections, after : 0 .. MaxCommands]
  /\ net \in {"idle", "answered", "failed", "forget", "forgotten"}
  /\ up \in BOOLEAN /\ connection \in 0 .. MaxConnections /\ retries \in {0, 1}
  /\ server \in Versions
  /\ greeted \in 0 .. MaxConnections /\ reported \in 0 .. MaxConnections
  /\ serverVer \in Int
  /\ machineState \in Nat
  /\ cache \in Nat /\ lag \in Nat
  /\ issued \in 0 .. MaxCommands /\ owed \in Nat /\ torn \in BOOLEAN

(* After a command the client reports the machine as busy, at the command's
   level, until it holds a state that was asked for after the command: the
   response already under way when the command is sent does not end it, nor do
   lost connections, failed requests or a garbage heartbeat.  Unless Poll() was
   between the writes of OnResponse() once: the next Poll() stores the same
   response again and counts it as two. *)
Covered == \A state \in 0 .. owed - 1 : IsBusy(state)
BusyUntilSeen == torn \/ Covered

(* The user is told of each loss of the connection once: not of the failed
   attempts to connect before it nor of those after it. *)
LossesReported ==
  net = "idle" => reported = connection - (IF up THEN 1 ELSE 0)

(* The user's OnConnect() is called at most once in a connection. *)
GreetedOnce ==
  [][poll = "version" /\ poll' = "accept" /\ version' >= MinVersion => greeted < connection]_vars

(* The status call's answer is not read as the kind it is not: once the version
   is accepted, no Version answer is left for Poll() to take for a state, and
   m_StatusCall holds at most one request or answer in flight. *)
OneRequest ==
  /\ request.kind # "none" => busy /\ answer.kind = "none"
  /\ poll = "state" => answer.kind # "Version"

(* Once no command is sent any more the cache expires: the machine is not
   reported busy for ever, unless the connection is lost, the server is too old
   or m_StatusCall is stuck. *)
BusyExpires ==
  (up /\ cache > 0) ~> (cache = 0 \/ ~up \/ serverVer < 0 \/ Stuck)

-----------------------------------------------------------------------------
(* What a comment says and the code does not do. *)

(* Poll(): "Call at least as often as you need to send/receive data"
   (cncclient.h:201): while the connection lasts, polling brings states. *)
PollingBringsStates ==
  <>[](up /\ serverVer >= 0) => []<><<StoreState /\ answer.kind = "GetState">>_vars
=============================================================================
