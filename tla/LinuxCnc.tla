------------------------------ MODULE LinuxCnc ------------------------------
(***************************************************************************)
(* The LinuxCNC server (drivers/linuxcnc/server).  Two threads share the   *)
(* object `machine': main() connects to LinuxCNC, polls it and disconnects *)
(* (main.cpp 148-162); the network thread runs the virtual functions that  *)
(* the clients call, each under m_syncLock.  LinuxCNC starts, dies and     *)
(* stops jogging by itself.                                                *)
(*                                                                         *)
(* A function is the list of messages it passes to CommandSend(), one      *)
(* message a step.  A state other than mcOFFLINE is "ONLINE", and of       *)
(* LinuxCNC's state only the task mode and the jogging are kept: it may    *)
(* refuse a mode or a jog.  The messages it logs are in MessageLog.        *)
(***************************************************************************)
EXTENDS Integers, Sequences

CONSTANTS
  MaxAxes,   \* MAX_AXES
  Speeds     \* jog velocities that the clients ask for; 0 stops

ASSUME MaxAxesAssumption == MaxAxes \in Nat
ASSUME SpeedsAssumption == Speeds \subseteq Int /\ 0 \in Speeds

Axis == 1 .. MaxAxes
Modes == {"MANUAL", "AUTO", "MDI"}
Still == [a \in Axis |-> 0]

VARIABLES
  cnc,       \* LinuxCNC: "down", "starting" or "up"
  mode,      \* its task mode
  jog,       \* per axis: the velocity it jogs at for this server
  pc,        \* where main() is
  status,    \* m_emcStatus, m_emcStatusBuffer and m_emcCommandBuffer are set
  error,     \* m_emcErrorBuffer is set
  live,      \* the buffers are those of the LinuxCNC that runs
  beaten,    \* m_emcStatus->task.heartbeat # m_heartbeat
  due,       \* time(NULL) > m_nextTime
  todo,      \* messages the network thread still sends; not empty: m_syncLock is held
  cache,     \* g_jogAxes
  reported,  \* m_state.machineState
  broken,    \* the server has crashed
  lost,      \* per axis: its last jog message did not reach LinuxCNC
  request,   \* per axis: the velocity the last JogVel() asked for
  sure       \* CommandSend() has not failed in the last JogVel()

linuxCnc == <<cnc, mode, jog>>
clock == <<beaten, due>>
link == <<status, error, live>>
jogging == <<cache, lost, request, sure>>
vars == <<linuxCnc, pc, link, clock, todo, jogging, reported, broken>>

Init ==
  /\ cnc = "down" /\ mode = "MANUAL" /\ jog = Still
  /\ pc = "status" /\ status = FALSE /\ error = FALSE /\ live = FALSE
  /\ beaten = FALSE /\ due = TRUE
  /\ todo = <<>> /\ cache = Still /\ reported = "NO_SERVER" /\ broken = FALSE
  /\ lost = [a \in Axis |-> FALSE] /\ request = Still /\ sure = FALSE

-----------------------------------------------------------------------------
(* LinuxCNC and the clock.                                                 *)

(* The heartbeat of a LinuxCNC that has just started may be any number. *)
Start ==
  /\ cnc = "down"
  /\ cnc' = "starting" /\ mode' = "MANUAL" /\ jog' = Still
  /\ live' \in {FALSE, status}
  /\ beaten' \in IF live' THEN BOOLEAN ELSE {beaten}
  /\ UNCHANGED <<pc, status, error, due, todo, jogging, reported, broken>>

Ready ==
  /\ cnc = "starting"
  /\ cnc' = "up"
  /\ UNCHANGED <<mode, jog, pc, link, clock, todo, jogging, reported, broken>>

(* Its memory may stay, with the last state and heartbeat. *)
Die ==
  /\ cnc # "down"
  /\ cnc' = "down" /\ jog' = Still /\ live' = FALSE
  /\ UNCHANGED <<mode, pc, status, error, clock, todo, jogging, reported, broken>>

(* Drives off, an abort or another mode, by the operator or the program. *)
StopJogging ==
  /\ cnc # "down"
  /\ jog' = Still /\ mode' \in Modes
  /\ UNCHANGED <<cnc, pc, link, clock, todo, jogging, reported, broken>>

Beat ==
  /\ live
  /\ beaten' = TRUE
  /\ UNCHANGED <<linuxCnc, pc, link, due, todo, jogging, reported, broken>>

(* A LinuxCNC that is up beats more often than once a second. *)
Tick ==
  /\ live /\ cnc = "up" => beaten
  /\ due' = TRUE
  /\ UNCHANGED <<linuxCnc, pc, link, beaten, todo, jogging, reported, broken>>

-----------------------------------------------------------------------------
(* The connection.                                                         *)

OK == status /\ error

MutantErrorBuffer == error
ErrorBuffer == FALSE

(* DisconnectNml().  What the network thread sends while the buffers are   *)
(* deleted goes through deleted objects.                                   *)
DisconnectNml ==
  /\ status' = FALSE /\ error' = ErrorBuffer /\ live' = FALSE /\ beaten' = FALSE
  /\ broken' \in IF status /\ todo # <<>> THEN BOOLEAN ELSE {FALSE}

(* ConnectNml(), lines 74-99.  A failure leaves nothing set: no step.      *)
(* ConnectLCnc() has slept half a second: a function that was being served *)
(* without the buffers has returned.                                       *)
ConnectStatus ==
  /\ pc = "status" /\ ~broken
  /\ todo = <<>>
  /\ status' = TRUE
  /\ live' = (cnc # "down")
  /\ beaten' \in IF cnc = "up" THEN {TRUE} ELSE BOOLEAN
  /\ pc' = "error"
  /\ UNCHANGED <<linuxCnc, error, due, todo, jogging, reported, broken>>

(* Lines 101-110. *)
ConnectError ==
  /\ pc = "error" /\ ~broken
  /\ \/ error' = TRUE /\ pc' = "check" /\ UNCHANGED <<status, live, beaten, broken>>
     \/ cnc # "up" /\ DisconnectNml /\ pc' = "status"
  /\ UNCHANGED <<linuxCnc, due, todo, jogging, reported>>

(* Line 111, and the loop of ConnectLCnc(). *)
Check ==
  /\ pc = "check" /\ ~broken
  /\ pc' = IF OK THEN "sync" ELSE "status"
  /\ UNCHANGED <<linuxCnc, link, clock, todo, jogging, reported, broken>>

(* The rest of ConnectLCnc(), which uses the buffers without the lock. *)
Synchronise ==
  /\ pc = "sync" /\ ~broken
  /\ IF status
     THEN /\ pc' = "poll" /\ UNCHANGED broken
          /\ \/ beaten' = FALSE /\ due' = FALSE
             \/ UNCHANGED clock       \* peek() fails
     ELSE broken' = TRUE /\ UNCHANGED <<pc, clock>>
  /\ UNCHANGED <<linuxCnc, link, todo, jogging, reported>>

MutantDisconnected == FALSE
Disconnected == ~OK

(* Poll() takes the lock; main() goes on only when it returns false. *)
Poll ==
  /\ pc = "poll" /\ ~broken
  /\ todo = <<>>
  /\ Disconnected
  /\ pc' = "leave"
  /\ UNCHANGED <<linuxCnc, link, clock, todo, jogging, reported, broken>>

(* main.cpp 160, without the lock. *)
Leave ==
  /\ pc = "leave" /\ ~broken
  /\ DisconnectNml
  /\ pc' = "status"
  /\ UNCHANGED <<linuxCnc, due, todo, jogging, reported>>

Main == ConnectStatus \/ ConnectError \/ Check \/ Synchronise \/ Poll \/ Leave

-----------------------------------------------------------------------------
(* UpdateState(), called for GetState() with the lock held.                *)

Serving == todo = <<>> /\ ~broken

UpdateOffline ==
  /\ Serving /\ ~status
  /\ reported' = "OFFLINE"
  /\ UNCHANGED <<linuxCnc, pc, link, clock, todo, jogging, broken>>

MutantSilent == due /\ beaten
Silent == due /\ ~beaten

(* The heartbeat has stopped, lines 358-364. *)
UpdateSilent ==
  /\ Serving /\ OK /\ Silent
  /\ reported' = "OFFLINE"
  /\ DisconnectNml
  /\ UNCHANGED <<linuxCnc, pc, due, todo, jogging>>

UpdateConnected ==
  /\ Serving /\ OK /\ ~Silent
  /\ reported' = "ONLINE"
  /\ beaten' = IF due THEN FALSE ELSE beaten
  /\ due' = FALSE
  /\ UNCHANGED <<linuxCnc, pc, link, todo, jogging, broken>>

(* Without the error buffer, or when peek() fails, the state stays as it   *)
(* was (lines 342-348): no step.                                           *)
UpdateState == UpdateOffline \/ UpdateSilent \/ UpdateConnected

-----------------------------------------------------------------------------
(* The commands.                                                           *)

SetMode(m) == [type |-> "SetMode", mode |-> m]
SendJog(a, v) == [type |-> "Jog", axis |-> a, vel |-> v]
Teleop(needed) == [type |-> "Teleop", needed |-> needed]
Halt == [type |-> "Halt"]      \* abort, drives off, reset of the emergency stop
Other == [type |-> "Other"]    \* changes neither mode nor jogging

Times(n, m) == [i \in 1 .. n |-> m]

(* A function takes the lock and returns at once without m_emcStatus. *)
Serve(messages) ==
  /\ Serving /\ status
  /\ todo' = messages
  /\ UNCHANGED <<linuxCnc, pc, link, clock, cache, lost, reported, broken>>

JogVel(v) ==
  /\ Serve(<<SetMode("MANUAL")>> \o [a \in Axis |-> SendJog(a, v[a])])
  /\ request' = v /\ sure' = TRUE

Does(messages) == Serve(messages) /\ UNCHANGED <<request, sure>>

JogStep == \E n \in 0 .. MaxAxes :
  Does(<<SetMode("MANUAL"), Teleop(TRUE)>> \o Times(n, Other))
Mdi == Does(<<SetMode("MDI"), Other>>)
CycleStart == Does(<<SetMode("AUTO"), Other>>)
CycleStop == Does(<<Halt>>)
DrivesOn == \E n \in {1, 2} : Does(<<Halt>> \o Times(n - 1, Other))
Home == \E n \in {1, MaxAxes} :
  Does(<<SetMode("MANUAL"), Teleop(FALSE)>> \o Times(n, Other))
(* Overrides, files, FeedHold(), BlockDelete(), SingleStep(), OptionalStop(). *)
SendOther == Does(<<Other>>)

-----------------------------------------------------------------------------
(* CommandSend().                                                          *)

(* The message reaches LinuxCNC, and its echo comes in time. *)
Outcomes ==
  {o \in [reached : BOOLEAN, echoed : BOOLEAN] :
     (o.echoed => o.reached) /\ (o.reached => status /\ live)}

Rest(message, o) ==
  IF message.type = "Teleop" /\ message.needed /\ ~o.echoed THEN <<>> ELSE Tail(todo)

(* SetMode() and SendJog() send nothing when there is nothing to change. *)
Needless(message) ==
  \/ message.type = "SetMode" /\ message.mode = mode
  \/ message.type = "Jog" /\ message.vel = cache[message.axis]

MutantCached(message, o) ==
  IF o.echoed THEN [cache EXCEPT ![message.axis] = message.vel] ELSE cache
Cached(message, o) == [cache EXCEPT ![message.axis] = message.vel]

(* What LinuxCNC does with a message that reaches it. *)
Obey(message) ==
  CASE message.type = "SetMode" ->
         \/ mode' = message.mode /\ jog' = Still
         \/ UNCHANGED <<mode, jog>>
    [] message.type = "Jog" ->
         /\ jog' \in {[jog EXCEPT ![message.axis] = v] : v \in {0, message.vel}}
         /\ UNCHANGED mode
    [] message.type = "Halt" -> jog' = Still /\ UNCHANGED mode
    [] OTHER -> UNCHANGED <<mode, jog>>

Skip ==
  /\ todo # <<>> /\ ~broken
  /\ Needless(Head(todo))
  /\ todo' = Tail(todo)
  /\ UNCHANGED <<linuxCnc, pc, link, clock, jogging, reported, broken>>

CommandSend ==
  /\ todo # <<>> /\ ~broken
  /\ ~Needless(Head(todo))
  /\ \E o \in Outcomes :
       /\ todo' = Rest(Head(todo), o)
       /\ sure' = (sure /\ o.echoed)
       /\ IF o.reached THEN Obey(Head(todo)) ELSE UNCHANGED <<mode, jog>>
       /\ IF Head(todo).type = "Jog"
          THEN /\ cache' = Cached(Head(todo), o)
               /\ lost' = [lost EXCEPT ![Head(todo).axis] = ~o.reached]
          ELSE UNCHANGED <<cache, lost>>
  /\ UNCHANGED <<cnc, pc, link, clock, request, reported, broken>>

Commands ==
  \/ \E v \in [Axis -> Speeds] : JogVel(v)
  \/ JogStep \/ Mdi \/ CycleStart \/ CycleStop \/ DrivesOn \/ Home \/ SendOther

Next ==
  \/ Start \/ Ready \/ Die \/ StopJogging \/ Beat \/ Tick
  \/ Main \/ UpdateState \/ Commands \/ Skip \/ CommandSend

Spec == Init /\ [][Next]_vars

(* Both threads go on and get the lock, some client asks for the state     *)
(* again and again, LinuxCNC starts and beats, time passes.                *)
FairSpec ==
  /\ Spec
  /\ WF_vars(Ready) /\ WF_vars(Beat) /\ WF_vars(Tick)
  /\ WF_vars(ConnectStatus /\ cnc = "up") /\ WF_vars(ConnectError)
  /\ WF_vars(Check) /\ WF_vars(Synchronise) /\ SF_vars(Poll) /\ WF_vars(Leave)
  /\ SF_vars(UpdateOffline) /\ SF_vars(UpdateSilent \/ UpdateConnected)
  /\ WF_vars(Skip \/ CommandSend)

-----------------------------------------------------------------------------
Message ==
  [type : {"SetMode"}, mode : Modes] \cup [type : {"Jog"}, axis : Axis, vel : Speeds]
  \cup [type : {"Teleop"}, needed : BOOLEAN] \cup [type : {"Halt", "Other"}]

(* The types; the error buffer is never there without the status buffer,   *)
(* and buffers that are not there are of no LinuxCNC.                      *)
TypeOK ==
  /\ cnc \in {"down", "starting", "up"} /\ mode \in Modes /\ jog \in [Axis -> Speeds]
  /\ pc \in {"status", "error", "check", "sync", "poll", "leave"}
  /\ status \in BOOLEAN /\ error \in BOOLEAN /\ live \in BOOLEAN
  /\ beaten \in BOOLEAN /\ due \in BOOLEAN /\ todo \in Seq(Message)
  /\ cache \in [Axis -> Speeds] /\ reported \in {"NO_SERVER", "OFFLINE", "ONLINE"}
  /\ broken \in BOOLEAN /\ lost \in [Axis -> BOOLEAN]
  /\ request \in [Axis -> Speeds] /\ sure \in BOOLEAN
  /\ error => status
  /\ live => status /\ cnc # "down"

(* An axis that LinuxCNC jogs for this server is not taken for a stopped   *)
(* one, or one with another velocity, by the test of SendJog(), which      *)
(* would then not send the stop: unless its last message was lost.         *)
MovingIsCached == \A a \in Axis : jog[a] # 0 /\ ~lost[a] => cache[a] = jog[a]

(* When LinuxCNC is gone for good, the clients are told so again and       *)
(* again, even if its memory stays and is connected to (UpdateState()).    *)
DeadIsReported == <>[](cnc = "down") => []<>(reported = "OFFLINE" \/ broken)

(* When LinuxCNC stays up, the server gets connected to it and keeps       *)
(* reporting its state.                                                    *)
ConnectedAgain == <>[](cnc = "up") => <>[](reported = "ONLINE" \/ broken)

(* "Use axis values of 0 to stop jogging" (cncclient.h 210): a JogVel()    *)
(* that asks an axis to stop and in which no message failed leaves it      *)
(* stopped.                                                                *)
StopStops ==
  todo = <<>> /\ sure => \A a \in Axis : request[a] = 0 => jog[a] = 0
=============================================================================
