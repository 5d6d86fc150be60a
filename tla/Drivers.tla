------------------------------- MODULE Drivers -------------------------------
(***************************************************************************)
(* The drivers and what each of them works with.  A machine has one of     *)
(*   linux    the client as a host, with the LinuxCNC plugin,              *)
(*   windows  the client as a host, with the EdingCNC plugin,              *)
(*   eding    the commands of that plugin against EdingCNC, once linked,   *)
(*   sim      the simulator.                                               *)
(* They share nothing but the host, so that the others stand still.        *)
(***************************************************************************)
EXTENDS Integers

CONSTANTS MaxX, MaxZ, MaxStep   \* bounds, of EdingCnc and Sim

ASSUME BoundsAssumption == MaxX \in Nat /\ MaxZ \in Nat /\ MaxStep \in Nat \ {0}

VARIABLES
  system,
  call, exists, loaded, m_plugin, thread,
  exec, child, task, serverPath, foreign, stray, adopted, early, misused,
  installed, cnc, dll, bound, connected, connectCount, gui, link, lost, wild,
  ie, motion, goal, output, emstop, job, x, z, pause, zMax,
  checking, pausePos, hold, from, told, disturbed,
  dtg, jogVel, controlOn, feedRate, feedOverride, machineState, busy, switching, stepped

Host == INSTANCE PluginHost
Linux == INSTANCE LinuxPlugin
Windows == INSTANCE EdingLink
Eding == INSTANCE EdingCnc
Simulator == INSTANCE Sim

hostVars == <<call, exists, loaded, m_plugin, thread>>
hostOnly == <<loaded, m_plugin, thread>>
linuxOnly == <<exec, child, task, serverPath, foreign, stray, adopted, early, misused>>
windowsOnly == <<installed, cnc, dll, bound, connected, connectCount, gui, link, lost, wild>>
cncVars == <<ie, motion, goal, output, emstop, job, x, z, pause, zMax, checking, pausePos, hold,
             from, told, disturbed>>
simVars == <<dtg, jogVel, controlOn, feedRate, feedOverride, machineState, busy, switching, stepped>>
linuxVars == <<call, exists, linuxOnly>>
windowsVars == <<call, exists, windowsOnly>>
vars == <<system, hostVars, linuxOnly, windowsOnly, cncVars, simVars>>

Init ==
  /\ system \in {"linux", "windows", "eding", "sim"}
  /\ Host!Init /\ Linux!Init /\ Windows!Init /\ Eding!Init /\ Simulator!Init
  /\ (system # "linux" => ~foreign) /\ (system # "windows" => installed = "none")

OnLinux ==
  /\ system = "linux"
  /\ \/ Host!Host /\ UNCHANGED linuxOnly
     \/ (Linux!Plugin \/ Linux!Processes) /\ UNCHANGED hostOnly
  /\ UNCHANGED <<system, windowsOnly, cncVars, simVars>>

OnWindows ==
  /\ system = "windows"
  /\ \/ Host!Host /\ UNCHANGED windowsOnly
     \/ (Windows!Plugin \/ Windows!Others) /\ UNCHANGED hostOnly
  /\ UNCHANGED <<system, linuxOnly, cncVars, simVars>>

OnEding ==
  /\ system = "eding" /\ Eding!Next
  /\ UNCHANGED <<system, hostVars, linuxOnly, windowsOnly, simVars>>

OnSim ==
  /\ system = "sim" /\ Simulator!Next
  /\ UNCHANGED <<system, hostVars, linuxOnly, windowsOnly, cncVars>>

Next == OnLinux \/ OnWindows \/ OnEding \/ OnSim
Spec == Init /\ [][Next]_vars

(* A plugin's function returns, unless it waits for a server that prints   *)
(* or ends when it likes; the check of cncremote.sh ends.                  *)
LinuxFairness ==
  /\ WF_linuxVars(system = "linux" /\ Linux!Prompt)
  /\ WF_linuxVars(system = "linux" /\ Linux!Group)
  /\ WF_linuxVars(system = "linux" /\ task = "check" /\ Linux!End)

(* EdingCNC that runs and is asked again and again serves in the end.      *)
WindowsFairness ==
  /\ WF_windowsVars(system = "windows" /\ Windows!Plugin)
  /\ SF_windowsVars(system = "windows" /\ Windows!PollConnects(TRUE))

(* A CncMoveTo() is carried out; WaitMove() looks every 50 ms and sees a   *)
(* rest that comes again and again.                                        *)
EdingFairness ==
  /\ WF_cncVars(system = "eding" /\ goal # Eding!Nowhere /\ Eding!AxisMoves)
  /\ WF_cncVars(system = "eding" /\ goal # Eding!Nowhere /\ Eding!Arrives)
  /\ SF_cncVars(system = "eding" /\ Eding!WaitMove)

(* Both threads of the simulator go on; nobody holds the lock for long.    *)
SimFairness ==
  /\ WF_simVars(system = "sim" /\ Simulator!PollLooks)
  /\ WF_simVars(system = "sim" /\ Simulator!PollMoves)
  /\ WF_simVars(system = "sim" /\ Simulator!DrivesOffLocked)

FairSpec == Spec /\ LinuxFairness /\ WindowsFairness /\ EdingFairness /\ SimFairness

-----------------------------------------------------------------------------
TypeOK ==
  /\ call \in {"none", "asking", "waitpid"} \cup Host!Calls
  /\ thread \in {"user", "load", "start", "quit", "unload"}
  /\ exec \in {"null", "open", "eof", "closed"} /\ child \in Linux!Children
  /\ task \in {"check", "server"}
  /\ installed \in Windows!Libraries /\ dll \in {"none", "loaded", "freed"}
  /\ connectCount \in 0 .. Windows!Settled
  /\ {exists, loaded, m_plugin, serverPath, foreign, stray, adopted, early, misused} \subseteq BOOLEAN
  /\ {cnc, bound, connected, gui, link, lost, wild} \subseteq BOOLEAN
  /\ Eding!TypeOK
  /\ dtg \in -MaxStep .. MaxStep /\ feedRate \in 0 .. MaxStep
  /\ machineState \in {"NO_SERVER", "OFF", "IDLE", "MOVING", "RUNNING"}
  /\ busy \in {"none", "OFF", "IDLE"}

(* The client uses no plugin that has refused, and none after it has been  *)
(* stopped: no call of EdingCNC's plugin, and none of its clients, uses a  *)
(* function that is not there, and the LinuxCNC plugin reads or closes its *)
(* stream twice only if a Start() after a Stop() found a server that       *)
(* somebody else has started, which leaves the old stream in use.          *)
NoStrayCalls == ~wild /\ ~misused

(* While a client uses no plugin, nothing runs that its plugin has started *)
(* -- neither a server nor the check of one: Disconnect(), Connect() and   *)
(* the destructor leave no process behind, however short its life was.     *)
NothingLeftBehind == call = "none" /\ ~m_plugin => ~Linux!Alive /\ ~stray

(* The client calls its plugins on the user's thread.  They return, but    *)
(* for two waits: a Poll() while the server lives and is silent, and a     *)
(* Stop() that came before the new process had its group, so that the kill *)
(* missed it.                                                              *)
CallsReturn ==
  \/ []<>(call = "none")
  \/ <>[](call = "Poll" /\ Linux!Alive)
  \/ <>[](call = "waitpid" /\ early)

(* Once EdingCNC runs on, a plugin that is polled gets its link, unless    *)
(* EdingCNC has ended under a link before, which is not noticed.           *)
ConnectsInTheEnd ==
  <>[](gui /\ m_plugin /\ ~lost) /\ []<>(call = "Poll") /\ <>[](system = "windows") => <>[]link

(* The properties of EdingCnc, stated there.                               *)
ReturnsLifted == Eding!ReturnsLifted
ResumesAtPause == Eding!ResumesAtPause
CycleStartReturns == Eding!CycleStartReturns

(* A move of the simulator that is left alone ends, if its step goes into  *)
(* the distance; another step swings around the target for ever, and none  *)
(* at all, before the first FeedOverride(), never moves.                   *)
Fits == Simulator!Step # 0 /\ dtg % Simulator!Step = 0
OnlyPollMoves ==
  /\ UNCHANGED <<feedRate, feedOverride>>
  /\ dtg' # dtg => busy' # busy \/ switching' # switching
MoveEnds == <>[][OnlyPollMoves]_simVars => <>[](dtg = 0 \/ ~Fits)

(* Drives that stay off are told to be off and nothing moves, although     *)
(* Poll() may have looked at them before: unless a JogStep(), which does   *)
(* not look at the drives, moves on.                                       *)
OffStandsStill ==
  <>[](system = "sim" /\ ~controlOn /\ ~switching /\ ~stepped) =>
    <>[](machineState = "OFF" /\ dtg = 0)
==============================================================================
