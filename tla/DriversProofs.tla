--------------------------- MODULE DriversProofs ----------------------------
(***************************************************************************)
(* For all places, heights and steps, and whatever the host, its plugins,  *)
(* EdingCNC, an operator and the simulator do: no plugin is used that has  *)
(* refused or been stopped, nothing that was started is left behind, the   *)
(* tool returns to a pause no lower than it should, and the job goes on    *)
(* only where it was paused.                                               *)
(***************************************************************************)
EXTENDS Drivers, TLAPS

-----------------------------------------------------------------------------
(* The client as a host: what its thread does next tells which functions   *)
(* of the plugin can be in progress.  Only the LinuxCNC plugin waits.      *)
CallsBy(next) ==
  CASE next = "load" -> {"ControlExists", "asking"}
    [] next \in {"start", "quit"} -> {"Stop", "waitpid"}
    [] next = "unload" -> {"Quit"}
    [] OTHER -> IF m_plugin THEN {"Start", "Poll"}
                ELSE IF loaded THEN {"Stop", "waitpid"} ELSE {"Unload"}

HostInv ==
  /\ {exists, loaded, m_plugin} \subseteq BOOLEAN
  /\ thread \in {"user", "load", "start", "quit", "unload"}
  /\ m_plugin => thread = "user" /\ loaded
  /\ thread # "user" => (loaded <=> thread # "load")
  /\ call \in {"none"} \cup CallsBy(thread)
  /\ call \in {"asking", "waitpid"} => system = "linux"

(* The LinuxCNC plugin: a process runs only while the stream to it is      *)
(* open, a stream is open only while the client uses the plugin or stops   *)
(* it, and a closed one is met again only beside an adopted server.        *)
Using == (m_plugin /\ call # "Start") \/ call = "Stop"

LinuxInv ==
  /\ {serverPath, foreign, adopted, early} \subseteq BOOLEAN
  /\ exec \in {"null", "open", "eof", "closed"} /\ child \in Linux!Children
  /\ task \in {"check", "server"}
  /\ exec = "null" => child = "none"
  /\ exec = "eof" => child = "ended"
  /\ exec = "closed" => child = "none" \/ call = "waitpid"
  /\ exec \in {"open", "eof"} => Using \/ call = "asking"
  /\ exec = "closed" /\ Using => adopted
  /\ exec # "null" /\ loaded => serverPath
  /\ exec # "null" /\ ~loaded => call \in {"asking", "Unload"}
  /\ call = "asking" => exec = "open"
  /\ call = "waitpid" => exec = "closed"
  /\ stray = FALSE /\ misused = FALSE
  /\ system # "linux" => exec = "null"

(* The polls that the EdingCNC plugin counts before it connects.           *)
CountInv == connectCount \in 0 .. Windows!Settled

(* The EdingCNC plugin: its functions are there from the answer to         *)
(* ControlExists() to Quit(), and its port is bound only in between.       *)
WindowsInv ==
  /\ {cnc, bound, connected, gui, link, lost} \subseteq BOOLEAN
  /\ installed \in Windows!Libraries /\ dll \in {"none", "loaded", "freed"}
  /\ CountInv
  /\ wild = FALSE
  /\ system = "windows" =>
       /\ bound => dll = "loaded"
       /\ loaded /\ thread # "unload" => dll = "loaded"
       /\ ~loaded /\ thread = "user" => call = "Unload" \/ dll = "none"
       /\ thread = "load" /\ call = "none" /\ exists => dll = "loaded"
       /\ call = "ControlExists" => dll = "none"

(* The simulator: a step never leads farther away than MaxStep.            *)
SimInv ==
  /\ dtg \in -MaxStep .. MaxStep /\ feedRate \in 0 .. MaxStep
  /\ feedOverride \in {0, 1} /\ jogVel \in {-1, 0, 1}
  /\ controlOn \in BOOLEAN /\ switching \in BOOLEAN /\ stepped \in BOOLEAN
  /\ machineState \in {"NO_SERVER", "OFF", "IDLE", "MOVING", "RUNNING"}
  /\ busy \in {"none", "OFF", "IDLE"}

(* EdingCNC and its server.                                                *)
(* What has been told is known to m_zMax.                                  *)
HeightInv == told <= zMax

(* Where CheckPause() goes aside, it has chosen a height to hold.          *)
High == x # pausePos.x => hold >= from /\ hold >= pausePos.z /\ hold >= told

(* What it knows in each of its three waits as long as nobody interferes:  *)
(* a movement of its own goes where it was sent to, a rest is the end of   *)
(* it, unless the drives are off.  A tracking that was started before lets *)
(* none of the three begin.                                                *)
Lifting ==
  checking = "lift" =>
    /\ motion = "axisjog" => goal = [x |-> x, z |-> hold]
    /\ motion = "none" /\ output => z = hold
    /\ motion \in {"none", "axisjog"} => High

Traversing ==
  checking = "traverse" /\ motion = "axisjog" =>
    goal = [x |-> pausePos.x, z |-> hold] /\ z = hold /\ High

Lowering ==
  checking = "lower" =>
    /\ motion = "axisjog" => goal = pausePos
    /\ motion = "none" /\ output => Eding!Here = pausePos

Returning == ie \in Eding!Paused /\ pause.at = pausePos /\ Lifting /\ Traversing /\ Lowering

ReturnInv ==
  checking # "no" =>
    /\ pausePos \in Eding!Places /\ hold \in Eding!Zs /\ from \in Eding!Zs
    /\ ~disturbed => Returning

EdingInv == Eding!TypeOK /\ HeightInv /\ ReturnInv

(* Together they are inductive.                                            *)
IInv == HostInv /\ LinuxInv /\ WindowsInv /\ EdingInv /\ SimInv

-----------------------------------------------------------------------------
(* The sets of the plugins' modules, and their groups of variables.        *)
USE DEF hostVars, hostOnly, linuxOnly, windowsOnly, cncVars, simVars,
        Linux!process, Linux!linuxHistory, Linux!Children, Linux!Alive, Linux!Answers,
        Linux!Return, Linux!ReturnExists, Linux!ExecStart,
        Windows!Libraries, Windows!Settled, Windows!object, Windows!world, Windows!Return,
        Host!Asks, Host!Free, Host!Returned, Host!StopsFirst

(* The host calls what its plugin can carry out at that point, ...         *)
LEMMA HostKeepsHost ==
  ASSUME HostInv, Host!Host, UNCHANGED system
  PROVE  HostInv'
<1> USE DEF HostInv, CallsBy
<1>1. CASE Host!LoadPlugins
  BY <1>1 DEF Host!LoadPlugins
<1>2. CASE Host!Enumerated
  BY <1>2 DEF Host!Enumerated
<1>3. CASE Host!Connect
  BY <1>3 DEF Host!Connect
<1>4. CASE Host!ConnectStarts
  BY <1>4 DEF Host!ConnectStarts
<1>5. CASE Host!Disconnect
  BY <1>5 DEF Host!Disconnect
<1>6. CASE Host!Destroy
  BY <1>6 DEF Host!Destroy
<1>7. CASE Host!DestroyQuits
  BY <1>7 DEF Host!DestroyQuits
<1>8. CASE Host!DestroyUnloads
  BY <1>8 DEF Host!DestroyUnloads
<1>9. CASE Host!Poll
  BY <1>9 DEF Host!Poll
<1> QED BY <1>1, <1>2, <1>3, <1>4, <1>5, <1>6, <1>7, <1>8, <1>9 DEF Host!Host

(* ... so that the LinuxCNC plugin meets no stream that it has closed, ... *)
LEMMA HostKeepsLinux ==
  ASSUME HostInv, LinuxInv, Host!Host, UNCHANGED <<system, linuxOnly>>
  PROVE  LinuxInv'
<1> USE DEF HostInv, LinuxInv, CallsBy, Using
<1>1. CASE Host!LoadPlugins
  BY <1>1 DEF Host!LoadPlugins
<1>2. CASE Host!Enumerated
  BY <1>2 DEF Host!Enumerated
<1>3. CASE Host!Connect
  BY <1>3 DEF Host!Connect
<1>4. CASE Host!ConnectStarts
  BY <1>4 DEF Host!ConnectStarts
<1>5. CASE Host!Disconnect
  BY <1>5 DEF Host!Disconnect
<1>6. CASE Host!Destroy
  BY <1>6 DEF Host!Destroy
<1>7. CASE Host!DestroyQuits
  BY <1>7 DEF Host!DestroyQuits
<1>8. CASE Host!DestroyUnloads
  BY <1>8 DEF Host!DestroyUnloads
<1>9. CASE Host!Poll
  BY <1>9 DEF Host!Poll
<1> QED BY <1>1, <1>2, <1>3, <1>4, <1>5, <1>6, <1>7, <1>8, <1>9 DEF Host!Host

(* ... nor the EdingCNC plugin a function that it lacks.                   *)
LEMMA HostKeepsWindows ==
  ASSUME HostInv, WindowsInv, Host!Host, UNCHANGED <<system, windowsOnly>>
  PROVE  WindowsInv'
<1> USE DEF HostInv, WindowsInv, CountInv, CallsBy
<1>1. CASE Host!LoadPlugins
  BY <1>1 DEF Host!LoadPlugins
<1>2. CASE Host!Enumerated
  BY <1>2 DEF Host!Enumerated
<1>3. CASE Host!Connect
  BY <1>3 DEF Host!Connect
<1>4. CASE Host!ConnectStarts
  BY <1>4 DEF Host!ConnectStarts
<1>5. CASE Host!Disconnect
  BY <1>5 DEF Host!Disconnect
<1>6. CASE Host!Destroy
  BY <1>6 DEF Host!Destroy
<1>7. CASE Host!DestroyQuits
  BY <1>7 DEF Host!DestroyQuits
<1>8. CASE Host!DestroyUnloads
  BY <1>8 DEF Host!DestroyUnloads
<1>9. CASE Host!Poll
  BY <1>9 DEF Host!Poll
<1> QED BY <1>1, <1>2, <1>3, <1>4, <1>5, <1>6, <1>7, <1>8, <1>9 DEF Host!Host

(* The LinuxCNC plugin opens a stream only where it has none, and waits    *)
(* for the process whose stream it closes.                                 *)
LEMMA LinuxKeepsLinux ==
  ASSUME HostInv, LinuxInv, system = "linux", Linux!Plugin \/ Linux!Processes,
         UNCHANGED <<system, hostOnly>>
  PROVE  HostInv' /\ LinuxInv'
<1> USE DEF HostInv, LinuxInv, CallsBy, Using
<1>1. CASE Linux!ControlExistsAtOnce
  BY <1>1 DEF Linux!ControlExistsAtOnce
<1>2. CASE Linux!ControlExistsAsks
  BY <1>2 DEF Linux!ControlExistsAsks
<1>3. CASE Linux!ControlExistsEnds
  BY <1>3 DEF Linux!ControlExistsEnds
<1>4. CASE Linux!Start
  BY <1>4 DEF Linux!Start
<1>5. CASE Linux!StopIdle
  BY <1>5 DEF Linux!StopIdle
<1>6. CASE Linux!StopKills
  BY <1>6 DEF Linux!StopKills, Linux!Killed
<1>7. CASE Linux!StopWaits
  BY <1>7 DEF Linux!StopWaits
<1>8. CASE Linux!Misuse
  BY <1>8 DEF Linux!Misuse
<1>9. CASE Linux!PollIdle \/ Linux!PollReads
  BY <1>9 DEF Linux!PollIdle, Linux!PollReads
<1>10. CASE Linux!PollFindsEnd
  BY <1>10 DEF Linux!PollFindsEnd
<1>11. CASE Linux!PollCloses
  BY <1>11 DEF Linux!PollCloses
<1>12. CASE Linux!Quit
  BY <1>12 DEF Linux!Quit
<1>13. CASE Linux!Unload
  BY <1>13 DEF Linux!Unload
<1>14. CASE Linux!Processes
  BY <1>14 DEF Linux!Processes, Linux!Group, Linux!Serve, Linux!End, Linux!Foreign
<1> QED BY <1>1, <1>2, <1>3, <1>4, <1>5, <1>6, <1>7, <1>8, <1>9, <1>10, <1>11, <1>12, <1>13,
           <1>14 DEF Linux!Plugin, Linux!Prompt

(* The count ends where EdingCNC is connected.                             *)
LEMMA CountStops ==
  ASSUME CountInv, Windows!Plugin \/ Windows!Others
  PROVE  CountInv'
<1> USE DEF CountInv
<1>1. CASE Windows!ControlExists \/ Windows!Start \/ Windows!Stop \/ Windows!Others
  BY <1>1 DEF Windows!ControlExists, Windows!Start, Windows!Stop, Windows!Others, Windows!Request,
              Windows!Gui
<1>2. CASE Windows!Quit
  BY <1>2 DEF Windows!Quit, Windows!NoObject
<1>3. CASE Windows!PollWaits
  BY <1>3 DEF Windows!PollWaits, Windows!Connecting
<1>4. CASE \E served \in BOOLEAN : Windows!PollConnects(served)
  BY <1>4 DEF Windows!PollConnects
<1> QED BY <1>1, <1>2, <1>3, <1>4 DEF Windows!Plugin

(* The EdingCNC plugin answers that it exists only with all its functions, *)
(* and has none left after Quit().                                         *)
LEMMA WindowsKeepsWindows ==
  ASSUME HostInv, WindowsInv, system = "windows", Windows!Plugin \/ Windows!Others,
         UNCHANGED <<system, hostOnly>>
  PROVE  HostInv' /\ WindowsInv'
<1> USE DEF HostInv, WindowsInv, CallsBy
<1>0. CountInv'
  BY CountStops
<1>1. CASE Windows!ControlExists
  BY <1>0, <1>1 DEF Windows!ControlExists, Windows!Succeeds, Windows!LoadDll
<1>2. CASE Windows!Start
  BY <1>0, <1>2 DEF Windows!Start
<1>3. CASE Windows!Stop
  BY <1>0, <1>3 DEF Windows!Stop
<1>4. CASE Windows!Quit
  <2>1. CASE call = "Quit"
    BY <1>0, <1>4, <2>1 DEF Windows!Quit, Windows!NoObject
  <2>2. CASE call = "Unload"
    BY <1>0, <1>4, <2>2 DEF Windows!Quit, Windows!NoObject
  <2> QED BY <1>4, <2>1, <2>2 DEF Windows!Quit
<1>5. CASE Windows!PollWaits
  <2>1. m_plugin /\ loaded /\ thread = "user" /\ dll = "loaded"
    BY <1>5 DEF Windows!PollWaits
  <2> QED BY <1>0, <1>5, <2>1 DEF Windows!PollWaits
<1>6. ASSUME NEW served \in BOOLEAN, Windows!PollConnects(served) PROVE HostInv' /\ WindowsInv'
  <2>1. m_plugin /\ loaded /\ thread = "user" /\ dll = "loaded"
    BY <1>6 DEF Windows!PollConnects
  <2>2. dll' = "loaded"
    BY <1>6, <2>1 DEF Windows!PollConnects, Windows!LoadDll
  <2>3. wild' = FALSE
    BY <1>6, <2>2 DEF Windows!PollConnects
  <2>4. link' \in BOOLEAN /\ connected' \in BOOLEAN
    BY <1>6 DEF Windows!PollConnects, Windows!Accepted
  <2>5. UNCHANGED <<cnc, bound, connectCount, installed, gui, lost, exists>> /\ call' = "none"
    BY <1>6 DEF Windows!PollConnects
  <2>6. HostInv'
    BY <2>1, <2>5
  <2> QED BY <1>0, <2>1, <2>2, <2>3, <2>4, <2>5, <2>6
<1>7. CASE Windows!Request
  <2>1. wild' = FALSE
    BY <1>7 DEF Windows!Request
  <2> QED BY <1>0, <1>7, <2>1 DEF Windows!Request
<1>8. CASE Windows!Gui
  <2>1. {gui', link', lost'} \subseteq BOOLEAN
    BY <1>8 DEF Windows!Gui
  <2> QED BY <1>0, <1>8, <2>1 DEF Windows!Gui
<1> QED BY <1>1, <1>2, <1>3, <1>4, <1>5, <1>6, <1>7, <1>8 DEF Windows!Plugin, Windows!Others

(* A distance and a speed of nothing are near.                             *)
LEMMA NothingIsNear == 0 \in -MaxStep .. MaxStep /\ 0 \in 0 .. MaxStep
BY BoundsAssumption

(* A step of the simulator goes towards the target, at most as far beyond  *)
(* it as the step is long.                                                 *)
LEMMA StepsStayNear ==
  ASSUME SimInv, NEW d \in -MaxStep .. MaxStep
  PROVE  Simulator!Ahead(d) \in -MaxStep .. MaxStep
<1>1. Simulator!Step \in 0 .. MaxStep
  <2>1. CASE feedOverride = 0
    BY <2>1, BoundsAssumption DEF SimInv, Simulator!Step
  <2>2. CASE feedOverride = 1
    BY <2>2, BoundsAssumption DEF SimInv, Simulator!Step
  <2> QED BY <2>1, <2>2 DEF SimInv
<1> QED BY <1>1, BoundsAssumption DEF Simulator!Ahead, Simulator!FarEnough

(* So the simulator keeps its types.                                       *)
LEMMA SimKeepsSim ==
  ASSUME SimInv, Simulator!Next
  PROVE  SimInv'
<1> USE DEF SimInv, Simulator!commanded
<1>1. CASE Simulator!PollLooks
  BY <1>1 DEF Simulator!PollLooks
<1>2. CASE Simulator!PollMoves
  <2>1. dtg' \in -MaxStep .. MaxStep
    BY <1>2, NothingIsNear, StepsStayNear DEF Simulator!PollMoves
  <2> QED BY <1>2, <2>1 DEF Simulator!PollMoves
<1>3. CASE Simulator!DrivesOn \/ Simulator!DrivesOff
  BY <1>3 DEF Simulator!DrivesOn, Simulator!DrivesOff
<1>4. CASE Simulator!DrivesOffLocked
  BY <1>4, NothingIsNear DEF Simulator!DrivesOffLocked, Simulator!TargetOff
<1>5. ASSUME NEW velocity \in {-1, 0, 1}, Simulator!JogVel(velocity) PROVE SimInv'
  BY <1>5 DEF Simulator!JogVel
<1>6. ASSUME NEW distance \in -MaxStep .. MaxStep, NEW speed \in 1 .. MaxStep,
             Simulator!JogStep(distance, speed)
      PROVE  SimInv'
  BY <1>6, BoundsAssumption DEF Simulator!JogStep
<1>7. ASSUME NEW percent \in {0, 1}, Simulator!FeedOverride(percent) PROVE SimInv'
  BY <1>7 DEF Simulator!FeedOverride
<1> QED BY <1>1, <1>2, <1>3, <1>4, <1>5, <1>6, <1>7 DEF Simulator!Next

-----------------------------------------------------------------------------
(* The names of the sets and of the groups of variables.                   *)
USE DEF Eding!Xs, Eding!Zs, Eding!Lowest, Eding!place, Eding!device, Eding!local, Eding!driver

Pauses == [at : Eding!Places, valid : BOOLEAN, manual : BOOLEAN]

(* The type invariant, with Pauses for the set that it spells out.         *)
Typed ==
  /\ ie \in Eding!Interpreter /\ motion \in Eding!Motions
  /\ goal \in Eding!Places \cup {Eding!Nowhere}
  /\ output \in BOOLEAN /\ emstop \in BOOLEAN /\ job \in BOOLEAN
  /\ x \in Eding!Xs /\ z \in Eding!Zs
  /\ pause \in Pauses
  /\ zMax \in Eding!Zs \cup {Eding!Lowest}
  /\ checking \in {"no", "lift", "traverse", "lower"}
  /\ pausePos \in Eding!Places \cup {Eding!Nowhere}
  /\ hold \in Eding!Zs \cup {Eding!Lowest} /\ from \in Eding!Zs \cup {Eding!Lowest}
  /\ told \in Eding!Zs \cup {Eding!Lowest} /\ disturbed \in BOOLEAN
  /\ checking = "no" <=> pausePos = Eding!Nowhere

(* It is the type invariant, before a step and after it.                   *)
LEMMA TypedIsTypeOK == (Eding!TypeOK <=> Typed) /\ (Eding!TypeOK' <=> Typed')
BY DEF Eding!TypeOK, Typed, Pauses

(* Places are where the axes can be; Nowhere is none of them.              *)
LEMMA PlacesAreTyped ==
  /\ Eding!Nowhere \notin Eding!Places
  /\ \A a \in Eding!Xs, b \in Eding!Zs : [x |-> a, z |-> b] \in Eding!Places
  /\ \A p \in Eding!Places : p.x \in Eding!Xs /\ p.z \in Eding!Zs /\ p = [x |-> p.x, z |-> p.z]
  /\ \A a, b, c, d : [x |-> a, z |-> b] = [x |-> c, z |-> d] => a = c /\ b = d
BY DEF Eding!Places, Eding!Nowhere

(* A pause has a place.                                                    *)
LEMMA PausesAreTyped ==
  /\ \A p \in Eding!Places, valid, manual \in BOOLEAN :
       [at |-> p, valid |-> valid, manual |-> manual] \in Pauses
  /\ \A p \in Pauses : p.at \in Eding!Places /\ p.valid \in BOOLEAN /\ p.manual \in BOOLEAN
BY DEF Pauses

(* So the axes and the pause are at places.                                *)
LEMMA PlacesHere == Typed => Eding!Here \in Eding!Places /\ pause.at \in Eding!Places
BY PlacesAreTyped, PausesAreTyped DEF Typed, Eding!Here

(* The constructor; places and heights are counted from 0.                 *)
LEMMA EdingInit ==
  ASSUME MaxX \in Nat, MaxZ \in Nat, Eding!Init
  PROVE  EdingInv
<1>1. 0 \in Eding!Xs /\ 0 \in Eding!Zs /\ Eding!Here \in Eding!Places
  BY PlacesAreTyped DEF Eding!Init, Eding!Here
<1>2. pause \in Pauses
  BY <1>1, PausesAreTyped DEF Eding!Init
<1>3. Typed
  BY <1>1, <1>2 DEF Eding!Init, Typed, Eding!Interpreter, Eding!Motions
<1>4. HeightInv /\ ReturnInv
  BY DEF Eding!Init, HeightInv, ReturnInv
<1> QED BY <1>3, <1>4, TypedIsTypeOK DEF EdingInv

-----------------------------------------------------------------------------
(* A pause leaves a state of the interpreter, and where it was.            *)
LEMMA PauseKeepsTypes ==
  ASSUME Typed, Eding!CncPauseJob
  PROVE  ie' \in Eding!Interpreter /\ pause' \in Pauses
<1>1. ie' \in Eding!Interpreter
  BY DEF Eding!CncPauseJob, Eding!PausedFrom, Typed, Eding!Interpreter, Eding!Paused, Eding!Running
<1>2. CASE ie = ie'
  BY <1>1, <1>2 DEF Eding!CncPauseJob, Typed
<1>3. CASE ie # ie'
  <2>1. PICK known \in {TRUE, ie = "running"} :
          pause' = [at |-> Eding!Here, valid |-> known, manual |-> FALSE]
    BY <1>3 DEF Eding!CncPauseJob
  <2>2. known \in BOOLEAN
    BY <2>1
  <2> QED BY <1>1, <2>1, <2>2, PlacesHere, PausesAreTyped
<1> QED BY <1>2, <1>3

(* A reset and a pause lead to states of the interpreter.                  *)
LEMMA ResetKeepsTypes ==
  ASSUME NEW state \in Eding!Interpreter
  PROVE  /\ Eding!AfterReset(state) \in Eding!Interpreter
         /\ Eding!PausedFrom(state) \in Eding!Interpreter
BY DEF Eding!AfterReset, Eding!PausedFrom, Eding!Interpreter, Eding!Paused, Eding!Running

(* So does a start of a job.                                               *)
LEMMA RunKeepsTypes ==
  ASSUME Typed, Eding!CncRunOrResumeJob
  PROVE  ie' \in Eding!Interpreter
<1> USE DEF Eding!Interpreter, Eding!Running
<1>1. CASE motion # "none" \/ ~output
  BY <1>1 DEF Eding!CncRunOrResumeJob, Typed
<1>2. CASE ~(motion # "none" \/ ~output)
  BY <1>2 DEF Eding!CncRunOrResumeJob, Typed
<1> QED BY <1>1, <1>2

(* A movement goes to the place that it is given.                          *)
LEMMA MoveKeepsTypes ==
  ASSUME Typed, NEW to \in Eding!Places \cup {Eding!Nowhere}, Eding!CncMoveTo(to)
  PROVE  motion' \in Eding!Motions /\ goal' \in Eding!Places \cup {Eding!Nowhere}
BY DEF Eding!CncMoveTo, Typed, Eding!Motions

(* What EdingCNC and its operator do keeps the types.                      *)
LEMMA EdingKeepsTypes ==
  ASSUME Typed, Eding!Eding
  PROVE  Typed'
<1> USE DEF Typed
<1>1. CASE Eding!AxisMoves
  BY <1>1 DEF Eding!AxisMoves
<1>2. CASE Eding!Arrives
  BY <1>2 DEF Eding!Arrives, Eding!Rest, Eding!Motions
<1>3. CASE Eding!TrackingStarts
  BY <1>3 DEF Eding!TrackingStarts, Eding!Motions
<1>4. CASE Eding!JobMoves
  BY <1>4 DEF Eding!JobMoves
<1>5. CASE Eding!JobSteps
  <2>1. ie' \in Eding!Interpreter
    BY <1>5 DEF Eding!JobSteps, Eding!Interpreter, Eding!Paused
  <2>2. pause' \in Pauses
    BY <1>5, PlacesHere, PausesAreTyped DEF Eding!JobSteps
  <2> QED BY <1>5, <2>1, <2>2 DEF Eding!JobSteps
<1>6. CASE Eding!Fails
  BY <1>6 DEF Eding!Fails, Eding!Rest, Eding!Interpreter, Eding!Motions
<1>7. CASE Eding!OperatorMoves
  BY <1>7 DEF Eding!OperatorMoves, Eding!Rest, Eding!Motions
<1>8. CASE Eding!OperatorRuns
  <2>1. told' \in Eding!Zs \cup {Eding!Lowest}
    BY <1>8 DEF Eding!OperatorRuns, Eding!Remember
  <2>2. ie' \in Eding!Interpreter /\ pause' \in Pauses
    BY <1>8, PauseKeepsTypes, RunKeepsTypes, ResetKeepsTypes DEF Eding!OperatorRuns
  <2> QED BY <1>8, <2>1, <2>2 DEF Eding!OperatorRuns
<1>9. CASE Eding!OperatorReleases
  BY <1>9 DEF Eding!OperatorReleases
<1> QED BY <1>1, <1>2, <1>3, <1>4, <1>5, <1>6, <1>7, <1>8, <1>9 DEF Eding!Eding

(* So do the commands of the network thread.                               *)
LEMMA CommandsKeepTypes ==
  ASSUME Typed, Eding!Commands
  PROVE  Typed'
<1> USE DEF Typed, Eding!Free
<1>1. CASE Eding!UpdateState
  BY <1>1 DEF Eding!UpdateState, Eding!Higher
<1>2. ASSUME NEW on \in BOOLEAN, Eding!DrivesOn(on) PROVE Typed'
  <2>1. CASE on
    <3>1. ie' \in Eding!Interpreter /\ motion' \in Eding!Motions /\ output' \in BOOLEAN
      BY <1>2, <2>1, ResetKeepsTypes DEF Eding!DrivesOn, Eding!DrivesUp, Eding!Rest, Eding!Motions
    <3>2. goal' \in Eding!Places \cup {Eding!Nowhere} /\ pause' \in Pauses
      BY <1>2, <2>1 DEF Eding!DrivesOn, Eding!DrivesUp, Eding!Rest
    <3> QED BY <1>2, <3>1, <3>2 DEF Eding!DrivesOn
  <2>2. CASE ~on
    <3>1. ie' \in Eding!Interpreter /\ pause' \in Pauses
      BY <1>2, <2>2, PauseKeepsTypes DEF Eding!DrivesOn, Eding!DrivesOff
    <3>2. /\ motion' \in Eding!Motions /\ goal' \in Eding!Places \cup {Eding!Nowhere}
          /\ output' = FALSE
      BY <1>2, <2>2 DEF Eding!DrivesOn, Eding!DrivesOff, Eding!Rest, Eding!Motions
    <3> QED BY <1>2, <3>1, <3>2 DEF Eding!DrivesOn
  <2> QED BY <2>1, <2>2
<1>3. ASSUME NEW move \in BOOLEAN, Eding!JogVel(move) PROVE Typed'
  BY <1>3 DEF Eding!JogVel, Eding!Rest, Eding!Motions
<1>4. ASSUME NEW loads \in BOOLEAN, Eding!LoadJob(loads) PROVE Typed'
  BY <1>4 DEF Eding!LoadJob
<1>5. CASE Eding!JogStep
  BY <1>5, MoveKeepsTypes DEF Eding!JogStep
<1>6. CASE Eding!Mdi
  BY <1>6 DEF Eding!Mdi, Eding!CncRunSingleLine, Eding!Interpreter, Eding!Running
<1>7. CASE Eding!CycleStop
  BY <1>7, ResetKeepsTypes DEF Eding!CycleStop
<1>8. CASE Eding!FeedHold
  BY <1>8, PauseKeepsTypes DEF Eding!FeedHold
<1>9. CASE Eding!CycleStartFresh
  BY <1>9, RunKeepsTypes DEF Eding!CycleStartFresh
<1>10. CASE Eding!CycleStartAtOnce
  BY <1>10, RunKeepsTypes DEF Eding!CycleStartAtOnce, Eding!Remember
<1>11. CASE Eding!CheckPause
  <2>1. Eding!SafeHeight \in Eding!Zs
    BY PlacesHere, PlacesAreTyped DEF Eding!SafeHeight, Eding!Higher
  <2>2. checking' = "lift" /\ pausePos' \in Eding!Places /\ pausePos' # Eding!Nowhere
    BY <1>11, PlacesHere, PlacesAreTyped DEF Eding!CheckPause
  <2>3. hold' \in Eding!Zs /\ from' \in Eding!Zs /\ zMax' \in Eding!Zs /\ disturbed' = FALSE
    BY <1>11, <2>1 DEF Eding!CheckPause
  <2>4. motion' \in Eding!Motions /\ goal' \in Eding!Places \cup {Eding!Nowhere}
    <3>1. [x |-> x, z |-> Eding!SafeHeight] \in Eding!Places
      BY <2>1, PlacesAreTyped
    <3> QED BY <1>11, <3>1, MoveKeepsTypes DEF Eding!CheckPause
  <2> QED BY <1>11, <2>2, <2>3, <2>4 DEF Eding!CheckPause
<1> QED BY <1>1, <1>2, <1>3, <1>4, <1>5, <1>6, <1>7, <1>8, <1>9, <1>10, <1>11 DEF Eding!Commands

(* And so does the wait of CheckPause(), which goes where it decided to.   *)
LEMMA WaitKeepsTypes ==
  ASSUME Typed, ReturnInv, Eding!WaitMove
  PROVE  Typed'
<1> USE DEF Typed, Eding!Free
<1>1. CASE Eding!WaitFails
  BY <1>1 DEF Eding!WaitFails, Eding!Leave
<1>2. CASE Eding!Traverse
  <2>1. [x |-> pausePos.x, z |-> hold] \in Eding!Places
    BY <1>2, PlacesAreTyped DEF Eding!Traverse, ReturnInv
  <2>2. motion' \in Eding!Motions /\ goal' \in Eding!Places \cup {Eding!Nowhere}
    BY <1>2, <2>1, MoveKeepsTypes DEF Eding!Traverse
  <2> QED BY <1>2, <2>2 DEF Eding!Traverse
<1>3. CASE Eding!Lower
  <2>1. motion' \in Eding!Motions /\ goal' \in Eding!Places \cup {Eding!Nowhere}
    BY <1>3, MoveKeepsTypes DEF Eding!Lower
  <2> QED BY <1>3, <2>1 DEF Eding!Lower
<1>4. CASE Eding!Resume
  BY <1>4, RunKeepsTypes DEF Eding!Resume, Eding!Remember, Eding!Leave
<1> QED BY <1>1, <1>2, <1>3, <1>4 DEF Eding!WaitMove

-----------------------------------------------------------------------------
(* m_zMax is thrown away only together with what was told.                 *)
LEMMA HeightStep ==
  ASSUME Typed, HeightInv, Eding!Next
  PROVE  HeightInv'
<1> USE DEF HeightInv, Typed, Eding!Remember
<1>1. CASE Eding!Eding
  <2>1. CASE Eding!OperatorRuns
    BY <2>1 DEF Eding!OperatorRuns
  <2>2. CASE ~Eding!OperatorRuns
    BY <1>1, <2>2 DEF Eding!Eding, Eding!AxisMoves, Eding!Arrives, Eding!TrackingStarts,
                      Eding!JobMoves, Eding!JobSteps, Eding!Fails, Eding!OperatorMoves,
                      Eding!OperatorReleases
  <2> QED BY <2>1, <2>2
<1>2. CASE Eding!WaitMove
  BY <1>2 DEF Eding!WaitMove, Eding!WaitFails, Eding!Traverse, Eding!Lower, Eding!Resume
<1>3. CASE Eding!Commands
  <2>1. CASE Eding!UpdateState
    BY <2>1 DEF Eding!UpdateState, Eding!Higher
  <2>2. CASE Eding!CycleStartFresh \/ Eding!CycleStartAtOnce
    BY <2>2 DEF Eding!CycleStartFresh, Eding!CycleStartAtOnce
  <2>3. CASE Eding!CheckPause
    <3>1. Eding!SafeHeight >= zMax
      BY PlacesHere, PlacesAreTyped DEF Eding!SafeHeight, Eding!Higher
    <3>2. Eding!SafeHeight \in Int
      BY PlacesHere, PlacesAreTyped DEF Eding!SafeHeight, Eding!Higher
    <3> QED BY <2>3, <3>1, <3>2 DEF Eding!CheckPause
  <2>4. CASE \E flag \in BOOLEAN : Eding!DrivesOn(flag) \/ Eding!JogVel(flag) \/ Eding!LoadJob(flag)
    BY <2>4 DEF Eding!DrivesOn, Eding!JogVel, Eding!LoadJob
  <2>5. CASE Eding!JogStep \/ Eding!Mdi \/ Eding!CycleStop \/ Eding!FeedHold
    BY <2>5 DEF Eding!JogStep, Eding!Mdi, Eding!CycleStop, Eding!FeedHold
  <2> QED BY <1>3, <2>1, <2>2, <2>3, <2>4, <2>5 DEF Eding!Commands
<1> QED BY <1>1, <1>2, <1>3 DEF Eding!Next

(* CheckPause() sets out for a height that is safe.                        *)
LEMMA CheckPauseSetsOut ==
  ASSUME Typed, HeightInv, Eding!CheckPause
  PROVE  ReturnInv'
<1> USE DEF Typed, HeightInv
<1>1. ie \in Eding!Paused /\ motion \in {"none", "starting"}
  BY DEF Eding!CheckPause, Eding!CncGetState, Eding!Moves, Eding!Motions, Eding!Paused
<1>2. /\ Eding!SafeHeight \in Eding!Zs
      /\ Eding!SafeHeight >= z /\ Eding!SafeHeight >= pause.at.z /\ Eding!SafeHeight >= told
  BY PlacesHere, PlacesAreTyped DEF Eding!SafeHeight, Eding!Higher
<1>3. pausePos' = pause.at /\ pausePos' \in Eding!Places /\ hold' \in Eding!Zs /\ from' \in Eding!Zs
  BY <1>2, PlacesHere DEF Eding!CheckPause
<1>4. ie' \in Eding!Paused /\ (pause.at = pausePos)'
  BY <1>1, <1>3 DEF Eding!CheckPause
<1>5. checking' = "lift"
  BY DEF Eding!CheckPause
<1>6. High'
  BY <1>2, <1>3 DEF High, Eding!CheckPause
<1>7. CASE x # pause.at.x
  <2>1. hold' = Eding!SafeHeight /\ Eding!CncMoveTo([x |-> x, z |-> Eding!SafeHeight])
    BY <1>7 DEF Eding!CheckPause
  <2>2. ASSUME Eding!MayMove PROVE Lifting'
    BY <1>5, <1>6, <2>1, <2>2 DEF Lifting, Eding!CncMoveTo, Eding!CheckPause
  <2>3. ASSUME ~Eding!MayMove PROVE Lifting'
    <3>1. motion' = motion
      BY <2>1, <2>3 DEF Eding!CncMoveTo
    <3>2. ~(motion = "none" /\ output)
      BY <1>1, <2>3 DEF Eding!MayMove
    <3> QED BY <1>1, <1>5, <1>6, <3>1, <3>2 DEF Lifting, Eding!CheckPause
  <2>4. Lifting'
    BY <2>2, <2>3
  <2> QED BY <1>3, <1>4, <1>5, <2>4 DEF ReturnInv, Returning, Traversing, Lowering
<1>8. CASE x = pause.at.x
  <2>1. Lifting'
    BY <1>1, <1>5, <1>6, <1>8 DEF Lifting, Eding!CheckPause
  <2> QED BY <1>3, <1>4, <1>5, <2>1 DEF ReturnInv, Returning, Traversing, Lowering
<1> QED BY <1>7, <1>8

(* No other command is served while CheckPause() waits.                    *)
LEMMA CommandsKeepReturn ==
  ASSUME Typed, HeightInv, ReturnInv, Eding!Commands
  PROVE  ReturnInv'
<1> USE DEF ReturnInv, Eding!Free
<1>1. CASE Eding!CheckPause
  BY <1>1, CheckPauseSetsOut
<1>2. CASE Eding!UpdateState \/ Eding!CycleStartFresh \/ Eding!CycleStartAtOnce
  BY <1>2 DEF Eding!UpdateState, Eding!CycleStartFresh, Eding!CycleStartAtOnce
<1>3. CASE \E flag \in BOOLEAN : Eding!DrivesOn(flag) \/ Eding!JogVel(flag) \/ Eding!LoadJob(flag)
  BY <1>3 DEF Eding!DrivesOn, Eding!JogVel, Eding!LoadJob
<1>4. CASE Eding!JogStep \/ Eding!Mdi \/ Eding!CycleStop \/ Eding!FeedHold
  BY <1>4 DEF Eding!JogStep, Eding!Mdi, Eding!CycleStop, Eding!FeedHold
<1> QED BY <1>1, <1>2, <1>3, <1>4 DEF Eding!Commands

(* Each wait of CheckPause() hands over to the next what it relies on.     *)
LEMMA WaitKeepsReturn ==
  ASSUME Typed, ReturnInv, Eding!WaitMove
  PROVE  ReturnInv'
<1> USE DEF ReturnInv
<1>1. CASE Eding!WaitFails \/ Eding!Resume
  BY <1>1 DEF Eding!WaitFails, Eding!Resume, Eding!Leave
<1>2. CASE Eding!Traverse
  <2>1. checking = "lift" /\ checking' = "traverse"
    BY <1>2 DEF Eding!Traverse
  <2>2. UNCHANGED <<ie, Eding!device, Eding!place, pause, Eding!local, told, disturbed>>
    BY <1>2 DEF Eding!Traverse
  <2>3. SUFFICES ASSUME ~disturbed', motion' = "axisjog"
                 PROVE  /\ goal' = [x |-> pausePos.x, z |-> hold]
                        /\ z = hold /\ High
    BY <2>1, <2>2, <2>3 DEF Returning, Lifting, Traversing, Lowering, High
  <2>4. motion # "axisjog"
    BY <1>2 DEF Eding!Traverse, Eding!Waits, Eding!CncGetState, Eding!Moves
  <2>5. Eding!MayMove /\ goal' = [x |-> pausePos.x, z |-> hold]
    BY <1>2, <2>3, <2>4 DEF Eding!Traverse, Eding!CncMoveTo
  <2> QED BY <2>1, <2>2, <2>3, <2>5 DEF Returning, Lifting, Eding!MayMove
<1>3. CASE Eding!Lower
  <2>1. checking = "traverse" /\ checking' = "lower"
    BY <1>3 DEF Eding!Lower
  <2>2. UNCHANGED <<ie, Eding!device, Eding!place, pause, Eding!local, told, disturbed>>
    BY <1>3 DEF Eding!Lower
  <2>3. ie = "pausedJob" /\ motion # "axisjog"
    BY <1>3 DEF Eding!Lower, Eding!Waits, Eding!CncGetState, Eding!Moves, Typed
  <2>4. motion' = "axisjog" => goal' = pausePos
    BY <1>3, <2>3 DEF Eding!Lower, Eding!CncMoveTo
  <2>5. ~(motion' = "none" /\ output')
    BY <1>3, <2>2, <2>3 DEF Eding!Lower, Eding!CncMoveTo, Eding!MayMove, Eding!Paused
  <2> QED BY <2>1, <2>2, <2>4, <2>5 DEF Returning, Lifting, Traversing, Lowering
<1> QED BY <1>1, <1>2, <1>3 DEF Eding!WaitMove

(* An axis that is where it should be does not move.                       *)
LEMMA TowardsMoves ==
  ASSUME NEW now \in Int, NEW to \in Nat
  PROVE  (Eding!Towards(now, to) # {}) => now # to
BY DEF Eding!Towards

(* The machine moves as CheckPause() expects, or it has been disturbed.    *)
LEMMA EdingKeepsReturn ==
  ASSUME Typed, ReturnInv, Eding!Eding
  PROVE  ReturnInv'
<1> USE DEF ReturnInv, Typed
<1>1. UNCHANGED <<checking, pausePos, hold, from>>
  BY DEF Eding!Eding, Eding!AxisMoves, Eding!Arrives, Eding!TrackingStarts, Eding!JobMoves,
         Eding!JobSteps, Eding!Fails, Eding!OperatorMoves, Eding!OperatorRuns,
         Eding!OperatorReleases
<1>2. SUFFICES ASSUME checking # "no", ~disturbed'
               PROVE  Returning'
  BY <1>1
<1>3. UNCHANGED <<disturbed, told>>
  BY <1>2 DEF Eding!Eding, Eding!AxisMoves, Eding!Arrives, Eding!TrackingStarts, Eding!JobMoves,
              Eding!JobSteps, Eding!Fails, Eding!OperatorMoves, Eding!OperatorRuns,
              Eding!OperatorReleases
<1>4. Returning /\ pausePos \in Eding!Places /\ hold \in Eding!Zs
  BY <1>2, <1>3
<1>5. pausePos.x \in Eding!Xs /\ pausePos.z \in Eding!Zs
  BY <1>4, PlacesAreTyped
<1>6. ie \notin {"idle"} \cup Eding!Running
  BY <1>4 DEF Returning, Eding!Paused, Eding!Running
<1>7. CASE Eding!AxisMoves
  <2>1. UNCHANGED <<ie, motion, goal, pause, output>> /\ motion # "none"
    BY <1>7 DEF Eding!AxisMoves, Eding!Moves
  <2>2. Lifting'
    BY <1>1, <1>3, <1>4, <2>1, <1>7, TowardsMoves DEF Returning, Lifting, High, Eding!AxisMoves,
         Eding!Moves
  <2>3. Traversing'
    BY <1>1, <1>3, <1>4, <1>5, <2>1, <1>7, TowardsMoves
         DEF Returning, Traversing, High, Eding!AxisMoves
  <2>4. Lowering'
    BY <1>1, <1>4, <2>1 DEF Returning, Lowering
  <2> QED BY <1>1, <1>4, <2>1, <2>2, <2>3, <2>4 DEF Returning
<1>8. CASE Eding!Arrives
  <2>1. motion = "axisjog" /\ motion' = "none" /\ goal \in {Eding!Nowhere, Eding!Here}
    BY <1>8 DEF Eding!Arrives, Eding!Rest
  <2>2. UNCHANGED <<ie, pause, output, x, z>>
    BY <1>8 DEF Eding!Arrives
  <2>3. checking = "lift" => goal = [x |-> x, z |-> hold] /\ goal \in Eding!Places /\ High
    BY <1>4, <2>1, PlacesAreTyped DEF Returning, Lifting
  <2>4. checking = "lower" => goal = pausePos
    BY <1>4, <2>1 DEF Returning, Lowering
  <2>5. goal = Eding!Here \/ checking = "traverse"
    BY <1>2, <1>4, <2>1, <2>3, <2>4, PlacesAreTyped
  <2>6. checking = "lift" => z = hold
    BY <2>3, <2>5, PlacesAreTyped DEF Eding!Here
  <2>7. Lifting' /\ Traversing' /\ Lowering'
    BY <1>1, <1>3, <2>1, <2>2, <2>3, <2>4, <2>5, <2>6 DEF Lifting, Traversing, Lowering, High,
         Eding!Here
  <2> QED BY <1>1, <1>4, <2>2, <2>7 DEF Returning
<1>9. CASE Eding!TrackingStarts
  BY <1>1, <1>3, <1>4, <1>9 DEF Eding!TrackingStarts, Returning, Lifting, Traversing, Lowering
<1>10. CASE Eding!JobMoves \/ Eding!JobSteps
  BY <1>6, <1>10 DEF Eding!JobMoves, Eding!JobSteps, Eding!Running
<1>11. CASE Eding!Fails \/ Eding!OperatorMoves \/ Eding!OperatorRuns
  BY <1>2, <1>11 DEF Eding!Fails, Eding!OperatorMoves, Eding!OperatorRuns
<1>12. CASE Eding!OperatorReleases
  BY <1>1, <1>3, <1>4, <1>12 DEF Eding!OperatorReleases, Returning, Lifting, Traversing, Lowering,
                                 High, Eding!Here
<1> QED BY <1>7, <1>8, <1>9, <1>10, <1>11, <1>12 DEF Eding!Eding

-----------------------------------------------------------------------------
(* The server of EdingCNC, EdingCNC itself and its operator.               *)
LEMMA EdingKeepsEding ==
  ASSUME EdingInv, Eding!Next
  PROVE  EdingInv'
<1>1. Typed /\ HeightInv /\ ReturnInv
  BY TypedIsTypeOK DEF EdingInv
<1>2. Typed'
  BY <1>1, EdingKeepsTypes, CommandsKeepTypes, WaitKeepsTypes DEF Eding!Next
<1>3. HeightInv'
  BY <1>1, HeightStep
<1>4. ReturnInv'
  BY <1>1, EdingKeepsReturn, CommandsKeepReturn, WaitKeepsReturn DEF Eding!Next
<1> QED BY <1>2, <1>3, <1>4, TypedIsTypeOK DEF EdingInv

(* Whoever takes no step stands still.                                     *)
LEMMA OthersStandStill ==
  /\ HostInv /\ UNCHANGED <<system, hostVars>> => HostInv'
  /\ LinuxInv /\ UNCHANGED <<system, hostVars, linuxOnly>> => LinuxInv'
  /\ WindowsInv /\ UNCHANGED <<system, hostVars, windowsOnly>> => WindowsInv'
  /\ EdingInv /\ UNCHANGED cncVars => EdingInv'
  /\ SimInv /\ UNCHANGED simVars => SimInv'
<1>1. HostInv /\ UNCHANGED <<system, hostVars>> => HostInv'
  BY DEF HostInv, CallsBy
<1>2. LinuxInv /\ UNCHANGED <<system, hostVars, linuxOnly>> => LinuxInv'
  BY DEF LinuxInv, Using
<1>3. WindowsInv /\ UNCHANGED <<system, hostVars, windowsOnly>> => WindowsInv'
  BY DEF WindowsInv, CountInv
<1>4. EdingInv /\ UNCHANGED cncVars => EdingInv'
  <2>1. SUFFICES ASSUME Typed, HeightInv, ReturnInv, UNCHANGED cncVars
                 PROVE  Typed' /\ HeightInv' /\ ReturnInv'
    BY TypedIsTypeOK DEF EdingInv
  <2>2. Typed' /\ HeightInv'
    BY <2>1 DEF Typed, HeightInv
  <2>3. ReturnInv'
    BY <2>1 DEF ReturnInv, Returning, Lifting, Traversing, Lowering, High, Eding!Here
  <2> QED BY <2>2, <2>3
<1>5. SimInv /\ UNCHANGED simVars => SimInv'
  BY DEF SimInv
<1> QED BY <1>1, <1>2, <1>3, <1>4, <1>5

(* The parts that a plugin leaves alone do not depend on its host.         *)
LEMMA HostsStandApart ==
  ASSUME UNCHANGED system
  PROVE  /\ HostInv' /\ LinuxInv /\ UNCHANGED linuxOnly /\ system = "windows" => LinuxInv'
         /\ WindowsInv /\ UNCHANGED windowsOnly /\ system = "linux" => WindowsInv'
<1>1. HostInv' /\ LinuxInv /\ UNCHANGED linuxOnly /\ system = "windows" => LinuxInv'
  BY DEF LinuxInv, HostInv, Using
<1>2. WindowsInv /\ UNCHANGED windowsOnly /\ system = "linux" => WindowsInv'
  BY DEF WindowsInv, CountInv
<1> QED BY <1>1, <1>2

(* At first nothing is loaded, nothing runs, and the machine is at rest.   *)
LEMMA InvInit ==
  ASSUME Init
  PROVE  IInv
<1>1. HostInv
  BY DEF Init, Host!Init, HostInv, CallsBy
<1>2. LinuxInv
  BY DEF Init, Host!Init, Linux!Init, Linux!Fresh, LinuxInv, Using
<1>3. WindowsInv
  <2>1. CountInv
    BY DEF Init, Windows!Init, CountInv
  <2> QED BY <2>1 DEF Init, Host!Init, Windows!Init, WindowsInv
<1>4. EdingInv
  BY EdingInit, BoundsAssumption DEF Init
<1>5. SimInv
  BY NothingIsNear DEF Init, Simulator!Init, SimInv
<1> QED BY <1>1, <1>2, <1>3, <1>4, <1>5 DEF IInv

(* The steps of every driver and of whoever works beside it.               *)
LEMMA InvStep ==
  ASSUME IInv, [Next]_vars
  PROVE  IInv'
<1> USE DEF IInv
<1>1. CASE OnLinux
  <2>1. UNCHANGED <<system, windowsOnly, cncVars, simVars>> /\ system = "linux"
    BY <1>1 DEF OnLinux
  <2>2. HostInv' /\ LinuxInv'
    BY <1>1, <2>1, HostKeepsHost, HostKeepsLinux, LinuxKeepsLinux DEF OnLinux
  <2> QED BY <2>1, <2>2, OthersStandStill, HostsStandApart
<1>2. CASE OnWindows
  <2>1. UNCHANGED <<system, linuxOnly, cncVars, simVars>> /\ system = "windows"
    BY <1>2 DEF OnWindows
  <2>2. HostInv' /\ WindowsInv'
    BY <1>2, <2>1, HostKeepsHost, HostKeepsWindows, WindowsKeepsWindows DEF OnWindows
  <2> QED BY <2>1, <2>2, OthersStandStill, HostsStandApart
<1>3. CASE OnEding
  BY <1>3, EdingKeepsEding, OthersStandStill DEF OnEding
<1>4. CASE OnSim
  BY <1>4, SimKeepsSim, OthersStandStill DEF OnSim
<1>5. CASE UNCHANGED vars
  BY <1>5, OthersStandStill DEF vars
<1> QED BY <1>1, <1>2, <1>3, <1>4, <1>5 DEF Next

(* The invariant holds throughout.                                         *)
LEMMA InvAlways == Spec => []IInv
<1>1. Init => IInv
  BY InvInit
<1>2. IInv /\ [Next]_vars => IInv'
  BY InvStep
<1> QED BY <1>1, <1>2, PTL DEF Spec

-----------------------------------------------------------------------------
(* Every variable has its type: whatever happens while CheckPause() waits, *)
(* it moves to places of the machine only, and a step of the simulator     *)
(* beyond the target stays as near as the longest step.                    *)
THEOREM TypeCorrect == Spec => []TypeOK
<1>1. IInv => TypeOK
  <2>1. HostInv => call \in {"none", "asking", "waitpid"} \cup Host!Calls
    BY DEF HostInv, CallsBy, Host!Calls
  <2> QED BY <2>1 DEF IInv, HostInv, LinuxInv, WindowsInv, CountInv, EdingInv, SimInv, TypeOK
<1> QED BY <1>1, InvAlways, PTL

(* No plugin that has refused or been stopped is used, and no function of  *)
(* EdingCNC that is not there is called, by the plugin or by its clients.  *)
THEOREM NoStrayCallsAlways == Spec => []NoStrayCalls
<1>1. IInv => NoStrayCalls
  BY DEF IInv, LinuxInv, WindowsInv, NoStrayCalls
<1> QED BY <1>1, InvAlways, PTL

(* A client that uses no plugin has left no process behind.                *)
THEOREM NothingIsLeftBehind == Spec => []NothingLeftBehind
<1>1. IInv => NothingLeftBehind
  BY DEF IInv, LinuxInv, Using, NothingLeftBehind
<1> QED BY <1>1, InvAlways, PTL

(* On its way aside the tool is at the height that CheckPause() holds.     *)
LEMMA InvLifted ==
  IInv => ReturnsLifted
<1>1. SUFFICES ASSUME Typed, ReturnInv,
                      checking = "traverse", motion = "axisjog", x # goal.x, ~disturbed
               PROVE  z >= from /\ z >= pause.at.z /\ z >= told
  BY TypedIsTypeOK DEF IInv, EdingInv, ReturnsLifted, Eding!ReturnsLifted
<1>2. Traversing /\ pause.at = pausePos
  BY <1>1 DEF ReturnInv, Returning
<1>3. z = hold /\ High /\ x # pausePos.x
  BY <1>1, <1>2 DEF Traversing
<1> QED BY <1>2, <1>3 DEF High

(* The tool returns to a pause at a height that is safe.                   *)
THEOREM ReturnIsLifted == Spec => []ReturnsLifted
BY InvLifted, InvAlways, PTL

(* What ResumesAtPause says of a step.                                     *)
Resumed ==
  ie = "pausedJob" /\ ie' = "running" /\ ~disturbed' => pause.manual \/ pause.at = Eding!Here

(* Nobody but CycleStart() lets a paused job go on without disturbing it.  *)
LEMMA InvResumes ==
  ASSUME IInv, [Next]_vars
  PROVE  Resumed
<1>1. Typed /\ ReturnInv
  BY TypedIsTypeOK DEF IInv, EdingInv
<1>2. SUFFICES ASSUME Eding!Next, ie = "pausedJob", ie' = "running", ~disturbed'
               PROVE  pause.manual \/ pause.at = Eding!Here
  BY DEF Resumed, vars, Next, OnLinux, OnWindows, OnEding, OnSim
<1>3. ~Eding!Eding
  BY <1>2 DEF Eding!Eding, Eding!AxisMoves, Eding!Arrives, Eding!TrackingStarts, Eding!JobMoves, Eding!JobSteps, Eding!Fails, Eding!Running,
              Eding!OperatorMoves, Eding!OperatorRuns, Eding!OperatorReleases
<1>4. CASE Eding!Resume
  <2>1. motion = "none" /\ output
    BY <1>2, <1>4 DEF Eding!Resume, Eding!CncRunOrResumeJob
  <2>2. checking = "lower" /\ ~disturbed
    BY <1>2, <1>4 DEF Eding!Resume
  <2>3. pause.at = pausePos /\ Lowering
    BY <1>1, <2>2 DEF ReturnInv, Returning
  <2> QED BY <2>1, <2>2, <2>3 DEF Lowering
<1>5. CASE Eding!CycleStartAtOnce
  BY <1>2, <1>5 DEF Eding!CycleStartAtOnce, Eding!AtPause
<1>6. ~(Eding!CycleStartFresh \/ Eding!Mdi \/ Eding!CycleStop \/ Eding!FeedHold)
  <2>1. ~Eding!CycleStartFresh
    BY <1>1, <1>2 DEF Eding!CycleStartFresh, Eding!CncGetState, Eding!Moves, Eding!Paused, Eding!CncRunOrResumeJob, Typed
  <2>2. ~Eding!Mdi
    BY <1>2 DEF Eding!Mdi, Eding!CncRunSingleLine
  <2>3. ~Eding!CycleStop
    BY <1>2 DEF Eding!CycleStop, Eding!AfterReset, Eding!PausedFrom
  <2>4. ~Eding!FeedHold
    BY <1>2 DEF Eding!FeedHold, Eding!CncPauseJob, Eding!PausedFrom
  <2> QED BY <2>1, <2>2, <2>3, <2>4
<1>7. \A on \in BOOLEAN : ~Eding!DrivesOn(on)
  BY <1>2 DEF Eding!DrivesOn, Eding!DrivesUp, Eding!DrivesOff, Eding!AfterReset, Eding!CncPauseJob, Eding!PausedFrom
<1>8. CASE Eding!WaitFails \/ Eding!Traverse \/ Eding!Lower
  BY <1>2, <1>8 DEF Eding!WaitFails, Eding!Traverse, Eding!Lower
<1>9. CASE Eding!UpdateState \/ Eding!JogStep \/ Eding!CheckPause \/ \E flag \in BOOLEAN : Eding!JogVel(flag) \/ Eding!LoadJob(flag)
  BY <1>2, <1>9 DEF Eding!UpdateState, Eding!JogStep, Eding!CheckPause, Eding!JogVel, Eding!LoadJob
<1> QED BY <1>2, <1>3, <1>4, <1>5, <1>6, <1>7, <1>8, <1>9 DEF Eding!Next, Eding!Commands, Eding!WaitMove

(* A job goes on where it was paused.                                      *)
THEOREM JobResumesAtPause == Spec => ResumesAtPause
<1>1. IInv /\ [Next]_vars => [Resumed]_Eding!cncVars
  BY InvResumes
<1> QED BY <1>1, InvAlways, PTL DEF Spec, ResumesAtPause, Eding!ResumesAtPause, Resumed
==============================================================================
