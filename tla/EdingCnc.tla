------------------------------ MODULE EdingCnc -------------------------------
(***************************************************************************)
(* The EdingCNC server (drivers/EdingCNC402/EdingCNC.cpp) at work: the     *)
(* commands that the network thread hands to EdingCNC while EdingCNC's     *)
(* operator, its emergency stop and the machine itself go on.  Every call  *)
(* into cncapi.dll is a step of EdingCNC; only CheckPause() waits between  *)
(* two calls, in WaitMove(), and the network thread waits with it.         *)
(*                                                                         *)
(* EdingCNC tells one state of a long list.  Here it is two: ie, what the  *)
(* interpreter does, and motion, a movement laid over it.  x stands for x  *)
(* and y, which are used alike, z is the height of the tool.               *)
(***************************************************************************)
EXTENDS Integers

CONSTANTS MaxX, MaxZ   \* bounds: places beside each other, heights

Paused == {"pausedJob", "pausedLine"}       \* pausedLine: line, sub, searches
Running == {"running", "line"}              \* line: line, sub, searches
Interpreter == {"idle", "ready", "error"} \cup Running \cup Paused
Motions == {"none", "axisjog", "starting", "tracking", "wheel"}
Xs == 0 .. MaxX
Zs == 0 .. MaxZ
Lowest == -1                                \* -1e17
Places == [x : Xs, z : Zs]
Nowhere == [x |-> Lowest, z |-> Lowest]

VARIABLES
  ie, motion,     \* CncGetState()
  goal,           \* where CncMoveTo() goes, or Nowhere
  output,         \* CNC_IOID_DRIVE_ENABLE_OUT
  emstop,         \* CncGetEMStopActive()
  job,            \* a file is loaded
  x, z,           \* CncGetMachinePos()
  pause,          \* CncGetPauseStatus()
  zMax,           \* m_zMax
  checking,       \* what CheckPause() waits for, or "no"
  pausePos, hold, \* its pausePos and machinePos.z
  from,           \* history: the height at which it began
  told,           \* history: the greatest height told since the job began
                  \* or m_zMax was thrown away
  disturbed       \* history: not left alone since the last CycleStart()

place == <<x, z>>
device == <<output, emstop, job>>
local == <<pausePos, hold, from>>
driver == <<zMax, checking, local>>
cncVars == <<ie, motion, goal, device, place, pause, driver, told, disturbed>>

Here == [x |-> x, z |-> z]

Init ==
  /\ ie = "idle" /\ motion = "none" /\ goal = Nowhere
  /\ output = FALSE /\ emstop = FALSE /\ job = FALSE
  /\ x = 0 /\ z = 0
  /\ pause = [at |-> Here, valid |-> FALSE, manual |-> FALSE]
  /\ zMax = 0 /\ told = Lowest
  /\ checking = "no" /\ pausePos = Nowhere /\ hold = Lowest /\ from = Lowest
  /\ disturbed = FALSE

-----------------------------------------------------------------------------
(* EdingCNC, as its headers describe it and the server uses it.            *)

(* A tracking that has not started yet is not seen.                        *)
Moves == motion \in {"axisjog", "tracking", "wheel"}
CncGetState == IF Moves THEN motion ELSE ie

MayMove == motion = "none" /\ output /\ ie \in {"ready"} \cup Paused
Rest == motion' = "none" /\ goal' = Nowhere

CncMoveTo(to) ==
  IF MayMove THEN motion' = "axisjog" /\ goal' = to ELSE UNCHANGED <<motion, goal>>

PausedFrom(state) ==
  CASE state = "running" -> "pausedJob" [] state = "line" -> "pausedLine" [] OTHER -> state

(* A line or a search may be paused where no return is known.              *)
CncPauseJob ==
  /\ ie' = PausedFrom(ie)
  /\ IF ie = ie' THEN UNCHANGED pause
     ELSE \E known \in {TRUE, ie = "running"} :
            pause' = [at |-> Here, valid |-> known, manual |-> FALSE]

AfterReset(state) ==
  IF ~Moves /\ ~emstop /\ state \in {"error"} \cup Paused THEN "ready" ELSE state

Begins == ie = "ready" /\ job /\ motion = "none" /\ output

CncRunOrResumeJob ==
  ie' = IF motion # "none" \/ ~output THEN ie
        ELSE CASE Begins \/ ie = "pausedJob" -> "running"
               [] ie = "pausedLine" -> "line"
               [] OTHER -> ie

(* History, with every CncRunOrResumeJob() but that of CycleStartFresh.    *)
Remember == told' = IF Begins THEN Lowest ELSE told

CncRunSingleLine ==
  ie' = IF ie = "ready" /\ motion = "none" /\ output THEN "line" ELSE ie

Towards(now, to) ==
  IF to = Lowest THEN {now - 1, now + 1}
  ELSE CASE to > now -> {now + 1}
         [] to < now -> {now - 1}
         [] OTHER -> {}

(* The axes of a CncMoveTo() need not keep step; a jog goes anywhere.      *)
AxisMoves ==
  /\ Moves /\ output
  /\ \/ x' \in Xs \cap Towards(x, goal.x) /\ UNCHANGED z
     \/ z' \in Zs \cap Towards(z, goal.z) /\ UNCHANGED x
  /\ UNCHANGED <<ie, motion, goal, device, pause, driver, told, disturbed>>

Arrives ==
  /\ motion = "axisjog" /\ goal \in {Nowhere, Here}
  /\ Rest
  /\ UNCHANGED <<ie, device, place, pause, driver, told, disturbed>>

TrackingStarts ==
  /\ motion = "starting" /\ motion' = "tracking"
  /\ UNCHANGED <<ie, goal, device, place, pause, driver, told, disturbed>>

JobMoves ==
  /\ ie \in Running /\ output
  /\ \/ x' \in Xs \ {x} /\ UNCHANGED z
     \/ z' \in Zs \ {z} /\ UNCHANGED x
  /\ UNCHANGED <<ie, motion, goal, device, pause, driver, told, disturbed>>

(* EdingCNC comes up; a job or a line ends; a job waits for a tool to be   *)
(* changed by hand.                                                        *)
JobSteps ==
  /\ \/ ie \in {"idle"} \cup Running /\ ie' = "ready" /\ UNCHANGED pause
     \/ /\ ie = "running" /\ ie' = "pausedJob"
        /\ pause' = [at |-> Here, valid |-> TRUE, manual |-> TRUE]
  /\ UNCHANGED <<motion, goal, device, place, driver, told, disturbed>>

Fails ==
  /\ ie # "idle" /\ ie' = "error" /\ Rest
  /\ emstop' \in {emstop, TRUE} /\ output' = FALSE
  /\ disturbed' = TRUE
  /\ UNCHANGED <<job, place, pause, driver, told>>

(* The operator, at EdingCNC's own screen, handwheel and buttons.          *)
OperatorMoves ==
  /\ \/ MayMove /\ motion' \in {"axisjog", "wheel"} /\ UNCHANGED goal
     \/ Moves /\ Rest
  /\ disturbed' = TRUE
  /\ UNCHANGED <<ie, device, place, pause, driver, told>>

OperatorRuns ==
  /\ \/ CncPauseJob /\ UNCHANGED told
     \/ CncRunOrResumeJob /\ Remember /\ UNCHANGED pause
     \/ ie' = AfterReset(ie) /\ UNCHANGED <<pause, told>>
  /\ disturbed' = TRUE
  /\ UNCHANGED <<motion, goal, device, place, driver>>

OperatorReleases ==
  /\ emstop /\ emstop' = FALSE
  /\ UNCHANGED <<ie, motion, goal, output, job, place, pause, driver, told, disturbed>>

-----------------------------------------------------------------------------
(* The network thread.  It serves one request at a time.                   *)

Free == checking = "no"

Higher(a, b) == IF a > b THEN a ELSE b

UpdateState ==
  /\ Free
  /\ CncGetState # "idle"
  /\ zMax' = Higher(zMax, z) /\ told' = Higher(told, z)
  /\ UNCHANGED <<ie, motion, goal, device, place, pause, checking, local, disturbed>>

(* A tracking is not stopped: it is none of the states that are looked for. *)
DrivesOff ==
  /\ CncPauseJob
  /\ IF CncGetState = "axisjog" THEN Rest ELSE UNCHANGED <<motion, goal>>
  /\ output' = FALSE

(* Only a tracking of the handwheel is stopped.                            *)
DrivesUp ==
  IF CncGetState \notin {"idle", "error"} /\ output THEN UNCHANGED <<ie, motion, goal, output, pause>>
  ELSE /\ ie' = AfterReset(ie) /\ output' = TRUE
       /\ IF motion = "wheel" THEN Rest ELSE UNCHANGED <<motion, goal>>
       /\ UNCHANGED pause

DrivesOn(on) ==
  /\ Free /\ ~emstop
  /\ IF on THEN DrivesUp ELSE DrivesOff
  /\ UNCHANGED <<emstop, job, place, driver, told, disturbed>>

(* A stop that comes before the tracking is seen is dropped.               *)
JogVel(move) ==
  /\ Free
  /\ LET wasMoving == CncGetState \in {"axisjog", "tracking", "wheel"}
     IN  IF move
         THEN motion' = (IF ~wasMoving /\ MayMove THEN "starting" ELSE motion) /\ UNCHANGED goal
         ELSE IF wasMoving /\ motion # "axisjog" THEN Rest ELSE UNCHANGED <<motion, goal>>
  /\ UNCHANGED <<ie, device, place, pause, driver, told, disturbed>>

(* The test is the wrong way round: a machine that is ready does not jog.  *)
JogStep ==
  /\ Free /\ CncGetState \notin {"idle", "ready", "error"}
  /\ CncMoveTo(Nowhere)
  /\ UNCHANGED <<ie, device, place, pause, driver, told, disturbed>>

(* Mdi() and every line of Home().                                         *)
Mdi ==
  /\ Free
  /\ CncRunSingleLine
  /\ UNCHANGED <<motion, goal, device, place, pause, driver, told, disturbed>>

(* CncLoadJob(), for LoadFile() and CloseFile().                           *)
LoadJob(loads) ==
  /\ Free /\ ie = "ready"
  /\ job' = loads
  /\ UNCHANGED <<ie, motion, goal, output, emstop, place, pause, driver, told, disturbed>>

(* Paused and reset at once: where it was paused is of no use any more.    *)
CycleStop ==
  /\ Free
  /\ ie' = AfterReset(PausedFrom(ie))
  /\ UNCHANGED <<motion, goal, device, place, pause, driver, told, disturbed>>

FeedHold ==
  /\ Free
  /\ CncPauseJob
  /\ UNCHANGED <<motion, goal, device, place, driver, told, disturbed>>

-----------------------------------------------------------------------------
(* CycleStart(): what happened meanwhile is history from here on.          *)

CycleStartFresh ==
  /\ Free /\ CncGetState \notin Paused
  /\ zMax' = Lowest
  /\ CncRunOrResumeJob /\ told' = Lowest
  /\ disturbed' = FALSE
  /\ UNCHANGED <<motion, goal, device, place, pause, checking, local>>

MutantAtPause == pause.at.x = x
AtPause == pause.at = Here

(* CheckPause() returns at once: true lets the job go on.                  *)
CycleStartAtOnce ==
  /\ Free /\ CncGetState \in Paused
  /\ pause.manual \/ ~pause.valid \/ AtPause
  /\ IF pause.manual \/ pause.valid
     THEN CncRunOrResumeJob /\ Remember
     ELSE UNCHANGED <<ie, told>>
  /\ disturbed' = FALSE
  /\ UNCHANGED <<motion, goal, device, place, pause, driver>>

MutantSafeHeight == Higher(zMax, pause.at.z)
SafeHeight == Higher(zMax, Higher(z, pause.at.z))

(* Lines 1471-1548.  It lifts only if it has to go aside.                  *)
CheckPause ==
  /\ Free /\ CncGetState \in Paused
  /\ ~pause.manual /\ pause.valid /\ ~AtPause
  /\ pausePos' = pause.at /\ from' = z
  /\ zMax' = SafeHeight
  /\ IF x # pause.at.x
     THEN hold' = SafeHeight /\ CncMoveTo([x |-> x, z |-> SafeHeight])
     ELSE hold' = z /\ UNCHANGED <<motion, goal>>
  /\ checking' = "lift"
  /\ disturbed' = FALSE
  /\ UNCHANGED <<ie, device, place, pause, told>>

(* WaitMove() loops while this holds.                                      *)
MutantWaits == CncGetState # "pausedJob"
Waits == CncGetState = "axisjog"

Leave == checking' = "no" /\ pausePos' = Nowhere /\ hold' = Lowest /\ from' = Lowest

(* Paused is not enough: a line, sub or search is given up here.           *)
WaitFails ==
  /\ ~Free /\ ~Waits /\ CncGetState # "pausedJob"
  /\ Leave
  /\ UNCHANGED <<ie, motion, goal, device, place, pause, zMax, told, disturbed>>

Traverse ==
  /\ checking = "lift" /\ ~Waits /\ CncGetState = "pausedJob"
  /\ CncMoveTo([x |-> pausePos.x, z |-> hold])
  /\ checking' = "traverse"
  /\ UNCHANGED <<ie, device, place, pause, zMax, local, told, disturbed>>

Lower ==
  /\ checking = "traverse" /\ ~Waits /\ CncGetState = "pausedJob"
  /\ CncMoveTo(pausePos)
  /\ checking' = "lower"
  /\ UNCHANGED <<ie, device, place, pause, zMax, local, told, disturbed>>

Resume ==
  /\ checking = "lower" /\ ~Waits /\ CncGetState = "pausedJob"
  /\ CncRunOrResumeJob /\ Remember
  /\ Leave
  /\ UNCHANGED <<motion, goal, device, place, pause, zMax, disturbed>>

WaitMove == WaitFails \/ Traverse \/ Lower \/ Resume

-----------------------------------------------------------------------------
Commands ==
  \/ UpdateState
  \/ \E flag \in BOOLEAN : DrivesOn(flag) \/ JogVel(flag) \/ LoadJob(flag)
  \/ JogStep \/ Mdi \/ CycleStop \/ FeedHold
  \/ CycleStartFresh \/ CycleStartAtOnce \/ CheckPause

Eding ==
  \/ AxisMoves \/ Arrives \/ TrackingStarts \/ JobMoves \/ JobSteps \/ Fails
  \/ OperatorMoves \/ OperatorRuns \/ OperatorReleases

Next == Commands \/ WaitMove \/ Eding

Spec == Init /\ [][Next]_cncVars

-----------------------------------------------------------------------------
TypeOK ==
  /\ ie \in Interpreter /\ motion \in Motions
  /\ goal \in Places \cup {Nowhere}
  /\ output \in BOOLEAN /\ emstop \in BOOLEAN /\ job \in BOOLEAN
  /\ x \in Xs /\ z \in Zs
  /\ pause \in [at : Places, valid : BOOLEAN, manual : BOOLEAN]
  /\ zMax \in Zs \cup {Lowest}
  /\ checking \in {"no", "lift", "traverse", "lower"}
  /\ pausePos \in Places \cup {Nowhere}
  /\ hold \in Zs \cup {Lowest} /\ from \in Zs \cup {Lowest}
  /\ told \in Zs \cup {Lowest} /\ disturbed \in BOOLEAN
  /\ checking = "no" <=> pausePos = Nowhere

(* When CheckPause() takes the tool back to where the job was paused, it   *)
(* goes aside no lower than either end, and no lower than any height that  *)
(* was told while the job ran -- unless a CycleStart() that did not find   *)
(* the machine paused has thrown these heights away -- as long as nobody   *)
(* else lays hand on the machine.                                          *)
ReturnsLifted ==
  checking = "traverse" /\ motion = "axisjog" /\ x # goal.x /\ ~disturbed =>
    z >= from /\ z >= pause.at.z /\ z >= told

(* CycleStart() lets a paused job go on only where it was paused, unless   *)
(* it waits for the operator's hand or somebody interfered meanwhile.      *)
ResumesAtPause ==
  [][ie = "pausedJob" /\ ie' = "running" /\ ~disturbed' =>
       pause.manual \/ pause.at = Here]_cncVars

(* CycleStart() keeps the network thread, and with it every client,        *)
(* waiting while the tool returns; it ends when the axes come to rest,     *)
(* whatever state the operator or a failure leaves the machine in.         *)
CycleStartReturns ==
  []<>(motion # "axisjog") => (checking # "no" ~> checking = "no")
==============================================================================
