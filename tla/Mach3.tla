------------------------------- MODULE Mach3 --------------------------------
(***************************************************************************)
(* The Mach3 server (drivers/Mach3/MachServer.cpp), a plugin.  Mach3 calls *)
(* Poll() from its own loop, which jogs without the lock and then writes   *)
(* the state under it; the network thread runs the virtual functions;      *)
(* every file is loaded by a thread of its own, which holds the lock for   *)
(* as long as Mach3 takes.  Mach3, its operator and its engine go on       *)
(* meanwhile.  One axis stands for all: the loop over the axes uses each   *)
(* by itself.                                                              *)
(***************************************************************************)
EXTENDS Integers

CONSTANT MaxLoads   \* bound: calls of LoadFile() that are not refused

ASSUME MaxLoadsAssumption == MaxLoads \in Nat

States == {"NO_SERVER", "OFF", "IDLE", "MOVING", "RUNNING"}
DrivesAreOn == {"IDLE", "MOVING", "RUNNING"}      \* > mcOFF
Signs == {-1, 1}

VARIABLES
  machineState,  \* m_state.machineState
  estop,         \* Engine->EStop
  cutting,       \* Engine->TrajIndex # Engine->TrajHead
  path,          \* m_filePath: number of a file, or 0
  untested,      \* load threads that have not looked at m_filePath yet
  waiting,       \* load threads that wait for the lock
  loading,       \* a load thread holds m_syncLock
  asked,         \* the last file asked for, or 0
  tried,         \* Mach3 has been told to load the file last asked for
  loaded,        \* Mach3 has a file loaded
  targetJog,     \* m_jogAxes[].targetJog, its sign
  jogging,       \* m_jogAxes[].jogging
  moved,         \* eng.Index # axis.index
  Jogging, Dec, JoggDir, CurVelocity,   \* the axis of the engine; signs
  poll,          \* where Poll() is
  target,        \* what Poll() has read of targetJog
  moving,        \* its local variable
  starting       \* JogVel() has set targetJog and will set jogging

machVars == <<estop, cutting, loaded>>
loadVars == <<path, untested, waiting, loading, asked, tried>>
jogVars == <<targetJog, jogging, starting>>
engine == <<Jogging, Dec, JoggDir, CurVelocity>>
pollVars == <<poll, target, moving>>
vars == <<machineState, machVars, loadVars, jogVars, moved, engine, pollVars>>

Init ==
  /\ machineState = "NO_SERVER" /\ estop = TRUE /\ cutting = FALSE
  /\ path = 0 /\ untested = 0 /\ waiting = 0 /\ loading = FALSE
  /\ asked = 0 /\ tried = FALSE /\ loaded = FALSE
  /\ targetJog = 0 /\ jogging = FALSE /\ moved = FALSE /\ starting = FALSE
  /\ Jogging = FALSE /\ Dec = FALSE /\ JoggDir = 1 /\ CurVelocity = 0
  /\ poll = "jog" /\ target = 0 /\ moving = FALSE

-----------------------------------------------------------------------------
(* Poll(), in Mach3's loop.                                                *)

(* Lines 78-87. *)
PollAxis ==
  /\ poll = "jog"
  /\ IF jogging
     THEN poll' = "target" /\ moving' = moved /\ moved' = FALSE
     ELSE poll' = "state" /\ UNCHANGED <<moving, moved>>
  /\ UNCHANGED <<machineState, machVars, loadVars, jogVars, engine, target>>

(* Line 88: the target may change before it is acted upon. *)
PollTarget ==
  /\ poll = "target"
  /\ target' = targetJog
  /\ poll' = IF targetJog = 0 THEN "stop" ELSE "drive"
  /\ UNCHANGED <<machineState, machVars, loadVars, jogVars, moved, engine, moving>>

(* Lines 90-98: braked even when it does not move any more. *)
MutantBraked == moving \/ Dec
Braked == TRUE

PollStop ==
  /\ poll = "stop"
  /\ jogging' = (jogging /\ moving)
  /\ Dec' = Braked /\ Jogging' = TRUE
  /\ poll' = "state"
  /\ UNCHANGED <<machineState, machVars, loadVars, targetJog, starting, moved, JoggDir,
                 CurVelocity, target, moving>>

(* Lines 101-113: an axis that moves the other way is braked first. *)
PollDrive ==
  /\ poll = "drive"
  /\ IF target # JoggDir /\ CurVelocity # 0
     THEN Dec' = TRUE /\ UNCHANGED JoggDir
     ELSE Dec' = FALSE /\ JoggDir' = target
  /\ Jogging' = TRUE
  /\ poll' = "state"
  /\ UNCHANGED <<machineState, machVars, loadVars, jogVars, moved, CurVelocity, target,
                 moving>>

StateOfMach3 ==
  IF estop THEN "OFF"
  ELSE IF cutting THEN "RUNNING"
  ELSE IF Jogging THEN "MOVING" ELSE "IDLE"

(* Lines 118-154, under the lock. *)
PollState ==
  /\ poll = "state"
  /\ ~loading
  /\ machineState' = StateOfMach3
  /\ poll' = "jog" /\ target' = 0 /\ moving' = FALSE
  /\ UNCHANGED <<machVars, loadVars, jogVars, moved, engine>>

Poll == PollAxis \/ PollTarget \/ PollStop \/ PollDrive \/ PollState

-----------------------------------------------------------------------------
(* The network thread.  JogVel() takes no lock; the others wait for it.    *)

JogVel(v) ==
  /\ ~starting
  /\ targetJog' = v
  /\ starting' = (v # 0)
  /\ UNCHANGED <<machineState, machVars, loadVars, jogging, moved, engine, pollVars>>

(* Line 268. *)
JogVelStarts ==
  /\ starting
  /\ jogging' = TRUE /\ starting' = FALSE
  /\ UNCHANGED <<machineState, machVars, loadVars, targetJog, moved, engine, pollVars>>

Locks == ~starting /\ ~loading

(* DoButton(1021) switches the drives over; off, nothing moves. *)
Switch ==
  /\ estop' = ~estop
  /\ cutting' = (cutting /\ ~estop')
  /\ CurVelocity' = IF estop' THEN 0 ELSE CurVelocity

DrivesOn(on) ==
  /\ Locks
  /\ IF on # (machineState \in DrivesAreOn) THEN Switch ELSE UNCHANGED <<estop, cutting, CurVelocity>>
  /\ UNCHANGED <<machineState, loaded, loadVars, jogVars, moved, Jogging, Dec, JoggDir, pollVars>>

(* The name of the file is written over that of a file not yet loaded; a   *)
(* name that cannot be converted leaves none.                              *)
LoadFile ==
  /\ Locks
  /\ machineState # "RUNNING"
  /\ asked < MaxLoads
  /\ asked' = asked + 1 /\ tried' = FALSE
  /\ \/ path' = asked' /\ machineState' = "RUNNING" /\ untested' = untested + 1
     \/ path' = 0 /\ UNCHANGED <<machineState, untested>>
  /\ UNCHANGED <<machVars, waiting, loading, jogVars, moved, engine, pollVars>>

(* Line 335.  The lock is taken twice: linear's mutex must allow it. *)
CloseFile ==
  /\ Locks
  /\ machineState # "RUNNING"
  /\ loaded' = FALSE
  /\ UNCHANGED <<machineState, estop, cutting, loadVars, jogVars, moved, engine, pollVars>>

(* DoButton(1000) or (105), or Code(); only Mdi() looks at the state first. *)
Runs ==
  /\ ~estop /\ cutting' = TRUE
  /\ UNCHANGED <<machineState, estop, loaded, loadVars, jogVars, moved, engine, pollVars>>

CycleStart == Locks /\ loaded /\ Runs
Home == Locks /\ Runs
Mdi == Locks /\ machineState \in {"IDLE", "MOVING"} /\ Runs

CycleStop ==
  /\ Locks
  /\ cutting' = FALSE
  /\ UNCHANGED <<machineState, estop, loaded, loadVars, jogVars, moved, engine, pollVars>>

-----------------------------------------------------------------------------
(* LoadThread().                                                           *)

(* Line 178, before the lock. *)
LoadTest ==
  /\ untested > 0
  /\ untested' = untested - 1
  /\ waiting' = IF path # 0 THEN waiting + 1 ELSE waiting
  /\ UNCHANGED <<machineState, machVars, path, loading, asked, tried, jogVars, moved, engine,
                 pollVars>>

LoadStarts ==
  /\ waiting > 0 /\ ~loading
  /\ waiting' = waiting - 1 /\ loading' = TRUE
  /\ machineState' = "RUNNING"
  /\ UNCHANGED <<machVars, path, untested, asked, tried, jogVars, moved, engine, pollVars>>

MutantLoads == 0
Loads == path

MutantPathAfter == path
PathAfter == 0

(* Lines 182-188.  Nobody looks at what LoadGCodeFile() returns: Mach3 may  *)
(* have loaded the file, or not, and then has the last one or none.        *)
LoadEnds ==
  /\ loading
  /\ tried' = (tried \/ Loads = asked)
  /\ loaded' \in BOOLEAN
  /\ path' = PathAfter
  /\ machineState' = "IDLE" /\ loading' = FALSE
  /\ UNCHANGED <<estop, cutting, untested, waiting, asked, jogVars, moved, engine,
                 pollVars>>

LoadThread == LoadTest \/ LoadStarts \/ LoadEnds

-----------------------------------------------------------------------------
(* Mach3 itself.                                                           *)

Operator ==
  /\ \/ Switch
     \/ ~estop /\ cutting' = ~cutting /\ UNCHANGED <<estop, CurVelocity>>
  /\ UNCHANGED <<machineState, loaded, loadVars, jogVars, moved, Jogging, Dec, JoggDir, pollVars>>

EngineDrives ==
  /\ Jogging /\ ~Dec /\ ~estop
  /\ CurVelocity' = JoggDir /\ moved' = TRUE
  /\ UNCHANGED <<machineState, machVars, loadVars, jogVars, Jogging, Dec, JoggDir, pollVars>>

(* Braking takes its time: it still moves while it brakes. *)
EngineBrakes ==
  /\ Jogging /\ Dec
  /\ \/ CurVelocity # 0 /\ CurVelocity' = 0 /\ moved' = TRUE /\ UNCHANGED Jogging
     \/ CurVelocity = 0 /\ Jogging' = FALSE /\ UNCHANGED <<CurVelocity, moved>>
  /\ UNCHANGED <<machineState, machVars, loadVars, jogVars, Dec, JoggDir, pollVars>>

Network ==
  \/ \E v \in {0} \cup Signs : JogVel(v)
  \/ JogVelStarts
  \/ \E on \in BOOLEAN : DrivesOn(on)
  \/ LoadFile \/ CloseFile \/ CycleStart \/ Home \/ Mdi \/ CycleStop

Next == Poll \/ Network \/ LoadThread \/ Operator \/ EngineDrives \/ EngineBrakes

Spec == Init /\ [][Next]_vars

(* Mach3 calls Poll() again and again, every thread goes on and gets the   *)
(* lock in the end, and the engine obeys.                                  *)
FairSpec ==
  /\ Spec
  /\ WF_vars(PollAxis \/ PollTarget \/ PollStop \/ PollDrive) /\ SF_vars(PollState)
  /\ WF_vars(JogVelStarts)
  /\ WF_vars(LoadTest) /\ SF_vars(LoadStarts) /\ WF_vars(LoadEnds)
  /\ WF_vars(EngineDrives) /\ WF_vars(EngineBrakes)

-----------------------------------------------------------------------------
(* The types; a file name is only there for a thread that will load it.    *)
TypeOK ==
  /\ machineState \in States /\ estop \in BOOLEAN /\ cutting \in BOOLEAN
  /\ path \in 0 .. MaxLoads /\ untested \in 0 .. MaxLoads /\ waiting \in 0 .. MaxLoads
  /\ loading \in BOOLEAN /\ asked \in 0 .. MaxLoads
  /\ tried \in BOOLEAN /\ loaded \in BOOLEAN
  /\ targetJog \in {0} \cup Signs /\ jogging \in BOOLEAN /\ moved \in BOOLEAN
  /\ Jogging \in BOOLEAN /\ Dec \in BOOLEAN /\ JoggDir \in Signs
  /\ CurVelocity \in {0} \cup Signs
  /\ poll \in {"jog", "target", "stop", "drive", "state"}
  /\ target \in {0} \cup Signs /\ moving \in BOOLEAN /\ starting \in BOOLEAN
  /\ path # 0 => untested + waiting > 0 \/ loading

(* An axis that the engine drives is watched by Poll(), whatever the       *)
(* unlocked JogVel() does in between: only Poll() would ever brake it.     *)
DrivenIsWatched == Jogging /\ ~Dec => jogging

(* "Use axis values of 0 to stop jogging" (cncclient.h 210): once JogVel() *)
(* has asked for 0 and for nothing else, the axis comes to rest.           *)
StopStops == <>[](targetJog = 0) => <>[](CurVelocity = 0)

(* Mach3 is told in the end to load every file for which LoadFile() has     *)
(* returned true, by whichever load thread comes first, unless another is  *)
(* asked for meanwhile.  Whether Mach3 can load it is another matter:      *)
(* "Return false if the file could not be loaded (file does not exist"     *)
(* (cncserver.h 144) asks for an answer that is known only afterwards.     *)
AcceptedIsTried ==
  \A f \in 1 .. MaxLoads : path = f ~> (tried \/ asked # f)
=============================================================================
