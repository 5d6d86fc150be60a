--------------------------------- MODULE Sim ---------------------------------
(***************************************************************************)
(* The simulator (drivers/Sim/server/sim.cpp): its main thread polls, the  *)
(* network thread jogs, steps and switches the drives.  One axis stands    *)
(* for all, and only its distance to go: no code asks where it is.  The    *)
(* members busy, running, step and curLine of the machine are never set,   *)
(* and cycle start and stop, files and MDI only write a line.              *)
(***************************************************************************)
EXTENDS Integers

CONSTANT MaxStep   \* bound: distances and speeds of JogStep()

VARIABLES
  dtg,            \* machine.target - state->position
  jogVel, controlOn, feedRate, feedOverride,   \* of machine
  machineState,   \* m_state.machineState
  busy,           \* what Poll() found before it took the lock, or "none"
  switching,      \* DrivesOn(false) waits for the lock
  stepped         \* history: a JogStep() since the drives were switched off

simVars == <<dtg, jogVel, controlOn, feedRate, feedOverride, machineState, busy, switching, stepped>>
commanded == <<jogVel, controlOn, feedRate, feedOverride, switching, stepped>>

(* The machine is set to zeros: no override, so that nothing would move.   *)
Init ==
  /\ dtg = 0 /\ jogVel = 0 /\ controlOn = TRUE
  /\ feedRate = 0 /\ feedOverride = 0
  /\ machineState = "NO_SERVER"
  /\ busy = "none" /\ switching = FALSE /\ stepped = FALSE

Step == feedRate * feedOverride
Abs(d) == IF d < 0 THEN -d ELSE d

(* Lines 74-81: a whole step towards the target, even beyond it.           *)
MutantFarEnough(d) == Abs(d) > Step
FarEnough(d) == d # 0
Ahead(d) == IF ~FarEnough(d) THEN d ELSE IF d > 0 THEN d - Step ELSE d + Step

(* Poll() looks at the drives before it has the lock.                      *)
PollLooks ==
  /\ busy = "none"
  /\ busy' = IF controlOn THEN "IDLE" ELSE "OFF"
  /\ UNCHANGED <<dtg, machineState, commanded>>

(* A jog takes the target along; with the drives off it is forgotten.  A   *)
(* step goes on whatever the drives are.                                   *)
PollMoves ==
  /\ busy # "none" /\ busy' = "none"
  /\ LET jogs == jogVel # 0 /\ busy = "IDLE"
         left == IF jogs THEN 0 ELSE dtg
     IN  /\ jogVel' = IF jogs THEN jogVel ELSE 0
         /\ dtg' = Ahead(left)
         /\ machineState' = IF FarEnough(left) THEN "RUNNING" ELSE IF jogs THEN "MOVING" ELSE busy
  /\ UNCHANGED <<controlOn, feedRate, feedOverride, switching, stepped>>

(* DrivesOn(): the flag is written without the lock.                       *)
DrivesOn ==
  /\ ~switching
  /\ controlOn' = TRUE
  /\ UNCHANGED <<dtg, jogVel, feedRate, feedOverride, machineState, busy, switching, stepped>>

DrivesOff ==
  /\ ~switching
  /\ controlOn' = FALSE /\ switching' = TRUE
  /\ UNCHANGED <<dtg, jogVel, feedRate, feedOverride, machineState, busy, stepped>>

MutantTargetOff == dtg
TargetOff == 0

DrivesOffLocked ==
  /\ switching /\ switching' = FALSE
  /\ jogVel' = 0 /\ dtg' = TargetOff /\ stepped' = FALSE
  /\ UNCHANGED <<controlOn, feedRate, feedOverride, machineState, busy>>

JogVel(velocity) ==
  /\ ~switching
  /\ jogVel' = velocity
  /\ UNCHANGED <<dtg, controlOn, feedRate, feedOverride, machineState, busy, switching, stepped>>

JogStep(distance, speed) ==
  /\ ~switching
  /\ dtg' = distance /\ feedRate' = speed /\ stepped' = TRUE
  /\ UNCHANGED <<jogVel, controlOn, feedOverride, machineState, busy, switching>>

FeedOverride(percent) ==
  /\ ~switching
  /\ feedOverride' = percent
  /\ UNCHANGED <<dtg, jogVel, controlOn, feedRate, machineState, busy, switching, stepped>>

Next ==
  \/ PollLooks \/ PollMoves \/ DrivesOn \/ DrivesOff \/ DrivesOffLocked
  \/ \E velocity \in {-1, 0, 1} : JogVel(velocity)
  \/ \E distance \in -MaxStep .. MaxStep, speed \in 1 .. MaxStep : JogStep(distance, speed)
  \/ \E percent \in {0, 1} : FeedOverride(percent)
==============================================================================
