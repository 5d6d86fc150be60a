---------------------------- MODULE Mach3Proofs -----------------------------
(***************************************************************************)
(* For any number of files that are loaded: what Mach3's engine drives is  *)
(* watched by Poll(), and every file asked for has a thread to load it.    *)
(***************************************************************************)
EXTENDS Mach3, TLAPS

-----------------------------------------------------------------------------
(* Each load thread has been started by one accepted call of LoadFile().   *)
LoadInv ==
  /\ asked \in 0 .. MaxLoads /\ path \in 0 .. asked
  /\ tried \in BOOLEAN /\ loaded \in BOOLEAN
  /\ untested \in Nat /\ waiting \in Nat /\ loading \in BOOLEAN
  /\ untested + waiting <= asked
  /\ loading => untested + waiting < asked
  /\ path # 0 => untested + waiting > 0 \/ loading

JogInv ==
  /\ machineState \in States /\ estop \in BOOLEAN /\ cutting \in BOOLEAN
  /\ targetJog \in {0} \cup Signs /\ jogging \in BOOLEAN /\ moved \in BOOLEAN
  /\ Jogging \in BOOLEAN /\ Dec \in BOOLEAN /\ JoggDir \in Signs
  /\ CurVelocity \in {0} \cup Signs
  /\ poll \in {"jog", "target", "stop", "drive", "state"}
  /\ target \in {0} \cup Signs /\ moving \in BOOLEAN /\ starting \in BOOLEAN

(* Poll() decides about an axis only while it watches it, and drives it    *)
(* only where it has been told to.                                         *)
WatchInv ==
  /\ poll \in {"target", "stop", "drive"} => jogging
  /\ poll = "drive" => target # 0
  /\ DrivenIsWatched

IInv == LoadInv /\ JogInv /\ WatchInv

USE MaxLoadsAssumption
USE DEF machVars, loadVars, jogVars, engine, pollVars

-----------------------------------------------------------------------------
(* Poll() knows nothing of the load threads.                               *)
LEMMA PollKeeps ==
  ASSUME IInv, Poll
  PROVE  IInv'
<1> USE DEF IInv
<1>1. LoadInv'
  <2>1. UNCHANGED <<asked, path, tried, loaded, untested, waiting, loading>>
    BY DEF Poll, PollAxis, PollTarget, PollStop, PollDrive, PollState
  <2> QED BY <2>1 DEF LoadInv
<1> USE DEF JogInv, WatchInv, DrivenIsWatched
<1>2. CASE PollAxis
  BY <1>1, <1>2 DEF PollAxis
<1>3. CASE PollTarget
  BY <1>1, <1>3 DEF PollTarget
<1>4. CASE PollStop
  BY <1>1, <1>4 DEF PollStop, Braked
<1>5. CASE PollDrive
  BY <1>1, <1>5 DEF PollDrive
<1>6. CASE PollState
  <2>1. machineState' \in States
    BY <1>6 DEF PollState, StateOfMach3, States
  <2> QED BY <1>1, <1>6, <2>1 DEF PollState
<1> QED BY <1>2, <1>3, <1>4, <1>5, <1>6 DEF Poll

(* Nobody else unwatches an axis: JogVel() only ever makes Poll() watch.   *)
LEMMA OthersKeepWatch ==
  ASSUME WatchInv, Network \/ LoadThread \/ Operator \/ EngineDrives \/ EngineBrakes
  PROVE  WatchInv'
<1> USE DEF WatchInv, DrivenIsWatched
<1>1. UNCHANGED <<poll, target>>
  BY DEF Network, JogVel, JogVelStarts, DrivesOn, LoadFile, CloseFile, CycleStart, Home, Mdi,
         Runs, CycleStop, LoadThread, LoadTest, LoadStarts, LoadEnds, Operator,
         EngineDrives, EngineBrakes
<1>2. jogging => jogging'
  BY DEF Network, JogVel, JogVelStarts, DrivesOn, LoadFile, CloseFile, CycleStart, Home, Mdi,
         Runs, CycleStop, LoadThread, LoadTest, LoadStarts, LoadEnds, Operator,
         EngineDrives, EngineBrakes
<1>3. (Jogging /\ ~Dec)' => Jogging /\ ~Dec
  BY DEF Network, JogVel, JogVelStarts, DrivesOn, LoadFile, CloseFile, CycleStart, Home, Mdi,
         Runs, CycleStop, LoadThread, LoadTest, LoadStarts, LoadEnds, Operator,
         EngineDrives, EngineBrakes
<1> QED BY <1>1, <1>2, <1>3

(* The drives are switched over.                                           *)
LEMMA SwitchKeepsTypes ==
  ASSUME JogInv, Switch
  PROVE  estop' \in BOOLEAN /\ cutting' \in BOOLEAN /\ CurVelocity' \in {0} \cup Signs
<1>1. estop' \in BOOLEAN /\ cutting' \in BOOLEAN
  BY DEF Switch, JogInv
<1>2. CurVelocity' \in {0} \cup Signs
  BY DEF Switch, JogInv
<1> QED BY <1>1, <1>2

(* So do the others.                                                       *)
LEMMA OthersKeepTypes ==
  ASSUME JogInv, Network \/ LoadThread \/ Operator \/ EngineDrives \/ EngineBrakes
  PROVE  JogInv'
<1> USE DEF JogInv
<1>1. ASSUME NEW v \in {0} \cup Signs, JogVel(v) PROVE JogInv'
  <2>1. starting' \in BOOLEAN
    BY <1>1 DEF JogVel
  <2> QED BY <1>1, <2>1 DEF JogVel
<1>2. CASE JogVelStarts
  BY <1>2 DEF JogVelStarts
<1>3. ASSUME NEW on \in BOOLEAN, DrivesOn(on) PROVE JogInv'
  <2>1. estop' \in BOOLEAN /\ cutting' \in BOOLEAN /\ CurVelocity' \in {0} \cup Signs
    BY <1>3, SwitchKeepsTypes DEF DrivesOn
  <2> QED BY <1>3, <2>1 DEF DrivesOn
<1>4. CASE LoadFile
  BY <1>4 DEF LoadFile, States
<1>5. CASE CloseFile
  BY <1>5 DEF CloseFile
<1>6. CASE CycleStart \/ Home \/ Mdi
  BY <1>6 DEF CycleStart, Home, Mdi, Runs
<1>7. CASE CycleStop
  BY <1>7 DEF CycleStop
<1>8. CASE LoadThread
  BY <1>8 DEF LoadThread, LoadTest, LoadStarts, LoadEnds, States
<1>9. CASE Operator
  <2>1. estop' \in BOOLEAN /\ cutting' \in BOOLEAN /\ CurVelocity' \in {0} \cup Signs
    BY <1>9, SwitchKeepsTypes DEF Operator
  <2> QED BY <1>9, <2>1 DEF Operator
<1>10. CASE EngineDrives
  BY <1>10 DEF EngineDrives
<1>11. CASE EngineBrakes
  BY <1>11 DEF EngineBrakes
<1> QED BY <1>1, <1>2, <1>3, <1>4, <1>5, <1>6, <1>7, <1>8, <1>9, <1>10, <1>11 DEF Network

(* A load thread is counted once, wherever it is.                          *)
LEMMA OthersKeepLoads ==
  ASSUME LoadInv, Network \/ LoadThread \/ Operator \/ EngineDrives \/ EngineBrakes
  PROVE  LoadInv'
<1>1. CASE LoadFile
  <2>1. /\ asked < MaxLoads /\ asked' = asked + 1 /\ tried' = FALSE
        /\ UNCHANGED <<loaded, waiting, loading>>
    BY <1>1 DEF LoadFile
  <2>2. \/ path' = asked' /\ untested' = untested + 1
        \/ path' = 0 /\ untested' = untested
    BY <1>1 DEF LoadFile
  <2>3. tried' \in BOOLEAN /\ loaded' \in BOOLEAN /\ loading' \in BOOLEAN
    BY <2>1 DEF LoadInv
  <2> USE DEF LoadInv
  <2>4. asked' \in 1 .. MaxLoads /\ waiting' \in Nat /\ (loading' <=> loading)
    BY <2>1
  <2>5. CASE path' = asked' /\ untested' = untested + 1
    BY <2>1, <2>3, <2>4, <2>5
  <2>6. CASE path' = 0 /\ untested' = untested
    BY <2>1, <2>3, <2>4, <2>6
  <2> QED BY <2>2, <2>5, <2>6
<1>2. CASE CloseFile
  BY <1>2 DEF LoadInv, CloseFile
<1>3. CASE LoadThread
  <2> USE DEF LoadInv
  <2>1. CASE LoadTest
    <3>1. UNCHANGED <<asked, path, tried, loaded, loading>>
      BY <2>1 DEF LoadTest
    <3>2. /\ untested \in Nat /\ untested' \in Nat /\ untested' = untested - 1
          /\ waiting' = (IF path # 0 THEN waiting + 1 ELSE waiting)
      BY <2>1 DEF LoadTest
    <3>3. CASE path # 0
      BY <3>1, <3>2, <3>3
    <3>4. CASE path = 0
      BY <3>1, <3>2, <3>4
    <3> QED BY <3>3, <3>4
  <2>2. CASE LoadStarts
    BY <2>2 DEF LoadStarts
  <2>3. CASE LoadEnds
    <3>1. /\ tried' \in BOOLEAN /\ loaded' \in BOOLEAN
          /\ path' = 0 /\ loading = TRUE /\ loading' = FALSE
          /\ UNCHANGED <<asked, untested, waiting>>
      BY <2>3 DEF LoadEnds, Loads, PathAfter
    <3>2. 0 \in 0 .. asked
      OBVIOUS
    <3> QED BY <3>1, <3>2
  <2> QED BY <1>3, <2>1, <2>2, <2>3 DEF LoadThread
<1>4. CASE ~(LoadFile \/ CloseFile \/ LoadThread)
  <2>1. UNCHANGED <<asked, path, tried, loaded, untested, waiting, loading>>
    BY <1>4 DEF Network, JogVel, JogVelStarts, DrivesOn, CycleStart, Home, Mdi, Runs, CycleStop,
                Operator, EngineDrives, EngineBrakes
  <2> QED BY <2>1 DEF LoadInv
<1> QED BY <1>1, <1>2, <1>3, <1>4

(* The invariant holds throughout.                                         *)
LEMMA InvAlways == Spec => []IInv
<1>1. Init => IInv
  <2> SUFFICES ASSUME Init PROVE IInv
    OBVIOUS
  <2>1. LoadInv
    <3>1. asked = 0 /\ path = 0 /\ untested = 0 /\ waiting = 0
      BY DEF Init
    <3>2. loading = FALSE /\ tried = FALSE /\ loaded = FALSE
      BY DEF Init
    <3>3. /\ asked \in 0 .. MaxLoads /\ path \in 0 .. asked
          /\ untested \in Nat /\ waiting \in Nat /\ untested + waiting <= asked
      BY <3>1
    <3>4. loading \in BOOLEAN /\ tried \in BOOLEAN /\ loaded \in BOOLEAN
      BY <3>2
    <3>5. path = 0 /\ ~loading
      BY <3>1, <3>2
    <3> QED BY <3>3, <3>4, <3>5 DEF LoadInv
  <2>2. JogInv
    BY DEF Init, JogInv, States, Signs
  <2>3. WatchInv
    BY DEF Init, WatchInv, DrivenIsWatched
  <2> QED BY <2>1, <2>2, <2>3 DEF IInv
<1>2. IInv /\ [Next]_vars => IInv'
  <2>1. IInv /\ Next => IInv'
    BY PollKeeps, OthersKeepWatch, OthersKeepTypes, OthersKeepLoads DEF Next, IInv
  <2>2. IInv /\ UNCHANGED vars => IInv'
    BY DEF vars, IInv, LoadInv, JogInv, WatchInv, DrivenIsWatched
  <2> QED BY <2>1, <2>2
<1> QED BY <1>1, <1>2, PTL DEF Spec

(* Every variable has its type, and a name in m_filePath has a thread that *)
(* will take it.                                                           *)
THEOREM TypeCorrect == Spec => []TypeOK
<1>1. IInv => TypeOK
  BY DEF IInv, LoadInv, JogInv, TypeOK
<1> QED BY <1>1, InvAlways, PTL

(* However JogVel(), which takes no lock, falls between the steps of       *)
(* Poll(), no axis is left driven with nobody to brake it.                 *)
THEOREM DrivenAxesAreWatched == Spec => []DrivenIsWatched
<1>1. IInv => DrivenIsWatched
  BY DEF IInv, WatchInv
<1> QED BY <1>1, InvAlways, PTL
=============================================================================
