--------------------------- MODULE LinuxCncProofs ---------------------------
(***************************************************************************)
(* For every number of axes and every set of speeds: the server and        *)
(* LinuxCNC keep their types, and the cache of SendJog() tells which axes  *)
(* move.                                                                   *)
(***************************************************************************)
EXTENDS LinuxCnc, SequenceTheorems, TLAPS

-----------------------------------------------------------------------------
(* Which buffers are there depends on how far main() is: the network       *)
(* thread only deletes them when both are there.                           *)
LinkInv ==
  /\ pc = "status" => ~status /\ ~error
  /\ pc = "error" => status /\ ~error
  /\ pc \notin {"status", "error"} => status = error

IInv == TypeOK /\ LinkInv

(* What the functions send is a message.                                   *)
LEMMA MessagesAreTyped ==
  /\ \A m \in Modes : SetMode(m) \in Message
  /\ \A a \in Axis, v \in Speeds : SendJog(a, v) \in Message
  /\ \A b \in BOOLEAN : Teleop(b) \in Message
  /\ Halt \in Message /\ Other \in Message
BY DEF SetMode, SendJog, Teleop, Halt, Other, Message

(* A function that sends one message several times.                        *)
LEMMA TimesIsASeq ==
  ASSUME NEW n \in Nat, NEW m \in Message
  PROVE  Times(n, m) \in Seq(Message)
<1>1. Times(n, m) \in [1 .. n -> Message]
  BY DEF Times
<1> QED BY <1>1, SeqDef

(* The messages of JogVel().                                               *)
LEMMA JogsAreASeq ==
  ASSUME NEW v \in [Axis -> Speeds]
  PROVE  <<SetMode("MANUAL")>> \o [a \in Axis |-> SendJog(a, v[a])] \in Seq(Message)
<1>1. [a \in Axis |-> SendJog(a, v[a])] \in [1 .. MaxAxes -> Message]
  BY MessagesAreTyped DEF Axis
<1>2. [a \in Axis |-> SendJog(a, v[a])] \in Seq(Message)
  BY <1>1, SeqDef, MaxAxesAssumption
<1>3. SetMode("MANUAL") \in Message
  BY MessagesAreTyped DEF Modes
<1>4. <<SetMode("MANUAL")>> \in Seq(Message)
  BY <1>3
<1> QED BY <1>2, <1>4, ConcatProperties

(* The constructor: no buffers, nothing to send.                           *)
LEMMA IInvInit == Init => IInv
<1> SUFFICES ASSUME Init PROVE IInv
  OBVIOUS
<1>1. /\ cnc = "down" /\ mode = "MANUAL" /\ pc = "status" /\ reported = "NO_SERVER"
      /\ status = FALSE /\ error = FALSE /\ live = FALSE /\ beaten = FALSE /\ due = TRUE
      /\ broken = FALSE /\ sure = FALSE /\ todo = <<>>
      /\ jog = Still /\ cache = Still /\ request = Still
      /\ lost = [a \in Axis |-> FALSE]
  BY DEF Init
<1>2. Still \in [Axis -> Speeds]
  BY SpeedsAssumption DEF Still
<1>3. todo \in Seq(Message)
  BY <1>1, EmptySeq
<1>4. lost \in [Axis -> BOOLEAN]
  BY <1>1
<1>5. /\ jog \in [Axis -> Speeds] /\ cache \in [Axis -> Speeds]
      /\ request \in [Axis -> Speeds]
  BY <1>1, <1>2
<1>6. TypeOK
  BY <1>1, <1>3, <1>4, <1>5 DEF TypeOK, Modes
<1>7. LinkInv
  BY <1>1 DEF LinkInv
<1> QED BY <1>6, <1>7 DEF IInv

(* The commands: what a function lists are messages. *)
LEMMA ServeTyped ==
  ASSUME IInv, NEW messages \in Seq(Message), Serve(messages),
         request' \in [Axis -> Speeds], sure' \in BOOLEAN
  PROVE  IInv'
BY DEF IInv, TypeOK, LinkInv, Serve, linuxCnc, link, clock

(* The virtual functions only queue messages.                              *)
LEMMA CommandsTyped == IInv /\ Commands => IInv'
<1> SUFFICES ASSUME IInv, Commands PROVE IInv'
  OBVIOUS
<1>0. Other \in Message /\ Halt \in Message
  BY MessagesAreTyped
<1>1. ASSUME NEW messages \in Seq(Message), Does(messages)
      PROVE  IInv'
  BY <1>1, ServeTyped DEF Does, IInv, TypeOK
<1>2. ASSUME NEW v \in [Axis -> Speeds], JogVel(v)
      PROVE  IInv'
  BY <1>2, JogsAreASeq, ServeTyped DEF JogVel
<1>3. \A n \in Nat : Times(n, Other) \in Seq(Message)
  BY <1>0, TimesIsASeq
<1>4. ASSUME NEW b \in BOOLEAN, NEW n \in Nat
      PROVE  <<SetMode("MANUAL"), Teleop(b)>> \o Times(n, Other) \in Seq(Message)
  <2>1. SetMode("MANUAL") \in Message /\ Teleop(b) \in Message
    BY MessagesAreTyped DEF Modes
  <2>2. <<SetMode("MANUAL"), Teleop(b)>> \in Seq(Message)
    BY <2>1
  <2> QED BY <1>3, <2>2, ConcatProperties
<1>5. CASE JogStep
  <2>1. PICK n \in 0 .. MaxAxes : Does(<<SetMode("MANUAL"), Teleop(TRUE)>> \o Times(n, Other))
    BY <1>5 DEF JogStep
  <2>2. n \in Nat
    BY MaxAxesAssumption
  <2> QED BY <1>1, <1>4, <2>1, <2>2
<1>6. CASE Home
  <2>1. PICK n \in {1, MaxAxes} : Does(<<SetMode("MANUAL"), Teleop(FALSE)>> \o Times(n, Other))
    BY <1>6 DEF Home
  <2>2. n \in Nat
    BY MaxAxesAssumption
  <2> QED BY <1>1, <1>4, <2>1, <2>2
<1>7. CASE DrivesOn
  <2>1. PICK n \in {1, 2} : Does(<<Halt>> \o Times(n - 1, Other))
    BY <1>7 DEF DrivesOn
  <2>2. n - 1 \in Nat
    OBVIOUS
  <2>3. <<Halt>> \in Seq(Message)
    BY <1>0
  <2>4. <<Halt>> \o Times(n - 1, Other) \in Seq(Message)
    BY <1>3, <2>2, <2>3, ConcatProperties
  <2> QED BY <1>1, <2>1, <2>4
<1>8. CASE CycleStop \/ SendOther
  <2>1. <<Halt>> \in Seq(Message) /\ <<Other>> \in Seq(Message)
    BY <1>0
  <2> QED BY <1>1, <1>8, <2>1 DEF CycleStop, SendOther
<1>9. CASE Mdi \/ CycleStart
  <2>1. SetMode("MDI") \in Message /\ SetMode("AUTO") \in Message
    BY MessagesAreTyped DEF Modes
  <2>2. <<SetMode("MDI"), Other>> \in Seq(Message) /\ <<SetMode("AUTO"), Other>> \in Seq(Message)
    BY <1>0, <2>1
  <2> QED BY <1>1, <1>9, <2>2 DEF Mdi, CycleStart
<1> QED BY <1>2, <1>5, <1>6, <1>7, <1>8, <1>9 DEF Commands

(* main() and the network thread between them keep the buffers in order. *)
LEMMA LinkStep == IInv /\ (Main \/ UpdateState) => IInv'
<1> SUFFICES ASSUME IInv, Main \/ UpdateState PROVE IInv'
  OBVIOUS
<1> USE DEF IInv, TypeOK, LinkInv, OK, DisconnectNml, ErrorBuffer, Serving,
        linuxCnc, link, clock, jogging
<1>1. CASE ConnectStatus
  BY <1>1 DEF ConnectStatus
<1>2. CASE ConnectError
  <2>1. CASE error' = TRUE /\ pc' = "check" /\ UNCHANGED <<status, live, beaten, broken>>
    BY <1>2, <2>1 DEF ConnectError
  <2>2. CASE DisconnectNml /\ pc' = "status"
    <3>1. broken' \in BOOLEAN
      BY <2>2
    <3> QED BY <1>2, <2>2, <3>1 DEF ConnectError
  <2> QED BY <1>2, <2>1, <2>2 DEF ConnectError
<1>3. CASE Check
  BY <1>3 DEF Check
<1>4. CASE Synchronise
  BY <1>4 DEF Synchronise
<1>5. CASE Poll
  BY <1>5 DEF Poll
<1>6. CASE Leave
  BY <1>6 DEF Leave
<1>7. CASE UpdateOffline
  BY <1>7 DEF UpdateOffline
<1>8. CASE UpdateSilent
  BY <1>8 DEF UpdateSilent
<1>9. CASE UpdateConnected
  BY <1>9 DEF UpdateConnected
<1> QED BY <1>1, <1>2, <1>3, <1>4, <1>5, <1>6, <1>7, <1>8, <1>9 DEF Main, UpdateState

(* LinuxCNC comes and goes without the server's doing. *)
LEMMA LinuxCncStep ==
  IInv /\ (Start \/ Ready \/ Die \/ StopJogging \/ Beat \/ Tick) => IInv'
<1> SUFFICES ASSUME IInv, Start \/ Ready \/ Die \/ StopJogging \/ Beat \/ Tick PROVE IInv'
  OBVIOUS
<1>0. Still \in [Axis -> Speeds]
  BY SpeedsAssumption DEF Still
<1> USE DEF IInv, TypeOK, LinkInv, linuxCnc, link, clock, jogging
<1>1. CASE Start
  <2>1. live' \in BOOLEAN /\ (live' => status)
    <3>1. live' = FALSE \/ live' = status
      BY <1>1 DEF Start
    <3>2. CASE live' = FALSE
      BY <3>2
    <3>3. CASE live' = status
      BY <3>3, Zenon
    <3> QED BY <3>1, <3>2, <3>3
  <2>2. beaten' \in BOOLEAN
    <3>1. CASE live'
      BY <1>1, <3>1 DEF Start
    <3>2. CASE ~live'
      BY <1>1, <3>2 DEF Start
    <3> QED BY <3>1, <3>2
  <2>3. /\ cnc' = "starting" /\ mode' = "MANUAL" /\ jog' = Still
        /\ UNCHANGED <<pc, status, error, due, todo, cache, lost, request, sure,
                       reported, broken>>
    BY <1>1 DEF Start
  <2> QED BY <1>0, <2>1, <2>2, <2>3 DEF Modes
<1>2. CASE Ready
  BY <1>2 DEF Ready
<1>3. CASE Die
  BY <1>0, <1>3 DEF Die
<1>4. CASE StopJogging
  BY <1>0, <1>4 DEF StopJogging
<1>5. CASE Beat
  BY <1>5 DEF Beat
<1>6. CASE Tick
  BY <1>6 DEF Tick
<1> QED BY <1>1, <1>2, <1>3, <1>4, <1>5, <1>6

(* The network thread, under the lock. *)
LEMMA SendStep == IInv /\ (Skip \/ CommandSend) => IInv'
<1> SUFFICES ASSUME IInv, Skip \/ CommandSend PROVE IInv'
  OBVIOUS
<1>1. /\ todo \in Seq(Message) /\ todo # <<>>
      /\ Head(todo) \in Message /\ Tail(todo) \in Seq(Message)
  BY HeadTailProperties DEF IInv, TypeOK, Skip, CommandSend
<1>2. CASE Skip
  BY <1>1, <1>2 DEF IInv, TypeOK, LinkInv, Skip, linuxCnc, link, clock, jogging
<1>3. CASE CommandSend
  <2> DEFINE m == Head(todo)
  <2>0. Still \in [Axis -> Speeds]
    BY SpeedsAssumption DEF Still
  <2>1. PICK o \in Outcomes :
          /\ todo' = Rest(m, o)
          /\ sure' = (sure /\ o.echoed)
          /\ IF o.reached THEN Obey(m) ELSE UNCHANGED <<mode, jog>>
          /\ IF m.type = "Jog"
             THEN /\ cache' = Cached(m, o)
                  /\ lost' = [lost EXCEPT ![m.axis] = ~o.reached]
             ELSE UNCHANGED <<cache, lost>>
    BY <1>3 DEF CommandSend
  <2>2. o \in [reached : BOOLEAN, echoed : BOOLEAN]
    BY DEF Outcomes
  <2>3. todo' \in Seq(Message)
    BY <1>1, <2>1, EmptySeq DEF Rest
  <2>4. m.type = "Jog" => m.axis \in Axis /\ m.vel \in Speeds
    BY <1>1 DEF Message
  <2>5. m.type = "SetMode" => m.mode \in Modes
    BY <1>1 DEF Message
  <2>6. mode' \in Modes /\ jog' \in [Axis -> Speeds]
    <3>1. CASE ~o.reached
      BY <2>1, <3>1 DEF IInv, TypeOK
    <3>2. CASE o.reached /\ m.type = "Jog"
      <4>1. PICK v \in {0, m.vel} : jog' = [jog EXCEPT ![m.axis] = v]
        BY <2>1, <3>2 DEF Obey
      <4>2. v \in Speeds
        BY <2>4, <3>2, SpeedsAssumption
      <4> QED BY <2>1, <3>2, <4>1, <4>2 DEF Obey, IInv, TypeOK
    <3>3. CASE o.reached /\ m.type # "Jog"
      BY <2>0, <2>1, <2>5, <3>3 DEF Obey, IInv, TypeOK
    <3> QED BY <3>1, <3>2, <3>3
  <2>7. cache' \in [Axis -> Speeds] /\ lost' \in [Axis -> BOOLEAN]
    <3>1. CASE m.type = "Jog"
      <4>1. cache' = [cache EXCEPT ![m.axis] = m.vel]
        BY <2>1, <3>1 DEF Cached
      <4> QED BY <2>1, <2>4, <3>1, <4>1 DEF IInv, TypeOK
    <3>2. CASE m.type # "Jog"
      BY <2>1, <3>2 DEF IInv, TypeOK
    <3> QED BY <3>1, <3>2
  <2>8. sure' \in BOOLEAN
    BY <2>1, <2>2
  <2> QED BY <1>3, <2>3, <2>6, <2>7, <2>8
          DEF CommandSend, IInv, TypeOK, LinkInv, link, clock
<1> QED BY <1>2, <1>3

(* The types hold for every number of axes and every set of speeds. *)
THEOREM TypeCorrect == Spec => []TypeOK
<1>1. Init => IInv
  BY IInvInit
<1>2. IInv /\ [Next]_vars => IInv'
  <2>1. IInv /\ UNCHANGED vars => IInv'
    BY DEF IInv, TypeOK, LinkInv, vars, linuxCnc, link, clock, jogging
  <2> QED BY <2>1, LinuxCncStep, LinkStep, CommandsTyped, SendStep DEF Next
<1>3. IInv => TypeOK
  BY DEF IInv
<1> QED BY <1>1, <1>2, <1>3, PTL DEF Spec

-----------------------------------------------------------------------------
(* A message to an axis that reaches LinuxCNC makes the axis move as       *)
(* cached, or stop; one that does not is marked as lost.                   *)
LEMMA JogSent ==
  ASSUME MovingIsCached, NEW x, NEW vel \in Speeds, NEW reached \in BOOLEAN,
         jog \in [Axis -> Speeds], cache \in [Axis -> Speeds], lost \in [Axis -> BOOLEAN],
         cache' = [cache EXCEPT ![x] = vel],
         lost' = [lost EXCEPT ![x] = ~reached],
         \/ reached /\ \E v \in {0, vel} : jog' = [jog EXCEPT ![x] = v]
         \/ ~reached /\ jog' = jog
  PROVE  MovingIsCached'
<1>1. CASE reached
  <2>1. PICK v \in {0, vel} : jog' = [jog EXCEPT ![x] = v]
    BY <1>1
  <2> QED BY <2>1 DEF MovingIsCached
<1>2. CASE ~reached
  BY <1>2 DEF MovingIsCached
<1> QED BY <1>1, <1>2

(* Stopping is always allowed: the cache is then only out of date. *)
LEMMA Stopped ==
  ASSUME MovingIsCached, jog' = Still, UNCHANGED <<cache, lost>>
  PROVE  MovingIsCached'
BY DEF MovingIsCached, Still

(* Only LinuxCNC's own steps and CommandSend() touch what MovingIsCached   *)
(* is about.                                                               *)
LEMMA JogStepKeeps == TypeOK /\ MovingIsCached /\ [Next]_vars => MovingIsCached'
<1> SUFFICES ASSUME TypeOK, MovingIsCached, [Next]_vars PROVE MovingIsCached'
  OBVIOUS
<1>1. ASSUME UNCHANGED <<jog, cache, lost>> PROVE MovingIsCached'
  BY <1>1 DEF MovingIsCached
<1>2. CASE Start \/ Die \/ StopJogging
  BY <1>2, Stopped DEF Start, Die, StopJogging, jogging
<1>3. CASE Ready \/ Beat \/ Tick
  BY <1>1, <1>3 DEF Ready, Beat, Tick, linuxCnc, jogging
<1>4. CASE Main
  BY <1>1, <1>4 DEF Main, ConnectStatus, ConnectError, Check, Synchronise, Poll, Leave,
       linuxCnc, jogging
<1>5. CASE UpdateState
  BY <1>1, <1>5 DEF UpdateState, UpdateOffline, UpdateSilent, UpdateConnected,
       linuxCnc, jogging
<1>6. CASE Commands
  BY <1>1, <1>6 DEF Commands, JogVel, JogStep, Mdi, CycleStart, CycleStop, DrivesOn, Home,
       SendOther, Does, Serve, linuxCnc
<1>7. CASE Skip
  BY <1>1, <1>7 DEF Skip, linuxCnc, jogging
<1>8. CASE CommandSend
  <2> DEFINE m == Head(todo)
  <2>1. PICK o \in Outcomes :
          /\ IF o.reached THEN Obey(m) ELSE UNCHANGED <<mode, jog>>
          /\ IF m.type = "Jog"
             THEN /\ cache' = Cached(m, o)
                  /\ lost' = [lost EXCEPT ![m.axis] = ~o.reached]
             ELSE UNCHANGED <<cache, lost>>
    BY <1>8 DEF CommandSend
  <2>2. CASE m.type = "Jog"
    <3>1. m \in Message
      BY <1>8, HeadTailProperties DEF TypeOK, CommandSend
    <3>2. m.vel \in Speeds
      BY <2>2, <3>1 DEF Message
    <3>3. o \in [reached : BOOLEAN, echoed : BOOLEAN]
      BY DEF Outcomes
    <3>4. cache' = [cache EXCEPT ![m.axis] = m.vel]
      BY <2>1, <2>2 DEF Cached
    <3>5. \/ o.reached /\ \E v \in {0, m.vel} : jog' = [jog EXCEPT ![m.axis] = v]
          \/ ~o.reached /\ jog' = jog
      BY <2>1, <2>2, <3>3 DEF Obey
    <3>6. o.reached \in BOOLEAN
      BY <3>3
    <3>7. lost' = [lost EXCEPT ![m.axis] = ~o.reached]
      BY <2>1, <2>2
    <3> HIDE DEF m
    <3> QED BY <3>2, <3>4, <3>5, <3>6, <3>7, JogSent DEF TypeOK
  <2>3. CASE m.type # "Jog"
    <3>1. jog' = jog \/ jog' = Still
      BY <2>1, <2>3 DEF Obey
    <3> QED BY <1>1, <2>1, <2>3, <3>1, Stopped
  <2> QED BY <2>2, <2>3
<1>9. CASE UNCHANGED vars
  BY <1>1, <1>9 DEF vars, linuxCnc, jogging
<1> QED BY <1>2, <1>3, <1>4, <1>5, <1>6, <1>7, <1>8, <1>9 DEF Next

(* An axis that LinuxCNC jogs for this server is never taken for a stopped *)
(* one by SendJog(), unless its last message was lost.                     *)
THEOREM MovingAxesAreCached == Spec => []MovingIsCached
<1>1. Init => MovingIsCached
  BY DEF Init, MovingIsCached, Still
<1> QED BY <1>1, JogStepKeeps, TypeCorrect, PTL DEF Spec

=============================================================================
