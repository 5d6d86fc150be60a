-------------------------- MODULE StatusPollProofs --------------------------
(***************************************************************************)
(* Proof that the cache of Client::IsBusy() does what it is for, for any   *)
(* machine states, servers, and numbers of commands and connections:       *)
(* a machine told to move is reported busy until a state asked for after   *)
(* the command is there, as long as no step of Poll() falls between the    *)
(* writes of OnResponse().                                                 *)
(***************************************************************************)
EXTENDS StatusPoll, TLAPS

(* Where the one status request stands: with linear, answered and readable, or
   being failed; the callback in progress decides what busy and answer are. *)
CallInv ==
  /\ request.kind # "none" => /\ busy /\ answer.kind = "none"
                              /\ net \notin {"answered", "failed"}
  /\ net = "answered" => busy /\ answer.kind # "none"
  /\ net = "failed" => busy /\ answer.kind = "none"
  /\ answer.kind # "none" /\ net # "answered" => ~busy

(* When one more state is enough to clear the cache, that state was asked for
   after the last command: the request or the answer on its way is not older.
   An answer that has just been stored still lies there, at "next", but the
   next statement of Poll() discards it. *)
CacheInv ==
  /\ owed <= cache
  /\ owed > 0 /\ lag = 0 =>
       /\ request.kind = "GetState" => request.after = issued
       /\ answer.kind = "GetState" /\ poll # "next" => answer.after = issued

(* Where the telling of the losses stands. *)
LossInv ==
  /\ retries = IF up THEN 0 ELSE 1
  /\ net \in {"forget", "forgotten"} => ~up
  /\ reported = connection - (IF up \/ net \in {"forget", "forgotten"} THEN 1 ELSE 0)

USE StatesAssumption, BoundsAssumption

(* The initial state is well typed, whatever the constructor left in the cache. *)
LEMMA InitType == Init => TypeOK
<1> SUFFICES ASSUME Init PROVE TypeOK
  OBVIOUS
<1> USE DEF Init, NO_SERVER
<1>1. answer \in [kind : Kinds, value : Nat, after : 0 .. MaxCommands]
  BY DEF NoAnswer, Kinds
<1>2. request \in [kind : Kinds, conn : 0 .. MaxConnections, after : 0 .. MaxCommands]
  BY DEF NoRequest, Kinds
<1>3. cache \in Nat /\ lag \in Nat
  OBVIOUS
<1>4. /\ connection \in 0 .. MaxConnections /\ issued \in 0 .. MaxCommands
      /\ greeted \in 0 .. MaxConnections /\ reported \in 0 .. MaxConnections
  OBVIOUS
<1>5. version \in Nat /\ serverVer \in Int /\ machineState \in Nat /\ owed \in Nat
  OBVIOUS
<1>6. /\ poll \in {"out", "version", "accept", "ask", "state", "next"}
      /\ net \in {"idle", "answered", "failed", "forget", "forgotten"}
      /\ busy \in BOOLEAN /\ torn \in BOOLEAN /\ up \in BOOLEAN /\ retries \in {0, 1} /\ server \in Versions
  OBVIOUS
<1> QED
  BY <1>1, <1>2, <1>3, <1>4, <1>5, <1>6 DEF TypeOK

(* A step of the GUI thread keeps the types. *)
LEMMA GuiType == TypeOK /\ Gui => TypeOK'
<1> SUFFICES ASSUME TypeOK, Gui PROVE TypeOK'
  OBVIOUS
<1> USE DEF TypeOK, callVars, linkVars, toldVars, cacheVars, Maximum, PollStep
<1>1. ASSUME NEW level \in Levels, Command(level) PROVE TypeOK'
  BY <1>1 DEF Command, SetBusy
<1>2. CASE Poll
  BY <1>2 DEF Poll
<1>3. CASE ReadVersion
  BY <1>3 DEF ReadVersion
<1>4. CASE AcceptVersion
  BY <1>4 DEF AcceptVersion, NoAnswer, Kinds
<1>5. ASSUME NEW kind \in Kinds, Send(kind)
      PROVE /\ busy' \in BOOLEAN
            /\ answer' \in [kind : Kinds, value : Nat, after : 0 .. MaxCommands]
            /\ request' \in [kind : Kinds, conn : 0 .. MaxConnections, after : 0 .. MaxCommands]
  BY <1>5 DEF Send, NoAnswer, NoRequest, Kinds
<1>6. CASE AskVersion
  BY <1>5, <1>6 DEF AskVersion, Kinds
<1>7. CASE StoreState
  BY <1>7 DEF StoreState, Expire
<1>8. CASE AskState
  BY <1>5, <1>8 DEF AskState, Kinds
<1> QED
  BY <1>1, <1>2, <1>3, <1>4, <1>6, <1>7, <1>8 DEF Gui

(* So does a callback, given that no loss of the connection is told twice:
   reported stays within the number of connections made. *)
LEMMA NetworkType == TypeOK /\ LossInv /\ Network => TypeOK'
<1> SUFFICES ASSUME TypeOK, LossInv, Network PROVE TypeOK'
  OBVIOUS
<1> USE DEF TypeOK, callVars, linkVars, toldVars, cacheVars
<1>1. ASSUME NEW value \in Nat, Respond(value) PROVE TypeOK'
  BY <1>1 DEF Respond, NoRequest, Kinds
<1>2. CASE OnResponse
  BY <1>1, <1>2 DEF OnResponse
<1>3. CASE OnError
  BY <1>3 DEF OnError, NoRequest, Kinds
<1>4. CASE CallbackEnds
  BY <1>4 DEF CallbackEnds
<1>5. CASE OnConnect
  BY <1>5 DEF OnConnect
<1>6. CASE OnDisconnect
  BY <1>6 DEF OnDisconnect
<1>7. CASE ForgetVersion
  BY <1>7 DEF ForgetVersion
<1>8. CASE ForgetState
  BY <1>8 DEF ForgetState, LossInv, NO_SERVER
<1> QED
  BY <1>2, <1>3, <1>4, <1>5, <1>6, <1>7, <1>8 DEF Network

(* Each connection made is either up, or its loss is told or being told. *)
LEMMA LossStep == TypeOK /\ LossInv /\ [Next]_vars => LossInv'
<1> SUFFICES ASSUME TypeOK, LossInv, [Next]_vars PROVE LossInv'
  OBVIOUS
<1> USE DEF TypeOK, LossInv, callVars, linkVars, toldVars, cacheVars
<1>1. CASE Gui
  BY <1>1 DEF Gui, Command, Poll, ReadVersion, AcceptVersion, AskVersion, StoreState, AskState
<1>2. CASE OnResponse
  BY <1>2 DEF OnResponse, Respond
<1>3. CASE OnError \/ CallbackEnds
  BY <1>3 DEF OnError, CallbackEnds
<1>4. CASE OnConnect
  BY <1>4 DEF OnConnect
<1>5. CASE OnDisconnect
  BY <1>5 DEF OnDisconnect
<1>6. CASE ForgetVersion
  BY <1>6 DEF ForgetVersion
<1>8. CASE ForgetState
  BY <1>8 DEF ForgetState
<1>7. CASE UNCHANGED vars
  BY <1>7 DEF vars
<1> QED
  BY <1>1, <1>2, <1>3, <1>4, <1>5, <1>6, <1>7, <1>8 DEF Next, Network

(* What is torn stays so. *)
LEMMA TornStays == ASSUME TypeOK, torn, [Next]_vars PROVE torn'
<1> USE DEF PollStep
<1>1. CASE Gui
  BY <1>1 DEF Gui, Command, Poll, ReadVersion, AcceptVersion, AskVersion, StoreState, AskState
<1>2. CASE Network
  BY <1>2 DEF Network, OnResponse, Respond, OnError, CallbackEnds, OnConnect, OnDisconnect,
              ForgetVersion, ForgetState
<1> QED
  BY <1>1, <1>2 DEF Next, vars

(* The status request is in one place at a time: Poll() sends one only when
   m_StatusCall is not busy, which no callback makes it before its last write. *)
LEMMA CallStep ==
  ASSUME ~torn', TypeOK, CallInv, [Next]_vars PROVE CallInv'
<1> USE DEF CallInv, TypeOK, callVars
<1>1. ASSUME NEW kind \in Kinds, kind # "none", ~busy, Send(kind), net' = net PROVE CallInv'
  BY <1>1 DEF Send, NoAnswer, NoRequest
<1>2. CASE UNCHANGED <<callVars, net>>
  BY <1>2
<1>3. CASE AcceptVersion
  BY <1>3 DEF AcceptVersion, PollStep, NoAnswer
<1>4. CASE AskVersion
  BY <1>1, <1>2, <1>4 DEF AskVersion, Kinds
<1>5. CASE AskState
  BY <1>1, <1>2, <1>5 DEF AskState, Kinds
<1>6. ASSUME NEW value \in Nat, Respond(value) PROVE CallInv'
  BY <1>6 DEF Respond, NoRequest
<1>7. CASE OnResponse
  BY <1>6, <1>7, StatesAssumption DEF OnResponse
<1>8. CASE OnError
  BY <1>8 DEF OnError, NoRequest
<1>9. CASE CallbackEnds
  BY <1>9 DEF CallbackEnds
<1>10. CASE OnDisconnect \/ ForgetVersion \/ ForgetState
  BY <1>10 DEF OnDisconnect, ForgetVersion, ForgetState
<1>11. CASE Poll \/ ReadVersion \/ StoreState \/ OnConnect \/ UNCHANGED vars
  BY <1>2, <1>11 DEF Poll, ReadVersion, StoreState, OnConnect, vars
<1>12. ASSUME NEW level \in Levels, Command(level) PROVE CallInv'
  BY <1>2, <1>12 DEF Command
<1> QED
  BY <1>3, <1>4, <1>5, <1>7, <1>8, <1>9, <1>10, <1>11, <1>12 DEF Next, Gui, Network

(* Only a state asked for after the last command clears the cache. *)
LEMMA CacheStep ==
  ASSUME ~torn', TypeOK, CallInv, CacheInv, [Next]_vars PROVE CacheInv'
<1> USE DEF CacheInv, TypeOK, cacheVars
<1>1. CASE UNCHANGED <<callVars, poll, cacheVars>>
  BY <1>1 DEF callVars
<1>2. ASSUME NEW level \in Levels, Command(level) PROVE CacheInv'
  BY <1>2 DEF Command, SetBusy, Maximum, callVars
<1>3. CASE Poll \/ ReadVersion
  BY <1>3 DEF Poll, ReadVersion, callVars
<1>4. CASE AcceptVersion
  BY <1>4 DEF AcceptVersion, NoAnswer
<1>5. CASE AskVersion
  BY <1>5 DEF AskVersion, Send, NoAnswer, NoRequest, callVars
<1>6. CASE StoreState
  <2>1. /\ net # "answered"
        /\ poll = "state" /\ poll' = "next"
        /\ UNCHANGED <<answer, request, issued>>
    BY <1>6 DEF StoreState, PollStep, callVars
  <2>2. CASE answer.kind = "GetState"
    <3>1. request.kind = "none"
      BY <2>2 DEF CallInv
    <3>2. CASE lag = 0
      <4>1. cache' = 0 /\ lag' = 0
        BY <1>6, <2>2, <3>2 DEF StoreState, Expire, Maximum
      <4>2. owed' = 0
        BY <1>6, <2>1, <2>2, <3>2 DEF StoreState
      <4> QED
        BY <2>1, <4>1, <4>2
    <3>3. CASE lag # 0
      <4>1. cache' = cache /\ owed' <= owed /\ owed' \in Nat
        BY <1>6, <2>2, <3>3 DEF StoreState, Expire
      <4> QED
        BY <2>1, <3>1, <4>1
    <3> QED
      BY <3>2, <3>3
  <2>3. CASE answer.kind # "GetState"
    BY <1>6, <2>1, <2>3 DEF StoreState
  <2> QED
    BY <2>2, <2>3
<1>7. CASE AskState
  <2>1. CASE busy
    BY <1>7, <2>1 DEF AskState, PollStep, CallInv, callVars
  <2>2. CASE ~busy
    BY <1>7, <2>2 DEF AskState, Send, NoAnswer, NoRequest
  <2> QED
    BY <2>1, <2>2
<1>8. ASSUME NEW value \in Nat, Respond(value) PROVE CacheInv'
  BY <1>8 DEF Respond, NoRequest
<1>9. CASE OnResponse
  BY <1>8, <1>9, StatesAssumption DEF OnResponse
<1>10. CASE OnError
  BY <1>10 DEF OnError, NoRequest
<1>11. CASE CallbackEnds \/ OnConnect \/ OnDisconnect \/ ForgetVersion \/ ForgetState \/ UNCHANGED vars
  BY <1>1, <1>11 DEF CallbackEnds, OnConnect, OnDisconnect, ForgetVersion, ForgetState, vars, callVars
<1> QED
  BY <1>2, <1>3, <1>4, <1>5, <1>6, <1>7, <1>9, <1>10, <1>11 DEF Next, Gui, Network

-----------------------------------------------------------------------------
(* The variables keep their types however the two threads interleave. *)
THEOREM TypeCorrect == Spec => [](TypeOK /\ LossInv)
<1>1. ASSUME Init PROVE TypeOK /\ LossInv
  <2>1. /\ up = FALSE /\ net = "idle" /\ retries = 1
        /\ connection = 0 /\ reported = 0
    BY <1>1 DEF Init
  <2>2. reported = connection - 0
    BY <2>1
  <2> QED
    BY <1>1, InitType, <2>1, <2>2 DEF LossInv
<1>2. TypeOK /\ LossInv /\ UNCHANGED vars => TypeOK'
  BY DEF TypeOK, vars, callVars, linkVars, toldVars, cacheVars
<1>3. TypeOK /\ LossInv /\ [Next]_vars => (TypeOK /\ LossInv)'
  BY <1>2, GuiType, NetworkType, LossStep DEF Next
<1> QED
  BY <1>1, <1>3, PTL DEF Spec

(* The user's OnDisConnect() is called once for each connection that is lost,
   and not for the attempts to connect that fail. *)
THEOREM LossesAreReported == Spec => []LossesReported
<1>1. TypeOK /\ LossInv => LossesReported
  BY DEF TypeOK, LossInv, LossesReported
<1> QED
  BY <1>1, TypeCorrect, PTL

(* What IsBusy() answers follows from the cache: it covers what is owed. *)
LEMMA CoveredIsBusy == TypeOK /\ CacheInv => Covered
<1> SUFFICES ASSUME TypeOK, CacheInv, NEW state \in 0 .. owed - 1 PROVE IsBusy(state)
  BY DEF Covered
<1>1. cache > state
  BY DEF TypeOK, CacheInv
<1> QED
  BY <1>1 DEF IsBusy, TypeOK

(* With the two writes of OnResponse() seen as one, a machine that was told to
   move is reported busy until a state asked for after the command is stored,
   for every number of commands, lost connections, failed requests and servers,
   and whatever the constructor left in the cache and the heartbeats. *)
THEOREM BusyHolds == Spec => []BusyUntilSeen
<1> DEFINE Inv == torn \/ (CallInv /\ CacheInv)
<1>1. Init => Inv
  <2> SUFFICES ASSUME Init PROVE CallInv /\ CacheInv
    OBVIOUS
  <2>1. CallInv
    BY DEF Init, CallInv, NoRequest, NoAnswer
  <2>2. owed = 0 /\ cache \in Nat
    BY DEF Init
  <2> QED
    BY <2>1, <2>2 DEF CacheInv
<1>2. ASSUME TypeOK, Inv, [Next]_vars PROVE Inv'
  <2>1. CASE torn'
    BY <2>1
  <2>2. CASE ~torn'
    <3>1. ~torn
      BY <1>2, <2>2, TornStays
    <3> QED
      BY <1>2, <2>2, <3>1, CallStep, CacheStep
  <2> QED
    BY <2>1, <2>2
<1>3. Spec => []Inv
  BY <1>1, <1>2, TypeCorrect, PTL DEF Spec
<1>4. TypeOK /\ Inv => BusyUntilSeen
  BY CoveredIsBusy DEF BusyUntilSeen
<1> QED
  BY <1>3, <1>4, TypeCorrect, PTL

(* What holds even where a step of Poll() falls between the writes of
   OnResponse(): an answer may then be read and cleared before m_busy is, but
   nothing is asked meanwhile; and a version is asked for only while none is
   known. *)
RequestInv ==
  /\ request.kind # "none" => /\ busy /\ answer.kind = "none"
                              /\ net \notin {"answered", "failed"}
  /\ net \in {"answered", "failed"} => busy
  /\ answer.kind # "none" /\ net # "answered" => ~busy
  /\ poll \in {"version", "accept"} => serverVer = 0
  /\ poll = "accept" => answer.kind = "Version"
  /\ serverVer > 0 \/ poll \in {"state", "next"} =>
       request.kind # "Version" /\ answer.kind # "Version"

(* Every step keeps it. *)
LEMMA RequestStep == ASSUME TypeOK, RequestInv, [Next]_vars PROVE RequestInv'
<1> USE DEF RequestInv, TypeOK, callVars
<1>1. CASE UNCHANGED vars
  BY <1>1 DEF vars, linkVars, toldVars, cacheVars
<1>2. ASSUME NEW level \in Levels, Command(level) PROVE RequestInv'
  BY <1>2 DEF Command
<1>3. CASE Poll
  BY <1>3 DEF Poll
<1>4. CASE ReadVersion
  BY <1>4 DEF ReadVersion
<1>5. CASE AcceptVersion
  BY <1>5 DEF AcceptVersion, NoAnswer
<1>6. CASE AskVersion
  BY <1>6 DEF AskVersion, Send, NoAnswer, NoRequest
<1>7. CASE StoreState
  BY <1>7 DEF StoreState
<1>8. CASE AskState
  BY <1>8 DEF AskState, Send, NoAnswer, NoRequest
<1>9. CASE OnResponse
  BY <1>9 DEF OnResponse, Respond, NoRequest
<1>10. CASE OnError \/ CallbackEnds
  BY <1>10 DEF OnError, CallbackEnds, NoRequest
<1>11. CASE OnConnect \/ OnDisconnect
  BY <1>11 DEF OnConnect, OnDisconnect
<1>12. CASE ForgetVersion \/ ForgetState
  BY <1>12 DEF ForgetVersion, ForgetState
<1> QED
  BY <1>1, <1>2, <1>3, <1>4, <1>5, <1>6, <1>7, <1>8, <1>9, <1>10, <1>11, <1>12
     DEF Next, Gui, Network

(* One request of m_StatusCall at a time, and no answer is taken for the other
   kind, wherever the two threads interrupt each other. *)
THEOREM OneAtATime == Spec => []OneRequest
<1>1. Init => RequestInv
  BY DEF Init, RequestInv, NoRequest, NoAnswer
<1>2. TypeOK /\ RequestInv /\ [Next]_vars => RequestInv'
  BY RequestStep
<1>3. RequestInv => OneRequest
  BY DEF RequestInv, OneRequest
<1> QED
  BY <1>1, <1>2, <1>3, TypeCorrect, PTL DEF Spec

(* While a version is wanted and may come, the user has not been greeted in
   this connection. *)
GreetInv ==
  /\ greeted <= connection
  /\ poll \in {"version", "accept"} => serverVer = 0
  /\ serverVer = 0 /\ poll # "accept" /\ (up \/ poll = "version") => greeted < connection

(* Every step keeps it. *)
LEMMA GreetStep ==
  ASSUME MinVersion # 0, TypeOK, LossInv, GreetInv, [Next]_vars PROVE GreetInv'
<1> USE DEF GreetInv, TypeOK, callVars, linkVars, toldVars
<1>1. CASE UNCHANGED vars
  BY <1>1 DEF vars
<1>2. ASSUME NEW level \in Levels, Command(level) PROVE GreetInv'
  BY <1>2 DEF Command
<1>3. CASE Poll
  BY <1>3 DEF Poll
<1>4. CASE ReadVersion
  BY <1>4 DEF ReadVersion
<1>5. CASE AcceptVersion
  BY <1>5 DEF AcceptVersion
<1>6. CASE AskVersion \/ StoreState \/ AskState
  BY <1>6 DEF AskVersion, StoreState, AskState
<1>7. CASE OnResponse
  BY <1>7 DEF OnResponse, Respond
<1>8. CASE OnError \/ CallbackEnds
  BY <1>8 DEF OnError, CallbackEnds
<1>9. CASE OnConnect \/ OnDisconnect
  BY <1>9 DEF OnConnect, OnDisconnect
<1>10. CASE ForgetVersion \/ ForgetState
  BY <1>10 DEF ForgetVersion, ForgetState, LossInv
<1> QED
  BY <1>1, <1>2, <1>3, <1>4, <1>5, <1>6, <1>7, <1>8, <1>9, <1>10 DEF Next, Gui, Network

(* The user's OnConnect() is not called twice in a connection, although the
   version is forgotten by one thread while the other takes it: 0, which stands
   for an unknown version, is not one that the client accepts. *)
THEOREM GreetsOnce ==
  ASSUME MinVersion # 0
  PROVE  Spec => GreetedOnce
<1>1. Init => GreetInv
  BY DEF Init, GreetInv
<1>2. TypeOK /\ LossInv /\ GreetInv /\ [Next]_vars => GreetInv'
  BY GreetStep
<1>3. TypeOK /\ GreetInv /\ [Next]_vars =>
        [poll = "version" /\ poll' = "accept" /\ version' >= MinVersion => greeted < connection]_vars
  BY DEF GreetInv
<1> QED
  BY <1>1, <1>2, <1>3, TypeCorrect, PTL DEF Spec, GreetedOnce
=============================================================================
