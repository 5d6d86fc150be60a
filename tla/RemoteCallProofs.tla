-------------------------- MODULE RemoteCallProofs --------------------------
(***************************************************************************)
(* Proofs about RemoteCall, for any objects and any number of calls: an    *)
(* object that outlives its calls never shows the answer of another call,  *)
(* and keeps CallContract.  No theorem depends on MCObjects or MCStack.    *)
(***************************************************************************)
EXTENDS MCRemoteCall, TLAPS

(* linear has nothing of object o. *)
NotPending(o) == \A r \in pending : r.obj # o

(* The latest call of o is open and nothing of its outcome is visible. *)
Unanswered(o, id) == busy[o] /\ id = current[o] /\ ~hasResponse[o] /\ ~failed[o]

(* Where the calls of one object stand. *)
ObjectInv(o) ==
  /\ alive[o]
  /\ \A r \in pending : r.obj = o => Unanswered(o, r.id)
  /\ \A c \in callbacks : c.obj = o =>
       /\ NotPending(o)
       /\ busy[o]
       /\ c.write = "hasResponse" => Unanswered(o, c.id) /\ response[o] = c.id
  /\ hasResponse[o] => response[o] = current[o]
  /\ ~(hasResponse[o] /\ failed[o])
  /\ returned[o].answer = returned[o].call

IInv ==
  /\ TypeOK
  /\ \A c, d \in callbacks : c = d
  /\ \A o \in Members : ObjectInv(o)

-----------------------------------------------------------------------------
(* The initial state is well typed, as the constructor sets every member. *)
LEMMA InitType == Init => TypeOK
BY StackAssumption, MaxCallsAssumption DEF Init, TypeOK, Numbers

(* No step of a client thread or of a callback leaves the types. *)
LEMMA StepType == TypeOK /\ [Next]_vars => TypeOK'
<1> SUFFICES ASSUME TypeOK, [Next]_vars PROVE TypeOK'
  OBVIOUS
<1> USE StackAssumption, MaxCallsAssumption DEF TypeOK, Numbers
<1>1. ASSUME NEW o \in Objects, Construct(o) PROVE TypeOK'
  BY <1>1 DEF Construct
<1>2. ASSUME NEW o \in Objects, CallAsync(o) PROVE TypeOK'
  BY <1>2 DEF CallAsync, Begin, MayBegin, Reset, Requests
<1>3. ASSUME NEW o \in Objects, Call(o) PROVE TypeOK'
  BY <1>3 DEF Call, Begin, MayBegin, Reset, Requests
<1>4. ASSUME NEW o \in Objects, TransferFails(o) PROVE TypeOK'
  BY <1>4 DEF TransferFails, Begin, MayBegin, Reset
<1>5. ASSUME NEW o \in Objects, Return(o) PROVE TypeOK'
  BY <1>5 DEF Return, Leave
<1>6. ASSUME NEW o \in Objects, WaitTimesOut(o) PROVE TypeOK'
  BY <1>6 DEF WaitTimesOut, Leave
<1>7. ASSUME NEW o \in Objects, ClearResponse(o) PROVE TypeOK'
  BY <1>7 DEF ClearResponse
<1>8. ASSUME NEW r \in pending, OnResponse(r) PROVE TypeOK'
  BY <1>8 DEF OnResponse, Requests, Callbacks
<1>9. ASSUME NEW r \in pending, OnError(r) PROVE TypeOK'
  BY <1>9 DEF OnError, Requests, Callbacks
<1>10. ASSUME NEW c \in callbacks, SetHasResponse(c) PROVE TypeOK'
  BY <1>10 DEF SetHasResponse, Callbacks
<1>11. ASSUME NEW c \in callbacks, ClearBusy(c) PROVE TypeOK'
  BY <1>11 DEF ClearBusy, Callbacks
<1>12. CASE UNCHANGED vars
  BY <1>12 DEF vars
<1> QED
  BY <1>1, <1>2, <1>3, <1>4, <1>5, <1>6, <1>7, <1>8, <1>9, <1>10, <1>11, <1>12
  DEF Next, Client, Network

(* Every variable keeps its type, for any objects and any number of calls:
   the states that the other theorems are about are the program's. *)
THEOREM TypeCorrect == Spec => []TypeOK
BY InitType, StepType, PTL DEF Spec

-----------------------------------------------------------------------------
(* The constructed objects satisfy the invariant: no call is made yet. *)
LEMMA InitInv == Init => IInv
<1> SUFFICES ASSUME Init PROVE IInv
  OBVIOUS
<1>1. TypeOK
  BY InitType
<1>2. ASSUME NEW o \in Members PROVE ObjectInv(o)
  BY DEF Init, Members, ObjectInv, NotPending
<1> QED
  BY <1>1, <1>2 DEF IInv, Init

(* A client thread's step keeps the invariant of every object that outlives
   its calls: a new call is only begun when linear has nothing of the object. *)
LEMMA ClientStep == IInv /\ Client => IInv'
<1> SUFFICES ASSUME IInv, NEW p \in Objects,
                    \/ Construct(p) \/ CallAsync(p) \/ Call(p) \/ TransferFails(p)
                    \/ Return(p) \/ WaitTimesOut(p) \/ ClearResponse(p)
             PROVE IInv'
  BY DEF Client
<1>1. TypeOK'
  BY StepType DEF IInv, Next, Client
<1>2. (\A c, d \in callbacks : c = d)'
  BY DEF IInv, Construct, CallAsync, Call, TransferFails, Begin, Return, WaitTimesOut, Leave, ClearResponse
<1>3. ASSUME NEW o \in Members PROVE ObjectInv(o)'
  <2> USE DEF ObjectInv, Unanswered, NotPending, Members, IInv, TypeOK
  <2>1. CASE Construct(p)
    BY <2>1 DEF Construct
  <2>2. CASE CallAsync(p)
    BY <2>2 DEF CallAsync, Begin, MayBegin, Reset
  <2>3. CASE Call(p)
    BY <2>3 DEF Call, Begin, MayBegin, Reset
  <2>4. CASE TransferFails(p)
    BY <2>4 DEF TransferFails, Begin, MayBegin, Reset
  <2>5. CASE Return(p)
    BY <2>5 DEF Return, Leave
  <2>6. CASE WaitTimesOut(p)
    BY <2>6 DEF WaitTimesOut, Leave
  <2>7. CASE ClearResponse(p)
    BY <2>7 DEF ClearResponse
  <2> QED
    BY <2>1, <2>2, <2>3, <2>4, <2>5, <2>6, <2>7
<1> QED
  BY <1>1, <1>2, <1>3 DEF IInv

(* So does each write of a callback: it belongs to the latest call, as the
   object has been busy ever since linear took the request. *)
LEMMA NetworkStep == IInv /\ Network => IInv'
<1> SUFFICES ASSUME IInv, Network PROVE IInv'
  OBVIOUS
<1>1. TypeOK'
  BY StepType DEF IInv, Next
<1>2. (\A c, d \in callbacks : c = d)'
  BY DEF IInv, Network, OnResponse, OnError, SetHasResponse, ClearBusy
<1>3. ASSUME NEW o \in Members PROVE ObjectInv(o)'
  <2> USE DEF ObjectInv, Unanswered, NotPending, Members, IInv, TypeOK
  <2>1. ASSUME NEW r \in pending, OnResponse(r) PROVE ObjectInv(o)'
    BY <2>1 DEF OnResponse, Requests
  <2>2. ASSUME NEW r \in pending, OnError(r) PROVE ObjectInv(o)'
    <3>1. /\ callbacks = {}
          /\ callbacks' = {[obj |-> r.obj, id |-> r.id, write |-> "busy"]}
          /\ pending' = pending \ {r}
          /\ failed' = [failed EXCEPT ![r.obj] = TRUE]
          /\ UNCHANGED <<alive, busy, hasResponse, response, current, returned>>
      BY <2>2 DEF OnError
    <3>2. CASE r.obj = o
      <4>1. NotPending(o)'
        BY <3>1, <3>2 DEF Requests
      <4>2. busy[o] /\ ~hasResponse[o]
        BY <3>2
      <4> QED
        BY <3>1, <3>2, <4>1, <4>2
    <3>3. CASE r.obj # o
      BY <3>1, <3>3 DEF Requests
    <3> QED
      BY <3>2, <3>3
  <2>3. ASSUME NEW c \in callbacks, SetHasResponse(c) PROVE ObjectInv(o)'
    BY <2>3 DEF SetHasResponse, Callbacks
  <2>4. ASSUME NEW c \in callbacks, ClearBusy(c) PROVE ObjectInv(o)'
    BY <2>4 DEF ClearBusy, Callbacks
  <2> QED
    BY <2>1, <2>2, <2>3, <2>4 DEF Network
<1> QED
  BY <1>1, <1>2, <1>3 DEF IInv

(* Nothing changes. *)
LEMMA StutterStep == IInv /\ UNCHANGED vars => IInv'
BY DEF IInv, vars, TypeOK, ObjectInv, Unanswered, NotPending

(* The invariant holds in every reachable state. *)
THEOREM Invariance == Spec => []IInv
<1>1. IInv /\ [Next]_vars => IInv'
  BY ClientStep, NetworkStep, StutterStep DEF Next
<1> QED
  BY InitInv, <1>1, PTL DEF Spec

(* Whatever the interleaving of calls, timeouts in Wait() and late callbacks,
   a readable response answers the latest call made with the object. *)
THEOREM CurrentResponse == Spec => []ResponseIsCurrent
<1>1. IInv => ResponseIsCurrent
  BY DEF IInv, ObjectInv, ResponseIsCurrent
<1> QED
  BY <1>1, Invariance, PTL

(* And what Call() returns answers that call, also after a call before it
   timed out in Wait() and was answered late. *)
THEOREM OwnAnswerReturned == Spec => []ReturnsOwnAnswer
<1>1. IInv => ReturnsOwnAnswer
  BY DEF IInv, ObjectInv, ReturnsOwnAnswer
<1> QED
  BY <1>1, Invariance, PTL

(* GetResponse() cannot return an answer of a call that failed. *)
THEOREM ErrorExcludesAnswer == Spec => []NoAnswerAfterError
<1>1. IInv => NoAnswerAfterError
  BY DEF IInv, ObjectInv, NoAnswerAfterError
<1> QED
  BY <1>1, Invariance, PTL

(* Once IsBusy() is FALSE the network thread leaves the object alone. *)
THEOREM IdleUntouched == Spec => []IdleMeansUntouched
<1>1. IInv => IdleMeansUntouched
  BY DEF IInv, ObjectInv, IdleMeansUntouched, Awaited, Unanswered
<1> QED
  BY <1>1, Invariance, PTL

(* The response under a reader of GetResponse()'s reference never changes. *)
THEOREM StableResponse == Spec => ResponseStable
<1>1. ASSUME IInv, [Next]_vars, NEW o \in Members, hasResponse[o], hasResponse'[o]
      PROVE response'[o] = response[o]
  <2> USE <1>1 DEF IInv, TypeOK, Members
  <2>1. ASSUME NEW p \in Objects, Construct(p) PROVE response'[o] = response[o]
    BY <2>1 DEF Construct
  <2>2. ASSUME NEW r \in pending, OnResponse(r) PROVE response'[o] = response[o]
    BY <2>2 DEF OnResponse, ObjectInv, Unanswered, Requests
  <2> QED
    BY <2>1, <2>2 DEF Next, Client, Network, CallAsync, Call, TransferFails, Begin, Return,
       WaitTimesOut, Leave, ClearResponse, OnError, SetHasResponse, ClearBusy, vars
<1>2. IInv /\ [Next]_vars =>
        [\A o \in Members : hasResponse[o] /\ hasResponse'[o] => response'[o] = response[o]]_vars
  BY <1>1
<1> QED
  BY <1>2, Invariance, PTL DEF Spec, ResponseStable

-----------------------------------------------------------------------------
(* Calls are numbered in the order they are made. *)
Numbered == \A o \in Objects : current[o] <= calls

(* The calls are numbered throughout. *)
LEMMA NumberedInvariance == Spec => []Numbered
<1>1. ASSUME Init PROVE Numbered
  <2>1. calls = 0
    BY <1>1 DEF Init
  <2>2. ASSUME NEW o \in Objects PROVE current[o] <= calls
    <3>1. current[o] = 0
      BY <1>1 DEF Init
    <3> QED
      BY <2>1, <3>1
  <2> QED
    BY <2>2 DEF Numbered
<1>2. ASSUME TypeOK, Numbered, [Next]_vars PROVE Numbered'
  <2>1. CASE UNCHANGED <<calls, current>>
    BY <1>2, <2>1 DEF Numbered
  <2>2. ASSUME NEW p \in Objects, Begin(p) PROVE Numbered'
    BY <1>2, <2>2, MaxCallsAssumption DEF Numbered, TypeOK, Numbers, Begin
  <2> QED
    BY <1>2, <2>1, <2>2 DEF Next, Client, Network, Construct, CallAsync, Call, TransferFails,
       Return, WaitTimesOut, Leave, ClearResponse, OnResponse, OnError, SetHasResponse, ClearBusy, vars
<1> QED
  BY <1>1, <1>2, TypeCorrect, PTL DEF Spec

(* The contract of an object that outlives its calls. *)
Object(o) == INSTANCE CallContract WITH
  call <- current[o],
  open <- busy[o],
  answer <- IF hasResponse[o] THEN response[o] ELSE 0

(* RemoteCall implements CallContract for each such object: no matter what the
   threads and the other objects do, its user sees calls that begin when the
   one before is completed, and answers only of the call in progress. *)
THEOREM Implements == ASSUME NEW o \in Members PROVE Spec => Object(o)!Contract
<1>1. Init => Object(o)!ContractInit
  BY DEF Init, Object!ContractInit, Members
<1>2. ASSUME IInv, Numbered, [Next]_vars PROVE [Object(o)!ContractNext]_(Object(o)!contractVars)
  <2> USE <1>2 DEF IInv, Numbered, TypeOK, Members, ObjectInv, Unanswered, Numbers
  <2> USE DEF Object!ContractNext, Object!contractVars, Object!Make, Object!Publish,
      Object!Complete, Object!Discard
  <2>1. ASSUME NEW p \in Objects, CallAsync(p) \/ Call(p) \/ TransferFails(p)
        PROVE [Object(o)!ContractNext]_(Object(o)!contractVars)
    BY <2>1, MaxCallsAssumption DEF CallAsync, Call, TransferFails, Begin, MayBegin, Reset
  <2>2. ASSUME NEW p \in Objects,
               Construct(p) \/ Return(p) \/ WaitTimesOut(p) \/ ClearResponse(p)
        PROVE [Object(o)!ContractNext]_(Object(o)!contractVars)
    BY <2>2 DEF Construct, Return, WaitTimesOut, Leave, ClearResponse
  <2>3. ASSUME NEW r \in pending, OnResponse(r) \/ OnError(r)
        PROVE [Object(o)!ContractNext]_(Object(o)!contractVars)
    BY <2>3 DEF OnResponse, OnError, Requests
  <2>4. ASSUME NEW c \in callbacks, SetHasResponse(c) \/ ClearBusy(c)
        PROVE [Object(o)!ContractNext]_(Object(o)!contractVars)
    BY <2>4 DEF SetHasResponse, ClearBusy, Callbacks
  <2>5. CASE UNCHANGED vars
    BY <2>5 DEF vars
  <2> QED
    BY <2>1, <2>2, <2>3, <2>4, <2>5 DEF Next, Client, Network
<1> QED
  BY <1>1, <1>2, Invariance, NumberedInvariance, PTL DEF Spec, Object!Contract

(* In particular the object that TLC checks against the contract keeps it,
   among any other objects and with any number of calls. *)
THEOREM MemberImplements == ASSUME member \in Members PROVE Spec => KeepsContract
<1>1. Spec => Object(member)!Contract
  BY Implements
<1>2. Object(member)!ContractInit <=> Member!ContractInit
  BY DEF Object!ContractInit, Member!ContractInit
<1>3. [Object(member)!ContractNext]_(Object(member)!contractVars)
        <=> [Member!ContractNext]_(Member!contractVars)
  BY DEF Object!ContractNext, Object!contractVars, Object!Make, Object!Publish, Object!Complete,
         Object!Discard, Member!ContractNext, Member!contractVars, Member!Make, Member!Publish,
         Member!Complete, Member!Discard
<1> QED
  BY <1>1, <1>2, <1>3, PTL DEF KeepsContract, Member!Contract, Object!Contract
=============================================================================
