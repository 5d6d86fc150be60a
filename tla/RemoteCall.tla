----------------------------- MODULE RemoteCall -----------------------------
(***************************************************************************)
(* The RemoteCall objects of the client library (src/src/cncclient.cpp     *)
(* 52-138): one call at a time, made by a client thread, completed by a    *)
(* callback that the network thread of the "linear" library runs without   *)
(* any lock.  The callback's writes are steps of their own.                *)
(*                                                                         *)
(* A member of Stack is the place in memory of the RemoteCall that a       *)
(* blocking Client method declares as a local variable: it is constructed  *)
(* for one call, destroyed when the method returns or throws, and the next *)
(* such method finds its own local at the same place.  linear keeps a      *)
(* callback bound to that place until the request is answered or fails.    *)
(***************************************************************************)
EXTENDS Naturals

CONSTANTS Objects,    \* the RemoteCall objects
          Stack,      \* those that are locals of a blocking Client method
          MaxCalls    \* bound: calls made in a behaviour

ASSUME StackAssumption == Stack \subseteq Objects
ASSUME MaxCallsAssumption == MaxCalls \in Nat

VARIABLES
  alive,        \* [Objects -> BOOLEAN]: constructed and not yet destroyed
  busy,         \* m_busy
  hasResponse,  \* m_hasResponse
  response,     \* m_response: the call that it answers, 0 for NULL
  failed,       \* m_error is not empty
  waiting,      \* a client thread is in Call(), past CallAsync()
  pending,      \* requests that linear holds: neither answered nor failed
  callbacks,    \* the callback the network thread runs, if any, and its next write
  calls,        \* calls made so far; also the number of the latest one
  current,      \* number of the latest call made with the object
  returned      \* last answer a Call() returned: the call made, the call answered

vars == <<alive, busy, hasResponse, response, failed, waiting, pending,
          callbacks, calls, current, returned>>

members == <<busy, hasResponse, response, failed>>

Members == Objects \ Stack
Numbers == 0 .. MaxCalls
Requests == [obj : Objects, id : Numbers]
Callbacks == [obj : Objects, id : Numbers, write : {"hasResponse", "busy"}]

-----------------------------------------------------------------------------
Init ==
  /\ alive = [o \in Objects |-> o \notin Stack]
  /\ busy = [o \in Objects |-> FALSE]
  /\ hasResponse = [o \in Objects |-> FALSE]
  /\ response = [o \in Objects |-> 0]
  /\ failed = [o \in Objects |-> FALSE]
  /\ waiting = [o \in Objects |-> FALSE]
  /\ pending = {}
  /\ callbacks = {}
  /\ calls = 0
  /\ current = [o \in Objects |-> 0]
  /\ returned = [o \in Objects |-> [call |-> 0, answer |-> 0]]

-----------------------------------------------------------------------------
(* The client's threads. *)

(* The constructor, run for the local of a blocking method. *)
Construct(o) ==
  /\ o \in Stack /\ ~alive[o]
  /\ alive' = [alive EXCEPT ![o] = TRUE]
  /\ busy' = [busy EXCEPT ![o] = FALSE]
  /\ hasResponse' = [hasResponse EXCEPT ![o] = FALSE]
  /\ response' = [response EXCEPT ![o] = 0]
  /\ failed' = [failed EXCEPT ![o] = FALSE]
  /\ UNCHANGED <<waiting, pending, callbacks, calls, current, returned>>

(* A call may be made: otherwise CallAsync() throws BusyError and changes
   nothing. *)
MutantMayBegin(o) == alive[o] /\ ~waiting[o]   \* without the test of m_busy
MayBegin(o) == alive[o] /\ ~waiting[o] /\ ~busy[o]

(* What CallAsync() forgets of the call before. *)
MutantResetAnswer(o) == hasResponse' = hasResponse /\ failed' = [failed EXCEPT ![o] = FALSE]
MutantResetError(o) == failed' = failed /\ hasResponse' = [hasResponse EXCEPT ![o] = FALSE]
Reset(o) ==
  /\ hasResponse' = [hasResponse EXCEPT ![o] = FALSE]
  /\ failed' = [failed EXCEPT ![o] = FALSE]

(* CallAsync(), up to where it hands the request to linear. *)
Begin(o) ==
  /\ MayBegin(o)
  /\ calls < MaxCalls
  /\ calls' = calls + 1
  /\ current' = [current EXCEPT ![o] = calls + 1]
  /\ busy' = [busy EXCEPT ![o] = TRUE]
  /\ Reset(o)
  /\ UNCHANGED <<response, callbacks, returned>>

(* CallAsync(): linear accepts the request. *)
CallAsync(o) ==
  /\ o \notin Stack
  /\ Begin(o)
  /\ pending' = pending \cup {[obj |-> o, id |-> calls + 1]}
  /\ UNCHANGED <<alive, waiting>>

(* Call(): the same, and the thread goes on to Wait(). *)
Call(o) ==
  /\ Begin(o)
  /\ pending' = pending \cup {[obj |-> o, id |-> calls + 1]}
  /\ waiting' = [waiting EXCEPT ![o] = TRUE]
  /\ UNCHANGED alive

(* linear refuses the request: TransferError, which destroys a local. *)
TransferFails(o) ==
  /\ Begin(o)
  /\ alive' = [alive EXCEPT ![o] = o \notin Stack]
  /\ UNCHANGED <<pending, waiting>>

(* Call() returns or throws; a local is destroyed. *)
Leave(o) ==
  /\ waiting' = [waiting EXCEPT ![o] = FALSE]
  /\ alive' = [alive EXCEPT ![o] = o \notin Stack]
  /\ UNCHANGED <<hasResponse, response, failed, pending, callbacks, calls, current>>

(* Wait() finds the call completed; GetResponse() returns the response, or
   throws TimeoutError when there is none. *)
Return(o) ==
  /\ waiting[o] /\ ~busy[o]
  /\ IF hasResponse[o] /\ response[o] # 0
     THEN returned' = [returned EXCEPT ![o] = [call |-> current[o], answer |-> response[o]]]
     ELSE UNCHANGED returned
  /\ UNCHANGED busy
  /\ Leave(o)

MutantWaitTimesOut(o) ==   \* takes a call that timed out for completed
  /\ waiting[o] /\ busy[o]
  /\ busy' = [busy EXCEPT ![o] = FALSE]
  /\ UNCHANGED returned
  /\ Leave(o)

(* Wait() runs out of milliseconds first: Call() throws TimeoutError. *)
WaitTimesOut(o) ==
  /\ waiting[o] /\ busy[o]
  /\ UNCHANGED <<busy, returned>>
  /\ Leave(o)

(* ClearResponse(), by a user that keeps the object. *)
ClearResponse(o) ==
  /\ o \notin Stack /\ ~waiting[o] /\ hasResponse[o]
  /\ hasResponse' = [hasResponse EXCEPT ![o] = FALSE]
  /\ UNCHANGED <<alive, busy, response, failed, waiting, pending, callbacks,
                 calls, current, returned>>

-----------------------------------------------------------------------------
(* The network thread: it runs one callback at a time. *)

MutantOnResponse(r) ==   \* clears m_busy before it sets m_hasResponse
  /\ callbacks = {}
  /\ pending' = pending \ {r}
  /\ callbacks' = {[obj |-> r.obj, id |-> r.id, write |-> "hasResponse"]}
  /\ response' = [response EXCEPT ![r.obj] = r.id]
  /\ busy' = [busy EXCEPT ![r.obj] = FALSE]
  /\ UNCHANGED <<alive, hasResponse, failed, waiting, calls, current, returned>>

MutantOnResponseType(r) ==   \* the counter of the request after it, for the request
  /\ callbacks = {}
  /\ pending' = pending \ {r}
  /\ callbacks' = {[obj |-> r.obj, id |-> r.id, write |-> "hasResponse"]}
  /\ response' = [response EXCEPT ![r.obj] = r.id + 1]
  /\ UNCHANGED <<alive, busy, hasResponse, failed, waiting, calls, current, returned>>

(* OnResponse(), first write: m_response. *)
OnResponse(r) ==
  /\ callbacks = {}
  /\ pending' = pending \ {r}
  /\ callbacks' = {[obj |-> r.obj, id |-> r.id, write |-> "hasResponse"]}
  /\ response' = [response EXCEPT ![r.obj] = r.id]
  /\ UNCHANGED <<alive, busy, hasResponse, failed, waiting, calls, current, returned>>

(* OnResponse(), second write: m_hasResponse. *)
SetHasResponse(c) ==
  /\ c.write = "hasResponse"
  /\ callbacks' = {[c EXCEPT !.write = "busy"]}
  /\ hasResponse' = [hasResponse EXCEPT ![c.obj] = TRUE]
  /\ UNCHANGED <<alive, busy, response, failed, waiting, pending, calls, current, returned>>

MutantOnError(r) ==   \* leaves m_busy set
  /\ callbacks = {}
  /\ pending' = pending \ {r}
  /\ failed' = [failed EXCEPT ![r.obj] = TRUE]
  /\ UNCHANGED <<callbacks, alive, busy, hasResponse, response, waiting, calls, current, returned>>

(* OnError(), first write: m_error.  linear reports a lost connection and
   its own timeout of the request this way. *)
OnError(r) ==
  /\ callbacks = {}
  /\ pending' = pending \ {r}
  /\ callbacks' = {[obj |-> r.obj, id |-> r.id, write |-> "busy"]}
  /\ failed' = [failed EXCEPT ![r.obj] = TRUE]
  /\ UNCHANGED <<alive, busy, hasResponse, response, waiting, calls, current, returned>>

(* Both callbacks, last write: m_busy. *)
ClearBusy(c) ==
  /\ c.write = "busy"
  /\ callbacks' = {}
  /\ busy' = [busy EXCEPT ![c.obj] = FALSE]
  /\ UNCHANGED <<alive, hasResponse, response, failed, waiting, pending, calls,
                 current, returned>>

-----------------------------------------------------------------------------
Client ==
  \E o \in Objects : \/ Construct(o) \/ CallAsync(o) \/ Call(o) \/ TransferFails(o)
                     \/ Return(o) \/ WaitTimesOut(o) \/ ClearResponse(o)

Network ==
  \/ \E r \in pending : OnResponse(r) \/ OnError(r)
  \/ \E c \in callbacks : SetHasResponse(c) \/ ClearBusy(c)

Next == Client \/ Network

Spec == Init /\ [][Next]_vars

(* linear completes every request it accepted: its event loop keeps running
   and times out what is not answered. *)
FairSpec == Spec /\ WF_vars(Network)

-----------------------------------------------------------------------------
(* linear still holds a request of the object or runs its callback. *)
Awaited(o) == \E r \in pending \cup callbacks : r.obj = o

(* Type invariant of the state of the objects and of linear. *)
TypeOK ==
  /\ alive \in [Objects -> BOOLEAN]
  /\ busy \in [Objects -> BOOLEAN]
  /\ hasResponse \in [Objects -> BOOLEAN]
  /\ response \in [Objects -> Numbers]
  /\ failed \in [Objects -> BOOLEAN]
  /\ waiting \in [Objects -> BOOLEAN]
  /\ pending \subseteq Requests
  /\ callbacks \subseteq Callbacks
  /\ calls \in Numbers
  /\ current \in [Objects -> Numbers]
  /\ returned \in [Objects -> [call : Numbers, answer : Numbers]]

(* A readable response of an object that outlives its calls answers the
   latest call made with it, although nothing in OnResponse compares the two
   and a call may time out in Wait() with its answer still to come. *)
ResponseIsCurrent ==
  \A o \in Members : hasResponse[o] => response[o] = current[o]

(* What a blocking Call() returns is the answer to that call
   (cncclient.h:84), for an object that outlives its calls. *)
ReturnsOwnAnswer ==
  \A o \in Members : returned[o].answer = returned[o].call

(* An object never has a readable response and an error at once: GetResponse()
   cannot return the answer of a call that failed. *)
NoAnswerAfterError ==
  \A o \in Members : ~(hasResponse[o] /\ failed[o])

(* While IsBusy() is FALSE no callback can touch an object that outlives its
   calls: GetResponse()'s reference may be read without a lock. *)
IdleMeansUntouched ==
  \A o \in Members : ~busy[o] => ~Awaited(o)

(* m_response is not written while HasResponse() is TRUE, before and after:
   the reference returned by GetResponse() does not change under its reader. *)
ResponseStable ==
  [][\A o \in Members : hasResponse[o] /\ hasResponse'[o] => response'[o] = response[o]]_vars

(* Every call that linear accepted completes. *)
CallsComplete == \A o \in Members : Awaited(o) ~> ~busy[o]

-----------------------------------------------------------------------------
(* What a comment says and the code does not do. *)

(* Call() "returns the response from the call" (cncclient.h:84), for every
   object, the locals of the blocking methods included. *)
EveryCallReturnsOwnAnswer ==
  \A o \in Objects : returned[o].answer = returned[o].call
=============================================================================
