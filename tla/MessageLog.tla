----------------------------- MODULE MessageLog -----------------------------
(***************************************************************************)
(* Error messages: the driver's thread logs them with Server::LogError()   *)
(* (cncserver.cpp 588-596), the state tells every client how many there    *)
(* are, and Client::GetNextError() (cncclient.cpp 782-797) fetches those   *)
(* the client has not seen.  LogMessage(), GetMessage() and                *)
(* GetNextMessage() are the same code on the other list.                   *)
(*                                                                         *)
(* Errors are numbered in the order they are logged, by any server.  The   *)
(* answer of a call is its own here; RemoteCall tells when it is not.      *)
(***************************************************************************)
EXTENDS Naturals, Sequences

CONSTANTS
  Clients,       \* remote clients
  MaxErrors,     \* bound: errors logged
  MaxRequests,   \* bound: GetError requests of one client not yet served
  MaxFailures,   \* bound: calls that time out, and connections that break
  MaxRestarts    \* bound: restarts of the server

ASSUME BoundsAssumption ==
  MaxErrors \in Nat /\ MaxRequests \in Nat /\ MaxFailures \in Nat /\ MaxRestarts \in Nat

VARIABLES
  logged,      \* errors logged so far, by all servers
  errors,      \* m_errors
  errorCount,  \* m_state.errorCount
  logging,     \* LogError() holds m_msgLock: pushed, not yet counted
  state,       \* per client: <<errorCount>> of the answer to its GetState; <<>>: no answer
  known,       \* per client: its m_state.errorCount
  errIndex,    \* per client: its m_errIndex
  waiting,     \* per client: its GUI thread waits in GetNextError()
  requests,    \* per client: indices of its GetError requests, oldest first
  shown,       \* per client: what its GetNextError() calls returned; 0: empty string
  failures,    \* calls that timed out and connections that broke so far
  restarts     \* restarts of the server so far

serverVars == <<logged, errors, errorCount, logging>>
clientVars == <<known, errIndex, waiting, shown>>
faultVars == <<failures, restarts>>
vars == <<serverVars, state, clientVars, requests, faultVars>>

Init ==
  /\ logged = 0 /\ errors = <<>> /\ errorCount = 0 /\ logging = FALSE
  /\ state = [c \in Clients |-> <<>>] /\ known = [c \in Clients |-> 0]
  /\ errIndex = [c \in Clients |-> 0] /\ waiting = [c \in Clients |-> FALSE]
  /\ requests = [c \in Clients |-> <<>>] /\ shown = [c \in Clients |-> <<>>]
  /\ failures = 0 /\ restarts = 0

-----------------------------------------------------------------------------
(* The server. *)

(* LogError(), line 593: the driver pushes an error, m_msgLock taken. *)
Push ==
  /\ ~logging
  /\ logged < MaxErrors
  /\ logged' = logged + 1
  /\ errors' = Append(errors, logged')
  /\ logging' = TRUE
  /\ UNCHANGED <<errorCount, state, clientVars, requests, faultVars>>

(* Line 594: m_state.errorCount, which m_syncLock guards elsewhere. *)
MutantCount == IF errors = <<>> THEN 0 ELSE Len(errors) - 1
Count == Len(errors)

SetCount ==
  /\ logging
  /\ errorCount' = Count
  /\ logging' = FALSE
  /\ UNCHANGED <<logged, errors, state, clientVars, requests, faultVars>>

LogError == Push \/ SetCount

(* GetState_(), for a client that has no answer yet: only m_syncLock is taken. *)
GetState(c) ==
  /\ state[c] = <<>>
  /\ state' = [state EXCEPT ![c] = <<errorCount>>]
  /\ UNCHANGED <<serverVars, clientVars, requests, faultVars>>

(* GetError(): 0 stands for the empty string. *)
GetError(i) == IF i >= Len(errors) THEN 0 ELSE errors[i + 1]

(* GetNextError(), lines 791-792: the call returns. *)
MutantReturn(c, error) ==
  /\ shown' = [shown EXCEPT ![c] = Append(@, error)]
  /\ UNCHANGED errIndex
Return(c, error) ==
  /\ shown' = [shown EXCEPT ![c] = Append(@, error)]
  /\ errIndex' = [errIndex EXCEPT ![c] = @ + 1]

(* The server serves the client's oldest request.  The client waits for the
   answer to the last one, those before it have timed out. *)
Serve(c) ==
  LET i == Head(requests[c])
      awaited == waiting[c] /\ Len(requests[c]) = 1
  IN
  /\ requests[c] # <<>>
  /\ ~logging                                  \* GetError() takes m_msgLock
  /\ requests' = [requests EXCEPT ![c] = Tail(@)]
  /\ IF awaited
     THEN /\ Return(c, GetError(i))
          /\ waiting' = [waiting EXCEPT ![c] = FALSE]
     ELSE UNCHANGED <<shown, errIndex, waiting>>
  /\ UNCHANGED <<serverVars, state, known, faultVars>>

-----------------------------------------------------------------------------
(* The client: its GUI thread polls and fetches. *)

(* Poll() takes the answer to GetState. *)
Poll(c) ==
  /\ ~waiting[c]
  /\ state[c] # <<>>
  /\ known' = [known EXCEPT ![c] = Head(state[c])]
  /\ state' = [state EXCEPT ![c] = <<>>]
  /\ UNCHANGED <<serverVars, errIndex, waiting, shown, requests, faultVars>>

(* GetNextError(): nothing when all are seen, or GetError is asked. *)
HasErrors(c) == errIndex[c] < known[c]

GetNextError(c) ==
  /\ ~waiting[c]
  /\ HasErrors(c)
  /\ Len(requests[c]) < MaxRequests
  /\ requests' = [requests EXCEPT ![c] = Append(@, errIndex[c])]
  /\ waiting' = [waiting EXCEPT ![c] = TRUE]
  /\ UNCHANGED <<serverVars, state, known, errIndex, shown, faultVars>>

Fail == failures < MaxFailures /\ failures' = failures + 1 /\ UNCHANGED restarts

(* GetNextError() throws TimeoutError, or TransferError for a lost connection:
   the index stays. *)
MutantAskAgain(c) == errIndex' = [errIndex EXCEPT ![c] = @ - 1]
AskAgain(c) == UNCHANGED errIndex

TimesOut(c) ==
  /\ waiting[c]
  /\ waiting' = [waiting EXCEPT ![c] = FALSE]
  /\ AskAgain(c)
  /\ Fail
  /\ UNCHANGED <<serverVars, state, known, shown, requests>>

(* The connection of a client breaks: what was under way is lost. *)
Disconnect(c) ==
  /\ requests[c] # <<>> \/ state[c] # <<>>
  /\ requests' = [requests EXCEPT ![c] = <<>>]
  /\ state' = [state EXCEPT ![c] = <<>>]
  /\ waiting' = [waiting EXCEPT ![c] = FALSE]
  /\ Fail
  /\ UNCHANGED <<serverVars, known, errIndex, shown>>

(* The server is started again, with empty lists. *)
Restart ==
  /\ restarts < MaxRestarts
  /\ restarts' = restarts + 1
  /\ errors' = <<>> /\ errorCount' = 0 /\ logging' = FALSE
  /\ requests' = [c \in Clients |-> <<>>]
  /\ state' = [c \in Clients |-> <<>>]
  /\ waiting' = [c \in Clients |-> FALSE]
  /\ UNCHANGED <<logged, known, errIndex, shown, failures>>

-----------------------------------------------------------------------------
Next ==
  \/ LogError \/ Restart
  \/ \E c \in Clients : \/ GetState(c) \/ Serve(c) \/ Poll(c)
                        \/ GetNextError(c) \/ TimesOut(c) \/ Disconnect(c)

Spec == Init /\ [][Next]_vars

(* The server runs; a client polls, and fetches errors as long as there are
   some.  That MaxFailures bounds the calls that fail is the assumption that the
   server answers in time in the end. *)
Fairness ==
  /\ WF_vars(SetCount)
  /\ \A c \in Clients : /\ WF_vars(GetState(c)) /\ WF_vars(Serve(c))
                       /\ SF_vars(Poll(c)) /\ SF_vars(GetNextError(c))

FairSpec == Spec /\ Fairness

-----------------------------------------------------------------------------
(* Type invariant. *)
TypeOK ==
  /\ logged \in 0 .. MaxErrors
  /\ errors \in Seq(1 .. MaxErrors) /\ errorCount \in 0 .. MaxErrors
  /\ logging \in BOOLEAN
  /\ state \in [Clients -> Seq(0 .. MaxErrors)]
  /\ known \in [Clients -> 0 .. MaxErrors] /\ errIndex \in [Clients -> Nat]
  /\ waiting \in [Clients -> BOOLEAN]
  /\ requests \in [Clients -> Seq(Nat)] /\ shown \in [Clients -> Seq(0 .. MaxErrors)]
  /\ failures \in 0 .. MaxFailures /\ restarts \in 0 .. MaxRestarts

(* What two calls of GetNextError() return is in the order in which it was
   logged, and never twice the same error: 0 is the empty string. *)
InOrder(errs) ==
  \A i, j \in DOMAIN errs : i < j /\ errs[i] # 0 /\ errs[j] # 0 => errs[i] < errs[j]

(* A client shows no error twice or out of order, whatever calls time out,
   connections break, servers are restarted with an empty list, or requests are
   served late, and although the count is written under one lock and read under
   the other.  As long as the server is not restarted it leaves out none either,
   and shows no empty string. *)
ShownInOrder ==
  \A c \in Clients :
    /\ InOrder(shown[c])
    /\ restarts = 0 => \A i \in DOMAIN shown[c] : shown[c][i] = i

(* An error that is logged is shown by every client, unless the server is
   restarted. *)
EveryErrorShown ==
  \A c \in Clients : \A e \in 1 .. MaxErrors :
    logged >= e ~> restarts > 0 \/ \E i \in DOMAIN shown[c] : shown[c][i] = e
=============================================================================
