-------------------------- MODULE MessageLogProofs ---------------------------
(***************************************************************************)
(* For all clients and bounds: a client shows no error twice or out of     *)
(* order, and until the server is restarted it leaves out none.            *)
(***************************************************************************)
EXTENDS MessageLog, SequenceTheorems, TLAPS

-----------------------------------------------------------------------------
LogTypes ==
  /\ logged \in 0 .. MaxErrors
  /\ errors \in Seq(1 .. MaxErrors) /\ Len(errors) <= logged
  /\ errorCount \in 0 .. MaxErrors
  /\ logging \in BOOLEAN

ClientTypes ==
  /\ state \in [Clients -> Seq(0 .. MaxErrors)]
  /\ known \in [Clients -> 0 .. MaxErrors] /\ errIndex \in [Clients -> Nat]
  /\ waiting \in [Clients -> BOOLEAN]
  /\ requests \in [Clients -> Seq(Nat)] /\ shown \in [Clients -> Seq(0 .. MaxErrors)]

FaultTypes == failures \in 0 .. MaxFailures /\ restarts \in 0 .. MaxRestarts

(* What servers before this one have logged.                               *)
Before == logged - Len(errors)

(* The list goes on from there, and the count does not run ahead of it.    *)
NumberInv ==
  /\ errorCount <= Len(errors)
  /\ \A i \in 1 .. Len(errors) : errors[i] = Before + i

(* The index is the number of calls that returned; what they returned is   *)
(* in order and no newer than what the list would have had in its place,   *)
(* so that the next error of the list comes after all of it.               *)
ShownInv ==
  \A c \in Clients :
    /\ Len(shown[c]) = errIndex[c]
    /\ InOrder(shown[c])
    /\ \A i \in 1 .. Len(shown[c]) : shown[c][i] <= Before + i

(* The client waits for the newest of its requests, which asks for what    *)
(* stands at its index.                                                    *)
AskedInv ==
  \A c \in Clients : waiting[c] =>
    requests[c] # <<>> /\ requests[c][Len(requests[c])] = errIndex[c]

(* Of the first server, no count that a client has heard is ahead of the   *)
(* list, ...                                                               *)
CountsInv ==
  \A c \in Clients :
    /\ known[c] <= Len(errors)
    /\ \A i \in 1 .. Len(state[c]) : state[c][i] <= Len(errors)

(* ... each client has shown all errors up to its index, ...               *)
WholeInv ==
  \A c \in Clients : \A i \in 1 .. Len(shown[c]) : shown[c][i] = i

(* ... and what it waits for is there.                                     *)
ThereInv == \A c \in Clients : waiting[c] => errIndex[c] < Len(errors)

TypeInv == LogTypes /\ ClientTypes /\ FaultTypes
OrderInv == NumberInv /\ ShownInv /\ AskedInv
FirstInv == Before = 0 /\ CountsInv /\ WholeInv /\ ThereInv
IInv == TypeInv /\ OrderInv /\ (restarts = 0 => FirstInv)

USE BoundsAssumption
USE DEF serverVars, clientVars, faultVars

-----------------------------------------------------------------------------
(* What Append() and Tail() do to a sequence, element by element.          *)
LEMMA AppendLast ==
  ASSUME NEW S, NEW s \in Seq(S), NEW x \in S
  PROVE  /\ Append(s, x) \in Seq(S) /\ Append(s, x) # <<>>
         /\ Len(Append(s, x)) = Len(s) + 1
         /\ Append(s, x)[Len(s) + 1] = x
         /\ \A i \in 1 .. Len(s) : Append(s, x)[i] = s[i]
BY AppendProperties

LEMMA TailShifts ==
  ASSUME NEW S, NEW s \in Seq(S), s # <<>>
  PROVE  /\ Head(s) = s[1] /\ Head(s) \in S /\ Len(s) \in Nat \ {0}
         /\ Tail(s) \in Seq(S) /\ Len(Tail(s)) = Len(s) - 1
         /\ \A i \in 1 .. Len(s) - 1 : Tail(s)[i] = s[i + 1]
BY HeadTailProperties, EmptySeq, LenProperties

-----------------------------------------------------------------------------
(* No errors, no requests.                                                 *)
LEMMA InvInit ==
  ASSUME Init
  PROVE  IInv
<1> USE DEF Init
<1>1. <<>> \in Seq(1 .. MaxErrors) /\ <<>> \in Seq(0 .. MaxErrors) /\ <<>> \in Seq(Nat)
  OBVIOUS
<1>2. Len(<<>>) = 0
  OBVIOUS
<1>3. LogTypes
  <2>1. logged \in 0 .. MaxErrors /\ errorCount \in 0 .. MaxErrors
    OBVIOUS
  <2>2. logging \in BOOLEAN
    OBVIOUS
  <2>3. errors \in Seq(1 .. MaxErrors) /\ Len(errors) = 0 /\ logged = 0
    BY <1>1, <1>2
  <2> QED BY <2>1, <2>2, <2>3 DEF LogTypes
<1>4. ClientTypes
  BY <1>1 DEF ClientTypes
<1>5. FaultTypes
  BY DEF FaultTypes
<1>6. NumberInv /\ Before = 0
  <2>1. Len(errors) = 0 /\ errorCount = 0 /\ logged = 0
    BY <1>2
  <2>2. 1 .. 0 = {} /\ 0 <= 0 /\ 0 - 0 = 0
    OBVIOUS
  <2> HIDE DEF Init
  <2> QED BY <2>1, <2>2 DEF NumberInv, Before
<1>7. CountsInv
  <2>1. Len(errors) = 0
    BY <1>2
  <2>2. \A c \in Clients : known[c] = 0 /\ Len(state[c]) = 0
    BY <1>2
  <2>3. 1 .. 0 = {} /\ 0 <= 0
    OBVIOUS
  <2> HIDE DEF Init
  <2> QED BY <2>1, <2>2, <2>3 DEF CountsInv
<1>8. ShownInv /\ WholeInv
  <2>1. \A c \in Clients : errIndex[c] = 0 /\ Len(shown[c]) = 0
    BY <1>2
  <2>2. 1 .. 0 = {}
    OBVIOUS
  <2> HIDE DEF Init
  <2>3. \A c \in Clients : DOMAIN shown[c] = {}
    BY <1>4, <2>1, <2>2, LenProperties DEF ClientTypes
  <2> QED BY <2>1, <2>2, <2>3 DEF ShownInv, WholeInv, InOrder
<1>9. AskedInv /\ ThereInv
  BY DEF AskedInv, ThereInv
<1> HIDE DEF Init
<1> QED BY <1>3, <1>4, <1>5, <1>6, <1>7, <1>8, <1>9 DEF IInv, TypeInv, OrderInv, FirstInv

-----------------------------------------------------------------------------
(* Every error gets the next number.                                       *)
LEMMA PushKeeps ==
  ASSUME IInv, Push
  PROVE  IInv'
<1> USE DEF IInv, TypeInv, Push
<1>1. logged + 1 \in 1 .. MaxErrors
  BY DEF LogTypes
<1>2. /\ errors' \in Seq(1 .. MaxErrors) /\ Len(errors') = Len(errors) + 1
      /\ errors'[Len(errors) + 1] = logged + 1
      /\ \A i \in 1 .. Len(errors) : errors'[i] = errors[i]
  BY <1>1, AppendLast DEF LogTypes
<1>3. Len(errors) \in Nat
  BY LenProperties DEF LogTypes
<1>4. LogTypes'
  BY <1>1, <1>2, <1>3 DEF LogTypes
<1>5. ClientTypes' /\ FaultTypes'
  BY DEF ClientTypes, FaultTypes
<1>6. Before' = Before
  BY <1>2, <1>3 DEF Before, LogTypes
<1>7. OrderInv'
  <2>1. errorCount' <= Len(errors')
    BY <1>2, <1>3 DEF OrderInv, NumberInv, LogTypes
  <2>2. ASSUME NEW i \in 1 .. Len(errors') PROVE errors'[i] = Before' + i
    <3>1. CASE i = Len(errors) + 1
      <4>1. errors'[i] = logged + 1
        BY <1>2, <3>1
      <4>2. Before + i = logged + 1
        BY <1>3, <3>1 DEF Before, LogTypes
      <4> QED BY <1>6, <4>1, <4>2
    <3>2. CASE i \in 1 .. Len(errors)
      BY <1>2, <1>6, <3>2 DEF OrderInv, NumberInv
    <3> QED BY <1>2, <1>3, <2>2, <3>1, <3>2
  <2>3. NumberInv'
    BY <2>1, <2>2 DEF NumberInv
  <2>4. ShownInv' /\ AskedInv'
    BY <1>6 DEF OrderInv, ShownInv, AskedInv
  <2> QED BY <2>3, <2>4 DEF OrderInv
<1>8. ASSUME FirstInv PROVE FirstInv'
  <2> USE <1>8 DEF FirstInv
  <2>1. CountsInv'
    <3>1. ASSUME NEW c \in Clients
          PROVE  /\ known[c] <= Len(errors')
                 /\ \A i \in 1 .. Len(state[c]) : state[c][i] <= Len(errors')
      <4>1. known[c] \in Nat /\ \A i \in 1 .. Len(state[c]) : state[c][i] \in Nat
        BY ElementOfSeq DEF ClientTypes
      <4> QED BY <1>2, <1>3, <4>1 DEF CountsInv
    <3> QED BY <3>1 DEF CountsInv
  <2>2. ThereInv'
    BY <1>2, <1>3 DEF ThereInv, ClientTypes
  <2> QED BY <1>6, <2>1, <2>2 DEF WholeInv
<1> QED BY <1>4, <1>5, <1>7, <1>8

(* The count is that of the list.                                          *)
LEMMA SetCountKeeps ==
  ASSUME IInv, SetCount
  PROVE  IInv'
<1> USE DEF IInv, TypeInv, SetCount, Count
<1>1. Len(errors) \in 0 .. MaxErrors
  BY LenProperties DEF LogTypes
<1>2. LogTypes'
  BY <1>1 DEF LogTypes
<1>3. ClientTypes' /\ FaultTypes'
  BY DEF ClientTypes, FaultTypes
<1>4. OrderInv'
  <2>1. errorCount' <= Len(errors')
    BY <1>1
  <2> QED BY <2>1 DEF OrderInv, NumberInv, ShownInv, AskedInv, Before
<1>5. FirstInv => FirstInv'
  BY DEF FirstInv, CountsInv, WholeInv, ThereInv, Before
<1> QED BY <1>2, <1>3, <1>4, <1>5

(* The count that a client is told is one that the server had.             *)
LEMMA StateKeeps ==
  ASSUME IInv, NEW c \in Clients, GetState(c) \/ Poll(c)
  PROVE  IInv'
<1> USE DEF IInv, TypeInv
<1>1. LogTypes' /\ FaultTypes'
  BY DEF GetState, Poll, LogTypes, FaultTypes
<1>2. OrderInv'
  BY DEF GetState, Poll, OrderInv, NumberInv, ShownInv, AskedInv, Before
<1>3. CASE GetState(c)
  <2> USE <1>3 DEF GetState
  <2>1. <<errorCount>> \in Seq(0 .. MaxErrors)
    BY DEF LogTypes
  <2>2. ClientTypes'
    BY <2>1 DEF ClientTypes
  <2>3. ASSUME FirstInv, NEW d \in Clients, NEW i \in 1 .. Len(state'[d])
        PROVE  state'[d][i] <= Len(errors)
    <3>1. CASE d = c
      <4>1. state'[d] = <<errorCount>>
        BY <3>1 DEF ClientTypes
      <4>2. Len(state'[d]) = 1
        BY <4>1
      <4>3. 1 .. Len(state'[d]) = {1}
        <5>1. 1 .. 1 = {1}
          OBVIOUS
        <5> QED BY <4>2, <5>1
      <4>4. state'[d][1] = errorCount
        BY <4>1
      <4>5. i = 1
        BY <4>3
      <4> QED BY <4>4, <4>5 DEF OrderInv, NumberInv
    <3>2. CASE d # c
      <4>1. state'[d] = state[d]
        BY <3>2 DEF ClientTypes
      <4> QED BY <2>3, <4>1 DEF FirstInv, CountsInv
    <3> QED BY <3>1, <3>2
  <2>4. FirstInv => FirstInv'
    BY <2>3 DEF FirstInv, CountsInv, WholeInv, ThereInv, Before
  <2>5. restarts' = restarts
    OBVIOUS
  <2> QED BY <1>1, <1>2, <2>2, <2>4, <2>5
<1>4. CASE Poll(c)
  <2> USE <1>4 DEF Poll
  <2>1. /\ state[c] \in Seq(0 .. MaxErrors) /\ state[c] # <<>>
        /\ Head(state[c]) = state[c][1] /\ Head(state[c]) \in 0 .. MaxErrors
        /\ 1 \in 1 .. Len(state[c])
    BY TailShifts DEF ClientTypes
  <2>2. ClientTypes'
    BY <2>1 DEF ClientTypes
  <2>3. ASSUME FirstInv, NEW d \in Clients
        PROVE  /\ known'[d] <= Len(errors)
               /\ \A i \in 1 .. Len(state'[d]) : state'[d][i] <= Len(errors)
    <3>1. CASE d = c
      <4>1. state'[d] = <<>> /\ known'[d] = state[c][1]
        BY <2>1, <3>1 DEF ClientTypes
      <4> QED BY <2>1, <2>3, <4>1 DEF FirstInv, CountsInv
    <3>2. CASE d # c
      <4>1. state'[d] = state[d] /\ known'[d] = known[d]
        BY <3>2 DEF ClientTypes
      <4> QED BY <2>3, <4>1 DEF FirstInv, CountsInv
    <3> QED BY <3>1, <3>2
  <2>4. FirstInv => FirstInv'
    BY <2>3 DEF FirstInv, CountsInv, WholeInv, ThereInv, Before
  <2>5. restarts' = restarts
    OBVIOUS
  <2> QED BY <1>1, <1>2, <2>2, <2>4, <2>5
<1> QED BY <1>3, <1>4

-----------------------------------------------------------------------------
(* The client asks for the first error that it has not shown.              *)
LEMMA GetNextErrorKeeps ==
  ASSUME IInv, NEW c \in Clients, GetNextError(c)
  PROVE  IInv'
<1> USE DEF IInv, TypeInv, GetNextError
<1>1. LogTypes' /\ FaultTypes'
  BY DEF LogTypes, FaultTypes
<1>2. /\ requests'[c] \in Seq(Nat) /\ requests'[c] # <<>>
      /\ requests'[c][Len(requests'[c])] = errIndex[c]
  BY AppendLast DEF ClientTypes
<1>3. ClientTypes'
  BY <1>2 DEF ClientTypes
<1>4. ASSUME NEW d \in Clients, waiting'[d]
      PROVE  requests'[d] # <<>> /\ requests'[d][Len(requests'[d])] = errIndex[d]
  <2>1. CASE d = c
    BY <1>2, <2>1
  <2>2. CASE d # c
    <3>1. requests'[d] = requests[d] /\ waiting[d]
      BY <1>4, <2>2 DEF ClientTypes
    <3> QED BY <3>1 DEF OrderInv, AskedInv
  <2> QED BY <2>1, <2>2
<1>5. OrderInv'
  BY <1>4 DEF OrderInv, NumberInv, ShownInv, AskedInv, Before
<1>6. ASSUME FirstInv, NEW d \in Clients, waiting'[d] PROVE errIndex[d] < Len(errors)
  <2>1. CASE d = c
    <3>1. /\ errIndex[c] < known[c] /\ known[c] <= Len(errors)
          /\ errIndex[c] \in Nat /\ known[c] \in Nat /\ Len(errors) \in Nat
      BY <1>6, LenProperties DEF HasErrors, FirstInv, CountsInv, ClientTypes, LogTypes
    <3> QED BY <2>1, <3>1
  <2>2. CASE d # c
    BY <1>6, <2>2 DEF FirstInv, ThereInv, ClientTypes
  <2> QED BY <2>1, <2>2
<1>7. FirstInv => FirstInv'
  BY <1>6 DEF FirstInv, CountsInv, WholeInv, ThereInv, Before
<1> QED BY <1>1, <1>3, <1>5, <1>7

(* Lists that are empty, and clients that wait no more.                    *)
LEMMA FaultsKeep ==
  ASSUME IInv,
         Restart \/ \E c \in Clients : TimesOut(c) \/ Disconnect(c)
  PROVE  IInv'
<1> USE DEF IInv, TypeInv
<1>1. CASE Restart
  <2> USE <1>1 DEF Restart
  <2>1. <<>> \in Seq(1 .. MaxErrors) /\ <<>> \in Seq(0 .. MaxErrors) /\ <<>> \in Seq(Nat)
    OBVIOUS
  <2>2. Len(<<>>) = 0
    OBVIOUS
  <2>3. LogTypes'
    <3>1. Len(errors') = 0 /\ errors' \in Seq(1 .. MaxErrors)
      BY <2>1, <2>2
    <3>2. logged' \in 0 .. MaxErrors /\ errorCount' \in 0 .. MaxErrors
      BY DEF LogTypes
    <3>3. logging' \in BOOLEAN
      OBVIOUS
    <3> QED BY <3>1, <3>2, <3>3 DEF LogTypes
  <2>4. ClientTypes'
    BY <2>1 DEF ClientTypes
  <2>5. FaultTypes' /\ restarts' # 0
    BY DEF FaultTypes
  <2>6. Before' = logged /\ Before <= logged /\ Before \in Nat
    BY <2>2, LenProperties DEF Before, LogTypes
  <2>7. NumberInv' /\ AskedInv'
    <3>1. Len(errors') = 0 /\ errorCount' = 0 /\ \A c \in Clients : ~waiting'[c]
      BY <2>2
    <3>2. 1 .. 0 = {} /\ 0 <= 0
      OBVIOUS
    <3> HIDE DEF Restart
    <3> QED BY <3>1, <3>2 DEF NumberInv, AskedInv
  <2>8. ShownInv'
    <3>1. ASSUME NEW c \in Clients, NEW i \in 1 .. Len(shown[c]) PROVE shown[c][i] <= Before' + i
      <4>1. shown[c][i] \in Nat /\ i \in Nat
        BY ElementOfSeq, LenProperties DEF ClientTypes
      <4>2. shown[c][i] <= Before + i
        BY DEF OrderInv, ShownInv
      <4>3. logged \in Nat
        BY DEF LogTypes
      <4> QED BY <2>6, <4>1, <4>2, <4>3
    <3> QED BY <3>1 DEF OrderInv, ShownInv
  <2> QED BY <2>3, <2>4, <2>5, <2>7, <2>8 DEF OrderInv
<1>2. ASSUME NEW c \in Clients, TimesOut(c) PROVE IInv'
  <2> USE <1>2 DEF TimesOut, AskAgain, Fail
  <2>1. LogTypes' /\ FaultTypes' /\ ClientTypes'
    BY DEF LogTypes, FaultTypes, ClientTypes
  <2>2. \A d \in Clients : waiting'[d] => waiting[d]
    BY DEF ClientTypes
  <2>3. OrderInv'
    BY <2>2 DEF OrderInv, NumberInv, ShownInv, AskedInv, Before
  <2>4. FirstInv => FirstInv'
    BY <2>2 DEF FirstInv, CountsInv, WholeInv, ThereInv, Before
  <2> QED BY <2>1, <2>3, <2>4
<1>3. ASSUME NEW c \in Clients, Disconnect(c) PROVE IInv'
  <2> USE <1>3 DEF Disconnect, Fail
  <2>1. <<>> \in Seq(0 .. MaxErrors) /\ <<>> \in Seq(Nat)
    OBVIOUS
  <2>2. LogTypes' /\ FaultTypes' /\ ClientTypes'
    BY <2>1 DEF LogTypes, FaultTypes, ClientTypes
  <2>3. \A d \in Clients : waiting'[d] => waiting[d] /\ requests'[d] = requests[d]
    BY DEF ClientTypes
  <2>4. ASSUME FirstInv, NEW d \in Clients, NEW i \in 1 .. Len(state'[d])
        PROVE  state'[d][i] <= Len(errors)
    <3>1. CASE d = c
      <4>1. state'[d] = <<>>
        BY <3>1 DEF ClientTypes
      <4>2. 1 .. Len(<<>>) = {}
        OBVIOUS
      <4> QED BY <2>4, <4>1, <4>2
    <3>2. CASE d # c
      <4>1. state'[d] = state[d]
        BY <3>2 DEF ClientTypes
      <4> QED BY <2>4, <4>1 DEF FirstInv, CountsInv
    <3> QED BY <3>1, <3>2
  <2>5. OrderInv'
    BY <2>3 DEF OrderInv, NumberInv, ShownInv, AskedInv, Before
  <2>6. FirstInv => FirstInv'
    BY <2>3, <2>4 DEF FirstInv, CountsInv, WholeInv, ThereInv, Before
  <2> QED BY <2>2, <2>5, <2>6
<1> QED BY <1>1, <1>2, <1>3

-----------------------------------------------------------------------------
(* An error is appended to what is shown: it is newer than all of that, as *)
(* it comes from further back in a list that goes on from there.           *)
LEMMA NextIsNewer ==
  ASSUME TypeInv, OrderInv, NEW c \in Clients, NEW error \in 0 .. MaxErrors,
         shown'[c] = Append(shown[c], error), UNCHANGED <<errors, logged>>,
         error # 0 => error = Before + errIndex[c] + 1
  PROVE  /\ Len(shown'[c]) = errIndex[c] + 1 /\ InOrder(shown'[c])
         /\ \A i \in 1 .. Len(shown'[c]) : shown'[c][i] <= Before' + i
<1> DEFINE n == errIndex[c]
<1>1. shown[c] \in Seq(0 .. MaxErrors) /\ n \in Nat /\ Len(shown[c]) = n
  BY DEF TypeInv, ClientTypes, OrderInv, ShownInv
<1>2. /\ shown'[c] \in Seq(0 .. MaxErrors) /\ Len(shown'[c]) = n + 1 /\ shown'[c][n + 1] = error
      /\ \A i \in 1 .. n : shown'[c][i] = shown[c][i]
  BY <1>1, AppendLast
<1>3. Before' = Before /\ Before \in Nat
  BY LenProperties DEF Before, TypeInv, LogTypes
<1>4. \A i \in 1 .. n : shown[c][i] \in Nat /\ shown[c][i] <= Before + i
  BY <1>1, ElementOfSeq DEF OrderInv, ShownInv
<1>5. DOMAIN shown[c] = 1 .. n /\ DOMAIN shown'[c] = 1 .. n + 1
  BY <1>1, <1>2, LenProperties
<1>6. \A i, j \in 1 .. n :
        i < j /\ shown[c][i] # 0 /\ shown[c][j] # 0 => shown[c][i] < shown[c][j]
  BY <1>5 DEF OrderInv, ShownInv, InOrder
<1>7. \A i \in 1 .. n + 1 : i \in 1 .. n \/ i = n + 1
  BY <1>1
<1>8. error \in Nat /\ (error # 0 => error = Before + n + 1)
  OBVIOUS
<1> HIDE DEF n
<1>9. ASSUME NEW i \in 1 .. n + 1, NEW j \in 1 .. n + 1, i < j,
             shown'[c][i] # 0, shown'[c][j] # 0
      PROVE  shown'[c][i] < shown'[c][j]
  <2>1. i \in 1 .. n
    BY <1>1, <1>9
  <2>2. CASE j = n + 1
    <3>1. shown'[c][j] = Before + n + 1
      BY <1>2, <1>8, <1>9, <2>2
    <3>2. shown'[c][i] \in Nat /\ shown'[c][i] <= Before + i
      BY <1>2, <1>4, <2>1
    <3>3. i \in Nat /\ i <= n
      BY <1>1, <2>1
    <3> QED BY <1>1, <1>3, <3>1, <3>2, <3>3
  <2>3. CASE j \in 1 .. n
    BY <1>2, <1>6, <1>9, <2>1, <2>3
  <2> QED BY <1>7, <2>2, <2>3
<1>10. ASSUME NEW i \in 1 .. n + 1 PROVE shown'[c][i] <= Before' + i
  <2>1. CASE i = n + 1
    BY <1>1, <1>2, <1>3, <1>8, <2>1
  <2>2. CASE i \in 1 .. n
    BY <1>2, <1>3, <1>4, <2>2
  <2> QED BY <1>7, <2>1, <2>2
<1>11. InOrder(shown'[c])
  BY <1>5, <1>9 DEF InOrder
<1> QED BY <1>2, <1>10, <1>11 DEF n

(* The answer that a client waits for is what stands at its index: nothing *)
(* or the next error after those shown, and of the first server an error.  *)
LEMMA AnswerIs ==
  ASSUME TypeInv, OrderInv, NEW c \in Clients, waiting[c], Len(requests[c]) = 1
  PROVE  LET error == GetError(Head(requests[c]))
         IN  /\ error \in 0 .. MaxErrors
             /\ error # 0 => error = Before + errIndex[c] + 1 /\ error <= logged
             /\ FirstInv => error = errIndex[c] + 1 /\ error # 0
<1> DEFINE i == errIndex[c]
           error == GetError(Head(requests[c]))
<1> USE DEF TypeInv
<1>1. i \in Nat /\ Len(errors) \in Nat /\ logged \in Nat /\ Before \in Nat
      /\ Before + Len(errors) = logged
  BY LenProperties DEF Before, LogTypes, ClientTypes
<1>2. Head(requests[c]) = i
  <2>1. requests[c] # <<>> /\ requests[c] \in Seq(Nat)
    BY DEF OrderInv, AskedInv, ClientTypes
  <2> QED BY <2>1, TailShifts DEF OrderInv, AskedInv
<1>3. error = IF i >= Len(errors) THEN 0 ELSE errors[i + 1]
  BY <1>2 DEF GetError
<1>4. FirstInv => i < Len(errors) /\ Before = 0
  BY DEF FirstInv, ThereInv
<1> HIDE DEF error
<1>5. CASE i < Len(errors)
  <2>1. i + 1 \in 1 .. Len(errors) /\ ~(i >= Len(errors))
    BY <1>1, <1>5
  <2>2. error = errors[i + 1] /\ error \in 1 .. MaxErrors
    BY <1>3, <2>1, ElementOfSeq DEF LogTypes
  <2>3. errors[i + 1] = Before + (i + 1)
    BY <2>1 DEF OrderInv, NumberInv
  <2> HIDE DEF i
  <2>4. error = Before + i + 1 /\ error <= logged
    BY <1>1, <1>5, <2>2, <2>3
  <2>5. FirstInv => error = i + 1
    BY <1>1, <1>4, <2>4
  <2> QED BY <2>2, <2>4, <2>5 DEF error, i
<1>6. CASE ~(i < Len(errors))
  <2>1. error = 0
    BY <1>1, <1>3, <1>6
  <2> QED BY <1>4, <1>6, <2>1 DEF error
<1> QED BY <1>5, <1>6

(* The answer that the client waits for is what stands at its index; the   *)
(* answers to older requests reach nobody.                                 *)
LEMMA ServeKeeps ==
  ASSUME IInv, NEW c \in Clients, Serve(c)
  PROVE  IInv'
<1> USE DEF IInv, TypeInv
<1> DEFINE i == Head(requests[c])
           awaited == waiting[c] /\ Len(requests[c]) = 1
<1>1. /\ requests[c] \in Seq(Nat) /\ requests[c] # <<>>
      /\ i = requests[c][1] /\ i \in Nat
      /\ Len(requests[c]) \in Nat \ {0}
      /\ Tail(requests[c]) \in Seq(Nat) /\ Len(Tail(requests[c])) = Len(requests[c]) - 1
      /\ \A k \in 1 .. Len(requests[c]) - 1 : Tail(requests[c])[k] = requests[c][k + 1]
  BY TailShifts DEF Serve, ClientTypes
<1>2. LogTypes' /\ FaultTypes'
  BY DEF Serve, LogTypes, FaultTypes
<1>3. /\ requests' = [requests EXCEPT ![c] = Tail(@)]
      /\ UNCHANGED <<errors, logged, errorCount, state, known, restarts>>
  BY DEF Serve
<1>4. requests' \in [Clients -> Seq(Nat)]
  BY <1>1, <1>3 DEF ClientTypes
<1>5. Before' = Before /\ NumberInv' /\ (FirstInv => CountsInv')
  BY <1>3 DEF OrderInv, FirstInv, NumberInv, CountsInv, Before
<1>6. CASE awaited
  <2>1. /\ shown' = [shown EXCEPT ![c] = Append(@, GetError(i))]
        /\ errIndex' = [errIndex EXCEPT ![c] = @ + 1]
        /\ waiting' = [waiting EXCEPT ![c] = FALSE]
    BY <1>6 DEF Serve, Return
  <2>2. /\ GetError(i) \in 0 .. MaxErrors
        /\ GetError(i) # 0 => GetError(i) = Before + errIndex[c] + 1
        /\ FirstInv => GetError(i) = errIndex[c] + 1
    BY <1>6, AnswerIs
  <2>3. /\ shown'[c] \in Seq(0 .. MaxErrors)
        /\ Len(shown'[c]) = Len(shown[c]) + 1
        /\ shown'[c][Len(shown[c]) + 1] = GetError(i)
        /\ \A k \in 1 .. Len(shown[c]) : shown'[c][k] = shown[c][k]
        /\ Len(shown[c]) \in Nat
    BY <2>1, <2>2, AppendLast, LenProperties DEF ClientTypes
  <2>4. ClientTypes'
    BY <1>3, <1>4, <2>1, <2>3 DEF ClientTypes
  <2>5. \A d \in Clients : d # c => shown'[d] = shown[d] /\ errIndex'[d] = errIndex[d]
    BY <2>1 DEF ClientTypes
  <2>6. shown'[c] = Append(shown[c], GetError(i)) /\ errIndex'[c] = errIndex[c] + 1
    BY <2>1 DEF ClientTypes
  <2>7. /\ Len(shown'[c]) = errIndex'[c] /\ InOrder(shown'[c])
        /\ \A k \in 1 .. Len(shown'[c]) : shown'[c][k] <= Before' + k
    BY <1>3, <2>2, <2>6, NextIsNewer
  <2>8. ShownInv'
    BY <1>5, <2>5, <2>7 DEF OrderInv, ShownInv
  <2>9. \A d \in Clients : waiting'[d] =>
           waiting[d] /\ requests'[d] = requests[d] /\ errIndex'[d] = errIndex[d]
    BY <1>3, <2>1 DEF ClientTypes
  <2>10. AskedInv'
    BY <2>9 DEF OrderInv, AskedInv
  <2>11. ASSUME FirstInv PROVE FirstInv'
    <3>1. ASSUME NEW k \in 1 .. Len(shown'[c]) PROVE shown'[c][k] = k
      <4>1. CASE k = Len(shown[c]) + 1
        BY <2>2, <2>3, <2>11, <4>1 DEF OrderInv, ShownInv
      <4>2. CASE k \in 1 .. Len(shown[c])
        BY <2>3, <2>11, <4>2 DEF FirstInv, WholeInv
      <4> QED BY <2>3, <3>1, <4>1, <4>2
    <3>2. WholeInv'
      BY <2>5, <2>11, <3>1 DEF FirstInv, WholeInv
    <3>3. ThereInv'
      BY <1>3, <2>9, <2>11 DEF FirstInv, ThereInv
    <3> QED BY <1>5, <2>11, <3>2, <3>3 DEF FirstInv
  <2> HIDE DEF awaited
  <2> QED BY <1>2, <1>3, <1>5, <2>4, <2>8, <2>10, <2>11 DEF OrderInv
<1>7. CASE ~awaited
  <2>1. UNCHANGED <<shown, errIndex, waiting>>
    BY <1>7 DEF Serve
  <2>2. ClientTypes'
    BY <1>3, <1>4, <2>1 DEF ClientTypes
  <2>3. ASSUME NEW d \in Clients, waiting[d]
        PROVE  /\ requests'[d] # <<>>
               /\ requests'[d][Len(requests'[d])] = errIndex[d]
    <3>1. CASE d = c
      <4>1. requests'[c] = Tail(requests[c])
        BY <1>3 DEF ClientTypes
      <4>2. Len(requests'[c]) \in Nat \ {0} /\ Len(requests'[c]) + 1 = Len(requests[c])
        BY <1>1, <1>7, <2>3, <3>1, <4>1
      <4>3. requests'[c][Len(requests'[c])] = requests[c][Len(requests[c])]
        <5> DEFINE k == Len(requests'[c])
        <5>1. k \in 1 .. Len(requests[c]) - 1 /\ k + 1 = Len(requests[c])
          BY <1>1, <4>2
        <5>2. Tail(requests[c])[k] = requests[c][k + 1]
          BY <1>1, <5>1
        <5> QED BY <4>1, <5>1, <5>2
      <4>4. Len(<<>>) = 0
        OBVIOUS
      <4> QED BY <2>3, <3>1, <4>2, <4>3, <4>4 DEF OrderInv, AskedInv
    <3>2. CASE d # c
      <4>1. requests'[d] = requests[d]
        BY <1>3, <3>2 DEF ClientTypes
      <4> QED BY <2>3, <4>1 DEF OrderInv, AskedInv
    <3> QED BY <3>1, <3>2
  <2>4. ShownInv' /\ AskedInv'
    BY <1>3, <1>5, <2>1, <2>3 DEF OrderInv, ShownInv, AskedInv
  <2>5. FirstInv => FirstInv'
    BY <1>3, <1>5, <2>1 DEF FirstInv, WholeInv, ThereInv
  <2>6. restarts' = restarts
    BY <1>3
  <2> HIDE DEF awaited
  <2> QED BY <1>2, <1>5, <2>2, <2>4, <2>5, <2>6 DEF OrderInv
<1> QED BY <1>6, <1>7

-----------------------------------------------------------------------------
(* The invariant holds throughout.                                         *)
LEMMA InvAlways == Spec => []IInv
<1>1. IInv /\ Next => IInv'
  BY PushKeeps, SetCountKeeps, StateKeeps, GetNextErrorKeeps, FaultsKeep, ServeKeeps
     DEF Next, LogError
<1>2. IInv /\ UNCHANGED vars => IInv'
  BY DEF vars, IInv, TypeInv, LogTypes, ClientTypes, FaultTypes, OrderInv, FirstInv, NumberInv,
         ShownInv, AskedInv, CountsInv, WholeInv, ThereInv, Before
<1> QED BY <1>1, <1>2, InvInit, PTL DEF Spec

(* Every variable has its type, after a restart too.                       *)
THEOREM TypeCorrect == Spec => []TypeOK
<1>1. IInv => TypeOK
  BY DEF IInv, TypeInv, LogTypes, ClientTypes, FaultTypes, TypeOK
<1> QED BY <1>1, InvAlways, PTL

(* However many calls time out, connections break and servers are          *)
(* restarted, no error is shown twice or out of order, and none is left    *)
(* out, nor shown as an empty string, while the first server runs.         *)
THEOREM ErrorsShownInOrder == Spec => []ShownInOrder
<1>1. IInv => ShownInOrder
  <2> SUFFICES ASSUME IInv, NEW c \in Clients
               PROVE  /\ InOrder(shown[c])
                      /\ restarts = 0 => \A i \in DOMAIN shown[c] : shown[c][i] = i
    BY DEF ShownInOrder
  <2>1. DOMAIN shown[c] = 1 .. Len(shown[c])
    BY LenProperties DEF IInv, TypeInv, ClientTypes
  <2> QED BY <2>1 DEF IInv, OrderInv, ShownInv, FirstInv, WholeInv
<1> QED BY <1>1, InvAlways, PTL

-----------------------------------------------------------------------------
(* The log as its users see it; a restart empties the server's list.       *)
Broadcast == INSTANCE ErrorBroadcast WITH whole <- restarts = 0

(* The answer to a request that is waited for is shown.                    *)
LEMMA ServeShows ==
  ASSUME IInv, NEW c \in Clients, Serve(c)
  PROVE  [Broadcast!Next]_(Broadcast!vars)
<1> DEFINE error == GetError(Head(requests[c]))
           awaited == waiting[c] /\ Len(requests[c]) = 1
<1>1. UNCHANGED <<logged, restarts>>
  BY DEF Serve
<1>2. CASE awaited
  <2>1. shown' = [shown EXCEPT ![c] = Append(@, error)]
    BY <1>2 DEF Serve, Return
  <2>2. /\ error \in 0 .. MaxErrors
        /\ error # 0 => error = Before + errIndex[c] + 1 /\ error <= logged
        /\ FirstInv => error = errIndex[c] + 1 /\ error # 0
    BY <1>2, AnswerIs DEF IInv
  <2>3. Len(shown[c]) = errIndex[c] /\ shown[c] \in Seq(0 .. MaxErrors)
    BY DEF IInv, OrderInv, ShownInv, TypeInv, ClientTypes
  <2> HIDE DEF error
  <2>4. restarts = 0 => error = Len(shown[c]) + 1 /\ error # 0
    BY <2>2, <2>3 DEF IInv
  <2>5. CASE error = 0
    <3>1. Broadcast!ShowNothing(c)
      BY <1>1, <2>1, <2>4, <2>5 DEF Broadcast!ShowNothing
    <3> QED BY <3>1 DEF Broadcast!Next
  <2>6. CASE error # 0
    <3>1. error \in 1 .. logged
      BY <2>2, <2>6 DEF IInv, TypeInv, LogTypes
    <3>2. ASSUME NEW i \in DOMAIN shown[c] PROVE shown[c][i] < error
      <4>1. i \in 1 .. errIndex[c] /\ errIndex[c] \in Nat
        BY <2>3, LenProperties DEF IInv, TypeInv, ClientTypes
      <4>2. shown[c][i] \in Nat /\ shown[c][i] <= Before + i
        BY <2>3, <4>1, ElementOfSeq DEF IInv, OrderInv, ShownInv
      <4>3. Before \in Nat
        BY LenProperties DEF Before, IInv, TypeInv, LogTypes
      <4> QED BY <2>2, <2>6, <4>1, <4>2, <4>3
    <3>3. Broadcast!Show(c)
      BY <1>1, <2>1, <2>4, <3>1, <3>2 DEF Broadcast!Show
    <3> QED BY <3>3 DEF Broadcast!Next
  <2> QED BY <2>5, <2>6
<1>3. CASE ~awaited
  BY <1>1, <1>3 DEF Serve, Broadcast!vars
<1> QED BY <1>2, <1>3

(* MessageLog implements ErrorBroadcast: although LogError() writes the    *)
(* list and the count under different locks, and requests are served that  *)
(* nobody waits for any more, each step of a client shows one more error,  *)
(* the next one, or after a restart a later one or an empty string.        *)
THEOREM ImplementsBroadcast == Spec => Broadcast!Spec
<1>1. Init => Broadcast!Init
  BY DEF Init, Broadcast!Init
<1>2. ASSUME IInv, [Next]_vars PROVE [Broadcast!Next]_(Broadcast!vars)
  <2>1. CASE Push
    BY <2>1 DEF Push, Broadcast!Next, Broadcast!Log
  <2>2. CASE Restart
    <3>1. restarts' # 0 /\ UNCHANGED <<logged, shown>>
      BY <1>2, <2>2 DEF Restart, IInv, TypeInv, FaultTypes
    <3> QED BY <3>1 DEF Broadcast!Next, Broadcast!Empty
  <2>3. ASSUME NEW c \in Clients, Serve(c) PROVE [Broadcast!Next]_(Broadcast!vars)
    BY <1>2, <2>3, ServeShows
  <2>4. CASE UNCHANGED <<logged, shown, restarts>>
    BY <2>4 DEF Broadcast!vars
  <2>5. ASSUME NEW c \in Clients,
               \/ GetState(c) \/ Poll(c) \/ GetNextError(c) \/ TimesOut(c) \/ Disconnect(c)
        PROVE  UNCHANGED <<logged, shown, restarts>>
    BY <2>5 DEF GetState, Poll, GetNextError, TimesOut, Disconnect, Fail
  <2>6. SetCount \/ UNCHANGED vars => UNCHANGED <<logged, shown, restarts>>
    BY DEF SetCount, vars
  <2> QED BY <1>2, <2>1, <2>2, <2>3, <2>4, <2>5, <2>6 DEF Next, LogError
<1> QED BY <1>1, <1>2, InvAlways, PTL DEF Spec, Broadcast!Spec
=============================================================================
