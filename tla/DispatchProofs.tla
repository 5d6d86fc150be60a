--------------------------- MODULE DispatchProofs ----------------------------
(***************************************************************************)
(* Whatever methods the client calls, whatever a client of another version *)
(* sends and however the functions of the server end: for each answer that *)
(* the client waits for, exactly one message is under way; and the server  *)
(* calls the functions that the methods stand for, once and in order.      *)
(***************************************************************************)
EXTENDS Dispatch, SequenceTheorems, FiniteSetTheorems, TLAPS

Messages == {Sends(m) : m \in Methods} \cup Foreign
Answers ==
  [type : {"response", "notify"}, to : {"call", "poll", "nobody"}, result : Results]

Waiters == {"call", "poll"}
By(w) == {msg \in Messages : msg.by = w}
To(w) == {msg \in Answers : msg.to = w}

(* How many elements of a sequence belong to K: none, or one.              *)
None(s, K) == \A i \in 1 .. Len(s) : s[i] \notin K
One(s, K) ==
  \E i \in 1 .. Len(s) : s[i] \in K /\ \A j \in 1 .. Len(s) : s[j] \in K => j = i

Awaited(w) ==
  IF w \in waiting
  THEN \/ One(toServer, By(w)) /\ None(toClient, To(w))
       \/ None(toServer, By(w)) /\ One(toClient, To(w))
  ELSE None(toServer, By(w)) /\ None(toClient, To(w))

Promises == {StandsFor(m) : m \in Methods} \cup {"none"}
Functions == {h.function : h \in Handlers} \cup {"none"}

Types ==
  /\ toServer \in Seq(Messages) /\ toClient \in Seq(Answers)
  /\ waiting \subseteq Waiters /\ failed \subseteq Results \ {"done"}
  /\ promised \in Seq(Promises) /\ executed \in Seq(Functions)

IInv == Types /\ \A w \in Waiters : Awaited(w)

-----------------------------------------------------------------------------
(* Counting none and one at the two ends of a queue.                       *)
LEMMA AppendCounts ==
  ASSUME NEW S, NEW s \in Seq(S), NEW x \in S, NEW K
  PROVE  /\ None(s, K) /\ x \notin K => None(Append(s, x), K)
         /\ None(s, K) /\ x \in K => One(Append(s, x), K)
         /\ One(s, K) /\ x \notin K => One(Append(s, x), K)
<1> DEFINE t == Append(s, x)
           n == Len(s) + 1
<1>1. /\ Len(s) \in Nat /\ Len(t) = n /\ t[n] = x
      /\ \A i \in 1 .. Len(s) : t[i] = s[i]
  BY AppendProperties, LenProperties
<1>2. \A i \in 1 .. n : i = n \/ i \in 1 .. Len(s)
  BY <1>1
<1>3. n \in 1 .. n /\ \A i \in 1 .. Len(s) : i \in 1 .. n
  BY <1>1
<1> HIDE DEF t, n
<1>4. None(s, K) /\ x \notin K => None(t, K)
  BY <1>1, <1>2 DEF None
<1>5. None(s, K) /\ x \in K => One(t, K)
  BY <1>1, <1>2, <1>3 DEF None, One
<1>6. One(s, K) /\ x \notin K => One(t, K)
  BY <1>1, <1>2, <1>3 DEF One
<1> QED BY <1>4, <1>5, <1>6 DEF t

(* The head is the one, or one of none.                                    *)
LEMMA TailCounts ==
  ASSUME NEW S, NEW s \in Seq(S), s # <<>>, NEW K
  PROVE  /\ Head(s) \in S /\ Tail(s) \in Seq(S)
         /\ None(s, K) => Head(s) \notin K /\ None(Tail(s), K)
         /\ One(s, K) => IF Head(s) \in K THEN None(Tail(s), K) ELSE One(Tail(s), K)
<1> DEFINE t == Tail(s)
           h == Head(s)
<1>1. /\ Len(s) \in Nat \ {0} /\ h = s[1] /\ h \in S /\ t \in Seq(S)
      /\ Len(t) = Len(s) - 1 /\ \A i \in 1 .. Len(t) : t[i] = s[i + 1]
  BY HeadTailProperties, EmptySeq, LenProperties
<1>2. \A i \in 1 .. Len(t) : i \in Int /\ i + 1 \in 1 .. Len(s) /\ i + 1 # 1
  BY <1>1
<1>3. 1 \in 1 .. Len(s)
  BY <1>1
<1>4. \A i \in 1 .. Len(s) : i = 1 \/ (i - 1 \in 1 .. Len(t) /\ (i - 1) + 1 = i)
  BY <1>1
<1> HIDE DEF t, h
<1>5. None(s, K) => h \notin K /\ None(t, K)
  BY <1>1, <1>2, <1>3 DEF None
<1>6. One(s, K) /\ h \in K => None(t, K)
  BY <1>1, <1>2, <1>3 DEF None, One
<1>7. ASSUME One(s, K), h \notin K PROVE One(t, K)
  <2>1. PICK i \in 1 .. Len(s) : s[i] \in K /\ \A j \in 1 .. Len(s) : s[j] \in K => j = i
    BY <1>7 DEF One
  <2>2. i - 1 \in 1 .. Len(t) /\ t[i - 1] \in K
    BY <1>1, <1>4, <1>7, <2>1
  <2>3. ASSUME NEW j \in 1 .. Len(t), t[j] \in K PROVE j = i - 1
    <3>1. j + 1 = i
      BY <1>1, <1>2, <2>1, <2>3
    <3> QED BY <3>1
  <2> QED BY <2>2, <2>3 DEF One
<1> QED BY <1>1, <1>5, <1>6, <1>7 DEF t, h

(* What the sets of AnswerComes hold then.                                 *)
LEMMA Counted ==
  ASSUME NEW S, NEW s \in Seq(S), NEW K
  PROVE  /\ None(s, K) => Cardinality({i \in DOMAIN s : s[i] \in K}) = 0
         /\ One(s, K) => Cardinality({i \in DOMAIN s : s[i] \in K}) = 1
<1> DEFINE hits == {i \in DOMAIN s : s[i] \in K}
<1>1. DOMAIN s = 1 .. Len(s)
  BY LenProperties
<1>2. None(s, K) => hits = {}
  BY <1>1 DEF None
<1>3. ASSUME One(s, K) PROVE \E i : hits = {i}
  <2>1. PICK i \in 1 .. Len(s) : s[i] \in K /\ \A j \in 1 .. Len(s) : s[j] \in K => j = i
    BY <1>3 DEF One
  <2>2. hits = {i}
    BY <1>1, <2>1
  <2> QED BY <2>2
<1>4. \A i : Cardinality({i}) = 1
  BY FS_Singleton
<1>5. Cardinality({}) = 0
  BY FS_EmptySet
<1> HIDE DEF hits
<1>6. None(s, K) => Cardinality(hits) = 0
  BY <1>2, <1>5
<1>7. One(s, K) => Cardinality(hits) = 1
  BY <1>3, <1>4
<1> QED BY <1>6, <1>7 DEF hits

-----------------------------------------------------------------------------
(* What the methods send is a request that is waited for, or a             *)
(* notification that is not.                                               *)
LEMMA SendsMessages ==
  \A msg \in Messages : IsMessage(msg)
<1> SUFFICES ASSUME NEW m \in Offered PROVE IsMessage(Sends(m))
  BY MethodsAssumption DEF Messages
<1>1. \A method, args : IsMessage(Request(method, args)) /\ IsMessage(Notify(method, args))
  BY DEF Request, Notify, IsMessage
<1>2. \A method : IsMessage(Polled(method))
  BY DEF Polled, Request, IsMessage
<1>3. \/ m \in Flags \/ m \in Factors \/ m = "CycleStop" \/ m = "JogVel" \/ m \in {"Home", "HomeAll"}
      \/ m \in Named \/ m = "SendData" \/ m \in Indexed \/ m \in Plain \/ m \in Polls
      \/ m = "CloseFile" \/ m = "Ping" \/ m = "GetGCodesAsync" \/ m = "GetMCodesAsync"
  BY DEF Offered
<1> QED BY <1>1, <1>2, <1>3 DEF Sends

-----------------------------------------------------------------------------
(* Nobody waits at first.                                                  *)
LEMMA InvInit ==
  ASSUME Init
  PROVE  IInv
<1>1. /\ toServer = <<>> /\ toClient = <<>> /\ waiting = {} /\ failed = {}
      /\ promised = <<>> /\ executed = <<>>
  BY DEF Init
<1>2. Types
  BY <1>1 DEF Types
<1>3. 1 .. Len(<<>>) = {}
  OBVIOUS
<1>4. \A w \in Waiters : Awaited(w)
  BY <1>1, <1>3 DEF Awaited, None
<1> QED BY <1>2, <1>4 DEF IInv

(* A message is sent for nobody, or for one who has not waited before.     *)
LEMMA SendKeeps ==
  ASSUME IInv, NEW msg \in Messages, NEW name,
         name \in Promises,
         Send(msg), promised' = Append(promised, name)
  PROVE  IInv'
<1> USE DEF IInv
<1>1. /\ toServer' = Append(toServer, msg) /\ waiting' = waiting \cup ({msg.by} \ {"nobody"})
      /\ UNCHANGED <<toClient, executed, failed>> /\ msg.by \notin waiting
  BY DEF Send
<1>2. msg.by \in Waiters \cup {"nobody"}
  BY SendsMessages DEF IsMessage, Waiters
<1>3. Types'
  <2>1. waiting' \subseteq Waiters
    BY <1>1, <1>2 DEF Types
  <2> QED BY <1>1, <2>1 DEF Types
<1>4. ASSUME NEW w \in Waiters PROVE Awaited(w)'
  <2>1. toServer \in Seq(Messages) /\ Awaited(w) /\ w # "nobody"
    BY DEF Types, Waiters
  <2>2. CASE msg.by = w
    <3>1. msg \in By(w) /\ w \notin waiting /\ w \in waiting'
      BY <1>1, <2>1, <2>2 DEF By
    <3>2. One(toServer', By(w)) /\ None(toClient', To(w))
      BY <1>1, <2>1, <3>1, AppendCounts DEF Awaited
    <3> QED BY <3>1, <3>2 DEF Awaited
  <2>3. CASE msg.by # w
    <3>1. msg \notin By(w) /\ (w \in waiting' <=> w \in waiting)
      BY <1>1, <2>3 DEF By
    <3>2. /\ None(toServer, By(w)) => None(toServer', By(w))
          /\ One(toServer, By(w)) => One(toServer', By(w))
      BY <1>1, <2>1, <3>1, AppendCounts
    <3> QED BY <1>1, <2>1, <3>1, <3>2 DEF Awaited
  <2> QED BY <2>2, <2>3
<1> QED BY <1>3, <1>4

(* A request is answered, a notification by nothing or to nobody.          *)
LEMMA AnswerIsOne ==
  ASSUME NEW msg \in Messages, NEW result \in Results
  PROVE  \/ /\ msg.by = "nobody" /\ Answer(msg, result) = <<>>
         \/ \E answer \in Answers :
              Answer(msg, result) = <<answer>> /\ answer.to = msg.by
<1>1. CASE msg.type = "request"
  <2>1. Response(msg, result) \in Answers /\ Response(msg, result).to = msg.by
    BY SendsMessages DEF Response, Answers, IsMessage
  <2> QED BY <1>1, <2>1 DEF Answer
<1>2. CASE msg.type # "request"
  <2>1. msg.by = "nobody"
    BY <1>2, SendsMessages DEF IsMessage
  <2>2. Exception(result) \in Answers /\ Exception(result).to = "nobody"
    BY DEF Exception, Answers
  <2> QED BY <1>2, <2>1, <2>2 DEF Answer
<1> QED BY <1>1, <1>2

(* Who waits for the request now waits for its answer.                     *)
LEMMA ServeKeeps ==
  ASSUME IInv, Serve
  PROVE  IInv'
<1> USE DEF IInv
<1> DEFINE msg == Head(toServer)
<1>1. /\ toServer # <<>> /\ toServer' = Tail(toServer)
      /\ UNCHANGED <<waiting, promised, failed>>
  BY DEF Serve
<1>2. msg \in Messages /\ toServer' \in Seq(Messages)
  BY <1>1, TailCounts DEF Types
<1>3. PICK result \in Results : toClient' = toClient \o Answer(msg, result)
  BY DEF Serve, ServeUnknown, ServeMisfit, ServeCall, Results
<1>4. executed' \in Seq(Functions)
  <2>1. PICK f \in Functions : executed' = Append(executed, f)
    BY DEF Serve, ServeUnknown, ServeMisfit, ServeCall, Found, Functions
  <2> QED BY <2>1 DEF Types
<1> HIDE DEF msg
<1>5. \/ msg.by = "nobody" /\ toClient' = toClient
      \/ \E answer \in Answers : toClient' = Append(toClient, answer) /\ answer.to = msg.by
  <2>1. toClient \in Seq(Answers)
    BY DEF Types
  <2>2. toClient \o <<>> = toClient
    BY <2>1, ConcatEmptySeq
  <2>3. \A answer \in Answers : toClient \o <<answer>> = Append(toClient, answer)
    BY <2>1, AppendIsConcat
  <2> QED BY <1>2, <1>3, <2>2, <2>3, AnswerIsOne
<1>6. toClient' \in Seq(Answers)
  <2>1. \A answer \in Answers : Append(toClient, answer) \in Seq(Answers)
    BY AppendProperties DEF Types
  <2>2. toClient \in Seq(Answers)
    BY DEF Types
  <2> QED BY <1>5, <2>1, <2>2
<1>7. Types'
  BY <1>1, <1>2, <1>4, <1>6 DEF Types
<1>8. ASSUME NEW w \in Waiters PROVE Awaited(w)'
  <2>1. /\ toServer \in Seq(Messages) /\ toClient \in Seq(Answers)
        /\ Awaited(w) /\ w # "nobody"
    BY DEF Types, Waiters
  <2>2. msg \in By(w) <=> msg.by = w
    BY <1>2 DEF By
  <2>3. /\ None(toServer, By(w)) => msg.by # w /\ None(toServer', By(w))
        /\ One(toServer, By(w)) =>
             IF msg.by = w THEN None(toServer', By(w)) ELSE One(toServer', By(w))
    BY <1>1, <2>1, <2>2, TailCounts DEF msg
  <2>4. CASE msg.by = w
    <3>1. PICK answer \in To(w) : answer \in Answers /\ toClient' = Append(toClient, answer)
      BY <1>5, <2>1, <2>4 DEF To
    <3>2. None(toClient, To(w)) => One(toClient', To(w))
      BY <2>1, <3>1, AppendCounts
    <3> QED BY <1>1, <2>1, <2>3, <2>4, <3>2 DEF Awaited
  <2>5. CASE msg.by # w
    <3>1. /\ None(toClient, To(w)) => None(toClient', To(w))
          /\ One(toClient, To(w)) => One(toClient', To(w))
      <4>1. CASE toClient' = toClient
        BY <4>1
      <4>2. ASSUME NEW answer \in Answers, toClient' = Append(toClient, answer), answer.to = msg.by
            PROVE  /\ None(toClient, To(w)) => None(toClient', To(w))
                   /\ One(toClient, To(w)) => One(toClient', To(w))
        <5>1. answer \notin To(w)
          BY <2>5, <4>2 DEF To
        <5> QED BY <2>1, <4>2, <5>1, AppendCounts
      <4> QED BY <1>5, <4>1, <4>2
    <3> QED BY <1>1, <2>1, <2>3, <2>5, <3>1 DEF Awaited
  <2> QED BY <2>4, <2>5
<1> QED BY <1>7, <1>8

(* The client takes the answer, and waits no more.                         *)
LEMMA DeliverKeeps ==
  ASSUME IInv, Deliver
  PROVE  IInv'
<1> USE DEF IInv
<1> DEFINE msg == Head(toClient)
<1>1. /\ toClient # <<>> /\ toClient' = Tail(toClient)
      /\ waiting' = waiting \ {msg.to} /\ failed' = failed \cup ({msg.result} \ {"done"})
      /\ UNCHANGED <<toServer, promised, executed>>
  BY DEF Deliver
<1>2. msg \in Answers /\ toClient' \in Seq(Answers)
  BY <1>1, TailCounts DEF Types
<1> HIDE DEF msg
<1>3. Types'
  BY <1>1, <1>2 DEF Types, Answers
<1>4. ASSUME NEW w \in Waiters PROVE Awaited(w)'
  <2>1. toClient \in Seq(Answers) /\ Awaited(w)
    BY DEF Types
  <2>2. msg \in To(w) <=> msg.to = w
    BY <1>2 DEF To
  <2>3. /\ None(toClient, To(w)) => msg.to # w /\ None(toClient', To(w))
        /\ One(toClient, To(w)) =>
             IF msg.to = w THEN None(toClient', To(w)) ELSE One(toClient', To(w))
    BY <1>1, <2>1, <2>2, TailCounts DEF msg
  <2>4. w \in waiting' <=> w \in waiting /\ msg.to # w
    BY <1>1
  <2> QED BY <1>1, <2>1, <2>3, <2>4 DEF Awaited
<1> QED BY <1>3, <1>4

-----------------------------------------------------------------------------
(* The invariant holds throughout.                                         *)
LEMMA InvAlways == Spec => []IInv
<1>1. IInv /\ Next => IInv'
  <2>1. ASSUME IInv, NEW m \in Methods, Call(m) PROVE IInv'
    <3>1. Sends(m) \in Messages /\ StandsFor(m) \in Promises
      BY DEF Messages, Promises
    <3> QED BY <2>1, <3>1, SendKeeps DEF Call
  <2>2. ASSUME IInv, NEW msg \in Foreign, CallForeign(msg) PROVE IInv'
    <3>1. msg \in Messages /\ "none" \in Promises
      BY DEF Messages, Promises
    <3> QED BY <2>2, <3>1, SendKeeps DEF CallForeign
  <2> QED BY <2>1, <2>2, ServeKeeps, DeliverKeeps DEF Next
<1>2. IInv /\ UNCHANGED vars => IInv'
  BY DEF vars, IInv, Types, Awaited
<1> QED BY <1>1, <1>2, InvInit, PTL DEF Spec

(* Every variable has its type; what is called is in the server's table.   *)
THEOREM TypeCorrect == Spec => []TypeOK
<1>1. IInv => TypeOK
  BY DEF IInv, Types, TypeOK, Messages, Answers, Waiters, Promises, Functions
<1> QED BY <1>1, InvAlways, PTL

(* Whatever goes wrong in the server, an answer comes to who waits for it, *)
(* and to nobody else.                                                     *)
THEOREM AnswersCome == Spec => []AnswerComes
<1>1. ASSUME IInv PROVE AnswerComes
  <2>1. ASSUME NEW w \in Waiters
        PROVE  Cardinality({i \in DOMAIN toServer : toServer[i].by = w})
                 + Cardinality({i \in DOMAIN toClient : toClient[i].to = w})
                 = IF w \in waiting THEN 1 ELSE 0
    <3>1. toServer \in Seq(Messages) /\ toClient \in Seq(Answers) /\ Awaited(w)
      BY <1>1 DEF IInv, Types
    <3>2. {i \in DOMAIN toServer : toServer[i].by = w} = {i \in DOMAIN toServer : toServer[i] \in By(w)}
      BY <3>1, ElementOfSeq DEF By
    <3>3. {i \in DOMAIN toClient : toClient[i].to = w} = {i \in DOMAIN toClient : toClient[i] \in To(w)}
      BY <3>1, ElementOfSeq DEF To
    <3>4. /\ None(toServer, By(w)) => Cardinality({i \in DOMAIN toServer : toServer[i].by = w}) = 0
          /\ One(toServer, By(w)) => Cardinality({i \in DOMAIN toServer : toServer[i].by = w}) = 1
      BY <3>1, <3>2, Counted
    <3>5. /\ None(toClient, To(w)) => Cardinality({i \in DOMAIN toClient : toClient[i].to = w}) = 0
          /\ One(toClient, To(w)) => Cardinality({i \in DOMAIN toClient : toClient[i].to = w}) = 1
      BY <3>1, <3>3, Counted
    <3> QED BY <3>1, <3>4, <3>5 DEF Awaited
  <2> QED BY <2>1 DEF AnswerComes, Waiters
<1> QED BY <1>1, InvAlways, PTL

-----------------------------------------------------------------------------
(* The server's table once more, by rows.                                  *)
Queries == {"GetState_", "CloseFile", "GetGCodes", "GetMCodes", "Version", "GetPreview"}
Texts == {"Mdi", "LoadFile", "SendInit"}
Indices == {"GetOffset", "GetError", "GetMessage"}
Switches == {"CycleStart", "CycleStop", "EndPreview"}
Settings == {"DrivesOn", "FeedHold", "BlockDelete", "SingleStep", "OptionalStop"}

Row(h) ==
  \/ h.type = "request" /\ h.takes = "nil" /\ h.function \in Queries
  \/ h.type = "request" /\ h.takes = "string" /\ h.function \in Texts
  \/ h.type = "request" /\ h.takes = "unsigned" /\ h.function \in Indices
  \/ h.type = "request" /\ h.takes = "int" /\ h.function \in {"StartPreview"}
  \/ h.type = "request" /\ h.takes = "string, int" /\ h.function \in {"SendData"}
  \/ h.type = "notify" /\ h.takes = "nil" /\ h.function \in Switches
  \/ h.type = "notify" /\ h.takes = "bool" /\ h.function \in Settings
  \/ h.type = "notify" /\ h.takes = "double" /\ h.function \in Factors
  \/ h.type = "notify" /\ h.takes = "Axes" /\ h.function \in {"JogVel"}
  \/ h.type = "notify" /\ h.takes = "Axes, double" /\ h.function \in {"JogStep"}
  \/ h.type = "notify" /\ h.takes = "BoolAxes" /\ h.function \in {"Home"}

(* A handler is bound as its row says.                                     *)
LEMMA BoundAsSaid ==
  ASSUME NEW type, NEW takes, NEW functions, NEW h \in Bind(type, takes, functions)
  PROVE  h.type = type /\ h.takes = takes /\ h.function \in functions
BY DEF Bind

(* Every handler is in a row, ...                                          *)
LEMMA HandlersHaveRows == \A h \in Handlers : Row(h)
<1> SUFFICES ASSUME NEW h \in Handlers PROVE Row(h)
  OBVIOUS
<1>0. \/ h \in Bind("request", "nil", Queries)
      \/ h \in Bind("request", "string", Texts)
      \/ h \in Bind("request", "unsigned", Indices)
      \/ h \in Bind("request", "int", {"StartPreview"})
      \/ h \in Bind("request", "string, int", {"SendData"})
      \/ h \in Bind("notify", "nil", Switches)
      \/ h \in Bind("notify", "bool", Settings)
      \/ h \in Bind("notify", "double", Factors)
      \/ h \in Bind("notify", "Axes", {"JogVel"})
      \/ h \in Bind("notify", "Axes, double", {"JogStep"})
      \/ h \in Bind("notify", "BoolAxes", {"Home"})
  BY DEF Handlers, Queries, Texts, Indices, Switches, Settings
<1>1. CASE h \in Bind("request", "nil", Queries)
  <2>1. h.type = "request" /\ h.takes = "nil" /\ h.function \in Queries
    BY <1>1, BoundAsSaid
  <2> QED BY <2>1 DEF Row
<1>2. CASE h \in Bind("request", "string", Texts)
  <2>1. h.type = "request" /\ h.takes = "string" /\ h.function \in Texts
    BY <1>2, BoundAsSaid
  <2> QED BY <2>1 DEF Row
<1>3. CASE h \in Bind("request", "unsigned", Indices)
  <2>1. h.type = "request" /\ h.takes = "unsigned" /\ h.function \in Indices
    BY <1>3, BoundAsSaid
  <2> QED BY <2>1 DEF Row
<1>4. CASE h \in Bind("request", "int", {"StartPreview"})
  <2>1. h.type = "request" /\ h.takes = "int" /\ h.function \in {"StartPreview"}
    BY <1>4, BoundAsSaid
  <2> QED BY <2>1 DEF Row
<1>5. CASE h \in Bind("request", "string, int", {"SendData"})
  <2>1. h.type = "request" /\ h.takes = "string, int" /\ h.function \in {"SendData"}
    BY <1>5, BoundAsSaid
  <2> QED BY <2>1 DEF Row
<1>6. CASE h \in Bind("notify", "nil", Switches)
  <2>1. h.type = "notify" /\ h.takes = "nil" /\ h.function \in Switches
    BY <1>6, BoundAsSaid
  <2> QED BY <2>1 DEF Row
<1>7. CASE h \in Bind("notify", "bool", Settings)
  <2>1. h.type = "notify" /\ h.takes = "bool" /\ h.function \in Settings
    BY <1>7, BoundAsSaid
  <2> QED BY <2>1 DEF Row
<1>8. CASE h \in Bind("notify", "double", Factors)
  <2>1. h.type = "notify" /\ h.takes = "double" /\ h.function \in Factors
    BY <1>8, BoundAsSaid
  <2> QED BY <2>1 DEF Row
<1>9. CASE h \in Bind("notify", "Axes", {"JogVel"})
  <2>1. h.type = "notify" /\ h.takes = "Axes" /\ h.function \in {"JogVel"}
    BY <1>9, BoundAsSaid
  <2> QED BY <2>1 DEF Row
<1>10. CASE h \in Bind("notify", "Axes, double", {"JogStep"})
  <2>1. h.type = "notify" /\ h.takes = "Axes, double" /\ h.function \in {"JogStep"}
    BY <1>10, BoundAsSaid
  <2> QED BY <2>1 DEF Row
<1>11. CASE h \in Bind("notify", "BoolAxes", {"Home"})
  <2>1. h.type = "notify" /\ h.takes = "BoolAxes" /\ h.function \in {"Home"}
    BY <1>11, BoundAsSaid
  <2> QED BY <2>1 DEF Row
<1> QED BY <1>0, <1>1, <1>2, <1>3, <1>4, <1>5, <1>6, <1>7, <1>8, <1>9, <1>10, <1>11

(* ... and every row has its handlers.                                     *)
LEMMA RowsHaveHandlers ==
  /\ \A f \in Queries : [type |-> "request", takes |-> "nil", function |-> f] \in Handlers
  /\ \A f \in Texts : [type |-> "request", takes |-> "string", function |-> f] \in Handlers
  /\ \A f \in Indices : [type |-> "request", takes |-> "unsigned", function |-> f] \in Handlers
  /\ \A f \in {"StartPreview"} : [type |-> "request", takes |-> "int", function |-> f] \in Handlers
  /\ \A f \in {"SendData"} :
       [type |-> "request", takes |-> "string, int", function |-> f] \in Handlers
  /\ \A f \in Switches : [type |-> "notify", takes |-> "nil", function |-> f] \in Handlers
  /\ \A f \in Settings : [type |-> "notify", takes |-> "bool", function |-> f] \in Handlers
  /\ \A f \in Factors : [type |-> "notify", takes |-> "double", function |-> f] \in Handlers
  /\ \A f \in {"JogVel"} : [type |-> "notify", takes |-> "Axes", function |-> f] \in Handlers
  /\ \A f \in {"JogStep"} :
       [type |-> "notify", takes |-> "Axes, double", function |-> f] \in Handlers
  /\ \A f \in {"Home"} : [type |-> "notify", takes |-> "BoolAxes", function |-> f] \in Handlers
BY DEF Handlers, Bind, Queries, Texts, Indices, Switches, Settings

(* No name is bound twice, also without the underscore.                    *)
LEMMA NamesAreUnique ==
  \A h, k \in Handlers :
    SetName(h.function) = SetName(k.function) =>
      h.type = k.type /\ h.takes = k.takes /\ h.function = k.function
<1> SUFFICES ASSUME NEW h \in Handlers, NEW k \in Handlers,
                    SetName(h.function) = SetName(k.function)
             PROVE  h.type = k.type /\ h.takes = k.takes /\ h.function = k.function
  OBVIOUS
<1>1. Row(h) /\ Row(k)
  BY HandlersHaveRows
<1>2. h.function = k.function
  BY <1>1 DEF Row, SetName, Queries, Texts, Indices, Switches, Settings, Factors
<1>3. h.takes = k.takes
  BY <1>1, <1>2 DEF Row, Queries, Texts, Indices, Switches, Settings, Factors
<1>4. h.type = k.type
  BY <1>1, <1>2 DEF Row, Queries, Texts, Indices, Switches, Settings, Factors
<1> QED BY <1>2, <1>3, <1>4

(* A message has the server call f and nothing else, or nothing at all.    *)
Stands(msg, f) ==
  \/ f = "none" /\ Refused(msg)
  \/ Found(msg) # {} /\ \A h \in Found(msg) : h.function = f /\ Converts(msg.args, h.takes)

(* So a message that fits one handler has its function called.             *)
LEMMA OneIsFound ==
  ASSUME NEW type, NEW method, NEW args, NEW by, NEW h \in Handlers,
         h.type = type, SetName(h.function) = method, Converts(args, h.takes)
  PROVE  Stands([type |-> type, method |-> method, args |-> args, by |-> by], h.function)
<1> DEFINE msg == [type |-> type, method |-> method, args |-> args, by |-> by]
<1>1. h \in Found(msg) /\ \A k \in Found(msg) : k.function = h.function /\ k.takes = h.takes
  BY NamesAreUnique DEF Found
<1>2. Converts(msg.args, h.takes)
  OBVIOUS
<1> HIDE DEF msg
<1> QED BY <1>1, <1>2 DEF Stands, msg

(* The methods that send what they stand for, ...                          *)
Faithful == Offered \ {"CycleStop", "GetMCodesAsync"}

(* ... each with a name and arguments that the server has bound.           *)
LEMMA SendsWhatItStandsFor ==
  \A m \in Faithful : Stands(Sends(m), StandsFor(m))
<1> SUFFICES ASSUME NEW m \in Faithful PROVE Stands(Sends(m), StandsFor(m))
  OBVIOUS
<1> USE DEF SetName, Converts
<1>1. CASE m \in Settings
  <2>1. Sends(m) = Notify(m, "bool")
    BY <1>1 DEF Sends, Flags, Factors, Named, Indexed, Plain, Polls, Settings
  <2>2. StandsFor(m) = m
    BY <1>1 DEF StandsFor, Factors, Named, Indexed, Plain, Settings
  <2> QED BY <1>1, <2>1, <2>2, RowsHaveHandlers, OneIsFound DEF Notify, Settings
<1>2. CASE m = "CycleStart"
  <2>1. Sends(m) = Notify("CycleStart", "bool")
    BY <1>2 DEF Sends, Flags, Factors, Named, Indexed, Plain, Polls
  <2>2. StandsFor(m) = "CycleStart"
    BY <1>2 DEF StandsFor, Factors, Named, Indexed, Plain
  <2> QED BY <1>2, <2>1, <2>2, RowsHaveHandlers, OneIsFound DEF Notify, Switches
<1>3. CASE m \in Factors
  <2>1. Sends(m) = Notify(m, "double")
    BY <1>3 DEF Sends, Flags, Factors, Named, Indexed, Plain, Polls
  <2>2. StandsFor(m) = m
    BY <1>3 DEF StandsFor, Factors, Named, Indexed, Plain
  <2> QED BY <1>3, <2>1, <2>2, RowsHaveHandlers, OneIsFound DEF Notify, Factors
<1>4. CASE m = "JogVel"
  <2>1. Sends(m) = Notify("JogVel", "Axes")
    BY <1>4 DEF Sends, Flags, Factors, Named, Indexed, Plain, Polls
  <2>2. StandsFor(m) = "JogVel"
    BY <1>4 DEF StandsFor, Factors, Named, Indexed, Plain
  <2> QED BY <1>4, <2>1, <2>2, RowsHaveHandlers, OneIsFound DEF Notify
<1>5. CASE m \in {"Home", "HomeAll"}
  <2>1. Sends(m) = Notify("Home", "BoolAxes")
    BY <1>5 DEF Sends, Flags, Factors, Named, Indexed, Plain, Polls
  <2>2. StandsFor(m) = "Home"
    BY <1>5 DEF StandsFor, Factors, Named, Indexed, Plain
  <2> QED BY <1>5, <2>1, <2>2, RowsHaveHandlers, OneIsFound DEF Notify
<1>6. CASE m \in Named
  <2>1. Sends(m) = Request(m, "string")
    BY <1>6 DEF Sends, Flags, Factors, Named, Indexed, Plain, Polls
  <2>2. StandsFor(m) = m
    BY <1>6 DEF StandsFor, Factors, Named, Indexed, Plain
  <2> QED BY <1>6, <2>1, <2>2, RowsHaveHandlers, OneIsFound DEF Request, Named, Texts
<1>7. CASE m = "SendData"
  <2>1. Sends(m) = Request("SendData", "string, int")
    BY <1>7 DEF Sends, Flags, Factors, Named, Indexed, Plain, Polls
  <2>2. StandsFor(m) = "SendData"
    BY <1>7 DEF StandsFor, Factors, Named, Indexed, Plain
  <2> QED BY <1>7, <2>1, <2>2, RowsHaveHandlers, OneIsFound DEF Request
<1>8. CASE m \in Indexed
  <2>1. Sends(m) = Request(m, "unsigned")
    BY <1>8 DEF Sends, Flags, Factors, Named, Indexed, Plain, Polls
  <2>2. StandsFor(m) = m
    BY <1>8 DEF StandsFor, Factors, Named, Indexed, Plain
  <2> QED BY <1>8, <2>1, <2>2, RowsHaveHandlers, OneIsFound DEF Request, Indexed, Indices
<1>9. CASE m \in Plain
  <2>1. Sends(m) = Request(m, "nil")
    BY <1>9 DEF Sends, Flags, Factors, Named, Indexed, Plain, Polls
  <2>2. StandsFor(m) = m
    BY <1>9 DEF StandsFor, Factors, Named, Indexed, Plain
  <2> QED BY <1>9, <2>1, <2>2, RowsHaveHandlers, OneIsFound DEF Request, Plain, Queries
<1>10. CASE m = "GetState"
  <2>1. Sends(m) = Polled("GetState")
    BY <1>10 DEF Sends, Flags, Factors, Named, Indexed, Plain, Polls
  <2>2. StandsFor(m) = "GetState_"
    BY <1>10 DEF StandsFor, Factors, Named, Indexed, Plain
  <2>3. Polled("GetState") =
          [type |-> "request", method |-> "GetState", args |-> "nil", by |-> "poll"]
    BY DEF Polled, Request
  <2> QED BY <1>10, <2>1, <2>2, <2>3, RowsHaveHandlers, OneIsFound DEF Queries
<1>11. CASE m = "Version"
  <2>1. Sends(m) = Polled("Version")
    BY <1>11 DEF Sends, Flags, Factors, Named, Indexed, Plain, Polls
  <2>2. StandsFor(m) = "Version"
    BY <1>11 DEF StandsFor, Factors, Named, Indexed, Plain
  <2>3. Polled("Version") =
          [type |-> "request", method |-> "Version", args |-> "nil", by |-> "poll"]
    BY DEF Polled, Request
  <2> QED BY <1>11, <2>1, <2>2, <2>3, RowsHaveHandlers, OneIsFound DEF Queries
<1>12. CASE m = "CloseFile"
  <2>1. Sends(m) = Request("CloseFile", "int")
    BY <1>12 DEF Sends, Flags, Factors, Named, Indexed, Plain, Polls
  <2>2. StandsFor(m) = "CloseFile"
    BY <1>12 DEF StandsFor, Factors, Named, Indexed, Plain
  <2> QED BY <1>12, <2>1, <2>2, RowsHaveHandlers, OneIsFound DEF Request, Queries
<1>13. CASE m = "Ping"
  <2>1. Sends(m) = Request("Version", "int")
    BY <1>13 DEF Sends, Flags, Factors, Named, Indexed, Plain, Polls
  <2>2. StandsFor(m) = "Version"
    BY <1>13 DEF StandsFor, Factors, Named, Indexed, Plain
  <2> QED BY <1>13, <2>1, <2>2, RowsHaveHandlers, OneIsFound DEF Request, Queries
<1>14. CASE m = "GetGCodesAsync"
  <2>1. Sends(m) = Request("GetGCodes", "nil")
    BY <1>14 DEF Sends, Flags, Factors, Named, Indexed, Plain, Polls
  <2>2. StandsFor(m) = "GetGCodes"
    BY <1>14 DEF StandsFor, Factors, Named, Indexed, Plain
  <2> QED BY <1>14, <2>1, <2>2, RowsHaveHandlers, OneIsFound DEF Request, Queries
<1> QED BY <1>1, <1>2, <1>3, <1>4, <1>5, <1>6, <1>7, <1>8, <1>9, <1>10, <1>11, <1>12, <1>13,
           <1>14 DEF Faithful, Offered, Flags, Settings, Polls

-----------------------------------------------------------------------------
(* The server has served the first of the calls, and what is under way     *)
(* stands for the others.                                                  *)
InStep ==
  /\ Len(promised) = Len(executed) + Len(toServer)
  /\ \A i \in 1 .. Len(executed) : executed[i] = promised[i]
  /\ \A i \in 1 .. Len(toServer) : Stands(toServer[i], promised[Len(executed) + i])

(* The lengths are natural numbers, and a queue is longer by what is added.*)
LEMMA Lengths ==
  ASSUME Types
  PROVE  Len(promised) \in Nat /\ Len(executed) \in Nat /\ Len(toServer) \in Nat
BY LenProperties DEF Types

(* A call adds what it stands for.                                         *)
LEMMA CallKeepsStep ==
  ASSUME Types, InStep, NEW msg \in Messages, NEW name \in Promises, Stands(msg, name),
         toServer' = Append(toServer, msg), promised' = Append(promised, name), UNCHANGED executed
  PROVE  InStep'
<1> DEFINE n == Len(toServer)
           k == Len(executed)
<1>1. n \in Nat /\ k \in Nat /\ Len(promised) = k + n
  BY Lengths DEF InStep
<1>2. /\ Len(toServer') = n + 1 /\ toServer'[n + 1] = msg
      /\ \A i \in 1 .. n : toServer'[i] = toServer[i]
  BY AppendProperties DEF Types
<1>3. /\ Len(promised') = k + n + 1 /\ promised'[k + n + 1] = name
      /\ \A i \in 1 .. k + n : promised'[i] = promised[i]
  <2>1. promised \in Seq(Promises)
    BY DEF Types
  <2>2. /\ Len(Append(promised, name)) = Len(promised) + 1
        /\ \A i \in 1 .. Len(promised) : Append(promised, name)[i] = promised[i]
        /\ Append(promised, name)[Len(promised) + 1] = name
    BY <2>1, AppendProperties
  <2> QED BY <1>1, <2>2
<1>4. \A i \in 1 .. k : executed[i] = promised[i]
  BY DEF InStep
<1>5. \A i \in 1 .. n : Stands(toServer[i], promised[k + i])
  BY DEF InStep
<1> HIDE DEF n, k
<1>6. \A i \in 1 .. k : executed[i] = promised'[i]
  BY <1>1, <1>3, <1>4
<1>7. ASSUME NEW i \in 1 .. n + 1 PROVE Stands(toServer'[i], promised'[k + i])
  <2>1. CASE i = n + 1
    <3>1. k + i = k + n + 1
      BY <1>1, <2>1
    <3> QED BY <1>2, <1>3, <2>1, <3>1
  <2>2. CASE i # n + 1
    <3>1. i \in 1 .. n /\ k + i \in 1 .. k + n
      BY <1>1, <2>2
    <3> QED BY <1>2, <1>3, <1>5, <3>1
  <2> QED BY <2>1, <2>2
<1>8. Len(executed') = k /\ executed' = executed
  BY DEF k
<1>9. Len(promised') = Len(executed') + Len(toServer')
  <2>1. k + n + 1 = k + (n + 1)
    BY <1>1
  <2> QED BY <1>2, <1>3, <1>8, <2>1
<1>10. \A i \in 1 .. Len(executed') : executed'[i] = promised'[i]
  BY <1>6, <1>8
<1>11. \A i \in 1 .. Len(toServer') : Stands(toServer'[i], promised'[Len(executed') + i])
  BY <1>2, <1>7, <1>8
<1> QED BY <1>9, <1>10, <1>11 DEF InStep

(* The server calls what the oldest message stands for, or nothing.        *)
LEMMA ServeCallsFunction ==
  ASSUME NEW msg, NEW f, Stands(msg, f), ServeUnknown(msg) \/ ServeMisfit(msg) \/ ServeCall(msg)
  PROVE  executed' = Append(executed, f)
BY DEF Stands, Refused, ServeUnknown, ServeMisfit, ServeCall

(* So what was called grows along what was promised.                       *)
LEMMA ServeKeepsStep ==
  ASSUME Types, InStep, Serve
  PROVE  InStep'
<1> DEFINE n == Len(toServer)
           k == Len(executed)
           f == promised[k + 1]
<1>1. n \in Nat \ {0} /\ k \in Nat /\ Len(promised) = k + n
  BY Lengths, EmptySeq DEF InStep, Serve, Types
<1>2. /\ Len(toServer') = n - 1 /\ Head(toServer) = toServer[1]
      /\ \A i \in 1 .. n - 1 : toServer'[i] = toServer[i + 1]
  BY HeadTailProperties DEF Serve, Types
<1>3. \A i \in 1 .. k : executed[i] = promised[i]
  BY DEF InStep
<1>4. \A i \in 1 .. n : Stands(toServer[i], promised[k + i])
  BY DEF InStep
<1>5. UNCHANGED promised
  BY DEF Serve
<1>6. f \in Promises
  <2>1. k + 1 \in 1 .. Len(promised)
    BY <1>1
  <2> QED BY <2>1, ElementOfSeq DEF Types
<1>7. executed' = Append(executed, f)
  <2>1. 1 \in 1 .. n
    BY <1>1
  <2>2. Stands(Head(toServer), f)
    BY <1>2, <1>4, <2>1
  <2> QED BY <2>2, ServeCallsFunction DEF Serve
<1>8. /\ Len(executed') = k + 1 /\ executed'[k + 1] = f
      /\ \A i \in 1 .. k : executed'[i] = executed[i]
  <2>1. executed \in Seq(Functions \cup Promises)
    BY SeqMonotonic DEF Types
  <2> QED BY <1>6, <1>7, <2>1, AppendProperties
<1> HIDE DEF n, k
<1>9. \A i \in 1 .. k + 1 : executed'[i] = promised[i]
  <2>1. \A i \in 1 .. k + 1 : i \in 1 .. k \/ i = k + 1
    BY <1>1
  <2> QED BY <1>3, <1>8, <2>1
<1>10. ASSUME NEW i \in 1 .. n - 1 PROVE Stands(toServer'[i], promised[(k + 1) + i])
  <2>1. i + 1 \in 1 .. n /\ k + (i + 1) = (k + 1) + i
    BY <1>1
  <2> QED BY <1>2, <1>4, <2>1
<1>11. Len(promised') = Len(executed') + Len(toServer')
  <2>1. Len(promised') = k + n
    BY <1>1, <1>5
  <2>2. k + n = (k + 1) + (n - 1)
    BY <1>1
  <2> QED BY <1>2, <1>8, <2>1, <2>2
<1>12. \A i \in 1 .. Len(executed') : executed'[i] = promised'[i]
  BY <1>5, <1>8, <1>9
<1>13. \A i \in 1 .. Len(toServer') : Stands(toServer'[i], promised'[Len(executed') + i])
  BY <1>2, <1>5, <1>8, <1>10
<1> QED BY <1>11, <1>12, <1>13 DEF InStep

(* So what was called is a beginning of what the calls stand for.          *)
LEMMA StepIsPromised ==
  ASSUME Types, InStep
  PROVE  ExecutesAsPromised
<1> DEFINE S == Functions \cup Promises
<1>1. executed \in Seq(S) /\ promised \in Seq(S)
  BY SeqMonotonic DEF Types
<1>2. Len(promised) \in Nat /\ Len(executed) \in Nat /\ Len(toServer) \in Nat
  BY Lengths
<1>3. Len(promised) = Len(executed) + Len(toServer)
  BY DEF InStep
<1>4. \A i \in 1 .. Len(executed) : executed[i] = promised[i]
  BY DEF InStep
<1> HIDE DEF S
<1>5. IsPrefix(executed, promised)
  <2> DEFINE e == Len(executed)
             a == SubSeq(executed, 1, e)
             b == SubSeq(promised, 1, e)
  <2>1. e \in Nat /\ e <= Len(promised) /\ (e - 1) + 1 = e
    BY <1>2, <1>3
  <2>2. \A i \in 1 .. e : executed[i] \in S /\ promised[i] \in S
    BY <1>1, <1>4, ElementOfSeq
  <2>3. /\ a \in Seq(S) /\ Len(a) = IF 1 <= e THEN e - 1 + 1 ELSE 0
        /\ \A i \in 1 .. e - 1 + 1 : a[i] = executed[1 + i - 1]
    BY <2>1, <2>2, SubSeqProperties
  <2>4. /\ b \in Seq(S) /\ Len(b) = IF 1 <= e THEN e - 1 + 1 ELSE 0
        /\ \A i \in 1 .. e - 1 + 1 : b[i] = promised[1 + i - 1]
    BY <2>1, <2>2, SubSeqProperties
  <2> HIDE DEF a, b
  <2>5. Len(a) = Len(b) /\ \A i \in 1 .. Len(a) : a[i] = b[i]
    <3>1. Len(a) = e /\ Len(b) = e
      BY <2>1, <2>3, <2>4
    <3>2. \A i \in 1 .. e : i \in 1 .. e - 1 + 1 /\ 1 + i - 1 = i
      BY <2>1
    <3> QED BY <1>4, <2>3, <2>4, <3>1, <3>2
  <2>6. a = b
    BY <2>3, <2>4, <2>5, SeqEqual
  <2> QED BY <2>1, <2>6 DEF IsPrefix, a, b
<1>6. ASSUME toServer = <<>> PROVE executed = promised
  <2>1. Len(toServer) = 0
    BY <1>6
  <2>2. Len(executed) = Len(promised)
    BY <1>2, <1>3, <2>1
  <2> QED BY <1>1, <1>4, <2>2, SeqEqual
<1> QED BY <1>5, <1>6 DEF ExecutesAsPromised

(* The server calls the functions that the client's calls stand for, each  *)
(* once and in order, whatever messages come in between that it refuses    *)
(* and whichever functions throw: the names and arguments of all methods   *)
(* but two are those of the server's table.                                *)
THEOREM CallsReachTheirFunctions ==
  ASSUME Methods \subseteq Faithful, \A msg \in Foreign : Refused(msg)
  PROVE  Spec => []ExecutesAsPromised
<1>1. Init => InStep
  <2>1. Len(<<>>) = 0 /\ 1 .. 0 = {}
    OBVIOUS
  <2> QED BY <2>1 DEF Init, InStep
<1>2. Types /\ InStep /\ Next => InStep'
  <2>1. ASSUME Types, InStep, NEW m \in Methods, Call(m) PROVE InStep'
    <3>1. Sends(m) \in Messages /\ StandsFor(m) \in Promises /\ Stands(Sends(m), StandsFor(m))
      BY SendsWhatItStandsFor DEF Messages, Promises
    <3> QED BY <2>1, <3>1, CallKeepsStep DEF Call, Send
  <2>2. ASSUME Types, InStep, NEW msg \in Foreign, CallForeign(msg) PROVE InStep'
    <3>1. msg \in Messages /\ "none" \in Promises /\ Stands(msg, "none")
      BY DEF Messages, Promises, Stands
    <3> QED BY <2>2, <3>1, CallKeepsStep DEF CallForeign, Send
  <2>3. InStep /\ Deliver => InStep'
    BY DEF Deliver, InStep
  <2> QED BY <2>1, <2>2, <2>3, ServeKeepsStep DEF Next
<1>3. InStep /\ UNCHANGED vars => InStep'
  BY DEF vars, InStep
<1>4. IInv => Types
  BY DEF IInv
<1>5. Types /\ InStep => ExecutesAsPromised
  BY StepIsPromised
<1> QED BY <1>1, <1>2, <1>3, <1>4, <1>5, InvAlways, PTL DEF Spec
==============================================================================
