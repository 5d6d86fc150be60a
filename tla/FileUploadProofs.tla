-------------------------- MODULE FileUploadProofs ---------------------------
(***************************************************************************)
(* For all clients, files and bounds: what the control has loaded is one   *)
(* client's whole file, as ControlFile promises, unless its upload began   *)
(* on a server that has ended.                                             *)
(***************************************************************************)
EXTENDS FileUpload, SequenceTheorems, TLAPS

-----------------------------------------------------------------------------
Request == [method : Methods, file : 0 .. MaxUploads, block : Nat]
Written == [client : Clients, block : Nat]

ClientTypes ==
  /\ phase \in [Clients -> Methods \cup {"idle"}] /\ asked \in [Clients -> BOOLEAN]
  /\ path \in [Clients -> 0 .. MaxUploads] /\ block \in [Clients -> Nat]
  /\ requests \in [Clients -> Seq(Request)]

UploadTypes ==
  /\ stream \in {"null", "open", "closed"}
  /\ curBlock \in Nat
  /\ content \in Seq(Seq(Written)) /\ Len(content) <= MaxUploads
  /\ curFile \in 0 .. Len(content)
  /\ files \subseteq 1 .. Len(content) /\ cut \subseteq 1 .. Len(content)

ControlTypes ==
  loaded \in 0 .. Len(content) /\ running \in BOOLEAN /\ loader \in Clients

ServerTypes == restarts \in 0 .. MaxRestarts /\ earlier \in 0 .. Len(content)

(* The answer that the client waits for is that to the newest of its       *)
(* requests, if the server has any of them.                                *)
AwaitInv ==
  \A c \in Clients :
    /\ phase[c] = "idle" => path[c] = 0 /\ block[c] = 0
    /\ asked[c] /\ requests[c] # <<>> => requests[c][Len(requests[c])] = Due(c)

(* A name that somebody knows is that of a file that has been made.        *)
Known == \A c \in Clients : \A r \in Calls(c) : r.file <= Len(content)

(* An open file is of this server and has the blocks that are counted, and *)
(* nobody has loaded it.                                                   *)
OpenInv ==
  stream = "open" =>
    curFile > earlier /\ Len(content[curFile]) = curBlock /\ loaded # curFile

(* A client that sends blocks of a file of this server that still exists   *)
(* sends them to this file, and those it has sent are there, in front.     *)
Sent(c) ==
  phase[c] = "SendData" /\ path[c] \in files /\ path[c] > earlier =>
    /\ path[c] = curFile
    /\ stream = "open" =>
         /\ block[c] <= curBlock
         /\ \A i \in 1 .. block[c] : content[curFile][i] = [client |-> c, block |-> i - 1]

(* A file of this server that is about to be loaded is finished, or exists *)
(* no more.                                                                *)
Ready(c, r) ==
  r.method = "LoadFile" /\ r.file \in files /\ r.file > earlier =>
    r.file = curFile /\ stream # "open" /\ content[r.file] = WholeFile(c)

UploadInv == \A c \in Clients : Sent(c) /\ \A r \in Calls(c) : Ready(c, r)

LoadedInv == loaded > earlier => content[loaded] = WholeFile(loader)

IInv ==
  /\ ClientTypes /\ UploadTypes /\ ControlTypes /\ ServerTypes
  /\ AwaitInv /\ Known /\ OpenInv /\ UploadInv /\ LoadedInv

-----------------------------------------------------------------------------
USE DEF Last

(* Blocks of files, and names of files, are counted from 1.                *)
LEMMA InvInit ==
  ASSUME Init
  PROVE  IInv
<1> USE DEF Init
<1>1. ClientTypes
  <2>1. <<>> \in Seq(Request)
    OBVIOUS
  <2> QED BY <2>1, BoundsAssumption DEF ClientTypes
<1>2. UploadTypes /\ ControlTypes /\ ServerTypes
  <2>1. <<>> \in Seq(Seq(Written)) /\ Len(<<>>) = 0
    OBVIOUS
  <2>2. UploadTypes
    BY <2>1, BoundsAssumption DEF UploadTypes
  <2>3. 0 \in 0 .. MaxRestarts /\ 0 \in 0 .. Len(content)
    BY <2>1, BoundsAssumption
  <2>4. ControlTypes /\ ServerTypes
    BY <2>3 DEF ControlTypes, ServerTypes
  <2> QED BY <2>2, <2>4
<1>3. AwaitInv /\ OpenInv /\ LoadedInv
  BY DEF AwaitInv, OpenInv, LoadedInv
<1>4. \A c \in Clients : Calls(c) = {[method |-> "idle", file |-> 0, block |-> 0]}
  <2>1. \A c \in Clients : requests[c] = <<>> /\ Due(c) = [method |-> "idle", file |-> 0, block |-> 0]
    BY DEF Due
  <2>2. 1 .. Len(<<>>) = {}
    OBVIOUS
  <2> QED BY <2>1, <2>2 DEF Calls, Queued
<1>5. Known /\ UploadInv
  BY <1>4 DEF Known, UploadInv, Sent, Ready
<1> QED BY <1>1, <1>2, <1>3, <1>5 DEF IInv

-----------------------------------------------------------------------------
(* The clients' part of a step.                                            *)
Same(d) ==
  phase'[d] = phase[d] /\ path'[d] = path[d] /\ block'[d] = block[d]

Gone(d) == phase'[d] = "idle" /\ path'[d] = 0

(* No call is new: each client goes on with the one it had, or has given   *)
(* up.                                                                     *)
NothingNew ==
  /\ ClientTypes' /\ AwaitInv'
  /\ \A d \in Clients : Queued(d)' \subseteq Calls(d) /\ (Same(d) \/ Gone(d))

(* One client comes to its next call.                                      *)
OneNew(c, method, b, file) ==
  /\ ClientTypes' /\ AwaitInv'
  /\ Queued(c)' \subseteq Queued(c)
  /\ phase'[c] = method /\ path'[c] = file /\ block'[c] = b
  /\ \A d \in Clients \ {c} : Queued(d)' = Queued(d) /\ Same(d)

(* What the clients' calls are then.                                       *)
LEMMA NoCallIsNew ==
  ASSUME NothingNew, NEW d \in Clients, NEW r \in Calls(d)'
  PROVE  r \in Calls(d) \/ (r.method = "idle" /\ r.file = 0)
BY DEF NothingNew, Calls, Due, Same, Gone

(* One of them may be new.                                                 *)
LEMMA OneCallIsNew ==
  ASSUME NEW c \in Clients, NEW method, NEW b, NEW file, OneNew(c, method, b, file),
         NEW d \in Clients, NEW r \in Calls(d)'
  PROVE  r \in Calls(d) \/ (d = c /\ r = [method |-> method, file |-> file, block |-> b])
BY DEF OneNew, Calls, Due, Same

(* The rest of a queue is a part of it, with the same end.                 *)
LEMMA TailIsPart ==
  ASSUME NEW s \in Seq(Request), s # <<>>
  PROVE  /\ Tail(s) \in Seq(Request)
         /\ \A i \in 1 .. Len(Tail(s)) : \E j \in 1 .. Len(s) : Tail(s)[i] = s[j]
         /\ Len(s) # 1 => Tail(s) # <<>> /\ Tail(s)[Len(Tail(s))] = s[Len(s)]
         /\ Head(s) = s[1] /\ Head(s) \in Request /\ 1 \in 1 .. Len(s)
<1>1. Len(s) \in Nat /\ Len(s) >= 1 /\ Len(Tail(s)) = Len(s) - 1
  OBVIOUS
<1>2. \A i \in 1 .. Len(Tail(s)) : i + 1 \in 1 .. Len(s) /\ Tail(s)[i] = s[i + 1]
  BY <1>1
<1>3. Tail(s) \in Seq(Request) /\ Head(s) = s[1] /\ s[1] \in Request
  BY <1>1
<1>4. ASSUME Len(s) # 1
      PROVE  Tail(s) # <<>> /\ Tail(s)[Len(Tail(s))] = s[Len(s)]
  <2>1. Len(Tail(s)) \in 1 .. Len(Tail(s)) /\ Len(Tail(s)) + 1 = Len(s)
    BY <1>1, <1>4
  <2>2. Tail(s)[Len(Tail(s))] = s[Len(Tail(s)) + 1]
    BY <1>2, <2>1
  <2>3. Tail(s) # <<>>
    BY <1>1, <1>4
  <2> QED BY <2>1, <2>2, <2>3
<1> QED BY <1>1, <1>2, <1>3, <1>4

(* The request that is served is one of the client's.                      *)
LEMMA ServedIsQueued ==
  ASSUME ClientTypes, NEW c \in Clients, requests[c] # <<>>
  PROVE  Head(requests[c]) \in Queued(c) /\ Head(requests[c]) \in Request
<1>1. requests[c] \in Seq(Request)
  BY DEF ClientTypes
<1> QED BY <1>1, TailIsPart DEF Queued

(* Serving takes the oldest request from a client's queue; if it has more, *)
(* the newest is still the newest.                                         *)
LEMMA ServedIsTaken ==
  ASSUME ClientTypes, NEW c \in Clients, requests[c] # <<>>,
         requests' = [requests EXCEPT ![c] = Tail(@)]
  PROVE  /\ requests' \in [Clients -> Seq(Request)]
         /\ Queued(c)' \subseteq Queued(c)
         /\ \A d \in Clients \ {c} : requests'[d] = requests[d] /\ Queued(d)' = Queued(d)
         /\ Len(requests[c]) = 1 => requests'[c] = <<>>
         /\ Len(requests[c]) # 1 =>
              requests'[c][Len(requests'[c])] = requests[c][Len(requests[c])]
<1> DEFINE rest == Tail(requests[c])
<1>1. requests[c] \in Seq(Request)
  BY DEF ClientTypes
<1>2. requests'[c] = rest /\ \A d \in Clients \ {c} : requests'[d] = requests[d]
  BY DEF ClientTypes
<1>3. Queued(c)' \subseteq Queued(c)
  <2>1. Queued(c)' = {rest[i] : i \in 1 .. Len(rest)}
    BY <1>2 DEF Queued
  <2>2. SUFFICES ASSUME NEW i \in 1 .. Len(rest)
                 PROVE  rest[i] \in Queued(c)
    BY <2>1
  <2>3. PICK j \in 1 .. Len(requests[c]) : rest[i] = requests[c][j]
    BY <1>1, TailIsPart
  <2> QED BY <2>3 DEF Queued
<1>4. \A d \in Clients \ {c} : Queued(d)' = Queued(d)
  BY <1>2 DEF Queued
<1>5. requests' \in [Clients -> Seq(Request)]
  BY <1>1, TailIsPart DEF ClientTypes
<1>6. Len(requests[c]) = 1 => rest = <<>>
  <2>1. rest \in Seq(Request) /\ (Len(requests[c]) = 1 => Len(rest) = 0)
    BY <1>1
  <2> QED BY <2>1, EmptySeq
<1> QED BY <1>1, <1>2, <1>3, <1>4, <1>5, <1>6, TailIsPart

(* An answer that ends LoadFile() or is dropped leads to no new call.      *)
LEMMA EndIsNothingNew ==
  ASSUME ClientTypes, AwaitInv, NEW c \in Clients, requests[c] # <<>>,
         Finish(c) \/ (Dropped(c) /\ ~Awaits(c))
  PROVE  NothingNew
<1>1. requests' = [requests EXCEPT ![c] = Tail(@)]
  BY DEF Finish, Dropped
<1>2. CASE Finish(c)
  <2>1. Gone(c) /\ block'[c] = 0 /\ ~asked'[c]
    BY <1>2 DEF Finish, Returns, Gone, ClientTypes
  <2>2. \A d \in Clients \ {c} : Same(d) /\ asked'[d] = asked[d]
    BY <1>2 DEF Finish, Returns, Same, ClientTypes
  <2>3. ClientTypes'
    BY <1>1, <1>2, ServedIsTaken, BoundsAssumption DEF Finish, Returns, ClientTypes
  <2>4. AwaitInv'
    BY <1>1, <2>1, <2>2, ServedIsTaken DEF AwaitInv, Gone, Same, Due
  <2> QED BY <1>1, <2>1, <2>2, <2>3, <2>4, ServedIsTaken DEF NothingNew, Calls
<1>3. CASE Dropped(c) /\ ~Awaits(c)
  <2>1. \A d \in Clients : Same(d) /\ asked'[d] = asked[d]
    BY <1>3 DEF Dropped, clientVars, Same
  <2>2. ClientTypes'
    BY <1>1, <1>3, ServedIsTaken DEF Dropped, clientVars, ClientTypes
  <2>3. AwaitInv'
    <3>1. asked[c] => Len(requests[c]) # 1
      BY <1>3 DEF Awaits
    <3> QED BY <1>1, <2>1, <3>1, ServedIsTaken DEF AwaitInv, Same, Due
  <2> QED BY <1>1, <2>1, <2>2, <2>3, ServedIsTaken DEF NothingNew, Calls
<1> QED BY <1>2, <1>3

(* An answer after which LoadFile() goes on leads to its next call.        *)
LEMMA GoOnIsNew ==
  ASSUME ClientTypes, AwaitInv, NEW c \in Clients, requests[c] # <<>>,
         NEW method \in Methods, NEW b \in Nat, NEW file \in 0 .. MaxUploads,
         GoOn(c, method, b, file)
  PROVE  OneNew(c, method, b, file)
<1>1. requests' = [requests EXCEPT ![c] = Tail(@)]
  BY DEF GoOn
<1>2. phase'[c] = method /\ path'[c] = file /\ block'[c] = b /\ ~asked'[c]
  BY DEF GoOn, ClientTypes
<1>3. \A d \in Clients \ {c} : Same(d) /\ asked'[d] = asked[d]
  BY DEF GoOn, ClientTypes, Same
<1>4. ClientTypes'
  BY <1>1, ServedIsTaken DEF GoOn, ClientTypes
<1>5. AwaitInv'
  <2>1. method # "idle"
    BY DEF Methods
  <2> QED BY <1>1, <1>2, <1>3, <2>1, ServedIsTaken DEF AwaitInv, Same, Due
<1> QED BY <1>1, <1>2, <1>3, <1>4, <1>5, ServedIsTaken DEF OneNew

(* What is served is what the client awaits, if it awaits the only one.    *)
LEMMA AwaitsTheHead ==
  ASSUME ClientTypes, AwaitInv, NEW c \in Clients, requests[c] # <<>>, Awaits(c)
  PROVE  Head(requests[c]) = [method |-> phase[c], file |-> path[c], block |-> block[c]]
<1>1. requests[c] \in Seq(Request) /\ Len(requests[c]) = 1
  BY DEF ClientTypes, Awaits
<1> QED BY <1>1, TailIsPart DEF AwaitInv, Awaits, Due

(* The answer to SendInit() makes a client ask for the first block.        *)
LEMMA InitAnswered ==
  ASSUME ClientTypes, AwaitInv, NEW c \in Clients, requests[c] # <<>>,
         NEW name \in 0 .. MaxUploads, AnswerInit(c, name)
  PROVE  NothingNew \/ (name # 0 /\ OneNew(c, "SendData", 0, name))
<1>1. CASE ~Awaits(c) \/ name = 0
  BY <1>1, EndIsNothingNew DEF AnswerInit
<1>2. CASE Awaits(c) /\ name # 0
  BY <1>2, GoOnIsNew DEF AnswerInit, Methods
<1> QED BY <1>1, <1>2

(* That to SendData() makes it ask for the next, or for the file's loading.*)
LEMMA DataAnswered ==
  ASSUME ClientTypes, AwaitInv, NEW c \in Clients, requests[c] # <<>>,
         NEW ok \in BOOLEAN, AnswerData(c, ok)
  PROVE  \/ NothingNew
         \/ /\ ok /\ Awaits(c)
            /\ \/ block[c] = Last(c) /\ OneNew(c, "LoadFile", block[c], path[c])
               \/ OneNew(c, "SendData", block[c] + 1, path[c])
<1>1. block[c] \in Nat /\ block[c] + 1 \in Nat /\ path[c] \in 0 .. MaxUploads
  BY DEF ClientTypes
<1>2. CASE ~Awaits(c) \/ ~ok
  BY <1>2, EndIsNothingNew DEF AnswerData
<1>3. CASE Awaits(c) /\ ok /\ block[c] = Last(c)
  BY <1>1, <1>3, GoOnIsNew DEF AnswerData, Methods
<1>4. CASE Awaits(c) /\ ok /\ block[c] # Last(c)
  BY <1>1, <1>4, GoOnIsNew DEF AnswerData, Methods
<1> QED BY <1>2, <1>3, <1>4

(* That to LoadFile() or CloseFile() is the last.                          *)
LEMMA LastAnswered ==
  ASSUME ClientTypes, AwaitInv, NEW c \in Clients, requests[c] # <<>>, AnswerLast(c)
  PROVE  NothingNew
BY EndIsNothingNew DEF AnswerLast

-----------------------------------------------------------------------------
(* The server's part of a step: the file stays as it is, or a new one is   *)
(* begun and the last removed, or a block is written.                      *)
Stays ==
  /\ UNCHANGED <<content, curFile, files>>
  /\ stream' = "closed" \/ UNCHANGED <<stream, curBlock>>

Renews ==
  /\ content' = content \/ content' = Append(content, <<>>)
  /\ files' \subseteq (files \ {curFile}) \cup (Len(content) + 1 .. Len(content'))

Writes(w) ==
  /\ stream = "open" /\ curBlock' = curBlock + 1
  /\ content' = [content EXCEPT ![curFile] = Append(@, w)]
  /\ UNCHANGED <<curFile, files>>

(* A new file is empty.                                                    *)
LEMMA NewFileAdds ==
  ASSUME UploadTypes, content' = Append(content, <<>>)
  PROVE  /\ content' \in Seq(Seq(Written)) /\ Len(content') = Len(content) + 1
         /\ content'[Len(content) + 1] = <<>>
         /\ \A f \in 1 .. Len(content) : content'[f] = content[f]
<1>1. <<>> \in Seq(Written) /\ content \in Seq(Seq(Written))
  BY DEF UploadTypes
<1> HIDE DEF UploadTypes
<1> QED BY <1>1

(* A block is added to the open file only.                                 *)
LEMMA BlockAdds ==
  ASSUME UploadTypes, curFile # 0, NEW w \in Written,
         content' = [content EXCEPT ![curFile] = Append(@, w)]
  PROVE  /\ content' \in Seq(Seq(Written)) /\ Len(content') = Len(content)
         /\ \A f \in 1 .. Len(content) : f # curFile => content'[f] = content[f]
         /\ content'[curFile] = Append(content[curFile], w)
         /\ content'[curFile] \in Seq(Written)
         /\ content[curFile] \in Seq(Written)
         /\ Len(content'[curFile]) = Len(content[curFile]) + 1
         /\ content'[curFile][Len(content[curFile]) + 1] = w
         /\ \A i \in 1 .. Len(content[curFile]) : content'[curFile][i] = content[curFile][i]
<1>1. curFile \in 1 .. Len(content) /\ content \in Seq(Seq(Written))
  BY DEF UploadTypes
<1>2. content[curFile] \in Seq(Written)
  BY <1>1
<1> DEFINE now == Append(content[curFile], w)
<1>3. /\ now \in Seq(Written) /\ Len(now) = Len(content[curFile]) + 1
      /\ now[Len(content[curFile]) + 1] = w
      /\ \A i \in 1 .. Len(content[curFile]) : now[i] = content[curFile][i]
  BY <1>2
<1>4. content' = [content EXCEPT ![curFile] = now]
  OBVIOUS
<1> HIDE DEF now
<1>5. /\ content' \in Seq(Seq(Written)) /\ Len(content') = Len(content)
      /\ content'[curFile] = now
      /\ \A f \in 1 .. Len(content) : f # curFile => content'[f] = content[f]
  BY <1>1, <1>3, <1>4
<1> QED BY <1>2, <1>3, <1>5 DEF now

(* Nothing of this makes a file ready that is not, or unready one that is. *)
LEMMA ReadyStays ==
  ASSUME UploadTypes, NEW c \in Clients, NEW r, r.file \in Nat, r.file <= Len(content),
         Ready(c, r), UNCHANGED earlier,
         Stays \/ Renews \/ \E w \in Written : Writes(w)
  PROVE  Ready(c, r)'
<1>1. CASE Stays
  BY <1>1 DEF Stays, Ready
<1>2. CASE Renews
  BY <1>2, NewFileAdds DEF Renews, Ready, UploadTypes
<1>3. CASE \E w \in Written : Writes(w)
  BY <1>3 DEF Writes, Ready
<1> QED BY <1>1, <1>2, <1>3

(* Nor does it take from the blocks that a client has sent.                *)
LEMMA SentStays ==
  ASSUME UploadTypes, OpenInv, NEW c \in Clients, path[c] \in Nat, path[c] <= Len(content),
         block[c] \in Nat, Sent(c), Same(c) \/ Gone(c), UNCHANGED earlier, earlier \in Nat,
         Stays \/ Renews \/ \E w \in Written : Writes(w)
  PROVE  Sent(c)'
<1>1. CASE Gone(c)
  BY <1>1 DEF Gone, Sent
<1>2. CASE Same(c) /\ Stays
  BY <1>2 DEF Same, Stays, Sent
<1>3. CASE Same(c) /\ Renews
  <2>1. path[c] \in files' => path[c] \in files /\ path[c] # curFile
    BY <1>3, NewFileAdds DEF Renews, UploadTypes
  <2> QED BY <1>3, <2>1 DEF Same, Sent
<1>4. ASSUME Same(c), NEW w \in Written, Writes(w) PROVE Sent(c)'
  <2>1. curFile # 0 /\ Len(content[curFile]) = curBlock /\ curBlock \in Nat
    BY <1>4 DEF Writes, OpenInv, UploadTypes
  <2>2. \A i \in 1 .. curBlock : content'[curFile][i] = content[curFile][i]
    BY <1>4, <2>1, BlockAdds DEF Writes
  <2>3. curBlock' = curBlock + 1 /\ UNCHANGED <<curFile, files>> /\ stream = "open"
    BY <1>4 DEF Writes
  <2>4. SUFFICES ASSUME phase[c] = "SendData", path[c] \in files, path[c] > earlier
                 PROVE  /\ path[c] = curFile
                        /\ block[c] <= curBlock + 1
                        /\ \A i \in 1 .. block[c] :
                             content'[curFile][i] = [client |-> c, block |-> i - 1]
    BY <1>4, <2>3 DEF Same, Sent
  <2>5. /\ path[c] = curFile /\ block[c] <= curBlock
        /\ \A i \in 1 .. block[c] : content[curFile][i] = [client |-> c, block |-> i - 1]
    BY <2>3, <2>4 DEF Sent
  <2> QED BY <2>1, <2>2, <2>5
<1> QED BY <1>1, <1>2, <1>3, <1>4

(* What is known of the clients' calls.                                    *)
LEMMA KnownIs ==
  ASSUME ClientTypes, Known, NEW d \in Clients
  PROVE  /\ path[d] \in Nat /\ path[d] <= Len(content) /\ block[d] \in Nat
         /\ \A r \in Calls(d) : r.file \in Nat /\ r.file <= Len(content)
<1>1. path[d] \in Nat /\ block[d] \in Nat /\ \A r \in Queued(d) : r.file \in Nat
  <2>1. \A r \in Queued(d) : r \in Request
    BY DEF ClientTypes, Queued
  <2> QED BY <2>1 DEF ClientTypes, Request
<1>2. Due(d).file = path[d] /\ Due(d) \in Calls(d)
  BY DEF Due, Calls
<1> QED BY <1>1, <1>2 DEF Known, Calls

(* So the uploads are as they should be after a step without a new call.   *)
LEMMA NothingNewKeeps ==
  ASSUME ClientTypes, UploadTypes, OpenInv, Known, UploadInv, NothingNew,
         UNCHANGED earlier, earlier \in Nat,
         Stays \/ Renews \/ \E w \in Written : Writes(w),
         Len(content') \in Nat, Len(content') >= Len(content)
  PROVE  Known' /\ UploadInv'
<1>1. Len(content) \in Nat
  BY DEF UploadTypes
<1>2. Known'
  BY <1>1, KnownIs, NoCallIsNew DEF Known
<1>3. \A d \in Clients : Sent(d)'
  BY KnownIs, SentStays DEF UploadInv, NothingNew
<1>4. ASSUME NEW d \in Clients, NEW r \in Calls(d)' PROVE Ready(d, r)'
  <2>1. CASE r \in Calls(d)
    BY <2>1, KnownIs, ReadyStays DEF UploadInv
  <2>2. CASE r.method = "idle"
    BY <2>2 DEF Ready
  <2> QED BY <2>1, <2>2, NoCallIsNew
<1> QED BY <1>2, <1>3, <1>4 DEF UploadInv

(* So are they when a client comes to a call for a file that is there.     *)
LEMMA OneNewKeeps ==
  ASSUME ClientTypes, UploadTypes, OpenInv, Known, UploadInv,
         NEW c \in Clients, NEW method, NEW b, NEW file \in Nat,
         OneNew(c, method, b, file),
         UNCHANGED earlier, earlier \in Nat,
         Stays \/ Renews \/ \E w \in Written : Writes(w),
         Len(content') \in Nat, Len(content') >= Len(content), file <= Len(content'),
         Sent(c)', Ready(c, [method |-> method, file |-> file, block |-> b])'
  PROVE  Known' /\ UploadInv'
<1>1. Len(content) \in Nat
  BY DEF UploadTypes
<1>2. Known'
  BY <1>1, KnownIs, OneCallIsNew DEF Known
<1>3. \A d \in Clients : Sent(d)'
  BY KnownIs, SentStays DEF UploadInv, OneNew
<1>4. ASSUME NEW d \in Clients, NEW r \in Calls(d)' PROVE Ready(d, r)'
  <2>1. CASE r \in Calls(d)
    BY <2>1, KnownIs, ReadyStays DEF UploadInv
  <2>2. CASE d = c /\ r = [method |-> method, file |-> file, block |-> b]
    BY <2>2
  <2> QED BY <2>1, <2>2, OneCallIsNew
<1> QED BY <1>2, <1>3, <1>4 DEF UploadInv

-----------------------------------------------------------------------------
(* The invariant after a step in which no call is new and no block is      *)
(* written: a call that times out, a refusal, a failure.                   *)
LEMMA RefusalKeeps ==
  ASSUME IInv, NothingNew, Stays, curBlock' \in Nat,
         stream' \in {"null", "open", "closed"}, UNCHANGED <<cut, controlVars, serverVars>>
  PROVE  IInv'
<1> USE DEF IInv
<1>1. UploadTypes' /\ ControlTypes' /\ ServerTypes' /\ UNCHANGED earlier
  BY DEF Stays, UploadTypes, ControlTypes, ServerTypes, controlVars, serverVars
<1>2. Len(content') = Len(content) /\ Len(content) \in Nat /\ earlier \in Nat
  BY DEF Stays, UploadTypes, ServerTypes
<1>3. Known' /\ UploadInv'
  BY <1>1, <1>2, NothingNewKeeps
<1>4. OpenInv' /\ LoadedInv'
  BY <1>1 DEF Stays, OpenInv, LoadedInv, controlVars
<1> QED BY <1>1, <1>3, <1>4 DEF NothingNew

(* A request is appended to a client's.                                    *)
LEMMA RequestAdds ==
  ASSUME ClientTypes, NEW c \in Clients, NEW r \in Request,
         requests' = [requests EXCEPT ![c] = Append(@, r)]
  PROVE  /\ requests' \in [Clients -> Seq(Request)]
         /\ requests'[c][Len(requests'[c])] = r
         /\ Queued(c)' \subseteq Queued(c) \cup {r}
         /\ \A d \in Clients \ {c} : requests'[d] = requests[d] /\ Queued(d)' = Queued(d)
<1>1. requests[c] \in Seq(Request)
  BY DEF ClientTypes
<1> DEFINE more == Append(requests[c], r)
<1>2. /\ more \in Seq(Request) /\ more[Len(more)] = r
      /\ \A i \in 1 .. Len(more) :
           more[i] = r \/ (i \in 1 .. Len(requests[c]) /\ more[i] = requests[c][i])
  BY <1>1
<1>3. requests'[c] = more /\ \A d \in Clients \ {c} : requests'[d] = requests[d]
  BY DEF ClientTypes
<1>4. requests' \in [Clients -> Seq(Request)]
  BY <1>2 DEF ClientTypes
<1> HIDE DEF more
<1>5. Queued(c)' \subseteq Queued(c) \cup {r}
  BY <1>2, <1>3 DEF Queued
<1>6. \A d \in Clients \ {c} : Queued(d)' = Queued(d)
  BY <1>3 DEF Queued
<1> QED BY <1>2, <1>3, <1>4, <1>5, <1>6

(* The user's calls name no file.                                          *)
LEMMA CallBegins ==
  ASSUME IInv, NEW c \in Clients, NEW method \in {"SendInit", "CloseFile"}, Call(c, method)
  PROVE  /\ ClientTypes' /\ AwaitInv' /\ phase'[c] = method
         /\ \A d \in Clients \ {c} : Due(d)' = Due(d)
         /\ \A d \in Clients : \A q \in Calls(d)' :
              q \in Calls(d) \/ (q.file = 0 /\ q.method # "LoadFile")
<1> USE DEF IInv
<1> DEFINE r == [method |-> method, file |-> 0, block |-> 0]
<1>1. r \in Request /\ path[c] = 0 /\ block[c] = 0
  BY BoundsAssumption DEF Request, Methods, AwaitInv, Call, MayCall
<1>2. /\ requests' = [requests EXCEPT ![c] = Append(@, r)]
      /\ phase' = [phase EXCEPT ![c] = method]
      /\ asked' = [asked EXCEPT ![c] = TRUE]
      /\ UNCHANGED <<path, block, uploadVars, controlVars, serverVars>>
  BY DEF Call
<1>3. /\ requests' \in [Clients -> Seq(Request)]
      /\ requests'[c][Len(requests'[c])] = r
      /\ Queued(c)' \subseteq Queued(c) \cup {r}
      /\ \A d \in Clients \ {c} : requests'[d] = requests[d] /\ Queued(d)' = Queued(d)
  BY <1>1, <1>2, RequestAdds
<1>4. ClientTypes'
  BY <1>2, <1>3 DEF ClientTypes, Methods
<1>5. Due(c)' = r /\ phase'[c] = method
  BY <1>1, <1>2 DEF ClientTypes, Due
<1>6. \A d \in Clients \ {c} : phase'[d] = phase[d] /\ asked'[d] = asked[d] /\ Due(d)' = Due(d)
  BY <1>2 DEF ClientTypes, Due
<1>7. AwaitInv'
  BY <1>1, <1>2, <1>3, <1>5, <1>6 DEF AwaitInv
<1>8. \A d \in Clients : \A q \in Calls(d)' :
        q \in Calls(d) \/ (q.file = 0 /\ q.method # "LoadFile")
  BY <1>3, <1>5, <1>6 DEF Calls
<1> QED BY <1>4, <1>5, <1>6, <1>7, <1>8

(* So they leave the invariant as it is.                                   *)
LEMMA CallKeeps ==
  ASSUME IInv, NEW c \in Clients, NEW method \in {"SendInit", "CloseFile"}, Call(c, method)
  PROVE  IInv'
<1> USE DEF IInv
<1>1. /\ UNCHANGED <<stream, curBlock, curFile, content, files, cut, loaded, running, loader>>
      /\ UNCHANGED <<path, block, restarts, earlier>>
  BY DEF Call, uploadVars, controlVars, serverVars
<1>2. UploadTypes' /\ ControlTypes' /\ ServerTypes' /\ OpenInv' /\ LoadedInv'
  BY <1>1 DEF UploadTypes, ControlTypes, ServerTypes, OpenInv, LoadedInv
<1>3. Known'
  BY <1>1, CallBegins DEF Known, UploadTypes
<1>4. \A d \in Clients : Sent(d)'
  <2>1. \A d \in Clients \ {c} : phase'[d] = phase[d]
    BY CallBegins DEF Due
  <2> QED BY <1>1, <2>1, CallBegins DEF UploadInv, Sent
<1>5. \A d \in Clients : \A q \in Calls(d)' : Ready(d, q)'
  BY <1>1, CallBegins DEF UploadInv, Ready
<1> QED BY <1>2, <1>3, <1>4, <1>5, CallBegins DEF UploadInv

(* A step of the network or of LoadFile() itself that comes to no new call.*)
LEMMA ClientKeeps ==
  ASSUME IInv, NothingNew, UNCHANGED <<uploadVars, controlVars, serverVars>>
  PROVE  IInv'
<1>1. Stays /\ curBlock' \in Nat /\ stream' \in {"null", "open", "closed"} /\ UNCHANGED cut
  BY DEF Stays, uploadVars, IInv, UploadTypes
<1> QED BY <1>1, RefusalKeeps

(* The next call, as LoadFile() had it in mind.                            *)
LEMMA NextCallIsNothingNew ==
  ASSUME IInv, NEW c \in Clients, NextCall(c)
  PROVE  NothingNew
<1> USE DEF IInv
<1>1. Due(c) \in Request
  BY DEF NextCall, Due, Request, ClientTypes
<1>2. /\ requests' = [requests EXCEPT ![c] = Append(@, Due(c))]
      /\ asked' = [asked EXCEPT ![c] = TRUE] /\ UNCHANGED <<phase, path, block>>
  BY DEF NextCall
<1>3. ClientTypes'
  BY <1>1, <1>2, RequestAdds DEF ClientTypes
<1>4. \A d \in Clients : Same(d) /\ Due(d)' = Due(d)
  BY <1>2 DEF Same, Due
<1>5. \A d \in Clients \ {c} : asked'[d] = asked[d]
  BY <1>2 DEF ClientTypes
<1>6. AwaitInv'
  <2>1. /\ requests'[c][Len(requests'[c])] = Due(c)
        /\ \A d \in Clients \ {c} : requests'[d] = requests[d]
    BY <1>1, <1>2, RequestAdds
  <2> QED BY <1>4, <1>5, <2>1 DEF AwaitInv, Same
<1> QED BY <1>1, <1>2, <1>3, <1>4, <1>6, RequestAdds DEF NothingNew, Calls

(* A call that times out.                                                  *)
LEMMA TimeOutIsNothingNew ==
  ASSUME IInv, NEW c \in Clients, CallTimesOut(c)
  PROVE  NothingNew
<1> USE DEF IInv
<1>1. ClientTypes'
  BY BoundsAssumption DEF CallTimesOut, Returns, ClientTypes
<1>2. Gone(c) /\ block'[c] = 0 /\ ~asked'[c]
  BY DEF CallTimesOut, Returns, Gone, ClientTypes
<1>3. requests' = requests /\ \A d \in Clients \ {c} : Same(d) /\ asked'[d] = asked[d]
  BY DEF CallTimesOut, Returns, Same, ClientTypes
<1>4. AwaitInv'
  BY <1>2, <1>3 DEF AwaitInv, Gone, Same, Due
<1> QED BY <1>1, <1>2, <1>3, <1>4 DEF NothingNew, Queued, Calls

(* Requests that are lost.                                                 *)
LEMMA LostIsNothingNew ==
  ASSUME ClientTypes, AwaitInv, NEW C \in SUBSET Clients, UNCHANGED clientVars,
         requests' = [d \in Clients |-> IF d \in C THEN <<>> ELSE requests[d]]
  PROVE  NothingNew
<1>1. <<>> \in Seq(Request) /\ 1 .. Len(<<>>) = {}
  OBVIOUS
<1>2. \A d \in Clients : Same(d) /\ Due(d)' = Due(d) /\ asked'[d] = asked[d]
  BY DEF clientVars, Same, Due
<1>3. ClientTypes'
  BY <1>1 DEF clientVars, ClientTypes
<1>4. AwaitInv'
  BY <1>2 DEF AwaitInv, Same
<1>5. ASSUME NEW d \in Clients PROVE Queued(d)' \subseteq Queued(d)
  <2>1. CASE d \in C
    BY <1>1, <2>1 DEF Queued
  <2>2. CASE d \notin C
    BY <2>2 DEF Queued
  <2> QED BY <2>1, <2>2
<1> QED BY <1>2, <1>3, <1>4, <1>5 DEF NothingNew, Calls

(* A connection that is lost.                                              *)
LEMMA DisconnectIsNothingNew ==
  ASSUME IInv, NEW c \in Clients, Disconnect(c)
  PROVE  NothingNew
<1>1. requests' = [d \in Clients |-> IF d \in {c} THEN <<>> ELSE requests[d]]
  BY DEF Disconnect, IInv, ClientTypes
<1> QED BY <1>1, LostIsNothingNew DEF Disconnect, IInv

(* SendInit(): a file that has just been made is nobody's yet.             *)
LEMMA SendInitKeeps ==
  ASSUME IInv, NEW c \in Clients, SendInit(c)
  PROVE  IInv'
<1> USE DEF IInv
<1>1. requests[c] # <<>> /\ Len(content) < MaxUploads /\ Len(content) \in Nat
  BY DEF SendInit, Serves, UploadTypes
<1>2. NewFile = Len(content) + 1 /\ NewFile \in 0 .. MaxUploads /\ NewFile # 0
  BY <1>1, BoundsAssumption DEF NewFile
<1>3. content' = content \/ content' = Append(content, <<>>)
  BY DEF SendInit
<1>4. /\ content' \in Seq(Seq(Written)) /\ Len(content') \in Nat
      /\ Len(content') >= Len(content) /\ Len(content') <= MaxUploads
      /\ \A f \in 1 .. Len(content) : content'[f] = content[f]
  <2>1. CASE content' = content
    BY <1>1, <2>1 DEF UploadTypes
  <2>2. CASE content' = Append(content, <<>>)
    BY <1>1, <2>2, NewFileAdds, BoundsAssumption
  <2> QED BY <1>3, <2>1, <2>2
<1>5. /\ loaded' \in {0, loaded} /\ loaded \in 0 .. Len(content)
      /\ UNCHANGED <<running, loader, cut, restarts, earlier>> /\ curBlock' = 0
      /\ earlier \in Nat /\ earlier <= Len(content)
  BY <1>1 DEF SendInit, CloseFile, ControlTypes, ServerTypes, serverVars
<1>6. Renews
  <2>1. CASE content' = content
    <3>1. content # Append(content, <<>>)
      BY <1>1, <2>1, NewFileAdds
    <3>2. files' = files \ {curFile}
      BY <2>1, <3>1 DEF SendInit, DeleteTemp
    <3> QED BY <2>1, <3>2 DEF Renews
  <2>2. CASE content' = Append(content, <<>>)
    <3>1. NewFile \in Len(content) + 1 .. Len(content')
      BY <1>1, <1>2, <2>2, NewFileAdds
    <3>2. files' \subseteq (files \ {curFile}) \cup {NewFile}
      BY DEF SendInit, DeleteTemp
    <3> QED BY <2>2, <3>1, <3>2 DEF Renews
  <2> QED BY <1>3, <2>1, <2>2
<1>7. ControlTypes' /\ LoadedInv' /\ ServerTypes'
  BY <1>1, <1>4, <1>5 DEF ControlTypes, LoadedInv, ServerTypes
<1>8. CASE /\ stream' = "open" /\ curFile' = NewFile /\ content' = Append(content, <<>>)
           /\ files' = (files \ {curFile}) \cup {NewFile} /\ AnswerInit(c, NewFile)
  <2>1. Len(content') = NewFile /\ content'[NewFile] = <<>>
    BY <1>2, <1>8, NewFileAdds
  <2>2. UploadTypes'
    <3>1. files \subseteq 1 .. Len(content) /\ cut \subseteq 1 .. Len(content)
      BY DEF UploadTypes
    <3>2. files' \subseteq 1 .. Len(content') /\ cut' \subseteq 1 .. Len(content')
      <4>1. Len(content') = Len(content) + 1 /\ NewFile \in 1 .. Len(content')
        BY <1>1, <1>2, <2>1
      <4>2. files' \subseteq files \cup {NewFile} /\ cut' = cut
        BY <1>5, <1>8
      <4> QED BY <1>1, <3>1, <4>1, <4>2
    <3>3. curFile' \in 0 .. Len(content') /\ curBlock' \in Nat
      BY <1>1, <1>2, <1>5, <1>8, <2>1
    <3> QED BY <1>4, <1>8, <3>2, <3>3 DEF UploadTypes
  <2>3. OpenInv'
    BY <1>1, <1>2, <1>5, <1>8, <2>1 DEF OpenInv
  <2>4. CASE NothingNew
    <3>1. Known' /\ UploadInv'
      BY <1>4, <1>5, <1>6, <2>4, NothingNewKeeps
    <3>2. ClientTypes' /\ AwaitInv'
      BY <2>4 DEF NothingNew
    <3> QED BY <1>5, <1>7, <2>2, <2>3, <3>1, <3>2
  <2>5. CASE OneNew(c, "SendData", 0, NewFile)
    <3>1. Sent(c)'
      BY <1>5, <1>8, <2>5 DEF Sent, OneNew
    <3>2. PICK new \in Nat : new = NewFile
      BY <1>2
    <3>3. Ready(c, [method |-> "SendData", file |-> new, block |-> 0])'
      BY DEF Ready
    <3>4. Known' /\ UploadInv'
      <4>1. new <= Len(content') /\ OneNew(c, "SendData", 0, new)
        BY <1>1, <1>2, <2>1, <2>5, <3>2
      <4> QED BY <1>4, <1>5, <1>6, <3>1, <3>3, <4>1, OneNewKeeps
    <3> QED BY <1>5, <1>7, <2>2, <2>3, <2>5, <3>4 DEF OneNew
  <2> QED BY <1>1, <1>2, <1>8, <2>4, <2>5, InitAnswered
<1>9. CASE stream' # "open" /\ curFile' = curFile /\ AnswerInit(c, 0)
  <2>1. NothingNew
    BY <1>1, <1>9, InitAnswered, BoundsAssumption
  <2>2. UploadTypes'
    <3>1. stream' \in {"null", "open", "closed"}
      BY DEF SendInit
    <3>2. files' \subseteq 1 .. Len(content')
      BY <1>1, <1>4, <1>6 DEF Renews, UploadTypes
    <3> QED BY <1>1, <1>4, <1>5, <1>9, <3>1, <3>2 DEF UploadTypes
  <2>3. OpenInv'
    BY <1>9 DEF OpenInv
  <2>4. Known' /\ UploadInv'
    BY <1>4, <1>5, <1>6, <2>1, NothingNewKeeps
  <2>5. ClientTypes' /\ AwaitInv'
    BY <2>1 DEF NothingNew
  <2> QED BY <1>5, <1>7, <2>2, <2>3, <2>4, <2>5
<1> QED BY <1>8, <1>9 DEF SendInit

(* SendData() that writes nothing.                                         *)
LEMMA SendDataRefusesKeeps ==
  ASSUME IInv, NEW c \in Clients,
         SendDataNoFile(c) \/ SendDataOutOfSequence(c) \/ SendDataFails(c)
  PROVE  IInv'
<1>1. requests[c] # <<>> /\ AnswerData(c, FALSE)
  BY DEF SendDataNoFile, SendDataOutOfSequence, SendDataFails, Serves
<1>2. NothingNew
  BY <1>1, DataAnswered DEF IInv
<1>3. Stays /\ UNCHANGED <<cut, controlVars, serverVars>>
  BY DEF SendDataNoFile, SendDataOutOfSequence, SendDataFails, Close, Stays, uploadVars
<1>4. stream' \in {"null", "open", "closed"}
  BY DEF SendDataNoFile, SendDataOutOfSequence, SendDataFails, Close, IInv, UploadTypes, uploadVars
<1>5. curBlock' \in Nat
  <2>1. curBlock \in Nat
    BY DEF IInv, UploadTypes
  <2>2. CASE SendDataNoFile(c) \/ SendDataOutOfSequence(c)
    BY <2>1, <2>2 DEF SendDataNoFile, SendDataOutOfSequence, uploadVars
  <2>3. CASE SendDataFails(c)
    <3>1. Head(requests[c]).block \in Nat
      BY <1>1, ServedIsQueued DEF IInv, Request
    <3> QED BY <2>3, <3>1 DEF SendDataFails, NextBlock
  <2> QED BY <2>2, <2>3
<1> QED BY <1>2, <1>3, <1>4, <1>5, RefusalKeeps

(* A sequence is its elements.                                             *)
LEMMA WholeIsWritten ==
  ASSUME NEW c \in Clients, NEW s \in Seq(Written), Len(s) = Blocks[c],
         \A i \in 1 .. Len(s) : s[i] = [client |-> c, block |-> i - 1]
  PROVE  s = WholeFile(c)
<1>1. s \in [1 .. Blocks[c] -> Written]
  BY LenProperties
<1> QED BY <1>1 DEF WholeFile

(* SendData() that writes: the client's blocks are in front, and the last  *)
(* makes them a whole file.                                                *)
LEMMA SendDataWritesKeeps ==
  ASSUME IInv, NEW c \in Clients, SendDataWrites(c)
  PROVE  IInv'
<1> USE DEF IInv
<1>1. PICK b \in Nat : b = Head(requests[c]).block
  BY ServedIsQueued DEF SendDataWrites, Serves, Request
<1> DEFINE w == [client |-> c, block |-> b]
<1>2. /\ requests[c] # <<>> /\ stream = "open" /\ b = curBlock /\ curBlock' = b + 1
      /\ content' = [content EXCEPT ![curFile] = Append(@, w)]
      /\ UNCHANGED <<curFile, files, controlVars, serverVars>>
      /\ stream' = (IF b = Last(c) THEN "closed" ELSE stream)
      /\ cut' = cut \/ cut' = cut \cup {curFile}
      /\ AnswerData(c, TRUE)
  BY <1>1 DEF SendDataWrites, Serves, OutOfSequence, NextBlock, IsShort, Close
<1>3. w \in Written
  BY DEF Written
<1>4. /\ curFile > earlier /\ earlier \in Nat
      /\ curFile # 0 /\ curFile \in 1 .. Len(content) /\ loaded # curFile
      /\ Len(content[curFile]) = b /\ curBlock \in Nat /\ UNCHANGED <<restarts, earlier>>
  BY <1>2 DEF OpenInv, UploadTypes, ServerTypes, serverVars
<1> HIDE DEF w
<1>5. /\ content' \in Seq(Seq(Written)) /\ Len(content') = Len(content)
      /\ \A f \in 1 .. Len(content) : f # curFile => content'[f] = content[f]
      /\ content'[curFile] \in Seq(Written) /\ Len(content'[curFile]) = b + 1
      /\ content'[curFile][b + 1] = w
      /\ \A i \in 1 .. b : content'[curFile][i] = content[curFile][i]
  BY <1>2, <1>3, <1>4, BlockAdds
<1>6. UploadTypes'
  <2>1. cut' \subseteq 1 .. Len(content)
    BY <1>2, <1>4 DEF UploadTypes
  <2>2. stream' \in {"null", "open", "closed"} /\ curBlock' \in Nat
    BY <1>2
  <2> QED BY <1>2, <1>5, <2>1, <2>2 DEF UploadTypes
<1>7. ControlTypes' /\ ServerTypes' /\ OpenInv' /\ LoadedInv'
  BY <1>2, <1>4, <1>5 DEF ControlTypes, ServerTypes, OpenInv, LoadedInv, controlVars
<1>8. Writes(w) /\ Len(content') \in Nat /\ Len(content') >= Len(content)
  BY <1>2, <1>5 DEF Writes, UploadTypes
<1>9. SUFFICES ClientTypes' /\ AwaitInv' /\ Known' /\ UploadInv'
  BY <1>2, <1>6, <1>7
<1>10. CASE NothingNew
  <2>1. Known' /\ UploadInv'
    BY <1>3, <1>4, <1>8, <1>10, NothingNewKeeps
  <2> QED BY <1>10, <2>1 DEF NothingNew
<1>11. ASSUME Awaits(c), NEW method \in {"SendData", "LoadFile"}, NEW next \in Nat,
              OneNew(c, method, next, path[c]),
              method = "SendData" => next = block[c] + 1,
              method = "LoadFile" => block[c] = Last(c)
       PROVE  Known' /\ UploadInv'
  <2>1. PICK file \in Nat : file = path[c]
    BY DEF ClientTypes
  <2>2. block[c] = b /\ phase[c] = "SendData"
    <3>1. Head(requests[c]) = [method |-> phase[c], file |-> path[c], block |-> block[c]]
      BY <1>2, <1>11, AwaitsTheHead
    <3> QED BY <1>1, <3>1 DEF SendDataWrites, Serves
  <2>3. file \in files /\ file > earlier =>
          /\ file = curFile
          /\ \A i \in 1 .. b + 1 : content'[curFile][i] = [client |-> c, block |-> i - 1]
    BY <1>2, <1>5, <2>1, <2>2 DEF UploadInv, Sent, w
  <2>4. Sent(c)'
    <3>1. SUFFICES ASSUME method = "SendData", file \in files, file > earlier
                   PROVE  /\ file = curFile /\ b + 1 <= curBlock'
                          /\ \A i \in 1 .. b + 1 :
                               content'[curFile][i] = [client |-> c, block |-> i - 1]
      BY <1>2, <1>4, <1>11, <2>1, <2>2 DEF OneNew, Sent
    <3>2. b + 1 <= curBlock'
      BY <1>2
    <3> QED BY <2>3, <3>1, <3>2
  <2>5. Ready(c, [method |-> method, file |-> file, block |-> next])'
    <3>1. SUFFICES ASSUME method = "LoadFile", file \in files, file > earlier
                   PROVE  file = curFile /\ stream' # "open" /\ content'[file] = WholeFile(c)
      BY <1>2, <1>4 DEF Ready, WholeFile
    <3>2. b = Last(c) /\ Blocks[c] = b + 1
      BY <1>11, <2>2, <3>1, ClientsAssumption
    <3>3. content'[curFile] = WholeFile(c)
      BY <1>5, <2>3, <3>1, <3>2, WholeIsWritten
    <3> QED BY <1>2, <2>3, <3>1, <3>2, <3>3
  <2>6. file <= Len(content') /\ OneNew(c, method, next, file)
    BY <1>5, <1>11, <2>1, KnownIs
  <2> QED BY <1>3, <1>4, <1>8, <2>4, <2>5, <2>6, OneNewKeeps
<1>12. PICK now \in Nat : now = block[c]
  BY DEF ClientTypes
<1>13. CASE Awaits(c) /\ block[c] = Last(c) /\ OneNew(c, "LoadFile", block[c], path[c])
  BY <1>11, <1>12, <1>13 DEF OneNew
<1>14. CASE Awaits(c) /\ OneNew(c, "SendData", block[c] + 1, path[c])
  BY <1>11, <1>12, <1>14 DEF OneNew
<1> QED BY <1>2, <1>10, <1>13, <1>14, DataAnswered

-----------------------------------------------------------------------------
(* LoadFile(): a file that is ready is whole.                              *)
LEMMA ServeLoadKeeps ==
  ASSUME IInv, NEW c \in Clients, ServeLoad(c)
  PROVE  IInv'
<1> USE DEF IInv
<1>1. requests[c] # <<>> /\ Head(requests[c]).method = "LoadFile" /\ AnswerLast(c)
  BY DEF ServeLoad, Serves
<1>2. NothingNew
  BY <1>1, LastAnswered
<1>3. Stays /\ UNCHANGED <<uploadVars, running, restarts, earlier>> /\ earlier \in Nat
  BY DEF ServeLoad, Stays, uploadVars, serverVars, ServerTypes
<1>4. Known' /\ UploadInv'
  BY <1>2, <1>3, NothingNewKeeps DEF uploadVars, UploadTypes
<1>5. UploadTypes' /\ ServerTypes'
  BY <1>3 DEF UploadTypes, ServerTypes, uploadVars
<1>6. ControlTypes' /\ OpenInv' /\ LoadedInv'
  <2>1. CASE UNCHANGED <<loaded, loader>>
    BY <1>3, <2>1 DEF ControlTypes, OpenInv, LoadedInv, uploadVars
  <2>2. CASE loaded' = Head(requests[c]).file /\ Head(requests[c]).file \in files /\ loader' = c
    <3>1. Ready(c, Head(requests[c]))
      BY <1>1, ServedIsQueued DEF UploadInv, Calls
    <3>2. loaded' > earlier => stream # "open" /\ content[loaded'] = WholeFile(c)
      BY <1>1, <2>2, <3>1 DEF Ready
    <3>3. loaded' \in 0 .. Len(content)
      <4>1. loaded' \in files /\ files \subseteq 1 .. Len(content)
        BY <2>2 DEF UploadTypes
      <4> QED BY <4>1
    <3>4. OpenInv' /\ ControlTypes'
      BY <1>3, <2>2, <3>2, <3>3 DEF OpenInv, ControlTypes, uploadVars
    <3>5. LoadedInv'
      BY <1>3, <2>2, <3>2 DEF LoadedInv, WholeFile, uploadVars
    <3> QED BY <3>4, <3>5
  <2> QED BY <2>1, <2>2 DEF ServeLoad
<1> QED BY <1>2, <1>3, <1>4, <1>5, <1>6 DEF NothingNew

(* CloseFile().                                                            *)
LEMMA ServeCloseKeeps ==
  ASSUME IInv, NEW c \in Clients, ServeClose(c)
  PROVE  IInv'
<1> USE DEF IInv
<1>1. requests[c] # <<>> /\ AnswerLast(c)
  BY DEF ServeClose, Serves
<1>2. NothingNew
  BY <1>1, LastAnswered
<1>3. /\ Stays /\ UNCHANGED <<uploadVars, running, loader, restarts, earlier>>
      /\ loaded' \in {0, loaded} /\ earlier \in Nat
  BY DEF ServeClose, CloseFile, Stays, uploadVars, serverVars, ServerTypes
<1>4. Known' /\ UploadInv'
  BY <1>2, <1>3, NothingNewKeeps DEF uploadVars, UploadTypes
<1>5. UploadTypes' /\ ServerTypes'
  BY <1>3 DEF UploadTypes, ServerTypes, uploadVars
<1>6. ControlTypes' /\ OpenInv' /\ LoadedInv'
  BY <1>3 DEF ControlTypes, OpenInv, LoadedInv, uploadVars, UploadTypes
<1> QED BY <1>2, <1>3, <1>4, <1>5, <1>6 DEF NothingNew

(* The control runs the file.                                              *)
LEMMA RunKeeps ==
  ASSUME IInv, Run
  PROVE  IInv'
<1> USE DEF IInv
<1>1. UNCHANGED <<clientVars, requests, uploadVars, loaded, loader, serverVars>>
  BY DEF Run
<1>2. /\ UNCHANGED <<phase, asked, path, block, requests, stream, curBlock, curFile, content>>
      /\ UNCHANGED <<files, cut, loaded, loader, restarts, earlier>> /\ running' \in BOOLEAN
  BY <1>1 DEF Run, clientVars, uploadVars, serverVars, ControlTypes
<1>3. ClientTypes' /\ UploadTypes' /\ ControlTypes' /\ ServerTypes'
  BY <1>2 DEF ClientTypes, UploadTypes, ControlTypes, ServerTypes
<1>4. AwaitInv' /\ OpenInv' /\ LoadedInv'
  BY <1>2 DEF AwaitInv, OpenInv, LoadedInv, Due
<1>5. Known' /\ UploadInv'
  BY <1>2 DEF Known, UploadInv, Calls, Due, Queued, Sent, Ready
<1> QED BY <1>3, <1>4, <1>5

(* A server that has been started again knows no upload, and of what its   *)
(* clients still have in mind nothing is said.                             *)
LEMMA RestartKeeps ==
  ASSUME IInv, Restart
  PROVE  IInv'
<1> USE DEF IInv
<1>1. /\ UNCHANGED <<clientVars, content, files, cut, loader>> /\ stream' = "null"
      /\ curFile' = 0 /\ curBlock' = 0 /\ loaded' = 0 /\ running' = FALSE
      /\ earlier' = Len(content) /\ Len(content) \in Nat
  BY DEF Restart, UploadTypes
<1>2. NothingNew
  <2>1. requests' = [d \in Clients |-> IF d \in Clients THEN <<>> ELSE requests[d]]
    BY DEF Restart
  <2> QED BY <1>1, <2>1, LostIsNothingNew
<1>3. UploadTypes' /\ ControlTypes' /\ ServerTypes'
  <2>1. UploadTypes'
    BY <1>1 DEF UploadTypes
  <2>2. 0 \in 0 .. Len(content) /\ Len(content) \in 0 .. Len(content)
    BY <1>1
  <2>3. ControlTypes'
    BY <1>1, <2>2 DEF ControlTypes
  <2>4. restarts' \in 0 .. MaxRestarts
    <3>1. restarts \in 0 .. MaxRestarts /\ restarts < MaxRestarts /\ restarts' = restarts + 1
      BY DEF Restart, ServerTypes
    <3> QED BY <3>1, BoundsAssumption
  <2> QED BY <1>1, <2>1, <2>2, <2>3, <2>4 DEF ServerTypes
<1>4. OpenInv' /\ LoadedInv'
  BY <1>1 DEF OpenInv, LoadedInv
<1>5. \A d \in Clients : \A r \in Calls(d)' : r.file \in Nat /\ r.file <= Len(content)
  BY <1>1, <1>2, KnownIs, NoCallIsNew
<1>6. Known'
  BY <1>1, <1>5 DEF Known
<1>7. \A d \in Clients : Sent(d)'
  <2>1. \A d \in Clients : path'[d] = path[d] /\ path[d] \in Nat /\ path[d] <= Len(content)
    BY <1>1, KnownIs DEF clientVars
  <2> QED BY <1>1, <2>1 DEF Sent
<1>8. \A d \in Clients : \A r \in Calls(d)' : Ready(d, r)'
  BY <1>1, <1>5 DEF Ready
<1> QED BY <1>2, <1>3, <1>4, <1>6, <1>7, <1>8 DEF NothingNew, UploadInv

-----------------------------------------------------------------------------
(* Every step keeps the invariant.                                         *)
LEMMA InvStep ==
  ASSUME IInv, [Next]_vars
  PROVE  IInv'
<1>1. CASE UNCHANGED vars
  <2>1. /\ UNCHANGED <<phase, asked, path, block, requests, stream, curBlock, curFile>>
        /\ UNCHANGED <<content, files, cut, loaded, running, loader, restarts, earlier>>
    BY <1>1 DEF vars, clientVars, uploadVars, controlVars, serverVars
  <2>2. ClientTypes' /\ UploadTypes' /\ ControlTypes' /\ ServerTypes'
    BY <2>1 DEF IInv, ClientTypes, UploadTypes, ControlTypes, ServerTypes
  <2>3. AwaitInv' /\ OpenInv' /\ LoadedInv'
    BY <2>1 DEF IInv, AwaitInv, OpenInv, LoadedInv, Due
  <2>4. Known' /\ UploadInv'
    BY <2>1 DEF IInv, Known, UploadInv, Calls, Due, Queued, Sent, Ready
  <2> QED BY <2>2, <2>3, <2>4 DEF IInv
<1>2. CASE Run \/ Restart
  BY <1>2, RunKeeps, RestartKeeps
<1>3. ASSUME NEW c \in Clients,
             \/ LoadFile(c) \/ CallCloseFile(c) \/ NextCall(c) \/ CallTimesOut(c)
             \/ Disconnect(c) \/ SendInit(c) \/ SendDataNoFile(c) \/ SendDataOutOfSequence(c)
             \/ SendDataWrites(c) \/ SendDataFails(c) \/ ServeLoad(c) \/ ServeClose(c)
      PROVE  IInv'
  <2>1. CASE LoadFile(c) \/ CallCloseFile(c)
    BY <2>1, CallKeeps DEF LoadFile, CallCloseFile
  <2>2. CASE NextCall(c) \/ CallTimesOut(c) \/ Disconnect(c)
    <3>1. NothingNew
      BY <2>2, NextCallIsNothingNew, TimeOutIsNothingNew, DisconnectIsNothingNew
    <3> QED BY <2>2, <3>1, ClientKeeps DEF NextCall, CallTimesOut, Disconnect
  <2> QED BY <1>3, <2>1, <2>2, SendInitKeeps, SendDataRefusesKeeps, SendDataWritesKeeps,
             ServeLoadKeeps, ServeCloseKeeps
<1> QED BY <1>1, <1>2, <1>3 DEF Next

(* The invariant holds throughout.                                         *)
LEMMA InvAlways == Spec => []IInv
<1>1. Init => IInv
  BY InvInit
<1>2. IInv /\ [Next]_vars => IInv'
  BY InvStep
<1> QED BY <1>1, <1>2, PTL DEF Spec

(* Every variable has its type: the bound on the files that SendInit()     *)
(* makes bounds every name that a client or the control can hold.          *)
THEOREM TypeCorrect == Spec => []TypeOK
<1>1. IInv => TypeOK
  <2> SUFFICES ASSUME IInv PROVE TypeOK
    OBVIOUS
  <2>1. Len(content) \in Nat /\ Len(content) <= MaxUploads
    BY DEF IInv, UploadTypes
  <2>2. /\ 0 .. Len(content) \subseteq 0 .. MaxUploads
        /\ 1 .. Len(content) \subseteq 1 .. MaxUploads
    BY <2>1, BoundsAssumption
  <2>3. stream \in {"null", "open", "closed"} /\ curBlock \in Nat /\ curFile \in 0 .. MaxUploads
    BY <2>2 DEF IInv, UploadTypes
  <2>4. files \subseteq 1 .. MaxUploads /\ cut \subseteq 1 .. MaxUploads
    BY <2>2 DEF IInv, UploadTypes
  <2>5. loaded \in 0 .. MaxUploads /\ running \in BOOLEAN /\ loader \in Clients
    BY <2>2 DEF IInv, ControlTypes
  <2>6. content \in Seq(Seq([client : Clients, block : Nat]))
    BY DEF IInv, UploadTypes, Written
  <2>7. restarts \in 0 .. MaxRestarts /\ earlier \in 0 .. MaxUploads
    BY <2>2 DEF IInv, ServerTypes
  <2> QED BY <2>3, <2>4, <2>5, <2>6, <2>7 DEF IInv, ClientTypes, Request, TypeOK
<1> QED BY <1>1, InvAlways, PTL

-----------------------------------------------------------------------------
(* What the control holds is nothing, a file of an earlier server, a file  *)
(* cut short, or a whole file.                                             *)
LEMMA HoldsIs ==
  /\ IInv => Holds = IF loaded = 0 THEN Control!None
                     ELSE IF loaded <= earlier THEN Control!Left(loader)
                     ELSE IF loaded \in cut THEN Control!Cut(loader) ELSE Control!File(loader)
  /\ IInv' => Holds' = IF loaded' = 0 THEN Control!None
                       ELSE IF loaded' <= earlier' THEN Control!Left(loader')
                       ELSE IF loaded' \in cut' THEN Control!Cut(loader') ELSE Control!File(loader')
<1>1. IInv => loader \in Clients /\ LoadedInv /\ loaded \in Nat /\ earlier \in Nat
  BY DEF IInv, ControlTypes, ServerTypes
<1>2. IInv' => loader' \in Clients /\ LoadedInv' /\ loaded' \in Nat /\ earlier' \in Nat
  BY DEF IInv, ControlTypes, ServerTypes
<1>3. ASSUME IInv
      PROVE  Holds = IF loaded = 0 THEN Control!None
                     ELSE IF loaded <= earlier THEN Control!Left(loader)
                     ELSE IF loaded \in cut THEN Control!Cut(loader) ELSE Control!File(loader)
  <2>1. /\ loaded \in 1 .. earlier <=> loaded # 0 /\ loaded <= earlier
        /\ loaded > earlier <=> ~(loaded <= earlier)
        /\ loaded = 0 => loaded <= earlier
    BY <1>1, <1>3
  <2>2. CASE loaded = 0
    BY <2>1, <2>2 DEF Holds, Control!None
  <2>3. CASE loaded # 0 /\ loaded <= earlier
    BY <2>1, <2>3 DEF Holds, Control!Left
  <2>4. CASE ~(loaded <= earlier) /\ loaded \in cut
    BY <2>1, <2>4 DEF Holds, Control!Cut
  <2>5. CASE ~(loaded <= earlier) /\ loaded \notin cut
    <3>1. content[loaded] = [c \in Clients |-> WholeFile(c)][loader]
      BY <1>1, <1>3, <2>1, <2>5 DEF LoadedInv
    <3> QED BY <2>1, <2>5, <3>1 DEF Holds, Control!File
  <2> QED BY <2>1, <2>2, <2>3, <2>4, <2>5
<1>4. ASSUME IInv'
      PROVE  Holds' = IF loaded' = 0 THEN Control!None
                     ELSE IF loaded' <= earlier' THEN Control!Left(loader')
                     ELSE IF loaded' \in cut' THEN Control!Cut(loader') ELSE Control!File(loader')
  <2>1. /\ loaded' \in 1 .. earlier' <=> loaded' # 0 /\ loaded' <= earlier'
        /\ loaded' > earlier' <=> ~(loaded' <= earlier')
        /\ loaded' = 0 => loaded' <= earlier'
    BY <1>2, <1>4
  <2>2. CASE loaded' = 0
    BY <2>1, <2>2 DEF Holds, Control!None
  <2>3. CASE loaded' # 0 /\ loaded' <= earlier'
    BY <2>1, <2>3 DEF Holds, Control!Left
  <2>4. CASE ~(loaded' <= earlier') /\ loaded' \in cut'
    BY <2>1, <2>4 DEF Holds, Control!Cut
  <2>5. CASE ~(loaded' <= earlier') /\ loaded' \notin cut'
    <3>1. content'[loaded'] = [c \in Clients |-> WholeFile(c)][loader']
      BY <1>2, <1>4, <2>1, <2>5 DEF LoadedInv, WholeFile
    <3> QED BY <2>1, <2>5, <3>1 DEF Holds, Control!File, WholeFile
  <2> QED BY <2>1, <2>2, <2>3, <2>4, <2>5
<1> QED BY <1>3, <1>4

(* Nobody comes to know a file of an earlier server while a server runs.   *)
LEMMA LateShrinks ==
  ASSUME IInv, [Next]_vars, ~Restart
  PROVE  Late' \subseteq Late /\ UNCHANGED earlier
<1>1. earlier \in Nat /\ NewFile \in Nat /\ NewFile > earlier
  BY DEF IInv, ServerTypes, UploadTypes, NewFile
<1>2. CASE UNCHANGED <<clientVars, requests, serverVars>>
  BY <1>2 DEF Late, Calls, Queued, Due, clientVars, serverVars
<1>3. ASSUME UNCHANGED earlier,
             \A d \in Clients : \A q \in Calls(d)' :
               q \in Calls(d) \/ q.file \in {0, NewFile, path[d]}
      PROVE  Late' \subseteq Late
  <2>1. \A d \in Clients : Due(d).file = path[d] /\ Due(d) \in Calls(d)
    BY DEF Due, Calls
  <2> QED BY <1>1, <1>3, <2>1 DEF Late
<1>4. ASSUME NothingNew, UNCHANGED earlier PROVE Late' \subseteq Late
  BY <1>3, <1>4, NoCallIsNew
<1>5. ASSUME NEW c \in Clients, NEW method, NEW b, NEW file \in {NewFile, path[c]},
             OneNew(c, method, b, file), UNCHANGED earlier
      PROVE  Late' \subseteq Late
  BY <1>3, <1>5, OneCallIsNew
<1>6. ASSUME NEW c \in Clients, LoadFile(c) \/ CallCloseFile(c)
      PROVE  Late' \subseteq Late /\ UNCHANGED earlier
  <2>1. UNCHANGED earlier
    BY <1>6 DEF LoadFile, CallCloseFile, Call, serverVars
  <2>2. PICK method \in {"SendInit", "CloseFile"} : Call(c, method)
    BY <1>6 DEF LoadFile, CallCloseFile
  <2> QED BY <1>3, <2>1, <2>2, CallBegins
<1>7. ASSUME NEW c \in Clients, NextCall(c) \/ CallTimesOut(c) \/ Disconnect(c)
      PROVE  Late' \subseteq Late /\ UNCHANGED earlier
  <2>1. UNCHANGED earlier
    BY <1>7 DEF NextCall, CallTimesOut, Disconnect, serverVars
  <2> QED BY <1>4, <1>7, <2>1, NextCallIsNothingNew, TimeOutIsNothingNew, DisconnectIsNothingNew
<1>8. ASSUME NEW c \in Clients, SendInit(c)
      PROVE  Late' \subseteq Late /\ UNCHANGED earlier
  <2>1. UNCHANGED earlier /\ requests[c] # <<>>
    BY <1>8 DEF SendInit, Serves, serverVars
  <2>2. PICK name \in {0, NewFile} : AnswerInit(c, name)
    BY <1>8 DEF SendInit
  <2>3. name \in 0 .. MaxUploads
    <3>1. Len(content) < MaxUploads /\ Len(content) \in Nat
      BY <1>8 DEF SendInit, IInv, UploadTypes
    <3> QED BY <3>1, BoundsAssumption DEF NewFile
  <2>4. NothingNew \/ (name # 0 /\ OneNew(c, "SendData", 0, name))
    BY <2>1, <2>2, <2>3, InitAnswered DEF IInv
  <2> QED BY <1>4, <1>5, <2>1, <2>4
<1>9. ASSUME NEW c \in Clients, NEW ok \in BOOLEAN, requests[c] # <<>>, AnswerData(c, ok),
             UNCHANGED earlier
      PROVE  Late' \subseteq Late
  <2>1. \/ NothingNew
        \/ OneNew(c, "LoadFile", block[c], path[c])
        \/ OneNew(c, "SendData", block[c] + 1, path[c])
    BY <1>9, DataAnswered DEF IInv
  <2> QED BY <1>4, <1>5, <1>9, <2>1
<1>10. ASSUME NEW c \in Clients,
              \/ SendDataNoFile(c) \/ SendDataOutOfSequence(c) \/ SendDataWrites(c)
              \/ SendDataFails(c)
       PROVE  Late' \subseteq Late /\ UNCHANGED earlier
  <2>1. UNCHANGED earlier /\ requests[c] # <<>>
    BY <1>10 DEF SendDataNoFile, SendDataOutOfSequence, SendDataWrites, SendDataFails, Serves,
                 serverVars
  <2>2. AnswerData(c, TRUE) \/ AnswerData(c, FALSE)
    BY <1>10 DEF SendDataNoFile, SendDataOutOfSequence, SendDataWrites, SendDataFails
  <2> QED BY <1>9, <2>1, <2>2
<1>11. ASSUME NEW c \in Clients, ServeLoad(c) \/ ServeClose(c)
       PROVE  Late' \subseteq Late /\ UNCHANGED earlier
  <2>1. UNCHANGED earlier /\ requests[c] # <<>> /\ AnswerLast(c)
    BY <1>11 DEF ServeLoad, ServeClose, Serves, serverVars
  <2>2. NothingNew
    BY <2>1, LastAnswered DEF IInv
  <2> QED BY <1>4, <2>1, <2>2
<1>12. CASE Run \/ UNCHANGED vars
  BY <1>2, <1>12 DEF Run, vars, serverVars
<1> QED BY <1>6, <1>7, <1>8, <1>10, <1>11, <1>12 DEF Next

(* A server that has just been started holds nothing.                      *)
LEMMA InitRefines ==
  ASSUME Init
  PROVE  Control!Init
<1>1. loaded = 0 /\ running = FALSE /\ earlier = 0
  BY DEF Init
<1>2. Late = {}
  BY <1>1 DEF Late
<1> QED BY <1>1, <1>2, InvInit, HoldsIs DEF Control!Init

(* A step loads one client's file, closes it, runs it, or is not seen, but *)
(* for a client that gives up an upload to an earlier server.              *)
LEMMA StepRefines ==
  ASSUME IInv, IInv', [Next]_vars
  PROVE  [Control!Next]_(Control!vars)
<1> USE DEF Control!Next, Control!vars
<1>1. CASE Restart
  <2>1. Holds' = Control!None /\ running' = FALSE
    BY <1>1, HoldsIs DEF Restart
  <2> QED BY <2>1 DEF Control!End, Late
<1> SUFFICES ASSUME ~Restart
             PROVE  [Control!Next]_(Control!vars)
  BY <1>1
<1>2. Late' \subseteq Late /\ UNCHANGED earlier
  BY LateShrinks
<1>3. CASE UNCHANGED <<loaded, loader, running>> /\ (loaded \in cut <=> loaded \in cut')
  <2>1. Holds' = Holds
    BY <1>2, <1>3, HoldsIs
  <2> QED BY <1>2, <1>3, <2>1 DEF Control!Forget
<1>4. CASE UNCHANGED <<cut, loader, running>> /\ CloseFile
  <2>1. CASE running
    BY <1>3, <1>4, <2>1 DEF CloseFile
  <2>2. CASE ~running
    BY <1>2, <1>4, <2>2, HoldsIs DEF CloseFile, Control!Close
  <2> QED BY <2>1, <2>2 DEF IInv, ControlTypes
<1>5. ASSUME NEW c \in Clients, ServeLoad(c)
      PROVE  [Control!Next]_(Control!vars)
  <2>1. UNCHANGED <<cut, running>>
    BY <1>5 DEF ServeLoad, uploadVars
  <2>2. CASE UNCHANGED <<loaded, loader>>
    BY <1>3, <2>1, <2>2
  <2>3. CASE /\ loaded' = Head(requests[c]).file /\ loaded' \in files
             /\ ~running /\ loader' = c
    <3>1. loaded' \in Nat /\ loaded' # 0 /\ earlier \in Nat
      <4>1. loaded' \in 1 .. Len(content)
        BY <2>3 DEF IInv, UploadTypes
      <4> QED BY <4>1 DEF IInv, ServerTypes
    <3>2. CASE loaded' <= earlier
      <4>1. Head(requests[c]) \in Calls(c)
        BY <1>5, ServedIsQueued DEF ServeLoad, Serves, IInv, Calls
      <4>2. c \in Late
        BY <2>3, <3>1, <3>2, <4>1 DEF Late
      <4>3. Holds' = Control!Left(c)
        BY <1>2, <2>3, <3>1, <3>2, HoldsIs
      <4> QED BY <1>2, <2>1, <2>3, <4>2, <4>3 DEF Control!Load
    <3>3. CASE loaded' > earlier
      <4>1. Holds' \in {Control!File(c), Control!Cut(c)}
        BY <1>2, <2>3, <3>1, <3>3, HoldsIs
      <4> QED BY <1>2, <2>1, <2>3, <4>1 DEF Control!Load
    <3> QED BY <3>1, <3>2, <3>3
  <2> QED BY <1>5, <2>2, <2>3 DEF ServeLoad
<1>6. ASSUME NEW c \in Clients, SendDataWrites(c)
      PROVE  [Control!Next]_(Control!vars)
  <2>1. loaded # curFile
    BY <1>6 DEF SendDataWrites, IInv, OpenInv
  <2> QED BY <1>3, <1>6, <2>1 DEF SendDataWrites, controlVars
<1>7. ASSUME NEW c \in Clients, SendInit(c) \/ ServeClose(c)
      PROVE  [Control!Next]_(Control!vars)
  <2>1. CloseFile /\ UNCHANGED cut
    BY <1>7 DEF SendInit, ServeClose, uploadVars
  <2>2. UNCHANGED <<loader, running>>
    BY <2>1 DEF CloseFile
  <2> QED BY <1>4, <2>1, <2>2
<1>8. CASE Run
  <2>1. loaded # 0 /\ running' = ~running /\ UNCHANGED <<loaded, loader, cut>>
    BY <1>8 DEF Run, uploadVars
  <2>2. Holds' = Holds /\ Holds # Control!None
    <3>1. /\ Control!Cut(loader) # Control!None /\ Control!File(loader) # Control!None
          /\ Control!Left(loader) # Control!None
      BY DEF Control!None, Control!Cut, Control!File, Control!Left
    <3>2. /\ Holds' = Holds
          /\ Holds \in {Control!Left(loader), Control!Cut(loader), Control!File(loader)}
      BY <1>2, <2>1, HoldsIs
    <3> QED BY <3>1, <3>2
  <2> QED BY <1>2, <2>1, <2>2 DEF Control!Run
<1>9. ASSUME NEW c \in Clients,
             \/ LoadFile(c) \/ CallCloseFile(c) \/ NextCall(c) \/ CallTimesOut(c)
             \/ Disconnect(c) \/ SendDataNoFile(c) \/ SendDataOutOfSequence(c)
             \/ SendDataFails(c)
      PROVE  [Control!Next]_(Control!vars)
  <2>1. UNCHANGED <<controlVars, cut>>
    BY <1>9 DEF LoadFile, CallCloseFile, Call, NextCall, CallTimesOut, Disconnect,
                SendDataNoFile, SendDataOutOfSequence, SendDataFails, uploadVars
  <2> QED BY <1>3, <2>1 DEF controlVars
<1>10. CASE UNCHANGED vars
  BY <1>3, <1>10 DEF vars, uploadVars, controlVars
<1> QED BY <1>5, <1>6, <1>7, <1>8, <1>9, <1>10 DEF Next

(* Whatever happens on its way, what the control loads is one client's     *)
(* whole file, or one whose end the disk could not hold, or one that its   *)
(* client began to upload before the server was started.                   *)
THEOREM WholeFilesKept == Spec => KeepsWholeFiles
<1>1. Init => Control!Init
  BY InitRefines
<1>2. IInv /\ IInv' /\ [Next]_vars => [Control!Next]_(Control!vars)
  BY StepRefines
<1> QED BY <1>1, <1>2, InvAlways, PTL DEF Spec, KeepsWholeFiles, Control!Spec
==============================================================================
