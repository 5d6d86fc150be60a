----------------------------- MODULE FileUpload -----------------------------
(***************************************************************************)
(* Loading a file over the network: Client::LoadFile() (cncclient.cpp      *)
(* 609-649) sends the file in blocks, and Server::SendInit() and           *)
(* SendData() (cncserver.cpp 493-559) write them to a temporary file.  The *)
(* server has one upload, whoever the client: m_file, m_curBlock and       *)
(* m_curFile.  The event loop of "linear" runs one handler at a time, in   *)
(* the order of the requests of one client.                                *)
(*                                                                         *)
(* Between two calls the client reads the file and polls (640-643).  If    *)
(* the connection is lost then, the client does not notice: it comes back  *)
(* by itself (152-176), and the next block goes to whatever server is      *)
(* there.                                                                  *)
(*                                                                         *)
(* m_file keeps its value when the stream is closed.  What C leaves        *)
(* undefined then is taken at its mildest: a second fclose() does nothing, *)
(* an fwrite() writes nothing.                                             *)
(***************************************************************************)
EXTENDS Naturals, Sequences

CONSTANTS
  Clients,      \* remote clients
  Blocks,       \* [Clients -> 1 .. ]: blocks of the client's file; the last is short
  MaxRequests,  \* bound: requests of one client not yet served
  MaxUploads,   \* bound: calls of SendInit() served
  MaxRestarts   \* bound: restarts of the server

ASSUME ClientsAssumption == Clients # {} /\ Blocks \in [Clients -> Nat \ {0}]
ASSUME BoundsAssumption == MaxRequests \in Nat /\ MaxUploads \in Nat /\ MaxRestarts \in Nat

VARIABLES
  phase,     \* call of LoadFile() the client makes, or makes next; "idle": none
  asked,     \* the client has made it and waits for the answer
  path,      \* the client's local: file, the name that SendInit() returned; 0: none
  block,     \* the client's local: block
  requests,  \* requests of the client that the server has not served, oldest first
  stream,    \* m_file: "null", "open", or "closed" when it points to a closed stream
  curBlock,  \* m_curBlock
  curFile,   \* m_curFile; 0: empty
  content,   \* what the temporary files contain: the blocks written, in order
  files,     \* temporary files that exist
  cut,       \* files whose end fclose() could not write
  loaded,    \* file the control has loaded; 0: none
  running,   \* the control runs it: it can be neither closed nor replaced
  loader,    \* client that had the loaded file loaded
  restarts,  \* restarts of the server so far
  earlier    \* history: the temporary files 1 .. earlier are of earlier servers

clientVars == <<phase, asked, path, block>>
uploadVars == <<stream, curBlock, curFile, content, files, cut>>
controlVars == <<loaded, running, loader>>
serverVars == <<restarts, earlier>>
vars == <<clientVars, requests, uploadVars, controlVars, serverVars>>

(* Files are named 1, 2, ... in the order they are made: mkstemp() makes a new
   name each time. *)
MutantNewFile == Len(content)
NewFile == Len(content) + 1

Last(c) == Blocks[c] - 1
WholeFile(c) == [i \in 1 .. Blocks[c] |-> [client |-> c, block |-> i - 1]]

(* The call that the client makes or makes next, and those not yet served. *)
Due(c) == [method |-> phase[c], file |-> path[c], block |-> block[c]]
Queued(c) == {requests[c][i] : i \in 1 .. Len(requests[c])}
Calls(c) == Queued(c) \cup {Due(c)}

-----------------------------------------------------------------------------
(* The constructors. *)
Init ==
  /\ phase = [c \in Clients |-> "idle"] /\ asked = [c \in Clients |-> FALSE]
  /\ path = [c \in Clients |-> 0] /\ block = [c \in Clients |-> 0]
  /\ requests = [c \in Clients |-> <<>>]
  /\ stream = "null" /\ curBlock = 0 /\ curFile = 0
  /\ content = <<>> /\ files = {} /\ cut = {}
  /\ loaded = 0 /\ running = FALSE
  /\ loader \in Clients
  /\ restarts = 0 /\ earlier = 0

-----------------------------------------------------------------------------
(* The client. *)

(* The user calls LoadFile() for a file that is not the server's own, so that
   SendInit is called, or CloseFile(). *)
MayCall(c) == phase[c] = "idle" /\ Len(requests[c]) < MaxRequests

Call(c, method) ==
  /\ MayCall(c)
  /\ phase' = [phase EXCEPT ![c] = method]
  /\ asked' = [asked EXCEPT ![c] = TRUE]
  /\ requests' = [requests EXCEPT ![c] = Append(@, [method |-> method, file |-> 0, block |-> 0])]
  /\ UNCHANGED <<path, block, uploadVars, controlVars, serverVars>>

LoadFile(c) == Call(c, "SendInit")
CallCloseFile(c) == Call(c, "CloseFile")

(* LoadFile() has read the next block, polled, and makes its next call. *)
NextCall(c) ==
  /\ phase[c] # "idle" /\ ~asked[c]
  /\ asked' = [asked EXCEPT ![c] = TRUE]
  /\ requests' = [requests EXCEPT ![c] = Append(@, Due(c))]
  /\ UNCHANGED <<phase, path, block, uploadVars, controlVars, serverVars>>

(* LoadFile() or CloseFile() returns; its locals are gone. *)
Returns(c) ==
  /\ phase' = [phase EXCEPT ![c] = "idle"]
  /\ asked' = [asked EXCEPT ![c] = FALSE]
  /\ path' = [path EXCEPT ![c] = 0]
  /\ block' = [block EXCEPT ![c] = 0]

(* A call times out, or cannot be sent since the connection is lost:
   LoadFile() returns FALSE, and the server may still serve the request. *)
CallTimesOut(c) ==
  /\ phase[c] # "idle"
  /\ Returns(c)
  /\ UNCHANGED <<requests, uploadVars, controlVars, serverVars>>

(* The connection is lost, and with it what the server has not served; a
   client that waits for an answer waits in vain, one that is between two
   calls notices nothing. *)
Disconnect(c) ==
  /\ requests[c] # <<>>
  /\ requests' = [requests EXCEPT ![c] = <<>>]
  /\ UNCHANGED <<clientVars, uploadVars, controlVars, serverVars>>

(* The server's answer, and what LoadFile() does after it: the first block,
   the next block, or LoadFile after the one that was short; it returns when
   the answer is empty or FALSE.  An answer nobody waits for any more is
   dropped. *)
GoOn(c, method, b, file) ==
  /\ phase' = [phase EXCEPT ![c] = method]
  /\ asked' = [asked EXCEPT ![c] = FALSE]
  /\ block' = [block EXCEPT ![c] = b]
  /\ path' = [path EXCEPT ![c] = file]
  /\ requests' = [requests EXCEPT ![c] = Tail(@)]

Finish(c) ==
  /\ Returns(c)
  /\ requests' = [requests EXCEPT ![c] = Tail(@)]

Dropped(c) ==
  /\ requests' = [requests EXCEPT ![c] = Tail(@)]
  /\ UNCHANGED clientVars

Awaits(c) == asked[c] /\ Len(requests[c]) = 1

(* The answer to SendInit: the name, 0 for the empty string. *)
AnswerInit(c, name) ==
  IF ~Awaits(c) THEN Dropped(c)
  ELSE IF name = 0 THEN Finish(c) ELSE GoOn(c, "SendData", 0, name)

(* The answer to SendData. *)
AnswerData(c, ok) ==
  IF ~Awaits(c) THEN Dropped(c)
  ELSE IF ~ok THEN Finish(c)
  ELSE IF block[c] = Last(c) THEN GoOn(c, "LoadFile", block[c], path[c])
  ELSE GoOn(c, "SendData", block[c] + 1, path[c])

(* The answer to LoadFile or CloseFile. *)
AnswerLast(c) == IF Awaits(c) THEN Finish(c) ELSE Dropped(c)

-----------------------------------------------------------------------------
(* The server. *)

Serves(c, method) == requests[c] # <<>> /\ Head(requests[c]).method = method

(* fclose(m_file): m_file is not NULL and stays as it is. *)
Close == stream' = "closed"

(* CloseFile() of the control: refused while it runs the file. *)
CloseFile == /\ loaded' = IF running THEN loaded ELSE 0
             /\ UNCHANGED <<running, loader>>

(* DeleteTemp(): neither m_file nor m_curFile is reset. *)
DeleteTemp == files' = files \ {curFile}

(* SendInit().  CloseFile()'s answer is not looked at.  When mkstemp() fails,
   m_file still points to the stream just closed. *)
SendInit(c) ==
  /\ Serves(c, "SendInit")
  /\ Len(content) < MaxUploads
  /\ CloseFile
  /\ curBlock' = 0
  /\ \/ /\ stream' = "open"                   \* mkstemp() and fdopen() succeed
        /\ curFile' = NewFile
        /\ content' = Append(content, <<>>)
        /\ files' = (files \ {curFile}) \cup {NewFile}
        /\ AnswerInit(c, NewFile)
     \/ /\ stream' = IF stream = "null" THEN "null" ELSE "closed"    \* mkstemp() fails
        /\ DeleteTemp
        /\ UNCHANGED <<curFile, content>>
        /\ AnswerInit(c, 0)
     \/ /\ stream' = "null"                   \* fdopen() fails: the file stays
        /\ content' = Append(content, <<>>)
        /\ files' = (files \ {curFile}) \cup {NewFile}
        /\ UNCHANGED curFile
        /\ AnswerInit(c, 0)
  /\ UNCHANGED <<cut, serverVars>>

(* SendData(), line 535: no file. *)
SendDataNoFile(c) ==
  /\ Serves(c, "SendData")
  /\ stream = "null"
  /\ AnswerData(c, FALSE)
  /\ UNCHANGED <<uploadVars, controlVars, serverVars>>

(* Lines 536-540: the block is not the next one. *)
MutantOutOfSequence(b) == b > curBlock
OutOfSequence(b) == b # curBlock

SendDataOutOfSequence(c) ==
  /\ Serves(c, "SendData")
  /\ stream # "null"
  /\ OutOfSequence(Head(requests[c]).block)
  /\ Close
  /\ AnswerData(c, FALSE)
  /\ UNCHANGED <<curBlock, curFile, content, files, cut, controlVars, serverVars>>

(* Lines 541-550: the block is written; the stream is closed after a short one.
   What fwrite() keeps of a full block is written with the next one, what it keeps
   of the last one by fclose(), whose result is not looked at: when the disk is full
   then, the file is cut and the answer is TRUE all the same. *)
NextBlock(b) == curBlock' = b + 1

IsShort(c, b) == b = Last(c)

SendDataWrites(c) ==
  LET b == Head(requests[c]).block IN
  /\ Serves(c, "SendData")
  /\ stream = "open"
  /\ ~OutOfSequence(b)
  /\ NextBlock(b)
  /\ content' = [content EXCEPT ![curFile] = Append(@, [client |-> c, block |-> b])]
  /\ \/ UNCHANGED cut
     \/ IsShort(c, b) /\ cut' = cut \cup {curFile}
  /\ IF IsShort(c, b) THEN Close ELSE UNCHANGED stream
  /\ AnswerData(c, TRUE)
  /\ UNCHANGED <<curFile, files, controlVars, serverVars>>

(* Lines 541-548: the write fails, the disk is full or the stream is closed. *)
SendDataFails(c) ==
  LET b == Head(requests[c]).block IN
  /\ Serves(c, "SendData")
  /\ stream # "null"
  /\ ~OutOfSequence(b)
  /\ NextBlock(b)
  /\ Close
  /\ AnswerData(c, FALSE)
  /\ UNCHANGED <<curFile, content, files, cut, controlVars, serverVars>>

(* LoadFile(): refused when the file is not there or the control is busy. *)
ServeLoad(c) ==
  /\ Serves(c, "LoadFile")
  /\ LET file == Head(requests[c]).file IN
       IF file \in files /\ ~running
       THEN loaded' = file /\ loader' = c
       ELSE UNCHANGED <<loaded, loader>>
  /\ AnswerLast(c)
  /\ UNCHANGED <<running, uploadVars, serverVars>>

(* CloseFile(), called by a client. *)
ServeClose(c) ==
  /\ Serves(c, "CloseFile")
  /\ CloseFile
  /\ AnswerLast(c)
  /\ UNCHANGED <<uploadVars, serverVars>>

(* The control starts and ends running the file. *)
Run == /\ loaded # 0
       /\ running' = ~running
       /\ UNCHANGED <<clientVars, requests, uploadVars, loaded, loader, serverVars>>

(* The server is killed and started again: the requests under way are lost, the
   temporary files stay, and the clients are where they were. *)
Restart ==
  /\ restarts < MaxRestarts
  /\ restarts' = restarts + 1 /\ earlier' = Len(content)
  /\ requests' = [c \in Clients |-> <<>>]
  /\ stream' = "null" /\ curFile' = 0 /\ curBlock' = 0
  /\ loaded' = 0 /\ running' = FALSE
  /\ UNCHANGED <<clientVars, content, files, cut, loader>>

-----------------------------------------------------------------------------
Next ==
  \/ \E c \in Clients :
       \/ LoadFile(c) \/ CallCloseFile(c) \/ NextCall(c) \/ CallTimesOut(c) \/ Disconnect(c)
       \/ SendInit(c) \/ SendDataNoFile(c) \/ SendDataOutOfSequence(c)
       \/ SendDataWrites(c) \/ SendDataFails(c) \/ ServeLoad(c) \/ ServeClose(c)
  \/ Run \/ Restart

Spec == Init /\ [][Next]_vars

-----------------------------------------------------------------------------
Methods == {"SendInit", "SendData", "LoadFile", "CloseFile"}

(* Type invariant. *)
TypeOK ==
  /\ phase \in [Clients -> Methods \cup {"idle"}] /\ asked \in [Clients -> BOOLEAN]
  /\ path \in [Clients -> 0 .. MaxUploads] /\ block \in [Clients -> Nat]
  /\ requests \in [Clients -> Seq([method : Methods, file : 0 .. MaxUploads, block : Nat])]
  /\ stream \in {"null", "open", "closed"}
  /\ curBlock \in Nat /\ curFile \in 0 .. MaxUploads
  /\ content \in Seq(Seq([client : Clients, block : Nat]))
  /\ files \subseteq 1 .. MaxUploads /\ cut \subseteq 1 .. MaxUploads
  /\ loaded \in 0 .. MaxUploads /\ running \in BOOLEAN
  /\ loader \in Clients
  /\ restarts \in 0 .. MaxRestarts /\ earlier \in 0 .. MaxUploads

(* What the control has loaded is at all times what ControlFile says: the
   whole file, block by block, of the client that had it loaded, although any
   client's blocks go to the one open file, calls time out and are served late,
   and uploads are started over -- or a file that fclose() could not finish, or
   one that the client began to upload to an earlier server.  It changes only
   when a client loads or closes a file or the server ends, and not while it
   runs. *)
Late == {c \in Clients : \E call \in Calls(c) : call.file \in 1 .. earlier}

Holds ==
  CASE loaded = 0 -> [kind |-> "none", owner |-> {}, blocks |-> <<>>]
    [] loaded \in 1 .. earlier -> [kind |-> "left", owner |-> {loader}, blocks |-> <<>>]
    [] loaded > earlier /\ loaded \in cut -> [kind |-> "cut", owner |-> {loader}, blocks |-> <<>>]
    [] OTHER -> [kind |-> "whole", owner |-> {loader}, blocks |-> content[loaded]]

Control == INSTANCE ControlFile
             WITH holds <- Holds, late <- Late, Whole <- [c \in Clients |-> WholeFile(c)]

KeepsWholeFiles == Control!Spec
=============================================================================
