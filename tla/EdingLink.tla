------------------------------ MODULE EdingLink ------------------------------
(***************************************************************************)
(* How the EdingCNC plugin (drivers/EdingCNC402/main.cpp and the first     *)
(* part of EdingCNC.cpp) comes by EdingCNC.  It is a plugin of the client  *)
(* and a server in one: once its port is bound the network thread calls    *)
(* into cncapi.dll for whoever asks.  The GUI of EdingCNC is started and   *)
(* ended by its operator.                                                  *)
(***************************************************************************)
EXTENDS Integers

Settled == 4    \* line 261: this many polls the GUI must have been there

Libraries == {"none", "whole", "lacking"}   \* lacking: a function is missing

VARIABLES
  call, exists,   \* the host's call, as in PluginHost
  installed,      \* the cncapi.dll that the registry leads to
  cnc,            \* g_cnc is set
  dll,            \* m_cncDll: "none", "loaded", or "freed" but not NULL
  bound,          \* its port is bound: clients are served
  connected,      \* m_connected
  connectCount,   \* m_connectCount
  gui,            \* EdingCNC's GUI and CncServer run
  link,           \* EdingCNC serves the calls of this process
  lost,           \* history: EdingCNC has ended under a link of this object
  wild            \* history: a call through a pointer that leads nowhere

object == <<cnc, dll, bound, connected, connectCount>>
world == <<installed, gui, link, lost>>
windowsVars == <<call, exists, object, world, wild>>

(* No object: what the library is loaded with, and what Quit() leaves.     *)
Init ==
  /\ installed \in Libraries
  /\ cnc = FALSE /\ dll = "none" /\ bound = FALSE
  /\ connected = FALSE /\ connectCount = 0
  /\ gui = FALSE /\ link = FALSE /\ lost = FALSE /\ wild = FALSE

NoObject ==
  /\ cnc' = FALSE /\ dll' = "none" /\ bound' = FALSE
  /\ connected' = FALSE /\ connectCount' = 0
  /\ link' = FALSE /\ lost' = FALSE

Return == call' = "none" /\ UNCHANGED exists

-----------------------------------------------------------------------------
(* LoadDll(): a library that lacks a function is freed, but the handle     *)
(* stays, so that the next LoadDll() finds it loaded.                      *)
MutantSucceeds == TRUE
Succeeds == dll # "none" \/ installed = "whole"

LoadDll ==
  dll' = IF dll # "none" THEN dll
         ELSE CASE installed = "none" -> "none"
                [] installed = "whole" -> "loaded"
                [] OTHER -> "freed"

ControlExists ==
  /\ call = "ControlExists" /\ call' = "none"
  /\ LoadDll /\ exists' = Succeeds
  /\ cnc' = TRUE
  /\ UNCHANGED <<bound, connected, connectCount, world, wild>>

(* The port may be taken.                                                  *)
Start ==
  /\ call = "Start"
  /\ cnc' = TRUE /\ bound' \in {bound, TRUE}
  /\ Return
  /\ UNCHANGED <<dll, connected, connectCount, world, wild>>

(* The object goes on serving.                                             *)
Stop ==
  /\ call = "Stop"
  /\ Return
  /\ UNCHANGED <<object, world, wild>>

(* Quit() deletes the object; the library takes its globals with it.       *)
Quit ==
  /\ call \in {"Quit", "Unload"}
  /\ NoObject
  /\ Return
  /\ UNCHANGED <<installed, gui, wild>>

MutantConnecting == gui /\ ~connected /\ connectCount > Settled
Connecting == gui /\ ~connected /\ connectCount >= Settled

(* PollConnected(), and then the log of EdingCNC is asked for whether      *)
(* there is a connection or not.                                           *)
PollWaits ==
  /\ call = "Poll" /\ ~Connecting
  /\ connectCount' = IF ~gui THEN 0 ELSE IF connected THEN connectCount ELSE connectCount + 1
  /\ wild' = (wild \/ dll # "loaded")
  /\ Return
  /\ UNCHANGED <<cnc, dll, bound, connected, world>>

MutantAccepted(served) == TRUE
Accepted(served) == served

(* CncConnectServer() says that EdingCNC runs; CncIsServerConnected() may  *)
(* still say no, and the next poll tries again.                            *)
PollConnects(served) ==
  /\ call = "Poll" /\ Connecting
  /\ served => Succeeds
  /\ LoadDll
  /\ wild' = (wild \/ dll' # "loaded")
  /\ link' = served /\ connected' = Accepted(served)
  /\ Return
  /\ UNCHANGED <<cnc, bound, connectCount, installed, gui, lost>>

(* UpdateState() and the commands do not look at m_connected.              *)
Request ==
  /\ bound
  /\ wild' = (wild \/ dll # "loaded")
  /\ UNCHANGED <<call, exists, object, world>>

(* m_connected does not notice that the GUI has ended.                     *)
Gui ==
  /\ gui' = ~gui
  /\ link' = (link /\ gui') /\ lost' = (lost \/ link)
  /\ UNCHANGED <<call, exists, object, installed, wild>>

Plugin ==
  \/ ControlExists \/ Start \/ Stop \/ Quit
  \/ PollWaits \/ \E served \in BOOLEAN : PollConnects(served)
Others == Request \/ Gui
==============================================================================
