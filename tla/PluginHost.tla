----------------------------- MODULE PluginHost ------------------------------
(***************************************************************************)
(* The client as the host of a plugin (src/cncclient.cpp, USE_PLUGINS): it *)
(* loads the library, asks it whether its control exists, and from then on *)
(* starts, polls and stops it, all on the user's thread.  A call of one of *)
(* the plugin's functions is in "call" until the plugin has carried it out *)
(* (and has answered ControlExists() in "exists"); one plugin stands for   *)
(* all of m_plugins.  The user may do anything in any order, destroy the   *)
(* client and make another.                                                *)
(***************************************************************************)

Calls == {"ControlExists", "Start", "Stop", "Poll", "Quit", "Unload"}

VARIABLES
  call,        \* the function of the plugin that is being called, or "none"
  exists,      \* what ControlExists() has answered
  loaded,      \* m_plugins holds the plugin
  m_plugin,    \* m_plugin points to it
  thread       \* what the user's thread does next; "user": what the user likes

hostVars == <<call, exists, loaded, m_plugin, thread>>

Init ==
  /\ call = "none" /\ exists = FALSE
  /\ loaded = FALSE /\ m_plugin = FALSE
  /\ thread = "user"

Asks(function, next) == call' = function /\ thread' = next /\ UNCHANGED exists
Free == call = "none" /\ thread = "user"
Returned(next) == call = "none" /\ thread = next

(* Plugins are only enumerated once.  One that refuses is unloaded again.  *)
LoadPlugins ==
  /\ Free /\ ~loaded
  /\ Asks("ControlExists", "load")
  /\ UNCHANGED <<loaded, m_plugin>>

Enumerated ==
  /\ Returned("load")
  /\ loaded' = exists
  /\ Asks(IF exists THEN "none" ELSE "Unload", "user")
  /\ UNCHANGED m_plugin

(* Connect() to a plugin stops the one in use and starts the new one,      *)
(* whatever Start() returns.                                               *)
MutantStopsFirst == FALSE
StopsFirst == m_plugin

Connect ==
  /\ Free /\ loaded
  /\ IF StopsFirst THEN Asks("Stop", "start") ELSE Asks("Start", "user")
  /\ m_plugin' = ~StopsFirst
  /\ UNCHANGED loaded

ConnectStarts ==
  /\ Returned("start")
  /\ Asks("Start", "user") /\ m_plugin' = TRUE
  /\ UNCHANGED loaded

(* Disconnect(), or Connect() to a remote server.                          *)
Disconnect ==
  /\ Free /\ m_plugin
  /\ Asks("Stop", "user") /\ m_plugin' = FALSE
  /\ UNCHANGED loaded

(* The destructor: Disconnect(), Quit(), and the library is unloaded.      *)
Destroy ==
  /\ Free /\ loaded
  /\ Asks(IF m_plugin THEN "Stop" ELSE "none", "quit") /\ m_plugin' = FALSE
  /\ UNCHANGED loaded

DestroyQuits ==
  /\ Returned("quit")
  /\ Asks("Quit", "unload")
  /\ UNCHANGED <<loaded, m_plugin>>

DestroyUnloads ==
  /\ Returned("unload")
  /\ Asks("Unload", "user") /\ loaded' = FALSE
  /\ UNCHANGED m_plugin

Poll ==
  /\ Free /\ m_plugin
  /\ Asks("Poll", "user")
  /\ UNCHANGED <<loaded, m_plugin>>

Host ==
  \/ LoadPlugins \/ Enumerated \/ Connect \/ ConnectStarts
  \/ Disconnect \/ Destroy \/ DestroyQuits \/ DestroyUnloads \/ Poll
==============================================================================
