----------------------------- MODULE LinuxPlugin -----------------------------
(***************************************************************************)
(* The LinuxCNC plugin of the client (drivers/linuxcnc/plugin/main.cpp):   *)
(* it runs cncremote.sh in a process group of its own, first to find out   *)
(* whether there is a server, later to run it, and reads what the script   *)
(* prints from a pipe.  The script and its server live their own lives; so *)
(* does a server that somebody else has started on the same port.          *)
(***************************************************************************)

VARIABLES
  call, exists,   \* the host's call, as in PluginHost
  exec,           \* exec: "null", "open", "eof" (feof), or "closed" but set
  child,          \* the process execPid names
  task,           \* what it was started for
  serverPath,     \* g_serverPath is not empty
  foreign,        \* a server that is not ours has the port
  stray,          \* history: a process of ours that execPid no longer names
  adopted,        \* history: the last Start() found somebody else's server
  early,          \* history: the last Stop() came before the child's group
  misused         \* history: a closed stream was used, without an adopted server

Children == {"none", "forked", "running", "serving", "ended"}

process == <<child, task, stray>>
linuxHistory == <<adopted, early, misused>>
linuxVars == <<call, exists, exec, process, serverPath, foreign, linuxHistory>>

(* The globals of a library that has just been loaded.                     *)
Fresh == exec = "null" /\ serverPath = FALSE

Init ==
  /\ Fresh
  /\ child = "none" /\ task = "check" /\ foreign \in BOOLEAN
  /\ stray = FALSE /\ adopted = FALSE /\ early = FALSE /\ misused = FALSE

Alive == child \in {"forked", "running", "serving"}
Answers == foreign \/ child = "serving"          \* to a Ping()

Return == call' = "none" /\ UNCHANGED exists
ReturnExists(found) == call' = "none" /\ exists' = found

-----------------------------------------------------------------------------
(* ExecStart() and pclose2().                                              *)

ExecStart(for) ==
  /\ exec' = "open" /\ child' = "forked" /\ task' = for
  /\ stray' = (stray \/ Alive)

(* ControlExists(): a server that answers is proof enough; no path is kept *)
(* then.  Else the script is asked, and its output read to the end.        *)
ControlExistsAtOnce ==
  /\ call = "ControlExists" /\ Answers
  /\ ReturnExists(TRUE)
  /\ UNCHANGED <<exec, process, serverPath, foreign, linuxHistory>>

ControlExistsAsks ==
  /\ call = "ControlExists" /\ ~Answers
  /\ ExecStart("check") /\ call' = "asking"
  /\ UNCHANGED <<exists, serverPath, foreign, linuxHistory>>

(* At the end of its output, the child is waited for (line 128).           *)
ControlExistsEnds ==
  /\ call = "asking" /\ child = "ended"
  /\ exec' = "null" /\ child' = "none"
  /\ \E ok \in BOOLEAN : serverPath' = (serverPath \/ ok) /\ ReturnExists(ok)
  /\ UNCHANGED <<task, stray, foreign, linuxHistory>>

(* Start() does not wait for the server: the loop at line 182 ends before  *)
(* it begins, since its time is always in the future.                      *)
Start ==
  /\ call = "Start"
  /\ IF Answers \/ ~serverPath
     THEN UNCHANGED <<exec, process>>
     ELSE ExecStart("server")
  /\ adopted' = foreign
  /\ Return
  /\ UNCHANGED <<serverPath, foreign, early, misused>>

(* kill(-execPid): the group, once there is one.                           *)
MutantKilled == IF child = "serving" THEN "running" ELSE child
Killed == IF child \in {"running", "serving"} THEN "ended" ELSE child

StopIdle ==
  /\ call = "Stop" /\ exec = "null"
  /\ Return
  /\ UNCHANGED <<exec, process, serverPath, foreign, linuxHistory>>

StopKills ==
  /\ call = "Stop" /\ exec \in {"open", "eof"}
  /\ child' = Killed /\ early' = (child = "forked")
  /\ exec' = "closed" /\ call' = "waitpid"
  /\ UNCHANGED <<exists, task, stray, serverPath, foreign, adopted, misused>>

StopWaits ==
  /\ call = "waitpid" /\ child = "ended"
  /\ child' = "none"
  /\ Return
  /\ UNCHANGED <<exec, task, stray, serverPath, foreign, linuxHistory>>

(* The stream that Stop() has closed: what happens is undefined; here, it  *)
(* is noted and nothing happens.                                           *)
Misuse ==
  /\ call \in {"Stop", "Poll"} /\ exec = "closed"
  /\ misused' = (misused \/ ~adopted)
  /\ Return
  /\ UNCHANGED <<exec, process, serverPath, foreign, adopted, early>>

(* Poll(): fgets() waits until the server prints or ends.                  *)
PollIdle ==
  /\ call = "Poll" /\ exec = "null"
  /\ Return
  /\ UNCHANGED <<exec, process, serverPath, foreign, linuxHistory>>

PollReads ==
  /\ call = "Poll" /\ exec = "open" /\ child \in {"running", "serving"}
  /\ Return
  /\ UNCHANGED <<exec, process, serverPath, foreign, linuxHistory>>

PollFindsEnd ==
  /\ call = "Poll" /\ exec = "open" /\ child = "ended"
  /\ exec' = "eof"
  /\ Return
  /\ UNCHANGED <<process, serverPath, foreign, linuxHistory>>

PollCloses ==
  /\ call = "Poll" /\ exec = "eof"
  /\ exec' = "null" /\ child' = "none"
  /\ Return
  /\ UNCHANGED <<task, stray, serverPath, foreign, linuxHistory>>

(* Quit() does nothing; unloaded and loaded again, the globals are fresh.  *)
Quit ==
  /\ call = "Quit"
  /\ Return
  /\ UNCHANGED <<exec, process, serverPath, foreign, linuxHistory>>

Unload ==
  /\ call = "Unload"
  /\ exec' = "null" /\ serverPath' = FALSE
  /\ adopted' = FALSE /\ early' = FALSE /\ misused' = FALSE
  /\ Return
  /\ UNCHANGED <<process, foreign>>

-----------------------------------------------------------------------------
(* The processes.                                                          *)

(* setpgid(), in the child.                                                *)
Group ==
  /\ child = "forked" /\ child' = "running"
  /\ UNCHANGED <<call, exists, exec, task, stray, serverPath, foreign, linuxHistory>>

Serve ==
  /\ child = "running" /\ task = "server" /\ ~foreign
  /\ child' = "serving"
  /\ UNCHANGED <<call, exists, exec, task, stray, serverPath, foreign, linuxHistory>>

End ==
  /\ child \in {"running", "serving"} /\ child' = "ended"
  /\ UNCHANGED <<call, exists, exec, task, stray, serverPath, foreign, linuxHistory>>

Foreign ==
  /\ child # "serving" /\ foreign' = ~foreign
  /\ UNCHANGED <<call, exists, exec, process, serverPath, linuxHistory>>

(* All but what may take as long as the server likes.                      *)
Prompt ==
  \/ ControlExistsAtOnce \/ ControlExistsAsks \/ ControlExistsEnds
  \/ Start \/ StopIdle \/ StopKills \/ StopWaits \/ Misuse
  \/ PollIdle \/ PollFindsEnd \/ PollCloses \/ Quit \/ Unload

Plugin == Prompt \/ PollReads

Processes == Group \/ Serve \/ End \/ Foreign
==============================================================================
