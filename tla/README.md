# Verification of CNCRemote

CNCRemote lets a program drive a CNC machine over the network. A *server* is
linked into, or runs beside, the machine's controller (LinuxCNC, Mach3,
EdingCNC, a simulator); a *client* library gives a program a picture of the
machine's state and a set of commands, and can host *plugins* that start the
server for it. These modules model how the two sides work together and how the
drivers and plugins work against their controllers. TLC
checks them on small instances; TLAPS proves the most important facts for all.

Paths are relative to `src/` (so `src/cncclient.cpp` is `src/src/cncclient.cpp`
in PROJECT.json).

## 1. The system

| Part | State it keeps | Operations | Modelled in |
|---|---|---|---|
| `RemoteCall` (`src/cncclient.cpp` 52-138) | `m_busy`, `m_hasResponse`, `m_response`, `m_error` | `Call`, `CallAsync`, `GetResponse`, `ClearResponse`, `OnResponse`, `OnError` | `RemoteCall`, contract `CallContract` |
| `Client`: polling, connection (141-550, 815-831) | `m_serverVer`, `m_state`, `m_statusCache`, `m_busyHeart`, `m_heartBeat`, `m_StatusCall`, `m_retries` | `Poll`, `IsBusy`, `SetBusy`, `OnConnect`, `OnDisconnect`, `OnDisConnect2` | `StatusPoll` |
| `Client`'s commands, `Server::Handler` (528-812; `src/cncserver.cpp` 40-470) | the table of bound functions; the messages under way | every method of `Client`; `OnMessage`, `BindRequest`, `BindNotify`, the request and notification handlers | `Dispatch` |
| File transfer (`cncclient.cpp` 609-658, `cncserver.cpp` 493-559) | `m_file`, `m_curBlock`, `m_curFile` of the one server; locals of `LoadFile` | `LoadFile`, `CloseFile`, `SendInit`, `SendData`, `DeleteTemp` | `FileUpload` |
| Error and message log (`cncserver.cpp` 561-612, `cncclient.cpp` 782-812) | `m_errors`, `errorCount`; `m_errIndex` of each client | `LogError`, `GetError`, `GetState_`, `GetNextError` | `MessageLog` |
| LinuxCNC server (`drivers/linuxcnc/server`) | NML buffers, heartbeat, `g_jogAxes`, `m_state` | `ConnectLCnc`, `Poll`, `UpdateState`, all commands | `LinuxCnc` (partly) |
| Mach3 server (`drivers/Mach3/MachServer.cpp`) | `m_jogAxes`, `m_filePath`, `m_state` | `Poll`, `LoadThread`, all commands | `Mach3` (partly) |
| `Client` as a plugin host (`cncclient.cpp` 276-526, `USE_PLUGINS`) | `m_plugins`, `m_plugin` | `LoadPlugins`, `Connect`, `Disconnect`, `Poll`, the destructor | `PluginHost`, in `Drivers` |
| LinuxCNC plugin (`drivers/linuxcnc/plugin`) | `exec`, `execPid`, `g_serverPath`; the processes it starts | `ControlExists`, `Start`, `Stop`, `Poll`, `Quit` | `LinuxPlugin`, in `Drivers` |
| EdingCNC plugin and server (`drivers/EdingCNC402`) | `g_cnc`, `m_cncDll`, `m_connected`, `m_connectCount`; `m_zMax`, the locals of `CheckPause` | the plugin's functions, `LoadDll`, `PollConnected`; the commands, `CheckPause`, `WaitMove` | `EdingLink`, `EdingCnc`, in `Drivers` (partly) |
| Simulator (`drivers/Sim/server`) | `machine`, `m_state` | `Poll`, `JogVel`, `JogStep`, `DrivesOn`, `FeedOverride` | `Sim`, in `Drivers` (partly) |
| Preview, plugin helpers, timers, Simulator plugin, vendored code | none, or display only | | not modelled |

How they interact. Everything goes over one TCP socket per client, through the
library *linear* (a git submodule, not in the tree). linear has an event loop:
the *network thread*. On the client it runs the callbacks `OnResponse`,
`OnError`, `OnConnect` and `OnDisconnect` beside the user's GUI thread, which
calls `Poll` and the commands; **the client takes no lock anywhere**. On the
server the network thread runs one handler at a time; the driver's main thread
polls the controller. They share `m_state` under `m_syncLock` and the logs
under `m_msgLock`.

What is hard:

* unlocked flags written in an order that the other thread relies on
  (`RemoteCall`, `Client::Poll`, Mach3's `JogVel` against `Poll`);
* a blocking call and linear time out independently, so an answer may come
  after the call has thrown (`RemoteCall`, `FileUpload`, `MessageLog`);
* the connection is lost and comes back, perhaps to another server, at any
  point of `Poll`;
* the state that a client holds is older than the commands it has sent
  (`m_statusCache`), and the server acts on a state older than the controller's;
* several clients share one upload, and one log;
* the controller dies without telling (LinuxCNC's heartbeat), or is operated by
  somebody else meanwhile (Mach3, EdingCNC);
* a plugin starts processes and loads libraries that come and go by themselves,
  and its calls block the user's thread;
* EdingCNC's return to a pause takes three moves, between which anything may
  happen, while the network thread waits.

What makes each component correct: a call's user sees the answer of that call
or an error and nothing else (`RemoteCall`); a machine told to move is busy
until a newer state says otherwise, and not for ever after (`StatusPoll`); a
method of the client has the server do what it is named after, and who waits is
answered (`Dispatch`); what the control loads is one client's whole file, which
is true of uploads that the running server has served from their start
(`FileUpload`); every client sees every error once, in order (`MessageLog`); a
dead LinuxCNC is reported, a live one is connected to, a moving axis is known to
move (`LinuxCnc`); what Mach3's engine drives can be stopped (`Mach3`); a plugin
is never used without its library or stream, returns, and leaves no process
behind (`PluginHost` with `LinuxPlugin` or `EdingLink`); a job goes on only where
it was paused, and the tool comes there lifted (`EdingCnc`); moves end and drives
that are off stand still (`Sim`).

## 2. The modules

`M.tla` is a component; `MCM.tla`, where there is one, instantiates it for TLC;
`MProofs.tla` holds its theorems. `PROJECT.json` maps each definition to lines.

**RemoteCall** — the objects are either members (of `Client`, or of the user),
which outlive their calls, or the locals of blocking methods, which stand at the
same place on the stack one after the other (`Stack`). `CallAsync` is `MayBegin`
and `Begin` (busy set, old response forgotten), then linear either accepts or
`TransferFails`. `OnResponse` is three steps, as the GUI thread can see
them: the response, `m_hasResponse`, `m_busy`. `Call` is a call whose thread
waits; it returns, throws, or `WaitTimesOut` and its object is destroyed.
`returned` and `current` number the calls; they are history. **CallContract**
is what a user of one object relies on: a call is opened, gets its own answer
or none, the answer stays until the next call.

**StatusPoll** — one client. The GUI thread's `Poll` is cut where it can lose
the processor between two looks at shared state (`ReadVersion`,
`AcceptVersion`, `AskVersion`, `StoreState`, `AskState`); a command is
`SetBusy` and a send. `lag` is `m_busyHeart - m_heartBeat`. `issued`, `owed`,
`reported`, `torn` are history. Uninitialised counters start with any value of
`Garbage`.

**Dispatch** — what each method sends (name, type, kind of arguments) against
the table of bound functions, including `SetName`, which makes `GetState_`
answer to `GetState`. Arguments are their types. The three handler templates and
the error paths of `OnMessage` decide what is answered. `promised` and
`executed` are history: what each call stands for, and what the server called for
each message, "none" for one that it refused.

**FileUpload** — clients send their blocks one call after the other, and each
call may time out with the request still to be served. An answer (`GoOn`) and the
next call (`NextCall`) are two steps, for `LoadFile` reads its file and polls in
between: there the connection may be lost (`Disconnect`), other clients may be
served, or the server may end and start again (`Restart`) without the client
noticing. `asked` says that it waits for an answer.
Content is the sequence of (client, block) written; `earlier`, the number of files
that earlier servers have made, is history. Every failure path of `SendInit` and `SendData` is an
action or a disjunct, also a last block that `fclose` cannot write (`cut`).
C leaves open what using a closed stream does; the model takes it at its
mildest: a second `fclose` does nothing, an `fwrite` fails. **ControlFile** is
what loading promises: the control gets a file in one step, and it is the whole
file of the client that loads it, or one that `fclose` has cut, or one that an
earlier server has left, loaded by a client that was uploading it when that
server ended (`late`; nobody becomes late while a server runs). `FileUpload` is
shown to implement it (`KeepsWholeFiles`; the mapping is what is loaded, and the
clients with a call for an old file).

**MessageLog** — driver, server and clients; `LogError` writes the list under
one lock and the count under another, in two steps. Messages are the same code
on the second list. **ErrorBroadcast** is what those who look at the log rely on:
each client shows error after error, the next one as long as no list was emptied,
else a later one or an empty string.

**LinuxCnc** — `main` (connect, poll, disconnect) and the network thread, which
serves a command message by message, with the lock. LinuxCNC itself may start,
die, beat, refuse, and stop axes. `broken` is a use of deleted buffers.

**Mach3** — `Poll` in Mach3's loop (axis part without the lock, then the state
with it), the network thread, one load thread per file, the operator and the
engine. One axis: the loop treats each by itself. Mach3 may fail to load the file
it is told to load, and nobody looks; `tried` is history.

**PluginHost** — the client's side of a plugin. The user's thread calls one of
the plugin's functions (`call`) and goes on when the plugin has returned
(`thread`); one plugin stands for the list. **LinuxPlugin** and **EdingLink** are
two plugins that take these calls. The first runs `cncremote.sh` in a child
process: `exec` is the pipe, `child` the process, from the fork over its own
process group to a server that has the port; other people may run servers on
that port (`foreign`). The second is a plugin and a server in one; it loads
EdingCNC's library and, poll by poll, waits for EdingCNC's GUI and connects.
What C leaves open when a closed stream or a freed library is used is only noted
(`misused`, `wild`).

**EdingCnc** — the EdingCNC server's commands on the network thread against
EdingCNC, which its operator, its emergency stop and the machine drive as well.
EdingCNC's state is two variables, what the interpreter does and the movement
laid over it; one place beside the other (`x`) and one height (`z`) stand for
the axes. Each call into EdingCNC's library is atomic; `CheckPause` is cut at its
three `WaitMove`s. `told`, `from` and `disturbed` are history.

**Sim** — the simulator's main loop and its network thread; one axis, of which
only the distance to go matters.

**Drivers** — the drivers and what they work with, side by side: `system` says
which of four the machine has, so that they share the host and the run, and
nothing else. It states the fairness of each.

The components do not share state at run time except through the promises named
above (a blocking method relies on `CallContract`; `FileUpload` and `MessageLog`
take from it that a call may time out with its request under way, and that a late
answer is dropped), so they are composed by these interfaces and not by one
product, which TLC could not explore. The last assumption holds for objects that
outlive their calls; for the locals of blocking methods it does not
(`call_wrong_answer`), so what `FileUpload` and `MessageLog` show is true as long
as no late answer meets the next call at the same place on the stack.

## 3. The runs

| Run | Question | Answer |
|---|---|---|
| `remote_call` | Does a lasting `RemoteCall` ever show an answer of another call? Does it implement `CallContract`? | no; yes |
| `call_wrong_answer` | Does a blocking method always return its own answer, as `cncclient.h` 84 says? | **no** |
| `status_poll` | Busy until seen, never for ever; each loss told once | holds |
| `polling_stops` | Does polling bring states while connected? (`cncclient.h` 201) | **no** after a `Version` that could not be sent |
| `dispatch` | Do methods do what they are named after; is everybody answered? | yes, but for the two left out |
| `cycle_stop_starts` | The same with `CycleStop` (`cncclient.h` 222) | **no**, it starts |
| `file_upload` | Does uploading implement `ControlFile`: is what is loaded whole, and unchanged until it is closed, with two clients, timeouts, failures and a restart? | yes, unless `fclose` failed or the upload was begun on an earlier server |
| `message_log` | Every error once, in order, to every client? | never twice or out of order; none left out without a restart |
| `linuxcnc` | Death reported, connection restored, moving axes known | yes, short of a crash |
| `linuxcnc_stop_lost` | Does a `JogVel` of 0 stop an axis? (`cncclient.h` 210) | **no** after a lost stop |
| `mach3` | Is every driven axis watched and stopped, and is Mach3 told to load every accepted file? | yes |
| `drivers` | Does a plugin go astray, block or leave a process behind; is EdingCNC linked to; does the tool return lifted to where it was paused, and does `CycleStart` return; do the simulator's moves end and its drives stay off? | holds, with the exceptions that the properties name |

Bounds, and why they are enough:

* `remote_call`: one member, one local, `MaxCalls` = 4. A late answer needs two
  calls, a late answer with another in between three. The inductive invariant of
  the proof is per object, so more objects add nothing.
* `status_poll`: two commands, two connections, two levels, an idle and a
  running machine, versions on both sides of the minimum, counters that start
  at 0 or 7. A command overtaken by a command, and a request left over from the
  connection before, are the longest stories.
* `file_upload`: two clients with files of two blocks, two requests under way
  each, two uploads, one restart. One client may interrupt the other; a call may
  be served after its client has begun another; and a restart may fall between a
  client's two blocks while the other begins on the new server, so that a block
  gets into the other's file. The clients are alike and symmetric; the property
  is a safety property, for which that is sound. The theorem has no such bounds.
* `message_log`: two clients, three errors, two requests under way, one failure,
  one restart: a client that has shown one error before the restart shows the
  second one of the new list. Two failures with three errors pass as well (three
  minutes).
* `dispatch`: every method once in any order, three calls; a polled `GetState`
  beside a blocking call; four foreign messages.
* `linuxcnc`: one axis with speeds 0, 1, 2; starts and deaths are not bounded.
* `drivers`: two places, two heights, distances and speeds up to two; starts and
  ends of processes, GUI and server are not bounded. Heights are only compared,
  and only their maximum is taken, so that what goes wrong with any heights goes
  wrong with a low one and a high one; with three heights (600,000 states, four
  minutes) the run passes as well. A step of two over a distance of one is what
  makes the simulator swing.
* `mach3`: one axis, both directions, two calls of `LoadFile`, so that two load
  threads race. The others are not bounded.

`CHECK_DEADLOCK FALSE` is said only where a bound on calls, connections or
uploads makes the model stop; LinuxCnc, Mach3 and Drivers are checked for deadlock.

Fairness, and what in the code justifies it:

* linear's event loop keeps running and times out what is not answered
  (`RemoteCall`: WF of the network).
* The user calls `Poll` again and again, as `cncclient.h` 201 asks (`StatusPoll`,
  `MessageLog`: WF, SF where the client may be disconnected for a while).
* `StatusPoll`: SF of `OnResponse /\ poll = "out"`: answers do not always fall
  into the microseconds of a `Poll`; else one could be torn each time.
* `MessageLog`: at most `MaxFailures` calls fail, so in the end the server
  answers in time.
* `LinuxCnc`: both threads get the lock (SF: the other holds it again and
  again); some client polls; LinuxCNC that is up beats more than once a second
  (guard of `Tick`). `ConnectStatus` waits for the command under way, since
  `ConnectLCnc` has slept half a second and, without buffers, a command returns
  at once. `live` says for all three buffers at once whether they are those of
  the LinuxCNC that runs.
* `Drivers`: a function of a plugin goes on unless it waits for a process that
  prints nothing (`PollReads`) or does not end; a child makes its group; the
  check of `cncremote.sh`, a script that compiles, ends. EdingCNC that runs and is
  asked again and again serves in the end (SF, since its GUI may be gone at
  times). A move that `CncMoveTo` has begun is carried out; `WaitMove` looks every
  50 ms (SF: it sees a rest that comes again and again). The simulator's two
  threads go on.
* `Mach3`: Mach3 calls `Poll` in its loop; threads get the lock (SF); the engine
  obeys `Dec`.

No fairness is assumed of operators, of users' commands, or of failures.

## 4. The proofs

Each is for all values of the constants, from the named assumptions of the
module (natural bounds, states that are naturals, 0 among the speeds, at least
one client, methods that `Client` has). Three theorems have hypotheses of their
own, named below: `MemberImplements`, `GreetsOnce` and `CallsReachTheirFunctions`.

* `RemoteCallProofs`: `TypeCorrect`, `CurrentResponse`, `OwnAnswerReturned`,
  `ErrorExcludesAnswer`, `IdleUntouched`, `StableResponse`, `Implements`,
  `MemberImplements`. The inductive invariant
  `IInv` says of each lasting object where its latest call is: with linear
  (nothing visible), in the callback (the order of its three writes), or done.
  The plain properties are not inductive, since they say nothing of an answer
  under way. `Implements` shows that the steps of each lasting object are steps
  of `CallContract` or stutter; `MemberImplements` is its instance for the object
  `member` that TLC checks (`KeepsContract`), if that is one of the lasting ones.
* `StatusPollProofs`: `TypeCorrect`, `LossesAreReported`, `BusyHolds`. `CallInv`
  says that at most one of request, answer and callback exists; `CacheInv` that,
  when one more state would clear the cache, that state was asked for after the
  last command. `BusyUntilSeen` alone is not inductive, because it does not see
  the request under way. `LossInv` relates the count of losses told to
  `m_retries` and the callback in progress. Further `OneAtATime` (`RequestInv`:
  what of `CallInv` survives an answer torn by `Poll`, and that a version is
  asked for only while none is known) and `GreetsOnce` (`GreetInv`: who still
  wants a version has not been greeted). The latter has the proviso that the
  minimum version is not 0, which stands for "not known".
* `DispatchProofs`: `TypeCorrect`, `AnswersCome`. `Awaited` says of who waits
  that exactly one element of the two queues is for him; the lemmas
  `AppendCounts` and `TailCounts` say how a queue's ends change that.
  `CallsReachTheirFunctions` is `ExecutesAsPromised` for any `Methods` without
  `CycleStop` and `GetMCodesAsync`, which are known to send the wrong name, and
  any `Foreign` messages that the server refuses (TLC evaluates that of the four
  it uses: `ForeignAssumption`); a foreign message that names a bound function has
  it called, of course. The argument is `InStep`: what was called is the
  beginning of what was promised, and each message under way stands for
  the promise at its place (`Stands`). That a message stands for what its method
  promises is a look at two tables, line by line (`SendsWhatItStandsFor`): the
  server finds exactly one row by the name (`NamesAreUnique`, also for `GetState_`
  under its second name), and the row takes what the client sends.
* `FileUploadProofs`: `TypeCorrect`, `WholeFilesKept`, the refinement of
  `ControlFile`. The control loads a file in one step, so the invariant must say
  long before that its blocks are right: a client that waits for an answer waits
  for that to the newest of its requests (`AwaitInv`); a client that still has the
  name of a file that exists and is of this server has sent its blocks to it, and
  they are in front (`Sent`); such a file for which a `LoadFile` is under way or
  due is finished and its stream is not open (`Ready`). `Ready` is about every
  `LoadFile` that is queued, not only the newest, since any number of requests may
  have timed out and still be served. Of files of earlier servers the refinement
  says who may load them; that nobody is added while a server runs is
  `LateShrinks`, as the names that `SendInit` returns are new.
* `MessageLogProofs`: `TypeCorrect`, `ErrorsShownInOrder`, and
  `ImplementsBroadcast`, the refinement of `ErrorBroadcast` (`shown` and the number
  of errors logged are the mapping; only `LogError`, `Restart` and an answer that
  is waited for are more than stutters). A client's index is
  the number of calls that have returned, and the newest request asks for what
  stands at the index (`AskedInv`). Errors are numbered over all servers and a
  server's list goes on from `Before`, the number that earlier ones have
  logged; what is shown at a place is no newer than what the present list has or
  will have there (`ShownInv`), so that the next answer is newer than everything
  shown (`NextIsNewer`), over any number of restarts. That none is left out
  holds for the first server only (`FirstInv`): no count that is told
  or known exceeds its list, so that `GetNextError` never returns the empty string.
  `AnswerIs` says what an answer that is waited for can be; the refinement
  is proved only, and `ErrorsShownInOrder` is what TLC checks of it.
* `Mach3Proofs`: `TypeCorrect`, `DrivenAxesAreWatched`. `Poll` decides about an axis
  only while it watches it (`WatchInv`); a load thread is counted once, wherever it
  is, and belongs to one call (`LoadInv`).
* `DriversProofs`: `TypeCorrect`, `NoStrayCallsAlways`, `NothingIsLeftBehind`,
  `ReturnIsLifted`, `JobResumesAtPause`, of the composition. The invariant has a part
  for each component and says how the host's state and the plugins' fit together.
  `HostInv`: which function of the plugin may be called at which point of
  `LoadPlugins`, `Connect` and the destructor. `LinuxInv`: the stream to the child
  is open only while the client uses the plugin or stops it, and a child is there
  only with a stream. `WindowsInv`: the library is there from
  `ControlExists` to `Quit`, as long as the client can call the plugin.
  `EdingInv`: `m_zMax` is no lower than any height told since the job
  began (`HeightInv`), and what each of the three waits of `CheckPause` relies on
  until somebody interferes (`disturbed`): that a movement of its own goes where
  it was sent and a rest is the end of it (`Lifting`, `Traversing`, `Lowering`),
  and that it goes aside only at a height that is safe (`High`). `SimInv`: a
  step never leads farther off than the longest one. `NoStrayCalls` alone is not
  inductive, since it does not see that the client keeps no plugin that has
  refused or been stopped.
* `LinuxCncProofs`: `TypeCorrect` (with `LinkInv`: which buffers are there
  follows from where `main` is) and `MovingAxesAreCached`: the test of `SendJog`
  never mistakes a moving axis for a stopped one, provided its last message
  arrived. The proviso is needed: `linuxcnc_stop_lost`.

Model-checked only: everything under fairness (`CallsComplete`, `BusyExpires`,
`EveryErrorShown`, `DeadIsReported`, `ConnectedAgain`, `StopStops` and
`AcceptedIsTried` of Mach3, and `CallsReturn`, `ConnectsInTheEnd`,
`CycleStartReturns`, `MoveEnds` and `OffStandsStill` of `Drivers`), which is out of
the prover's reach. Every invariant and every action property of the runs that
pass, and all three refinements, are theorems.

## 5. What the code does not do

The four runs above that fail are findings in PROJECT.json. Seen while
modelling, with no run of its own:

* `StatusPoll`: `OnDisConnect2` on the network thread between `OnConnect` and
  `m_serverVer = ver` (`cncclient.cpp` 438-445) is undone, and the next
  connection is used without `OnConnect` or a look at its version; an answer or
  request of the last connection is kept (425); a state stored after the loss
  overwrites `mcNO_SERVER` (468).
* `Dispatch`: `GetMCodes(RemoteCall&)` sends `GetGCodes` (778), so the passing
  run leaves it out as well as `CycleStop`. `fileCount` never counts.
* `FileUpload`: the server restarts while `LoadFile` is between two blocks
  (`cncclient.cpp` 643). The client goes on after the reconnection, and when another
  client has just sent as many blocks to the new server, its next block is written
  to that one's file and answered with TRUE. It then loads the beginning of its
  file, which the old server has left, and returns TRUE, whereas `cncclient.h`
  215-217 says that the file is uploaded first and that a failure gives false. TLC finds
  this in twelve steps when `ControlFile` does not allow `Left`. Also,
  a closed stream is closed again or written to (556); `SendInit`
  ignores a refused `CloseFile` and removes the file the control runs; the result
  of `fclose` is not looked at (549); `LoadFile` never closes `fp` (616).
* `MessageLog`: after a restart of the server its first errors are skipped by a
  client that has seen as many before.
* `LinuxCnc`: `main.cpp` 160 and `linuxcnc.cpp` 242 use or delete the buffers
  without the lock that `cncserver.h` 76 asks for, and can meet the network
  thread (`broken`). `Home` homes all axes unless x, y and z are all asked for
  (then it homes all at once). `SingleStep` ignores its argument. `Poll` logs
  only the first of LinuxCNC's messages (278).
* `Mach3`: `LoadFile` returns true before the file is loaded, and `LoadThread`
  ignores what `LoadGCodeFile` returns (184): a file that does not exist is accepted
  and never loaded, whereas `cncserver.h` 144 says "Return false if the file could not
  be loaded (file does not exist, machine busy etc)" and `cncclient.h` 217 that the
  call blocks until the file is loaded. `DrivesOn(true)` twice before the next `Poll` switches the drives off
  again (213), as do the other buttons; `SingleStep` and `OptionalStop` set the LED
  that they compare with or press for (371-381); `UpdateState` leaves out the first
  axis (195); a second load thread may load the empty name (178); a start of a jog
  may be lost between lines 88 and 92; `CloseFile` and `Home` take the lock twice.
* `EdingCnc`: `JogStep`'s condition is inverted (572): a machine at rest does not
  step. A `JogVel` of 0 that comes before the tracking is seen is dropped (552), and
  `DrivesOn(false)` does not stop a tracking (480). `CycleStart` while the operator
  jogs in a pause throws `m_zMax` away (630). `CheckPause` goes on only after
  `CNC_IE_PAUSED_JOB_STATE`: a paused line, sub or search is lifted and then given
  up (1578). It lifts only if x or y differ, not for the rotary axes (1541). While
  it waits, no client is served. `GetOffset` 4 falls through and gives zeros (711).
* `EdingLink`: `m_connected` is never reset (250); a freed library counts as
  loaded (57); `Stop` leaves the server bound.
* `LinuxPlugin`: `Start`'s loop never runs (182), so that it fails and the client
  connects before there is a server; `Stop` leaves `exec` closed but set (206), and
  may kill nothing (205); `Poll` waits for the server's output on the user's thread
  (132). A server found by `ControlExists` leaves no path (229), so that a later
  `Start` finds none. The client ignores what `Start` returns (`cncclient.cpp` 508).
* `Sim`: nothing moves before the first `FeedOverride` (25, 79); a move may swing
  around its target for ever (79); `JogStep` moves with the drives off (125).

## 6. Not modelled, and why

Field by field copies of the machine's state and arithmetic of axes (display;
`machineState` of EdingCNC is one of them);
offsets and code lists (constants); the ini file; the Windows branch of the
upload (same protocol, another temporary file); Mach3's overrides and LED
toggles; Mach3's SDK glue; preview (no client calls it, and the one driver that
has it declares `StartPreview(const int)`, which does not override the base's
`StartPreview(unsigned)`, so that it is never reached); timers and string conversions; vendored headers and libraries.
More than half of the tree's lines are vendored (tinyxml2, pstdint, callback, the
SDK headers of Mach3 and EdingCNC), and two fifths of `EdingCNC.cpp` are commented out.
linear, LinuxCNC, Mach3, EdingCNC and the operating system are external: what is assumed of them is the actions
marked so in PROJECT.json.

## 7. Plan

Done, in the order of importance: RemoteCall with its contract, StatusPoll,
Dispatch, FileUpload with the abstract ControlFile, MessageLog, LinuxCnc and
Mach3, each with its proofs, and Drivers with PluginHost, LinuxPlugin, EdingLink,
EdingCnc and Sim, proved about as a whole. What is left:

1. The relay of LinuxCNC's errors, composed with `MessageLog`; Mach3's toggles.
2. The safety half of the liveness arguments: that each step of the simulator
   leads nearer to the target, that what a fair action waits for stays there.
