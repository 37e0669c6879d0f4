# Waymon in TLA+

Waymon shares one keyboard and mouse between a server, which captures them from
`/dev/input`, and clients, which inject them. What can go wrong is mostly
control: who has it, who believes to have it, and whether the user always gets
it back. Around that lie the questions of what arrives where: keys that stay
down, a cursor off the screen, devices that nobody gives back, a command that reports
what did not happen, a server that does not end. These modules model the program
as it is in the source; `PROJECT.json` maps every definition to the lines it
stands for.

## 1. The system

| Part | State it keeps | Operations |
|---|---|---|
| Input backend, `internal/input/all_devices_capture.go` | open device handlers, which are grabbed, the target client, the safety timer, the event channel | `SetTarget`, the reading goroutine of each device, the scan every 2 s, Ctrl+ESC |
| Client manager, `internal/server/manager.go` | registry of clients, active client, `controllingLocal`, monitors and cursors | switching, rotation, routing of input, registration, CLIENT_CONFIG, emergency release, shutdown notice |
| Emergency release, `internal/server/emergency.go` | time of the last activity | SIGUSR1, trigger file, activity monitor |
| SSH server, `internal/network/ssh_server.go` | sessions | session handler, approval of keys, writes to clients, start and stop |
| SSH client, `internal/network/ssh_client.go` | connection, callback | connect, receive loop, send |
| Input receiver, `internal/client/receiver.go` | connected, control status | messages, injection, release request, monitoring |
| Wayland virtual input, `internal/input/wayland_virtual_input.go` | the managers and devices it holds | start, stop, injection |
| Wayland libraries in the tree, `brain/wlturbo`, `brain/libwldevices-go` | objects, proxies, identifiers, heads and modes | requests, dispatch, round trips, managers |
| Displays, `internal/display` | nothing between calls | choice of a backend, detection, geometry |
| Interfaces, `internal/ui` | what is shown | keys, log lines, refresh, shutdown |
| IPC, `internal/ipc`, `cmd/switch.go` | socket and its connections | `waymon switch`, `waymon status` |
| Assembly, `cmd/server.go`, `internal/server/server.go` | the parts that have been started | start-up, signals, stop |
| Configuration, logger, generated code | | |

How they interact. Device goroutines put events into a channel of 1000; one
goroutine takes them out and calls `HandleInputEvent`, which writes to the
active client's SSH channel under the manager's and the SSH server's lock. The
manager calls `SetTarget` under its own lock. Ctrl+ESC and the safety timer
change the target from the backend's side, without the manager's lock; Ctrl+ESC
tells the manager afterwards, the timer tells nobody. The session handler
registers and unregisters clients. Each log line of INFO and above is handed to
the interface's loop and waits until it is taken. On the client one goroutine
receives and injects into virtual devices, and one goroutine per change tells the
interface. The client sends its
monitors once, after connecting; the server matches them to a session by name.
`waymon switch` is a process of its own that speaks to the server over a socket.
At the end the interface's shutdown callback, the main goroutine and the signal
handler may all stop the server.

The Wayland code waymon runs is not in the repository. `go.mod:6` requires
`wayland-virtual-input-go` v0.2.0, a released module, and there is no replace
directive; `brain/libwldevices-go`, which stands in the tree and has other types, is
linked by nothing in waymon, nor is `brain/wlturbo`.
Two consequences: `VirtualDevices` is a model of waymon's backend over an external
library, known from its use only; and `WlDisplay` and `OutputManagement` are about
the libraries in `brain`, and say nothing about a running waymon.

What makes it hard: three sources of truth about control (manager, backend, client)
that change under different locks; four goroutines that may take control back at any
time; timers that outlive the grab they guard; a write that blocks under two locks;
a log line that blocks under any of them; a target that is looked at twice on the
way of a key; sessions of one host that overlap; several readers of one Wayland
connection; a start-up that is not over when the stop begins, and a server that
listens from a goroutine of its own. `PROJECT.json` lists each such place under
`hazards`.

For each component, what makes it correct:

- backend: no target without a running safety timer; under local control no
  device grabbed but what a failed grab has left; a client that has the input has
  all devices but those opened since;
- manager: the active client is registered, input goes to it or to nobody, no
  other client is marked as controlled, the rotation is reversible;
- locks: one order, no deadlock of operations while clients read, and Ctrl+ESC
  and the safety timer free the devices even when one does not;
- link: a client that believes to be controlled is, or has its release on the
  way; no input after a release; a release that is asked for happens;
- keys: the keyboard of the client in control follows the real one until the
  client's user takes control back;
- screens: monitors belong to the session's own host, the tracked cursor is in
  their box and stays with the real one while nobody else moves that;
- virtual devices: what is open is what is held; no event goes to a closed device;
  no late stop takes devices away; a client that says it is ready injects;
- output manager: events reach the object they are for; the heads returned are
  complete and follow the outputs;
- IPC: a command reports what was done;
- assembly: nothing is used before it is there; clients are told of the end; a
  stop leaves nothing; a stop ends.

## 2. The modules

| Module | Models | Uses |
|---|---|---|
| `ControlOwner` | abstract specification: control belongs to the desktop or to one connected client, and input goes to its owner or to the desktop | |
| `InputCapture` | the input backend, several devices, any caller | |
| `ClientManager` | the server: manager, sessions, emergency release | `InputCapture`, `ControlOwner` |
| `ServerLocks` | the server's goroutines lock by lock, with blocking writes and log lines | |
| `ControlLink` | server, SSH channels and clients with their interfaces | |
| `KeyPath` | a key from the device to the keyboards of the clients | |
| `Monitors`, `Detection` | geometry; the choice of a display backend and what each makes of a machine's outputs (pure functions) | |
| `Screens` | monitors, cursors and pointers of several hosts and sessions | `Detection`, `Monitors` |
| `VirtualDevices` | the client's input backend over an external library, and the client's loop that starts and stops it | |
| `WlDisplay` | a Wayland connection of `brain/wlturbo` as a value with functions on it | |
| `OutputManagement` | the output manager of `brain/libwldevices-go` and the goroutines that read its connection | `WlDisplay` |
| `SwitchSocket` | the IPC socket and `waymon switch` | |
| `ServerLife` | the server's process from start to end | `SwitchSocket` |
| `...Proofs` | theorems, section 5 | the module they are named for |

The `MC...` modules give constants their values for TLC.

### InputCapture

One action is one critical section of `AllDevicesCapture.mu`. `ClearTarget`,
`GrabAll` and `GrabFails` are the three outcomes of `SetTarget`: the last leaves the
devices that were grabbed in the loop grabbed, as the code does; `leftover`
remembers those that are then grabbed for nobody, `late` the handlers opened since
the last full grab. `Fire` and `TimerCallback` separate the expiry of a timer from
its callback's turn at the mutex. The callback clears every flag, whether or not the
release worked; `SetTarget("")` keeps the flag of a handler it could not release,
which only a dead one is. Timers are objects: `ArmTimer` starts a new one and
forgets the old one, which is what an overwritten `grabTimer` field does. `Timers`
bounds how many are alive at once. A handler is `dead` when its device has been
unplugged; the scan compares paths only. The Ctrl+ESC goroutine is `chord`; one is
in flight at a time (a bound: more of them repeat the same idempotent steps).

### ClientManager

One action is one critical section of `ClientManager.mu`, with the call of
`SetTarget` in it; `ServerLocks` looks between them. A command that chooses a
client, unlocks and then calls `SwitchToClient` is two actions with `chosen`
between them, so the chosen client may be gone. Sessions pass through `open` (in
the SSH table), `serving` (registered) and `closing` (out of the table, still
registered). `tripped` is the activity monitor between its check and its
release; `idle` stops one tick above the time-out (a bound). Clients are numbers,
whose order stands for that of addresses as strings. `NoClient` is `""`. The
refinement of `ControlOwner` maps its `owner` to `activeClientID` and its
`focus` to the backend's target.

The input queue is empty here: routing depends on the target and owner only, and
`ServerLocks` and `KeyPath` have the queue. `REQUEST_CONTROL` from a client is
left out: the repository's client never sends it. `noGrab` is never set by the
program, `ClientManager.Start` and `Stop` are never called.

### ServerLocks

A goroutine is the sequence of what it has still to do: lock operations, log
lines and steps that change state. Operations of the code are such sequences
(`SwitchToLocal`, `Escape`, `RegisterClient`, ...), and `Continuations` gives
the part that depends on the state found once a lock is held. The mutexes behave
like `sync.RWMutex`: a waiting writer keeps new readers out, and its unlock
admits the readers that came meanwhile. `Settings` chooses whether there is an
interface and what happens, `Routines` the goroutines. There is one client and
one device, whose grab may fail (`SetTargetFails`, `Grant`): the switch returns
early, the target is put back, and `leftover` is set. Several of each are
`ClientManager`'s.

### ControlLink

Each direction of a channel is a queue. The server is its owner and its
sessions. On the client, `Connect`/`FinishConnect` hold the receiver's lock
around the moment when messages arrive without a callback;
`ReceiveInput`/`Inject` are the check and the injection;
`RequestControlRelease`, `ReleaseLocally` and `TellReleased` are the three steps
of the r key; `Show` is one `onStatusChange` goroutine. `lock = "stuck"` is the
receive goroutine waiting for its own lock in `notifyReconnectStatus`.
Reconnection is not modelled beyond the steps that lead to it: `connected`
becomes false only together with that lock being stuck. The server leaves room
in the bounded channel for one release, so the bound never keeps a release back;
blocking writes are the subject of `ServerLocks`.

### KeyPath

The device goroutine reads a press, a release or an autorepeat, looks for the
chord and puts the event into the channel, or drops it when that is full
(`ReadKey`, `SendEvent`). `Take` is `processEvents`, which looks at the target;
`HandleInputEvent` looks at the owner, and `ProcessInputEvent` is the client, which
injects only while it is `beingControlled`. Switches, the safety timer, the two
steps of the chord and a client's user who takes control back (`UserReleases`) come
between any of these. `followed`, `dropped` and `left` are history variables: what a
key's last event became, and what may stay down on a client when control leaves it
or is taken back. Mouse buttons take the same way.

### Detection, Monitors, Screens

`Detection` follows `display.New`: the first backend that can be constructed is
used, and what it fails to report no other is asked for. A machine is a record of
what decides: environment, tools, compositor and outputs. The parsers are
modelled by what they make of the outputs, line by line for the text of
`wlr-randr`, where the lines matter. `Monitors` is the arithmetic of both sides.
`Screens` has hosts with several sessions: a host that lost its connection may be
back under another address before the server has noticed. Messages are applied as
they are sent. The pointer of a host moves as a compositor moves it, in whole
pixels and within its outputs. The client injects only while `controlled`; its user
may take control back (`UserReleases`) and move the client's own mouse (`OwnMouse`),
which `touched` remembers. The two axes are treated alike.

An output has a `size`, that of its mode in pixels, and `shown`, what a compositor
makes of it after scale and transform. The backends pair the former with logical
positions; positions and the pointer are in terms of the latter. On a scaled or
turned output the two differ, and control may begin beside the screen; `Plain`
machines are those where they agree, and `StartsOnScreen` and `PointerFollows` are
about these.

### VirtualDevices

The backend (`Start`, `Stop`, the injections, each under `w.mu`), the goroutine that
each `Start` leaves behind (`WaiterStops`), and of the client what drives it:
`NewWaylandVirtualInput`, the loop of `Connect` with its dial and its back-off, the
receiver, and the calls of `Disconnect` at the end. The library may refuse any of the
four managers, the shortcuts inhibitor's included, and any device; `library` is what
it has open, `refused` whether it has refused anything. What it does inside is not in
the repository and not modelled: a close that returns an error is logged only, and
counts as done. Capture, which only the server's side of this file would use, is not
modelled, since nothing sets what it needs.

### WlDisplay, OutputManagement

A connection is one record, and the library's functions are functions on it. A
request is one step with the compositor's reaction, which the client sees
through events only. Identifiers are real: the library and the compositor each
count, and a request that creates an object with an identifier the compositor
does not expect ends the connection. Three readers share the connection (two round
trips, and the background loop), each of which dispatches what it happens to read;
outputs and a seat come and go. A seat may have any capabilities, the `done` of a
callback tells any of `Serials`, and there may be no seat, one or two. The library
takes object 5 for the output manager and puts a head under whatever the event's
first word is (`ServerObject`): `guess` becomes `"wrong"` once that hits an object, or
an id that will be one (`Misplaced`), and from then on nothing is claimed.

### SwitchSocket, ServerLife

`SwitchSocket` is the socket: what is at its path, which outlives a process; the
server's phases; one connection per command with the context check, the message
and the answer; and the command's time-out. The manager takes its lock twice for a
command: `Switch`, which may also change nothing or fail and leave control where the
manager's failure leaves it, and `Query`, which reports what control is by then;
`seen` remembers who had it between.

`ServerLife` runs processes one after the other. `Startup` is `initializeServer` step
by step, in the main goroutine without the interface and in a goroutine of its own
with it. `SshStarts` is the goroutine in which `StartNetworking` runs
`SSHServer.Start`: the server object, the goroutine that listens, and the context,
stored last. `Stopping` is `Server.Stop` by whoever calls it first, with both waits
for wait groups (`SshStopEnds`, `StopJoins`). `Session`, `Ui` and `Main` are the
session handlers, the program runner and `runServer`. `Others` are the manager's
other operations as far as a stop is concerned: they hold its lock, may wait with it
for a client that does not read (`stalled`), and may hang with it in the interface
(`Hangs`, what `ServerLocks` shows of Tab). `stop.early` is a stop that began before
the start-up was over or before `SSHServer.Start` had told its wait group;
`notice` says who was owed the shutdown notice, who was told and who left by
himself. `users` is a scene: which clients and commands there are, how many lives
the server has, and what is done to it.

## 3. Runs

All runs are exhaustive for their bounds.

| Run | Question | Bounds |
|---|---|---|
| `InputCapture_safety` | Is there always a running safety timer behind a target? Which devices has a client that has the input, and which has the desktop under local control? Does an unused grab end? | 2 clients, 2 devices, 3 timers, timeout 2 |
| `ClientManager_all` | Is the owner registered, does input go to the owner only, is nobody else marked, is the rotation reversible, is `ControlOwner` implemented? Does control leave a client that is gone, and does the manager learn that the grab is over? | 2 clients, 1 device, 1 timer, timeout 1 |
| `ServerLocks_safety` | Are locks taken in one order? Is input written after a release? Has every target an owner? | six settings: without the interface five, in which any two stimuli come together, with it one; queue 1 |
| `ServerLocks_liveness` | Does every operation end while the client reads? Do Ctrl+ESC and the safety timer free the devices when it does not? | five goroutines |
| `ControlLink_safety` | Does input never follow a release, is at most one event late, is no client left believing to be controlled, is a release that was asked for carried out? | 1 client, 4 messages each way, 2 equal notices |
| `KeyPath_safety` | Does the client's keyboard follow the real one? Which keys can be stuck? | 2 clients, 2 keys, channel of 2 |
| `Screens_safety` | Are monitors the own host's, is the cursor in their box, does the pointer stay with it, does control begin on a screen? | 2 sessions, 2 hosts, 9 machines, screens of 2 by 1 |
| `OutputManagement_safety` | Does every event find its object, are the heads complete, do they follow the outputs, as long as the guess holds? | no seat, 1 or 2, of capabilities 3, 6 or 7; serial 4; 2 outputs, 3 globals at most, 6 iterations |
| `VirtualDevices_safety` | Is what is open what is held, do events go to open devices only, does a late stop take nothing? | 4 starts |
| `ServerLife_safety` | Is a command's report true? Is nothing used too early, every client told of a quit, nothing left by a stop? Does a server that is asked to end do so? | four scenes: 1 client and everything that may happen; 2 clients for 1 place and a quit by key; 1 command and a signal; 1 client, 2 commands and a kill with a second life |

What the bounds are chosen for. Two clients give a hand-over and a bystander; two
devices a partial grab; two timers an orphan, three an orphan of an orphan. A queue
of one is full at once, one of two can hold a press and its release. Four messages
hold a request, a position, an input and a release at the same time. Two sessions of
two hosts give the old and the new session of one host, or one of each. A screen of
two pixels by one has a centre, a last pixel and a far edge that differ. Four starts
are one that succeeds, or some that fail and one that finds what these left. Two
lives are a crash and a restart, two commands one that moves control between the
other's two locks. One tick separates "just used" from "idle". The registries of
`OutputManagement_safety` are those with which object 5 is the manager, a second
seat, or neither, and the capabilities those that are no id in use, the manager's id
and a callback's; ids that more globals would make are not tried. The scenes of
`ServerLife_safety` do not combine: two clients of which one stalls, or a session
and a command at the same stop, are in no run. The theorems of section 5 hold
without these bounds. `CHECK_DEADLOCK FALSE` is set where goroutines really block
for ever or the system really ends.

`ControlLink_safety` has one client because `ReleaseIsSent` is false for two: at
a switch from one client to another the first gets no release (see below). With
one client there is no such switch, and every other way of losing control does
send it. Its invariants about order and late input are proved for any number of
clients, and `ReleaseIsSent` for any number that are switched by way of local.

Two runs state what the program says of itself, and TLC finds them violated.

| Run | Statement | What happens |
|---|---|---|
| `ServerLocks_tab` | `README.md:86`, "Tab: Cycle through connected clients" | the interface's loop switches, the switch logs, and the log line waits for the loop |
| `VirtualDevices_ready` | `cmd/client.go:168`, "Client ready to receive input from server" | the first attempt to connect failed, so that the backend was stopped and gave up its managers; the second connects, but its `Start` finds none and creates no device |

### What the models show besides

Some behaviours contradict what one expects, and no passing run can state them;
the actions that lead to them are named.

Control:

- after the safety timer the manager still names the old owner, and selecting
  that client again does nothing, silently (`TimerCallback`, then the guard of
  `SwitchToClient`);
- a client that loses control to another client is not told, and still lets input
  through (`SwitchToClient` of `ControlLink`);
- a device found by the scan while a client is controlled is opened but not
  grabbed (`GrabAll`, `Plug`, `ScanAdds`); one replugged between two scans keeps
  a dead descriptor (`Unplug`, `Plug`);
- the activity monitor measures the time since the last input sent to a client,
  not since the hand-over, and may undo a fresh one (`SwitchToClient`,
  `MonitorTrips`); the timer of the first client may end the grab of the second
  (`ArmTimer` twice, `Fire`);
- devices that a failed switch left grabbed stay so: SIGUSR1, Ctrl+ESC and the
  safety timer see that control is local and do nothing; only the end of a later,
  successful hand-over frees them (`GrabFails`, `leftover`);
- a session leaves the SSH table before the registry, so more than `max_clients`
  can be registered for a moment (`CloseSession`, `OpenSession`,
  `RegisterClient`);
- SIGUSR1 waits behind a write to a client that does not read; the interface's
  refresh and a goroutine that logs under the manager's lock wait for each other;
- a client that is given control while it connects ignores it
  (`ReceiveTooEarly`), and so does one whose own release is applied after the
  next request; the interface may keep the older of two statuses (`Show` twice);
- the end of the stream does not clear `connected`, so that no reconnection is
  tried (`Eof`, `MonitorTick`); after SERVER_SHUTDOWN the receiver waits for its
  own lock, and the client cannot be quit from its interface (`ReceiveShutdown`,
  `Disconnect`);
- autorepeat of Ctrl clears `ctrlPressed`, so that Ctrl+ESC needs a quick hand
  (`Repeat`, `IsChord`);
- while a client ignores input because its user has taken control back, releases of
  keys are ignored too: keys that were held then stay down (`UserReleases`,
  `ProcessInputEvent`).

Screens and displays:

- while an old session of a host is registered, a new one's configuration goes to
  the old record, by name; a second client's configuration is lost unless its name
  is known already (`Matching`);
- the JSON path of `wlr-randr` marks two primary monitors; its text path makes a
  monitor of every line (`MarkForJson`, `ParseLine`); the second cgo backend is
  never chosen, and a backend that fails is not followed by another;
- on a scaled or turned output mode sizes are used with logical positions, and
  control may begin beside the screen (`EnabledAs`, `AsMonitors`);
- the far edge counts as inside the box, one pixel past the last (`Bounds`);
  absolute positions assume 1920 by 1080; monitors that change later are never
  reported (`Replug`).

Wayland:

- `NewOutputManager` can wait in its round trip for an answer another reader has
  taken, before its own time-out is armed; `OutputManager.Close` fails on a
  manager that is nil; a mode never becomes its head's mode; heads are deleted
  from a map without the lock that guards it;
- object 5 is taken for the output manager: an event of opcode 0 for it puts a head
  under the id that its first word is (`ServerObject`). With two seats announced
  before the manager, the second is object 5; if it has a touch screen its
  capabilities are the id of the manager (6) or of a callback (7), and with no seat
  object 5 is a callback, whose serial may be any id. Then `guess` is `"wrong"`, and
  events do reach objects they are not for;
- several requests send 0 where a new identifier belongs (`CreateConfiguration`,
  `EnableHead`, `LockPointer`, `ConfinePointer`).

Virtual devices:

- a backend that was started again after a stop has no devices although it counts
  as started (`VirtualDevices_ready`). That the goroutine of an earlier `Start` may
  stop the backend later (`WaiterStops`) does no harm for the same reason: there are
  no devices by then.

Start and end:

- a signal cancels the context before `NotifyShutdown` runs, so that sessions may
  end before their clients are told (`Signal`, `SessionCloses`);
  `QuitTellsClients` is therefore about the end by key;
- a client that does not read keeps the process for ever: the time-out of
  `runServer` starts only after `srv.Stop` has returned (`WriteBlocked`,
  `MainJoins`); so does an operation that hangs with the manager's lock, which
  `NotifyShutdown` needs (`Hangs`, `ManagerFree`);
- a stop before `SSHServer.Start` has set `sshServer` shuts nothing down; the server
  listens afterwards, and if its goroutine is in the wait group by then the stop waits
  for it for ever (`Stranded`), else the listener stays until the process exits
  (`stop.early`);
- a session that is served before `SSHServer.Start` has stored its context waits on
  a nil one, which ends the process (`NilContext`);
- a command that times out may still be carried out; its probe connection stays
  open; a second server takes over the socket of the first.

## 4. Fairness

Weak fairness on goroutines that have work, on the clock, on expired timers and on
tickers: the Go scheduler runs what is runnable, and mutexes do not starve. In
`ServerLocks`, `Announce` is strongly fair, because `sync.RWMutex` queues its
writers; in `OutputManagement` so are the two readers, because a mutex hands the
socket to each that waits for it. Users, clients, cables, compositors and signals
owe nothing: pressing, switching, connecting, unplugging and quitting are never
fair. `IdleGrabEnds` therefore says that the grab ends or somebody keeps acting, and
`ShutdownEnds` that the process ends or one of the three things it names keeps it.
In `ServerLife` the start-up, `SSHServer.Start`, the stop, main and the interface's
runner are fair as a whole, for each is one goroutine, and who holds the manager's
lock lets it go while no client makes it wait; sessions, which a client may keep
open, are not fair, since closing them does not wait for them. `ClientManager`
assumes that a write to a client returns; `ServerLocks` and `ServerLife` do not.
`KeyPath`, `Screens` and `VirtualDevices` state safety only and assume no fairness.

## 5. Proofs

Every theorem holds for every value of the constants under the `ASSUME`s of its
module, which TLC evaluates in the runs. Each follows from an inductive invariant
that has one preservation lemma per action. Some assume more, in their statements:
`OneClientIsToldOfRelease` that there is one client; `PointerStaysWithCursor` that
a machine with more than `MaxOutputs` outputs, or whose screens are read from
`wlr-randr`'s text, has no other outputs beside the only screen that is detected.
The theorems about `OutputManagement` hold for any seats, capabilities and serials,
up to the moment when the guess about object 5 hits an object.

| Module | Theorems | The invariant |
|---|---|---|
| `ClientManagerProofs` | of the backend on its own: types, `TargetHasTimer`, `LocalHoldsOnlyLeftovers`, `TargetHoldsDevices` | types, that `grabTimer` is forgotten only when the target is, and the two about devices together |
| | of the server: types; `OwnerConsistent`, `InputOnlyToOwner`, `OnlyOwnerMarkedControlled`; every step is one of `ControlOwner` or a stutter; `RotationIsReversible`; and the backend's three properties again, inside the server | `ControlInvariant` |
| `ServerLocksProofs` | types; `LockOrder`, `NoInputAfterRelease`, `TargetHasOwner`; every goroutine at a write finds control remote; a writer is alone | `LockInv`: what each goroutine has to do is proved from what is the case for it |
| `KeyPathProofs` | `KeyboardFollows`, `StuckKeysWereHeld` | the last event of each key on the way |
| `ControlLinkProofs` | `InputFollowsRequest`, `AtMostOneLate`; `ReleaseIsSent` for one client, and for any number while control goes by way of local | the end of what is under way to each client; who may have injected late; what a client will believe when it has read it (`BInv`) |
| `ScreensProofs` | `MonitorsAreOwn`, `CursorInBounds`; `StartsOnScreen`, for any outputs of any machines; `PointerFollows`, for any size of the screen; lemmas: the box of a list of monitors, the main monitor and its centre, what each backend makes of the outputs (`DetectedAreOutputs`) | names and configurations belong to the session's own host; a session that is read takes one configuration, its own, before it has a cursor (`LinkInv`) |
| `VirtualDevicesProofs` | `DevicesAsHeld`, `InjectsIntoOpenDevices`, `StaleStopClosesNothing`, for any number of starts | `Inv`: what is open is what is held, and a goroutine that is woken finds the managers gone |
| `OutputManagementProofs` | `EventsReachTheirObject`, `InitialHeadsKnown`, for any globals, seats, serials and outputs, whoever reads; lemmas: the connection's operators field by field | `OMInv`, while `guess = "right"`: the queue of what is on the way, pair by pair, with the objects and ids it is about |
| `ServerLifeProofs` | lemmas: every step of the socket keeps commands and connections in step; `ReportsAreTrue`, `ReadyBeforeUse`, `ToldBeforeClosed`, `StopLeavesNothing` | the orders of start-up, of the SSH server's goroutines, sessions, stop and notice, and `SocketInv` |

Why the invariants are needed:

- Server. No conjunct of `ControlInvariant` is inductive alone: that a late timer
  cannot redirect input needs `InputOnlyToOwner`, that a failed switch keeps a
  registered owner needs `OwnerConsistent`, and that `UnregisterClient` leaves
  nobody marked needs both. The step lemmas of the backend are about its
  operators and are used for the server again. `RotationIsReversible` needs no
  reachability.
- Keys. What a keyboard will show depends on the events that are still on the
  way. `KeyPathProofs` looks at one list, the event with `HandleInputEvent`
  followed by the channel, and at the last event of each key in it: if it is a
  press, the key is held or its release was dropped (`PressesAreHeld`); if the key
  is followed, the last event tells whether it is held (`FollowedKeys`). Both looks
  at the target keep this, because the target is the owner or nobody
  (`TargetIsOwner`), and a key that is on the way when control leaves, or when the
  client's user takes it back, is in `left`.
- Link. A release may only be followed by a request because the last message on
  the way to the owner is not a release (`ChannelOK`).
- Screens. A configuration reaches a session of its own host because a name that
  is a host's is the own host's, and because a session that has a configuration
  under way is itself registered: if there is only one, it is that one. The
  cursor's invariant needs that the box of any list of monitors is ordered and
  holds the centre of the main one, which follows from the well-foundedness of `<`.
- Detection. On a machine whose outputs are neither scaled nor turned control begins
  on a screen because every monitor that a backend finds shows an enabled output,
  and the compositor shows all of these (`DetectedAreOutputs`, `LayoutShows`).
  `Only` says which member of a list comes to which place, so that this is about
  cardinalities (`Picked`) and not about recursion. `randr` is never the backend,
  because `portal` is tried before it with the same condition. What the text parser
  computes is a fold, beyond the prover; that it is a list of monitors is an
  assumption (`TextAssumption`).
- Pointer. What the server tracks and where the pointer is agree only while one
  session alone moves that pointer, with its user's mouse at rest and control not
  taken back (`touched`, `controlled`), and its monitors are what the host has. That a
  new session is not given what an older one of its host still had to say is the
  point of `NotNamed`: it was never the only one, so that it has the host's name
  only if no older one is left. Hence it is configured once, and not under a cursor
  that has been placed already (`ConfiguredOnce`). The rest is arithmetic:
  1920ths and 1080ths of the box give the position back, and cursor and pointer
  stop at most a pixel apart. That a host with one detected screen has no other
  follows from what the backends find (`SoleIsAll`); for `wlr-randr`'s text it is
  assumed, and TLC evaluates it for the machines of the run. More than 32 outputs
  could break it (`Heads`).
- Server's life. `ReportsAreTrue` needs that each command sends one message and
  that the answer in its connection is what was reported, which somebody had since
  the command's own switch (`seen`); the others that the phases of start-up, sessions
  and stop follow one another, across processes.
- Backend in the server. A server's step does to the backend what its unknown
  caller may do (`BackendMove`), except that the Ctrl+ESC goroutine ends in the
  same step as the `SwitchToLocal` it calls. The step lemmas do not look at `chord`,
  so the backend's properties hold in the server.
- Locks. A goroutine is a sequence of instructions, and the proof annotates it as
  one annotates a program text. An assertion names the locks held and the facts
  known: a client has control; the backend has no target; it has none or a client
  has control; the Ctrl+ESC goroutine does not run. A failed grab disturbs none of
  them, since it puts the target back. Every operation of the code is annotated
  once (`Proves`), and so is every continuation, from what was found under the
  lock. Facts cannot be spoilt by others: whoever knows one holds the manager's
  lock, under which alone the control state is written, or is the device goroutine,
  which alone starts Ctrl+ESC. Neither `LockOrder` nor `NoInputAfterRelease` looks
  at the rest of a sequence, and neither is inductive without it.
- Release. Whether a client believes to be controlled is not enough; what counts
  is what it will believe once it has read what is under way (`WillBelieve`). Such a
  client is the owner (`BeliefOK`), because every way back to local appends a
  release. A switch straight from one client to another appends none, and there TLC
  finds the invariant broken; hence `NoHandOver`, which one client cannot violate.
- Virtual devices. That a late stop is harmless is not clear from the backend alone:
  it needs that a goroutine is woken only by a stop, that a stop gives up all
  managers, and that a start without managers creates nothing.
- Output manager. That the event to be read next finds its object follows from what
  is true of every event on the way: its object is there, or an earlier event brings
  it (`Reached`), and no earlier event takes it away (`PairOK`). Three goroutines
  write requests while others read, so an event may also be behind the object's
  allocation and before its registration: no event names an id before the request
  that does (`Reserved`), ids grow with the globals that have been handled (`IdsOK`),
  and these have names without gaps (`InOrder`), so that the client's ids stay below
  the compositor's. A returned manager knows its outputs because the first "done" is
  behind the four events of each (`InTime`), or will never come (`InitialOK`); the
  order in which the compositor names them is any (`Introduced`).

Only model-checked: everything about liveness (`IdleGrabEnds`,
`DisconnectReleases`, `DesyncHeals`, `OperationsEnd`, `DeviceReleaseFrees`,
`ReleaseIsHeard`, `HeadsFollow`, `ShutdownEnds`), which the prover cannot treat
under fairness, and what `wlr-randr`'s text is parsed into.

## 6. Not modelled

- `attemptReconnection` and `reconnectToServer` (`internal/client/receiver.go`):
  no execution of `ControlLink` reaches them.
- The Wayland library that waymon links, which is not in the repository; and of
  `brain`, all but the connection and the output manager.
- The data race on the backend's device map and on the output manager's heads,
  whose outcome is the end of the process, and frames of two writers that
  interleave within one message: steps are atomic there.
- The accumulation of motion for 16 ms, the wheel, and a click that overtakes
  motion: contents of events.
- SSH itself, host keys, the text fallback of its protocol; the encoding of Wayland
  arguments; shared memory.
- Configuring outputs through the output manager, which waymon does not do.
- `GetEdge` and `GetCursorPosition`; `input/switch.go` and `edge_detector.go` are
  used by nothing, `event_aggregator.go` by tests only, and `device_monitor.go` is
  never started.
- Views, rendering, configuration files, command-line parsing, generated code and
  the programs run by hand against real devices.

Next, in this order: two writers of one SSH channel (`sendMessageToSession` in two
writes) as a refinement of `ControlLink`'s queues; the event channel with motion
and its accumulation in `KeyPath`.
