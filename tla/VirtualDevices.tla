---------------------------- MODULE VirtualDevices --------------------------
(***************************************************************************)
(* The client's input backend, WaylandVirtualInput, over the library with  *)
(* the virtual devices, and what the client does to it: Start before each  *)
(* attempt to connect, Stop when that fails or the connection ends.        *)
(*                                                                         *)
(* The library (wayland-virtual-input-go, external) is what the backend    *)
(* asks of it: a manager or an error, a device or an error, and the calls  *)
(* that close them.  A call that closes something and returns an error is  *)
(* only logged: it counts as closed.                                       *)
(*                                                                         *)
(* w.mu makes Start, Stop and the injections exclude each other; each is   *)
(* one step.  The goroutine that each Start leaves behind calls Stop once  *)
(* its context is cancelled, which only Stop itself does before the end of *)
(* the process.  SetTarget is never called on a client, and w.surface,     *)
(* w.pointer and w.seat are never set: there is no exclusive capture.      *)
(***************************************************************************)
EXTENDS Naturals, FiniteSets

CONSTANT MaxStarts   \* bound on the calls of Start

ASSUME StartsAssumption == MaxStarts \in Nat

Managers == {"pointer", "keyboard", "constraints", "shortcuts"}
Devices == {"pointer", "keyboard"}

VARIABLES
  w,         \* the backend: capturing, managers held, devices held (0, or its Start)
  library,   \* what was opened and not closed: managers, devices (their kind and Start)
  refused,   \* whether the library has refused anything (history)
  starts,    \* calls of Start that went through
  woken,     \* goroutines of Start that are about to call Stop
  connect,   \* how far the loop that connects is
  connected, \* InputReceiver.connected
  mu,        \* InputReceiver.mu: "free", held by "connect", or "stuck"
  pending,   \* an event that passed processInputEvent's check, not injected yet
  injected,  \* the last event: <<"none", 0>>, <<"refused", 0>>, or the device
  quits      \* calls of Disconnect: OnShutdown's and the two deferred by runClient

vars == <<w, library, refused, starts, woken, connect, connected, mu, pending, injected, quits>>

backendVars == <<w, library, woken>>
eventVars == <<pending, injected>>

NoDevice == [d \in Devices |-> 0]

Init ==
  /\ w = [capturing |-> FALSE, managers |-> {}, devices |-> NoDevice]
  /\ library = [managers |-> {}, devices |-> {}]
  /\ refused = FALSE
  /\ starts = 0
  /\ woken = 0
  /\ connect = "new"
  /\ connected = FALSE
  /\ mu = "free"
  /\ pending = FALSE
  /\ injected = <<"none", 0>>
  /\ quits = 0

Running == quits < 3

-----------------------------------------------------------------------------
(* The backend.                                                            *)

\* Only the pointer's manager is required: without it nothing else is asked for and
\* the program ends.
NewWaylandVirtualInput ==
  /\ connect = "new"
  /\ \E granted \in SUBSET Managers :
       /\ refused' = (granted /= Managers)
       /\ IF "pointer" \in granted
          THEN /\ w' = [w EXCEPT !.managers = granted]
               /\ library' = [library EXCEPT !.managers = granted]
               /\ connect' = "try"
          ELSE connect' = "failed" /\ UNCHANGED <<w, library>>
  /\ UNCHANGED <<starts, woken, connected, mu, eventVars, quits>>

Held == {<<d, w.devices[d]>> : d \in {x \in Devices : w.devices[x] /= 0}}

\* Start: a device for each manager that is there; a failure is only a warning.
Start(given) ==
  /\ w' = [w EXCEPT !.capturing = TRUE,
                    !.devices = [d \in Devices |-> IF d \in given THEN starts + 1 ELSE @[d]]]
  /\ library' = [library EXCEPT !.devices = @ \cup {<<d, starts + 1>> : d \in given}]
  /\ refused' = (refused \/ given /= Devices \cap w.managers)
  /\ starts' = starts + 1

\* The managers are given up for good: a later Start has none.
GivesUpNone == {}
GivenUp == w.managers

ForgetsKeyboard ==
  [managers |-> library.managers \ GivenUp,
   devices |-> library.devices \ {<<"pointer", w.devices["pointer"]>>}]
Closed == [managers |-> library.managers \ GivenUp, devices |-> library.devices \ Held]

KeepsDevices == [capturing |-> FALSE, managers |-> w.managers \ GivenUp, devices |-> w.devices]
Stopped == [capturing |-> FALSE, managers |-> w.managers \ GivenUp, devices |-> NoDevice]

\* Stop by one of "callers" woken goroutines, or by none of them; it wakes one more.
Stop(callers) ==
  /\ library' = IF w.capturing THEN Closed ELSE library
  /\ w' = IF w.capturing THEN Stopped ELSE w
  /\ woken' = woken - callers + (IF w.capturing THEN 1 ELSE 0)

WaiterStops ==
  /\ Running /\ woken > 0
  /\ Stop(1)
  /\ UNCHANGED <<refused, starts, connect, connected, mu, eventVars, quits>>

-----------------------------------------------------------------------------
(* InputReceiver.Connect, called again and again until it succeeds.        *)

ConnectBegins ==
  /\ Running /\ connect = "try" /\ mu = "free"
  /\ IF connected \/ w.capturing
     THEN connect' = "backoff" /\ UNCHANGED <<w, library, refused, starts, mu>>
     ELSE /\ starts < MaxStarts
          /\ \E given \in SUBSET (Devices \cap w.managers) : Start(given)
          /\ connect' = "dial" /\ mu' = "connect"
  /\ UNCHANGED <<woken, connected, eventVars, quits>>

DialFails ==
  /\ Running /\ connect = "dial"
  /\ connect' = "stop"
  /\ UNCHANGED <<backendVars, refused, starts, connected, mu, eventVars, quits>>

ConnectStops ==
  /\ Running /\ connect = "stop"
  /\ Stop(0)
  /\ connect' = "backoff" /\ mu' = "free"
  /\ UNCHANGED <<refused, starts, connected, eventVars, quits>>

\* "Client ready to receive input from server".
DialSucceeds ==
  /\ Running /\ connect = "dial"
  /\ connect' = "ready" /\ connected' = TRUE /\ mu' = "free"
  /\ UNCHANGED <<backendVars, refused, starts, eventVars, quits>>

Backoff ==
  /\ Running /\ connect = "backoff"
  /\ connect' = "try"
  /\ UNCHANGED <<backendVars, refused, starts, connected, mu, eventVars, quits>>

-----------------------------------------------------------------------------
(* A client that is connected.                                             *)

ProcessInputEvent ==
  /\ Running /\ connected /\ mu = "free" /\ ~pending
  /\ pending' = TRUE
  /\ UNCHANGED <<backendVars, refused, starts, connect, connected, mu, injected, quits>>

\* InjectMouseMove and the others, InjectKeyEvent.
Inject(d) ==
  /\ Running /\ pending
  /\ pending' = FALSE
  /\ injected' = IF w.capturing /\ w.devices[d] /= 0 THEN <<d, w.devices[d]>> ELSE <<"refused", 0>>
  /\ UNCHANGED <<backendVars, refused, starts, connect, connected, mu, quits>>

\* SERVER_SHUTDOWN: the handler waits for the lock it holds, see ControlLink.
ShutdownReceived ==
  /\ Running /\ connected /\ mu = "free"
  /\ connected' = FALSE /\ mu' = "stuck"
  /\ UNCHANGED <<backendVars, refused, starts, connect, eventVars, quits>>

Disconnect ==
  /\ Running /\ connect \notin {"new", "failed"} /\ mu = "free"
  /\ quits' = quits + 1
  /\ IF connected THEN Stop(0) ELSE UNCHANGED backendVars
  /\ connected' = FALSE
  /\ UNCHANGED <<refused, starts, connect, mu, eventVars>>

Next ==
  \/ NewWaylandVirtualInput \/ WaiterStops
  \/ ConnectBegins \/ DialFails \/ ConnectStops \/ DialSucceeds \/ Backoff
  \/ ProcessInputEvent \/ ShutdownReceived \/ Disconnect
  \/ \E d \in Devices : Inject(d)

Spec == Init /\ [][Next]_vars

-----------------------------------------------------------------------------
(* Properties.                                                             *)

\* What the library has open is what the backend holds, so that Stop by whoever comes
\* first closes all of it, once; a backend that is stopped has no device open.
DevicesAsHeld ==
  /\ library.devices = Held /\ library.managers = w.managers
  /\ ~w.capturing => library.devices = {}

\* An event is never given to a device that has been closed, however the attempts to
\* connect, the goroutines they leave behind and the injections interleave.
InjectsIntoOpenDevices ==
  [][pending /\ ~pending' => injected'[1] = "refused" \/ injected' \in library.devices]_vars

\* The Stop that the goroutine of an earlier Start calls, after that Start has been
\* undone, closes no device of a later one: only a failed attempt to connect and
\* Disconnect take devices away.
StaleStopClosesNothing ==
  [][WaiterStops => library'.devices = library.devices]_vars

\* A client that has told "ready to receive input from server", and to which the
\* library has refused nothing, injects the events it accepts.
ReadyClientInjects == connect = "ready" /\ connected /\ ~refused => injected /= <<"refused", 0>>
=============================================================================
