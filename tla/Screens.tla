------------------------------ MODULE Screens -------------------------------
(***************************************************************************)
(* The server's idea of the clients' screens: CLIENT_CONFIG and how it is  *)
(* matched to a client, the cursor the server tracks for each client and   *)
(* keeps within the client's monitors, and the pointer that moves there.   *)
(*                                                                         *)
(* A client is registered under the address of its session, and named by   *)
(* it until a configuration gives the name of its host.  A host whose      *)
(* connection is lost may be back under another address before the server  *)
(* has noticed.  Messages to a client are applied as they are sent, the    *)
(* channel being a FIFO: what the client's user does, who may move the     *)
(* mouse and take control back, is taken as done after the messages the    *)
(* client has handled by then.                                             *)
(***************************************************************************)
EXTENDS Detection

CONSTANTS
  Addresses, \* of sessions
  Hosts,     \* names of client machines, none of them an address
  None,      \* no host, and local control
  Machines,  \* per host, what its screens may be: records as in Detection
  Extent,    \* what InjectMousePosition passes as extent: 1920 by 1080
  Moves,     \* relative motions of the server's mouse
  OwnMoves,  \* and of those of the clients
  Word       \* 2^32: positions are converted to unsigned integers

ASSUME NamesAssumption == Addresses \cap Hosts = {} /\ None \notin Addresses \cup Hosts
ASSUME ExtentAssumption == Extent \in [Axes -> Nat \ {0}]
ASSUME MovesAssumption == Moves \cup OwnMoves \subseteq Point
ASSUME WordAssumption == Word \in Nat /\ \A i \in Axes : Extent[i] < Word
ASSUME AddressesAssumption == IsFiniteSet(Addresses)
ASSUME OutputsAssumption == \A h \in Hosts : \A m \in Machines[h] : OutputsOK(m)
ASSUME TextAssumption ==
  \A h \in Hosts : \A m \in Machines[h] :
    Chosen(m) = "wlrRandr" /\ ~m.json => Detect(m) \subseteq Seq(Monitor)

VARIABLES
  machine,  \* the screens of each host
  live,     \* the address under which each host is connected: {} or {address}
  changed,  \* history: hosts whose screens changed since they connected
  pointer,  \* position of each host's pointer
  controlled, \* hosts whose controlStatus says BeingControlled
  touched,  \* history: hosts whose own mouse has moved since control came to them
  host,     \* per address, the host of the registered session, or None
  name,     \* ConnectedClient.Name
  monitors, \* ConnectedClient.Monitors
  config,   \* CLIENT_CONFIG on the way: {} or {monitors}
  cursor,   \* clientCursors: {} or {[at, bounds]}
  owner     \* activeClientID

hostVars == <<machine, live, changed, pointer, controlled, touched>>
clientVars == <<host, name, monitors, config>>
vars == <<hostVars, clientVars, cursor, owner>>

Known == UNION {Machines[h] : h \in Hosts}
Detected == [m \in Known |-> Detect(m)]

Registered == {a \in Addresses : host[a] # None}

Init ==
  /\ machine \in {f \in [Hosts -> Known] :
                   \A h \in Hosts : f[h] \in Machines[h]}
  /\ live = [h \in Hosts |-> {}]
  /\ changed = {}
  /\ pointer = [h \in Hosts |-> Origin]
  /\ controlled = {}
  /\ touched = {}
  /\ host = [a \in Addresses |-> None]
  /\ name = [a \in Addresses |-> a]
  /\ monitors = [a \in Addresses |-> <<>>]
  /\ config = [a \in Addresses |-> {}]
  /\ cursor = [a \in Addresses |-> {}]
  /\ owner = None

-----------------------------------------------------------------------------
(* The pointer of a host, as a compositor moves it: in whole pixels, and   *)
(* kept within the box around the enabled outputs.                         *)

AsShown(outputs) ==
  [k \in DOMAIN outputs |-> [outputs[k] EXCEPT !.size = outputs[k].shown]]
LayoutOf == [m \in Known |-> Only(AsMonitors(EnabledOnly(AsShown(m.outputs))), HasSize)]
Layout(h) == LayoutOf[machine[h]]

\* Where it comes to rest instead of at p; without a screen it stays at q.
Rest(layout, p, q) ==
  IF layout = <<>> THEN q
  ELSE LET box == CalculateTotalDisplayBounds(layout)
       IN ConstrainCursorPosition(p, [box EXCEPT !.max = [i \in Axes |-> @[i] - 1]])

\* Motion.
MovedBy(h, d) == Rest(Layout(h), [i \in Axes |-> pointer[h][i] + d[i]], pointer[h])

\* MotionAbsolute: a fraction of the extent is one of the box.
MovedTo(h, p) ==
  LET box == CalculateTotalDisplayBounds(Layout(h))
      Scaled(i) == box.min[i] + ((p[i] % Word) * (box.max[i] - box.min[i])) \div Extent[i]
  IN Rest(Layout(h), [i \in Axes |-> Scaled(i)], pointer[h])

\* What is written to a session nobody reads any more is lost.
Reaches(a) == live[host[a]] = {a}

\* InputReceiver.processInputEvent: a client that is not controlled ignores input.
Injects(a, p) ==
  IF Reaches(a) /\ host[a] \in controlled'
  THEN pointer' = [pointer EXCEPT ![host[a]] = p]
  ELSE UNCHANGED pointer

-----------------------------------------------------------------------------
(* Hosts connect, vanish, have monitors plugged in, and users of their own.*)

\* The session is registered before the client sends its configuration, which
\* it does once, and not at all if the detection fails.
Connect(a, h) ==
  /\ a \notin Registered
  /\ live[h] = {}
  /\ live' = [live EXCEPT ![h] = {a}]
  /\ changed' = changed \ {h}
  /\ host' = [host EXCEPT ![a] = h]
  /\ name' = [name EXCEPT ![a] = a]
  /\ monitors' = [monitors EXCEPT ![a] = <<>>]
  /\ config' = [config EXCEPT ![a] = Detected[machine[h]]]
  /\ UNCHANGED <<machine, pointer, controlled, touched, cursor, owner>>

\* The status outlives a connection, but not the client nor what Disconnect ends.
Vanish(h) ==
  /\ live[h] # {}
  /\ live' = [live EXCEPT ![h] = {}]
  /\ controlled' \in {controlled, controlled \ {h}}
  /\ UNCHANGED <<machine, changed, pointer, touched, clientVars, cursor, owner>>

\* RequestControlRelease: the user takes control back.  The server is asked first, and
\* returns control when it hears of it: SwitchToLocal, at any time.
UserReleases(h) ==
  /\ live[h] # {}
  /\ h \in controlled
  /\ controlled' = controlled \ {h}
  /\ UNCHANGED <<machine, live, changed, pointer, touched, clientVars, cursor, owner>>

\* One motion stands for any number until control comes again.
OwnMouse(h, d) ==
  /\ h \notin touched
  /\ pointer' = [pointer EXCEPT ![h] = MovedBy(h, d)]
  /\ touched' = touched \cup {h}
  /\ UNCHANGED <<machine, live, changed, controlled, clientVars, cursor, owner>>

\* Only the outputs change: how its client is run does not.
Replug(h) ==
  \E m \in {m \in Machines[h] \ {machine[h]} : [machine[h] EXCEPT !.outputs = m.outputs] = m} :
    /\ machine' = [machine EXCEPT ![h] = m]
    /\ changed' = changed \cup {h}
    /\ pointer' = [pointer EXCEPT ![h] = Rest(Layout(h)', @, @)]
    /\ UNCHANGED <<live, controlled, touched, clientVars, cursor, owner>>

ReturnsToLocal(a) == IF owner = a THEN None ELSE owner

\* The server notices that the session has ended.
UnregisterClient(a) ==
  /\ a \in Registered
  /\ ~Reaches(a)
  /\ owner' = ReturnsToLocal(a)
  /\ host' = [host EXCEPT ![a] = None]
  /\ name' = [name EXCEPT ![a] = a]
  /\ monitors' = [monitors EXCEPT ![a] = <<>>]
  /\ config' = [config EXCEPT ![a] = {}]
  /\ cursor' = [cursor EXCEPT ![a] = {}]
  /\ UNCHANGED hostVars

-----------------------------------------------------------------------------
(* updateClientConfiguration.                                              *)

AnyClient(h) == Registered
OnlyClient(h) == IF Cardinality(Registered) = 1 THEN Registered ELSE {}

\* Clients are told apart by name; the map decides which comes first.
Matching(h) ==
  LET named == {b \in Registered : name[b] = h}
  IN IF named # {} THEN named ELSE OnlyClient(h)

KeepsPosition(p, bounds) == p
Constrained(p, bounds) == ConstrainCursorPosition(p, bounds)

Rebound(b, list) ==
  cursor' = [cursor EXCEPT ![b] =
    IF owner # b \/ list = <<>> THEN @
    ELSE LET bounds == CalculateTotalDisplayBounds(list)
         IN {[at |-> Constrained(c.at, bounds), bounds |-> bounds] : c \in @}]

UpdateClientConfiguration(a) ==
  /\ config' = [config EXCEPT ![a] = {}]
  /\ \E list \in config[a] :
       \/ \E b \in Matching(host[a]) :
            /\ monitors' = [monitors EXCEPT ![b] = list]
            /\ name' = [name EXCEPT ![b] = host[a]]
            /\ Rebound(b, list)
       \/ Matching(host[a]) = {} /\ UNCHANGED <<monitors, name, cursor>>
  /\ UNCHANGED <<hostVars, host, owner>>

-----------------------------------------------------------------------------
(* Control and motion.                                                     *)

LeavesCursor(a) == UNCHANGED <<cursor, pointer>>

\* positionCursorOnMainMonitor, and the cursor state that goes with it.
PlaceCursor(a) ==
  IF monitors[a] = <<>> THEN LeavesCursor(a)
  ELSE LET centre == Centre(FindMainMonitor(monitors[a]))
           bounds == CalculateTotalDisplayBounds(monitors[a])
       IN /\ cursor' = [cursor EXCEPT ![a] = {[at |-> centre, bounds |-> bounds]}]
          /\ Injects(a, MovedTo(host[a], centre))

\* REQUEST_CONTROL is sent before the position.
SwitchToClient(a) ==
  /\ a \in Registered
  /\ owner # a
  /\ owner' = a
  /\ controlled' = IF Reaches(a) THEN controlled \cup {host[a]} ELSE controlled
  /\ touched' = touched \ {host[a]}
  /\ PlaceCursor(a)
  /\ UNCHANGED <<machine, live, changed, clientVars>>

\* RELEASE_CONTROL.  A client that loses control to another one is not told.
SwitchToLocal ==
  /\ owner # None
  /\ owner' = None
  /\ controlled' = IF Reaches(owner) THEN controlled \ {host[owner]} ELSE controlled
  /\ UNCHANGED <<machine, live, changed, pointer, touched, clientVars, cursor>>

MovesFreely(p, bounds) == p
Stopped(p, bounds) == ConstrainCursorPosition(p, bounds)

\* The motion that is sent is the one the tracked cursor makes; none is sent
\* when it makes none.
MoveTracked(a, d, c) ==
  LET to == Stopped([i \in Axes |-> c.at[i] + d[i]], c.bounds)
  IN /\ cursor' = [cursor EXCEPT ![a] = {[c EXCEPT !.at = to]}]
     /\ Injects(a, MovedBy(host[a], [i \in Axes |-> to[i] - c.at[i]]))

\* HandleInputEvent of a MouseMoveEvent.
Move(d) ==
  /\ owner \in Registered
  /\ UNCHANGED <<machine, live, changed, controlled, touched, clientVars, owner>>
  /\ \/ /\ monitors[owner] # <<>>
        /\ \E c \in cursor[owner] : MoveTracked(owner, d, c)
     \/ /\ monitors[owner] = <<>> \/ cursor[owner] = {}
        /\ Injects(owner, MovedBy(host[owner], d))
        /\ UNCHANGED cursor

-----------------------------------------------------------------------------

Next ==
  \/ \E a \in Addresses, h \in Hosts : Connect(a, h)
  \/ \E h \in Hosts : Vanish(h) \/ Replug(h) \/ UserReleases(h)
  \/ \E h \in Hosts, d \in OwnMoves : OwnMouse(h, d)
  \/ \E a \in Addresses : UnregisterClient(a) \/ UpdateClientConfiguration(a) \/ SwitchToClient(a)
  \/ SwitchToLocal
  \/ \E d \in Moves : Move(d)

Spec == Init /\ [][Next]_vars

-----------------------------------------------------------------------------
(* Properties.                                                             *)

\* The monitors of a client are some that its own host has detected, never
\* another host's, however sessions of two hosts come, go and overlap.
MonitorsAreOwn ==
  \A a \in Registered :
    monitors[a] # <<>> => \E m \in Machines[host[a]] : monitors[a] \in Detected[m]

\* The tracked cursor is within its bounds; while the client has control and
\* its monitors are known, these are the bounds of those monitors, also when a
\* later session of the host has brought new ones.
CursorInBounds ==
  \A a \in Addresses : \A c \in cursor[a] :
    /\ Within(c.at, c.bounds)
    /\ owner = a /\ monitors[a] # <<>> => c.bounds = CalculateTotalDisplayBounds(monitors[a])

\* One monitor, of the size that InjectMousePosition assumes.
SoleScreen == <<[at |-> Origin, size |-> Extent, primary |-> TRUE]>>

\* A machine on which that is what is detected has no other enabled output, if it is
\* neither scaled nor turned.
SoleScreenIsAll(m) ==
  Plain(m) /\ SoleScreen \in Detected[m] =>
    /\ LayoutOf[m] # <<>>
    /\ CalculateTotalDisplayBounds(LayoutOf[m]) = [min |-> Origin, max |-> Extent]

\* With that monitor, unscaled, the tracked cursor and the pointer stay together while a
\* client has control and its user neither takes it back nor moves the mouse: through
\* switches, reconnects and releases, but for the far edge, which is one pixel too far
\* for the pointer.
PointerFollows ==
  \A a \in Registered : \A c \in cursor[a] :
    /\ owner = a /\ Reaches(a) /\ host[a] \in controlled
    /\ host[a] \notin changed \cup touched
    /\ monitors[a] = SoleScreen /\ Plain(machine[host[a]])
    => \A i \in Axes : c.at[i] - pointer[host[a]][i] \in 0..1

\* Control begins with the cursor on an enabled output, if no output is scaled or turned
\* and the monitors were detected in another way than from xrandr's or wlr-randr's text,
\* which give monitors without a size.
StartsOnScreen ==
  [][\A a \in Addresses :
       /\ SwitchToClient(a) /\ monitors[a] # <<>> /\ host[a] \notin changed
       /\ monitors[a] \in Detected[machine[host[a]]] /\ Plain(machine[host[a]])
       /\ Chosen(machine[host[a]]) # "portal" /\ machine[host[a]].json
       => \A c \in cursor'[a] :
            \E i \in DOMAIN Layout(host[a]) : ContainsPoint(Layout(host[a])[i], c.at)]_vars

=============================================================================
