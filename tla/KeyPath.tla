------------------------------ MODULE KeyPath -------------------------------
(***************************************************************************)
(* The way of a key: from the device, through the event channel of         *)
(* AllDevicesCapture and the routing of ClientManager, over SSH to the     *)
(* virtual keyboard of a client.  It is the way of mouse buttons too.      *)
(*                                                                         *)
(* The path looks at the target twice: processEvents asks the backend,     *)
(* HandleInputEvent asks the manager, and neither is what the target was   *)
(* when the key was read.  Keys may be down when control moves.            *)
(*                                                                         *)
(* One keyboard, read by one goroutine.  Who decides to switch, failed     *)
(* grabs and clients that leave are the subject of ClientManager; the      *)
(* channel to a client that of ControlLink.  It is a FIFO and here without *)
(* delay: sending and injecting are one step, and what the client's user   *)
(* does is taken as done after the messages the client has handled by then.*)
(***************************************************************************)
EXTENDS Naturals, Sequences

CONSTANTS
  Clients,   \* the clients, all registered and connected
  Nobody,    \* the desktop: no target, or local control
  Ctrl, Esc, \* two keys; together they are the emergency chord
  QueueSize  \* capacity of eventChan

Keys == {Ctrl, Esc}

ASSUME NobodyAssumption == Nobody \notin Clients
ASSUME KeysAssumption == Ctrl # Esc
ASSUME QueueAssumption == QueueSize \in Nat \ {0}

VARIABLES
  held,        \* keys that are physically down
  ctrlPressed, \* AllDevicesCapture.ctrlPressed
  target,      \* AllDevicesCapture.currentTarget
  chord,       \* progress of the emergency goroutine
  queue,       \* eventChan
  taken,       \* events processEvents has passed to HandleInputEvent: at most one
  owner,       \* activeClientID
  beingControlled, \* controlStatus.BeingControlled of each client
  keys,        \* keys that are down on each client's virtual keyboard
  followed,    \* history: keys whose last event was queued for the present owner
  dropped,     \* history: keys whose last event was dropped
  left         \* history: keys that may stay down on a client control has left

deviceVars == <<held, ctrlPressed>>
controlVars == <<target, owner, chord, beingControlled>>
historyVars == <<followed, dropped, left>>
vars == <<deviceVars, controlVars, queue, taken, keys, historyVars>>

Event == [key : Keys, pressed : BOOLEAN]

TypeOK ==
  /\ held \subseteq Keys
  /\ ctrlPressed \in BOOLEAN
  /\ target \in Clients \cup {Nobody}
  /\ chord \in {"none", "started", "cleared"}
  /\ queue \in Seq(Event) /\ Len(queue) <= QueueSize
  /\ taken \in Seq(Event) /\ Len(taken) <= 1
  /\ owner \in Clients \cup {Nobody}
  /\ beingControlled \in [Clients -> BOOLEAN]
  /\ keys \in [Clients -> SUBSET Keys]
  /\ followed \subseteq Keys
  /\ dropped \subseteq Keys
  /\ left \in [Clients -> SUBSET Keys]

Init ==
  /\ held = {}
  /\ ctrlPressed = FALSE
  /\ target = Nobody
  /\ chord = "none"
  /\ queue = <<>>
  /\ taken = <<>>
  /\ owner = Nobody
  /\ beingControlled = [c \in Clients |-> FALSE]
  /\ keys = [c \in Clients |-> {}]
  /\ followed = {}
  /\ dropped = {}
  /\ left = [c \in Clients |-> {}]

-----------------------------------------------------------------------------
(* The device goroutine.  A value is 1 for a press, 0 for a release and 2  *)
(* for the kernel's autorepeat.                                            *)

ReportsPressed(value) == value > 0
ReportsFirstPress(value) == value = 1
Pressed(value) == ReportsPressed(value)

\* The chord is looked for in the state the same event has just updated.
IsChord(key, value) ==
  /\ key = Esc /\ value = 1
  /\ target # Nobody
  /\ ctrlPressed'

HasRoom == Len(queue) < QueueSize

\* A full channel drops the event.
SendEvent(key, value) ==
  IF HasRoom
  THEN /\ queue' = Append(queue, [key |-> key, pressed |-> Pressed(value)])
       /\ followed' = IF target # Nobody /\ target = owner THEN followed \cup {key} ELSE {}
       /\ dropped' = dropped \ {key}
  ELSE /\ followed' = followed \ {key}
       /\ dropped' = dropped \cup {key}
       /\ UNCHANGED queue

ReadKey(key, value) ==
  /\ ctrlPressed' = IF key = Ctrl THEN value = 1 ELSE ctrlPressed
  /\ IF IsChord(key, value)
     THEN /\ chord = "none"
          /\ chord' = "started"
          /\ followed' = followed \ {key}
          /\ UNCHANGED <<queue, dropped>>
     ELSE SendEvent(key, value) /\ UNCHANGED chord
  /\ UNCHANGED <<target, owner, beingControlled, taken, keys, left>>

Press(key) == key \notin held /\ held' = held \cup {key} /\ ReadKey(key, 1)
Repeat(key) == key \in held /\ UNCHANGED held /\ ReadKey(key, 2)
Release(key) == key \in held /\ held' = held \ {key} /\ ReadKey(key, 0)

-----------------------------------------------------------------------------
(* Who has control.                                                        *)

\* Keys in the channel, or with HandleInputEvent.
OnTheWay == {event.key : event \in {queue[i] : i \in DOMAIN queue} \cup
                                   {taken[i] : i \in DOMAIN taken}}

\* What control leaves behind on the client it leaves.
Leaves(c) == left' = IF c = Nobody THEN left
                     ELSE [left EXCEPT ![c] = held \cup OnTheWay \cup dropped \cup (@ \cap keys[c])]

MoveControl(c) ==
  /\ owner' = c
  /\ target' = c
  /\ followed' = {}
  /\ Leaves(owner)
  /\ UNCHANGED dropped

\* REQUEST_CONTROL goes to the new client, RELEASE_CONTROL to the old one only when
\* control returns to the desktop.
SwitchToClient(c) ==
  /\ owner # c
  /\ MoveControl(c)
  /\ beingControlled' = [beingControlled EXCEPT ![c] = TRUE]
  /\ UNCHANGED <<deviceVars, chord, queue, taken, keys>>

Return ==
  /\ owner # Nobody
  /\ MoveControl(Nobody)
  /\ beingControlled' = [beingControlled EXCEPT ![owner] = FALSE]

SwitchToLocal == Return /\ UNCHANGED <<deviceVars, chord, queue, taken, keys>>

\* SetTarget("") by the safety timer, or first by the emergency goroutine.
DropTarget ==
  /\ target # Nobody
  /\ target' = Nobody
  /\ followed' = {}
  /\ Leaves(owner)
  /\ UNCHANGED dropped

TimerCallback ==
  /\ DropTarget
  /\ UNCHANGED <<deviceVars, owner, beingControlled, chord, queue, taken, keys>>

ChordClears ==
  /\ chord = "started"
  /\ chord' = "cleared"
  /\ \/ DropTarget
     \/ target = Nobody /\ UNCHANGED <<target, historyVars>>
  /\ UNCHANGED <<deviceVars, owner, beingControlled, queue, taken, keys>>

\* The emergency handler of the manager.
ChordEnds ==
  /\ chord = "cleared"
  /\ chord' = "none"
  /\ \/ Return
     \/ owner = Nobody /\ UNCHANGED <<owner, target, beingControlled, historyVars>>
  /\ UNCHANGED <<deviceVars, queue, taken, keys>>

\* RequestControlRelease: the client's user takes control back.  The server, which is
\* asked before, returns control when it hears of it: SwitchToLocal, at any time.
UserReleases(c) ==
  /\ beingControlled[c]
  /\ beingControlled' = [beingControlled EXCEPT ![c] = FALSE]
  /\ IF c = owner THEN Leaves(c) ELSE UNCHANGED left
  /\ UNCHANGED <<deviceVars, target, owner, chord, queue, taken, keys, followed, dropped>>

-----------------------------------------------------------------------------
(* processEvents and HandleInputEvent: one goroutine.                      *)

Rest(events) == Tail(events)

Take ==
  /\ queue # <<>> /\ taken = <<>>
  /\ taken' = IF target = Nobody THEN <<>> ELSE <<Head(queue)>>
  /\ queue' = Rest(queue)
  /\ UNCHANGED <<deviceVars, controlVars, keys, historyVars>>

\* WaylandVirtualInput.InjectKeyEvent; the compositor keeps the keys down.
InjectKeyEvent(c, event) ==
  keys' = [keys EXCEPT ![c] = IF event.pressed THEN @ \cup {event.key} ELSE @ \ {event.key}]

\* InputReceiver.processInputEvent: a client that is not controlled ignores input.
ProcessesAnyInput(c, event) == InjectKeyEvent(c, event)
ProcessInputEvent(c, event) ==
  IF beingControlled[c] THEN InjectKeyEvent(c, event) ELSE UNCHANGED keys

HandleInputEvent ==
  /\ taken # <<>>
  /\ taken' = <<>>
  /\ IF owner = Nobody THEN UNCHANGED keys ELSE ProcessInputEvent(owner, Head(taken))
  /\ UNCHANGED <<deviceVars, controlVars, queue, historyVars>>

-----------------------------------------------------------------------------

Next ==
  \/ \E key \in Keys : Press(key) \/ Repeat(key) \/ Release(key)
  \/ \E c \in Clients : SwitchToClient(c) \/ UserReleases(c)
  \/ SwitchToLocal
  \/ TimerCallback
  \/ ChordClears
  \/ ChordEnds
  \/ Take
  \/ HandleInputEvent

Spec == Init /\ [][Next]_vars

-----------------------------------------------------------------------------
(* Properties.                                                             *)

Quiet == queue = <<>> /\ taken = <<>>

\* While control stays with a client and its user does not take it back, its keyboard
\* follows the real one: once nothing is on the way, a key whose last event was queued
\* since control came is down there exactly when it is held.  Order, autorepeat, the two
\* looks at the target and a release and new hand-over in between must not get in the way.
KeyboardFollows ==
  \A c \in Clients :
    owner = c /\ target = c /\ beingControlled[c] /\ Quiet =>
      \A key \in followed : key \in keys[c] <=> key \in held

\* A key that stays down on a client that has lost control, or given it up itself, was
\* held when control left or the user took it back, or on the server's side of the way
\* then, or its event was dropped by the full channel.  Nothing else leaves a key stuck.
StuckKeysWereHeld ==
  \A c \in Clients :
    c # owner \/ ~beingControlled[c] => keys[c] \subseteq left[c]
=============================================================================
