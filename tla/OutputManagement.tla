-------------------------- MODULE OutputManagement --------------------------
(***************************************************************************)
(* output_management.NewOutputManager and the manager it returns.  Three   *)
(* goroutines read one connection: client.NewClient's roundtrip, the       *)
(* roundtrip of NewOutputManager itself, and the loop NewOutputManager     *)
(* starts just before ("Start event processing in background").  Each      *)
(* handles the events it happens to read.                                  *)
(*                                                                         *)
(* The compositor (external) answers requests, plugs and unplugs outputs,  *)
(* announces a further seat, and may go away.  Of a head's events those    *)
(* about its text, size, position, scale and transform are one event,      *)
(* "properties", after which the head is known; its mode is announced once.*)
(***************************************************************************)
EXTENDS WlDisplay, SequencesExt

CONSTANTS
  Registries,     \* the sequences of interfaces a compositor may announce at first
  Capabilities,   \* the capability words a seat may report
  Serials,        \* the serials a callback's done may tell
  Outputs,        \* numbers of the outputs that may be plugged in
  Plugged,        \* those plugged in at first
  MaxGlobals,     \* bound on the globals announced
  MaxIterations   \* dispatches in a roundtrip before it gives up (1000 in the code)

ASSUME RegistriesAssumption == Registries \subseteq Seq({"wl_seat", "zwlr_output_manager_v1"})
ASSUME WordsAssumption == Capabilities \subseteq Nat /\ Serials \subseteq Nat
ASSUME OutputsAssumption ==
  Outputs \subseteq Nat /\ IsFiniteSet(Outputs) /\ Plugged \subseteq Outputs
ASSUME IterationsAssumption == MaxIterations \in Nat \ {0} /\ MaxGlobals \in Nat
\* The client's ids do not reach the compositor's.
ASSUME IdsAssumption ==
  /\ MaxGlobals + 6 <= FirstServerID
  /\ \A globals \in Registries : Len(globals) + 6 <= FirstServerID

VARIABLES
  display,      \* the connection
  outputManager, \* Client.outputManager: the global's name, 0 before it is announced
  pc,           \* how far the caller is
  rt,           \* the roundtrip it, or the goroutine of NewClient, is in
  pump,         \* the background loop
  om,           \* the OutputManager
  monitors,     \* the compositor's side: outputs plugged in, used, named; events sent
  crashed,      \* why the process died
  guess         \* whether handleServerObject's guess has been harmless so far (history)

vars == <<display, outputManager, pc, rt, pump, om, monitors, crashed, guess>>

Idle == [phase |-> "idle", id |-> 0, done |-> FALSE, count |-> 0]
Begun == [Idle EXCEPT !.phase = "allocate"]

HeadID(n) == FirstServerID + 2 * n
ModeID(n) == HeadID(n) + 1

Init ==
  /\ display = [Connect(<<>>) EXCEPT !.open = FALSE]
  /\ outputManager = 0
  /\ pc = "start"
  /\ rt = Idle
  /\ pump = "off"
  /\ om = [heads |-> <<>>, hasSerial |-> FALSE, serial |-> 0, signal |-> FALSE, manager |-> 0]
  /\ monitors = [plugged |-> Plugged, used |-> Plugged, bound |-> 0, serial |-> 0]
  /\ crashed = "no"
  /\ guess = "right"

Running == crashed = "no"

-----------------------------------------------------------------------------
(* Events.                                                                 *)

Announcement(manager, n) ==
  <<Ev(manager, "head", "", HeadID(n)), Ev(HeadID(n), "mode", "", ModeID(n)),
    Ev(ModeID(n), "preferred", "", 0), Ev(HeadID(n), "properties", "", 0)>>
ManagerDone(manager, serial) == <<Ev(manager, "manager_done", "", serial)>>

\* What the compositor sends when the manager is bound: the four events of each output.
Introduction(manager) ==
  LET order == SetToSeq(monitors.plugged)
  IN [i \in 1..4 * Len(order) |->
        Announcement(manager, order[((i - 1) \div 4) + 1])[((i - 1) % 4) + 1]]
     \o ManagerDone(manager, 1)

\* OutputManager.handleHead.
HandleHead(id) ==
  [om EXCEPT !.heads = With(@, id, [known |-> FALSE, modes |-> <<>>, mode |-> 0])]

\* The mode handler: a mode becomes the head's if it is preferred already.
Preferred(modes, m) == m \in DOMAIN modes /\ modes[m]
HandleMode(id, m) ==
  [om EXCEPT !.heads[id].mode = IF @ = 0 /\ Preferred(om.heads[id].modes, m) THEN m ELSE @,
             !.heads[id].modes = With(@, m, FALSE)]
HandlePreferred(m) ==
  [om EXCEPT !.heads = [id \in DOMAIN @ |->
     IF m \in DOMAIN @[id].modes THEN [@[id] EXCEPT !.modes[m] = TRUE] ELSE @[id]]]
HandleProperties(id) == [om EXCEPT !.heads[id].known = TRUE]
KeepsHead(id) == om
HandleHeadFinished(id) == [om EXCEPT !.heads = Without(@, {id})]

\* OutputManager.handleDone: the first one wakes NewOutputManager.
HandleDone(serial) ==
  [om EXCEPT !.signal = @ \/ ~om.hasSerial, !.serial = serial, !.hasSerial = TRUE]
HandleFinished == [om EXCEPT !.manager = 0]

\* What the event's own proxy does to the manager's state.
ManagerAfter(e) ==
  LET kind == KindAt(display, e.to)
  IN CASE kind = "manager" /\ e.op = "head" -> HandleHead(e.arg)
       [] kind = "manager" /\ e.op = "manager_done" -> HandleDone(e.arg)
       [] kind = "manager" /\ e.op = "manager_finished" -> HandleFinished
       [] kind = "head" /\ e.to \in DOMAIN om.heads /\ e.op = "mode" -> HandleMode(e.to, e.arg)
       [] kind = "head" /\ e.to \in DOMAIN om.heads /\ e.op = "properties" -> HandleProperties(e.to)
       [] kind = "head" /\ e.op = "head_finished" -> HandleHeadFinished(e.to)
       [] kind = "mode" /\ e.op = "preferred" -> HandlePreferred(e.to)
       [] OTHER -> om

\* Client.HandleRegistryGlobal, called for every global; a seat reports the word.
HandleRegistryGlobal(d, e, word) ==
  IF e.what = "wl_seat"
  THEN BindID(d, "seat", <<Ev(d.nextID, "capabilities", "", word)>>) ELSE d

\* The registrations the proxies of the manager, the heads and the modes do.
ManagerDispatch(d, e) ==
  CASE e.op = "head" -> Register(d, e.arg, "head")
    [] e.op = "manager_finished" -> Unregister(d, e.to)
    [] OTHER -> d
HeadForgetsModes(d, e) == IF e.op = "head_finished" THEN Unregister(d, e.to) ELSE d
HeadDispatch(d, e) ==
  CASE e.op = "mode" -> Register(d, e.arg, "mode")
    [] e.op = "head_finished" -> Unregister(d, e.to)
    [] OTHER -> d
ModeDispatch(d, e) == IF e.op = "mode_finished" THEN Unregister(d, e.to) ELSE d

DisplayAfter(e, word) ==
  LET kind == KindAt(display, e.to)
      d == Dispatched(display)
  IN CASE kind = "registry" /\ e.op = "global" -> HandleRegistryGlobal(d, e, word)
       [] kind = "manager" -> ManagerDispatch(d, e)
       [] kind = "head" -> HeadDispatch(d, e)
       [] kind = "mode" -> ModeDispatch(d, e)
       [] OTHER -> d

\* The handlers that take OutputManager.mu; a head's removal does not.
TakesLock(e) == e.op \in {"head", "properties", "manager_done", "manager_finished"}

CanRead == display.open /\ display.incoming /= <<>>
NextEvent == Head(display.incoming)
Readable == CanRead /\ NextEvent.op /= "error"
ReadFails == ~display.open \/ (CanRead /\ NextEvent.op = "error")
               \/ (display.incoming = <<>> /\ display.gone)

\* An id the client has used and no longer does: nothing there can be overwritten.
Disused(id) ==
  /\ id < display.nextID /\ id \notin {rt.id, om.manager}
  /\ KindAt(display, id) \in {"none", "OutputHead"}

\* handleServerObject takes the first word of an event for a head's id that is none.
Misplaced(e) ==
  /\ e.to = 5 /\ e.op \in {"capabilities", "done"}
  /\ KindAt(display, 5) /= "none" /\ ~Disused(e.arg)

\* Display.Dispatch by any goroutine; iterating over heads meanwhile is fatal in Go.
Dispatch ==
  /\ Readable
  /\ pc = "reading" => ~TakesLock(NextEvent)
  /\ \E word \in Capabilities : display' = DisplayAfter(NextEvent, word)
  /\ guess' = IF Misplaced(NextEvent) THEN "wrong" ELSE guess
  /\ om' = ManagerAfter(NextEvent)
  /\ outputManager' = IF NextEvent.op = "global" /\ NextEvent.what = "zwlr_output_manager_v1"
                      THEN NextEvent.arg ELSE outputManager
  /\ crashed' \in IF pc = "reading" /\ NextEvent.op = "head_finished"
                  THEN {"no", "map"} ELSE {"no"}

CallbackFires == CanRead /\ NextEvent.to = rt.id /\ CallbackRuns(display, NextEvent)

-----------------------------------------------------------------------------
(* Display.Roundtrip, of NewClient and then of NewOutputManager.           *)

TrustsRoundtrip(ok) ==
  IF pc = "globals" /\ ok THEN "bind" ELSE IF pc = "outputs" THEN "returned" ELSE "failed"

\* What the caller does when the roundtrip has ended: NewOutputManager ignores its
\* error.  After a cancellation nobody waits for NewClient any more.
AfterRoundtrip(ok) ==
  CASE pc = "globals" /\ ok -> "bind"
    [] pc = "outputs" -> "wait"
    [] OTHER -> "failed"

RoundtripEnds(ok) == rt' = Idle /\ pc' = AfterRoundtrip(ok)

RoundtripAllocates ==
  /\ Running /\ rt.phase = "allocate"
  /\ display' = [AllocateID(display) EXCEPT !.listeners = @ \cup {display.nextID}]
  /\ rt' = [rt EXCEPT !.phase = "request", !.id = display.nextID]
  /\ UNCHANGED <<outputManager, pc, pump, om, monitors, crashed, guess>>

RoundtripRequests ==
  /\ Running /\ rt.phase = "request"
  /\ IF CanWrite(display)
     THEN /\ \E serial \in Serials : display' = SyncRequest(display, rt.id, serial)
          /\ rt' = [rt EXCEPT !.phase = "store"]
          /\ UNCHANGED pc
     ELSE RoundtripEnds(FALSE) /\ UNCHANGED display
  /\ UNCHANGED <<outputManager, pump, om, monitors, crashed, guess>>

\* The callback object is stored after the request has gone out.
RoundtripStores ==
  /\ Running /\ rt.phase = "store"
  /\ display' = Stored(display, rt.id, "callback")
  /\ rt' = [rt EXCEPT !.phase = "read"]
  /\ UNCHANGED <<outputManager, pc, pump, om, monitors, crashed, guess>>

RoundtripDispatches ==
  /\ Running /\ rt.phase = "read"
  /\ Dispatch
  /\ rt' = [rt EXCEPT !.phase = "check", !.done = @ \/ CallbackFires, !.count = @ + 1]
  /\ UNCHANGED <<pc, pump, monitors>>

RoundtripReadFails ==
  /\ Running /\ rt.phase = "read" /\ ReadFails
  /\ RoundtripEnds(FALSE)
  /\ UNCHANGED <<display, outputManager, pump, om, monitors, crashed, guess>>

LastRound == rt.done \/ rt.count = MaxIterations

\* The callback is looked for only after a dispatch of the roundtrip's own.
RoundtripChecks ==
  /\ Running /\ rt.phase = "check"
  /\ IF LastRound
     THEN RoundtripEnds(rt.done)
     ELSE rt' = [rt EXCEPT !.phase = "read"] /\ UNCHANGED pc
  /\ UNCHANGED <<display, outputManager, pump, om, monitors, crashed, guess>>

-----------------------------------------------------------------------------
(* The caller: NewOutputManager, GetHeads, Close.                          *)

NewClient ==
  /\ Running /\ pc = "start"
  /\ pc' = "globals"
  /\ \E globals \in Registries : display' = Connect(globals)
  /\ rt' = Begun
  /\ UNCHANGED <<outputManager, pump, om, monitors, crashed, guess>>

\* No socket, or the context is cancelled already.
NewClientFails ==
  /\ Running /\ pc = "start"
  /\ pc' = "failed"
  /\ UNCHANGED <<display, outputManager, rt, pump, om, monitors, crashed, guess>>

\* Cancelled while NewClient runs: its goroutine goes on, and the connection stays.
Cancelled ==
  /\ Running /\ pc = "globals"
  /\ pc' = "abandoned"
  /\ UNCHANGED <<display, outputManager, rt, pump, om, monitors, crashed, guess>>

NotAvailable ==
  /\ Running /\ pc = "bind" /\ outputManager = 0
  /\ display' = CloseContext(display)
  /\ pc' = "failed"
  /\ UNCHANGED <<outputManager, rt, pump, om, monitors, crashed, guess>>

BindManager ==
  /\ Running /\ pc = "bind" /\ outputManager /= 0
  /\ display' = Bind(display, "manager", Introduction(display.nextID))
  /\ IF CanWrite(display)
     THEN /\ om' = [om EXCEPT !.manager = display.nextID]
          /\ monitors' = [monitors EXCEPT !.bound = display.nextID, !.serial = 1]
          /\ pump' = "on" /\ pc' = "outputs" /\ rt' = Begun
     ELSE pc' = "failed" /\ UNCHANGED <<om, monitors, pump, rt>>
  /\ UNCHANGED <<outputManager, crashed, guess>>

InitialConfiguration ==
  /\ Running /\ pc = "wait" /\ om.signal
  /\ pc' = "returned"
  /\ om' = [om EXCEPT !.signal = FALSE]
  /\ UNCHANGED <<display, outputManager, rt, pump, monitors, crashed, guess>>

\* Five seconds have passed, or the context is cancelled.
InitialTimeout ==
  /\ Running /\ pc = "wait"
  /\ pc' = "stop"
  /\ UNCHANGED <<display, outputManager, rt, pump, om, monitors, crashed, guess>>

GetHeads ==
  /\ Running
  /\ \/ pc = "returned" /\ pc' = "reading"
     \/ pc = "reading" /\ pc' = "returned"
  /\ UNCHANGED <<display, outputManager, rt, pump, om, monitors, crashed, guess>>

CloseCalled ==
  /\ Running /\ pc = "returned"
  /\ pc' = "stop"
  /\ UNCHANGED <<display, outputManager, rt, pump, om, monitors, crashed, guess>>

\* Close: om.manager is tested once and read again for each call, without the lock.
CloseStops ==
  /\ Running /\ pc = "stop"
  /\ pc' = IF om.manager = 0 THEN "disconnect" ELSE "destroy"
  /\ display' = IF om.manager /= 0 /\ CanRequest(display) /\ monitors.bound /= 0
                THEN Gets(display, <<Ev(om.manager, "manager_finished", "", 0),
                                     DeleteIdEvent(om.manager)>>) ELSE display
  /\ monitors' = IF om.manager /= 0 /\ CanRequest(display)
                 THEN [monitors EXCEPT !.bound = 0] ELSE monitors
  /\ UNCHANGED <<outputManager, rt, pump, om, crashed, guess>>

CloseDestroys ==
  /\ Running /\ pc = "destroy"
  /\ IF om.manager = 0
     THEN crashed' = "nil" /\ UNCHANGED <<display, pc>>
     ELSE /\ display' = Unregister(display, om.manager)
          /\ pc' = "disconnect" /\ UNCHANGED crashed
  /\ UNCHANGED <<outputManager, rt, pump, om, monitors, guess>>

CloseDisconnects ==
  /\ Running /\ pc = "disconnect"
  /\ display' = CloseContext(display)
  /\ pc' = "closed"
  /\ UNCHANGED <<outputManager, rt, pump, om, monitors, crashed, guess>>

PumpDispatches ==
  /\ Running /\ pump = "on"
  /\ Dispatch
  /\ rt' = [rt EXCEPT !.done = @ \/ CallbackFires]
  /\ UNCHANGED <<pc, pump, monitors>>

PumpEnds ==
  /\ Running /\ pump = "on" /\ ReadFails
  /\ pump' = "exited"
  /\ UNCHANGED <<display, outputManager, pc, rt, om, monitors, crashed, guess>>

-----------------------------------------------------------------------------
(* The compositor (external).                                              *)

Talks == Running /\ display.open /\ ~display.gone /\ monitors.bound /= 0
Told(events, changed) ==
  /\ display' = Gets(display, events \o ManagerDone(monitors.bound, monitors.serial + 1))
  /\ monitors' = [changed EXCEPT !.serial = @ + 1]
  /\ UNCHANGED <<outputManager, pc, rt, pump, om, crashed, guess>>

PlugIn(n) ==
  /\ Talks /\ n \notin monitors.used
  /\ Told(Announcement(monitors.bound, n),
          [monitors EXCEPT !.plugged = @ \cup {n}, !.used = @ \cup {n}])

Unplug(n) ==
  /\ Talks /\ n \in monitors.plugged
  /\ Told(<<Ev(ModeID(n), "mode_finished", "", 0), Ev(HeadID(n), "head_finished", "", 0)>>,
          [monitors EXCEPT !.plugged = @ \ {n}])

AnnounceSeat ==
  /\ Running /\ display.open /\ ~display.gone
  /\ LET name == Cardinality(DOMAIN display.globals) + 1
     IN /\ name <= MaxGlobals
        /\ \A i \in DOMAIN display.incoming : display.incoming[i].op /= "global"
        /\ display' = Gets(display, <<GlobalEvent(name, "wl_seat")>>)
  /\ UNCHANGED <<outputManager, pc, rt, pump, om, monitors, crashed, guess>>

HangUp ==
  /\ Running /\ display.open /\ ~display.gone
  /\ display' = [display EXCEPT !.gone = TRUE, !.live = <<>>]
  /\ UNCHANGED <<outputManager, pc, rt, pump, om, monitors, crashed, guess>>

Roundtrip ==
  \/ RoundtripAllocates \/ RoundtripRequests \/ RoundtripStores
  \/ RoundtripDispatches \/ RoundtripReadFails \/ RoundtripChecks

Caller ==
  \/ NewClient \/ NewClientFails \/ Cancelled \/ NotAvailable \/ BindManager
  \/ InitialConfiguration \/ InitialTimeout \/ GetHeads \/ CloseCalled
  \/ CloseStops \/ CloseDestroys \/ CloseDisconnects

Pump == PumpDispatches \/ PumpEnds

Compositor == AnnounceSeat \/ HangUp \/ \E n \in Outputs : PlugIn(n) \/ Unplug(n)

Next == Roundtrip \/ Caller \/ Pump \/ Compositor

Spec == Init /\ [][Next]_vars

Constructs ==
  \/ NewClient \/ NotAvailable \/ BindManager \/ InitialConfiguration \/ InitialTimeout
  \/ CloseStops \/ CloseDestroys \/ CloseDisconnects

\* Goroutines run; both readers get the receive lock while there is something to read,
\* and a reader of the heads ends its iteration.
Fairness ==
  /\ WF_vars(Roundtrip) /\ SF_vars(RoundtripDispatches)
  /\ WF_vars(Constructs)
  /\ WF_vars(Pump) /\ SF_vars(PumpDispatches)
  /\ WF_vars(pc = "reading" /\ GetHeads)

FairSpec == Spec /\ Fairness

-----------------------------------------------------------------------------
(* Properties.                                                             *)

KindOf(op) ==
  CASE op \in {"global", "global_remove"} -> "registry"
    [] op = "done" -> "callback"
    [] op = "capabilities" -> "seat"
    [] op \in {"head", "manager_done", "manager_finished"} -> "manager"
    [] op \in {"mode", "properties", "head_finished"} -> "head"
    [] op \in {"preferred", "mode_finished"} -> "mode"
    [] OTHER -> "display"

\* The event to be read next finds the object it is for under its id, not one of
\* another kind that Dispatch, handleServerObject or a registration has put there; only
\* a callback that is not stored yet and what a destroyed manager left may be missing.  The one
\* thing that can break this is the guess that object 5 is the output manager: as soon
\* as it has put a head over an object, or where one will be, nothing is promised.
EventsReachTheirObject ==
  CanRead /\ guess = "right" =>
    \/ KindAt(display, NextEvent.to) = KindOf(NextEvent.op)
    \/ /\ KindAt(display, NextEvent.to) = "none"
       /\ \/ NextEvent.to = rt.id /\ rt.phase = "store"
          \/ pc = "disconnect"

\* A manager NewOutputManager has returned knows every output that was there when it
\* was bound and still is, with its properties, whichever goroutine read its events.
InitialHeadsKnown ==
  pc \in {"returned", "reading"} =>
    \A n \in Plugged \cap monitors.plugged :
      HeadID(n) \in DOMAIN om.heads /\ om.heads[HeadID(n)].known

HeadsCurrent == DOMAIN om.heads = {HeadID(n) : n \in monitors.plugged}
Ended == pump = "exited" \/ display.gone \/ ~display.open \/ crashed /= "no"

\* While the background loop runs the heads come to be the outputs plugged in, after
\* every plug and unplug, unless the guess has hit an object.
HeadsFollow == pump = "on" ~> HeadsCurrent \/ Ended \/ guess = "wrong"
=============================================================================
