------------------------------ MODULE WlDisplay -----------------------------
(***************************************************************************)
(* A connection of the wlturbo library to a Wayland compositor, as a value *)
(* and the functions on it: what OutputManagement steps through.           *)
(*                                                                         *)
(*   open      the socket has not been closed by this side                 *)
(*   accepted  the context still sends requests                            *)
(*   nextID    the next object id                                          *)
(*   objects   Display.objects: the kind of object under each id           *)
(*   proxies   Context.proxies: the ids registered there                   *)
(*   listeners the ids with a listener in Display.listeners                *)
(*   globals   Registry.globals: name -> interface                         *)
(*   incoming  the events in the socket, oldest first                      *)
(*   gone      the compositor has closed its side                          *)
(*   expected  the id the compositor wants the next new object to have     *)
(*   live      the client's objects in the compositor: id -> kind          *)
(*                                                                         *)
(* A request is written under sendMu and the compositor's reaction to it   *)
(* is part of the same step: it is seen by the client only through events, *)
(* which wait in the socket.  An event is read and handled under recvMu.   *)
(* Messages have the parts that decide what happens; their encoding is     *)
(* left out.                                                               *)
(***************************************************************************)
EXTENDS Naturals, Sequences, FiniteSets

CONSTANT FirstServerID  \* the compositor's own objects have ids from here (0xff000000)

ASSUME ServerIDAssumption == FirstServerID \in Nat \ (0..9)

DisplayID == 1
RegistryID == 2

\* An event to object "to": "what" is an interface, "arg" an id, a name or a value.
Ev(to, op, what, arg) == [to |-> to, op |-> op, what |-> what, arg |-> arg]
GlobalEvent(name, interface) == Ev(RegistryID, "global", interface, name)
ErrorEvent(id) == Ev(DisplayID, "error", "", id)
DeleteIdEvent(id) == Ev(DisplayID, "delete_id", "", id)

\* Every message has its opcode at the same place in the header: head, capabilities
\* and a callback's done are all opcode 0 with one word of body.
IsOpcodeZero(e) == e.op \in {"head", "capabilities", "done"}

With(f, x, v) == [y \in DOMAIN f \cup {x} |-> IF y = x THEN v ELSE f[y]]
Without(f, S) == [x \in DOMAIN f \ S |-> f[x]]

-----------------------------------------------------------------------------
(* The compositor's side.                                                  *)

Gets(d, events) == [d EXCEPT !.incoming = @ \o events]

\* New ids must come without gaps: anything else is a protocol error, and the end.
Creates(d, id, kind, replies) ==
  IF id = d.expected
  THEN Gets([d EXCEPT !.expected = @ + 1, !.live = With(@, id, kind)], replies)
  ELSE [Gets(d, <<ErrorEvent(id)>>) EXCEPT !.gone = TRUE, !.live = <<>>]

-----------------------------------------------------------------------------
(* Requests.                                                               *)

CanWrite(d) == d.open /\ ~d.gone
CanRequest(d) == d.accepted /\ CanWrite(d)

AllocateID(d) == [d EXCEPT !.nextID = @ + 1]

Stored(d, id, kind) == [d EXCEPT !.objects = With(@, id, kind)]
Register(d, id, kind) == [Stored(d, id, kind) EXCEPT !.proxies = @ \cup {id}]
Unregister(d, id) ==
  [d EXCEPT !.proxies = @ \ {id}, !.objects = Without(@, {id})]

\* A new connection, with the registry requested: every global is announced.
Connect(globals) ==
  [open |-> TRUE, accepted |-> TRUE, nextID |-> 3,
   objects |-> With([id \in {DisplayID} |-> "display"], RegistryID, "registry"), proxies |-> {},
   listeners |-> {RegistryID}, globals |-> <<>>,
   incoming |-> [i \in 1..Len(globals) |-> GlobalEvent(i, globals[i])],
   gone |-> FALSE, expected |-> 3, live |-> [id \in {RegistryID} |-> "registry"]]

\* wl_display.sync, answered at once by done, which tells the compositor's serial, and
\* by the id's deletion.
SyncRequest(d, id, serial) ==
  LET answered == Creates(d, id, "callback", <<Ev(id, "done", "", serial), DeleteIdEvent(id)>>)
  IN [answered EXCEPT !.live = Without(@, {id})]

\* Registry.Bind: the proxy gets the next id and is registered before the request.
Bind(d, kind, replies) ==
  LET id == d.nextID
      registered == Register(AllocateID(d), id, kind)
  IN IF CanWrite(d) THEN Creates(registered, id, kind, replies)
     ELSE Unregister(registered, id)

\* Registry.BindID and what HandleRegistryGlobal does with the id: it is registered
\* after the request, and only if that was sent.
BindID(d, kind, replies) ==
  LET id == d.nextID
  IN IF CanWrite(d) THEN Register(Creates(AllocateID(d), id, kind, replies), id, kind)
     ELSE AllocateID(d)

CloseContext(d) == [d EXCEPT !.accepted = FALSE, !.open = FALSE, !.live = <<>>]

-----------------------------------------------------------------------------
(* Events.                                                                 *)

\* Object 5 is taken for the output manager: "This is likely the output manager
\* based on your logs".  Its opcode 0 is then a head whose id is the first word.
ServerObject(d, e) ==
  IF e.to = 5 /\ IsOpcodeZero(e) THEN Stored(d, e.arg, "OutputHead") ELSE d

HandleGlobal(d, e) == [d EXCEPT !.globals = With(@, e.arg, e.what)]
HandleGlobalRemove(d, e) == [d EXCEPT !.globals = Without(@, {e.arg})]

\* delete_id forgets the object; Context.proxies keeps it.
HandleDisplayEvent(d, e) ==
  IF e.op = "delete_id" THEN [d EXCEPT !.objects = Without(@, {e.arg})] ELSE d

KindAt(d, id) == IF id \in DOMAIN d.objects THEN d.objects[id] ELSE "none"

\* A callback's listeners run from its own Dispatch, or when no object is found.
CallbackRuns(d, e) ==
  /\ e.op = "done"
  /\ e.to \in d.listeners
  /\ KindAt(d, e.to) \in {"callback", "none"}

\* What the library itself does with the first event: all of it for its own objects,
\* what precedes proxy.Dispatch for the others.
Dispatched(d) ==
  LET e == Head(d.incoming)
      read == [d EXCEPT !.incoming = Tail(@)]
      kind == KindAt(d, e.to)
      served == IF kind \in {"none", "registry"} THEN read ELSE ServerObject(read, e)
  IN CASE e.to = DisplayID -> HandleDisplayEvent(read, e)
       [] kind = "registry" /\ e.op = "global" -> HandleGlobal(read, e)
       [] kind = "registry" /\ e.op = "global_remove" -> HandleGlobalRemove(read, e)
       [] CallbackRuns(d, e) -> [served EXCEPT !.objects = Without(@, {e.to})]
       [] OTHER -> served
=============================================================================
