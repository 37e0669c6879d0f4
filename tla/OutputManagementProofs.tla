----------------------- MODULE OutputManagementProofs -----------------------
(***************************************************************************)
(* Theorems about the output manager, for any outputs, any globals and any *)
(* order in which its three goroutines read: events reach the object they  *)
(* are for, and the manager that is returned knows the outputs there were. *)
(*                                                                         *)
(* Seats may report any capabilities and callbacks any serial.  What the   *)
(* library's guess about object 5 does with them is followed in "guess":   *)
(* the invariant holds until it has put a head over an object or where one *)
(* will be, and everything it needs of the guess is that it has not.       *)
(***************************************************************************)
EXTENDS OutputManagement, TLAPS, FiniteSetTheorems

-----------------------------------------------------------------------------
(* What is on the way.                                                     *)

Ops == {"global", "error", "delete_id", "done", "capabilities", "manager_done",
        "manager_finished", "head", "mode", "properties", "preferred", "mode_finished",
        "head_finished"}
Event == [to : Nat, op : Ops, what : {"", "wl_seat", "zwlr_output_manager_v1"}, arg : Nat]

\* An event that puts an object under an id, or takes the one there away.
Adds(e, id) == e.op \in {"head", "mode"} /\ e.arg = id
Drops(e, id) ==
  \/ e.op = "delete_id" /\ e.arg = id
  \/ e.op \in {"done", "manager_finished", "head_finished", "mode_finished"} /\ e.to = id

\* An id that has been allocated, and one that no request has named yet.
Allocated(id) == id \in 3..(display.nextID - 1)
Reserved(id) == rt.phase = "request" /\ id = rt.id

\* Every event is for the object and about the object that its kind says.
ClientEventOK(e) ==
  /\ e.op \in {"error", "delete_id"} => e.to = DisplayID
  /\ e.op = "global" => e.to = RegistryID /\ e.arg + 6 <= FirstServerID
  /\ e.op = "delete_id" =>
       Allocated(e.arg) /\ ~ Reserved(e.arg) /\ (monitors.bound # 0 => e.arg # monitors.bound)
  /\ e.op \in {"done", "capabilities"} =>
       Allocated(e.to) /\ ~ Reserved(e.to) /\ e.to # om.manager
ManagerEventOK(e) ==
  /\ e.op \in {"head", "manager_done", "manager_finished"} => e.to = om.manager /\ om.manager # 0
  /\ e.op = "manager_finished" => monitors.bound = 0
  /\ e.op = "head" =>
       \E n \in monitors.used : e.arg = HeadID(n) /\ HeadID(n) \notin DOMAIN om.heads
OutputEventOK(e) ==
  /\ e.op = "mode" => \E n \in monitors.used : e.to = HeadID(n) /\ e.arg = ModeID(n)
  /\ e.op = "properties" => \E n \in monitors.used : e.to = HeadID(n)
  /\ e.op = "preferred" => \E n \in monitors.used : e.to = ModeID(n)
  /\ e.op = "head_finished" => \E n \in monitors.used \ monitors.plugged : e.to = HeadID(n)
  /\ e.op = "mode_finished" => \E n \in monitors.used \ monitors.plugged : e.to = ModeID(n)
EventOK(e) == ClientEventOK(e) /\ ManagerEventOK(e) /\ OutputEventOK(e)

\* What one event may do to one behind it.
PairOK(e, f) ==
  /\ ~ Drops(e, f.to)
  /\ ~ (e.op = "head" /\ f.op = "head" /\ e.arg = f.arg)
  /\ e.op = "global" /\ f.op = "global" => e.arg < f.arg

Ending == pc \in {"disconnect", "closed"}
MayMiss(e) ==
  \/ e.op = "done" /\ e.to = rt.id /\ rt.phase = "store"
  \/ Ending /\ (e.to = om.manager \/ e.to >= FirstServerID)

\* The object of an event is there, or comes with an event before it.
Found(e) ==
  \/ KindAt(display, e.to) = KindOf(e.op)
  \/ KindAt(display, e.to) = "none" /\ MayMiss(e)
Reached(q, i) == Found(q[i]) \/ \E j \in 1..(i - 1) : Adds(q[j], q[i].to)

\* Globals come in the order of their names, without gaps.
Seen == Cardinality(DOMAIN display.globals)
InOrder(q, i) ==
  q[i].op = "global" =>
    q[i].arg = Seen + 1 \/ \E j \in 1..(i - 1) : q[j].op = "global" /\ q[j].arg + 1 = q[i].arg

QueueOK(q) ==
  /\ \A i \in DOMAIN q : EventOK(q[i]) /\ Reached(q, i) /\ InOrder(q, i)
  /\ \A i \in DOMAIN q : \A j \in 1..(i - 1) : PairOK(q[j], q[i])

-----------------------------------------------------------------------------
(* The objects.                                                            *)

\* An output is there for the client, or is announced.
Adding(q, id) == \E j \in DOMAIN q : Adds(q[j], id)
Present(q, n) ==
  /\ KindAt(display, HeadID(n)) = "head" \/ Adding(q, HeadID(n))
  /\ KindAt(display, ModeID(n)) = "mode" \/ Adding(q, ModeID(n))

ObjectsOK ==
  /\ KindAt(display, DisplayID) = "display" /\ KindAt(display, RegistryID) = "registry"
  /\ \A id \in display.nextID..(FirstServerID - 1) : KindAt(display, id) = "none"
  /\ rt.phase \in {"request", "store"} => KindAt(display, rt.id) = "none"
  /\ \A n \in Outputs : /\ KindAt(display, HeadID(n)) \in {"none", "head"}
                        /\ KindAt(display, ModeID(n)) \in {"none", "mode"}
BoundOK ==
  monitors.bound # 0 /\ ~ display.gone =>
    /\ KindAt(display, monitors.bound) = "manager"
    /\ \A n \in monitors.plugged : Present(display.incoming, n)

-----------------------------------------------------------------------------
(* How far everybody is.                                                   *)

IdsOK ==
  /\ display.nextID >= 3 /\ display.nextID <= 6 + Seen
  /\ DOMAIN display.globals = 1..Seen /\ Seen \in Nat /\ Seen + 6 <= FirstServerID
  /\ pump = "off" /\ pc \in {"globals", "abandoned", "bind"} => display.nextID <= 4 + Seen
  /\ rt.phase = "allocate" => display.nextID <= 5 + Seen
  /\ pump = "off" => /\ rt.phase = "allocate" => display.nextID = 3
                     /\ rt.phase = "request" => display.nextID = 4 /\ rt.id = 3
  /\ pump # "off" => display.nextID >= 5
  /\ pc = "bind" => display.nextID >= 4
  /\ rt.phase \notin {"idle", "allocate"} => Allocated(rt.id)
  /\ pump # "off" /\ rt.phase \notin {"idle", "allocate"} => rt.id >= 5
  /\ rt.phase \in {"idle", "allocate"} => rt.id = 0
  /\ om.manager # 0 => om.manager \in 4..(display.nextID - 1) /\ rt.id # om.manager
  /\ monitors.bound # 0 => monitors.bound = om.manager

ControlOK ==
  /\ rt.phase \in {"idle", "allocate", "request", "store", "read", "check"}
  /\ pump = "off" => /\ om.manager = 0 /\ DOMAIN om.heads = {} /\ ~ om.hasSerial /\ monitors.bound = 0
                     /\ pc \in {"start", "globals", "abandoned", "bind", "failed"}
  /\ pump # "off" => pc \in {"outputs", "wait", "returned", "reading", "stop", "destroy",
                             "disconnect", "closed"}
  /\ rt.phase # "idle" => pc \in {"globals", "abandoned", "outputs"}
  /\ pc \in {"globals", "abandoned"} => rt.phase # "idle"
  /\ pc = "start" => rt.phase = "idle"
  /\ pc \notin {"start", "failed", "closed"} => display.open /\ display.accepted
  /\ pc = "closed" => ~ display.open
  /\ pc \in {"destroy", "disconnect", "closed"} => monitors.bound = 0 \/ display.gone
  /\ om.signal => om.hasSerial
  /\ pc \in {"returned", "reading"} => om.hasSerial

MonitorsOK ==
  /\ monitors.plugged \subseteq monitors.used /\ monitors.used \subseteq Outputs
  /\ Plugged \subseteq monitors.used
  /\ pump = "off" => monitors.plugged = Plugged
  /\ \A id \in DOMAIN om.heads : \E n \in monitors.used : id = HeadID(n)

-----------------------------------------------------------------------------
(* The outputs there were when the manager was bound.                      *)

Known(n) == HeadID(n) \in DOMAIN om.heads /\ om.heads[HeadID(n)].known

\* The first configuration will tell of the output before it ends.
InTime(q, n) ==
  \E j \in DOMAIN q :
    /\ q[j].op = "properties" /\ q[j].to = HeadID(n)
    /\ \A i \in 1..(j - 1) : q[i].op # "manager_done"
    /\ \/ HeadID(n) \in DOMAIN om.heads
       \/ \E k \in 1..(j - 1) : q[k].op = "head" /\ q[k].arg = HeadID(n)
NoneDone(q) == \A i \in DOMAIN q : q[i].op # "manager_done"

InitialOK ==
  pump # "off" /\ ~ Ending =>
    \A n \in Plugged \cap monitors.plugged :
      \/ Known(n)
      \/ ~ om.hasSerial /\ InTime(display.incoming, n)
      \/ ~ om.hasSerial /\ display.gone /\ NoneDone(display.incoming)

-----------------------------------------------------------------------------
(* Types, as far as they matter.                                           *)

Shaped(d) ==
  d = [open |-> d.open, accepted |-> d.accepted, nextID |-> d.nextID, objects |-> d.objects,
       proxies |-> d.proxies, listeners |-> d.listeners, globals |-> d.globals,
       incoming |-> d.incoming, gone |-> d.gone, expected |-> d.expected, live |-> d.live]
ShapesOK ==
  /\ Shaped(display) /\ display.incoming \in Seq(Event) /\ display.nextID \in Nat
  /\ om = [heads |-> om.heads, hasSerial |-> om.hasSerial, serial |-> om.serial,
           signal |-> om.signal, manager |-> om.manager]
  /\ om.manager \in Nat
  /\ \A id \in DOMAIN om.heads :
       om.heads[id] = [known |-> om.heads[id].known, modes |-> om.heads[id].modes,
                       mode |-> om.heads[id].mode]
  /\ monitors = [plugged |-> monitors.plugged, used |-> monitors.used,
                 bound |-> monitors.bound, serial |-> monitors.serial]
  /\ monitors.serial \in Nat /\ monitors.bound \in Nat
  /\ rt = [phase |-> rt.phase, id |-> rt.id, done |-> rt.done, count |-> rt.count]
  /\ rt.id \in Nat

OMInv ==
  /\ ShapesOK /\ ControlOK /\ IdsOK /\ MonitorsOK
  /\ ObjectsOK /\ BoundOK /\ QueueOK(display.incoming) /\ InitialOK


-----------------------------------------------------------------------------
(* Ids.                                                                    *)

LEMMA ServerIDs ==
  /\ FirstServerID \in Nat /\ FirstServerID >= 10
  /\ \A n \in Outputs : /\ HeadID(n) \in Nat /\ HeadID(n) >= FirstServerID
                        /\ ModeID(n) \in Nat /\ ModeID(n) >= FirstServerID
  /\ \A m, n \in Outputs : /\ HeadID(m) = HeadID(n) => m = n
                           /\ ModeID(m) = ModeID(n) => m = n
                           /\ HeadID(m) # ModeID(n)
BY ServerIDAssumption, OutputsAssumption DEF HeadID, ModeID

-----------------------------------------------------------------------------
(* The connection, field by field.                                         *)

LEMMA ShapedStored ==
  ASSUME NEW d, Shaped(d), NEW id, NEW kind
  PROVE  LET r == Stored(d, id, kind)
         IN /\ r = [d EXCEPT !.objects = With(d.objects, id, kind)]
            /\ Shaped(r) /\ r.incoming = d.incoming /\ r.nextID = d.nextID
            /\ r.globals = d.globals /\ r.gone = d.gone /\ r.open = d.open
            /\ r.accepted = d.accepted
            /\ \A i : KindAt(r, i) = IF i = id THEN kind ELSE KindAt(d, i)
<1>. DEFINE r == Stored(d, id, kind)
            w == With(d.objects, id, kind)
<1>1. r = [open |-> d.open, accepted |-> d.accepted, nextID |-> d.nextID, objects |-> w,
           proxies |-> d.proxies, listeners |-> d.listeners, globals |-> d.globals,
           incoming |-> d.incoming, gone |-> d.gone, expected |-> d.expected, live |-> d.live]
  BY DEF Stored, Shaped
<1>2. \A i : KindAt(r, i) = IF i = id THEN kind ELSE KindAt(d, i)
  <2>1. DOMAIN w = DOMAIN d.objects \cup {id}
    BY DEF With
  <2>2. \A x \in DOMAIN w : w[x] = IF x = id THEN kind ELSE d.objects[x]
    BY DEF With
  <2>3. r.objects = w
    BY <1>1
  <2>. HIDE DEF w, r
  <2>. QED BY <2>1, <2>2, <2>3 DEF KindAt
<1>3. Shaped(r)
  BY <1>1 DEF Shaped
<1>4. r = [d EXCEPT !.objects = With(d.objects, id, kind)]
  BY DEF Stored
<1>. QED BY <1>1, <1>2, <1>3, <1>4

LEMMA ShapedRegister ==
  ASSUME NEW d, Shaped(d), NEW id, NEW kind
  PROVE  LET r == Register(d, id, kind)
         IN /\ Shaped(r) /\ r.incoming = d.incoming /\ r.nextID = d.nextID
            /\ r.globals = d.globals /\ r.gone = d.gone /\ r.open = d.open
            /\ r.accepted = d.accepted
            /\ \A i : KindAt(r, i) = IF i = id THEN kind ELSE KindAt(d, i)
<1>. DEFINE s == Stored(d, id, kind)
            r == Register(d, id, kind)
<1>1. Shaped(s) /\ \A i : KindAt(s, i) = IF i = id THEN kind ELSE KindAt(d, i)
  BY ShapedStored
<1>2. /\ s.incoming = d.incoming /\ s.nextID = d.nextID
      /\ s.globals = d.globals /\ s.gone = d.gone /\ s.open = d.open
      /\ s.accepted = d.accepted
  BY ShapedStored
<1>3. r = [s EXCEPT !.proxies = s.proxies \cup {id}]
  BY DEF Register
<1>. HIDE DEF s, r
<1>4. r = [open |-> s.open, accepted |-> s.accepted, nextID |-> s.nextID, objects |-> s.objects,
           proxies |-> s.proxies \cup {id}, listeners |-> s.listeners, globals |-> s.globals,
           incoming |-> s.incoming, gone |-> s.gone, expected |-> s.expected, live |-> s.live]
  BY <1>1, <1>3 DEF Shaped
<1>5. \A i : KindAt(r, i) = KindAt(s, i)
  BY <1>4 DEF KindAt
<1>6. Shaped(r)
  BY <1>4 DEF Shaped
<1>7. \A i : KindAt(r, i) = IF i = id THEN kind ELSE KindAt(d, i)
  BY <1>1, <1>5
<1>8. /\ r.incoming = d.incoming /\ r.nextID = d.nextID
      /\ r.globals = d.globals /\ r.gone = d.gone /\ r.open = d.open
      /\ r.accepted = d.accepted
  BY <1>2, <1>4
<1>. QED BY <1>6, <1>7, <1>8 DEF r

LEMMA ShapedUnregister ==
  ASSUME NEW d, Shaped(d), NEW id
  PROVE  LET r == Unregister(d, id)
         IN /\ Shaped(r) /\ r.incoming = d.incoming /\ r.nextID = d.nextID
            /\ r.globals = d.globals /\ r.gone = d.gone /\ r.open = d.open
            /\ r.accepted = d.accepted
            /\ \A i : KindAt(r, i) = IF i = id THEN "none" ELSE KindAt(d, i)
<1>. DEFINE w == Without(d.objects, {id})
            r == Unregister(d, id)
            p == d.proxies \ {id}
            c == [d EXCEPT !.proxies = p]
<1>0. c = [open |-> d.open, accepted |-> d.accepted, nextID |-> d.nextID, objects |-> d.objects,
           proxies |-> p, listeners |-> d.listeners, globals |-> d.globals,
           incoming |-> d.incoming, gone |-> d.gone, expected |-> d.expected, live |-> d.live]
  <2>. HIDE DEF p
  <2>. QED BY DEF Shaped
<1>4. r = [c EXCEPT !.objects = w]
  BY DEF Unregister
<1>. HIDE DEF c, w, p, r
<1>1. r = [open |-> d.open, accepted |-> d.accepted, nextID |-> d.nextID, objects |-> w,
           proxies |-> p, listeners |-> d.listeners, globals |-> d.globals,
           incoming |-> d.incoming, gone |-> d.gone, expected |-> d.expected, live |-> d.live]
  BY <1>0, <1>4
<1>2. \A i : KindAt(r, i) = IF i = id THEN "none" ELSE KindAt(d, i)
  <2>1. DOMAIN w = DOMAIN d.objects \ {id}
    BY DEF Without, w
  <2>2. \A x \in DOMAIN w : w[x] = d.objects[x]
    BY DEF Without, w
  <2>3. r.objects = w
    BY <1>1
  <2>. QED BY <2>1, <2>2, <2>3 DEF KindAt
<1>3. Shaped(r)
  BY <1>1 DEF Shaped
<1>6. /\ r.incoming = d.incoming /\ r.nextID = d.nextID /\ r.globals = d.globals
      /\ r.gone = d.gone /\ r.open = d.open /\ r.accepted = d.accepted
  BY <1>1
<1>. QED BY <1>2, <1>3, <1>6 DEF r

LEMMA ShapedGets ==
  ASSUME NEW d, Shaped(d), NEW s
  PROVE  LET r == Gets(d, s)
         IN /\ Shaped(r) /\ r.incoming = d.incoming \o s /\ r.nextID = d.nextID
            /\ r.globals = d.globals /\ r.gone = d.gone /\ r.open = d.open
            /\ r.accepted = d.accepted /\ r.objects = d.objects
            /\ \A i : KindAt(r, i) = KindAt(d, i)
<1>. DEFINE r == Gets(d, s)
            w == d.incoming \o s
<1>0. r = [d EXCEPT !.incoming = w]
  BY DEF Gets
<1>. HIDE DEF r, w
<1>1. r = [open |-> d.open, accepted |-> d.accepted, nextID |-> d.nextID, objects |-> d.objects,
           proxies |-> d.proxies, listeners |-> d.listeners, globals |-> d.globals,
           incoming |-> w, gone |-> d.gone, expected |-> d.expected, live |-> d.live]
  BY <1>0 DEF Shaped
<1>2. \A i : KindAt(r, i) = KindAt(d, i)
  BY <1>1 DEF KindAt
<1>3. Shaped(r)
  BY <1>1 DEF Shaped
<1>4. /\ r.incoming = w /\ r.nextID = d.nextID /\ r.globals = d.globals /\ r.gone = d.gone
      /\ r.open = d.open /\ r.accepted = d.accepted /\ r.objects = d.objects
  BY <1>1
<1>. QED BY <1>2, <1>3, <1>4 DEF r, w

\* The compositor replies, or ends the connection with an error.
Failure(id) == <<ErrorEvent(id)>>

LEMMA ShapedCreates ==
  ASSUME NEW d, Shaped(d), NEW id, NEW kind, NEW s
  PROVE  LET r == Creates(d, id, kind, s)
         IN /\ Shaped(r) /\ r.nextID = d.nextID
            /\ r.globals = d.globals /\ r.open = d.open
            /\ r.accepted = d.accepted
            /\ \/ r.incoming = d.incoming \o s /\ r.gone = d.gone
               \/ r.incoming = d.incoming \o Failure(id) /\ r.gone
            /\ \A i : KindAt(r, i) = KindAt(d, i)
<1>. DEFINE r == Creates(d, id, kind, s)
<1>1. CASE id = d.expected
  <2>. DEFINE l == With(d.live, id, kind)
              x == d.expected + 1
              c1 == [d EXCEPT !.expected = x]
              c == [d EXCEPT !.expected = x, !.live = l]
              g == Gets(c, s)
  <2>1. r = g
    BY <1>1 DEF Creates
  <2>2. c = [open |-> d.open, accepted |-> d.accepted, nextID |-> d.nextID,
             objects |-> d.objects, proxies |-> d.proxies, listeners |-> d.listeners,
             globals |-> d.globals, incoming |-> d.incoming, gone |-> d.gone,
             expected |-> x, live |-> l]
    <3>. HIDE DEF x, l
    <3>1. c1 = [open |-> d.open, accepted |-> d.accepted, nextID |-> d.nextID,
                objects |-> d.objects, proxies |-> d.proxies, listeners |-> d.listeners,
                globals |-> d.globals, incoming |-> d.incoming, gone |-> d.gone,
                expected |-> x, live |-> d.live]
      BY DEF Shaped
    <3>2. c = [c1 EXCEPT !.live = l]
      OBVIOUS
    <3>. HIDE DEF c, c1
    <3>. QED BY <3>1, <3>2
  <2>. HIDE DEF c, l, x
  <2>3. Shaped(c)
    BY <2>2 DEF Shaped
  <2>4. \A i : KindAt(c, i) = KindAt(d, i)
    BY <2>2 DEF KindAt
  <2>5. /\ Shaped(g) /\ g.nextID = c.nextID /\ g.globals = c.globals /\ g.open = c.open
        /\ g.accepted = c.accepted /\ g.incoming = c.incoming \o s /\ g.gone = c.gone
        /\ \A i : KindAt(g, i) = KindAt(c, i)
    BY <2>3, ShapedGets
  <2>. HIDE DEF g, r
  <2>6. /\ c.nextID = d.nextID /\ c.globals = d.globals /\ c.open = d.open
        /\ c.accepted = d.accepted /\ c.incoming = d.incoming /\ c.gone = d.gone
    BY <2>2
  <2>7. \A i : KindAt(r, i) = KindAt(d, i)
    BY <2>1, <2>4, <2>5
  <2>8. /\ Shaped(r) /\ r.nextID = d.nextID /\ r.globals = d.globals /\ r.open = d.open
        /\ r.accepted = d.accepted /\ r.incoming = d.incoming \o s /\ r.gone = d.gone
    BY <2>1, <2>5, <2>6
  <2>. QED BY <2>7, <2>8 DEF r
<1>2. CASE id # d.expected
  <2>. DEFINE g == Gets(d, Failure(id))
  <2>1. r = [g EXCEPT !.gone = TRUE, !.live = <<>>]
    BY <1>2 DEF Creates, Failure
  <2>2. /\ Shaped(g) /\ g.nextID = d.nextID /\ g.globals = d.globals /\ g.open = d.open
        /\ g.accepted = d.accepted /\ g.incoming = d.incoming \o Failure(id)
        /\ \A i : KindAt(g, i) = KindAt(d, i)
    BY ShapedGets
  <2>. HIDE DEF g, r
  <2>3. r = [open |-> g.open, accepted |-> g.accepted, nextID |-> g.nextID,
             objects |-> g.objects, proxies |-> g.proxies, listeners |-> g.listeners,
             globals |-> g.globals, incoming |-> g.incoming, gone |-> TRUE,
             expected |-> g.expected, live |-> <<>>]
    BY <2>1, <2>2 DEF Shaped
  <2>4. Shaped(r)
    BY <2>3 DEF Shaped
  <2>5. \A i : KindAt(r, i) = KindAt(g, i)
    BY <2>3 DEF KindAt
  <2>6. \A i : KindAt(r, i) = KindAt(d, i)
    BY <2>2, <2>5
  <2>7. /\ r.nextID = d.nextID /\ r.globals = d.globals /\ r.open = d.open
        /\ r.accepted = d.accepted /\ r.incoming = d.incoming \o Failure(id)
        /\ r.gone
    BY <2>2, <2>3
  <2>. QED BY <2>4, <2>6, <2>7 DEF r
<1>. QED BY <1>1, <1>2

LEMMA ShapedAllocate ==
  ASSUME NEW d, Shaped(d)
  PROVE  LET r == AllocateID(d)
         IN /\ Shaped(r) /\ r.incoming = d.incoming /\ r.nextID = d.nextID + 1
            /\ r.globals = d.globals /\ r.gone = d.gone /\ r.open = d.open
            /\ r.accepted = d.accepted
            /\ \A i : KindAt(r, i) = KindAt(d, i)
<1>. DEFINE r == AllocateID(d)
            w == d.nextID + 1
<1>1. r = [open |-> d.open, accepted |-> d.accepted, nextID |-> w, objects |-> d.objects,
           proxies |-> d.proxies, listeners |-> d.listeners, globals |-> d.globals,
           incoming |-> d.incoming, gone |-> d.gone, expected |-> d.expected, live |-> d.live]
  BY DEF AllocateID, Shaped
<1>. HIDE DEF r, w
<1>2. \A i : KindAt(r, i) = KindAt(d, i)
  BY <1>1 DEF KindAt
<1>3. Shaped(r)
  BY <1>1 DEF Shaped
<1>. QED BY <1>1, <1>2, <1>3 DEF r, w

-----------------------------------------------------------------------------
(* Queues.                                                                 *)

LEMMA TailIndices ==
  ASSUME NEW q \in Seq(Event), q # <<>>
  PROVE  /\ Tail(q) \in Seq(Event) /\ DOMAIN Tail(q) = 1..(Len(q) - 1)
         /\ DOMAIN q = 1..Len(q) /\ Len(q) \in Nat /\ Len(q) >= 1 /\ Head(q) = q[1]
         /\ \A i \in 1..(Len(q) - 1) : Tail(q)[i] = q[i + 1]
         /\ \A i \in 1..Len(q) : q[i] \in Event
OBVIOUS

LEMMA JoinIndices ==
  ASSUME NEW q \in Seq(Event), NEW s \in Seq(Event)
  PROVE  /\ q \o s \in Seq(Event)
         /\ DOMAIN q = 1..Len(q) /\ DOMAIN s = 1..Len(s)
         /\ DOMAIN (q \o s) = 1..(Len(q) + Len(s)) /\ Len(q) \in Nat /\ Len(s) \in Nat
         /\ \A i \in 1..Len(q) : (q \o s)[i] = q[i]
         /\ \A i \in 1..Len(s) : (q \o s)[Len(q) + i] = s[i]
OBVIOUS

\* What waits stays in order when nothing it depends on changes.
LEMMA QueueKeeps ==
  ASSUME NEW q \in Seq(Event), QueueOK(q), Seen' = Seen,
         \A e \in Event : EventOK(e) => EventOK(e)' /\ (Found(e) => Found(e)')
  PROVE  QueueOK(q)'
<1>1. ASSUME NEW i \in DOMAIN q
      PROVE  EventOK(q[i])' /\ Reached(q, i)' /\ InOrder(q, i)'
  <2>1. q[i] \in Event /\ EventOK(q[i]) /\ Reached(q, i) /\ InOrder(q, i)
    BY DEF QueueOK
  <2>2. EventOK(q[i])' /\ (Found(q[i]) => Found(q[i])')
    BY <2>1
  <2>3. Reached(q, i)'
    BY <2>1, <2>2 DEF Reached
  <2>4. InOrder(q, i)'
    BY <2>1 DEF InOrder
  <2>. QED BY <2>2, <2>3, <2>4
<1>2. \A i \in DOMAIN q : \A j \in 1..(i - 1) : PairOK(q[j], q[i])
  BY DEF QueueOK
<1>. QED BY <1>1, <1>2 DEF QueueOK

\* What may be put behind a queue.
LEMMA QueueGrows ==
  ASSUME NEW q \in Seq(Event), NEW s \in Seq(Event), QueueOK(q)',
         \A k \in DOMAIN s :
           /\ EventOK(s[k])'
           /\ \/ Found(s[k])'
              \/ \E j \in DOMAIN q : Adds(q[j], s[k].to)
              \/ \E j \in 1..(k - 1) : Adds(s[j], s[k].to)
           /\ s[k].op = "global" => s[k].arg = (Seen + 1)'
           /\ \A j \in DOMAIN q : PairOK(q[j], s[k])
           /\ \A j \in 1..(k - 1) : PairOK(s[j], s[k])
  PROVE  QueueOK(q \o s)'
<1>. DEFINE r == q \o s
            n == Len(q)
<1>0. /\ r \in Seq(Event) /\ DOMAIN q = 1..n /\ DOMAIN s = 1..Len(s) /\ DOMAIN r = 1..(n + Len(s))
      /\ n \in Nat /\ Len(s) \in Nat /\ \A i \in 1..n : r[i] = q[i]
      /\ \A i \in 1..Len(s) : r[n + i] = s[i]
  BY JoinIndices
<1>. HIDE DEF r, n
<1>1. ASSUME NEW i \in DOMAIN r
      PROVE  /\ EventOK(r[i])' /\ Reached(r, i)' /\ InOrder(r, i)'
             /\ \A j \in 1..(i - 1) : PairOK(r[j], r[i])
  <2>1. CASE i \in 1..n
    <3>1. /\ EventOK(q[i])' /\ Reached(q, i)' /\ InOrder(q, i)'
          /\ \A j \in 1..(i - 1) : PairOK(q[j], q[i])
      BY <1>0, <2>1 DEF QueueOK
    <3>2. r[i] = q[i] /\ \A j \in 1..(i - 1) : r[j] = q[j]
      BY <1>0, <2>1
    <3>3. EventOK(r[i])'
      BY <3>1, <3>2
    <3>4. Reached(r, i)'
      BY <3>1, <3>2 DEF Reached
    <3>5. InOrder(r, i)'
      BY <3>1, <3>2 DEF InOrder
    <3>6. \A j \in 1..(i - 1) : PairOK(r[j], r[i])
      BY <3>1, <3>2
    <3>. QED BY <3>3, <3>4, <3>5, <3>6
  <2>2. CASE i \notin 1..n
    <3>. DEFINE k == i - n
    <3>1. k \in DOMAIN s /\ i = n + k /\ k \in 1..Len(s) /\ i \in Nat /\ k \in Nat
      BY <1>0, <2>2
    <3>. HIDE DEF k
    <3>2. r[i] = s[k] /\ (\A j \in 1..(k - 1) : r[n + j] = s[j] /\ n + j \in 1..(i - 1))
      BY <1>0, <3>1
    <3>3. \A j \in 1..n : r[j] = q[j] /\ j \in 1..(i - 1) /\ j \in DOMAIN q
      BY <1>0, <3>1
    <3>4. EventOK(r[i])'
      BY <3>1, <3>2
    <3>5. Reached(r, i)'
      <4>1. CASE Found(s[k])'
        BY <3>2, <4>1 DEF Reached
      <4>2. CASE \E j \in DOMAIN q : Adds(q[j], s[k].to)
        <5>1. PICK j \in DOMAIN q : Adds(q[j], s[k].to)
          BY <4>2
        <5>2. j \in 1..(i - 1) /\ Adds(r[j], r[i].to)
          BY <1>0, <3>2, <3>3, <5>1
        <5>. QED BY <5>2 DEF Reached
      <4>3. CASE \E j \in 1..(k - 1) : Adds(s[j], s[k].to)
        <5>1. PICK j \in 1..(k - 1) : Adds(s[j], s[k].to)
          BY <4>3
        <5>2. n + j \in 1..(i - 1) /\ Adds(r[n + j], r[i].to)
          BY <3>2, <5>1
        <5>. QED BY <5>2 DEF Reached
      <4>. QED BY <3>1, <4>1, <4>2, <4>3
    <3>6. InOrder(r, i)'
      BY <3>1, <3>2 DEF InOrder
    <3>7. ASSUME NEW j \in 1..(i - 1) PROVE PairOK(r[j], r[i])
      <4>1. CASE j \in 1..n
        BY <1>0, <3>1, <3>2, <3>3, <4>1
      <4>2. CASE j \notin 1..n
        <5>1. j - n \in 1..(k - 1) /\ j = n + (j - n)
          BY <1>0, <3>1, <4>2
        <5>2. r[j] = s[j - n]
          BY <3>2, <5>1
        <5>. QED BY <3>1, <3>2, <5>1, <5>2
      <4>. QED BY <4>1, <4>2
    <3>. QED BY <3>4, <3>5, <3>6, <3>7
  <2>. QED BY <2>1, <2>2
<1>. QED BY <1>1 DEF QueueOK, r

\* What is left when the first event has been read.
LEMMA QueueShrinks ==
  ASSUME NEW q \in Seq(Event), q # <<>>, QueueOK(q), NEW e, e = Head(q),
         Seen \in Nat, Seen' = IF e.op = "global" THEN Seen + 1 ELSE Seen,
         \A f \in Event : EventOK(f) /\ PairOK(e, f) =>
            EventOK(f)' /\ (Found(f) \/ Adds(e, f.to) => Found(f)')
  PROVE  QueueOK(Tail(q))'
<1>. DEFINE r == Tail(q)
<1>0. /\ r \in Seq(Event) /\ DOMAIN r = 1..(Len(q) - 1) /\ DOMAIN q = 1..Len(q)
      /\ Len(q) \in Nat /\ Len(q) >= 1 /\ e = q[1]
      /\ \A i \in 1..(Len(q) - 1) : r[i] = q[i + 1]
      /\ \A i \in 1..Len(q) : q[i] \in Event
  BY TailIndices
<1>. HIDE DEF r
<1>1. ASSUME NEW i \in DOMAIN r
      PROVE  /\ EventOK(r[i])' /\ Reached(r, i)' /\ InOrder(r, i)'
             /\ \A j \in 1..(i - 1) : PairOK(r[j], r[i])
  <2>. DEFINE f == q[i + 1]
  <2>0. i \in Nat /\ i >= 1 /\ i + 1 \in DOMAIN q /\ f \in Event /\ r[i] = f
        /\ \A j \in 1..(i - 1) : r[j] = q[j + 1] /\ j + 1 \in 1..((i + 1) - 1)
    BY <1>0
  <2>1. /\ EventOK(f) /\ Reached(q, i + 1) /\ InOrder(q, i + 1)
        /\ \A j \in 1..((i + 1) - 1) : PairOK(q[j], f)
    BY <2>0 DEF QueueOK
  <2>2. PairOK(e, f)
    <3>1. 1 \in 1..((i + 1) - 1)
      BY <2>0
    <3>. QED BY <1>0, <2>1, <3>1
  <2>3. EventOK(f)' /\ (Found(f) \/ Adds(e, f.to) => Found(f)')
    BY <2>0, <2>1, <2>2
  <2>4. Reached(r, i)'
    <3>1. CASE Found(f)
      BY <2>0, <2>3, <3>1 DEF Reached
    <3>2. CASE \E j \in 1..((i + 1) - 1) : Adds(q[j], f.to)
      <4>1. PICK j \in 1..((i + 1) - 1) : Adds(q[j], f.to)
        BY <3>2
      <4>2. CASE j = 1
        BY <1>0, <2>0, <2>3, <4>1, <4>2 DEF Reached
      <4>3. CASE j # 1
        <5>1. j - 1 \in 1..(i - 1) /\ (j - 1) + 1 = j
          BY <2>0, <4>3
        <5>2. Adds(r[j - 1], r[i].to)
          BY <2>0, <4>1, <5>1
        <5>. QED BY <5>1, <5>2 DEF Reached
      <4>. QED BY <4>2, <4>3
    <3>. QED BY <2>1, <3>1, <3>2 DEF Reached
  <2>5. InOrder(r, i)'
    <3>. SUFFICES ASSUME f.op = "global"
                  PROVE  \/ f.arg = (Seen + 1)'
                         \/ \E j \in 1..(i - 1) : r[j].op = "global" /\ r[j].arg + 1 = f.arg
      BY <2>0 DEF InOrder
    <3>1. \/ f.arg = Seen + 1
          \/ \E j \in 1..((i + 1) - 1) : q[j].op = "global" /\ q[j].arg + 1 = f.arg
      BY <2>1 DEF InOrder
    <3>2. InOrder(q, 1)
      BY <1>0 DEF QueueOK
    <3>3. e.op = "global" => e.arg = Seen + 1 /\ e.arg < f.arg
      BY <1>0, <2>2, <3>2 DEF InOrder, PairOK
    <3>4. ASSUME NEW j \in 1..((i + 1) - 1), q[j].op = "global", q[j].arg + 1 = f.arg, j # 1
          PROVE  \E m \in 1..(i - 1) : r[m].op = "global" /\ r[m].arg + 1 = f.arg
      <4>1. j - 1 \in 1..(i - 1) /\ (j - 1) + 1 = j
        BY <2>0, <3>4
      <4>2. r[j - 1] = q[j]
        BY <2>0, <4>1
      <4>. QED BY <3>4, <4>1, <4>2
    <3>5. CASE f.arg = Seen + 1
      BY <3>3, <3>5
    <3>6. CASE \E j \in 1..((i + 1) - 1) : q[j].op = "global" /\ q[j].arg + 1 = f.arg
      <4>1. PICK j \in 1..((i + 1) - 1) : q[j].op = "global" /\ q[j].arg + 1 = f.arg
        BY <3>6
      <4>2. CASE j = 1
        BY <1>0, <3>3, <4>1, <4>2
      <4>. QED BY <3>4, <4>1, <4>2
    <3>. QED BY <3>1, <3>5, <3>6
  <2>6. ASSUME NEW j \in 1..(i - 1) PROVE PairOK(r[j], r[i])
    BY <2>0, <2>1
  <2>. QED BY <2>0, <2>3, <2>4, <2>5, <2>6
<1>. QED BY <1>1 DEF QueueOK, r

-----------------------------------------------------------------------------
(* What an event is about.                                                 *)

\* Most events carry no interface.
Plain(to, op, arg) == Ev(to, op, "", arg)

LEMMA PlainIsEvent ==
  ASSUME NEW to \in Nat, NEW op \in Ops, NEW arg \in Nat
  PROVE  /\ Plain(to, op, arg) \in Event /\ Plain(to, op, arg).to = to
         /\ Plain(to, op, arg).op = op /\ Plain(to, op, arg).arg = arg
<1>. DEFINE none == ""
            interfaces == {"", "wl_seat", "zwlr_output_manager_v1"}
<1>1. none \in interfaces
  BY Zenon
<1>2. Plain(to, op, arg) = [to |-> to, op |-> op, what |-> none, arg |-> arg]
  BY Zenon DEF Plain, Ev
<1>3. Event = [to : Nat, op : Ops, what : interfaces, arg : Nat]
  BY Zenon DEF Event
<1>. HIDE DEF none, interfaces
<1>4. Plain(to, op, arg) \in [to : Nat, op : Ops, what : interfaces, arg : Nat]
  BY <1>1, <1>2
<1>5. Plain(to, op, arg) \in Event
  BY <1>3, <1>4
<1>. QED BY <1>2, <1>5

LEMMA NextID ==
  ASSUME OMInv
  PROVE  /\ display.nextID \in Nat /\ display.nextID >= 3 /\ display.nextID <= FirstServerID
         /\ rt.id \in Nat /\ om.manager \in Nat /\ monitors.bound \in Nat
         /\ om.manager # 0 => om.manager >= 4 /\ om.manager < display.nextID
BY ServerIDs DEF OMInv, IdsOK, ShapesOK

LEMMA Targets ==
  ASSUME OMInv, NEW f \in Event, EventOK(f)
  PROVE  /\ f.to \in Nat /\ f.to # 0
         /\ \/ f.to < display.nextID /\ KindOf(f.op) \notin {"head", "mode"}
            \/ \E n \in Outputs : f.to = HeadID(n) /\ KindOf(f.op) = "head"
            \/ \E n \in Outputs : f.to = ModeID(n) /\ KindOf(f.op) = "mode"
         /\ \A n \in Outputs : /\ f.to = HeadID(n) => KindOf(f.op) = "head"
                               /\ f.to = ModeID(n) => KindOf(f.op) = "mode"
<1>1. f.op \in Ops /\ f.to \in Nat
  BY DEF Event
<1>2. monitors.used \subseteq Outputs
  BY DEF OMInv, MonitorsOK
<1>3. \/ f.to # 0 /\ f.to < display.nextID /\ KindOf(f.op) \notin {"head", "mode"}
      \/ \E n \in Outputs : f.to = HeadID(n) /\ KindOf(f.op) = "head"
      \/ \E n \in Outputs : f.to = ModeID(n) /\ KindOf(f.op) = "mode"
  <2>1. CASE f.op \in {"error", "delete_id"}
    BY <2>1, NextID DEF EventOK, ClientEventOK, DisplayID, KindOf
  <2>2. CASE f.op = "global"
    BY <2>2, NextID DEF EventOK, ClientEventOK, RegistryID, KindOf
  <2>3. CASE f.op \in {"done", "capabilities"}
    BY <2>3, NextID DEF EventOK, ClientEventOK, Allocated, KindOf
  <2>4. CASE f.op \in {"head", "manager_done", "manager_finished"}
    BY <2>4, NextID DEF EventOK, ManagerEventOK, KindOf
  <2>5. CASE f.op \in {"mode", "properties", "head_finished"}
    BY <1>2, <2>5 DEF EventOK, OutputEventOK, KindOf
  <2>6. CASE f.op \in {"preferred", "mode_finished"}
    BY <1>2, <2>6 DEF EventOK, OutputEventOK, KindOf
  <2>. QED BY <1>1, <2>1, <2>2, <2>3, <2>4, <2>5, <2>6 DEF Ops
<1>. QED BY <1>1, <1>3, NextID, ServerIDs

LEMMA WhatDrops ==
  ASSUME OMInv, NEW e \in Event, EventOK(e), NEW x, Drops(e, x)
  PROVE  \/ /\ x \in 3..(display.nextID - 1) /\ ~ Reserved(x)
            /\ monitors.bound # 0 => x # monitors.bound
         \/ \E n \in monitors.used \ monitors.plugged :
              n \in Outputs /\ (x = HeadID(n) \/ x = ModeID(n))
<1>1. monitors.used \subseteq Outputs
  BY DEF OMInv, MonitorsOK
<1>2. CASE e.op = "delete_id" /\ e.arg = x
  BY <1>2 DEF EventOK, ClientEventOK, Allocated
<1>3. CASE e.op = "done" /\ e.to = x
  BY <1>3 DEF EventOK, ClientEventOK, Allocated, OMInv, IdsOK
<1>4. CASE e.op = "manager_finished" /\ e.to = x
  <2>1. x = om.manager /\ om.manager # 0 /\ monitors.bound = 0
    BY <1>4 DEF EventOK, ManagerEventOK
  <2>2. x \in 3..(display.nextID - 1)
    BY <2>1, NextID
  <2>. QED BY <2>1, <2>2 DEF OMInv, IdsOK, Reserved
<1>5. CASE e.op \in {"head_finished", "mode_finished"} /\ e.to = x
  BY <1>1, <1>5 DEF EventOK, OutputEventOK
<1>. QED BY <1>2, <1>3, <1>4, <1>5 DEF Drops

LEMMA WhatAdds ==
  ASSUME OMInv, NEW e \in Event, EventOK(e), NEW x, Adds(e, x)
  PROVE  \/ e.op = "head" /\ \E n \in Outputs : x = HeadID(n) /\ x \notin DOMAIN om.heads
         \/ e.op = "mode" /\ \E n \in Outputs : x = ModeID(n)
<1>1. monitors.used \subseteq Outputs
  BY DEF OMInv, MonitorsOK
<1>. QED BY <1>1 DEF Adds, EventOK, ManagerEventOK, OutputEventOK

-----------------------------------------------------------------------------
(* Reading.                                                                *)

LEMMA ShapedIncoming ==
  ASSUME NEW d, Shaped(d), NEW w
  PROVE  LET r == [d EXCEPT !.incoming = w]
         IN /\ Shaped(r) /\ r.incoming = w /\ r.nextID = d.nextID
            /\ r.globals = d.globals /\ r.gone = d.gone /\ r.open = d.open
            /\ r.accepted = d.accepted
            /\ \A i : KindAt(r, i) = KindAt(d, i)
<1>. DEFINE r == [d EXCEPT !.incoming = w]
<1>1. r = [open |-> d.open, accepted |-> d.accepted, nextID |-> d.nextID, objects |-> d.objects,
           proxies |-> d.proxies, listeners |-> d.listeners, globals |-> d.globals,
           incoming |-> w, gone |-> d.gone, expected |-> d.expected, live |-> d.live]
  BY DEF Shaped
<1>. HIDE DEF r
<1>2. \A i : KindAt(r, i) = KindAt(d, i)
  BY <1>1 DEF KindAt
<1>3. Shaped(r)
  BY <1>1 DEF Shaped
<1>4. /\ r.incoming = w /\ r.nextID = d.nextID /\ r.globals = d.globals /\ r.gone = d.gone
      /\ r.open = d.open /\ r.accepted = d.accepted
  BY <1>1
<1>. QED BY <1>2, <1>3, <1>4 DEF r

\* An object taken away, its proxy left alone.
Forgotten(d, id) == [d EXCEPT !.objects = Without(@, {id})]

LEMMA ShapedForgets ==
  ASSUME NEW d, Shaped(d), NEW id
  PROVE  LET r == Forgotten(d, id)
         IN /\ Shaped(r) /\ r.incoming = d.incoming /\ r.nextID = d.nextID
            /\ r.globals = d.globals /\ r.gone = d.gone /\ r.open = d.open
            /\ r.accepted = d.accepted
            /\ \A i : KindAt(r, i) = IF i = id THEN "none" ELSE KindAt(d, i)
<1>. DEFINE w == Without(d.objects, {id})
            r == Forgotten(d, id)
<1>0. r = [d EXCEPT !.objects = w]
  BY DEF Forgotten
<1>. HIDE DEF w, r
<1>1. r = [open |-> d.open, accepted |-> d.accepted, nextID |-> d.nextID, objects |-> w,
           proxies |-> d.proxies, listeners |-> d.listeners, globals |-> d.globals,
           incoming |-> d.incoming, gone |-> d.gone, expected |-> d.expected, live |-> d.live]
  BY <1>0 DEF Shaped
<1>2. \A i : KindAt(r, i) = IF i = id THEN "none" ELSE KindAt(d, i)
  <2>1. DOMAIN w = DOMAIN d.objects \ {id}
    BY DEF Without, w
  <2>2. \A x \in DOMAIN w : w[x] = d.objects[x]
    BY DEF Without, w
  <2>3. r.objects = w
    BY <1>1
  <2>. QED BY <2>1, <2>2, <2>3 DEF KindAt
<1>3. Shaped(r)
  BY <1>1 DEF Shaped
<1>4. /\ r.incoming = d.incoming /\ r.nextID = d.nextID /\ r.globals = d.globals
      /\ r.gone = d.gone /\ r.open = d.open /\ r.accepted = d.accepted
  BY <1>1
<1>. QED BY <1>2, <1>3, <1>4 DEF r, w

LEMMA ShapedGlobals ==
  ASSUME NEW d, Shaped(d), NEW w
  PROVE  LET r == [d EXCEPT !.globals = w]
         IN /\ Shaped(r) /\ r.incoming = d.incoming /\ r.nextID = d.nextID
            /\ r.globals = w /\ r.gone = d.gone /\ r.open = d.open
            /\ r.accepted = d.accepted
            /\ \A i : KindAt(r, i) = KindAt(d, i)
<1>. DEFINE r == [d EXCEPT !.globals = w]
<1>1. r = [open |-> d.open, accepted |-> d.accepted, nextID |-> d.nextID, objects |-> d.objects,
           proxies |-> d.proxies, listeners |-> d.listeners, globals |-> w,
           incoming |-> d.incoming, gone |-> d.gone, expected |-> d.expected, live |-> d.live]
  BY DEF Shaped
<1>. HIDE DEF r
<1>2. \A i : KindAt(r, i) = KindAt(d, i)
  BY <1>1 DEF KindAt
<1>3. Shaped(r)
  BY <1>1 DEF Shaped
<1>4. /\ r.incoming = d.incoming /\ r.nextID = d.nextID /\ r.globals = w /\ r.gone = d.gone
      /\ r.open = d.open /\ r.accepted = d.accepted
  BY <1>1
<1>. QED BY <1>2, <1>3, <1>4 DEF r

\* The event that is read next.
LEMMA NextIsOK ==
  ASSUME OMInv, Readable
  PROVE  /\ display.incoming \in Seq(Event) /\ display.incoming # <<>>
         /\ NextEvent \in Event /\ EventOK(NextEvent) /\ Found(NextEvent)
         /\ NextEvent.op # "error"
         /\ NextEvent.op = "global" => NextEvent.arg = Seen + 1
<1>. DEFINE q == display.incoming
<1>1. q \in Seq(Event) /\ q # <<>> /\ NextEvent.op # "error" /\ NextEvent = Head(q)
  BY DEF OMInv, ShapesOK, Readable, CanRead, NextEvent
<1>2. 1 \in DOMAIN q /\ NextEvent = q[1] /\ q[1] \in Event
  BY <1>1, TailIndices
<1>3. EventOK(q[1]) /\ Reached(q, 1) /\ InOrder(q, 1)
  BY <1>2 DEF OMInv, QueueOK
<1>4. Found(q[1])
  BY <1>3 DEF Reached
<1>5. q[1].op = "global" => q[1].arg = Seen + 1
  BY <1>3 DEF InOrder
<1>. HIDE DEF q
<1>. QED BY <1>1, <1>2, <1>3, <1>4, <1>5 DEF q

KindAdded(e) == IF e.op = "head" THEN "head" ELSE "mode"

\* What an id holds once an event has been handled.
Turns(e, x) ==
  \/ KindAt(display', x) = KindAt(display, x)
  \/ Drops(e, x) /\ KindAt(display', x) = "none"
  \/ Adds(e, x) /\ KindAt(display', x) = KindAdded(e)
  \/ e.op \in {"capabilities", "done"} /\ Disused(x)
  \/ /\ e.op = "global" /\ x = display.nextID /\ KindAt(display', x) = "seat"
     /\ display'.nextID = display.nextID + 1

\* The connection once an event has been handled, and what came back meanwhile.
Handled(e) ==
  /\ Shaped(display')
  /\ display'.open = display.open /\ display'.accepted = display.accepted
  /\ display'.globals = IF e.op = "global" THEN With(display.globals, e.arg, e.what)
                        ELSE display.globals
  /\ \A x \in Nat \ {0} : Turns(e, x)
  /\ KindAt(display, e.to) = KindOf(e.op) =>
       \A x : Adds(e, x) => KindAt(display', x) = KindAdded(e)
SeatReply(s) ==
  \/ /\ \E word \in Capabilities : s = <<Plain(display.nextID, "capabilities", word)>>
     /\ display'.gone = display.gone
  \/ s = Failure(display.nextID) /\ display'.gone
Answered(e) ==
  \/ /\ display'.incoming = Tail(display.incoming) /\ display'.gone = display.gone
     /\ \/ display'.nextID = display.nextID
        \/ e.op = "global" /\ display'.nextID = display.nextID + 1
  \/ /\ e.op = "global" /\ display'.nextID = display.nextID + 1
     /\ KindAt(display', display.nextID) = "seat"
     /\ \E s : SeatReply(s) /\ display'.incoming = Tail(display.incoming) \o s

ReadOne == [display EXCEPT !.incoming = Tail(display.incoming)]

LEMMA ReadOneShaped ==
  ASSUME OMInv
  PROVE  /\ Shaped(ReadOne) /\ ReadOne.incoming = Tail(display.incoming)
         /\ ReadOne.nextID = display.nextID /\ ReadOne.globals = display.globals
         /\ ReadOne.gone = display.gone /\ ReadOne.open = display.open
         /\ ReadOne.accepted = display.accepted
         /\ \A i : KindAt(ReadOne, i) = KindAt(display, i)
<1>1. Shaped(display)
  BY DEF OMInv, ShapesOK
<1>. QED BY <1>1, ShapedIncoming, ZenonT(40) DEF ReadOne

LEMMA GlobalHandled ==
  ASSUME OMInv, Readable, NEW e, e = NextEvent, NEW word \in Capabilities, e.op = "global", display' = DisplayAfter(e, word)
  PROVE  Handled(e) /\ Answered(e)
<1>. DEFINE w == With(ReadOne.globals, e.arg, e.what)
            g == [ReadOne EXCEPT !.globals = w]
<1>1. e.to = RegistryID /\ KindAt(display, e.to) = "registry" /\ e.to # DisplayID
  BY NextIsOK DEF EventOK, ClientEventOK, OMInv, ObjectsOK, RegistryID, DisplayID
<1>2. /\ Shaped(g) /\ g.incoming = ReadOne.incoming /\ g.nextID = ReadOne.nextID
      /\ g.globals = w /\ g.gone = ReadOne.gone /\ g.open = ReadOne.open
      /\ g.accepted = ReadOne.accepted /\ \A i : KindAt(g, i) = KindAt(ReadOne, i)
  <2>. HIDE DEF w
  <2>. QED BY ReadOneShaped, ShapedGlobals
<1>3. Dispatched(display) = g
  <2>1. ~ CallbackRuns(display, e)
    BY DEF CallbackRuns
  <2>2. Dispatched(display) = HandleGlobal(ReadOne, e)
    BY <1>1, <2>1 DEF Dispatched, ReadOne, NextEvent
  <2>. QED BY <2>2 DEF HandleGlobal
<1>4. display' = HandleRegistryGlobal(g, e, word)
  BY <1>1, <1>3 DEF DisplayAfter
<1>5. \A x : ~ Adds(e, x)
  BY DEF Adds
<1>6. w = With(display.globals, e.arg, e.what)
  BY ReadOneShaped
<1>. HIDE DEF w, g
<1>7. /\ Shaped(g) /\ g.incoming = Tail(display.incoming) /\ g.nextID = display.nextID
      /\ g.globals = w /\ g.gone = display.gone /\ g.open = display.open
      /\ g.accepted = display.accepted /\ \A i : KindAt(g, i) = KindAt(display, i)
  BY <1>2, ReadOneShaped
<1>8. CASE e.what # "wl_seat"
  <2>1. display' = g
    BY <1>4, <1>8 DEF HandleRegistryGlobal
  <2>2. \A x : Turns(e, x)
    BY <2>1, <1>7 DEF Turns
  <2>3. Handled(e)
    BY <1>5, <1>6, <1>7, <2>1, <2>2 DEF Handled
  <2>4. Answered(e)
    BY <1>7, <2>1 DEF Answered
  <2>. QED BY <2>3, <2>4
<1>9. CASE e.what = "wl_seat"
  <2>. DEFINE id == g.nextID
              cap == Plain(id, "capabilities", word)
              a == AllocateID(g)
              reply == <<cap>>
              c == Creates(a, id, "seat", reply)
              r == Register(c, id, "seat")
  <2>1. display' = IF CanWrite(g) THEN r ELSE a
    BY <1>4, <1>9 DEF HandleRegistryGlobal, BindID, Plain
  <2>2. /\ Shaped(a) /\ a.incoming = g.incoming /\ a.nextID = g.nextID + 1
        /\ a.globals = g.globals /\ a.gone = g.gone /\ a.open = g.open
        /\ a.accepted = g.accepted /\ \A i : KindAt(a, i) = KindAt(g, i)
    BY <1>7, ShapedAllocate
  <2>3. /\ Shaped(c) /\ c.nextID = a.nextID
        /\ c.globals = a.globals /\ c.open = a.open
        /\ c.accepted = a.accepted
        /\ \/ c.incoming = a.incoming \o reply /\ c.gone = a.gone
           \/ c.incoming = a.incoming \o Failure(id) /\ c.gone
        /\ \A i : KindAt(c, i) = KindAt(a, i)
    <3>1. Shaped(a)
      BY <2>2
    <3>. HIDE DEF a, cap, id, reply
    <3>. QED BY <3>1, ShapedCreates
  <2>4. /\ Shaped(r) /\ r.incoming = c.incoming /\ r.nextID = c.nextID
        /\ r.globals = c.globals /\ r.gone = c.gone /\ r.open = c.open
        /\ r.accepted = c.accepted
        /\ \A i : KindAt(r, i) = IF i = id THEN "seat" ELSE KindAt(c, i)
    <3>. HIDE DEF a, cap, c
    <3>. QED BY <2>3, ShapedRegister
  <2>. HIDE DEF a, c, r
  <2>5. CASE CanWrite(g)
    <3>1. display' = r
      BY <2>1, <2>5
    <3>2. \A x : Turns(e, x)
      BY <1>7, <2>2, <2>3, <2>4, <3>1 DEF Turns
    <3>3. \/ r.incoming = Tail(display.incoming) \o reply /\ r.gone = display.gone
          \/ r.incoming = Tail(display.incoming) \o Failure(id) /\ r.gone
      BY <1>7, <2>2, <2>3, <2>4
    <3>4. KindAt(r, display.nextID) = "seat" /\ r.nextID = display.nextID + 1
      BY <1>7, <2>2, <2>3, <2>4
    <3>5. /\ Shaped(r) /\ r.open = display.open /\ r.accepted = display.accepted
          /\ r.globals = w
      BY <1>7, <2>2, <2>3, <2>4
    <3>6. Handled(e)
      BY <1>5, <1>6, <3>1, <3>2, <3>5 DEF Handled
    <3>7. \E s : SeatReply(s) /\ display'.incoming = Tail(display.incoming) \o s
      BY <1>7, <3>1, <3>3 DEF SeatReply
    <3>8. Answered(e)
      BY <3>1, <3>4, <3>7 DEF Answered
    <3>. QED BY <3>6, <3>8
  <2>6. CASE ~ CanWrite(g)
    <3>1. display' = a
      BY <2>1, <2>6
    <3>2. \A x : Turns(e, x)
      BY <1>7, <2>2, <3>1 DEF Turns
    <3>3. Handled(e)
      BY <1>5, <1>6, <1>7, <2>2, <3>1, <3>2 DEF Handled
    <3>4. Answered(e)
      BY <1>7, <2>2, <3>1 DEF Answered
    <3>. QED BY <3>3, <3>4
  <2>. QED BY <2>5, <2>6
<1>. QED BY <1>8, <1>9

\* Events that bring no reply: what remains to say is what the ids turn into.
LEMMA PlainHandled ==
  ASSUME OMInv, NEW e, e.op # "global",
         Shaped(display'), display'.incoming = ReadOne.incoming,
         display'.nextID = ReadOne.nextID, display'.globals = ReadOne.globals,
         display'.gone = ReadOne.gone, display'.open = ReadOne.open,
         display'.accepted = ReadOne.accepted,
         \A x \in Nat \ {0} : Turns(e, x),
         KindAt(display, e.to) = KindOf(e.op) =>
           \A x : Adds(e, x) => KindAt(display', x) = KindAdded(e)
  PROVE  Handled(e) /\ Answered(e)
BY ReadOneShaped DEF Handled, Answered

LEMMA DeleteIdHandled ==
  ASSUME OMInv, Readable, NEW e, e = NextEvent, NEW word \in Capabilities, e.op = "delete_id", display' = DisplayAfter(e, word)
  PROVE  Handled(e) /\ Answered(e)
<1>. DEFINE r == Forgotten(ReadOne, e.arg)
<1>1. e.to = DisplayID /\ KindAt(display, e.to) = "display"
  BY NextIsOK DEF EventOK, ClientEventOK, OMInv, ObjectsOK, RegistryID, DisplayID
<1>2. Dispatched(display) = r
  <2>1. ~ CallbackRuns(display, e)
    BY DEF CallbackRuns
  <2>2. Dispatched(display) = HandleDisplayEvent(ReadOne, e)
    BY <1>1, <2>1 DEF Dispatched, ReadOne, NextEvent
  <2>. QED BY <2>2 DEF HandleDisplayEvent, Forgotten
<1>3. display' = r
  BY <1>1, <1>2 DEF DisplayAfter
<1>4. /\ Shaped(r) /\ r.incoming = ReadOne.incoming /\ r.nextID = ReadOne.nextID
      /\ r.globals = ReadOne.globals /\ r.gone = ReadOne.gone /\ r.open = ReadOne.open
      /\ r.accepted = ReadOne.accepted
      /\ \A i : KindAt(r, i) = IF i = e.arg THEN "none" ELSE KindAt(ReadOne, i)
  BY ReadOneShaped, ShapedForgets
<1>. HIDE DEF r
<1>5. \A x : Turns(e, x)
  BY <1>3, <1>4, ReadOneShaped DEF Turns, Drops
<1>6. \A x : ~ Adds(e, x)
  BY DEF Adds
<1>. QED BY <1>3, <1>4, <1>5, <1>6, PlainHandled

\* The other events come past handleServerObject, which may put a head under an id.
Served(e) == IF KindAt(display, e.to) = "none" THEN ReadOne ELSE ServerObject(ReadOne, e)

LEMMA ServedShaped ==
  ASSUME OMInv, NEW e
  PROVE  LET r == Served(e)
         IN /\ Shaped(r) /\ r.incoming = ReadOne.incoming /\ r.nextID = ReadOne.nextID
            /\ r.globals = ReadOne.globals /\ r.gone = ReadOne.gone /\ r.open = ReadOne.open
            /\ r.accepted = ReadOne.accepted
            /\ \A i : \/ KindAt(r, i) = KindAt(display, i)
                      \/ /\ i = e.arg /\ e.to = 5 /\ KindAt(display, 5) # "none"
                         /\ e.op \in {"head", "capabilities", "done"}
<1>. DEFINE k == "OutputHead"
            r == Stored(ReadOne, e.arg, k)
<1>1. /\ Shaped(r) /\ r.incoming = ReadOne.incoming /\ r.nextID = ReadOne.nextID
      /\ r.globals = ReadOne.globals /\ r.gone = ReadOne.gone /\ r.open = ReadOne.open
      /\ r.accepted = ReadOne.accepted
      /\ \A i : KindAt(r, i) = IF i = e.arg THEN k ELSE KindAt(ReadOne, i)
  <2>. HIDE DEF k
  <2>. QED BY ReadOneShaped, ShapedStored
<1>2. Served(e) = ReadOne
      \/ /\ Served(e) = r /\ e.to = 5 /\ KindAt(display, 5) # "none"
         /\ e.op \in {"head", "capabilities", "done"}
  BY DEF Served, ServerObject, IsOpcodeZero
<1>. HIDE DEF r, k
<1>3. CASE Served(e) = ReadOne
  BY <1>3, ReadOneShaped
<1>4. CASE /\ Served(e) = r /\ e.to = 5 /\ KindAt(display, 5) # "none"
           /\ e.op \in {"head", "capabilities", "done"}
  BY <1>1, <1>4, ReadOneShaped
<1>. QED BY <1>2, <1>3, <1>4

Own == {"global", "delete_id", "error"}

LEMMA NotOurOwn ==
  ASSUME OMInv, NEW e \in Event, EventOK(e), Found(e), e.op \notin Own, e = NextEvent
  PROVE  /\ e.to # DisplayID /\ e.to # RegistryID
         /\ KindAt(display, e.to) # "registry"
         /\ KindAt(display, e.to) = KindOf(e.op) \/ KindAt(display, e.to) = "none"
         /\ Dispatched(display) = IF CallbackRuns(display, e) THEN Forgotten(Served(e), e.to)
                                  ELSE Served(e)
<1>1. e.op \in Ops
  BY DEF Event
<1>2. e.to # DisplayID /\ e.to # RegistryID
  <2>1. CASE e.op \in {"done", "capabilities"}
    BY <2>1 DEF EventOK, ClientEventOK, Allocated, DisplayID, RegistryID
  <2>2. CASE e.op \in {"head", "manager_done", "manager_finished"}
    BY <2>2, NextID DEF EventOK, ManagerEventOK, DisplayID, RegistryID
  <2>3. CASE e.op \in {"mode", "properties", "head_finished", "preferred", "mode_finished"}
    <3>1. monitors.used \subseteq Outputs
      BY DEF OMInv, MonitorsOK
    <3>2. \E n \in Outputs : e.to = HeadID(n) \/ e.to = ModeID(n)
      BY <2>3, <3>1 DEF EventOK, OutputEventOK
    <3>. QED BY <3>2, ServerIDs DEF DisplayID, RegistryID
  <2>. QED BY <1>1, <2>1, <2>2, <2>3 DEF Ops, Own
<1>3. KindAt(display, e.to) = KindOf(e.op) \/ KindAt(display, e.to) = "none"
  BY DEF Found
<1>4. KindAt(display, e.to) # "registry"
  BY <1>1, <1>3 DEF KindOf, Own, Ops
<1>5. Dispatched(display) = IF CallbackRuns(display, e) THEN Forgotten(Served(e), e.to)
                            ELSE Served(e)
  <2>. DEFINE kind == KindAt(display, e.to)
  <2>1. Served(e) = IF kind \in {"none", "registry"} THEN ReadOne ELSE ServerObject(ReadOne, e)
    BY <1>4 DEF Served
  <2>. HIDE DEF kind
  <2>2. kind # "registry" /\ kind = KindAt(display, e.to)
    BY <1>4 DEF kind
  <2>3. e = Head(display.incoming)
    BY DEF NextEvent
  <2>4. Dispatched(display) =
          CASE e.to = DisplayID -> HandleDisplayEvent(ReadOne, e)
            [] kind = "registry" /\ e.op = "global" -> HandleGlobal(ReadOne, e)
            [] kind = "registry" /\ e.op = "global_remove" -> HandleGlobalRemove(ReadOne, e)
            [] CallbackRuns(display, e) -> [Served(e) EXCEPT !.objects = Without(@, {e.to})]
            [] OTHER -> Served(e)
    BY <2>1, <2>3 DEF Dispatched, ReadOne, kind
  <2>5. CASE CallbackRuns(display, e)
    BY <1>2, <2>2, <2>4, <2>5 DEF Forgotten
  <2>6. CASE ~ CallbackRuns(display, e)
    BY <1>2, <2>2, <2>4, <2>6
  <2>. QED BY <2>5, <2>6
<1>. QED BY <1>2, <1>3, <1>4, <1>5

LEMMA DoneHandled ==
  ASSUME OMInv, Readable, NEW e, e = NextEvent, NEW word \in Capabilities, e.op = "done",
         ~ Misplaced(e), display' = DisplayAfter(e, word)
  PROVE  Handled(e) /\ Answered(e)
<1>. DEFINE s == Served(e)
            r == Forgotten(s, e.to)
<1>1. /\ e \in Event /\ EventOK(e) /\ Found(e) /\ e.op \notin Own
      /\ KindOf(e.op) = "callback"
  BY NextIsOK DEF Own, EventOK, ClientEventOK, KindOf
<1>2. /\ KindAt(display, e.to) = "callback" \/ KindAt(display, e.to) = "none"
      /\ Dispatched(display) = IF CallbackRuns(display, e) THEN r ELSE s
  BY <1>1, NotOurOwn
<1>3. /\ Shaped(s) /\ s.incoming = ReadOne.incoming /\ s.nextID = ReadOne.nextID
      /\ s.globals = ReadOne.globals /\ s.gone = ReadOne.gone /\ s.open = ReadOne.open
      /\ s.accepted = ReadOne.accepted
      /\ \A i : KindAt(s, i) = KindAt(display, i) \/ Disused(i)
  BY ServedShaped DEF Misplaced
<1>. HIDE DEF s
<1>4. /\ Shaped(r) /\ r.incoming = s.incoming /\ r.nextID = s.nextID
      /\ r.globals = s.globals /\ r.gone = s.gone /\ r.open = s.open
      /\ r.accepted = s.accepted
      /\ \A i : KindAt(r, i) = IF i = e.to THEN "none" ELSE KindAt(s, i)
  BY <1>3, ShapedForgets
<1>. HIDE DEF r
<1>5. display' = Dispatched(display)
  BY <1>2 DEF DisplayAfter
<1>6. display' = r \/ display' = s
  BY <1>2, <1>5
<1>7. \A x : ~ Adds(e, x)
  BY DEF Adds
<1>8. \A x \in Nat \ {0} : Turns(e, x)
  <2>1. CASE display' = s
    BY <1>1, <1>3, <2>1 DEF Turns
  <2>2. CASE display' = r
    BY <1>1, <1>3, <1>4, <2>2 DEF Turns, Drops
  <2>. QED BY <1>6, <2>1, <2>2
<1>. QED BY <1>3, <1>4, <1>6, <1>7, <1>8, PlainHandled

\* The remaining events do not end a callback, so what is served is dispatched.
LEMMA ServedDispatched ==
  ASSUME OMInv, Readable, NEW e, e = NextEvent, NEW word \in Capabilities, e.op \notin Own, e.op # "done"
  PROVE  /\ e \in Event /\ EventOK(e) /\ Found(e) /\ e.op \in Ops
         /\ KindAt(display, e.to) = KindOf(e.op) \/ KindAt(display, e.to) = "none"
         /\ Dispatched(display) = Served(e)
<1>1. e \in Event /\ EventOK(e) /\ Found(e)
  BY NextIsOK
<1>2. ~ CallbackRuns(display, e)
  BY DEF CallbackRuns
<1>. QED BY <1>1, <1>2, NotOurOwn DEF Event

LEMMA CapabilitiesHandled ==
  ASSUME OMInv, Readable, NEW e, e = NextEvent, NEW word \in Capabilities,
         e.op = "capabilities", ~ Misplaced(e), display' = DisplayAfter(e, word)
  PROVE  Handled(e) /\ Answered(e)
<1>. DEFINE s == Served(e)
<1>1. /\ EventOK(e) /\ KindAt(display, e.to) \in {"seat", "none"} /\ Dispatched(display) = s
  BY ServedDispatched DEF KindOf, Own
<1>3. display' = s
  BY <1>1 DEF DisplayAfter
<1>4. /\ Shaped(s) /\ s.incoming = ReadOne.incoming /\ s.nextID = ReadOne.nextID
      /\ s.globals = ReadOne.globals /\ s.gone = ReadOne.gone /\ s.open = ReadOne.open
      /\ s.accepted = ReadOne.accepted
      /\ \A i : KindAt(s, i) = KindAt(display, i) \/ Disused(i)
  BY ServedShaped DEF Misplaced
<1>. HIDE DEF s
<1>5. \A x \in Nat \ {0} : Turns(e, x)
  BY <1>3, <1>4 DEF Turns
<1>6. \A x : ~ Adds(e, x)
  BY DEF Adds
<1>. QED BY <1>3, <1>4, <1>5, <1>6, PlainHandled

\* Those that change no object at all.
LEMMA ReportHandled ==
  ASSUME OMInv, Readable, NEW e, e = NextEvent, NEW word \in Capabilities,
         e.op \in {"manager_done", "properties", "preferred"}, display' = DisplayAfter(e, word)
  PROVE  Handled(e) /\ Answered(e)
<1>. DEFINE s == Served(e)
<1>1. /\ KindAt(display, e.to) = KindOf(e.op) \/ KindAt(display, e.to) = "none"
      /\ Dispatched(display) = s
  BY ServedDispatched DEF Own
<1>2. display' = s
  BY <1>1 DEF DisplayAfter, KindOf, ManagerDispatch, HeadDispatch, ModeDispatch
<1>3. /\ Shaped(s) /\ s.incoming = ReadOne.incoming /\ s.nextID = ReadOne.nextID
      /\ s.globals = ReadOne.globals /\ s.gone = ReadOne.gone /\ s.open = ReadOne.open
      /\ s.accepted = ReadOne.accepted
      /\ \A i : KindAt(s, i) = KindAt(display, i)
  BY ServedShaped
<1>. HIDE DEF s
<1>4. \A x \in Nat \ {0} : Turns(e, x)
  BY <1>2, <1>3 DEF Turns
<1>5. \A x : ~ Adds(e, x)
  BY DEF Adds
<1>. QED BY <1>2, <1>3, <1>4, <1>5, PlainHandled

\* Those that bring an object.
LEMMA AdditionHandled ==
  ASSUME OMInv, Readable, NEW e, e = NextEvent, NEW word \in Capabilities,
         e.op \in {"head", "mode"}, display' = DisplayAfter(e, word)
  PROVE  Handled(e) /\ Answered(e)
<1>. DEFINE s == Served(e)
            k == KindAdded(e)
            r == Register(s, e.arg, k)
<1>1. /\ KindAt(display, e.to) = KindOf(e.op) \/ KindAt(display, e.to) = "none"
      /\ Dispatched(display) = s
  BY ServedDispatched DEF Own
<1>2. CASE KindAt(display, e.to) = KindOf(e.op)
  <2>1. display' = r
    BY <1>1, <1>2 DEF DisplayAfter, KindOf, ManagerDispatch, HeadDispatch, KindAdded
  <2>2. /\ Shaped(s) /\ s.incoming = ReadOne.incoming /\ s.nextID = ReadOne.nextID
        /\ s.globals = ReadOne.globals /\ s.gone = ReadOne.gone /\ s.open = ReadOne.open
        /\ s.accepted = ReadOne.accepted
        /\ \A i : KindAt(s, i) = KindAt(display, i) \/ i = e.arg
    BY ServedShaped
  <2>. HIDE DEF s, k
  <2>3. /\ Shaped(r) /\ r.incoming = s.incoming /\ r.nextID = s.nextID
        /\ r.globals = s.globals /\ r.gone = s.gone /\ r.open = s.open
        /\ r.accepted = s.accepted
        /\ \A i : KindAt(r, i) = IF i = e.arg THEN k ELSE KindAt(s, i)
    BY <2>2, ShapedRegister
  <2>. HIDE DEF r
  <2>4. \A x \in Nat \ {0} : Turns(e, x)
    BY <2>1, <2>2, <2>3 DEF Turns, Adds, k
  <2>5. \A x : Adds(e, x) => KindAt(display', x) = KindAdded(e)
    BY <2>1, <2>3 DEF Adds, k
  <2>. QED BY <2>1, <2>2, <2>3, <2>4, <2>5, PlainHandled
<1>3. CASE KindAt(display, e.to) # KindOf(e.op)
  <2>1. KindAt(display, e.to) = "none" /\ s = ReadOne
    BY <1>1, <1>3 DEF Served
  <2>2. display' = s
    BY <1>1, <2>1 DEF DisplayAfter
  <2>. HIDE DEF s
  <2>3. \A x \in Nat \ {0} : Turns(e, x)
    BY <2>1, <2>2, ReadOneShaped DEF Turns
  <2>. QED BY <1>3, <2>1, <2>2, <2>3, ReadOneShaped, PlainHandled
<1>. QED BY <1>2, <1>3

\* Those that end an object.
LEMMA EndHandled ==
  ASSUME OMInv, Readable, NEW e, e = NextEvent, NEW word \in Capabilities,
         e.op \in {"manager_finished", "head_finished", "mode_finished"},
         display' = DisplayAfter(e, word)
  PROVE  Handled(e) /\ Answered(e)
<1>. DEFINE s == Served(e)
            r == Unregister(s, e.to)
<1>1. /\ KindAt(display, e.to) = KindOf(e.op) \/ KindAt(display, e.to) = "none"
      /\ Dispatched(display) = s
  BY ServedDispatched DEF Own
<1>2. display' = r \/ display' = s
  BY <1>1 DEF DisplayAfter, KindOf, ManagerDispatch, HeadDispatch, ModeDispatch
<1>3. /\ Shaped(s) /\ s.incoming = ReadOne.incoming /\ s.nextID = ReadOne.nextID
      /\ s.globals = ReadOne.globals /\ s.gone = ReadOne.gone /\ s.open = ReadOne.open
      /\ s.accepted = ReadOne.accepted
      /\ \A i : KindAt(s, i) = KindAt(display, i)
  BY ServedShaped
<1>. HIDE DEF s
<1>4. /\ Shaped(r) /\ r.incoming = s.incoming /\ r.nextID = s.nextID
      /\ r.globals = s.globals /\ r.gone = s.gone /\ r.open = s.open
      /\ r.accepted = s.accepted
      /\ \A i : KindAt(r, i) = IF i = e.to THEN "none" ELSE KindAt(s, i)
  BY <1>3, ShapedUnregister
<1>. HIDE DEF r
<1>5. \A x \in Nat \ {0} : Turns(e, x)
  BY <1>2, <1>3, <1>4 DEF Turns, Drops
<1>6. \A x : ~ Adds(e, x)
  BY DEF Adds
<1>. QED BY <1>2, <1>3, <1>4, <1>5, <1>6, PlainHandled

\* Whatever is read, this is what has become of the connection.
LEMMA EveryEventHandled ==
  ASSUME OMInv, Readable, NEW e, e = NextEvent, NEW word \in Capabilities, ~ Misplaced(e),
         display' = DisplayAfter(e, word)
  PROVE  Handled(e) /\ Answered(e)
<1>1. e.op \in Ops /\ e.op # "error"
  BY NextIsOK DEF Event
<1>. QED BY <1>1, GlobalHandled, DeleteIdHandled, DoneHandled, CapabilitiesHandled,
            ReportHandled, AdditionHandled, EndHandled DEF Ops

-----------------------------------------------------------------------------
(* The manager's heads.                                                    *)

HeadShaped(h) == h = [known |-> h.known, modes |-> h.modes, mode |-> h.mode]

\* What an event may do to the heads.
HeadsStep(e, H) ==
  /\ \A id \in DOMAIN H : /\ HeadShaped(H[id])
                          /\ id \in DOMAIN om.heads \/ (e.op = "head" /\ id = e.arg)
  /\ \A id \in DOMAIN om.heads :
       \/ e.op = "head" /\ id = e.arg
       \/ e.op = "head_finished" /\ id = e.to
       \/ id \in DOMAIN H /\ (om.heads[id].known => H[id].known)
ManagerStep(e) ==
  /\ om' = [heads |-> om'.heads, hasSerial |-> om'.hasSerial, serial |-> om'.serial,
            signal |-> om'.signal, manager |-> om'.manager]
  /\ HeadsStep(e, om'.heads)
  /\ om'.manager = om.manager \/ (om'.manager = 0 /\ e.op = "manager_finished")
  /\ (om.hasSerial => om'.hasSerial) /\ (om'.signal => om'.hasSerial)
  /\ e.op # "manager_done" => (om'.hasSerial => om.hasSerial)

LEMMA HeadsKept ==
  ASSUME OMInv, NEW e
  PROVE  HeadsStep(e, om.heads)
BY DEF OMInv, ShapesOK, HeadShaped, HeadsStep

LEMMA OnlyHeads ==
  ASSUME OMInv, NEW e, NEW H, HeadsStep(e, H), om' = [om EXCEPT !.heads = H]
  PROVE  ManagerStep(e) /\ om'.heads = H
<1>1. om = [heads |-> om.heads, hasSerial |-> om.hasSerial, serial |-> om.serial,
            signal |-> om.signal, manager |-> om.manager] /\ (om.signal => om.hasSerial)
  BY DEF OMInv, ShapesOK, ControlOK
<1>2. om' = [heads |-> H, hasSerial |-> om.hasSerial, serial |-> om.serial,
             signal |-> om.signal, manager |-> om.manager]
  BY <1>1
<1>. QED BY <1>1, <1>2 DEF ManagerStep

LEMMA SameManager ==
  ASSUME OMInv, NEW e, om' = om
  PROVE  ManagerStep(e)
<1>1. om = [heads |-> om.heads, hasSerial |-> om.hasSerial, serial |-> om.serial,
            signal |-> om.signal, manager |-> om.manager] /\ (om.signal => om.hasSerial)
  BY DEF OMInv, ShapesOK, ControlOK
<1>2. HeadsStep(e, om'.heads)
  BY HeadsKept
<1>. QED BY <1>1, <1>2 DEF ManagerStep

LEMMA HeadHandled ==
  ASSUME OMInv, NEW e, e.op = "head", om' = HandleHead(e.arg)
  PROVE  ManagerStep(e) /\ e.arg \in DOMAIN om'.heads
<1>. DEFINE h == [known |-> FALSE, modes |-> <<>>, mode |-> 0]
            H == With(om.heads, e.arg, h)
<1>1. HeadShaped(h)
  BY DEF HeadShaped
<1>. HIDE DEF h
<1>2. DOMAIN H = DOMAIN om.heads \cup {e.arg}
  BY DEF With
<1>3. \A id \in DOMAIN H : H[id] = IF id = e.arg THEN h ELSE om.heads[id]
  BY DEF With
<1>4. om' = [om EXCEPT !.heads = H]
  BY DEF HandleHead, h
<1>. HIDE DEF H
<1>5. HeadsStep(e, H)
  BY <1>1, <1>2, <1>3, HeadsKept DEF HeadsStep
<1>. QED BY <1>2, <1>4, <1>5, OnlyHeads

LEMMA ModeHandled ==
  ASSUME OMInv, NEW e, e.to \in DOMAIN om.heads, om' = HandleMode(e.to, e.arg)
  PROVE  ManagerStep(e)
<1>. DEFINE f == om.heads
            id == e.to
            x == IF f[id].mode = 0 /\ Preferred(f[id].modes, e.arg) THEN e.arg ELSE f[id].mode
            y == With(f[id].modes, e.arg, FALSE)
            h1 == [f[id] EXCEPT !.mode = x]
            h2 == [h1 EXCEPT !.modes = y]
            H == [f EXCEPT ![id] = h2]
<1>1. /\ om = [heads |-> f, hasSerial |-> om.hasSerial, serial |-> om.serial,
               signal |-> om.signal, manager |-> om.manager]
      /\ \A i \in DOMAIN f : HeadShaped(f[i])
  BY DEF OMInv, ShapesOK, HeadShaped
<1>2. om' = [[om EXCEPT !.heads[id].mode = x] EXCEPT !.heads[id].modes = With(@, e.arg, FALSE)]
  BY DEF HandleMode
<1>. DEFINE om1 == [om EXCEPT !.heads[id].mode = x]
            f1 == [f EXCEPT ![id] = h1]
<1>. HIDE DEF x
<1>3. h1 = [known |-> f[id].known, modes |-> f[id].modes, mode |-> x]
  <2>1. HeadShaped(f[id])
    BY <1>1
  <2>. HIDE DEF f, id
  <2>. QED BY <2>1 DEF HeadShaped
<1>4. om1 = [heads |-> f1, hasSerial |-> om.hasSerial, serial |-> om.serial,
             signal |-> om.signal, manager |-> om.manager]
  BY <1>1
<1>5. f1[id] = h1 /\ DOMAIN f1 = DOMAIN f
  <2>. HIDE DEF h1
  <2>. QED BY DEF f1
<1>6. om' = [om1 EXCEPT !.heads[id].modes = With(@, e.arg, FALSE)]
  BY <1>2
<1>. HIDE DEF om1, f1
<1>7. om1.heads = f1 /\ f1[id].modes = f[id].modes
  <2>. HIDE DEF h1
  <2>. QED BY <1>3, <1>4, <1>5
<1>8. om' = [om1 EXCEPT !.heads = [f1 EXCEPT ![id] = [h1 EXCEPT !.modes = y]]]
  <2>. HIDE DEF h1
  <2>. QED BY <1>5, <1>6, <1>7
<1>. HIDE DEF h1
<1>9. h2 = [known |-> f[id].known, modes |-> y, mode |-> x]
  <2>. HIDE DEF y
  <2>. QED BY <1>3
<1>. HIDE DEF h2, y
<1>10. [f1 EXCEPT ![id] = h2] = H
  BY DEF f1
<1>11. om' = [om1 EXCEPT !.heads = H]
  BY <1>8, <1>10 DEF h2
<1>. HIDE DEF H
<1>12. om' = [om EXCEPT !.heads = H]
  BY <1>1, <1>4, <1>11
<1>13. DOMAIN H = DOMAIN f /\ \A i \in DOMAIN f : H[i] = IF i = id THEN h2 ELSE f[i]
  BY DEF H
<1>14. HeadShaped(h2) /\ h2.known = f[id].known
  BY <1>9 DEF HeadShaped
<1>15. HeadsStep(e, H)
  BY <1>1, <1>13, <1>14 DEF HeadsStep
<1>. QED BY <1>12, <1>15, OnlyHeads

LEMMA PreferredHandled ==
  ASSUME OMInv, NEW e, om' = HandlePreferred(e.to)
  PROVE  ManagerStep(e)
<1>. DEFINE f == om.heads
            g(i) == [f[i] EXCEPT !.modes[e.to] = TRUE]
            H == [i \in DOMAIN f |-> IF e.to \in DOMAIN f[i].modes THEN g(i) ELSE f[i]]
<1>1. \A i \in DOMAIN f : HeadShaped(f[i])
  BY DEF OMInv, ShapesOK, HeadShaped
<1>2. om' = [om EXCEPT !.heads = H]
  BY DEF HandlePreferred
<1>3. ASSUME NEW i \in DOMAIN f PROVE HeadShaped(g(i)) /\ g(i).known = f[i].known
  <2>. DEFINE h == f[i]
              m == [h.modes EXCEPT ![e.to] = TRUE]
  <2>1. HeadShaped(h)
    BY <1>1
  <2>2. g(i) = [h EXCEPT !.modes = m]
    OBVIOUS
  <2>. HIDE DEF h, m
  <2>3. g(i) = [known |-> h.known, modes |-> m, mode |-> h.mode]
    BY <2>1, <2>2 DEF HeadShaped
  <2>. HIDE DEF g
  <2>. QED BY <2>3 DEF HeadShaped, h
<1>. HIDE DEF g
<1>4. DOMAIN H = DOMAIN f /\ \A i \in DOMAIN f : H[i] = g(i) \/ H[i] = f[i]
  OBVIOUS
<1>. HIDE DEF H
<1>5. HeadsStep(e, H)
  BY <1>1, <1>3, <1>4 DEF HeadsStep
<1>. QED BY <1>2, <1>5, OnlyHeads

LEMMA PropertiesHandled ==
  ASSUME OMInv, NEW e, e.to \in DOMAIN om.heads, om' = HandleProperties(e.to)
  PROVE  ManagerStep(e) /\ e.to \in DOMAIN om'.heads /\ om'.heads[e.to].known
<1>. DEFINE f == om.heads
            id == e.to
            t == TRUE
            h == [f[id] EXCEPT !.known = t]
            H == [f EXCEPT ![id] = h]
<1>1. \A i \in DOMAIN f : HeadShaped(f[i])
  BY DEF OMInv, ShapesOK, HeadShaped
<1>2. om' = [om EXCEPT !.heads = H]
  BY DEF HandleProperties
<1>3. h = [known |-> t, modes |-> f[id].modes, mode |-> f[id].mode]
  <2>1. HeadShaped(f[id])
    BY <1>1
  <2>. HIDE DEF f, id, t
  <2>. QED BY <2>1 DEF HeadShaped
<1>. HIDE DEF h, t
<1>4. DOMAIN H = DOMAIN f /\ \A i \in DOMAIN f : H[i] = IF i = id THEN h ELSE f[i]
  OBVIOUS
<1>5. HeadShaped(h) /\ h.known
  BY <1>3 DEF HeadShaped, t
<1>. HIDE DEF H
<1>6. HeadsStep(e, H)
  BY <1>1, <1>4, <1>5 DEF HeadsStep
<1>7. ManagerStep(e) /\ om'.heads = H
  BY <1>2, <1>6, OnlyHeads
<1>. QED BY <1>4, <1>5, <1>7

LEMMA HeadFinishedHandled ==
  ASSUME OMInv, NEW e, e.op = "head_finished", om' = HandleHeadFinished(e.to)
  PROVE  ManagerStep(e)
<1>. DEFINE f == om.heads
            H == Without(f, {e.to})
<1>1. \A i \in DOMAIN f : HeadShaped(f[i])
  BY DEF OMInv, ShapesOK, HeadShaped
<1>2. DOMAIN H = DOMAIN f \ {e.to} /\ \A i \in DOMAIN H : H[i] = f[i]
  BY DEF Without
<1>3. om' = [om EXCEPT !.heads = H]
  BY DEF HandleHeadFinished
<1>. HIDE DEF H
<1>4. HeadsStep(e, H)
  BY <1>1, <1>2 DEF HeadsStep
<1>. QED BY <1>3, <1>4, OnlyHeads

\* Whatever is read, this is what has become of the manager.
LEMMA EveryEventManaged ==
  ASSUME OMInv, Readable, NEW e, e = NextEvent, NEW word \in Capabilities, om' = ManagerAfter(e)
  PROVE  /\ ManagerStep(e)
         /\ e.op = "head" /\ KindAt(display, e.to) = "manager" => e.arg \in DOMAIN om'.heads
         /\ e.op = "properties" /\ KindAt(display, e.to) = "head" /\ e.to \in DOMAIN om.heads =>
              e.to \in DOMAIN om'.heads /\ om'.heads[e.to].known
<1>. DEFINE kind == KindAt(display, e.to)
<1>1. CASE kind = "manager" /\ e.op = "head"
  <2>1. om' = HandleHead(e.arg)
    BY <1>1 DEF ManagerAfter
  <2>. QED BY <1>1, <2>1, HeadHandled
<1>2. CASE kind = "manager" /\ e.op = "manager_done"
  <2>1. om' = HandleDone(e.arg)
    BY <1>2 DEF ManagerAfter
  <2>2. om = [heads |-> om.heads, hasSerial |-> om.hasSerial, serial |-> om.serial,
              signal |-> om.signal, manager |-> om.manager]
    BY DEF OMInv, ShapesOK
  <2>. DEFINE sg == om.signal \/ ~om.hasSerial
  <2>3. om' = [heads |-> om.heads, hasSerial |-> TRUE, serial |-> e.arg,
               signal |-> sg, manager |-> om.manager]
    BY <2>1, <2>2 DEF HandleDone
  <2>. HIDE DEF sg
  <2>4. HeadsStep(e, om'.heads)
    BY <2>3, HeadsKept
  <2>. QED BY <1>2, <2>3, <2>4 DEF ManagerStep
<1>3. CASE kind = "manager" /\ e.op = "manager_finished"
  <2>1. om' = HandleFinished
    BY <1>3 DEF ManagerAfter
  <2>2. om = [heads |-> om.heads, hasSerial |-> om.hasSerial, serial |-> om.serial,
              signal |-> om.signal, manager |-> om.manager] /\ (om.signal => om.hasSerial)
    BY DEF OMInv, ShapesOK, ControlOK
  <2>3. om' = [heads |-> om.heads, hasSerial |-> om.hasSerial, serial |-> om.serial,
               signal |-> om.signal, manager |-> 0]
    BY <2>1, <2>2 DEF HandleFinished
  <2>4. HeadsStep(e, om'.heads)
    BY <2>3, HeadsKept
  <2>. QED BY <1>3, <2>2, <2>3, <2>4 DEF ManagerStep
<1>4. CASE kind = "head" /\ e.to \in DOMAIN om.heads /\ e.op = "mode"
  <2>1. om' = HandleMode(e.to, e.arg)
    BY <1>4 DEF ManagerAfter
  <2>. QED BY <1>4, <2>1, ModeHandled
<1>5. CASE kind = "head" /\ e.to \in DOMAIN om.heads /\ e.op = "properties"
  <2>1. om' = HandleProperties(e.to)
    BY <1>5 DEF ManagerAfter
  <2>. QED BY <1>5, <2>1, PropertiesHandled
<1>6. CASE kind = "head" /\ e.op = "head_finished"
  <2>1. om' = HandleHeadFinished(e.to)
    BY <1>6 DEF ManagerAfter
  <2>. QED BY <1>6, <2>1, HeadFinishedHandled
<1>7. CASE kind = "mode" /\ e.op = "preferred"
  <2>1. om' = HandlePreferred(e.to)
    BY <1>7 DEF ManagerAfter
  <2>. QED BY <1>7, <2>1, PreferredHandled
<1>8. CASE /\ ~ (kind = "manager" /\ e.op \in {"head", "manager_done", "manager_finished"})
           /\ ~ (kind = "head" /\ e.to \in DOMAIN om.heads /\ e.op \in {"mode", "properties"})
           /\ ~ (kind = "head" /\ e.op = "head_finished")
           /\ ~ (kind = "mode" /\ e.op = "preferred")
  <2>1. om' = om
    BY <1>8 DEF ManagerAfter
  <2>. QED BY <1>8, <2>1, SameManager
<1>. QED BY <1>1, <1>2, <1>3, <1>4, <1>5, <1>6, <1>7, <1>8

-----------------------------------------------------------------------------
(* One goroutine reads one event.                                          *)

Reading ==
  /\ OMInv /\ Readable /\ ~ Misplaced(NextEvent)
  /\ \E word \in Capabilities : display' = DisplayAfter(NextEvent, word)
  /\ om' = ManagerAfter(NextEvent)
  /\ UNCHANGED <<pc, pump, monitors>>
  /\ rt' = [phase |-> rt'.phase, id |-> rt'.id, done |-> rt'.done, count |-> rt'.count]
  /\ rt'.id = rt.id
  /\ rt'.phase = rt.phase \/ (rt.phase = "read" /\ rt'.phase = "check")
  /\ pump # "off" \/ rt.phase = "read"

LEMMA ReadingMeans ==
  ASSUME Reading, NEW e, e = NextEvent
  PROVE  /\ e \in Event /\ EventOK(e) /\ Found(e) /\ e.op \in Ops \ {"error"}
         /\ e.op = "global" => e.arg = Seen + 1
         /\ Handled(e) /\ Answered(e) /\ ManagerStep(e)
         /\ display.incoming \in Seq(Event) /\ display.incoming # <<>>
         /\ e = Head(display.incoming)
<1>1. e.op \in Ops
  BY NextIsOK DEF Reading, Event
<1>. PICK word \in Capabilities : display' = DisplayAfter(NextEvent, word)
  BY DEF Reading
<1>2. Handled(e) /\ Answered(e)
  BY EveryEventHandled DEF Reading
<1>. QED BY <1>1, <1>2, NextIsOK, EveryEventManaged DEF Reading, NextEvent

\* What FS_Interval and FS_CardinalityType say of the names of the globals.
LEMMA NamesGrow ==
  ASSUME Reading, NEW e, e = NextEvent
  PROVE  /\ Seen \in Nat
         /\ Seen' = IF e.op = "global" THEN Seen + 1 ELSE Seen
         /\ (DOMAIN display.globals = 1..Seen)' /\ Seen' + 6 <= FirstServerID
<1>1. DOMAIN display.globals = 1..Seen /\ Seen \in Nat /\ Seen + 6 <= FirstServerID
  BY DEF Reading, OMInv, IdsOK
<1>2. CASE e.op # "global"
  <2>1. display'.globals = display.globals
    BY <1>2, ReadingMeans DEF Handled
  <2>. QED BY <1>1, <1>2, <2>1 DEF Seen
<1>3. CASE e.op = "global"
  <2>1. e.arg = Seen + 1 /\ display'.globals = With(display.globals, e.arg, e.what)
    BY <1>3, ReadingMeans DEF Handled
  <2>2. DOMAIN display'.globals = DOMAIN display.globals \cup {e.arg}
    BY <2>1 DEF With
  <2>3. DOMAIN display'.globals = 1..(Seen + 1)
    <3>1. \A k \in Nat : (1..k) \cup {k + 1} = 1..(k + 1)
      OBVIOUS
    <3>2. (1..Seen) \cup {Seen + 1} = 1..(Seen + 1)
      BY <1>1, <3>1
    <3>. QED BY <1>1, <2>1, <2>2, <3>2
  <2>4. Cardinality(1..(Seen + 1)) = Seen + 1
    <3>1. 1 \in Int /\ Seen + 1 \in Int /\ Seen + 1 \in Nat
      BY <1>1
    <3>2. Cardinality(1..(Seen + 1)) = IF 1 > Seen + 1 THEN 0 ELSE (Seen + 1) - 1 + 1
      BY <3>1, FS_Interval
    <3>. QED BY <1>1, <3>2
  <2>5. Seen' = Seen + 1
    BY <2>3, <2>4 DEF Seen
  <2>6. e.arg + 6 <= FirstServerID
    BY <1>3, ReadingMeans DEF EventOK, ClientEventOK
  <2>. QED BY <1>1, <1>3, <2>1, <2>3, <2>5, <2>6
<1>. QED BY <1>2, <1>3

\* Ids are only ever added, and only by a global.
LEMMA IdsGrow ==
  ASSUME Reading, NEW e, e = NextEvent
  PROVE  /\ display.nextID \in Nat /\ display.nextID >= 3 /\ display.nextID <= FirstServerID
         /\ display'.nextID = display.nextID
            \/ (e.op = "global" /\ display'.nextID = display.nextID + 1)
         /\ e.op = "global" => display.nextID < FirstServerID
<1>1. OMInv
  BY DEF Reading
<1>2. e.op = "global" => e.arg = Seen + 1 /\ e.arg + 6 <= FirstServerID
  BY ReadingMeans DEF EventOK, ClientEventOK
<1>3. display.nextID <= 6 + Seen /\ Seen \in Nat
  BY <1>1 DEF OMInv, IdsOK
<1>. QED BY <1>1, <1>2, <1>3, NextID, ReadingMeans, ServerIDs DEF Answered

\* An event that is not first is for the right object still.
LEMMA EventKeeps ==
  ASSUME Reading, NEW e, e = NextEvent, NEW f \in Event, EventOK(f), PairOK(e, f)
  PROVE  EventOK(f)'
<1>. USE DEF Reading
<1>1. e \in Event /\ EventOK(e) /\ ManagerStep(e)
  BY ReadingMeans
<1>2. \A id : (Allocated(id) => Allocated(id)') /\ (Reserved(id)' => Reserved(id))
  BY IdsGrow DEF Allocated, Reserved
<1>3. monitors' = monitors
  OBVIOUS
<1>4. om'.manager = om.manager \/ (om'.manager = 0 /\ e.op = "manager_finished")
  BY <1>1 DEF ManagerStep
<1>5. ClientEventOK(f)'
  <2>1. ClientEventOK(f)
    BY DEF EventOK
  <2>2. f.op = "delete_id" =>
          Allocated(f.arg)' /\ ~ Reserved(f.arg)' /\ (monitors'.bound # 0 => f.arg # monitors'.bound)
    BY <1>2, <1>3, <2>1 DEF ClientEventOK
  <2>3. f.op \in {"done", "capabilities"} =>
          Allocated(f.to)' /\ ~ Reserved(f.to)' /\ f.to # om'.manager
    <3>1. Allocated(f.to) => f.to # 0
      BY DEF Allocated
    <3>. QED BY <1>2, <1>4, <2>1, <3>1 DEF ClientEventOK
  <2>. QED BY <2>1, <2>2, <2>3 DEF ClientEventOK
<1>6. ManagerEventOK(f)'
  <2>1. ManagerEventOK(f)
    BY DEF EventOK
  <2>2. f.op \in {"head", "manager_done", "manager_finished"} =>
          f.to = om'.manager /\ om'.manager # 0
    <3>. SUFFICES ASSUME f.op \in {"head", "manager_done", "manager_finished"},
                         om'.manager = 0, e.op = "manager_finished"
                  PROVE  FALSE
      BY <1>4, <2>1 DEF ManagerEventOK
    <3>1. f.to = om.manager
      BY <2>1 DEF ManagerEventOK
    <3>2. e.to = om.manager
      BY <1>1 DEF EventOK, ManagerEventOK
    <3>. QED BY <3>1, <3>2 DEF PairOK, Drops
  <2>3. ASSUME f.op = "head"
        PROVE  \E n \in monitors'.used : f.arg = HeadID(n) /\ HeadID(n) \notin DOMAIN om'.heads
    <3>1. PICK n \in monitors.used : f.arg = HeadID(n) /\ HeadID(n) \notin DOMAIN om.heads
      BY <2>1, <2>3 DEF ManagerEventOK
    <3>2. ~ (e.op = "head" /\ e.arg = f.arg)
      BY <2>3 DEF PairOK
    <3>3. HeadID(n) \notin DOMAIN om'.heads
      BY <1>1, <3>1, <3>2 DEF ManagerStep, HeadsStep
    <3>. QED BY <1>3, <3>1, <3>3
  <2>4. f.op = "manager_finished" => monitors'.bound = 0
    BY <1>3, <2>1 DEF ManagerEventOK
  <2>. QED BY <2>2, <2>3, <2>4 DEF ManagerEventOK
<1>7. OutputEventOK(f)'
  BY <1>3 DEF EventOK, OutputEventOK
<1>. QED BY <1>5, <1>6, <1>7 DEF EventOK

\* While events are read, only a manager that is being closed may be missing.
LEMMA RightOrEnding ==
  ASSUME Reading, NEW e, e = NextEvent
  PROVE  \/ KindAt(display, e.to) = KindOf(e.op)
         \/ KindAt(display, e.to) = "none" /\ (Ending \/ e.op = "done")
BY ReadingMeans DEF Found, MayMiss

\* What the heads and modes hold, before and after.
LEMMA OutputsKeepKinds ==
  ASSUME Reading, NEW n \in Outputs
  PROVE  /\ KindAt(display', HeadID(n)) \in {"none", "head"}
         /\ KindAt(display', ModeID(n)) \in {"none", "mode"}
<1>. DEFINE e == NextEvent
<1>1. e \in Event /\ EventOK(e) /\ Handled(e) /\ OMInv
  BY ReadingMeans DEF Reading
<1>2. /\ HeadID(n) \in Nat \ {0} /\ HeadID(n) >= FirstServerID /\ ~ Disused(HeadID(n))
      /\ ModeID(n) \in Nat \ {0} /\ ModeID(n) >= FirstServerID /\ ~ Disused(ModeID(n))
  BY IdsGrow, ServerIDs DEF Disused
<1>3. e.op = "global" => HeadID(n) # display.nextID /\ ModeID(n) # display.nextID
  BY <1>2, IdsGrow, ServerIDs
<1>4. /\ KindAt(display, HeadID(n)) \in {"none", "head"}
      /\ KindAt(display, ModeID(n)) \in {"none", "mode"}
  BY <1>1 DEF OMInv, ObjectsOK
<1>5. Turns(e, HeadID(n)) /\ Turns(e, ModeID(n))
  BY <1>1, <1>2 DEF Handled
<1>6. (Adds(e, HeadID(n)) => e.op = "head") /\ (Adds(e, ModeID(n)) => e.op = "mode")
  BY <1>1, WhatAdds, ServerIDs
<1>. HIDE DEF e
<1>. QED BY <1>2, <1>3, <1>4, <1>5, <1>6 DEF Turns, KindAdded

\* An object that was found, or that the event brings, is found afterwards.
LEMMA FoundKeeps ==
  ASSUME Reading, NEW e, e = NextEvent, NEW f \in Event, EventOK(f), PairOK(e, f),
         Found(f) \/ Adds(e, f.to)
  PROVE  Found(f)'
<1>1. e \in Event /\ EventOK(e) /\ Handled(e) /\ OMInv
  BY ReadingMeans DEF Reading
<1>2. MayMiss(f) => MayMiss(f)'
  <2>1. om'.manager = om.manager \/ (om'.manager = 0 /\ e.op = "manager_finished")
    BY ReadingMeans DEF ManagerStep
  <2>2. e.op = "manager_finished" => f.to # om.manager
    BY <1>1 DEF EventOK, ManagerEventOK, PairOK, Drops
  <2>. QED BY <2>1, <2>2 DEF Reading, MayMiss, Ending
<1>3. /\ f.to \in Nat \ {0}
      /\ \/ f.to < display.nextID
         \/ \E n \in Outputs : f.to = HeadID(n) /\ KindOf(f.op) = "head"
         \/ \E n \in Outputs : f.to = ModeID(n) /\ KindOf(f.op) = "mode"
      /\ \A n \in Outputs : /\ f.to = HeadID(n) => KindOf(f.op) = "head"
                            /\ f.to = ModeID(n) => KindOf(f.op) = "mode"
  BY <1>1, Targets
<1>4. Turns(e, f.to)
  BY <1>1, <1>3 DEF Handled
<1>5. ~ Drops(e, f.to)
  BY DEF PairOK
<1>6. e.op = "global" => f.to # display.nextID
  BY <1>3, IdsGrow, ServerIDs
<1>7. Adds(e, f.to) => KindAdded(e) = KindOf(f.op)
  BY <1>1, <1>3, WhatAdds DEF KindAdded
<1>8. CASE Found(f)
  <2>0. ~ Disused(f.to)
    <3>1. KindOf(f.op) \notin {"none", "OutputHead"}
      BY DEF KindOf
    <3>2. f.to < FirstServerID \/ ~ f.to < display.nextID
      BY <1>3, IdsGrow, ServerIDs
    <3>. QED BY <1>3, <1>8, <3>1, <3>2, ServerIDs DEF Found, MayMiss, Disused
  <2>1. KindAt(display', f.to) = KindAt(display, f.to) \/ KindAt(display', f.to) = KindOf(f.op)
    BY <1>4, <1>5, <1>6, <1>7, <2>0 DEF Turns
  <2>. QED BY <1>2, <1>8, <2>1 DEF Found
<1>9. CASE Adds(e, f.to)
  <2>1. e.op # "done"
    BY <1>9 DEF Adds
  <2>2. CASE KindAt(display, e.to) = KindOf(e.op)
    <3>1. KindAt(display', f.to) = KindAdded(e)
      BY <1>1, <1>9, <2>2 DEF Handled
    <3>. QED BY <1>7, <1>9, <3>1 DEF Found
  <2>3. CASE Ending
    <3>0. f.to >= FirstServerID
      BY <1>1, <1>9, WhatAdds, ServerIDs
    <3>1. MayMiss(f)'
      BY <2>3, <3>0 DEF MayMiss, Ending, Reading
    <3>2. \E n \in Outputs : f.to = HeadID(n) \/ f.to = ModeID(n)
      BY <1>1, <1>9, WhatAdds
    <3>3. KindAt(display', f.to) = KindOf(f.op) \/ KindAt(display', f.to) = "none"
      BY <1>3, <3>2, OutputsKeepKinds
    <3>. QED BY <3>1, <3>3 DEF Found
  <2>. QED BY <2>1, <2>2, <2>3, RightOrEnding
<1>. QED BY <1>8, <1>9

\* One event put behind a queue.
LEMMA QueueTakes ==
  ASSUME NEW q \in Seq(Event), NEW f \in Event, QueueOK(q)', EventOK(f)', Found(f)',
         f.op = "global" => f.arg = (Seen + 1)',
         \A j \in DOMAIN q : PairOK(q[j], f)
  PROVE  QueueOK(q \o <<f>>)'
<1>. DEFINE s == <<f>>
<1>1. s \in Seq(Event) /\ DOMAIN s = 1..1 /\ s[1] = f
  OBVIOUS
<1>. HIDE DEF s
<1>2. ASSUME NEW k \in DOMAIN s
      PROVE  /\ EventOK(s[k])' /\ Found(s[k])'
             /\ s[k].op = "global" => s[k].arg = (Seen + 1)'
             /\ \A j \in DOMAIN q : PairOK(q[j], s[k])
             /\ \A j \in 1..(k - 1) : PairOK(s[j], s[k])
  <2>1. k = 1 /\ s[k] = f
    BY <1>1
  <2>2. \A j \in 1..(k - 1) : FALSE
    BY <2>1
  <2>. QED BY <2>1, <2>2
<1>3. QueueOK(q \o s)'
  BY <1>1, <1>2, QueueGrows
<1>. QED BY <1>3 DEF s

\* Somebody reads, so the first roundtrip has an id at least.
LEMMA FirstIdTaken ==
  ASSUME Reading
  PROVE  /\ display.nextID >= 4 /\ (pump # "off" => display.nextID >= 5)
         /\ rt.phase \in {"request", "store", "read"} => rt.id \in 3..(display.nextID - 1)
<1>1. OMInv /\ (pump # "off" \/ rt.phase = "read")
  BY DEF Reading
<1>2. /\ pump # "off" => display.nextID >= 5
      /\ rt.phase \notin {"idle", "allocate"} => rt.id \in 3..(display.nextID - 1)
  BY <1>1 DEF OMInv, IdsOK, Allocated
<1>. QED BY <1>1, <1>2, NextID

LEMMA ReadingObjects ==
  ASSUME Reading
  PROVE  ObjectsOK'
<1>. DEFINE e == NextEvent
<1>1. e \in Event /\ EventOK(e) /\ Handled(e) /\ OMInv
  BY ReadingMeans DEF Reading
<1>2. ObjectsOK
  BY <1>1 DEF OMInv
<1>3. \A x \in Nat \ {0} : Turns(e, x)
  BY <1>1 DEF Handled
<1>4. \A x : Drops(e, x) => x \in 3..(display.nextID - 1) \/ (x \in Nat /\ x >= FirstServerID)
  BY <1>1, WhatDrops, ServerIDs
<1>5. \A x : Adds(e, x) => x \in Nat /\ x >= FirstServerID
  BY <1>1, WhatAdds, ServerIDs
<1>. HIDE DEF e
<1>6. KindAt(display', DisplayID) = "display" /\ KindAt(display', RegistryID) = "registry"
  <2>1. ~ Disused(DisplayID) /\ ~ Disused(RegistryID)
    BY <1>2 DEF ObjectsOK, Disused
  <2>. QED
  BY <2>1, <1>2, <1>3, <1>4, <1>5, IdsGrow, FirstIdTaken, ServerIDs
  DEF ObjectsOK, Turns, DisplayID, RegistryID
<1>7. ASSUME NEW id \in display'.nextID..(FirstServerID - 1)
      PROVE  KindAt(display', id) = "none"
  <2>1. /\ id \in display.nextID..(FirstServerID - 1) /\ id \in Nat \ {0} /\ ~ Disused(id)
        /\ display'.nextID = display.nextID + 1 => id # display.nextID
    BY IdsGrow, FirstIdTaken, ServerIDs DEF Disused
  <2>2. KindAt(display, id) = "none"
    BY <1>2, <2>1 DEF ObjectsOK
  <2>3. ~ Drops(e, id) /\ ~ Adds(e, id)
    BY <1>4, <1>5, <2>1, IdsGrow, ServerIDs
  <2>. QED BY <1>3, <2>1, <2>2, <2>3 DEF Turns
<1>8. ASSUME rt'.phase \in {"request", "store"} PROVE KindAt(display', rt'.id) = "none"
  <2>1. rt'.phase = rt.phase /\ rt'.id = rt.id /\ pump # "off"
    BY <1>8 DEF Reading
  <2>2. KindAt(display, rt.id) = "none"
    BY <1>2, <1>8, <2>1 DEF ObjectsOK
  <2>3. rt.id >= 5 /\ rt.id \in 3..(display.nextID - 1)
    BY <1>1, <1>8, <2>1, FirstIdTaken DEF OMInv, IdsOK
  <2>4. ~ Adds(e, rt.id) /\ rt.id \in Nat \ {0} /\ ~ Disused(rt.id) /\ rt.id # display.nextID
    BY <1>5, <2>3, IdsGrow, ServerIDs DEF Disused
  <2>5. KindAt(display', rt.id) = "none"
    BY <1>3, <2>2, <2>4 DEF Turns
  <2>. QED BY <2>1, <2>5
<1>. QED BY <1>6, <1>7, <1>8, OutputsKeepKinds DEF ObjectsOK

\* What the compositor sends back for a new seat's binding may follow what waits.
LEMMA ReplyFits ==
  ASSUME Reading, NEW e, e = NextEvent, e.op = "global",
         display'.nextID = display.nextID + 1, KindAt(display', display.nextID) = "seat",
         NEW word \in Capabilities,
         NEW f, f = Plain(display.nextID, "capabilities", word)
                \/ f = Plain(DisplayID, "error", display.nextID)
  PROVE  /\ f \in Event /\ EventOK(f)' /\ Found(f)' /\ f.op # "global"
         /\ \A g \in Event : EventOK(g) => PairOK(g, f)
<1>1. /\ OMInv /\ rt'.id = rt.id
      /\ rt'.phase = "request" => rt.phase = "request"
      /\ om'.manager = om.manager \/ om'.manager = 0
  BY ReadingMeans DEF Reading, ManagerStep
<1>2. /\ display.nextID \in Nat /\ display.nextID >= 4 /\ display.nextID < FirstServerID
      /\ (rt.phase = "request" => rt.id \in 3..(display.nextID - 1))
      /\ (om'.manager # 0 => om'.manager < display.nextID)
  BY <1>1, IdsGrow, FirstIdTaken, NextID
<1>3. \A g \in Event : EventOK(g) => ~ Drops(g, display.nextID) /\ ~ Drops(g, DisplayID)
  <2>. SUFFICES ASSUME NEW g \in Event, EventOK(g), NEW x, Drops(g, x),
                       x = display.nextID \/ x = DisplayID
                PROVE  FALSE
    OBVIOUS
  <2>1. x \in 3..(display.nextID - 1) \/ \E n \in Outputs : x = HeadID(n) \/ x = ModeID(n)
    BY <1>1, WhatDrops
  <2>. QED BY <1>2, <2>1, ServerIDs DEF DisplayID
<1>4. CASE f = Plain(display.nextID, "capabilities", word)
  <2>1. word \in Nat
    BY WordsAssumption
  <2>2. /\ f \in Event /\ f.to = display.nextID /\ f.op = "capabilities"
    <3>1. "capabilities" \in Ops /\ display.nextID \in Nat
      BY <1>2 DEF Ops
    <3>. HIDE DEF Plain
    <3>. QED BY <1>4, <2>1, <3>1, PlainIsEvent
  <2>3. Allocated(f.to)' /\ ~ Reserved(f.to)' /\ f.to # om'.manager
    BY <1>1, <1>2, <2>2 DEF Allocated, Reserved
  <2>4. EventOK(f)'
    BY <2>2, <2>3 DEF EventOK, ClientEventOK, ManagerEventOK, OutputEventOK
  <2>5. Found(f)'
    BY <2>2 DEF Found, KindOf
  <2>. QED BY <1>2, <1>3, <2>2, <2>3, <2>4, <2>5 DEF PairOK
<1>5. CASE f = Plain(DisplayID, "error", display.nextID)
  <2>1. f \in Event /\ f.to = DisplayID /\ f.op = "error"
    <3>1. "error" \in Ops /\ display.nextID \in Nat /\ DisplayID \in Nat
      BY <1>2 DEF Ops, DisplayID
    <3>. HIDE DEF Plain
    <3>. QED BY <1>5, <3>1, PlainIsEvent
  <2>2. EventOK(f)'
    BY <2>1 DEF EventOK, ClientEventOK, ManagerEventOK, OutputEventOK
  <2>3. KindAt(display', DisplayID) = "display"
    BY ReadingObjects DEF ObjectsOK
  <2>4. Found(f)'
    BY <2>1, <2>3 DEF Found, KindOf
  <2>. QED BY <1>3, <2>1, <2>2, <2>4 DEF PairOK, DisplayID
<1>. QED BY <1>4, <1>5

LEMMA ReadingQueue ==
  ASSUME Reading
  PROVE  QueueOK(display.incoming)' /\ display'.incoming \in Seq(Event)
<1>. DEFINE e == NextEvent
<1>0. OMInv /\ display.incoming \in Seq(Event) /\ display.incoming # <<>>
  BY ReadingMeans DEF Reading
<1>. PICK q \in Seq(Event) : q = display.incoming
  BY <1>0
<1>1. QueueOK(q)
  BY <1>0 DEF OMInv
<1>2. q # <<>> /\ e = Head(q) /\ Answered(e)
  BY <1>0, ReadingMeans
<1>3. \A f \in Event : EventOK(f) /\ PairOK(e, f) =>
        EventOK(f)' /\ (Found(f) \/ Adds(e, f.to) => Found(f)')
  BY EventKeeps, FoundKeeps
<1>4. Seen \in Nat /\ Seen' = IF e.op = "global" THEN Seen + 1 ELSE Seen
  BY NamesGrow
<1>. HIDE DEF e
<1>5. PICK r \in Seq(Event) : r = Tail(q)
  BY <1>2, TailIndices
<1>6. QueueOK(r)'
  <2>1. QueueOK(Tail(q))'
    BY <1>1, <1>2, <1>3, <1>4, QueueShrinks
  <2>. QED BY <1>5, <2>1
<1>7. \A j \in DOMAIN r : r[j] \in Event /\ EventOK(r[j])
  <2>1. \A j \in DOMAIN q : q[j] \in Event /\ EventOK(q[j])
    BY <1>1 DEF QueueOK
  <2>. QED BY <1>2, <1>5, <2>1, TailIndices
<1>8. CASE display'.incoming = r
  BY <1>6, <1>8
<1>9. CASE /\ e.op = "global" /\ display'.nextID = display.nextID + 1
           /\ KindAt(display', display.nextID) = "seat"
           /\ \E s : SeatReply(s) /\ display'.incoming = r \o s
  <2>1. PICK s : SeatReply(s) /\ display'.incoming = r \o s
    BY <1>9
  <2>20. PICK word \in Capabilities :
           \E f :
             /\ f = Plain(display.nextID, "capabilities", word)
                \/ f = Plain(DisplayID, "error", display.nextID)
             /\ s = <<f>>
    <3>. PICK given : given \in Capabilities
      BY ReadingMeans DEF Reading
    <3>. QED BY <2>1 DEF SeatReply, Failure, ErrorEvent, Plain
  <2>2. PICK f :
          /\ f = Plain(display.nextID, "capabilities", word)
             \/ f = Plain(DisplayID, "error", display.nextID)
          /\ s = <<f>>
    BY <2>20
  <2>3. /\ f \in Event /\ EventOK(f)' /\ Found(f)' /\ f.op # "global"
        /\ \A g \in Event : EventOK(g) => PairOK(g, f)
    BY <1>9, <2>2, ReplyFits DEF e
  <2>4. QueueOK(r \o <<f>>)'
    BY <1>6, <1>7, <2>3, QueueTakes
  <2>5. display'.incoming = r \o <<f>>
    BY <2>1, <2>2
  <2>6. r \o <<f>> \in Seq(Event)
    BY <2>3
  <2>. QED BY <2>4, <2>5, <2>6
<1>. QED BY <1>2, <1>5, <1>8, <1>9 DEF Answered

\* Where the events that wait have gone, and where those that wait now come from.
LEMMA WhatWaits ==
  ASSUME Reading
  PROVE  /\ \A j \in DOMAIN display.incoming :
              j # 1 => /\ j - 1 \in DOMAIN display'.incoming
                       /\ display'.incoming[j - 1] = display.incoming[j]
         /\ \A i \in DOMAIN display'.incoming :
              \/ i + 1 \in DOMAIN display.incoming
                 /\ display'.incoming[i] = display.incoming[i + 1]
              \/ display'.incoming[i].op \in {"capabilities", "error"}
         /\ \A j \in DOMAIN display.incoming : j \in Nat /\ j >= 1
         /\ \A j \in DOMAIN display'.incoming : j \in Nat /\ j >= 1
<1>. DEFINE e == NextEvent
<1>0. display.incoming \in Seq(Event) /\ display.incoming # <<>> /\ Answered(e)
  BY ReadingMeans
<1>. PICK q \in Seq(Event) : q = display.incoming
  BY <1>0
<1>. PICK r \in Seq(Event) : r = Tail(q)
  BY <1>0, TailIndices
<1>1. /\ DOMAIN r = 1..(Len(q) - 1) /\ DOMAIN q = 1..Len(q) /\ Len(q) \in Nat /\ Len(q) >= 1
      /\ \A i \in 1..(Len(q) - 1) : r[i] = q[i + 1]
  BY <1>0, TailIndices
<1>2. PICK t \in Seq(Event) : t = display'.incoming
  BY ReadingQueue
<1>3. CASE t = r
  BY <1>1, <1>2, <1>3
<1>4. CASE \E s : SeatReply(s) /\ t = r \o s
  <2>1. PICK s : SeatReply(s) /\ t = r \o s
    BY <1>4
  <2>20. PICK word \in Capabilities :
           \E f :
             /\ f = Plain(display.nextID, "capabilities", word)
                \/ f = Plain(DisplayID, "error", display.nextID)
             /\ s = <<f>>
    <3>. PICK given : given \in Capabilities
      BY ReadingMeans DEF Reading
    <3>. QED BY <2>1 DEF SeatReply, Failure, ErrorEvent, Plain
  <2>2. PICK f :
          /\ f = Plain(display.nextID, "capabilities", word)
             \/ f = Plain(DisplayID, "error", display.nextID)
          /\ s = <<f>>
    BY <2>20
  <2>3. f.op \in {"capabilities", "error"}
    <3>1. {"capabilities", "error"} \subseteq Ops /\ word \in Nat
      BY WordsAssumption DEF Ops
    <3>2. display.nextID \in Nat /\ DisplayID \in Nat
      BY IdsGrow DEF DisplayID
    <3>. QED BY <2>2, <3>1, <3>2, PlainIsEvent
  <2>4. /\ Len(r) = Len(q) - 1 /\ DOMAIN t = 1..Len(q) /\ t[Len(q)] = f
        /\ \A i \in 1..(Len(q) - 1) : t[i] = r[i]
    BY <1>1, <2>1, <2>2
  <2>. HIDE DEF SeatReply
  <2>. QED BY <1>1, <1>2, <2>3, <2>4, SMTT(30)
<1>. QED BY <1>0, <1>2, <1>3, <1>4 DEF Answered

LEMMA ReadingBound ==
  ASSUME Reading
  PROVE  BoundOK'
<1>. DEFINE e == NextEvent
<1>1. /\ e \in Event /\ EventOK(e) /\ Handled(e) /\ Answered(e) /\ OMInv
      /\ display.incoming \in Seq(Event) /\ display.incoming # <<>>
      /\ e = Head(display.incoming)
  BY ReadingMeans DEF Reading
<1>. SUFFICES ASSUME monitors.bound # 0, ~ display'.gone
              PROVE  /\ KindAt(display', monitors.bound) = "manager"
                     /\ \A n \in monitors.plugged : Present(display.incoming, n)'
  BY DEF BoundOK, Reading
<1>2. ~ display.gone
  BY <1>1 DEF Answered, SeatReply
<1>3. /\ KindAt(display, monitors.bound) = "manager"
      /\ \A n \in monitors.plugged : Present(display.incoming, n)
  BY <1>1, <1>2 DEF OMInv, BoundOK
<1>4. monitors.bound >= 4 /\ monitors.bound < display.nextID /\ monitors.bound \in Nat
  BY <1>1, NextID DEF OMInv, IdsOK
<1>5. ~ Ending
  BY <1>1, <1>2 DEF OMInv, ControlOK, Ending
<1>6. KindAt(display, e.to) = KindOf(e.op) \/ e.op = "done"
  BY <1>5, RightOrEnding
<1>7. e[1] = e[1] /\ e = display.incoming[1]
  BY <1>1, TailIndices
<1>8. \A x : Adds(e, x) => KindAt(display', x) = KindAdded(e)
  BY <1>1, <1>6 DEF Handled, Adds
<1>. HIDE DEF e
<1>9. \A x \in Nat \ {0} : Turns(e, x)
  BY <1>1 DEF Handled
<1>10. KindAt(display', monitors.bound) = "manager"
  <2>1. ~ Drops(e, monitors.bound)
    <3>1. ASSUME Drops(e, monitors.bound) PROVE FALSE
      <4>1. \E n \in Outputs : monitors.bound = HeadID(n) \/ monitors.bound = ModeID(n)
        BY <1>1, <3>1, WhatDrops
      <4>. QED BY <1>4, <4>1, IdsGrow, ServerIDs DEF e
    <3>. QED BY <3>1
  <2>2. ~ Adds(e, monitors.bound)
    <3>1. ASSUME Adds(e, monitors.bound) PROVE FALSE
      <4>1. \E n \in Outputs : monitors.bound = HeadID(n) \/ monitors.bound = ModeID(n)
        BY <1>1, <3>1, WhatAdds
      <4>. QED BY <1>4, <4>1, IdsGrow, ServerIDs DEF e
    <3>. QED BY <3>1
  <2>3. /\ monitors.bound \in Nat \ {0} /\ ~ Disused(monitors.bound)
        /\ monitors.bound # display.nextID
    BY <1>3, <1>4 DEF Disused
  <2>. QED BY <1>3, <1>9, <2>1, <2>2, <2>3 DEF Turns
<1>11. ASSUME NEW id, Adding(display.incoming, id)
       PROVE  Adds(e, id) \/ Adding(display'.incoming, id)
  <2>1. PICK j \in DOMAIN display.incoming : Adds(display.incoming[j], id)
    BY <1>11 DEF Adding
  <2>2. CASE j = 1
    BY <1>7, <2>1, <2>2
  <2>3. CASE j # 1
    BY <2>1, <2>3, WhatWaits DEF Adding
  <2>. QED BY <2>2, <2>3
<1>12. ASSUME NEW n \in monitors.plugged PROVE Present(display.incoming, n)'
  <2>1. n \in Outputs
    BY <1>1 DEF OMInv, MonitorsOK
  <2>2. ~ Drops(e, HeadID(n)) /\ ~ Drops(e, ModeID(n))
    <3>. SUFFICES ASSUME NEW x, Drops(e, x), x = HeadID(n) \/ x = ModeID(n)
                  PROVE  FALSE
      OBVIOUS
    <3>1. \/ x \in 3..(display.nextID - 1)
          \/ \E m \in Outputs \ monitors.plugged : x = HeadID(m) \/ x = ModeID(m)
      BY <1>1, WhatDrops
    <3>2. x >= FirstServerID /\ display.nextID <= FirstServerID
      BY <2>1, IdsGrow, ServerIDs DEF e
    <3>3. x \notin 3..(display.nextID - 1)
      BY <3>2, IdsGrow, ServerIDs DEF e
    <3>. QED BY <1>12, <2>1, <3>1, <3>3, ServerIDs
  <2>3. /\ HeadID(n) \in Nat \ {0} /\ ~ Disused(HeadID(n))
        /\ ModeID(n) \in Nat \ {0} /\ ~ Disused(ModeID(n))
        /\ e.op = "global" => HeadID(n) # display.nextID /\ ModeID(n) # display.nextID
    BY <2>1, IdsGrow, ServerIDs DEF e, Disused
  <2>4. (Adds(e, HeadID(n)) => e.op = "head") /\ (Adds(e, ModeID(n)) => e.op = "mode")
    BY <1>1, <2>1, WhatAdds, ServerIDs
  <2>5. KindAt(display', HeadID(n)) = "head" \/ Adding(display'.incoming, HeadID(n))
    <3>1. CASE KindAt(display, HeadID(n)) = "head"
      BY <1>9, <2>2, <2>3, <2>4, <3>1 DEF Turns, KindAdded
    <3>2. CASE Adding(display.incoming, HeadID(n))
      BY <1>8, <1>11, <2>4, <3>2 DEF KindAdded
    <3>. QED BY <1>3, <3>1, <3>2 DEF Present
  <2>6. KindAt(display', ModeID(n)) = "mode" \/ Adding(display'.incoming, ModeID(n))
    <3>1. CASE KindAt(display, ModeID(n)) = "mode"
      BY <1>9, <2>2, <2>3, <2>4, <3>1 DEF Turns, KindAdded
    <3>2. CASE Adding(display.incoming, ModeID(n))
      BY <1>8, <1>11, <2>4, <3>2 DEF KindAdded
    <3>. QED BY <1>3, <3>1, <3>2 DEF Present
  <2>. QED BY <2>5, <2>6 DEF Present
<1>. QED BY <1>10, <1>12

LEMMA ReadingIds ==
  ASSUME Reading
  PROVE  IdsOK'
<1>. DEFINE e == NextEvent
<1>1. OMInv /\ IdsOK /\ ControlOK /\ ShapesOK
  BY DEF Reading, OMInv
<1>2. /\ UNCHANGED <<pc, pump, monitors>> /\ rt'.id = rt.id
      /\ rt'.phase = rt.phase \/ (rt.phase = "read" /\ rt'.phase = "check")
      /\ pump # "off" \/ rt.phase = "read"
  BY DEF Reading
<1>3. e \in Event /\ EventOK(e) /\ ManagerStep(e) /\ Answered(e)
  BY ReadingMeans
<1>4. om'.manager = om.manager \/ (om'.manager = 0 /\ e.op = "manager_finished")
  BY <1>3 DEF ManagerStep
<1>5. om'.manager = 0 => monitors.bound = 0
  <2>1. e.op = "manager_finished" => monitors.bound = 0
    BY <1>3 DEF EventOK, ManagerEventOK
  <2>2. om.manager = 0 => monitors.bound = 0
    BY <1>1 DEF IdsOK
  <2>. QED BY <1>4, <2>1, <2>2
<1>6. \/ display'.nextID = display.nextID /\ (Seen' = Seen \/ Seen' = Seen + 1)
      \/ display'.nextID = display.nextID + 1 /\ Seen' = Seen + 1
  BY IdsGrow, NamesGrow
<1>7. /\ Seen \in Nat /\ Seen' \in Nat /\ Seen' + 6 <= FirstServerID
      /\ (DOMAIN display.globals = 1..Seen)'
  BY NamesGrow
<1>8. /\ display.nextID \in Nat /\ display'.nextID \in Nat /\ rt.id \in Nat /\ om.manager \in Nat
      /\ display'.nextID >= display.nextID
  BY <1>1, <1>6, NextID
<1>9. display'.nextID >= 3 /\ display'.nextID <= 6 + Seen'
  BY <1>1, <1>6, <1>7, <1>8 DEF IdsOK
<1>10. pump' = "off" /\ pc' \in {"globals", "abandoned", "bind"} => display'.nextID <= 4 + Seen'
  BY <1>1, <1>2, <1>6, <1>7, <1>8 DEF IdsOK
<1>11. rt'.phase = "allocate" => display'.nextID <= 5 + Seen'
  BY <1>1, <1>2, <1>6, <1>7, <1>8 DEF IdsOK
<1>12. pump' = "off" => rt'.phase \notin {"allocate", "request"}
  BY <1>2
<1>13. pump' # "off" => display'.nextID >= 5
  BY <1>1, <1>2, <1>8 DEF IdsOK
<1>14. rt'.phase \notin {"idle", "allocate"} => Allocated(rt.id)'
  BY <1>1, <1>2, <1>8 DEF IdsOK, Allocated
<1>15. pump' # "off" /\ rt'.phase \notin {"idle", "allocate"} => rt'.id >= 5
  BY <1>1, <1>2 DEF IdsOK
<1>16. rt'.phase \in {"idle", "allocate"} => rt'.id = 0
  BY <1>1, <1>2 DEF IdsOK
<1>17. om'.manager # 0 => om'.manager \in 4..(display'.nextID - 1) /\ rt'.id # om'.manager
  BY <1>1, <1>2, <1>4, <1>8 DEF IdsOK
<1>19. pc' = "bind" => display'.nextID >= 4
  BY <1>1, <1>2, <1>8 DEF IdsOK
<1>18. monitors'.bound # 0 => monitors'.bound = om'.manager
  BY <1>1, <1>2, <1>4, <1>5 DEF IdsOK
<1>. HIDE DEF e
<1>. QED BY <1>2, <1>7, <1>9, <1>10, <1>11, <1>12, <1>13, <1>15, <1>16, <1>14, <1>17, <1>18, <1>19
     DEF IdsOK

LEMMA ReadingControl ==
  ASSUME Reading
  PROVE  ControlOK' /\ MonitorsOK' /\ ShapesOK'
<1>. DEFINE e == NextEvent
<1>1. OMInv /\ IdsOK /\ ControlOK /\ ShapesOK /\ MonitorsOK
  BY DEF Reading, OMInv
<1>2. /\ UNCHANGED <<pc, pump, monitors>> /\ rt'.id = rt.id
      /\ rt'.phase = rt.phase \/ (rt.phase = "read" /\ rt'.phase = "check")
      /\ rt' = [phase |-> rt'.phase, id |-> rt'.id, done |-> rt'.done, count |-> rt'.count]
  BY DEF Reading
<1>3. e \in Event /\ EventOK(e) /\ Handled(e) /\ Answered(e) /\ ManagerStep(e)
  BY ReadingMeans
<1>4. /\ om'.manager = om.manager \/ om'.manager = 0
      /\ \A id \in DOMAIN om'.heads : HeadShaped(om'.heads[id]) /\
           (id \in DOMAIN om.heads \/ (e.op = "head" /\ id = e.arg))
      /\ om.hasSerial => om'.hasSerial
      /\ om'.signal => om'.hasSerial
      /\ e.op # "manager_done" => (om'.hasSerial => om.hasSerial)
      /\ om' = [heads |-> om'.heads, hasSerial |-> om'.hasSerial, serial |-> om'.serial,
                signal |-> om'.signal, manager |-> om'.manager]
  BY <1>3 DEF ManagerStep, HeadsStep
<1>5. e.op = "head" => \E n \in monitors.used : e.arg = HeadID(n)
  BY <1>3 DEF EventOK, ManagerEventOK
<1>6. om.manager = 0 => e.op \notin {"head", "manager_done"}
  BY <1>3 DEF EventOK, ManagerEventOK
<1>7. /\ display'.open = display.open /\ display'.accepted = display.accepted
      /\ Shaped(display') /\ display.gone => display'.gone
  BY <1>3 DEF Handled, Answered, SeatReply
<1>8. /\ display'.open = display.open /\ display'.accepted = display.accepted
      /\ Shaped(display')
  BY <1>3 DEF Handled
<1>. HIDE DEF e
<1>9. ControlOK'
  <2>1. pump' = "off" => om'.manager = 0 /\ DOMAIN om'.heads = {} /\ ~ om'.hasSerial
    BY <1>1, <1>2, <1>4, <1>6 DEF ControlOK
  <2>2. /\ rt'.phase \in {"idle", "allocate", "request", "store", "read", "check"}
        /\ pump' = "off" => /\ monitors'.bound = 0
                            /\ pc' \in {"start", "globals", "abandoned", "bind", "failed"}
        /\ pump' # "off" => pc' \in {"outputs", "wait", "returned", "reading", "stop", "destroy",
                                     "disconnect", "closed"}
    BY <1>1, <1>2 DEF ControlOK
  <2>3. /\ rt'.phase # "idle" => pc' \in {"globals", "abandoned", "outputs"}
        /\ pc' \in {"globals", "abandoned"} => rt'.phase # "idle"
        /\ pc' = "start" => rt'.phase = "idle"
    BY <1>1, <1>2 DEF ControlOK
  <2>4. /\ pc' \notin {"start", "failed", "closed"} => display'.open /\ display'.accepted
        /\ pc' \in {"destroy", "disconnect", "closed"} => monitors'.bound = 0 \/ display'.gone
    BY <1>1, <1>2, <1>7, <1>8 DEF ControlOK
  <2>5. (om'.signal => om'.hasSerial) /\ (pc' \in {"returned", "reading"} => om'.hasSerial)
    BY <1>1, <1>2, <1>4 DEF ControlOK
  <2>6. pc' = "closed" => ~ display'.open
    BY <1>1, <1>2, <1>8 DEF ControlOK
  <2>. QED BY <2>1, <2>2, <2>3, <2>4, <2>5, <2>6 DEF ControlOK
<1>10. MonitorsOK'
  BY <1>1, <1>2, <1>4, <1>5 DEF MonitorsOK
<1>11. ShapesOK'
  <2>1. display'.incoming \in Seq(Event) /\ display'.nextID \in Nat
    BY IdsGrow, ReadingQueue
  <2>2. om'.manager \in Nat /\ rt'.id \in Nat /\ monitors'.serial \in Nat /\ monitors'.bound \in Nat
    BY <1>1, <1>2, <1>4 DEF ShapesOK
  <2>3. monitors' = [plugged |-> monitors'.plugged, used |-> monitors'.used,
                     bound |-> monitors'.bound, serial |-> monitors'.serial]
    BY <1>1, <1>2 DEF ShapesOK
  <2>4. \A id \in DOMAIN om'.heads :
          om'.heads[id] = [known |-> om'.heads[id].known, modes |-> om'.heads[id].modes,
                           mode |-> om'.heads[id].mode]
    BY <1>4 DEF HeadShaped
  <2>. QED BY <1>2, <1>4, <1>8, <2>1, <2>2, <2>3, <2>4 DEF ShapesOK
<1>. QED BY <1>9, <1>10, <1>11

LEMMA ReadingInitial ==
  ASSUME Reading
  PROVE  InitialOK'
<1>. DEFINE e == NextEvent
            q == display.incoming
            r == display'.incoming
<1>1. /\ e \in Event /\ EventOK(e) /\ Answered(e) /\ ManagerStep(e) /\ OMInv
      /\ q \in Seq(Event) /\ q # <<>> /\ e = Head(q)
  BY ReadingMeans DEF Reading
<1>2. e = q[1] /\ 1 \in DOMAIN q
  BY <1>1, TailIndices
<1>3. UNCHANGED <<pc, pump, monitors>>
  BY DEF Reading
<1>4. /\ e.op = "head" /\ KindAt(display, e.to) = "manager" => e.arg \in DOMAIN om'.heads
      /\ e.op = "properties" /\ KindAt(display, e.to) = "head" /\ e.to \in DOMAIN om.heads =>
           e.to \in DOMAIN om'.heads /\ om'.heads[e.to].known
  BY EveryEventManaged DEF Reading
<1>5. display.gone => display'.gone
  BY <1>1 DEF Answered, SeatReply
<1>6. \A j \in DOMAIN q : j # 1 => j - 1 \in DOMAIN r /\ r[j - 1] = q[j]
  BY WhatWaits
<1>7. \A i \in DOMAIN r : (i + 1 \in DOMAIN q /\ r[i] = q[i + 1])
                          \/ r[i].op \in {"capabilities", "error"}
  BY WhatWaits
<1>8. (\A j \in DOMAIN q : j \in Nat /\ j >= 1) /\ (\A j \in DOMAIN r : j \in Nat /\ j >= 1)
  BY WhatWaits
<1>9. e.op # "manager_done" => (om'.hasSerial => om.hasSerial)
  BY <1>1 DEF ManagerStep
<1>10. DOMAIN q = 1..Len(q) /\ Len(q) \in Nat
  BY <1>1
<1>11. r = display.incoming'
  OBVIOUS
<1>. HIDE DEF e
<1>. SUFFICES ASSUME pump # "off", ~ Ending, NEW n \in Plugged \cap monitors.plugged
              PROVE  \/ Known(n)'
                     \/ ~ om'.hasSerial /\ InTime(display.incoming, n)'
                     \/ ~ om'.hasSerial /\ display'.gone /\ NoneDone(display.incoming)'
  BY <1>3 DEF InitialOK, Ending
<1>. DEFINE h == HeadID(n)
<1>12. \/ Known(n)
       \/ ~ om.hasSerial /\ InTime(q, n)
       \/ ~ om.hasSerial /\ display.gone /\ NoneDone(q)
  BY <1>1 DEF OMInv, InitialOK
<1>13. KindAt(display, e.to) = KindOf(e.op) \/ e.op = "done"
  BY RightOrEnding DEF e
<1>14. n \in Outputs /\ monitors.used \subseteq Outputs
  BY <1>1 DEF OMInv, MonitorsOK
<1>15. h \in DOMAIN om.heads =>
         h \in DOMAIN om'.heads /\ (om.heads[h].known => om'.heads[h].known)
  <2>. SUFFICES ASSUME h \in DOMAIN om.heads
                PROVE  h \in DOMAIN om'.heads /\ (om.heads[h].known => om'.heads[h].known)
    OBVIOUS
  <2>1. ~ (e.op = "head" /\ h = e.arg)
    BY <1>1 DEF EventOK, ManagerEventOK
  <2>2. ~ (e.op = "head_finished" /\ h = e.to)
    <3>1. e.op = "head_finished" => \E m \in monitors.used \ monitors.plugged : e.to = HeadID(m)
      BY <1>1 DEF EventOK, OutputEventOK
    <3>. QED BY <1>14, <3>1, ServerIDs
  <2>. QED BY <1>1, <2>1, <2>2 DEF ManagerStep, HeadsStep
<1>16. CASE Known(n)
  BY <1>15, <1>16 DEF Known
<1>17. CASE ~ om.hasSerial /\ InTime(q, n)
  <2>1. PICK j \in DOMAIN q :
          /\ q[j].op = "properties" /\ q[j].to = h
          /\ \A i \in 1..(j - 1) : q[i].op # "manager_done"
          /\ \/ h \in DOMAIN om.heads
             \/ \E k \in 1..(j - 1) : q[k].op = "head" /\ q[k].arg = h
    BY <1>17 DEF InTime
  <2>2. CASE j = 1
    <3>1. h \in DOMAIN om.heads /\ e.op = "properties" /\ e.to = h
      BY <1>2, <2>1, <2>2
    <3>2. KindAt(display, e.to) = "head"
      BY <1>13, <3>1 DEF KindOf
    <3>. QED BY <1>4, <3>1, <3>2 DEF Known
  <2>3. CASE j # 1
    <3>1. j - 1 \in DOMAIN r /\ r[j - 1] = q[j] /\ j \in Nat /\ j >= 2
      BY <1>6, <1>8, <2>3
    <3>2. e.op # "manager_done"
      BY <1>2, <2>1, <3>1
    <3>3. ~ om'.hasSerial
      BY <1>9, <1>17, <3>2
    <3>4. ASSUME NEW i \in 1..((j - 1) - 1) PROVE r[i].op # "manager_done"
      <4>1. i + 1 \in 1..(j - 1) /\ i + 1 \in DOMAIN q /\ i + 1 # 1 /\ (i + 1) - 1 = i
        BY <1>10, <3>1
      <4>. QED BY <1>6, <2>1, <4>1
    <3>5. \/ h \in DOMAIN om'.heads
          \/ \E k \in 1..((j - 1) - 1) : r[k].op = "head" /\ r[k].arg = h
      <4>1. CASE h \in DOMAIN om.heads
        BY <1>15, <4>1
      <4>2. CASE \E k \in 1..(j - 1) : q[k].op = "head" /\ q[k].arg = h
        <5>1. PICK k \in 1..(j - 1) : q[k].op = "head" /\ q[k].arg = h
          BY <4>2
        <5>2. CASE k = 1
          <6>1. e.op = "head" /\ e.arg = h
            BY <1>2, <5>1, <5>2
          <6>. QED BY <1>4, <1>13, <6>1 DEF KindOf
        <5>3. CASE k # 1
          <6>1. k \in DOMAIN q /\ k - 1 \in 1..((j - 1) - 1)
            BY <1>10, <3>1, <5>3
          <6>2. r[k - 1] = q[k]
            BY <1>6, <5>3, <6>1
          <6>. QED BY <5>1, <6>1, <6>2
        <5>. QED BY <5>2, <5>3
      <4>. QED BY <2>1, <4>1, <4>2
    <3>6. r[j - 1].op = "properties" /\ r[j - 1].to = h
      BY <2>1, <3>1
    <3>. HIDE DEF h
    <3>7. \E m \in DOMAIN r :
            /\ r[m].op = "properties" /\ r[m].to = h
            /\ \A i \in 1..(m - 1) : r[i].op # "manager_done"
            /\ \/ h \in DOMAIN om'.heads
               \/ \E k \in 1..(m - 1) : r[k].op = "head" /\ r[k].arg = h
      BY <3>1, <3>4, <3>5, <3>6
    <3>8. InTime(display.incoming, n)'
      BY <3>7 DEF InTime, h
    <3>. QED BY <3>3, <3>8
  <2>. QED BY <2>2, <2>3
<1>18. CASE ~ om.hasSerial /\ display.gone /\ NoneDone(q)
  <2>1. e.op # "manager_done"
    BY <1>2, <1>18 DEF NoneDone
  <2>2. NoneDone(r)
    BY <1>7, <1>18 DEF NoneDone
  <2>3. NoneDone(display.incoming)'
    BY <2>2
  <2>. QED BY <1>5, <1>9, <1>18, <2>1, <2>3
<1>. QED BY <1>12, <1>16, <1>17, <1>18

LEMMA ReadingKeeps ==
  ASSUME Reading
  PROVE  OMInv'
BY ReadingQueue, ReadingObjects, ReadingBound, ReadingIds, ReadingControl, ReadingInitial
DEF OMInv

LEMMA RoundtripDispatchesKeeps ==
  ASSUME OMInv, RoundtripDispatches, guess' = "right"
  PROVE  OMInv'
<1>. DEFINE dn == rt.done \/ CallbackFires
<1>1. rt = [phase |-> rt.phase, id |-> rt.id, done |-> rt.done, count |-> rt.count]
  BY DEF OMInv, ShapesOK
<1>2. rt' = [rt EXCEPT !.phase = "check", !.done = dn, !.count = rt.count + 1]
  BY DEF RoundtripDispatches
<1>. HIDE DEF dn
<1>3. rt' = [phase |-> "check", id |-> rt.id, done |-> dn, count |-> rt.count + 1]
  BY <1>1, <1>2
<1>4. /\ Readable /\ ~ Misplaced(NextEvent)
      /\ \E word \in Capabilities : display' = DisplayAfter(NextEvent, word)
      /\ om' = ManagerAfter(NextEvent)
      /\ UNCHANGED <<pc, pump, monitors>> /\ rt.phase = "read"
  BY DEF RoundtripDispatches, Dispatch
<1>5. /\ rt' = [phase |-> rt'.phase, id |-> rt'.id, done |-> rt'.done, count |-> rt'.count]
      /\ rt'.id = rt.id /\ rt'.phase = "check"
  BY <1>3
<1>6. Reading
  BY <1>4, <1>5 DEF Reading
<1>. QED BY <1>6, ReadingKeeps

LEMMA PumpDispatchesKeeps ==
  ASSUME OMInv, PumpDispatches, guess' = "right"
  PROVE  OMInv'
<1>. DEFINE dn == rt.done \/ CallbackFires
<1>1. rt = [phase |-> rt.phase, id |-> rt.id, done |-> rt.done, count |-> rt.count]
  BY DEF OMInv, ShapesOK
<1>2. rt' = [rt EXCEPT !.done = dn]
  BY DEF PumpDispatches
<1>. HIDE DEF dn
<1>3. rt' = [phase |-> rt.phase, id |-> rt.id, done |-> dn, count |-> rt.count]
  BY <1>1, <1>2
<1>4. /\ Readable /\ ~ Misplaced(NextEvent)
      /\ \E word \in Capabilities : display' = DisplayAfter(NextEvent, word)
      /\ om' = ManagerAfter(NextEvent)
      /\ UNCHANGED <<pc, pump, monitors>> /\ pump # "off"
  BY DEF PumpDispatches, Dispatch
<1>5. /\ rt' = [phase |-> rt'.phase, id |-> rt'.id, done |-> rt'.done, count |-> rt'.count]
      /\ rt'.id = rt.id /\ rt'.phase = rt.phase
  BY <1>3
<1>6. Reading
  BY <1>4, <1>5 DEF Reading
<1>. QED BY <1>6, ReadingKeeps

-----------------------------------------------------------------------------
(* Steps that leave the connection alone.                                  *)

LEMMA QuietKeeps ==
  ASSUME OMInv, UNCHANGED <<display, monitors>>,
         om' = [heads |-> om.heads, hasSerial |-> om.hasSerial, serial |-> om.serial,
                signal |-> om'.signal, manager |-> om.manager],
         rt' = [phase |-> rt'.phase, id |-> rt'.id, done |-> rt'.done, count |-> rt'.count],
         rt'.phase \in {"request", "store"} => rt'.phase = rt.phase /\ rt'.id = rt.id,
         rt.phase = "store" => rt'.phase = "store" /\ rt'.id = rt.id,
         Ending => Ending', (pump = "off") = (pump' = "off"), IdsOK', ControlOK'
  PROVE  OMInv'
<1>1. /\ om'.manager = om.manager /\ om'.heads = om.heads /\ om'.hasSerial = om.hasSerial
      /\ om' = [heads |-> om'.heads, hasSerial |-> om'.hasSerial, serial |-> om'.serial,
                signal |-> om'.signal, manager |-> om'.manager]
  OBVIOUS
<1>2. display.incoming \in Seq(Event) /\ QueueOK(display.incoming)
  BY DEF OMInv, ShapesOK
<1>3. Seen' = Seen
  BY DEF Seen
<1>4. ASSUME NEW e \in Event, EventOK(e) PROVE EventOK(e)' /\ (Found(e) => Found(e)')
  <2>1. \A id : (Allocated(id) => Allocated(id)') /\ (Reserved(id)' => Reserved(id))
    BY DEF Allocated, Reserved
  <2>2. ClientEventOK(e)'
    BY <1>1, <1>4, <2>1 DEF EventOK, ClientEventOK
  <2>3. ManagerEventOK(e)'
    BY <1>1, <1>4 DEF EventOK, ManagerEventOK
  <2>4. OutputEventOK(e)'
    BY <1>4 DEF EventOK, OutputEventOK
  <2>5. Found(e) => Found(e)'
    BY DEF Found, MayMiss
  <2>. QED BY <2>2, <2>3, <2>4, <2>5 DEF EventOK
<1>. PICK q \in Seq(Event) : q = display.incoming
  BY <1>2
<1>5. QueueOK(q)'
  BY <1>2, <1>3, <1>4, QueueKeeps
<1>6. QueueOK(display.incoming)'
  BY <1>5
<1>7. ObjectsOK'
  BY DEF OMInv, ObjectsOK
<1>8. BoundOK'
  BY DEF OMInv, BoundOK, Present
<1>9. MonitorsOK'
  BY <1>1 DEF OMInv, MonitorsOK
<1>10. InitialOK'
  BY <1>1 DEF OMInv, InitialOK, Known, InTime
<1>11. ShapesOK'
  <2>1. om'.manager \in Nat
    BY <1>1 DEF OMInv, ShapesOK
  <2>2. rt'.id \in Nat
    BY DEF OMInv, ShapesOK, IdsOK, Allocated
  <2>3. /\ Shaped(display') /\ display'.incoming \in Seq(Event) /\ display'.nextID \in Nat
        /\ monitors'.serial \in Nat /\ monitors'.bound \in Nat
        /\ monitors' = [plugged |-> monitors'.plugged, used |-> monitors'.used,
                        bound |-> monitors'.bound, serial |-> monitors'.serial]
    BY DEF OMInv, ShapesOK
  <2>4. \A id \in DOMAIN om'.heads :
          om'.heads[id] = [known |-> om'.heads[id].known, modes |-> om'.heads[id].modes,
                           mode |-> om'.heads[id].mode]
    BY <1>1 DEF OMInv, ShapesOK
  <2>. QED BY <1>1, <2>1, <2>2, <2>3, <2>4 DEF ShapesOK
<1>. QED BY <1>6, <1>7, <1>8, <1>9, <1>10, <1>11 DEF OMInv

LEMMA SameOm ==
  ASSUME OMInv, om' = om
  PROVE  om' = [heads |-> om.heads, hasSerial |-> om.hasSerial, serial |-> om.serial,
                signal |-> om'.signal, manager |-> om.manager]
BY DEF OMInv, ShapesOK

LEMMA SameRt ==
  ASSUME OMInv, rt' = rt
  PROVE  rt' = [phase |-> rt'.phase, id |-> rt'.id, done |-> rt'.done, count |-> rt'.count]
BY DEF OMInv, ShapesOK

\* A roundtrip that ends, well or not.
LEMMA RoundtripEndKeeps ==
  ASSUME OMInv, NEW ok, RoundtripEnds(ok), rt.phase \in {"request", "read", "check"},
         UNCHANGED <<display, pump, om, monitors>>
  PROVE  OMInv'
<1>1. OMInv /\ IdsOK /\ ControlOK /\ Seen' = Seen
  BY DEF OMInv, Seen
<1>2. rt' = [phase |-> "idle", id |-> 0, done |-> FALSE, count |-> 0]
  BY DEF RoundtripEnds, Idle
<1>3. /\ rt'.phase = "idle" /\ rt'.id = 0
      /\ rt' = [phase |-> rt'.phase, id |-> rt'.id, done |-> rt'.done, count |-> rt'.count]
  BY <1>2
<1>4. pc \in {"globals", "abandoned", "outputs"}
  BY <1>1 DEF ControlOK
<1>5. pc' \in {"bind", "failed", "wait"} /\ (pc' = "bind" => pc = "globals")
      /\ (pc' = "wait" <=> pc = "outputs")
  BY <1>4 DEF RoundtripEnds, AfterRoundtrip
<1>6. IdsOK'
  <2>1. rt.id \in 3..(display.nextID - 1) /\ display.nextID \in Nat
    BY <1>1, NextID DEF IdsOK, Allocated
  <2>2. display.nextID >= 4
    BY <2>1
  <2>. QED BY <1>1, <1>3, <1>5, <2>2 DEF IdsOK
<1>7. ControlOK'
  BY <1>1, <1>3, <1>4, <1>5 DEF ControlOK
<1>8. ~ Ending
  BY <1>4 DEF Ending
<1>. QED BY <1>1, <1>3, <1>6, <1>7, <1>8, SameOm, QuietKeeps

LEMMA RoundtripReadFailsKeeps ==
  ASSUME OMInv, RoundtripReadFails
  PROVE  OMInv'
BY RoundtripEndKeeps DEF RoundtripReadFails

LEMMA RoundtripChecksKeeps ==
  ASSUME OMInv, RoundtripChecks
  PROVE  OMInv'
<1>1. CASE LastRound
  BY <1>1, RoundtripEndKeeps DEF RoundtripChecks
<1>2. CASE ~ LastRound
  <2>1. /\ rt' = [rt EXCEPT !.phase = "read"] /\ rt.phase = "check"
        /\ UNCHANGED <<pc, display, pump, om, monitors>>
    BY <1>2 DEF RoundtripChecks
  <2>2. OMInv /\ IdsOK /\ ControlOK /\ Seen' = Seen
    BY <2>1 DEF OMInv, Seen
  <2>3. rt' = [phase |-> "read", id |-> rt.id, done |-> rt.done, count |-> rt.count]
    BY <2>1 DEF OMInv, ShapesOK
  <2>4. /\ rt'.phase = "read" /\ rt'.id = rt.id
        /\ rt' = [phase |-> rt'.phase, id |-> rt'.id, done |-> rt'.done, count |-> rt'.count]
    BY <2>3
  <2>5. IdsOK'
    BY <2>1, <2>2, <2>4 DEF IdsOK, Allocated
  <2>6. ControlOK'
    BY <2>1, <2>2, <2>4 DEF ControlOK
  <2>. QED BY <2>1, <2>2, <2>4, <2>5, <2>6, SameOm, QuietKeeps DEF Ending
<1>. QED BY <1>1, <1>2

\* A step of the caller alone.
LEMMA CallerKeeps ==
  ASSUME OMInv, UNCHANGED <<display, rt, pump, monitors>>,
         om' = [heads |-> om.heads, hasSerial |-> om.hasSerial, serial |-> om.serial,
                signal |-> om'.signal, manager |-> om.manager],
         om'.signal => om.signal,
         \/ pc = "start" /\ pc' = "failed"
         \/ pc = "globals" /\ pc' = "abandoned"
         \/ pc = "wait" /\ pc' = "returned" /\ om.signal
         \/ pc \in {"wait", "returned"} /\ pc' = "stop"
         \/ pc \in {"returned", "reading"} /\ pc' \in {"returned", "reading"}
  PROVE  OMInv'
<1>1. OMInv /\ IdsOK /\ ControlOK /\ Seen' = Seen
  BY DEF OMInv, Seen
<1>2. om'.manager = om.manager /\ om'.heads = om.heads /\ om'.hasSerial = om.hasSerial
  OBVIOUS
<1>3. IdsOK'
  BY <1>1, <1>2 DEF IdsOK, Allocated
<1>4. ControlOK'
  BY <1>1, <1>2 DEF ControlOK
<1>5. Ending => Ending'
  BY DEF Ending
<1>. QED BY <1>1, <1>3, <1>4, <1>5, SameRt, QuietKeeps

LEMMA NewClientFailsKeeps ==
  ASSUME OMInv, NewClientFails
  PROVE  OMInv'
BY CallerKeeps, SameOm DEF NewClientFails

LEMMA CancelledKeeps ==
  ASSUME OMInv, Cancelled
  PROVE  OMInv'
BY CallerKeeps, SameOm DEF Cancelled

LEMMA InitialConfigurationKeeps ==
  ASSUME OMInv, InitialConfiguration
  PROVE  OMInv'
<1>. DEFINE f == FALSE
<1>1. om' = [om EXCEPT !.signal = f] /\ pc = "wait" /\ pc' = "returned" /\ om.signal
  BY DEF InitialConfiguration
<1>. HIDE DEF f
<1>2. om' = [heads |-> om.heads, hasSerial |-> om.hasSerial, serial |-> om.serial,
             signal |-> f, manager |-> om.manager]
  BY <1>1 DEF OMInv, ShapesOK
<1>3. om'.signal => om.signal
  BY <1>1
<1>4. om' = [heads |-> om.heads, hasSerial |-> om.hasSerial, serial |-> om.serial,
             signal |-> om'.signal, manager |-> om.manager]
  BY <1>2
<1>. QED BY <1>1, <1>3, <1>4, CallerKeeps DEF InitialConfiguration

LEMMA InitialTimeoutKeeps ==
  ASSUME OMInv, InitialTimeout
  PROVE  OMInv'
BY CallerKeeps, SameOm DEF InitialTimeout

LEMMA GetHeadsKeeps ==
  ASSUME OMInv, GetHeads
  PROVE  OMInv'
BY CallerKeeps, SameOm DEF GetHeads

LEMMA CloseCalledKeeps ==
  ASSUME OMInv, CloseCalled
  PROVE  OMInv'
BY CallerKeeps, SameOm DEF CloseCalled

LEMMA PumpEndsKeeps ==
  ASSUME OMInv, PumpEnds
  PROVE  OMInv'
<1>1. /\ pump = "on" /\ pump' = "exited" /\ Seen' = Seen
      /\ UNCHANGED <<display, pc, rt, om, monitors>>
  BY DEF PumpEnds, Seen
<1>2. IdsOK /\ ControlOK
  BY DEF OMInv
<1>3. IdsOK'
  BY <1>1, <1>2 DEF IdsOK, Allocated
<1>4. ControlOK'
  BY <1>1, <1>2 DEF ControlOK
<1>. QED BY <1>1, <1>3, <1>4, SameOm, SameRt, QuietKeeps DEF Ending

-----------------------------------------------------------------------------
(* Steps that change the connection and leave what waits as it is.         *)

LEMMA RoundtripAllocatesKeeps ==
  ASSUME OMInv, RoundtripAllocates
  PROVE  OMInv'
<1>. DEFINE id == display.nextID
            ls == display.listeners \cup {id}
            w == display.nextID + 1
            ph == "request"
<1>0. OMInv /\ ShapesOK /\ IdsOK /\ ControlOK /\ MonitorsOK /\ ObjectsOK /\ BoundOK
      /\ InitialOK /\ QueueOK(display.incoming) /\ Shaped(display)
  BY DEF OMInv, ShapesOK
<1>1. /\ rt.phase = "allocate" /\ UNCHANGED <<pc, pump, om, monitors>>
      /\ rt' = [rt EXCEPT !.phase = ph, !.id = id]
      /\ display' = [[display EXCEPT !.nextID = w] EXCEPT !.listeners = ls]
  BY DEF RoundtripAllocates, AllocateID
<1>2. rt' = [phase |-> ph, id |-> id, done |-> rt.done, count |-> rt.count]
  <2>1. rt = [phase |-> rt.phase, id |-> rt.id, done |-> rt.done, count |-> rt.count]
    BY <1>0 DEF ShapesOK
  <2>. HIDE DEF id, ph
  <2>. QED BY <1>1, <2>1
<1>3. display' = [open |-> display.open, accepted |-> display.accepted, nextID |-> w,
                  objects |-> display.objects, proxies |-> display.proxies, listeners |-> ls,
                  globals |-> display.globals, incoming |-> display.incoming,
                  gone |-> display.gone, expected |-> display.expected, live |-> display.live]
  <2>. DEFINE d == [display EXCEPT !.nextID = w]
  <2>. HIDE DEF w, ls
  <2>1. d = [open |-> display.open, accepted |-> display.accepted, nextID |-> w,
             objects |-> display.objects, proxies |-> display.proxies,
             listeners |-> display.listeners,
             globals |-> display.globals, incoming |-> display.incoming,
             gone |-> display.gone, expected |-> display.expected, live |-> display.live]
    BY <1>0 DEF Shaped
  <2>. HIDE DEF d
  <2>2. display' = [d EXCEPT !.listeners = ls]
    BY <1>1 DEF d
  <2>. QED BY <2>1, <2>2
<1>4. /\ Shaped(display') /\ display'.nextID = w /\ display'.incoming = display.incoming
      /\ display'.globals = display.globals /\ display'.gone = display.gone
      /\ display'.open = display.open /\ display'.accepted = display.accepted
      /\ \A i : KindAt(display', i) = KindAt(display, i)
  <2>. HIDE DEF w, ls
  <2>1. \A i : KindAt(display', i) = KindAt(display, i)
    BY <1>3 DEF KindAt
  <2>2. Shaped(display')
    BY <1>3 DEF Shaped
  <2>. QED BY <1>3, <2>1, <2>2
<1>5. /\ rt'.phase = "request" /\ rt'.id = id /\ Seen' = Seen
      /\ rt' = [phase |-> rt'.phase, id |-> rt'.id, done |-> rt'.done, count |-> rt'.count]
  BY <1>2, <1>4 DEF Seen
<1>6. /\ id \in Nat /\ id >= 3 /\ id <= 5 + Seen /\ Seen \in Nat /\ Seen + 6 <= FirstServerID
      /\ w = id + 1 /\ FirstServerID \in Nat
  BY <1>0, <1>1, NextID, ServerIDs DEF IdsOK
<1>. HIDE DEF id, ls, w, ph
<1>7. ASSUME NEW e \in Event, EventOK(e) PROVE EventOK(e)' /\ (Found(e) => Found(e)')
  <2>1. \A i : Allocated(i) => Allocated(i)' /\ ~ Reserved(i)'
    BY <1>4, <1>5, <1>6 DEF Allocated, Reserved, id
  <2>2. ClientEventOK(e)'
    BY <1>1, <1>7, <2>1 DEF EventOK, ClientEventOK
  <2>3. ManagerEventOK(e)'
    BY <1>1, <1>7 DEF EventOK, ManagerEventOK
  <2>4. OutputEventOK(e)'
    BY <1>1, <1>7 DEF EventOK, OutputEventOK
  <2>5. Found(e) => Found(e)'
    BY <1>1, <1>4 DEF Found, MayMiss, Ending
  <2>. QED BY <2>2, <2>3, <2>4, <2>5 DEF EventOK
<1>8. QueueOK(display.incoming)' /\ display'.incoming \in Seq(Event)
  <2>1. display.incoming \in Seq(Event)
    BY <1>0 DEF ShapesOK
  <2>. PICK q \in Seq(Event) : q = display.incoming
    BY <2>1
  <2>2. QueueOK(q)'
    BY <1>0, <1>5, <1>7, QueueKeeps
  <2>. QED BY <1>4, <2>2
<1>9. ObjectsOK'
  <2>1. KindAt(display, id) = "none"
    BY <1>0, <1>6 DEF ObjectsOK, id
  <2>2. \A i \in w..(FirstServerID - 1) : KindAt(display, i) = "none"
    BY <1>0, <1>6 DEF ObjectsOK, id
  <2>. QED BY <1>0, <1>4, <1>5, <2>1, <2>2 DEF ObjectsOK
<1>10. BoundOK'
  BY <1>0, <1>1, <1>4 DEF BoundOK, Present
<1>11. IdsOK'
  <2>1. Allocated(rt.id)'
    BY <1>4, <1>5, <1>6 DEF Allocated
  <2>2. pump = "off" => id = 3
    BY <1>0, <1>1 DEF IdsOK, id
  <2>3. pump # "off" => id >= 5
    BY <1>0, <1>1 DEF IdsOK, id
  <2>4. om.manager # 0 => om.manager \in 4..(id - 1) /\ id # om.manager
    BY <1>0, <1>6 DEF IdsOK, id
  <2>5. om'.manager # 0 => om'.manager \in 4..(w - 1) /\ rt'.id # om'.manager
    BY <1>1, <1>5, <1>6, <2>4
  <2>6. monitors'.bound # 0 => monitors'.bound = om'.manager
    BY <1>0, <1>1 DEF IdsOK
  <2>7. pump' = "off" => w = 4 /\ rt'.id = 3
    BY <1>1, <1>5, <1>6, <2>2
  <2>8. pump' # "off" => w >= 5 /\ rt'.id >= 5
    BY <1>1, <1>5, <1>6, <2>3
  <2>9. w >= 3 /\ w <= 6 + Seen' /\ w \in Nat
    BY <1>5, <1>6
  <2>10. pump' = "off" => w <= 4 + Seen'
    BY <1>5, <1>6, <2>7
  <2>11. pc' # "bind"
    BY <1>0, <1>1 DEF ControlOK
  <2>12. DOMAIN display'.globals = 1..Seen' /\ Seen' \in Nat /\ Seen' + 6 <= FirstServerID
    BY <1>0, <1>4, <1>5, <1>6 DEF IdsOK
  <2>. QED BY <1>4, <1>5, <2>1, <2>5, <2>6, <2>7, <2>8, <2>9, <2>10, <2>11, <2>12 DEF IdsOK
<1>12. ControlOK'
  BY <1>0, <1>1, <1>4, <1>5 DEF ControlOK
<1>13. MonitorsOK'
  BY <1>0, <1>1 DEF MonitorsOK
<1>14. InitialOK'
  BY <1>0, <1>1, <1>4 DEF InitialOK, Known, InTime, NoneDone, Ending
<1>15. ShapesOK'
  BY <1>0, <1>1, <1>4, <1>5, <1>6, <1>8 DEF ShapesOK
<1>. QED BY <1>8, <1>9, <1>10, <1>11, <1>12, <1>13, <1>14, <1>15 DEF OMInv

\* Steps after which an object, at most, is another one.
LEMMA ObjectsKeep ==
  ASSUME OMInv, Shaped(display'), display'.nextID = display.nextID,
         display'.incoming = display.incoming, display'.globals = display.globals,
         display.gone => display'.gone,
         UNCHANGED <<pump, om, monitors>>,
         rt' = [phase |-> rt'.phase, id |-> rt'.id, done |-> rt'.done, count |-> rt'.count],
         rt'.id = rt.id, rt'.phase = rt.phase \/ (rt.phase = "store" /\ rt'.phase = "read"),
         \A e \in Event : EventOK(e) /\ Found(e) => Found(e)',
         Ending => Ending', ObjectsOK', BoundOK', ControlOK',
         pc' \in {"globals", "abandoned", "bind"} => pc' = pc
  PROVE  OMInv'
<1>1. OMInv /\ ShapesOK /\ IdsOK /\ MonitorsOK /\ InitialOK /\ QueueOK(display.incoming)
  BY DEF OMInv
<1>2. Seen' = Seen
  BY DEF Seen
<1>3. ASSUME NEW e \in Event, EventOK(e) PROVE EventOK(e)' /\ (Found(e) => Found(e)')
  <2>1. \A i : (Allocated(i) => Allocated(i)') /\ (Reserved(i)' => Reserved(i))
    BY DEF Allocated, Reserved
  <2>2. ClientEventOK(e)'
    BY <1>3, <2>1 DEF EventOK, ClientEventOK
  <2>3. ManagerEventOK(e)'
    BY <1>3 DEF EventOK, ManagerEventOK
  <2>4. OutputEventOK(e)'
    BY <1>3 DEF EventOK, OutputEventOK
  <2>. QED BY <1>3, <2>2, <2>3, <2>4 DEF EventOK
<1>4. QueueOK(display.incoming)' /\ display'.incoming \in Seq(Event)
  <2>1. display.incoming \in Seq(Event)
    BY <1>1 DEF ShapesOK
  <2>. PICK q \in Seq(Event) : q = display.incoming
    BY <2>1
  <2>2. QueueOK(q)'
    BY <1>1, <1>2, <1>3, QueueKeeps
  <2>. QED BY <2>2
<1>5. IdsOK'
  BY <1>1, <1>2 DEF IdsOK, Allocated
<1>6. MonitorsOK'
  BY <1>1 DEF MonitorsOK
<1>7. InitialOK'
  <2>1. Ending => Ending'
    OBVIOUS
  <2>2. \A n : (Known(n) => Known(n)') /\ (InTime(display.incoming, n) => InTime(display.incoming, n)')
    BY DEF Known, InTime
  <2>3. NoneDone(display.incoming) => NoneDone(display.incoming)'
    BY DEF NoneDone
  <2>. QED BY <1>1, <2>1, <2>2, <2>3 DEF InitialOK
<1>8. ShapesOK'
  BY <1>1, <1>4 DEF ShapesOK
<1>. QED BY <1>4, <1>5, <1>6, <1>7, <1>8 DEF OMInv

LEMMA RoundtripStoresKeeps ==
  ASSUME OMInv, RoundtripStores
  PROVE  OMInv'
<1>. DEFINE id == rt.id
            k == "callback"
            r == Stored(display, id, k)
            ph == "read"
<1>0. OMInv /\ ShapesOK /\ IdsOK /\ ControlOK /\ MonitorsOK /\ ObjectsOK /\ BoundOK
      /\ Shaped(display)
  BY DEF OMInv, ShapesOK
<1>1. /\ rt.phase = "store" /\ UNCHANGED <<pc, pump, om, monitors>>
      /\ rt' = [rt EXCEPT !.phase = ph] /\ display' = r
  BY DEF RoundtripStores
<1>2. rt' = [phase |-> ph, id |-> rt.id, done |-> rt.done, count |-> rt.count]
  <2>1. rt = [phase |-> rt.phase, id |-> rt.id, done |-> rt.done, count |-> rt.count]
    BY <1>0 DEF ShapesOK
  <2>. HIDE DEF ph
  <2>. QED BY <1>1, <2>1
<1>3. /\ rt'.phase = "read" /\ rt'.id = rt.id
      /\ rt' = [phase |-> rt'.phase, id |-> rt'.id, done |-> rt'.done, count |-> rt'.count]
  BY <1>2
<1>4. /\ Shaped(r) /\ r.incoming = display.incoming /\ r.nextID = display.nextID
      /\ r.globals = display.globals /\ r.gone = display.gone /\ r.open = display.open
      /\ r.accepted = display.accepted
      /\ \A i : KindAt(r, i) = IF i = id THEN k ELSE KindAt(display, i)
  <2>. HIDE DEF id, k
  <2>. QED BY <1>0, ShapedStored
<1>. HIDE DEF r, ph, k
<1>5. /\ id \in 3..(display.nextID - 1) /\ KindAt(display, id) = "none" /\ id # om.manager
      /\ pc \in {"globals", "abandoned", "outputs"} /\ ~ Ending
  BY <1>0, <1>1 DEF IdsOK, Allocated, ObjectsOK, ControlOK, Ending
<1>6. ASSUME NEW e \in Event, EventOK(e), Found(e) PROVE Found(e)'
  <2>1. CASE e.to = id
    <3>1. \/ KindOf(e.op) = "none"
          \/ e.op = "done"
      BY <1>5, <1>6, <2>1 DEF Found, MayMiss
    <3>2. KindOf(e.op) # "none"
      BY DEF KindOf
    <3>3. KindAt(display', e.to) = "callback"
      BY <1>1, <1>4, <2>1 DEF k
    <3>4. KindOf("done") = "callback"
      BY DEF KindOf
    <3>. QED BY <3>1, <3>2, <3>3, <3>4 DEF Found
  <2>2. CASE e.to # id
    <3>1. KindAt(display, e.to) = KindOf(e.op)
      BY <1>5, <1>6, <2>2 DEF Found, MayMiss
    <3>2. KindAt(display', e.to) = KindAt(display, e.to)
      BY <1>1, <1>4, <2>2
    <3>. QED BY <3>1, <3>2 DEF Found
  <2>. QED BY <2>1, <2>2
<1>7. id # DisplayID /\ id # RegistryID /\ id < FirstServerID /\ id \in Nat
  BY <1>5, NextID, ServerIDs DEF DisplayID, RegistryID
<1>8. ObjectsOK'
  <2>1. \A n \in Outputs : id # HeadID(n) /\ id # ModeID(n)
    BY <1>7, ServerIDs
  <2>2. \A i \in display.nextID..(FirstServerID - 1) : i # id
    BY <1>5, NextID
  <2>. QED BY <1>0, <1>1, <1>3, <1>4, <1>7, <2>1, <2>2 DEF ObjectsOK
<1>9. BoundOK'
  <2>1. \A n \in monitors.plugged : id # HeadID(n) /\ id # ModeID(n)
    BY <1>0, <1>7, ServerIDs DEF MonitorsOK
  <2>2. monitors.bound # 0 => monitors.bound # id
    BY <1>0, <1>5 DEF IdsOK
  <2>. QED BY <1>0, <1>1, <1>4, <2>1, <2>2 DEF BoundOK, Present
<1>10. ControlOK'
  BY <1>0, <1>1, <1>3, <1>4, <1>5 DEF ControlOK
<1>. QED BY <1>0, <1>1, <1>3, <1>4, <1>5, <1>6, <1>8, <1>9, <1>10, ObjectsKeep DEF Ending

LEMMA ShapedClose ==
  ASSUME NEW d, Shaped(d)
  PROVE  LET r == CloseContext(d)
         IN /\ Shaped(r) /\ r.incoming = d.incoming /\ r.nextID = d.nextID
            /\ r.globals = d.globals /\ r.gone = d.gone /\ ~ r.open
            /\ \A i : KindAt(r, i) = KindAt(d, i)
<1>. DEFINE no == FALSE
            l == <<>>
            a == [d EXCEPT !.accepted = no]
            b == [a EXCEPT !.open = no]
            r == CloseContext(d)
<1>0. r = [b EXCEPT !.live = l]
  BY DEF CloseContext
<1>. HIDE DEF no, l, r
<1>1. a = [open |-> d.open, accepted |-> no, nextID |-> d.nextID, objects |-> d.objects,
           proxies |-> d.proxies, listeners |-> d.listeners, globals |-> d.globals,
           incoming |-> d.incoming, gone |-> d.gone, expected |-> d.expected, live |-> d.live]
  BY DEF Shaped
<1>. HIDE DEF a
<1>2. b = [open |-> no, accepted |-> no, nextID |-> d.nextID, objects |-> d.objects,
           proxies |-> d.proxies, listeners |-> d.listeners, globals |-> d.globals,
           incoming |-> d.incoming, gone |-> d.gone, expected |-> d.expected, live |-> d.live]
  BY <1>1
<1>. HIDE DEF b
<1>3. r = [open |-> no, accepted |-> no, nextID |-> d.nextID, objects |-> d.objects,
           proxies |-> d.proxies, listeners |-> d.listeners, globals |-> d.globals,
           incoming |-> d.incoming, gone |-> d.gone, expected |-> d.expected, live |-> l]
  BY <1>0, <1>2
<1>4. \A i : KindAt(r, i) = KindAt(d, i)
  BY <1>3 DEF KindAt
<1>5. Shaped(r)
  BY <1>3 DEF Shaped
<1>6. /\ r.incoming = d.incoming /\ r.nextID = d.nextID /\ r.globals = d.globals
      /\ r.gone = d.gone /\ r.open = no
  BY <1>3
<1>7. ~ r.open
  BY <1>6 DEF no
<1>. QED BY <1>4, <1>5, <1>6, <1>7 DEF r

\* The connection is closed; what is in the socket is not read again.
LEMMA DisconnectKeeps ==
  ASSUME OMInv, display' = CloseContext(display), UNCHANGED <<rt, pump, om, monitors>>,
         \/ pc = "bind" /\ pc' = "failed"
         \/ pc = "disconnect" /\ pc' = "closed"
  PROVE  OMInv'
<1>. DEFINE r == CloseContext(display)
<1>0. OMInv /\ ControlOK /\ ObjectsOK /\ BoundOK /\ Shaped(display)
  BY DEF OMInv, ShapesOK
<1>1. /\ Shaped(r) /\ r.incoming = display.incoming /\ r.nextID = display.nextID
      /\ r.globals = display.globals /\ r.gone = display.gone /\ ~ r.open
      /\ \A i : KindAt(r, i) = KindAt(display, i)
  BY <1>0, ShapedClose
<1>2. display' = r
  OBVIOUS
<1>. HIDE DEF r
<1>3. Ending => Ending'
  BY DEF Ending
<1>4. ASSUME NEW e \in Event, EventOK(e), Found(e) PROVE Found(e)'
  BY <1>1, <1>2, <1>3, <1>4 DEF Found, MayMiss
<1>5. ObjectsOK'
  BY <1>0, <1>1, <1>2 DEF ObjectsOK
<1>6. BoundOK'
  BY <1>0, <1>1, <1>2 DEF BoundOK, Present
<1>7. ControlOK'
  BY <1>0, <1>1, <1>2 DEF ControlOK
<1>8. pc' \notin {"globals", "abandoned", "bind"}
  OBVIOUS
<1>. QED BY <1>0, <1>1, <1>2, <1>3, <1>4, <1>5, <1>6, <1>7, <1>8, SameRt, ObjectsKeep

LEMMA NotAvailableKeeps ==
  ASSUME OMInv, NotAvailable
  PROVE  OMInv'
BY DisconnectKeeps DEF NotAvailable

LEMMA CloseDisconnectsKeeps ==
  ASSUME OMInv, CloseDisconnects
  PROVE  OMInv'
BY DisconnectKeeps DEF CloseDisconnects

LEMMA HangUpKeeps ==
  ASSUME OMInv, HangUp
  PROVE  OMInv'
<1>. DEFINE yes == TRUE
            l == <<>>
            a == [display EXCEPT !.gone = yes]
            r == [a EXCEPT !.live = l]
<1>0. OMInv /\ ControlOK /\ ObjectsOK /\ BoundOK /\ Shaped(display)
  BY DEF OMInv, ShapesOK
<1>1. display' = r /\ UNCHANGED <<pc, rt, pump, om, monitors>> /\ ~ display.gone
  BY DEF HangUp
<1>. HIDE DEF yes, l, r
<1>2. a = [open |-> display.open, accepted |-> display.accepted, nextID |-> display.nextID,
           objects |-> display.objects, proxies |-> display.proxies,
           listeners |-> display.listeners, globals |-> display.globals,
           incoming |-> display.incoming, gone |-> yes, expected |-> display.expected,
           live |-> display.live]
  BY <1>0 DEF Shaped
<1>. HIDE DEF a
<1>3. r = [open |-> display.open, accepted |-> display.accepted, nextID |-> display.nextID,
           objects |-> display.objects, proxies |-> display.proxies,
           listeners |-> display.listeners, globals |-> display.globals,
           incoming |-> display.incoming, gone |-> yes, expected |-> display.expected,
           live |-> l]
  BY <1>2 DEF r
<1>4. \A i : KindAt(r, i) = KindAt(display, i)
  BY <1>3 DEF KindAt
<1>5. Shaped(r)
  BY <1>3 DEF Shaped
<1>6. /\ r.incoming = display.incoming /\ r.nextID = display.nextID /\ r.globals = display.globals
      /\ r.open = display.open /\ r.accepted = display.accepted /\ r.gone = yes
  BY <1>3
<1>7. r.gone
  BY <1>6 DEF yes
<1>8. Ending => Ending'
  BY <1>1 DEF Ending
<1>9. ASSUME NEW e \in Event, EventOK(e), Found(e) PROVE Found(e)'
  BY <1>1, <1>4, <1>8, <1>9 DEF Found, MayMiss
<1>10. ObjectsOK'
  BY <1>0, <1>1, <1>4, <1>6 DEF ObjectsOK
<1>11. BoundOK'
  BY <1>1, <1>7 DEF BoundOK
<1>12. ControlOK'
  BY <1>0, <1>1, <1>6, <1>7 DEF ControlOK
<1>. QED BY <1>0, <1>1, <1>5, <1>6, <1>8, <1>9, <1>10, <1>11, <1>12, SameRt, ObjectsKeep

LEMMA CloseDestroysKeeps ==
  ASSUME OMInv, CloseDestroys
  PROVE  OMInv'
<1>0. OMInv /\ ControlOK /\ IdsOK /\ ObjectsOK /\ BoundOK /\ Shaped(display) /\ MonitorsOK
  BY DEF OMInv, ShapesOK
<1>1. pc = "destroy" /\ UNCHANGED <<rt, pump, om, monitors>>
  BY DEF CloseDestroys
<1>2. CASE om.manager = 0
  <2>1. UNCHANGED <<display, pc>>
    BY <1>2 DEF CloseDestroys
  <2>2. Seen' = Seen
    BY <2>1 DEF Seen
  <2>3. IdsOK'
    BY <1>0, <1>1, <2>1, <2>2 DEF IdsOK, Allocated
  <2>4. ControlOK'
    BY <1>0, <1>1, <2>1 DEF ControlOK
  <2>. QED BY <1>1, <2>1, <2>3, <2>4, SameOm, SameRt, QuietKeeps DEF Ending
<1>3. CASE om.manager # 0
  <2>. DEFINE m == om.manager
              r == Unregister(display, m)
  <2>1. display' = r /\ pc' = "disconnect"
    BY <1>3 DEF CloseDestroys
  <2>2. /\ Shaped(r) /\ r.incoming = display.incoming /\ r.nextID = display.nextID
        /\ r.globals = display.globals /\ r.gone = display.gone /\ r.open = display.open
        /\ r.accepted = display.accepted
        /\ \A i : KindAt(r, i) = IF i = m THEN "none" ELSE KindAt(display, i)
    <3>. HIDE DEF m
    <3>. QED BY <1>0, ShapedUnregister
  <2>. HIDE DEF r
  <2>3. Ending'
    BY <2>1 DEF Ending
  <2>4. ASSUME NEW e \in Event, EventOK(e), Found(e) PROVE Found(e)'
    <3>1. CASE e.to = m
      BY <1>1, <2>1, <2>2, <2>3, <2>4, <3>1 DEF Found, MayMiss
    <3>2. CASE e.to # m
      <4>1. KindAt(display', e.to) = KindAt(display, e.to)
        BY <2>1, <2>2, <3>2
      <4>2. MayMiss(e) => MayMiss(e)'
        BY <1>1, <2>3 DEF MayMiss
      <4>. QED BY <2>4, <4>1, <4>2 DEF Found
    <3>. QED BY <3>1, <3>2
  <2>5. m \in 4..(display.nextID - 1) /\ m \in Nat /\ m < FirstServerID /\ display.nextID \in Nat
    BY <1>0, <1>3, NextID, ServerIDs DEF IdsOK
  <2>6. ObjectsOK'
    <3>1. \A n \in Outputs : m # HeadID(n) /\ m # ModeID(n)
      BY <2>5, ServerIDs
    <3>2. m # DisplayID /\ m # RegistryID
      BY <2>5 DEF DisplayID, RegistryID
    <3>3. \A i \in display.nextID..(FirstServerID - 1) : i # m
      BY <2>5
    <3>4. rt.phase = "idle"
      BY <1>0, <1>1 DEF ControlOK
    <3>. HIDE DEF m
    <3>. QED BY <1>0, <1>1, <2>1, <2>2, <3>1, <3>2, <3>3, <3>4 DEF ObjectsOK
  <2>7. BoundOK'
    BY <1>0, <1>1, <2>1, <2>2 DEF ControlOK, BoundOK
  <2>8. ControlOK'
    BY <1>0, <1>1, <2>1, <2>2 DEF ControlOK
  <2>. HIDE DEF m
  <2>. QED BY <1>0, <1>1, <2>1, <2>2, <2>3, <2>4, <2>6, <2>7, <2>8, SameRt, ObjectsKeep
<1>. QED BY <1>2, <1>3

\* A connection just made: the globals are on the way.
LEMMA FreshObjects ==
  ASSUME NEW globals
  PROVE  LET d == Connect(globals)
         IN /\ Shaped(d) /\ d.open /\ d.accepted /\ d.nextID = 3 /\ ~ d.gone
            /\ d.incoming = [i \in 1..Len(globals) |-> GlobalEvent(i, globals[i])]
            /\ DOMAIN d.globals = {}
            /\ \A i : KindAt(d, i) = IF i = DisplayID THEN "display"
                                     ELSE IF i = RegistryID THEN "registry" ELSE "none"
<1>. DEFINE d == Connect(globals)
            first == [id \in {DisplayID} |-> "display"]
            objs == With(first, RegistryID, "registry")
            inc == [i \in 1..Len(globals) |-> GlobalEvent(i, globals[i])]
            live == [id \in {RegistryID} |-> "registry"]
            ls == {RegistryID}
            none == <<>>
            yes == TRUE
            no == FALSE
            ids == {}
<1>1. d = [open |-> yes, accepted |-> yes, nextID |-> 3, objects |-> objs, proxies |-> ids,
           listeners |-> ls, globals |-> none, incoming |-> inc, gone |-> no, expected |-> 3,
           live |-> live]
  BY DEF Connect
<1>. HIDE DEF d, inc, live, ls, none, yes, no, ids
<1>2. /\ DOMAIN objs = {DisplayID, RegistryID} /\ objs[DisplayID] = "display"
      /\ objs[RegistryID] = "registry"
  <2>1. DisplayID # RegistryID
    BY DEF DisplayID, RegistryID
  <2>2. DOMAIN first = {DisplayID} /\ first[DisplayID] = "display"
    OBVIOUS
  <2>. HIDE DEF first
  <2>. QED BY <2>1, <2>2 DEF With
<1>. HIDE DEF objs
<1>3. d.objects = objs
  BY <1>1
<1>4. \A i : KindAt(d, i) = IF i = DisplayID THEN "display"
                            ELSE IF i = RegistryID THEN "registry" ELSE "none"
  BY <1>2, <1>3 DEF KindAt
<1>5. Shaped(d)
  BY <1>1 DEF Shaped
<1>6. d.open = yes /\ d.accepted = yes /\ d.nextID = 3 /\ d.gone = no /\ d.incoming = inc
      /\ d.globals = none
  BY <1>1
<1>7. d.open /\ d.accepted /\ ~ d.gone
  BY <1>6 DEF yes, no
<1>8. DOMAIN d.globals = {}
  BY <1>6 DEF none
<1>. QED BY <1>4, <1>5, <1>6, <1>7, <1>8 DEF d, inc

LEMMA NoGlobals == Cardinality({}) = 0
BY FS_EmptySet

LEMMA GlobalIsEvent ==
  ASSUME NEW name \in Nat, NEW what \in {"wl_seat", "zwlr_output_manager_v1"}
  PROVE  /\ GlobalEvent(name, what) \in Event /\ GlobalEvent(name, what).to = RegistryID
         /\ GlobalEvent(name, what).op = "global" /\ GlobalEvent(name, what).arg = name
<1>. DEFINE interfaces == {"", "wl_seat", "zwlr_output_manager_v1"}
            f == GlobalEvent(name, what)
<1>1. what \in interfaces
  BY Zenon
<1>2. f = [to |-> RegistryID, op |-> "global", what |-> what, arg |-> name]
  BY Zenon DEF GlobalEvent, Ev
<1>3. Event = [to : Nat, op : Ops, what : interfaces, arg : Nat]
  BY Zenon DEF Event
<1>4. "global" \in Ops /\ RegistryID \in Nat
  BY DEF Ops, RegistryID
<1>. HIDE DEF interfaces, f
<1>5. f \in [to : Nat, op : Ops, what : interfaces, arg : Nat]
  BY <1>1, <1>2, <1>4
<1>. QED BY <1>2, <1>3, <1>5 DEF f

LEMMA EventSequence ==
  ASSUME NEW n \in Nat, NEW f \in [1..n -> Event]
  PROVE  f \in Seq(Event) /\ Len(f) = n
OBVIOUS

LEMMA NewClientKeeps ==
  ASSUME OMInv, NewClient
  PROVE  OMInv'
<1>0. OMInv /\ ShapesOK /\ IdsOK /\ ControlOK /\ MonitorsOK
  BY DEF OMInv
<1>1. /\ pc = "start" /\ pc' = "globals" /\ rt' = Begun /\ UNCHANGED <<pump, om, monitors>>
  BY DEF NewClient
<1>. PICK globals \in Registries : display' = Connect(globals)
  BY DEF NewClient
<1>2. globals \in Seq({"wl_seat", "zwlr_output_manager_v1"}) /\ Len(globals) + 6 <= FirstServerID
  BY RegistriesAssumption, IdsAssumption
<1>. DEFINE d == Connect(globals)
            n == Len(globals)
            s == [i \in 1..n |-> GlobalEvent(i, globals[i])]
<1>3. /\ Shaped(d) /\ d.open /\ d.accepted /\ d.nextID = 3 /\ ~ d.gone /\ d.incoming = s
      /\ DOMAIN d.globals = {}
      /\ \A i : KindAt(d, i) = IF i = DisplayID THEN "display"
                               ELSE IF i = RegistryID THEN "registry" ELSE "none"
  BY FreshObjects
<1>4. display' = d
  OBVIOUS
<1>5. n \in Nat /\ \A i \in 1..n : /\ s[i] \in Event /\ s[i].to = RegistryID
                                   /\ s[i].op = "global" /\ s[i].arg = i
  <2>1. n \in Nat /\ \A i \in 1..n : globals[i] \in {"wl_seat", "zwlr_output_manager_v1"}
    BY <1>2
  <2>. HIDE DEF n
  <2>. QED BY <2>1, GlobalIsEvent
<1>6. s \in Seq(Event) /\ DOMAIN s = 1..n
  <2>1. s \in [1..n -> Event] /\ DOMAIN s = 1..n
    BY <1>5
  <2>. HIDE DEF s, n
  <2>. QED BY <1>5, <2>1, EventSequence
<1>. HIDE DEF d, s
<1>7. Seen' = 0 /\ DOMAIN display'.globals = {}
  BY <1>3, <1>4, NoGlobals DEF Seen
<1>8. pump = "off" /\ rt.phase = "idle"
  BY <1>0, <1>1 DEF ControlOK
<1>9. /\ om.manager = 0 /\ DOMAIN om.heads = {} /\ ~ om.hasSerial /\ monitors.bound = 0
  BY <1>0, <1>8 DEF ControlOK
<1>10. rt' = [phase |-> "allocate", id |-> 0, done |-> FALSE, count |-> 0]
  BY <1>1 DEF Begun, Idle
<1>11. /\ rt'.phase = "allocate" /\ rt'.id = 0
       /\ rt' = [phase |-> rt'.phase, id |-> rt'.id, done |-> rt'.done, count |-> rt'.count]
  BY <1>10
<1>12. ObjectsOK'
  <2>1. \A m \in Outputs : /\ HeadID(m) # DisplayID /\ HeadID(m) # RegistryID
                           /\ ModeID(m) # DisplayID /\ ModeID(m) # RegistryID
    BY ServerIDs DEF DisplayID, RegistryID
  <2>2. \A i \in 3..(FirstServerID - 1) : i # DisplayID /\ i # RegistryID
    BY DEF DisplayID, RegistryID
  <2>3. DisplayID # RegistryID
    BY DEF DisplayID, RegistryID
  <2>. QED BY <1>3, <1>4, <1>11, <2>1, <2>2, <2>3 DEF ObjectsOK
<1>13. QueueOK(s)'
  <2>1. ASSUME NEW i \in DOMAIN s
        PROVE  /\ EventOK(s[i])' /\ Found(s[i])' /\ InOrder(s, i)'
               /\ \A j \in 1..(i - 1) : PairOK(s[j], s[i])
    <3>0. i \in 1..n /\ i \in Nat /\ s[i].to = RegistryID /\ s[i].op = "global" /\ s[i].arg = i
      BY <1>5, <1>6
    <3>1. s[i].arg + 6 <= FirstServerID
      BY <1>2, <1>5, <3>0, ServerIDs
    <3>2. EventOK(s[i])'
      BY <3>0, <3>1 DEF EventOK, ClientEventOK, ManagerEventOK, OutputEventOK
    <3>3. Found(s[i])'
      <4>1. KindOf("global") = "registry" /\ RegistryID # DisplayID
        BY DEF KindOf, RegistryID, DisplayID
      <4>2. KindAt(display', s[i].to) = "registry"
        BY <1>3, <1>4, <3>0, <4>1
      <4>. QED BY <3>0, <4>1, <4>2 DEF Found
    <3>4. InOrder(s, i)'
      <4>1. CASE i = 1
        BY <1>7, <3>0, <4>1 DEF InOrder
      <4>2. CASE i # 1
        <5>1. i - 1 \in 1..n /\ i - 1 \in 1..(i - 1)
          BY <1>5, <3>0, <4>2
        <5>2. s[i - 1].op = "global" /\ s[i - 1].arg + 1 = s[i].arg
          BY <1>5, <3>0, <5>1
        <5>. QED BY <5>1, <5>2 DEF InOrder
      <4>. QED BY <4>1, <4>2
    <3>5. ASSUME NEW j \in 1..(i - 1) PROVE PairOK(s[j], s[i])
      <4>1. j \in 1..n /\ j < i
        BY <1>5, <3>0
      <4>2. s[j].to = RegistryID /\ s[j].op = "global" /\ s[j].arg = j
        BY <1>5, <4>1
      <4>. QED BY <3>0, <4>1, <4>2 DEF PairOK, Drops, RegistryID
    <3>. QED BY <3>2, <3>3, <3>4, <3>5
  <2>. QED BY <2>1 DEF QueueOK, Reached
<1>14. QueueOK(display.incoming)' /\ display'.incoming \in Seq(Event)
  BY <1>3, <1>4, <1>6, <1>13
<1>15. BoundOK'
  BY <1>1, <1>9 DEF BoundOK
<1>16. IdsOK'
  <2>1. DOMAIN display'.globals = 1..Seen' /\ Seen' \in Nat /\ Seen' + 6 <= FirstServerID
    BY <1>7, ServerIDs
  <2>. QED BY <1>1, <1>3, <1>4, <1>7, <1>8, <1>9, <1>11, <2>1 DEF IdsOK
<1>17. ControlOK'
  BY <1>0, <1>1, <1>3, <1>4, <1>8, <1>9, <1>11 DEF ControlOK
<1>18. MonitorsOK'
  BY <1>0, <1>1 DEF MonitorsOK
<1>19. InitialOK'
  BY <1>1, <1>8 DEF InitialOK
<1>20. ShapesOK'
  BY <1>0, <1>1, <1>3, <1>4, <1>11, <1>14 DEF ShapesOK
<1>. QED BY <1>12, <1>14, <1>15, <1>16, <1>17, <1>18, <1>19, <1>20 DEF OMInv

-----------------------------------------------------------------------------
(* Steps that put events behind those that wait.                           *)

LEMMA PresentGrows ==
  ASSUME NEW q \in Seq(Event), NEW s \in Seq(Event),
         \A i : KindAt(display', i) = KindAt(display, i), NEW n, Present(q, n)
  PROVE  Present(q \o s, n)'
<1>. DEFINE r == q \o s
<1>1. DOMAIN q \subseteq DOMAIN r /\ \A j \in DOMAIN q : r[j] = q[j]
  BY JoinIndices
<1>. HIDE DEF r
<1>2. \A id : Adding(q, id) => Adding(r, id)
  BY <1>1 DEF Adding
<1>3. Present(r, n)'
  BY <1>2 DEF Present
<1>. QED BY <1>3 DEF r

LEMMA InitialGrows ==
  ASSUME OMInv, NEW s \in Seq(Event), display'.incoming = display.incoming \o s,
         ~ display.gone, UNCHANGED <<pump, om>>, Ending => Ending',
         Plugged \cap monitors'.plugged \subseteq monitors.plugged
  PROVE  InitialOK'
<1>. PICK q \in Seq(Event) : q = display.incoming
  BY DEF OMInv, ShapesOK
<1>. DEFINE r == q \o s
<1>1. DOMAIN q = 1..Len(q) /\ DOMAIN q \subseteq DOMAIN r /\ Len(q) \in Nat
      /\ \A j \in DOMAIN q : r[j] = q[j]
  BY JoinIndices
<1>2. display'.incoming = r
  OBVIOUS
<1>. HIDE DEF r
<1>3. ASSUME NEW n, InTime(q, n) PROVE InTime(r, n)'
  <2>1. PICK j \in DOMAIN q :
          /\ q[j].op = "properties" /\ q[j].to = HeadID(n)
          /\ \A i \in 1..(j - 1) : q[i].op # "manager_done"
          /\ \/ HeadID(n) \in DOMAIN om.heads
             \/ \E k \in 1..(j - 1) : q[k].op = "head" /\ q[k].arg = HeadID(n)
    BY <1>3 DEF InTime
  <2>2. j \in Nat /\ \A i \in 1..(j - 1) : i \in DOMAIN q
    BY <1>1
  <2>3. j \in DOMAIN r /\ r[j] = q[j] /\ \A i \in 1..(j - 1) : r[i] = q[i]
    BY <1>1, <2>2
  <2>. QED BY <2>1, <2>3 DEF InTime
<1>4. \A n : Known(n) => Known(n)'
  BY DEF Known
<1>5. \A n : InTime(q, n) => InTime(display.incoming, n)'
  BY <1>2, <1>3
<1>6. InitialOK
  BY DEF OMInv
<1>. QED BY <1>4, <1>5, <1>6 DEF InitialOK

\* Whatever the compositor tells, and however the step changes who waits for it.
LEMMA TellsKeeps ==
  ASSUME OMInv, NEW s \in Seq(Event), ~ display.gone, Shaped(display'),
         display'.incoming = display.incoming \o s, display'.nextID = display.nextID,
         display'.globals = display.globals, display'.open = display.open,
         display'.accepted = display.accepted,
         \A i : KindAt(display', i) = KindAt(display, i),
         UNCHANGED <<pump, om>>,
         rt' = [phase |-> rt'.phase, id |-> rt'.id, done |-> rt'.done, count |-> rt'.count],
         rt'.id = rt.id, rt'.phase = rt.phase \/ (rt.phase = "request" /\ rt'.phase = "store"),
         pc' = pc \/ (pc = "stop" /\ pc' = "destroy" /\ monitors'.bound = 0),
         monitors' = [plugged |-> monitors'.plugged, used |-> monitors'.used,
                      bound |-> monitors'.bound, serial |-> monitors'.serial],
         monitors'.serial \in Nat, monitors'.bound \in {0, monitors.bound},
         monitors'.used \subseteq Outputs, monitors.used \subseteq monitors'.used,
         monitors'.plugged \subseteq monitors'.used,
         monitors.used \ monitors.plugged \subseteq monitors'.used \ monitors'.plugged,
         pump = "off" => monitors'.plugged = monitors.plugged,
         monitors'.bound # 0 /\ ~ display'.gone =>
           \A n \in monitors'.plugged \ monitors.plugged : Present(display.incoming, n)',
         \A k \in DOMAIN s :
           /\ EventOK(s[k])'
           /\ \/ Found(s[k])'
              \/ \E j \in DOMAIN display.incoming : Adds(display.incoming[j], s[k].to)
              \/ \E j \in 1..(k - 1) : Adds(s[j], s[k].to)
           /\ s[k].op = "global" => s[k].arg = (Seen + 1)'
           /\ \A j \in DOMAIN display.incoming : PairOK(display.incoming[j], s[k])
           /\ \A j \in 1..(k - 1) : PairOK(s[j], s[k])
  PROVE  OMInv'
<1>0. /\ ShapesOK /\ IdsOK /\ ControlOK /\ MonitorsOK /\ ObjectsOK /\ BoundOK
      /\ QueueOK(display.incoming)
  BY DEF OMInv
<1>1. Seen' = Seen
  BY DEF Seen
<1>2. Ending => Ending'
  BY DEF Ending
<1>3. ASSUME NEW e \in Event, EventOK(e) PROVE EventOK(e)' /\ (Found(e) => Found(e)')
  <2>1. \A i : (Allocated(i) => Allocated(i)') /\ (Reserved(i)' => Reserved(i))
    BY DEF Allocated, Reserved
  <2>2. ClientEventOK(e)'
    BY <1>3, <2>1 DEF EventOK, ClientEventOK
  <2>3. ManagerEventOK(e)'
    BY <1>3 DEF EventOK, ManagerEventOK
  <2>4. OutputEventOK(e)'
    BY <1>3 DEF EventOK, OutputEventOK
  <2>5. MayMiss(e) => MayMiss(e)'
    BY <1>2 DEF MayMiss
  <2>6. Found(e) => Found(e)'
    BY <2>5 DEF Found
  <2>. QED BY <2>2, <2>3, <2>4, <2>6 DEF EventOK
<1>. PICK q \in Seq(Event) : q = display.incoming
  BY <1>0 DEF ShapesOK
<1>4. QueueOK(q \o s)'
  <2>1. QueueOK(q)'
    BY <1>0, <1>1, <1>3, QueueKeeps
  <2>2. \A k \in DOMAIN s :
          /\ EventOK(s[k])'
          /\ \/ Found(s[k])'
             \/ \E j \in DOMAIN q : Adds(q[j], s[k].to)
             \/ \E j \in 1..(k - 1) : Adds(s[j], s[k].to)
          /\ s[k].op = "global" => s[k].arg = (Seen + 1)'
          /\ \A j \in DOMAIN q : PairOK(q[j], s[k])
          /\ \A j \in 1..(k - 1) : PairOK(s[j], s[k])
    OBVIOUS
  <2>. QED BY <2>1, <2>2, QueueGrows
<1>5. q \o s \in Seq(Event) /\ display'.incoming = q \o s
  BY JoinIndices
<1>6. QueueOK(display.incoming)'
  BY <1>4, <1>5
<1>7. ObjectsOK'
  BY <1>0 DEF ObjectsOK
<1>8. BoundOK'
  <2>. SUFFICES ASSUME monitors'.bound # 0, ~ display'.gone
                PROVE  /\ KindAt(display', monitors'.bound) = "manager"
                       /\ \A n \in monitors'.plugged : Present(display.incoming, n)'
    BY DEF BoundOK
  <2>1. /\ KindAt(display, monitors.bound) = "manager"
        /\ \A n \in monitors.plugged : Present(q, n)
    BY <1>0 DEF BoundOK
  <2>2. \A n \in monitors.plugged : Present(q \o s, n)'
    BY <2>1, PresentGrows
  <2>3. \A n \in monitors.plugged : Present(display.incoming, n)'
    BY <1>5, <2>2
  <2>. QED BY <2>1, <2>3
<1>9. IdsOK'
  <2>1. Allocated(rt.id) => Allocated(rt.id)'
    BY DEF Allocated
  <2>. QED BY <1>0, <1>1, <2>1 DEF IdsOK
<1>10. ControlOK'
  BY <1>0 DEF ControlOK
<1>11. MonitorsOK'
  BY <1>0 DEF MonitorsOK
<1>12. InitialOK'
  <2>1. Plugged \cap monitors'.plugged \subseteq monitors.plugged
    BY <1>0 DEF MonitorsOK
  <2>. QED BY <1>2, <2>1, InitialGrows
<1>13. ShapesOK'
  BY <1>0, <1>5 DEF ShapesOK
<1>. QED BY <1>6, <1>7, <1>8, <1>9, <1>10, <1>11, <1>12, <1>13 DEF OMInv


LEMMA AnnounceSeatKeeps ==
  ASSUME OMInv, AnnounceSeat
  PROVE  OMInv'
<1>0. /\ OMInv /\ ShapesOK /\ IdsOK /\ ControlOK /\ MonitorsOK /\ ObjectsOK /\ BoundOK
      /\ Shaped(display)
  BY DEF OMInv, ShapesOK
<1>1. /\ ~ display.gone /\ UNCHANGED <<pc, rt, pump, om, monitors>>
      /\ Seen + 1 <= MaxGlobals /\ display' = Gets(display, <<GlobalEvent(Seen + 1, "wl_seat")>>)
      /\ \A i \in DOMAIN display.incoming : display.incoming[i].op # "global"
  BY DEF AnnounceSeat, Seen
<1>3. Seen \in Nat /\ Seen + 1 \in Nat /\ Seen + 1 + 6 <= FirstServerID
  BY <1>0, <1>1, IdsAssumption, IterationsAssumption, ServerIDs DEF IdsOK
<1>. PICK f \in Event : f = GlobalEvent(Seen + 1, "wl_seat") /\ f.to = RegistryID
                        /\ f.op = "global" /\ f.arg = Seen + 1
  <2>1. "wl_seat" \in {"wl_seat", "zwlr_output_manager_v1"}
    OBVIOUS
  <2>. DEFINE name == Seen + 1
  <2>2. name \in Nat
    BY <1>3
  <2>. HIDE DEF name
  <2>3. /\ GlobalEvent(name, "wl_seat") \in Event /\ GlobalEvent(name, "wl_seat").to = RegistryID
        /\ GlobalEvent(name, "wl_seat").op = "global" /\ GlobalEvent(name, "wl_seat").arg = name
    BY <2>1, <2>2, GlobalIsEvent
  <2>. QED BY <2>3 DEF name
<1>. DEFINE s == <<f>>
            r == Gets(display, s)
<1>4. display' = r
  BY <1>1
<1>2. /\ Shaped(r) /\ r.incoming = display.incoming \o s /\ r.nextID = display.nextID
      /\ r.globals = display.globals /\ r.gone = display.gone /\ r.open = display.open
      /\ r.accepted = display.accepted /\ \A i : KindAt(r, i) = KindAt(display, i)
  <2>. HIDE DEF s
  <2>. QED BY <1>0, ShapedGets
<1>. HIDE DEF r
<1>5. Seen' = Seen
  BY <1>2, <1>4 DEF Seen
<1>6. EventOK(f)'
  BY <1>1, <1>3, <1>5 DEF EventOK, ClientEventOK, ManagerEventOK, OutputEventOK
<1>7. Found(f)'
  <2>1. KindAt(display', RegistryID) = "registry"
    BY <1>0, <1>2, <1>4 DEF ObjectsOK
  <2>. QED BY <2>1 DEF Found, KindOf
<1>8. \A j \in DOMAIN display.incoming : PairOK(display.incoming[j], f)
  <2>. SUFFICES ASSUME NEW j \in DOMAIN display.incoming
                PROVE  PairOK(display.incoming[j], f)
    OBVIOUS
  <2>. DEFINE e == display.incoming[j]
  <2>1. e \in Event /\ EventOK(e) /\ e.op # "global"
    BY <1>0, <1>1 DEF OMInv, QueueOK, ShapesOK
  <2>. HIDE DEF e
  <2>2. ~ Drops(e, RegistryID)
    <3>1. RegistryID \notin 3..(display.nextID - 1)
      BY DEF RegistryID
    <3>2. \A n \in Outputs : RegistryID # HeadID(n) /\ RegistryID # ModeID(n)
      BY ServerIDs DEF RegistryID
    <3>. QED BY <1>0, <2>1, <3>1, <3>2, WhatDrops
  <2>. QED BY <1>4, <2>1, <2>2 DEF PairOK, RegistryID, e
<1>9. s \in Seq(Event) /\ DOMAIN s = 1..1 /\ s[1] = f
  OBVIOUS
<1>. HIDE DEF s
<1>10. \A k \in DOMAIN s :
         /\ EventOK(s[k])' /\ Found(s[k])'
         /\ s[k].op = "global" => s[k].arg = (Seen + 1)'
         /\ \A j \in DOMAIN display.incoming : PairOK(display.incoming[j], s[k])
         /\ \A j \in 1..(k - 1) : PairOK(s[j], s[k])
  <2>. SUFFICES ASSUME NEW k \in DOMAIN s
                PROVE  /\ EventOK(s[k])' /\ Found(s[k])'
                       /\ s[k].op = "global" => s[k].arg = (Seen + 1)'
                       /\ \A j \in DOMAIN display.incoming : PairOK(display.incoming[j], s[k])
                       /\ \A j \in 1..(k - 1) : PairOK(s[j], s[k])
    OBVIOUS
  <2>1. k = 1 /\ s[k] = f
    BY <1>9
  <2>2. \A j \in 1..(k - 1) : FALSE
    BY <2>1
  <2>. QED BY <1>4, <1>5, <1>6, <1>7, <1>8, <2>1, <2>2
<1>11. /\ monitors' = [plugged |-> monitors'.plugged, used |-> monitors'.used,
                       bound |-> monitors'.bound, serial |-> monitors'.serial]
       /\ monitors'.serial \in Nat
       /\ monitors'.used \subseteq Outputs /\ monitors'.plugged \subseteq monitors'.used
  BY <1>0, <1>1 DEF ShapesOK, MonitorsOK
<1>12. rt' = [phase |-> rt'.phase, id |-> rt'.id, done |-> rt'.done, count |-> rt'.count]
  BY <1>1, SameRt
<1>. QED BY <1>1, <1>2, <1>4, <1>9, <1>10, <1>11, <1>12, TellsKeeps

\* No event takes away the manager the compositor serves, or an output still plugged in.
LEMMA NotDropped ==
  ASSUME OMInv, NEW e \in Event, EventOK(e), NEW x,
         \/ monitors.bound # 0 /\ x = monitors.bound
         \/ \E n \in Outputs \ (monitors.used \ monitors.plugged) : x = HeadID(n) \/ x = ModeID(n)
  PROVE  ~ Drops(e, x)
<1>. SUFFICES ASSUME Drops(e, x) PROVE FALSE
  OBVIOUS
<1>1. \/ x \in 3..(display.nextID - 1) /\ (monitors.bound # 0 => x # monitors.bound)
      \/ \E n \in monitors.used \ monitors.plugged :
           n \in Outputs /\ (x = HeadID(n) \/ x = ModeID(n))
  BY WhatDrops
<1>2. display.nextID \in Nat /\ display.nextID <= FirstServerID
      /\ (monitors.bound # 0 => monitors.bound < FirstServerID /\ monitors.bound \in Nat)
  BY NextID, ServerIDs DEF OMInv, IdsOK
<1>. QED BY <1>1, <1>2, ServerIDs

\* The compositor talks to a manager that is there.
LEMMA TalksMeans ==
  ASSUME OMInv, Talks
  PROVE  /\ monitors.bound \in Nat /\ monitors.bound >= 4 /\ monitors.bound < display.nextID
         /\ monitors.bound < FirstServerID /\ monitors.bound = om.manager /\ om.manager # 0
         /\ KindAt(display, monitors.bound) = "manager" /\ ~ display.gone
         /\ \A n \in monitors.plugged : Present(display.incoming, n)
         /\ pump # "off"
<1>1. monitors.bound # 0 /\ ~ display.gone
  BY DEF Talks
<1>2. monitors.bound = om.manager /\ om.manager # 0
  BY <1>1 DEF OMInv, IdsOK
<1>3. pump # "off"
  BY <1>1 DEF OMInv, ControlOK
<1>. QED BY <1>1, <1>2, <1>3, NextID, ServerIDs DEF OMInv, BoundOK

\* The four events of an output.
LEMMA AnnouncementEvents ==
  ASSUME NEW m \in Nat, NEW n \in Outputs
  PROVE  LET a == Announcement(m, n)
         IN /\ a \in Seq(Event) /\ Len(a) = 4
            /\ a[1].to = m /\ a[1].op = "head" /\ a[1].arg = HeadID(n)
            /\ a[2].to = HeadID(n) /\ a[2].op = "mode" /\ a[2].arg = ModeID(n)
            /\ a[3].to = ModeID(n) /\ a[3].op = "preferred"
            /\ a[4].to = HeadID(n) /\ a[4].op = "properties"
<1>. PICK h \in Nat, o \in Nat : h = HeadID(n) /\ o = ModeID(n)
  BY ServerIDs
<1>0. {"head", "mode", "preferred", "properties"} \subseteq Ops /\ 0 \in Nat
  BY DEF Ops
<1>. PICK a1 \in Event : a1 = Plain(m, "head", h) /\ a1.to = m /\ a1.op = "head" /\ a1.arg = h
  <2>. HIDE DEF Plain
  <2>. QED BY <1>0, PlainIsEvent
<1>. PICK a2 \in Event : a2 = Plain(h, "mode", o) /\ a2.to = h /\ a2.op = "mode" /\ a2.arg = o
  <2>. QED BY <1>0, PlainIsEvent
<1>. PICK a3 \in Event : a3 = Plain(o, "preferred", 0) /\ a3.to = o /\ a3.op = "preferred"
  <2>. QED BY <1>0, PlainIsEvent
<1>. PICK a4 \in Event : a4 = Plain(h, "properties", 0) /\ a4.to = h /\ a4.op = "properties"
  <2>. QED BY <1>0, PlainIsEvent
<1>1. Announcement(m, n) = <<a1, a2, a3, a4>>
  BY Zenon DEF Announcement, Plain
<1>. QED BY <1>1

LEMMA DoneEvent ==
  ASSUME NEW m \in Nat, NEW serial \in Nat
  PROVE  \E f \in Event : /\ ManagerDone(m, serial) = <<f>>
                          /\ f.to = m /\ f.op = "manager_done"
<1>0. "manager_done" \in Ops
  BY DEF Ops
<1>. PICK f \in Event : f = Plain(m, "manager_done", serial) /\ f.to = m /\ f.op = "manager_done"
  BY <1>0, PlainIsEvent
<1>1. ManagerDone(m, serial) = <<f>>
  BY Zenon DEF ManagerDone, Plain
<1>. QED BY <1>1

LEMMA SameMonitors ==
  ASSUME OMInv
  PROVE  monitors = [plugged |-> monitors.plugged, used |-> monitors.used,
                     bound |-> monitors.bound, serial |-> monitors.serial]
BY DEF OMInv, ShapesOK

\* The fields of what the compositor knows after it has told of a change.
LEMMA ToldMonitors ==
  ASSUME OMInv, NEW p, NEW u,
         monitors' = [[monitors EXCEPT !.plugged = p, !.used = u] EXCEPT !.serial = @ + 1]
  PROVE  /\ monitors' = [plugged |-> p, used |-> u, bound |-> monitors.bound,
                         serial |-> monitors.serial + 1]
         /\ monitors' = [plugged |-> monitors'.plugged, used |-> monitors'.used,
                         bound |-> monitors'.bound, serial |-> monitors'.serial]
         /\ monitors'.plugged = p /\ monitors'.used = u /\ monitors'.bound = monitors.bound
         /\ monitors'.serial \in Nat
<1>. DEFINE c == [monitors EXCEPT !.plugged = p, !.used = u]
<1>1. c = [plugged |-> p, used |-> u, bound |-> monitors.bound, serial |-> monitors.serial]
  <2>. DEFINE b == [monitors EXCEPT !.plugged = p]
  <2>1. b = [plugged |-> p, used |-> monitors.used, bound |-> monitors.bound,
             serial |-> monitors.serial]
    BY SameMonitors
  <2>2. c = [b EXCEPT !.used = u]
    OBVIOUS
  <2>. HIDE DEF b, c
  <2>. QED BY <2>1, <2>2
<1>2. monitors.serial \in Nat
  BY DEF OMInv, ShapesOK
<1>. DEFINE n == monitors.serial + 1
<1>3. c.serial + 1 = n /\ n \in Nat
  BY <1>1, <1>2
<1>. HIDE DEF c, n
<1>4. monitors' = [c EXCEPT !.serial = n]
  BY <1>3 DEF c
<1>5. monitors' = [plugged |-> p, used |-> u, bound |-> monitors.bound, serial |-> n]
  BY <1>1, <1>4
<1>. QED BY <1>3, <1>5 DEF n

LEMMA DoneLast ==
  ASSUME NEW a \in Seq(Event), NEW f \in Event
  PROVE  LET s == a \o <<f>>
         IN /\ s \in Seq(Event) /\ DOMAIN s = 1..(Len(a) + 1) /\ Len(s) = Len(a) + 1
            /\ \A k \in 1..Len(a) : s[k] = a[k]
            /\ s[Len(a) + 1] = f
OBVIOUS

LEMMA PlugInKeeps ==
  ASSUME OMInv, NEW n \in Outputs, PlugIn(n)
  PROVE  OMInv'
<1>0. /\ OMInv /\ ShapesOK /\ MonitorsOK /\ ObjectsOK /\ Shaped(display)
  BY DEF OMInv, ShapesOK
<1>. PICK m \in Nat : m = monitors.bound
  BY TalksMeans DEF PlugIn
<1>1. /\ m >= 4 /\ m < display.nextID /\ m < FirstServerID /\ m = om.manager /\ m # 0
      /\ KindAt(display, m) = "manager" /\ ~ display.gone /\ pump # "off"
  BY TalksMeans DEF PlugIn
<1>. PICK c \in Nat : c = monitors.serial + 1
  BY <1>0 DEF ShapesOK
<1>. DEFINE a == Announcement(m, n)
            z == ManagerDone(m, c)
            s == a \o z
            r == Gets(display, s)
            p == monitors.plugged \cup {n}
            u == monitors.used \cup {n}
<1>2. /\ n \notin monitors.used /\ display' = r /\ UNCHANGED <<pc, rt, pump, om>>
      /\ monitors' = [[monitors EXCEPT !.plugged = p, !.used = u] EXCEPT !.serial = @ + 1]
  BY DEF PlugIn, Told
<1>3. /\ Shaped(r) /\ r.incoming = display.incoming \o s /\ r.nextID = display.nextID
      /\ r.globals = display.globals /\ r.gone = display.gone /\ r.open = display.open
      /\ r.accepted = display.accepted /\ \A i : KindAt(r, i) = KindAt(display, i)
  <2>. HIDE DEF s
  <2>. QED BY <1>0, ShapedGets
<1>4. /\ monitors' = [plugged |-> monitors'.plugged, used |-> monitors'.used,
                      bound |-> monitors'.bound, serial |-> monitors'.serial]
      /\ monitors'.plugged = p /\ monitors'.used = u /\ monitors'.bound = m
      /\ monitors'.serial \in Nat
  <2>. HIDE DEF p, u
  <2>. QED BY <1>2, ToldMonitors
<1>5. /\ a \in Seq(Event) /\ Len(a) = 4
      /\ a[1].to = m /\ a[1].op = "head" /\ a[1].arg = HeadID(n)
      /\ a[2].to = HeadID(n) /\ a[2].op = "mode" /\ a[2].arg = ModeID(n)
      /\ a[3].to = ModeID(n) /\ a[3].op = "preferred"
      /\ a[4].to = HeadID(n) /\ a[4].op = "properties"
  BY AnnouncementEvents
<1>. PICK f \in Event : z = <<f>> /\ f.to = m /\ f.op = "manager_done"
  BY DoneEvent
<1>. HIDE DEF r, a, z
<1>6. /\ s \in Seq(Event) /\ DOMAIN s = 1..5 /\ \A k \in 1..4 : s[k] = a[k]
      /\ s[5] = f
  <2>1. s = a \o <<f>> /\ a \in Seq(Event)
    BY <1>5
  <2>2. /\ s \in Seq(Event) /\ DOMAIN s = 1..(Len(a) + 1)
        /\ \A k \in 1..Len(a) : s[k] = a[k]
        /\ s[Len(a) + 1] = f
    <3>. HIDE DEF s
    <3>. QED BY <2>1, DoneLast
  <2>3. Len(a) = 4
    BY <1>5
  <2>. HIDE DEF s
  <2>. QED BY <2>2, <2>3
<1>7. /\ s[1].to = m /\ s[1].op = "head" /\ s[1].arg = HeadID(n)
      /\ s[2].to = HeadID(n) /\ s[2].op = "mode" /\ s[2].arg = ModeID(n)
      /\ s[3].to = ModeID(n) /\ s[3].op = "preferred"
      /\ s[4].to = HeadID(n) /\ s[4].op = "properties"
      /\ s[5].to = m /\ s[5].op = "manager_done"
  BY <1>5, <1>6
<1>. HIDE DEF s
<1>8. \A k \in DOMAIN s : k = 1 \/ k = 2 \/ k = 3 \/ k = 4 \/ k = 5
  BY <1>6
<1>9. /\ KindAt(display', m) = "manager" /\ om'.manager = m /\ om'.heads = om.heads
      /\ n \in monitors'.used
  BY <1>1, <1>2, <1>3, <1>4
<1>10. HeadID(n) \notin DOMAIN om.heads
  BY <1>0, <1>2, ServerIDs DEF MonitorsOK
<1>11. ASSUME NEW k \in DOMAIN s
       PROVE  /\ EventOK(s[k])'
              /\ \/ Found(s[k])'
                 \/ \E j \in 1..(k - 1) : Adds(s[j], s[k].to)
  <2>1. CASE k = 1
    BY <1>1, <1>7, <1>9, <1>10, <2>1
       DEF EventOK, ClientEventOK, ManagerEventOK, OutputEventOK, Found, KindOf
  <2>2. CASE k = 2
    <3>1. EventOK(s[2])'
      BY <1>7, <1>9 DEF EventOK, ClientEventOK, ManagerEventOK, OutputEventOK
    <3>2. Adds(s[1], s[2].to) /\ 1 \in 1..(2 - 1)
      BY <1>7 DEF Adds
    <3>. QED BY <2>2, <3>1, <3>2
  <2>3. CASE k = 3
    <3>1. EventOK(s[3])'
      BY <1>7, <1>9 DEF EventOK, ClientEventOK, ManagerEventOK, OutputEventOK
    <3>2. Adds(s[2], s[3].to) /\ 2 \in 1..(3 - 1)
      BY <1>7 DEF Adds
    <3>. QED BY <2>3, <3>1, <3>2
  <2>4. CASE k = 4
    <3>1. EventOK(s[4])'
      BY <1>7, <1>9 DEF EventOK, ClientEventOK, ManagerEventOK, OutputEventOK
    <3>2. Adds(s[1], s[4].to) /\ 1 \in 1..(4 - 1)
      BY <1>7 DEF Adds
    <3>. QED BY <2>4, <3>1, <3>2
  <2>5. CASE k = 5
    BY <1>1, <1>7, <1>9, <2>5
       DEF EventOK, ClientEventOK, ManagerEventOK, OutputEventOK, Found, KindOf
  <2>. QED BY <1>8, <2>1, <2>2, <2>3, <2>4, <2>5
<1>12. \A k \in DOMAIN s : /\ s[k].op \in {"head", "mode", "preferred", "properties", "manager_done"}
                           /\ s[k].to = m \/ s[k].to = HeadID(n) \/ s[k].to = ModeID(n)
                           /\ s[k].op = "head" => k = 1
                           /\ s[k].to # 3
  BY <1>1, <1>7, <1>8, ServerIDs
<1>13. ASSUME NEW k \in DOMAIN s, NEW j \in DOMAIN display.incoming
       PROVE  PairOK(display.incoming[j], s[k])
  <2>. DEFINE e == display.incoming[j]
  <2>1. e \in Event /\ EventOK(e)
    BY <1>0 DEF OMInv, QueueOK, ShapesOK
  <2>. HIDE DEF e
  <2>2. ~ Drops(e, s[k].to)
    BY <1>0, <1>1, <1>2, <1>12, <2>1, NotDropped
  <2>3. ~ (e.op = "head" /\ s[k].op = "head" /\ e.arg = s[k].arg)
    <3>1. e.op = "head" => \E o \in monitors.used : e.arg = HeadID(o)
      BY <2>1 DEF EventOK, ManagerEventOK
    <3>2. s[k].op = "head" => s[k].arg = HeadID(n)
      BY <1>7, <1>12
    <3>. QED BY <1>0, <1>2, <3>1, <3>2, ServerIDs DEF MonitorsOK
  <2>. QED BY <1>12, <2>2, <2>3 DEF PairOK, e
<1>14. ASSUME NEW k \in DOMAIN s, NEW j \in 1..(k - 1)
       PROVE  PairOK(s[j], s[k])
  <2>1. j \in DOMAIN s /\ k # 1
    BY <1>6
  <2>2. ~ Drops(s[j], s[k].to)
    BY <1>12, <2>1 DEF Drops
  <2>. QED BY <1>12, <2>1, <2>2 DEF PairOK
<1>15. \A o \in monitors'.plugged \ monitors.plugged : Present(display.incoming, o)'
  <2>. PICK q \in Seq(Event) : q = display.incoming
    BY <1>0 DEF ShapesOK
  <2>. DEFINE t == q \o s
  <2>0. /\ DOMAIN t = 1..(Len(q) + 5) /\ Len(q) \in Nat
        /\ t[Len(q) + 1] = s[1] /\ t[Len(q) + 2] = s[2]
    <3>1. Len(s) = 5
      BY <1>6
    <3>. HIDE DEF t
    <3>2. /\ DOMAIN t = 1..(Len(q) + Len(s)) /\ Len(q) \in Nat
          /\ \A i \in 1..Len(s) : t[Len(q) + i] = s[i]
      BY <1>6, JoinIndices DEF t
    <3>. QED BY <3>1, <3>2
  <2>1. display'.incoming = t
    BY <1>2, <1>3
  <2>. HIDE DEF t
  <2>2. Adds(t[Len(q) + 1], HeadID(n)) /\ Adds(t[Len(q) + 2], ModeID(n))
    BY <1>7, <2>0 DEF Adds
  <2>3. Len(q) + 1 \in DOMAIN t /\ Len(q) + 2 \in DOMAIN t
    BY <2>0
  <2>4. Adding(t, HeadID(n)) /\ Adding(t, ModeID(n))
    BY <2>2, <2>3 DEF Adding
  <2>5. Present(t, n)'
    BY <2>4 DEF Present
  <2>6. \A o \in monitors'.plugged \ monitors.plugged : o = n
    BY <1>4
  <2>7. Present(display.incoming, n)'
    BY <2>1, <2>5
  <2>. QED BY <2>6, <2>7
<1>16. rt' = [phase |-> rt'.phase, id |-> rt'.id, done |-> rt'.done, count |-> rt'.count]
  BY <1>2, SameRt
<1>17. /\ monitors'.used \subseteq Outputs /\ monitors.used \subseteq monitors'.used
       /\ monitors'.plugged \subseteq monitors'.used
       /\ monitors.used \ monitors.plugged \subseteq monitors'.used \ monitors'.plugged
  BY <1>0, <1>2, <1>4 DEF MonitorsOK
<1>18. \A k \in DOMAIN s : s[k].op # "global"
  BY <1>12
<1>. QED BY <1>1, <1>2, <1>3, <1>4, <1>6, <1>11, <1>13, <1>14, <1>15, <1>16, <1>17, <1>18, TellsKeeps

Endings(n) == <<Ev(ModeID(n), "mode_finished", "", 0), Ev(HeadID(n), "head_finished", "", 0)>>

LEMMA UnplugEvents ==
  ASSUME NEW n \in Outputs
  PROVE  \E f1, f2 \in Event :
           /\ Endings(n) \in Seq(Event) /\ Len(Endings(n)) = 2
           /\ Endings(n)[1] = f1 /\ Endings(n)[2] = f2
           /\ f1.to = ModeID(n) /\ f1.op = "mode_finished"
           /\ f2.to = HeadID(n) /\ f2.op = "head_finished"
<1>. PICK h \in Nat, o \in Nat : h = HeadID(n) /\ o = ModeID(n)
  BY ServerIDs
<1>0. {"mode_finished", "head_finished"} \subseteq Ops /\ 0 \in Nat
  BY DEF Ops
<1>. PICK f1 \in Event : /\ f1 = Plain(o, "mode_finished", 0)
                         /\ f1.to = o /\ f1.op = "mode_finished"
  BY <1>0, PlainIsEvent
<1>. PICK f2 \in Event : /\ f2 = Plain(h, "head_finished", 0)
                         /\ f2.to = h /\ f2.op = "head_finished"
  BY <1>0, PlainIsEvent
<1>1. Endings(n) = <<f1, f2>>
  BY Zenon DEF Plain, Endings
<1>2. <<f1, f2>> \in Seq(Event) /\ Len(<<f1, f2>>) = 2
      /\ <<f1, f2>>[1] = f1 /\ <<f1, f2>>[2] = f2
  OBVIOUS
<1>. QED BY Zenon, <1>1, <1>2

LEMMA UnplugKeeps ==
  ASSUME OMInv, NEW n \in Outputs, Unplug(n)
  PROVE  OMInv'
<1>0. /\ OMInv /\ ShapesOK /\ MonitorsOK /\ ObjectsOK /\ Shaped(display)
  BY DEF OMInv, ShapesOK
<1>. PICK m \in Nat : m = monitors.bound
  BY TalksMeans DEF Unplug
<1>1. /\ m >= 4 /\ m < display.nextID /\ m < FirstServerID /\ m = om.manager /\ m # 0
      /\ KindAt(display, m) = "manager" /\ ~ display.gone /\ pump # "off"
      /\ n \in monitors.plugged /\ Present(display.incoming, n)
  BY TalksMeans DEF Unplug
<1>. PICK c \in Nat : c = monitors.serial + 1
  BY <1>0 DEF ShapesOK
<1>. PICK h \in Nat, o \in Nat : h = HeadID(n) /\ o = ModeID(n)
  BY ServerIDs
<1>. DEFINE a == Endings(n)
            z == ManagerDone(m, c)
            s == a \o z
            r == Gets(display, s)
            p == monitors.plugged \ {n}
            u == monitors.used
<1>5. /\ Shaped(r) /\ r.incoming = display.incoming \o s /\ r.nextID = display.nextID
      /\ r.globals = display.globals /\ r.gone = display.gone /\ r.open = display.open
      /\ r.accepted = display.accepted /\ \A i : KindAt(r, i) = KindAt(display, i)
  <2>. HIDE DEF s
  <2>. QED BY <1>0, ShapedGets
<1>3. \E f1, f2 \in Event :
        /\ a \in Seq(Event) /\ Len(a) = 2 /\ a[1] = f1 /\ a[2] = f2 /\ f1.to = o /\ f1.op = "mode_finished"
        /\ f2.to = h /\ f2.op = "head_finished"
  BY UnplugEvents
<1>4. /\ display' = r /\ UNCHANGED <<pc, rt, pump, om>>
      /\ monitors' = [[monitors EXCEPT !.plugged = p] EXCEPT !.serial = @ + 1]
  <2>. HIDE DEF p, u
  <2>1. Told(a, [monitors EXCEPT !.plugged = p])
    BY Zenon DEF Unplug, p, Endings
  <2>. HIDE DEF a
  <2>. QED BY <2>1 DEF Told
<1>. HIDE DEF a
<1>. PICK f1 \in Event, f2 \in Event :
        /\ a \in Seq(Event) /\ Len(a) = 2 /\ a[1] = f1 /\ a[2] = f2 /\ f1.to = o /\ f1.op = "mode_finished"
        /\ f2.to = h /\ f2.op = "head_finished"
  BY <1>3
<1>6. /\ monitors' = [plugged |-> monitors'.plugged, used |-> monitors'.used,
                      bound |-> monitors'.bound, serial |-> monitors'.serial]
      /\ monitors'.plugged = p /\ monitors'.used = u /\ monitors'.bound = m
      /\ monitors'.serial \in Nat
  <2>1. [monitors EXCEPT !.plugged = p] = [monitors EXCEPT !.plugged = p, !.used = u]
    <3>. DEFINE b == [monitors EXCEPT !.plugged = p]
    <3>1. b = [plugged |-> p, used |-> u, bound |-> monitors.bound, serial |-> monitors.serial]
      <4>. HIDE DEF p
      <4>. QED BY SameMonitors
    <3>2. [monitors EXCEPT !.plugged = p, !.used = u] = [b EXCEPT !.used = u]
      OBVIOUS
    <3>. HIDE DEF b, p, u
    <3>3. [b EXCEPT !.used = u] = b
      BY <3>1
    <3>. QED BY <3>2, <3>3 DEF b
  <2>2. monitors' = [[monitors EXCEPT !.plugged = p, !.used = u] EXCEPT !.serial = @ + 1]
    BY <1>4, <2>1
  <2>. HIDE DEF p, u
  <2>. QED BY <2>2, ToldMonitors
<1>. PICK f3 \in Event : z = <<f3>> /\ f3.to = m /\ f3.op = "manager_done"
  BY DoneEvent
<1>. HIDE DEF r, z
<1>7. /\ s \in Seq(Event) /\ DOMAIN s = 1..3 /\ s[1] = f1 /\ s[2] = f2 /\ s[3] = f3
  <2>1. s = a \o <<f3>> /\ a \in Seq(Event)
    OBVIOUS
  <2>2. /\ s \in Seq(Event) /\ DOMAIN s = 1..(Len(a) + 1)
        /\ \A k \in 1..Len(a) : s[k] = a[k]
        /\ s[Len(a) + 1] = f3
    <3>. HIDE DEF s
    <3>. QED BY <2>1, DoneLast
  <2>. HIDE DEF s
  <2>. QED BY <2>2
<1>. HIDE DEF s
<1>8. /\ s[1].to = o /\ s[1].op = "mode_finished" /\ s[2].to = h /\ s[2].op = "head_finished"
      /\ s[3].to = m /\ s[3].op = "manager_done"
      /\ \A k \in DOMAIN s : k = 1 \/ k = 2 \/ k = 3
  BY <1>7
<1>9. /\ KindAt(display', m) = "manager" /\ om'.manager = m
      /\ n \in monitors'.used \ monitors'.plugged
      /\ \A i : KindAt(display', i) = KindAt(display, i)
  BY <1>0, <1>1, <1>4, <1>5, <1>6 DEF MonitorsOK
<1>10. \A id : Adding(display.incoming, id) =>
                 \E j \in DOMAIN display.incoming : Adds(display.incoming[j], id)
  BY DEF Adding
<1>11. ASSUME NEW k \in DOMAIN s
       PROVE  /\ EventOK(s[k])'
              /\ \/ Found(s[k])'
                 \/ \E j \in DOMAIN display.incoming : Adds(display.incoming[j], s[k].to)
  <2>1. CASE k = 1
    <3>1. EventOK(s[1])'
      BY <1>8, <1>9 DEF EventOK, ClientEventOK, ManagerEventOK, OutputEventOK
    <3>2. KindAt(display, o) = "mode" => Found(s[1])'
      BY <1>8, <1>9 DEF Found, KindOf
    <3>. QED BY <1>1, <1>8, <1>10, <2>1, <3>1, <3>2 DEF Present
  <2>2. CASE k = 2
    <3>1. EventOK(s[2])'
      BY <1>8, <1>9 DEF EventOK, ClientEventOK, ManagerEventOK, OutputEventOK
    <3>2. KindAt(display, h) = "head" => Found(s[2])'
      BY <1>8, <1>9 DEF Found, KindOf
    <3>. QED BY <1>1, <1>8, <1>10, <2>2, <3>1, <3>2 DEF Present
  <2>3. CASE k = 3
    BY <1>1, <1>8, <1>9, <2>3
       DEF EventOK, ClientEventOK, ManagerEventOK, OutputEventOK, Found, KindOf
  <2>. QED BY <1>8, <2>1, <2>2, <2>3
<1>12. /\ \A k \in DOMAIN s : /\ s[k].op \in {"mode_finished", "head_finished", "manager_done"}
                              /\ s[k].to = m \/ s[k].to = HeadID(n) \/ s[k].to = ModeID(n)
                              /\ s[k].to # 3
       /\ h # o /\ h # m /\ o # m
  BY <1>1, <1>8, ServerIDs
<1>13. ASSUME NEW k \in DOMAIN s, NEW j \in DOMAIN display.incoming
       PROVE  PairOK(display.incoming[j], s[k])
  <2>. DEFINE e == display.incoming[j]
  <2>1. e \in Event /\ EventOK(e)
    BY <1>0 DEF OMInv, QueueOK, ShapesOK
  <2>. HIDE DEF e
  <2>2. ~ Drops(e, s[k].to)
    BY <1>0, <1>1, <1>12, <2>1, NotDropped
  <2>. QED BY <1>12, <2>2 DEF PairOK, e
<1>14. ASSUME NEW k \in DOMAIN s, NEW j \in 1..(k - 1)
       PROVE  PairOK(s[j], s[k])
  <2>1. j \in DOMAIN s /\ j < k
    BY <1>7
  <2>2. s[j].to # s[k].to
    BY <1>8, <1>12, <2>1
  <2>. QED BY <1>12, <2>1, <2>2 DEF PairOK, Drops
<1>15. rt' = [phase |-> rt'.phase, id |-> rt'.id, done |-> rt'.done, count |-> rt'.count]
  BY <1>4, SameRt
<1>16. /\ monitors'.used \subseteq Outputs /\ monitors.used \subseteq monitors'.used
       /\ monitors'.plugged \subseteq monitors'.used
       /\ monitors.used \ monitors.plugged \subseteq monitors'.used \ monitors'.plugged
       /\ monitors'.plugged \ monitors.plugged = {}
  BY <1>0, <1>6 DEF MonitorsOK
<1>17. \A k \in DOMAIN s : s[k].op # "global"
  BY <1>12
<1>18. \A x \in monitors'.plugged \ monitors.plugged : Present(display.incoming, x)'
  BY <1>16
<1>. QED BY <1>1, <1>4, <1>5, <1>6, <1>7, <1>11, <1>13, <1>14, <1>15, <1>16, <1>17, <1>18, TellsKeeps

Finishing(m) == <<Ev(m, "manager_finished", "", 0), DeleteIdEvent(m)>>
SyncReply(id, serial) == <<Ev(id, "done", "", serial), DeleteIdEvent(id)>>

LEMMA TwoEvents ==
  ASSUME NEW f \in Event, NEW g \in Event
  PROVE  /\ <<f, g>> \in Seq(Event) /\ DOMAIN <<f, g>> = 1..2
         /\ <<f, g>>[1] = f /\ <<f, g>>[2] = g
OBVIOUS

LEMMA OneEvent ==
  ASSUME NEW f \in Event
  PROVE  /\ <<f>> \in Seq(Event) /\ DOMAIN <<f>> = 1..1 /\ <<f>>[1] = f
OBVIOUS

LEMMA FinishingEvents ==
  ASSUME NEW m \in Nat
  PROVE  LET s == Finishing(m)
         IN /\ s \in Seq(Event) /\ DOMAIN s = 1..2
            /\ s[1].to = m /\ s[1].op = "manager_finished"
            /\ s[2].to = DisplayID /\ s[2].op = "delete_id" /\ s[2].arg = m
<1>0. {"manager_finished", "delete_id"} \subseteq Ops /\ 0 \in Nat /\ DisplayID \in Nat
  BY DEF Ops, DisplayID
<1>. PICK f \in Event : /\ f = Plain(m, "manager_finished", 0)
                        /\ f.to = m /\ f.op = "manager_finished"
  BY <1>0, PlainIsEvent
<1>. PICK g \in Event : /\ g = Plain(DisplayID, "delete_id", m)
                        /\ g.to = DisplayID /\ g.op = "delete_id" /\ g.arg = m
  BY <1>0, PlainIsEvent
<1>1. Finishing(m) = <<f, g>>
  BY Zenon DEF Plain, Finishing, DeleteIdEvent
<1>2. /\ <<f, g>> \in Seq(Event) /\ DOMAIN <<f, g>> = 1..2
      /\ <<f, g>>[1] = f /\ <<f, g>>[2] = g
  BY TwoEvents
<1>. QED BY Zenon, <1>1, <1>2

LEMMA SyncReplyEvents ==
  ASSUME NEW id \in Nat, NEW serial \in Nat
  PROVE  LET s == SyncReply(id, serial)
         IN /\ s \in Seq(Event) /\ DOMAIN s = 1..2
            /\ s[1].to = id /\ s[1].op = "done"
            /\ s[2].to = DisplayID /\ s[2].op = "delete_id" /\ s[2].arg = id
<1>0. {"done", "delete_id"} \subseteq Ops /\ DisplayID \in Nat
  BY DEF Ops, DisplayID
<1>. PICK f \in Event : /\ f = Plain(id, "done", serial) /\ f.to = id /\ f.op = "done"
  BY <1>0, PlainIsEvent
<1>. PICK g \in Event : /\ g = Plain(DisplayID, "delete_id", id)
                        /\ g.to = DisplayID /\ g.op = "delete_id" /\ g.arg = id
  BY <1>0, PlainIsEvent
<1>1. SyncReply(id, serial) = <<f, g>>
  BY Zenon DEF Plain, SyncReply, DeleteIdEvent
<1>2. /\ <<f, g>> \in Seq(Event) /\ DOMAIN <<f, g>> = 1..2
      /\ <<f, g>>[1] = f /\ <<f, g>>[2] = g
  BY TwoEvents
<1>. QED BY Zenon, <1>1, <1>2

LEMMA FailureEvents ==
  ASSUME NEW id \in Nat
  PROVE  LET s == Failure(id)
         IN /\ s \in Seq(Event) /\ DOMAIN s = 1..1 /\ s[1].to = DisplayID /\ s[1].op = "error"
<1>0. "error" \in Ops /\ DisplayID \in Nat
  BY DEF Ops, DisplayID
<1>. PICK f \in Event : /\ f = Plain(DisplayID, "error", id) /\ f.to = DisplayID
                        /\ f.op = "error"
  BY <1>0, PlainIsEvent
<1>1. Failure(id) = <<f>>
  BY Zenon DEF Plain, Failure, ErrorEvent
<1>2. <<f>> \in Seq(Event) /\ DOMAIN <<f>> = 1..1 /\ <<f>>[1] = f
  BY OneEvent
<1>. QED BY Zenon, <1>1, <1>2

\* Nothing takes away the display or the registry.
LEMMA FixedNotDropped ==
  ASSUME OMInv, NEW e \in Event, EventOK(e), NEW x, x = DisplayID \/ x = RegistryID
  PROVE  ~ Drops(e, x)
<1>1. x \notin 3..(display.nextID - 1)
  BY DEF DisplayID, RegistryID
<1>2. \A n \in Outputs : x # HeadID(n) /\ x # ModeID(n)
  BY ServerIDs DEF DisplayID, RegistryID
<1>. QED BY <1>1, <1>2, WhatDrops

\* What waits is well formed.
LEMMA Waiting ==
  ASSUME OMInv
  PROVE  \A j \in DOMAIN display.incoming :
           display.incoming[j] \in Event /\ EventOK(display.incoming[j])
BY DEF OMInv, QueueOK, ShapesOK

LEMMA CloseStopsKeeps ==
  ASSUME OMInv, CloseStops
  PROVE  OMInv'
<1>0. /\ OMInv /\ ShapesOK /\ IdsOK /\ ControlOK /\ MonitorsOK /\ ObjectsOK /\ BoundOK
      /\ Shaped(display)
  BY DEF OMInv, ShapesOK
<1>1. pc = "stop" /\ UNCHANGED <<rt, pump, om>>
  BY DEF CloseStops
<1>2. /\ display.open /\ display.accepted /\ pump # "off" /\ rt.phase = "idle" /\ ~ Ending
      /\ rt' = [phase |-> rt'.phase, id |-> rt'.id, done |-> rt'.done, count |-> rt'.count]
  BY <1>0, <1>1, SameRt DEF ControlOK, Ending
<1>3. ASSUME UNCHANGED <<display, monitors>>,
             \/ pc' = "disconnect" /\ monitors.bound = 0
             \/ pc' = "destroy" /\ (monitors.bound = 0 \/ display.gone)
      PROVE  OMInv'
  <2>1. Seen' = Seen
    BY <1>3 DEF Seen
  <2>2. IdsOK'
    BY <1>0, <1>1, <1>3, <2>1 DEF IdsOK, Allocated
  <2>3. ControlOK'
    BY <1>0, <1>1, <1>2, <1>3 DEF ControlOK
  <2>. QED BY <1>0, <1>1, <1>2, <1>3, <2>2, <2>3, SameOm, QuietKeeps
<1>4. CASE om.manager = 0
  BY <1>0, <1>3, <1>4 DEF CloseStops, IdsOK
<1>5. CASE om.manager # 0 /\ ~ CanRequest(display)
  BY <1>2, <1>3, <1>5 DEF CloseStops, CanRequest, CanWrite
<1>6. CASE om.manager # 0 /\ CanRequest(display) /\ monitors.bound = 0
  <2>1. monitors' = [monitors EXCEPT !.bound = 0] /\ display' = display /\ pc' = "destroy"
    BY <1>6 DEF CloseStops
  <2>2. monitors' = [plugged |-> monitors.plugged, used |-> monitors.used, bound |-> 0,
                     serial |-> monitors.serial]
    BY <2>1, SameMonitors
  <2>3. monitors' = monitors
    BY <1>6, <2>2, SameMonitors
  <2>. QED BY <1>3, <1>6, <2>1, <2>3
<1>7. CASE om.manager # 0 /\ CanRequest(display) /\ monitors.bound # 0
  <2>. PICK m \in Nat : m = monitors.bound
    BY NextID
  <2>1. /\ m = om.manager /\ m >= 4 /\ m < display.nextID /\ m < FirstServerID
        /\ rt.id # m /\ ~ display.gone /\ KindAt(display, m) = "manager"
    BY <1>0, <1>7, NextID, ServerIDs DEF IdsOK, BoundOK, CanRequest, CanWrite
  <2>. DEFINE s == Finishing(m)
              r == Gets(display, s)
  <2>2. /\ Shaped(r) /\ r.incoming = display.incoming \o s /\ r.nextID = display.nextID
        /\ r.globals = display.globals /\ r.gone = display.gone /\ r.open = display.open
        /\ r.accepted = display.accepted /\ \A i : KindAt(r, i) = KindAt(display, i)
    <3>. HIDE DEF s
    <3>. QED BY <1>0, ShapedGets
  <2>3. /\ display' = r /\ pc' = "destroy" /\ monitors' = [monitors EXCEPT !.bound = 0]
    <3>1. display' = Gets(display, Finishing(om.manager))
      BY Zenon, <1>7 DEF CloseStops, Finishing
    <3>. HIDE DEF s
    <3>2. pc' = "destroy" /\ monitors' = [monitors EXCEPT !.bound = 0]
      BY <1>7 DEF CloseStops
    <3>. QED BY <2>1, <3>1, <3>2 DEF s
  <2>4. /\ s \in Seq(Event) /\ DOMAIN s = 1..2
        /\ s[1].to = m /\ s[1].op = "manager_finished"
        /\ s[2].to = DisplayID /\ s[2].op = "delete_id" /\ s[2].arg = m
    BY FinishingEvents
  <2>. HIDE DEF s, r
  <2>5. monitors' = [plugged |-> monitors.plugged, used |-> monitors.used, bound |-> 0,
                     serial |-> monitors.serial]
    BY <2>3, SameMonitors
  <2>6. /\ monitors' = [plugged |-> monitors'.plugged, used |-> monitors'.used,
                        bound |-> monitors'.bound, serial |-> monitors'.serial]
        /\ monitors'.bound = 0 /\ monitors'.used = monitors.used
        /\ monitors'.plugged = monitors.plugged /\ monitors'.serial \in Nat
    BY <1>0, <2>5 DEF ShapesOK
  <2>7. \A k \in DOMAIN s : k = 1 \/ k = 2
    BY <2>4
  <2>8. KindAt(display', m) = "manager" /\ KindAt(display', DisplayID) = "display"
    BY <1>0, <2>1, <2>2, <2>3 DEF ObjectsOK
  <2>9. Allocated(m)' /\ ~ Reserved(m)' /\ om'.manager = m /\ m # 0
    BY <1>1, <1>2, <2>1, <2>2, <2>3, NextID DEF Allocated, Reserved
  <2>10. \A k \in DOMAIN s : EventOK(s[k])' /\ Found(s[k])'
    <3>1. EventOK(s[1])' /\ Found(s[1])'
      BY <2>4, <2>6, <2>8, <2>9
         DEF EventOK, ClientEventOK, ManagerEventOK, OutputEventOK, Found, KindOf
    <3>2. EventOK(s[2])' /\ Found(s[2])'
      BY <2>4, <2>6, <2>8, <2>9
         DEF EventOK, ClientEventOK, ManagerEventOK, OutputEventOK, Found, KindOf
    <3>. QED BY <2>7, <3>1, <3>2
  <2>11. ASSUME NEW k \in DOMAIN s, NEW j \in DOMAIN display.incoming
         PROVE  PairOK(display.incoming[j], s[k])
    <3>. DEFINE e == display.incoming[j]
    <3>1. e \in Event /\ EventOK(e)
      BY Waiting
    <3>. HIDE DEF e
    <3>2. ~ Drops(e, m) /\ ~ Drops(e, DisplayID)
      BY <1>7, <3>1, NotDropped, FixedNotDropped
    <3>3. /\ s[k].to = m \/ s[k].to = DisplayID
          /\ s[k].op \notin {"head", "global"} /\ s[k].to # 3
      BY <2>1, <2>4, <2>7 DEF DisplayID
    <3>. QED BY <3>2, <3>3 DEF PairOK, e
  <2>12. ASSUME NEW k \in DOMAIN s, NEW j \in 1..(k - 1)
         PROVE  PairOK(s[j], s[k])
    <3>1. k = 2 /\ j = 1
      BY <2>7
    <3>. QED BY <2>1, <2>4, <3>1 DEF PairOK, Drops, DisplayID
  <2>13. \A k \in DOMAIN s : s[k].op # "global"
    BY <2>4, <2>7
  <2>14. /\ monitors.used \subseteq Outputs /\ monitors.plugged \subseteq monitors.used
    BY <1>0 DEF MonitorsOK
  <2>. QED BY <1>1, <1>2, <2>1, <2>2, <2>3, <2>4, <2>6, <2>10, <2>11, <2>12, <2>13, <2>14,
              TellsKeeps, Zenon
<1>. QED BY <1>4, <1>5, <1>6, <1>7

\* The compositor has sent s, or an error and the end.
Answering(d, r, id, s) ==
  \/ r.incoming = d.incoming \o s /\ r.gone = d.gone
  \/ r.incoming = d.incoming \o Failure(id) /\ r.gone

LEMMA CreatesAnswers ==
  ASSUME NEW d, Shaped(d), NEW id, NEW kind, NEW s
  PROVE  LET r == Creates(d, id, kind, s)
         IN /\ Shaped(r) /\ r.nextID = d.nextID
            /\ r.globals = d.globals /\ r.open = d.open
            /\ r.accepted = d.accepted
            /\ Answering(d, r, id, s)
            /\ \A i : KindAt(r, i) = KindAt(d, i)
<1>. DEFINE r == Creates(d, id, kind, s)
<1>1. /\ Shaped(r) /\ r.nextID = d.nextID
      /\ r.globals = d.globals /\ r.open = d.open
      /\ r.accepted = d.accepted
      /\ \/ r.incoming = d.incoming \o s /\ r.gone = d.gone
         \/ r.incoming = d.incoming \o Failure(id) /\ r.gone
      /\ \A i : KindAt(r, i) = KindAt(d, i)
  BY ShapedCreates
<1>. HIDE DEF r
<1>. QED BY <1>1 DEF Answering, r

LEMMA ShapedSync ==
  ASSUME NEW d, Shaped(d), NEW id, NEW serial
  PROVE  LET r == SyncRequest(d, id, serial)
         IN /\ Shaped(r) /\ r.nextID = d.nextID
            /\ r.globals = d.globals /\ r.open = d.open
            /\ r.accepted = d.accepted
            /\ Answering(d, r, id, SyncReply(id, serial))
            /\ \A i : KindAt(r, i) = KindAt(d, i)
<1>. DEFINE s == SyncReply(id, serial)
            k == "callback"
            c == Creates(d, id, k, s)
            l == Without(c.live, {id})
            r == SyncRequest(d, id, serial)
<1>1. r = [c EXCEPT !.live = l]
  BY Zenon DEF SyncRequest, SyncReply
<1>2. /\ Shaped(c) /\ c.nextID = d.nextID /\ c.globals = d.globals /\ c.open = d.open
      /\ c.accepted = d.accepted
      /\ \/ c.incoming = d.incoming \o s /\ c.gone = d.gone
         \/ c.incoming = d.incoming \o Failure(id) /\ c.gone
      /\ \A i : KindAt(c, i) = KindAt(d, i)
  <2>. HIDE DEF s, k
  <2>. QED BY ShapedCreates
<1>. HIDE DEF s, c, l, r
<1>3. r = [open |-> c.open, accepted |-> c.accepted, nextID |-> c.nextID, objects |-> c.objects,
           proxies |-> c.proxies, listeners |-> c.listeners, globals |-> c.globals,
           incoming |-> c.incoming, gone |-> c.gone, expected |-> c.expected, live |-> l]
  BY <1>1, <1>2 DEF Shaped
<1>4. \A i : KindAt(r, i) = KindAt(c, i)
  BY <1>3 DEF KindAt
<1>5. Shaped(r)
  BY <1>3 DEF Shaped
<1>6. /\ r.incoming = c.incoming /\ r.nextID = c.nextID /\ r.globals = c.globals
      /\ r.gone = c.gone /\ r.open = c.open /\ r.accepted = c.accepted
  BY <1>3
<1>7. \A i : KindAt(r, i) = KindAt(d, i)
  BY <1>2, <1>4
<1>8. /\ r.nextID = d.nextID /\ r.globals = d.globals /\ r.open = d.open
      /\ r.accepted = d.accepted
      /\ \/ r.incoming = d.incoming \o s /\ r.gone = d.gone
         \/ r.incoming = d.incoming \o Failure(id) /\ r.gone
  BY <1>2, <1>6
<1>. QED BY <1>5, <1>7, <1>8 DEF r, s, Answering

LEMMA SyncKeeps ==
  ASSUME OMInv, RoundtripRequests, CanWrite(display)
  PROVE  OMInv'
<1>0. /\ OMInv /\ ShapesOK /\ IdsOK /\ ControlOK /\ MonitorsOK /\ ObjectsOK /\ Shaped(display)
      /\ ~ display.gone
  BY DEF OMInv, ShapesOK, CanWrite
<1>. PICK id \in Nat : id = rt.id
  BY NextID
<1>. PICK serial \in Serials : display' = SyncRequest(display, id, serial)
  BY DEF RoundtripRequests
<1>00. serial \in Nat
  BY WordsAssumption
<1>. DEFINE r == SyncRequest(display, id, serial)
            ph == "store"
<1>1. /\ rt.phase = "request" /\ display' = r /\ rt' = [rt EXCEPT !.phase = ph]
      /\ UNCHANGED <<pc, pump, om, monitors>>
  BY DEF RoundtripRequests
<1>2. /\ Shaped(r) /\ r.nextID = display.nextID
      /\ r.globals = display.globals /\ r.open = display.open
      /\ r.accepted = display.accepted
      /\ Answering(display, r, id, SyncReply(id, serial))
      /\ \A i : KindAt(r, i) = KindAt(display, i)
  <2>1. Shaped(display)
    BY <1>0
  <2>. QED BY <2>1, ShapedSync
<1>3. rt' = [phase |-> ph, id |-> rt.id, done |-> rt.done, count |-> rt.count]
  <2>1. rt = [phase |-> rt.phase, id |-> rt.id, done |-> rt.done, count |-> rt.count]
    BY <1>0 DEF ShapesOK
  <2>. HIDE DEF ph
  <2>. QED BY <1>1, <2>1
<1>4. /\ rt'.phase = "store" /\ rt'.id = id
      /\ rt' = [phase |-> rt'.phase, id |-> rt'.id, done |-> rt'.done, count |-> rt'.count]
  BY <1>3
<1>. HIDE DEF r, ph
<1>5. /\ id \in 3..(display.nextID - 1) /\ display.nextID \in Nat /\ id < FirstServerID
      /\ id >= 3 /\ id # om.manager
      /\ (monitors.bound # 0 => id # monitors.bound) /\ KindAt(display, id) = "none"
  <2>1. id \in 3..(display.nextID - 1) /\ KindAt(display, id) = "none"
    BY <1>0, <1>1 DEF IdsOK, Allocated, ObjectsOK
  <2>2. id # om.manager /\ (monitors.bound # 0 => id # monitors.bound)
    BY <1>0, <2>1, NextID DEF IdsOK
  <2>. QED BY <2>1, <2>2, NextID, ServerIDs
<1>6. ASSUME NEW j \in DOMAIN display.incoming
      PROVE  /\ display.incoming[j] \in Event
             /\ ~ Drops(display.incoming[j], id) /\ ~ Drops(display.incoming[j], DisplayID)
  <2>. DEFINE e == display.incoming[j]
  <2>1. e \in Event /\ EventOK(e)
    BY Waiting
  <2>. HIDE DEF e
  <2>2. ~ Drops(e, DisplayID)
    BY <2>1, FixedNotDropped
  <2>3. ~ Drops(e, id)
    <3>1. Reserved(id) /\ \A n \in Outputs : id # HeadID(n) /\ id # ModeID(n)
      BY <1>1, <1>5, ServerIDs DEF Reserved
    <3>. QED BY <2>1, <3>1, WhatDrops
  <2>. QED BY <2>1, <2>2, <2>3 DEF e
<1>7. /\ KindAt(display', id) = "none" /\ KindAt(display', DisplayID) = "display"
      /\ Allocated(id)' /\ ~ Reserved(id)' /\ id # om'.manager
  BY <1>0, <1>1, <1>2, <1>4, <1>5 DEF ObjectsOK, Allocated, Reserved
<1>8. /\ monitors' = [plugged |-> monitors'.plugged, used |-> monitors'.used,
                      bound |-> monitors'.bound, serial |-> monitors'.serial]
      /\ monitors'.serial \in Nat
      /\ monitors'.used \subseteq Outputs /\ monitors'.plugged \subseteq monitors'.used
  BY <1>0, <1>1 DEF ShapesOK, MonitorsOK
<1>9. ASSUME NEW s \in Seq(Event), r.incoming = display.incoming \o s,
             \A k \in DOMAIN s :
               /\ EventOK(s[k])' /\ Found(s[k])' /\ s[k].op # "global"
               /\ \A j \in DOMAIN display.incoming : PairOK(display.incoming[j], s[k])
               /\ \A j \in 1..(k - 1) : PairOK(s[j], s[k])
      PROVE  OMInv'
  <2>1. /\ Shaped(display') /\ display'.nextID = display.nextID
        /\ display'.globals = display.globals /\ display'.open = display.open
        /\ display'.accepted = display.accepted
        /\ \A i : KindAt(display', i) = KindAt(display, i)
        /\ display'.incoming = display.incoming \o s
    BY <1>1, <1>2, <1>9
  <2>2. \A k \in DOMAIN s :
          /\ EventOK(s[k])' /\ Found(s[k])' /\ s[k].op # "global"
          /\ \A j \in DOMAIN display.incoming : PairOK(display.incoming[j], s[k])
          /\ \A j \in 1..(k - 1) : PairOK(s[j], s[k])
    BY <1>9
  <2>3. /\ UNCHANGED <<pc, pump, om, monitors>> /\ rt'.phase = "store" /\ rt.phase = "request"
        /\ rt'.id = rt.id
    BY <1>1, <1>4
  <2>. HIDE <1>1, <1>2
  <2>. QED BY <1>0, <1>4, <1>8, <2>1, <2>2, <2>3, TellsKeeps
<1>10. CASE r.incoming = display.incoming \o SyncReply(id, serial)
  <2>. PICK s \in Seq(Event) : s = SyncReply(id, serial)
    BY <1>00, SyncReplyEvents
  <2>1. /\ DOMAIN s = 1..2
        /\ s[1].to = id /\ s[1].op = "done"
        /\ s[2].to = DisplayID /\ s[2].op = "delete_id" /\ s[2].arg = id
    BY <1>00, SyncReplyEvents
  <2>2. \A k \in DOMAIN s : k = 1 \/ k = 2
    BY <2>1
  <2>3. EventOK(s[1])' /\ Found(s[1])'
    <3>1. EventOK(s[1])'
      BY <1>7, <2>1 DEF EventOK, ClientEventOK, ManagerEventOK, OutputEventOK
    <3>2. MayMiss(s[1])'
      BY <1>4, <2>1 DEF MayMiss
    <3>. QED BY <1>7, <2>1, <3>1, <3>2 DEF Found
  <2>4. EventOK(s[2])' /\ Found(s[2])'
    BY <1>1, <1>5, <1>7, <2>1
       DEF EventOK, ClientEventOK, ManagerEventOK, OutputEventOK, Found, KindOf
  <2>5. ASSUME NEW k \in DOMAIN s, NEW j \in DOMAIN display.incoming
        PROVE  PairOK(display.incoming[j], s[k])
    <3>1. /\ s[k].to = id \/ (s[k].to = DisplayID /\ DisplayID # 3)
          /\ s[k].op \notin {"head", "global"}
      BY <2>1, <2>2 DEF DisplayID
    <3>. QED BY <1>6, <3>1 DEF PairOK
  <2>6. ASSUME NEW k \in DOMAIN s, NEW j \in 1..(k - 1)
        PROVE  PairOK(s[j], s[k])
    <3>1. k = 2 /\ j = 1
      BY <2>2
    <3>. QED BY <1>5, <2>1, <3>1 DEF PairOK, Drops, DisplayID
  <2>7. \A k \in DOMAIN s : s[k].op # "global"
    BY <2>1, <2>2
  <2>8. \A k \in DOMAIN s : EventOK(s[k])' /\ Found(s[k])'
    BY <2>2, <2>3, <2>4
  <2>. QED BY <1>9, <1>10, <2>5, <2>6, <2>7, <2>8
<1>11. CASE r.incoming = display.incoming \o Failure(id)
  <2>. PICK s \in Seq(Event) : s = Failure(id)
    BY FailureEvents
  <2>1. DOMAIN s = 1..1 /\ s[1].to = DisplayID /\ s[1].op = "error"
    BY FailureEvents
  <2>2. \A k \in DOMAIN s : k = 1
    BY <2>1
  <2>3. EventOK(s[1])' /\ Found(s[1])'
    BY <1>7, <2>1 DEF EventOK, ClientEventOK, ManagerEventOK, OutputEventOK, Found, KindOf
  <2>4. ASSUME NEW j \in DOMAIN display.incoming PROVE PairOK(display.incoming[j], s[1])
    BY <1>6, <2>1 DEF PairOK, DisplayID
  <2>5. \A k \in DOMAIN s : \A j \in 1..(k - 1) : FALSE
    BY <2>2
  <2>6. \A k \in DOMAIN s : EventOK(s[k])' /\ Found(s[k])' /\ s[k].op # "global"
    BY <2>1, <2>2, <2>3
  <2>7. \A k \in DOMAIN s : \A j \in DOMAIN display.incoming : PairOK(display.incoming[j], s[k])
    BY <2>2, <2>4
  <2>. QED BY <1>9, <1>11, <2>5, <2>6, <2>7
<1>. QED BY <1>2, <1>10, <1>11 DEF Answering

LEMMA RoundtripRequestsKeeps ==
  ASSUME OMInv, RoundtripRequests
  PROVE  OMInv'
<1>1. CASE CanWrite(display)
  BY <1>1, SyncKeeps
<1>2. CASE ~ CanWrite(display)
  BY <1>2, RoundtripEndKeeps DEF RoundtripRequests
<1>. QED BY <1>1, <1>2

-----------------------------------------------------------------------------
(* Binding the manager.                                                    *)

\* The events the compositor starts with: four for each output, and the end.
Introduced(s, m, order) ==
  /\ DOMAIN s = 1..(4 * Len(order) + 1)
  /\ \A b \in 1..Len(order) :
       /\ s[4 * b - 3].to = m /\ s[4 * b - 3].op = "head"
       /\ s[4 * b - 3].arg = HeadID(order[b])
       /\ s[4 * b - 2].to = HeadID(order[b]) /\ s[4 * b - 2].op = "mode"
       /\ s[4 * b - 2].arg = ModeID(order[b])
       /\ s[4 * b - 1].to = ModeID(order[b]) /\ s[4 * b - 1].op = "preferred"
       /\ s[4 * b].to = HeadID(order[b]) /\ s[4 * b].op = "properties"
  /\ s[4 * Len(order) + 1].to = m /\ s[4 * Len(order) + 1].op = "manager_done"

\* An order of a finite set, every member once.
LEMMA SetOrder ==
  ASSUME NEW S, IsFiniteSet(S)
  PROVE  LET order == SetToSeq(S)
         IN /\ order \in [1..Cardinality(S) -> S] /\ Cardinality(S) \in Nat
            /\ \A a, b \in 1..Cardinality(S) : order[a] = order[b] => a = b
            /\ \A x \in S : \E b \in 1..Cardinality(S) : order[b] = x
<1>. DEFINE n == Cardinality(S)
            order == SetToSeq(S)
<1>1. n \in Nat /\ ExistsBijection(1..n, S)
  BY FS_CardinalityType
<1>2. \E f \in [1..n -> S] : IsInjective(f)
  <2>1. PICK f \in Bijection(1..n, S) : TRUE
    BY <1>1 DEF ExistsBijection
  <2>2. f \in [1..n -> S] /\ \A a, b \in 1..n : f[a] = f[b] => a = b
    BY <2>1 DEF Bijection, Injection, IsInjective
  <2>. QED BY <2>2 DEF IsInjective
<1>3. order \in [1..n -> S] /\ IsInjective(order)
  BY <1>2 DEF SetToSeq
<1>. HIDE DEF order
<1>4. \A a, b \in 1..n : order[a] = order[b] => a = b
  BY <1>3 DEF IsInjective
<1>5. order \in Injection(1..n, S)
  BY <1>3, <1>4 DEF Injection
<1>6. IsFiniteSet(1..n) /\ Cardinality(1..n) = n
  <2>1. 1 \in Int /\ n \in Int
    BY <1>1
  <2>. HIDE DEF n
  <2>2. IsFiniteSet(1..n) /\ Cardinality(1..n) = IF 1 > n THEN 0 ELSE n - 1 + 1
    BY <2>1, FS_Interval
  <2>. QED BY <1>1, <2>2
<1>7. order \in Surjection(1..n, S)
  BY <1>5, <1>6, FS_Injection
<1>8. \A x \in S : \E b \in 1..n : order[b] = x
  BY <1>7 DEF Surjection
<1>. QED BY <1>1, <1>3, <1>4, <1>8 DEF order

\* The output and the event of it that have a place in the list.
Quarter(i) == ((i - 1) \div 4) + 1
Rest(i) == ((i - 1) % 4) + 1

LEMMA Quarters ==
  ASSUME NEW i \in Nat, i >= 1
  PROVE  /\ Quarter(i) \in Nat /\ Quarter(i) >= 1
         /\ \/ i = 4 * Quarter(i) - 3 /\ Rest(i) = 1
            \/ i = 4 * Quarter(i) - 2 /\ Rest(i) = 2
            \/ i = 4 * Quarter(i) - 1 /\ Rest(i) = 3
            \/ i = 4 * Quarter(i) /\ Rest(i) = 4
BY DEF Quarter, Rest

LEMMA QuarterOf ==
  ASSUME NEW b \in Nat, b >= 1
  PROVE  /\ Quarter(4 * b - 3) = b /\ Rest(4 * b - 3) = 1
         /\ Quarter(4 * b - 2) = b /\ Rest(4 * b - 2) = 2
         /\ Quarter(4 * b - 1) = b /\ Rest(4 * b - 1) = 3
         /\ Quarter(4 * b) = b /\ Rest(4 * b) = 4
<1>1. Quarter(4 * b - 3) = b /\ Rest(4 * b - 3) = 1
  <2>. PICK i \in Nat : i = 4 * b - 3 /\ i >= 1
    OBVIOUS
  <2>1. Quarter(i) = b /\ Rest(i) = 1
    BY DEF Quarter, Rest
  <2>. QED BY <2>1
<1>2. Quarter(4 * b - 2) = b /\ Rest(4 * b - 2) = 2
  <2>. PICK i \in Nat : i = 4 * b - 2 /\ i >= 1
    OBVIOUS
  <2>1. Quarter(i) = b /\ Rest(i) = 2
    BY DEF Quarter, Rest
  <2>. QED BY <2>1
<1>3. Quarter(4 * b - 1) = b /\ Rest(4 * b - 1) = 3
  <2>. PICK i \in Nat : i = 4 * b - 1 /\ i >= 1
    OBVIOUS
  <2>1. Quarter(i) = b /\ Rest(i) = 3
    BY DEF Quarter, Rest
  <2>. QED BY <2>1
<1>4. Quarter(4 * b) = b /\ Rest(4 * b) = 4
  <2>. PICK i \in Nat : i = 4 * b /\ i >= 1
    OBVIOUS
  <2>1. Quarter(i) = b /\ Rest(i) = 4
    BY DEF Quarter, Rest
  <2>. QED BY <2>1
<1>. QED BY <1>1, <1>2, <1>3, <1>4

LEMMA EventAt ==
  ASSUME NEW a \in Seq(Event), NEW x \in 1..Len(a)
  PROVE  a[x] \in Event
OBVIOUS

LEMMA IntroductionEvents ==
  ASSUME OMInv, NEW m \in Nat
  PROVE  \E order \in Seq(Outputs) : \E s \in Seq(Event) :
           /\ s = Introduction(m) /\ Introduced(s, m, order)
           /\ \A b \in 1..Len(order) : order[b] \in monitors.plugged
           /\ \A a, b \in 1..Len(order) : order[a] = order[b] => a = b
           /\ \A n \in monitors.plugged : \E b \in 1..Len(order) : order[b] = n
<1>. DEFINE P == monitors.plugged
            L == Cardinality(P)
            order == SetToSeq(P)
<1>1. P \subseteq Outputs /\ IsFiniteSet(P)
  <2>1. P \subseteq Outputs
    BY DEF OMInv, MonitorsOK
  <2>. HIDE DEF P
  <2>. QED BY <2>1, OutputsAssumption, FS_Subset
<1>2. /\ order \in [1..L -> P] /\ L \in Nat
      /\ \A a, b \in 1..L : order[a] = order[b] => a = b
      /\ \A x \in P : \E b \in 1..L : order[b] = x
  <2>. HIDE DEF P
  <2>. QED BY <1>1, SetOrder
<1>. DEFINE t == [i \in 1..4 * Len(order) |-> Announcement(m, order[Quarter(i)])[Rest(i)]]
            z == ManagerDone(m, 1)
<1>3. Introduction(m) = t \o z
  BY Zenon DEF Introduction, Quarter, Rest
<1>. HIDE DEF order, L, P
<1>4. order \in Seq(Outputs) /\ Len(order) = L /\ \A b \in 1..L : order[b] \in Outputs
  BY <1>1, <1>2
<1>5. ASSUME NEW b \in 1..L
      PROVE  LET a == Announcement(m, order[b])
             IN /\ a \in Seq(Event) /\ Len(a) = 4
                /\ a[1].to = m /\ a[1].op = "head" /\ a[1].arg = HeadID(order[b])
                /\ a[2].to = HeadID(order[b]) /\ a[2].op = "mode" /\ a[2].arg = ModeID(order[b])
                /\ a[3].to = ModeID(order[b]) /\ a[3].op = "preferred"
                /\ a[4].to = HeadID(order[b]) /\ a[4].op = "properties"
  <2>. PICK n \in Outputs : n = order[b]
    BY <1>4
  <2>. QED BY AnnouncementEvents
<1>6. /\ DOMAIN t = 1..4 * L
      /\ \A i \in 1..4 * L : t[i] = Announcement(m, order[Quarter(i)])[Rest(i)]
  BY <1>4
<1>. HIDE DEF t, z
<1>7. \A i \in 1..4 * L : Quarter(i) \in 1..L /\ Rest(i) \in 1..4
  <2>. SUFFICES ASSUME NEW i \in 1..4 * L PROVE Quarter(i) \in 1..L /\ Rest(i) \in 1..4
    OBVIOUS
  <2>1. L \in Nat /\ i \in Nat /\ i >= 1 /\ i <= 4 * L
    BY <1>2
  <2>. QED BY <2>1, Quarters
<1>8. \A i \in 1..4 * L : t[i] \in Event
  <2>. SUFFICES ASSUME NEW i \in 1..4 * L PROVE t[i] \in Event
    OBVIOUS
  <2>. PICK b \in 1..L, c \in 1..4 : b = Quarter(i) /\ c = Rest(i)
    BY <1>7
  <2>. DEFINE a == Announcement(m, order[b])
  <2>1. a \in Seq(Event) /\ Len(a) = 4 /\ t[i] = a[c]
    BY <1>5, <1>6
  <2>. HIDE DEF a
  <2>2. c \in 1..Len(a)
    BY <2>1
  <2>. QED BY <2>1, <2>2, EventAt
<1>9. t \in Seq(Event) /\ Len(t) = 4 * L
  <2>. PICK k \in Nat : k = 4 * L
    BY <1>2
  <2>1. t \in [1..k -> Event]
    BY <1>6, <1>8 DEF t
  <2>. QED BY <2>1, EventSequence
<1>. PICK f \in Event : z = <<f>> /\ f.to = m /\ f.op = "manager_done"
  BY DoneEvent DEF z
<1>. DEFINE s == t \o <<f>>
<1>10. /\ s \in Seq(Event) /\ DOMAIN s = 1..(4 * L + 1) /\ \A k \in 1..4 * L : s[k] = t[k]
       /\ s[4 * L + 1] = f
  <2>1. /\ s \in Seq(Event) /\ DOMAIN s = 1..(Len(t) + 1) /\ \A k \in 1..Len(t) : s[k] = t[k]
        /\ s[Len(t) + 1] = f
    BY <1>9, DoneLast
  <2>. HIDE DEF s
  <2>. QED BY <1>9, <2>1
<1>11. s = Introduction(m)
  BY <1>3
<1>. HIDE DEF s
<1>12. ASSUME NEW b \in 1..Len(order)
       PROVE  /\ s[4 * b - 3].to = m /\ s[4 * b - 3].op = "head"
              /\ s[4 * b - 3].arg = HeadID(order[b])
              /\ s[4 * b - 2].to = HeadID(order[b]) /\ s[4 * b - 2].op = "mode"
              /\ s[4 * b - 2].arg = ModeID(order[b])
              /\ s[4 * b - 1].to = ModeID(order[b]) /\ s[4 * b - 1].op = "preferred"
              /\ s[4 * b].to = HeadID(order[b]) /\ s[4 * b].op = "properties"
  <2>1. /\ b \in 1..L /\ b \in Nat /\ b >= 1
        /\ 4 * b - 3 \in 1..4 * L /\ 4 * b - 2 \in 1..4 * L
        /\ 4 * b - 1 \in 1..4 * L /\ 4 * b \in 1..4 * L
    BY <1>2, <1>4
  <2>. DEFINE a == Announcement(m, order[b])
  <2>2. s[4 * b - 3] = a[1] /\ s[4 * b - 2] = a[2] /\ s[4 * b - 1] = a[3] /\ s[4 * b] = a[4]
    <3>1. /\ s[4 * b - 3] = t[4 * b - 3] /\ s[4 * b - 2] = t[4 * b - 2]
          /\ s[4 * b - 1] = t[4 * b - 1] /\ s[4 * b] = t[4 * b]
      BY <1>10, <2>1
    <3>2. /\ t[4 * b - 3] = a[1] /\ t[4 * b - 2] = a[2]
          /\ t[4 * b - 1] = a[3] /\ t[4 * b] = a[4]
      BY <1>6, <2>1, QuarterOf, Zenon
    <3>. QED BY <3>1, <3>2
  <2>3. /\ a[1].to = m /\ a[1].op = "head" /\ a[1].arg = HeadID(order[b])
        /\ a[2].to = HeadID(order[b]) /\ a[2].op = "mode" /\ a[2].arg = ModeID(order[b])
        /\ a[3].to = ModeID(order[b]) /\ a[3].op = "preferred"
        /\ a[4].to = HeadID(order[b]) /\ a[4].op = "properties"
    BY <1>5, <2>1
  <2>. HIDE DEF a
  <2>. QED BY <2>2, <2>3
<1>13. Introduced(s, m, order)
  BY <1>4, <1>10, <1>12 DEF Introduced
<1>14. /\ \A b \in 1..Len(order) : order[b] \in monitors.plugged
       /\ \A a, b \in 1..Len(order) : order[a] = order[b] => a = b
       /\ \A n \in monitors.plugged : \E b \in 1..Len(order) : order[b] = n
  BY <1>2, <1>4 DEF P
<1>. QED BY <1>4, <1>10, <1>11, <1>13, <1>14

\* Who waits for what when the manager is about to be bound.
LEMMA Binding ==
  ASSUME OMInv, pc = "bind"
  PROVE  /\ pump = "off" /\ rt.phase = "idle" /\ rt.id = 0 /\ ~ Ending
         /\ om.manager = 0 /\ DOMAIN om.heads = {} /\ ~ om.hasSerial /\ monitors.bound = 0
         /\ ~ om.signal /\ display.open /\ display.accepted
         /\ monitors.plugged = Plugged
         /\ display.nextID \in Nat /\ display.nextID >= 4 /\ display.nextID <= 4 + Seen
         /\ Seen \in Nat /\ Seen + 6 <= FirstServerID /\ display.nextID < FirstServerID
         /\ KindAt(display, display.nextID) = "none"
         /\ \A n \in Outputs : HeadID(n) # display.nextID /\ ModeID(n) # display.nextID
<1>1. pump = "off" /\ rt.phase = "idle"
  BY DEF OMInv, ControlOK
<1>2. rt.id = 0 /\ ~ Ending /\ display.open /\ display.accepted
  BY <1>1 DEF OMInv, ControlOK, IdsOK, Ending
<1>3. om.manager = 0 /\ DOMAIN om.heads = {} /\ ~ om.hasSerial /\ monitors.bound = 0 /\ ~ om.signal
  BY <1>1 DEF OMInv, ControlOK
<1>4. monitors.plugged = Plugged
  BY <1>1 DEF OMInv, MonitorsOK
<1>5. /\ display.nextID \in Nat /\ display.nextID >= 4 /\ display.nextID <= 4 + Seen
      /\ Seen \in Nat /\ Seen + 6 <= FirstServerID
  BY <1>1, NextID DEF OMInv, IdsOK
<1>6. display.nextID < FirstServerID
  BY <1>5, ServerIDs
<1>7. KindAt(display, display.nextID) = "none"
  BY <1>5, <1>6, ServerIDs DEF OMInv, ObjectsOK
<1>8. \A n \in Outputs : HeadID(n) # display.nextID /\ ModeID(n) # display.nextID
  BY <1>5, <1>6, ServerIDs
<1>. QED BY <1>1, <1>2, <1>3, <1>4, <1>5, <1>6, <1>7, <1>8

\* What waits then is not for the new object, and stays as it should be.
LEMMA BindingWaits ==
  ASSUME OMInv, pc = "bind", NEW q \in Seq(Event), q = display.incoming,
         rt'.phase # "request", display'.nextID = display.nextID + 1,
         display'.globals = display.globals,
         \A i : i # display.nextID => KindAt(display', i) = KindAt(display, i),
         om'.heads = om.heads, om'.manager \in {0, display.nextID},
         monitors'.bound \in {0, display.nextID},
         monitors'.plugged = monitors.plugged, monitors'.used = monitors.used
  PROVE  /\ QueueOK(q)'
         /\ \A j \in DOMAIN q :
              /\ q[j] \in Event /\ EventOK(q[j])
              /\ q[j].op \notin {"head", "manager_done", "manager_finished"}
              /\ ~ Drops(q[j], display.nextID)
<1>1. /\ om.manager = 0 /\ monitors.bound = 0 /\ rt.phase = "idle" /\ ~ Ending
      /\ display.nextID \in Nat /\ display.nextID >= 4
      /\ \A n \in Outputs : HeadID(n) # display.nextID /\ ModeID(n) # display.nextID
  BY Binding
<1>2. Seen' = Seen
  BY DEF Seen
<1>3. ASSUME NEW e \in Event, EventOK(e)
      PROVE  /\ EventOK(e)' /\ (Found(e) => Found(e)')
             /\ e.op \notin {"head", "manager_done", "manager_finished"}
             /\ ~ Drops(e, display.nextID)
  <2>1. e.op \notin {"head", "manager_done", "manager_finished"}
    BY <1>1, <1>3 DEF EventOK, ManagerEventOK
  <2>2. e.to # display.nextID
    BY <1>1, <1>3, Targets
  <2>3. ~ Drops(e, display.nextID)
    BY <1>1, <1>3, WhatDrops
  <2>4. \A i : Allocated(i) => Allocated(i)' /\ ~ Reserved(i)' /\ i # display.nextID
    BY <1>1 DEF Allocated, Reserved
  <2>5. \A i : Allocated(i) => i # om'.manager
    <3>1. \A i : Allocated(i) => i # 0
      BY DEF Allocated
    <3>. QED BY <2>4, <3>1
  <2>6. ClientEventOK(e)'
    BY <1>3, <2>4, <2>5 DEF EventOK, ClientEventOK
  <2>7. ManagerEventOK(e)'
    BY <2>1 DEF ManagerEventOK
  <2>8. OutputEventOK(e)'
    BY <1>3 DEF EventOK, OutputEventOK
  <2>9. Found(e) => Found(e)'
    BY <1>1, <2>2 DEF Found, MayMiss
  <2>. QED BY <2>1, <2>3, <2>6, <2>7, <2>8, <2>9 DEF EventOK
<1>4. QueueOK(q)
  BY DEF OMInv
<1>5. QueueOK(q)'
  BY <1>2, <1>3, <1>4, QueueKeeps
<1>6. \A j \in DOMAIN q : q[j] \in Event /\ EventOK(q[j])
  BY Waiting
<1>. QED BY <1>3, <1>5, <1>6

LEMMA BindFailsKeeps ==
  ASSUME OMInv, BindManager, ~ CanWrite(display)
  PROVE  OMInv'
<1>0. /\ OMInv /\ ShapesOK /\ IdsOK /\ ControlOK /\ MonitorsOK /\ ObjectsOK /\ Shaped(display)
      /\ pc = "bind"
  BY DEF OMInv, ShapesOK, BindManager
<1>. PICK id \in Nat : id = display.nextID
  BY NextID
<1>. DEFINE k == "manager"
            a == AllocateID(display)
            g == Register(a, id, k)
            r == Unregister(g, id)
<1>1. /\ display' = r /\ pc' = "failed" /\ UNCHANGED <<om, monitors, pump, rt>>
  BY DEF BindManager, Bind
<1>2. /\ Shaped(a) /\ a.incoming = display.incoming /\ a.nextID = display.nextID + 1
      /\ a.globals = display.globals /\ a.gone = display.gone /\ a.open = display.open
      /\ a.accepted = display.accepted
      /\ \A i : KindAt(a, i) = KindAt(display, i)
  BY <1>0, ShapedAllocate
<1>. HIDE DEF a, k
<1>3. /\ Shaped(g) /\ g.incoming = a.incoming /\ g.nextID = a.nextID
      /\ g.globals = a.globals /\ g.gone = a.gone /\ g.open = a.open
      /\ g.accepted = a.accepted
      /\ \A i : KindAt(g, i) = IF i = id THEN k ELSE KindAt(a, i)
  BY <1>2, ShapedRegister
<1>. HIDE DEF g
<1>4. /\ Shaped(r) /\ r.incoming = g.incoming /\ r.nextID = g.nextID
      /\ r.globals = g.globals /\ r.gone = g.gone /\ r.open = g.open
      /\ r.accepted = g.accepted
      /\ \A i : KindAt(r, i) = IF i = id THEN "none" ELSE KindAt(g, i)
  BY <1>3, ShapedUnregister
<1>. HIDE DEF r
<1>5. /\ pump = "off" /\ rt.phase = "idle" /\ rt.id = 0 /\ monitors.bound = 0
      /\ om.manager = 0 /\ id >= 4 /\ id <= 4 + Seen /\ id < FirstServerID
      /\ KindAt(display, id) = "none"
  BY <1>0, Binding
<1>6. \A i : KindAt(r, i) = KindAt(display, i)
  BY <1>2, <1>3, <1>4, <1>5
<1>7. /\ display'.incoming = display.incoming /\ display'.nextID = id + 1
      /\ display'.globals = display.globals /\ display'.gone = display.gone
      /\ display'.open = display.open /\ display'.accepted = display.accepted
      /\ Shaped(display') /\ Seen' = Seen
  BY <1>1, <1>2, <1>3, <1>4 DEF Seen
<1>8. QueueOK(display.incoming)' /\ display'.incoming \in Seq(Event)
  <2>. PICK q \in Seq(Event) : q = display.incoming
    BY <1>0 DEF ShapesOK
  <2>1. QueueOK(q)'
    BY <1>0, <1>1, <1>5, <1>6, <1>7, BindingWaits
  <2>. QED BY <1>7, <2>1
<1>9. ObjectsOK'
  <2>1. \A i \in (id + 1)..(FirstServerID - 1) : KindAt(display, i) = "none"
    BY <1>0, ServerIDs DEF ObjectsOK
  <2>. QED BY <1>0, <1>1, <1>5, <1>6, <1>7, <2>1 DEF ObjectsOK
<1>10. BoundOK'
  BY <1>1, <1>5 DEF BoundOK
<1>11. IdsOK'
  <2>1. DOMAIN display'.globals = 1..Seen' /\ Seen' \in Nat /\ Seen' + 6 <= FirstServerID
    BY <1>0, <1>7 DEF IdsOK
  <2>2. display'.nextID >= 3 /\ display'.nextID <= 6 + Seen'
    BY <1>5, <1>7, <2>1
  <2>. QED BY <1>1, <1>5, <1>7, <2>1, <2>2 DEF IdsOK
<1>12. ControlOK'
  BY <1>0, <1>1, <1>5, <1>7 DEF ControlOK
<1>13. MonitorsOK'
  BY <1>0, <1>1 DEF MonitorsOK
<1>14. InitialOK'
  BY <1>1, <1>5 DEF InitialOK
<1>15. ShapesOK'
  BY <1>0, <1>1, <1>7, <1>8 DEF ShapesOK
<1>. QED BY <1>8, <1>9, <1>10, <1>11, <1>12, <1>13, <1>14, <1>15 DEF OMInv

\* The step in which the manager is bound, but for what the compositor answers.
BindStep(id) ==
  /\ OMInv /\ pc = "bind" /\ id \in Nat /\ id = display.nextID /\ ~ display.gone
  /\ Shaped(display') /\ display'.nextID = id + 1 /\ display'.globals = display.globals
  /\ display'.open = display.open /\ display'.accepted = display.accepted
  /\ \A i : KindAt(display', i) = IF i = id THEN "manager" ELSE KindAt(display, i)
  /\ om' = [heads |-> om.heads, hasSerial |-> om.hasSerial, serial |-> om.serial,
            signal |-> om.signal, manager |-> id]
  /\ monitors' = [plugged |-> monitors.plugged, used |-> monitors.used, bound |-> id, serial |-> 1]
  /\ rt' = [phase |-> "allocate", id |-> 0, done |-> FALSE, count |-> 0]
  /\ pump' = "on" /\ pc' = "outputs"
BindAnswered(id) ==
  \/ display'.incoming = display.incoming \o Introduction(id) /\ display'.gone = display.gone
  \/ display'.incoming = display.incoming \o Failure(id) /\ display'.gone

LEMMA BindMeans ==
  ASSUME OMInv, BindManager, CanWrite(display)
  PROVE  BindStep(display.nextID) /\ BindAnswered(display.nextID)
<1>0. /\ OMInv /\ ShapesOK /\ Shaped(display) /\ pc = "bind" /\ ~ display.gone
  BY DEF OMInv, ShapesOK, BindManager, CanWrite
<1>. PICK id \in Nat : id = display.nextID
  BY NextID
<1>. DEFINE k == "manager"
            a == AllocateID(display)
            g == Register(a, id, k)
            s == Introduction(id)
            r == Creates(g, id, k, s)
            one == 1
<1>1. /\ display' = r /\ pc' = "outputs" /\ pump' = "on" /\ rt' = Begun
      /\ om' = [om EXCEPT !.manager = id]
      /\ monitors' = [monitors EXCEPT !.bound = id, !.serial = one]
  BY DEF BindManager, Bind
<1>2. /\ Shaped(a) /\ a.incoming = display.incoming /\ a.nextID = display.nextID + 1
      /\ a.globals = display.globals /\ a.gone = display.gone /\ a.open = display.open
      /\ a.accepted = display.accepted
      /\ \A i : KindAt(a, i) = KindAt(display, i)
  BY <1>0, ShapedAllocate
<1>. HIDE DEF a, k, s, one
<1>3. /\ Shaped(g) /\ g.incoming = a.incoming /\ g.nextID = a.nextID
      /\ g.globals = a.globals /\ g.gone = a.gone /\ g.open = a.open
      /\ g.accepted = a.accepted
      /\ \A i : KindAt(g, i) = IF i = id THEN k ELSE KindAt(a, i)
  BY <1>2, ShapedRegister
<1>. HIDE DEF g
<1>4. /\ Shaped(r) /\ r.nextID = g.nextID
      /\ r.globals = g.globals /\ r.open = g.open
      /\ r.accepted = g.accepted
      /\ Answering(g, r, id, s)
      /\ \A i : KindAt(r, i) = KindAt(g, i)
  <2>1. Shaped(g)
    BY <1>3
  <2>. QED BY <2>1, CreatesAnswers
<1>. HIDE DEF r
<1>5. BindAnswered(display.nextID)
  <2>1. /\ \/ r.incoming = display.incoming \o s /\ r.gone = display.gone
           \/ r.incoming = display.incoming \o Failure(id) /\ r.gone
    BY <1>2, <1>3, <1>4 DEF Answering
  <2>. QED BY <1>1, <2>1 DEF BindAnswered, s
<1>6. \A i : KindAt(r, i) = IF i = id THEN "manager" ELSE KindAt(display, i)
  BY <1>2, <1>3, <1>4 DEF k
<1>7. om' = [heads |-> om.heads, hasSerial |-> om.hasSerial, serial |-> om.serial,
             signal |-> om.signal, manager |-> id]
  BY <1>0, <1>1 DEF ShapesOK
<1>8. monitors' = [plugged |-> monitors.plugged, used |-> monitors.used, bound |-> id, serial |-> 1]
  <2>. DEFINE b == [monitors EXCEPT !.bound = id]
  <2>1. b = [plugged |-> monitors.plugged, used |-> monitors.used, bound |-> id,
             serial |-> monitors.serial]
    BY SameMonitors
  <2>2. monitors' = [b EXCEPT !.serial = one]
    BY <1>1
  <2>. HIDE DEF b
  <2>3. monitors' = [plugged |-> monitors.plugged, used |-> monitors.used, bound |-> id,
                     serial |-> one]
    BY <2>1, <2>2
  <2>. QED BY <2>3 DEF one
<1>9. rt' = [phase |-> "allocate", id |-> 0, done |-> FALSE, count |-> 0]
  BY <1>1 DEF Begun, Idle
<1>10. /\ Shaped(r) /\ r.nextID = id + 1 /\ r.globals = display.globals /\ r.open = display.open
       /\ r.accepted = display.accepted
  BY <1>2, <1>3, <1>4
<1>11. BindStep(display.nextID)
  BY <1>0, <1>1, <1>6, <1>7, <1>8, <1>9, <1>10 DEF BindStep
<1>. QED BY <1>5, <1>11

LEMMA BindFields ==
  ASSUME NEW id, BindStep(id)
  PROVE  /\ om'.heads = om.heads /\ om'.hasSerial = om.hasSerial /\ om'.manager = id
         /\ om'.signal = om.signal /\ ~ om'.hasSerial /\ ~ om'.signal /\ DOMAIN om.heads = {}
         /\ om' = [heads |-> om'.heads, hasSerial |-> om'.hasSerial, serial |-> om'.serial,
                   signal |-> om'.signal, manager |-> om'.manager]
         /\ monitors'.plugged = monitors.plugged /\ monitors'.used = monitors.used
         /\ monitors'.bound = id /\ monitors'.serial = 1
         /\ monitors' = [plugged |-> monitors'.plugged, used |-> monitors'.used,
                         bound |-> monitors'.bound, serial |-> monitors'.serial]
         /\ rt'.phase = "allocate" /\ rt'.id = 0
         /\ rt' = [phase |-> rt'.phase, id |-> rt'.id, done |-> rt'.done, count |-> rt'.count]
         /\ id >= 4 /\ id <= 4 + Seen /\ id < FirstServerID /\ id \in Nat /\ Seen' = Seen
         /\ KindAt(display', id) = "manager" /\ KindAt(display', DisplayID) = "display"
         /\ monitors.plugged \subseteq Outputs /\ monitors.plugged \subseteq monitors.used
<1>1. /\ OMInv /\ pc = "bind" /\ id = display.nextID /\ id \in Nat
      /\ display'.globals = display.globals
      /\ \A i : KindAt(display', i) = IF i = id THEN "manager" ELSE KindAt(display, i)
  BY DEF BindStep
<1>2. om' = [heads |-> om.heads, hasSerial |-> om.hasSerial, serial |-> om.serial,
             signal |-> om.signal, manager |-> id]
  BY DEF BindStep
<1>3. /\ om'.heads = om.heads /\ om'.hasSerial = om.hasSerial /\ om'.manager = id
      /\ om'.signal = om.signal
      /\ om' = [heads |-> om'.heads, hasSerial |-> om'.hasSerial, serial |-> om'.serial,
                signal |-> om'.signal, manager |-> om'.manager]
  BY <1>2
<1>4. monitors' = [plugged |-> monitors.plugged, used |-> monitors.used, bound |-> id, serial |-> 1]
  BY DEF BindStep
<1>5. /\ monitors'.plugged = monitors.plugged /\ monitors'.used = monitors.used
      /\ monitors'.bound = id /\ monitors'.serial = 1
      /\ monitors' = [plugged |-> monitors'.plugged, used |-> monitors'.used,
                      bound |-> monitors'.bound, serial |-> monitors'.serial]
  BY <1>4
<1>6. rt' = [phase |-> "allocate", id |-> 0, done |-> FALSE, count |-> 0]
  BY DEF BindStep
<1>7. /\ rt'.phase = "allocate" /\ rt'.id = 0
      /\ rt' = [phase |-> rt'.phase, id |-> rt'.id, done |-> rt'.done, count |-> rt'.count]
  BY <1>6
<1>8. /\ id >= 4 /\ id <= 4 + Seen /\ id < FirstServerID
      /\ ~ om.hasSerial /\ ~ om.signal /\ DOMAIN om.heads = {}
  BY <1>1, Binding
<1>9. Seen' = Seen
  BY <1>1 DEF Seen
<1>10. KindAt(display', id) = "manager" /\ KindAt(display', DisplayID) = "display"
  BY <1>1, <1>8 DEF OMInv, ObjectsOK, DisplayID
<1>11. monitors.plugged \subseteq Outputs /\ monitors.plugged \subseteq monitors.used
  BY <1>1 DEF OMInv, MonitorsOK
<1>. QED BY <1>1, <1>3, <1>5, <1>7, <1>8, <1>9, <1>10, <1>11

\* What the list of events is made of.
LEMMA IntroducedEvents ==
  ASSUME NEW m \in Nat, NEW order \in Seq(Outputs), NEW s \in Seq(Event), Introduced(s, m, order),
         NEW k \in DOMAIN s
  PROVE  \/ s[k].to = m /\ s[k].op = "manager_done" /\ k = 4 * Len(order) + 1
         \/ \E b \in 1..Len(order) :
              \/ k = 4 * b - 3 /\ s[k].to = m /\ s[k].op = "head" /\ s[k].arg = HeadID(order[b])
              \/ k = 4 * b - 2 /\ s[k].to = HeadID(order[b]) /\ s[k].op = "mode"
                 /\ s[k].arg = ModeID(order[b])
              \/ k = 4 * b - 1 /\ s[k].to = ModeID(order[b]) /\ s[k].op = "preferred"
              \/ k = 4 * b /\ s[k].to = HeadID(order[b]) /\ s[k].op = "properties"
<1>1. k \in 1..(4 * Len(order) + 1) /\ k \in Nat /\ k >= 1 /\ Len(order) \in Nat
  BY DEF Introduced
<1>2. CASE k = 4 * Len(order) + 1
  BY <1>2 DEF Introduced
<1>3. CASE k # 4 * Len(order) + 1
  <2>. PICK b \in Nat : b = Quarter(k)
    BY <1>1, Quarters
  <2>1. b >= 1 /\ (k = 4 * b - 3 \/ k = 4 * b - 2 \/ k = 4 * b - 1 \/ k = 4 * b)
    BY <1>1, Quarters
  <2>2. b \in 1..Len(order)
    BY <1>1, <1>3, <2>1
  <2>3. CASE k = 4 * b - 3
    BY <2>2, <2>3 DEF Introduced
  <2>4. CASE k = 4 * b - 2
    BY <2>2, <2>4 DEF Introduced
  <2>5. CASE k = 4 * b - 1
    BY <2>2, <2>5 DEF Introduced
  <2>6. CASE k = 4 * b
    BY <2>2, <2>6 DEF Introduced
  <2>. QED BY <2>1, <2>3, <2>4, <2>5, <2>6
<1>. QED BY <1>2, <1>3

LEMMA IntroducedDone ==
  ASSUME NEW order \in Seq(Outputs), NEW s \in Seq(Event), NEW m, Introduced(s, m, order),
         NEW k \in DOMAIN s, k # 4 * Len(order) + 1
  PROVE  s[k].op # "manager_done"
<1>1. k \in 1..(4 * Len(order) + 1) /\ k \in Nat /\ k >= 1 /\ Len(order) \in Nat
  BY DEF Introduced
<1>. PICK b \in Nat : b = Quarter(k)
  BY <1>1, Quarters
<1>2. b >= 1 /\ (k = 4 * b - 3 \/ k = 4 * b - 2 \/ k = 4 * b - 1 \/ k = 4 * b)
  BY <1>1, Quarters
<1>3. b \in 1..Len(order)
  BY <1>1, <1>2
<1>4. /\ s[4 * b - 3].op = "head" /\ s[4 * b - 2].op = "mode"
      /\ s[4 * b - 1].op = "preferred" /\ s[4 * b].op = "properties"
  BY <1>3 DEF Introduced
<1>. QED BY <1>2, <1>4

LEMMA IntroducedHead ==
  ASSUME NEW order \in Seq(Outputs), NEW s \in Seq(Event), NEW m, Introduced(s, m, order),
         NEW k \in DOMAIN s, s[k].op = "head"
  PROVE  \E b \in 1..Len(order) : k = 4 * b - 3 /\ s[k].arg = HeadID(order[b])
<1>1. /\ k \in 1..(4 * Len(order) + 1) /\ k \in Nat /\ k >= 1 /\ Len(order) \in Nat
      /\ s[4 * Len(order) + 1].op = "manager_done"
  BY DEF Introduced
<1>2. k # 4 * Len(order) + 1
  BY <1>1
<1>. PICK b \in Nat : b = Quarter(k)
  BY <1>1, Quarters
<1>3. b >= 1 /\ (k = 4 * b - 3 \/ k = 4 * b - 2 \/ k = 4 * b - 1 \/ k = 4 * b)
  BY <1>1, Quarters
<1>4. b \in 1..Len(order)
  BY <1>1, <1>2, <1>3
<1>5. /\ s[4 * b - 3].arg = HeadID(order[b]) /\ s[4 * b - 2].op = "mode"
      /\ s[4 * b - 1].op = "preferred" /\ s[4 * b].op = "properties"
  BY <1>4 DEF Introduced
<1>6. k = 4 * b - 3
  BY <1>3, <1>5
<1>. QED BY <1>4, <1>5, <1>6

\* The list of the compositor's first events may follow what waits.
LEMMA IntroductionQueues ==
  ASSUME NEW id, BindStep(id), NEW q \in Seq(Event), QueueOK(q)',
         NEW order \in Seq(Outputs), NEW s \in Seq(Event), Introduced(s, id, order),
         \A b \in 1..Len(order) : order[b] \in monitors.plugged,
         \A a, b \in 1..Len(order) : order[a] = order[b] => a = b,
         \A j \in DOMAIN q :
           /\ q[j] \in Event /\ EventOK(q[j])
           /\ q[j].op \notin {"head", "manager_done", "manager_finished"}
           /\ ~ Drops(q[j], id)
  PROVE  QueueOK(q \o s)'
<1>1. /\ OMInv /\ om'.heads = om.heads /\ om'.manager = id /\ DOMAIN om.heads = {}
      /\ monitors'.used = monitors.used /\ monitors.plugged \subseteq monitors.used
      /\ monitors.plugged \subseteq Outputs
      /\ id \in Nat /\ id >= 4 /\ id < FirstServerID /\ KindAt(display', id) = "manager"
  BY BindFields DEF BindStep
<1>2. Len(order) \in Nat /\ DOMAIN s = 1..(4 * Len(order) + 1)
  BY DEF Introduced
<1>3. ASSUME NEW k \in DOMAIN s
      PROVE  /\ EventOK(s[k])' /\ s[k].op # "global"
             /\ Found(s[k])' \/ \E j \in 1..(k - 1) : Adds(s[j], s[k].to)
             /\ \A j \in DOMAIN q : PairOK(q[j], s[k])
             /\ \A x : ~ Drops(s[k], x)
             /\ s[k].to # 3
  <2>1. CASE s[k].to = id /\ s[k].op = "manager_done"
    <3>1. EventOK(s[k])'
      BY <1>1, <2>1 DEF EventOK, ClientEventOK, ManagerEventOK, OutputEventOK
    <3>2. Found(s[k])'
      BY <1>1, <2>1 DEF Found, KindOf
    <3>3. \A j \in DOMAIN q : PairOK(q[j], s[k])
      BY <1>1, <2>1 DEF PairOK
    <3>4. \A x : ~ Drops(s[k], x)
      BY <2>1 DEF Drops
    <3>. QED BY <1>1, <2>1, <3>1, <3>2, <3>3, <3>4
  <2>2. ASSUME NEW b \in 1..Len(order),
               \/ k = 4 * b - 3 /\ s[k].to = id /\ s[k].op = "head"
                  /\ s[k].arg = HeadID(order[b])
               \/ k = 4 * b - 2 /\ s[k].to = HeadID(order[b]) /\ s[k].op = "mode"
                  /\ s[k].arg = ModeID(order[b])
               \/ k = 4 * b - 1 /\ s[k].to = ModeID(order[b]) /\ s[k].op = "preferred"
               \/ k = 4 * b /\ s[k].to = HeadID(order[b]) /\ s[k].op = "properties"
        PROVE  /\ EventOK(s[k])' /\ s[k].op # "global"
               /\ Found(s[k])' \/ \E j \in 1..(k - 1) : Adds(s[j], s[k].to)
               /\ \A j \in DOMAIN q : PairOK(q[j], s[k])
               /\ \A x : ~ Drops(s[k], x)
               /\ s[k].to # 3
    <3>. PICK n \in Outputs : n = order[b] /\ n \in monitors.plugged
      BY <1>1
    <3>1. n \in monitors'.used
      BY <1>1
    <3>2. b \in Nat /\ b >= 1
      BY <1>2
    <3>3. EventOK(s[k])'
      BY <1>1, <2>2, <3>1 DEF EventOK, ClientEventOK, ManagerEventOK, OutputEventOK
    <3>4. Found(s[k])' \/ \E j \in 1..(k - 1) : Adds(s[j], s[k].to)
      <4>1. CASE s[k].op = "head"
        BY <1>1, <2>2, <4>1 DEF Found, KindOf
      <4>2. CASE s[k].op \in {"mode", "properties"}
        <5>1. s[4 * b - 3].op = "head" /\ s[4 * b - 3].arg = HeadID(n)
          BY DEF Introduced
        <5>2. 4 * b - 3 \in 1..(k - 1) /\ s[k].to = HeadID(n)
          BY <2>2, <3>2, <4>2
        <5>. QED BY <5>1, <5>2 DEF Adds
      <4>3. CASE s[k].op = "preferred"
        <5>1. s[4 * b - 2].op = "mode" /\ s[4 * b - 2].arg = ModeID(n)
          BY DEF Introduced
        <5>2. 4 * b - 2 \in 1..(k - 1) /\ s[k].to = ModeID(n)
          BY <2>2, <3>2, <4>3
        <5>. QED BY <5>1, <5>2 DEF Adds
      <4>. QED BY <2>2, <4>1, <4>2, <4>3
    <3>5. s[k].to = id \/ s[k].to = HeadID(n) \/ s[k].to = ModeID(n)
      BY <2>2
    <3>6. s[k].to # 3
      BY <1>1, <3>5, ServerIDs
    <3>7. s[k].op \in {"head", "mode", "preferred", "properties"}
      BY <2>2
    <3>8. \A j \in DOMAIN q : ~ Drops(q[j], s[k].to)
      BY <1>1, <3>5, NotDropped
    <3>9. \A j \in DOMAIN q : PairOK(q[j], s[k])
      BY <3>6, <3>7, <3>8 DEF PairOK
    <3>10. \A x : ~ Drops(s[k], x)
      BY <3>7 DEF Drops
    <3>. QED BY <3>3, <3>4, <3>6, <3>7, <3>9, <3>10
  <2>. QED BY <1>1, <2>1, <2>2, IntroducedEvents
<1>4. ASSUME NEW k \in DOMAIN s, NEW j \in 1..(k - 1)
      PROVE  PairOK(s[j], s[k])
  <2>1. j \in DOMAIN s /\ j # k
    BY <1>2
  <2>2. ~ Drops(s[j], s[k].to) /\ s[k].op # "global" /\ s[k].to # 3
    BY <1>3, <2>1
  <2>3. ~ (s[j].op = "head" /\ s[k].op = "head" /\ s[j].arg = s[k].arg)
    <3>. SUFFICES ASSUME s[j].op = "head", s[k].op = "head", s[j].arg = s[k].arg PROVE FALSE
      OBVIOUS
    <3>1. PICK a \in 1..Len(order) : j = 4 * a - 3 /\ s[j].arg = HeadID(order[a])
      BY <2>1, IntroducedHead
    <3>2. PICK b \in 1..Len(order) : k = 4 * b - 3 /\ s[k].arg = HeadID(order[b])
      BY IntroducedHead
    <3>3. order[a] = order[b]
      <4>1. order[a] \in Outputs /\ order[b] \in Outputs
        OBVIOUS
      <4>2. HeadID(order[a]) = HeadID(order[b])
        BY <3>1, <3>2
      <4>. QED BY <4>1, <4>2, ServerIDs
    <3>4. a = b
      BY <3>3
    <3>. QED BY <2>1, <3>1, <3>2, <3>4
  <2>. QED BY <2>2, <2>3 DEF PairOK
<1>5. \A k \in DOMAIN s :
        /\ EventOK(s[k])'
        /\ \/ Found(s[k])'
           \/ \E j \in DOMAIN q : Adds(q[j], s[k].to)
           \/ \E j \in 1..(k - 1) : Adds(s[j], s[k].to)
        /\ s[k].op = "global" => s[k].arg = (Seen + 1)'
        /\ \A j \in DOMAIN q : PairOK(q[j], s[k])
        /\ \A j \in 1..(k - 1) : PairOK(s[j], s[k])
  BY <1>3, <1>4
<1>. QED BY <1>5, QueueGrows

\* It tells of every output that is plugged in, before it ends.
LEMMA IntroductionTells ==
  ASSUME NEW id, BindStep(id), NEW q \in Seq(Event),
         NEW order \in Seq(Outputs), NEW s \in Seq(Event), Introduced(s, id, order),
         NoneDone(q), NEW n, NEW b \in 1..Len(order), order[b] = n
  PROVE  Present(q \o s, n)' /\ InTime(q \o s, n)'
<1>. DEFINE r == q \o s
<1>0. \A j \in DOMAIN q : q[j].op # "manager_done"
  BY DEF NoneDone
<1>. PICK l \in Nat : l = Len(q)
  OBVIOUS
<1>1. Len(order) \in Nat /\ DOMAIN s = 1..(4 * Len(order) + 1) /\ b \in Nat /\ b >= 1
  BY DEF Introduced
<1>2. /\ DOMAIN q = 1..l /\ DOMAIN s = 1..Len(s) /\ DOMAIN r = 1..(l + Len(s)) /\ Len(s) \in Nat
      /\ \A i \in 1..l : r[i] = q[i]
      /\ \A i \in 1..Len(s) : r[l + i] = s[i]
  BY JoinIndices
<1>. HIDE DEF r
<1>3. Len(s) = 4 * Len(order) + 1
  BY <1>1, <1>2
<1>4. /\ 4 * b - 3 \in 1..Len(s) /\ 4 * b - 2 \in 1..Len(s) /\ 4 * b \in 1..Len(s)
  BY <1>1, <1>3
<1>5. /\ s[4 * b - 3].op = "head" /\ s[4 * b - 3].arg = HeadID(n)
      /\ s[4 * b - 2].op = "mode" /\ s[4 * b - 2].arg = ModeID(n)
      /\ s[4 * b].op = "properties" /\ s[4 * b].to = HeadID(n)
  BY DEF Introduced
<1>6. PICK h \in DOMAIN r, o \in DOMAIN r, p \in DOMAIN r :
        /\ h = l + (4 * b - 3) /\ o = l + (4 * b - 2) /\ p = l + 4 * b
        /\ r[h] = s[4 * b - 3] /\ r[o] = s[4 * b - 2] /\ r[p] = s[4 * b]
  BY <1>2, <1>4
<1>7. Present(r, n)'
  <2>1. Adds(r[h], HeadID(n)) /\ Adds(r[o], ModeID(n))
    BY <1>5, <1>6 DEF Adds
  <2>2. Adding(r, HeadID(n)) /\ Adding(r, ModeID(n))
    BY <2>1 DEF Adding
  <2>. QED BY <2>2 DEF Present
<1>8. InTime(r, n)'
  <2>1. ASSUME NEW i \in 1..(p - 1) PROVE r[i].op # "manager_done"
    <3>0. p \in Nat /\ p = l + 4 * b
      BY <1>1, <1>6
    <3>1. i \in Nat /\ i >= 1 /\ i < l + 4 * b
      BY <3>0
    <3>2. CASE i <= l
      <4>1. i \in 1..l
        BY <3>1, <3>2
      <4>2. r[i] = q[i] /\ q[i].op # "manager_done"
        BY <1>0, <1>2, <4>1
      <4>. QED BY <4>2
    <3>3. CASE i > l
      <4>. PICK c \in Nat : c = i - l
        BY <3>1, <3>3
      <4>1. c >= 1 /\ c < 4 * b /\ i = l + c
        BY <1>1, <3>1, <3>3
      <4>2. c < 4 * Len(order) + 1
        BY <1>1, <4>1
      <4>3. c \in 1..Len(s) /\ c \in DOMAIN s
        BY <1>1, <1>3, <4>1, <4>2
      <4>4. r[i] = s[c]
        BY <1>2, <4>1, <4>3
      <4>5. s[c].op # "manager_done"
        <5>1. c # 4 * Len(order) + 1
          BY <1>1, <4>2
        <5>. QED BY <4>3, <5>1, IntroducedDone
      <4>. QED BY <4>4, <4>5
    <3>. QED BY <3>1, <3>2, <3>3
  <2>2. h \in 1..(p - 1) /\ r[h].op = "head" /\ r[h].arg = HeadID(n)
    <3>1. h \in Nat /\ p \in Nat /\ h >= 1 /\ h < p
      BY <1>1, <1>6
    <3>2. r[h].op = "head" /\ r[h].arg = HeadID(n)
      BY <1>5, <1>6
    <3>. QED BY <3>1, <3>2
  <2>3. r[p].op = "properties" /\ r[p].to = HeadID(n)
    BY <1>5, <1>6
  <2>. QED BY <2>1, <2>2, <2>3 DEF InTime
<1>. QED BY <1>7, <1>8 DEF r

LEMMA BindsKeeps ==
  ASSUME NEW id, BindStep(id), BindAnswered(id)
  PROVE  OMInv'
<1>0. /\ OMInv /\ ShapesOK /\ IdsOK /\ ControlOK /\ MonitorsOK /\ ObjectsOK /\ pc = "bind"
      /\ id \in Nat /\ id = display.nextID /\ ~ display.gone
      /\ pump' = "on" /\ pc' = "outputs"
      /\ Shaped(display') /\ display'.nextID = id + 1 /\ display'.globals = display.globals
      /\ display'.open = display.open /\ display'.accepted = display.accepted
      /\ \A i : KindAt(display', i) = IF i = id THEN "manager" ELSE KindAt(display, i)
  BY DEF BindStep, OMInv
<1>1. /\ om'.heads = om.heads /\ ~ om'.hasSerial /\ ~ om'.signal /\ om'.manager = id
      /\ DOMAIN om.heads = {}
      /\ om' = [heads |-> om'.heads, hasSerial |-> om'.hasSerial, serial |-> om'.serial,
                signal |-> om'.signal, manager |-> om'.manager]
  BY BindFields
<1>2. /\ monitors'.plugged = monitors.plugged /\ monitors'.used = monitors.used
      /\ monitors'.bound = id /\ monitors'.serial = 1
      /\ monitors' = [plugged |-> monitors'.plugged, used |-> monitors'.used,
                      bound |-> monitors'.bound, serial |-> monitors'.serial]
  BY BindFields
<1>3. /\ rt'.phase = "allocate" /\ rt'.id = 0
      /\ rt' = [phase |-> rt'.phase, id |-> rt'.id, done |-> rt'.done, count |-> rt'.count]
  BY BindFields
<1>4. /\ id >= 4 /\ id <= 4 + Seen /\ id < FirstServerID /\ Seen' = Seen
      /\ KindAt(display', id) = "manager" /\ KindAt(display', DisplayID) = "display"
      /\ monitors.plugged \subseteq Outputs
  BY BindFields
<1>5. display.open /\ display.accepted /\ \A n \in Outputs : HeadID(n) # id /\ ModeID(n) # id
  BY <1>0, Binding
<1>. PICK q \in Seq(Event) : q = display.incoming
  BY <1>0 DEF ShapesOK
<1>6. /\ QueueOK(q)'
      /\ \A j \in DOMAIN q :
           /\ q[j] \in Event /\ EventOK(q[j])
           /\ q[j].op \notin {"head", "manager_done", "manager_finished"}
           /\ ~ Drops(q[j], id)
  BY <1>0, <1>1, <1>2, <1>3, BindingWaits
<1>7. ObjectsOK'
  <2>1. \A i \in (id + 1)..(FirstServerID - 1) : KindAt(display, i) = "none" /\ i # id
    BY <1>0, ServerIDs DEF ObjectsOK
  <2>2. id # DisplayID /\ id # RegistryID
    BY <1>4 DEF DisplayID, RegistryID
  <2>. QED BY <1>0, <1>3, <1>5, <2>1, <2>2 DEF ObjectsOK
<1>8. IdsOK'
  <2>1. DOMAIN display'.globals = 1..Seen' /\ Seen' \in Nat /\ Seen' + 6 <= FirstServerID
    BY <1>0, <1>4 DEF IdsOK
  <2>2. /\ display'.nextID >= 5 /\ display'.nextID <= 5 + Seen' /\ id \in 4..(display'.nextID - 1)
        /\ id # 0
    BY <1>0, <1>4, <2>1
  <2>3. display'.nextID >= 3 /\ display'.nextID <= 6 + Seen'
    BY <2>1, <2>2, <1>0
  <2>. QED BY <1>0, <1>1, <1>2, <1>3, <2>1, <2>2, <2>3 DEF IdsOK
<1>9. ControlOK'
  BY <1>0, <1>1, <1>3, <1>5 DEF ControlOK
<1>10. MonitorsOK'
  BY <1>0, <1>1, <1>2 DEF MonitorsOK
<1>11. ASSUME display'.incoming \in Seq(Event) PROVE ShapesOK'
  <2>1. display'.nextID \in Nat
    BY <1>0
  <2>. QED BY <1>0, <1>1, <1>2, <1>3, <1>11, <2>1 DEF ShapesOK
<1>12. CASE display'.incoming = display.incoming \o Introduction(id)
            /\ display'.gone = display.gone
  <2>. PICK order \in Seq(Outputs), s \in Seq(Event) :
         /\ s = Introduction(id) /\ Introduced(s, id, order)
         /\ \A b \in 1..Len(order) : order[b] \in monitors.plugged
         /\ \A a, b \in 1..Len(order) : order[a] = order[b] => a = b
         /\ \A n \in monitors.plugged : \E b \in 1..Len(order) : order[b] = n
    BY <1>0, IntroductionEvents
  <2>1. display'.incoming = q \o s /\ q \o s \in Seq(Event)
    BY <1>12, JoinIndices
  <2>2. QueueOK(q \o s)'
    BY <1>6, IntroductionQueues
  <2>3. QueueOK(display.incoming)'
    BY <2>1, <2>2
  <2>4. ASSUME NEW n \in monitors.plugged
        PROVE  Present(display.incoming, n)' /\ InTime(display.incoming, n)'
    <3>. PICK b \in 1..Len(order) : order[b] = n
      OBVIOUS
    <3>1. NoneDone(q)
      BY <1>6 DEF NoneDone
    <3>2. Introduced(s, id, order) /\ BindStep(id)
      OBVIOUS
    <3>3. q \in Seq(Event) /\ order \in Seq(Outputs) /\ s \in Seq(Event)
      OBVIOUS
    <3>4. order[b] = n /\ b \in 1..Len(order)
      OBVIOUS
    <3>5. Present(q \o s, n)' /\ InTime(q \o s, n)'
      BY <3>1, <3>2, <3>3, <3>4, IntroductionTells, Zenon
    <3>. QED BY <2>1, <3>5
  <2>5. BoundOK'
    BY <1>2, <1>4, <2>4 DEF BoundOK
  <2>6. InitialOK'
    BY <1>1, <1>2, <2>4 DEF InitialOK
  <2>7. ShapesOK'
    BY <1>11, <2>1
  <2>. QED BY <1>7, <1>8, <1>9, <1>10, <2>3, <2>5, <2>6, <2>7 DEF OMInv
<1>13. CASE display'.incoming = display.incoming \o Failure(id) /\ display'.gone
  <2>. PICK s \in Seq(Event) : s = Failure(id)
    BY <1>0, FailureEvents
  <2>0. DOMAIN s = 1..1 /\ s[1].to = DisplayID /\ s[1].op = "error"
    BY <1>0, FailureEvents
  <2>. PICK f : f = s[1]
    OBVIOUS
  <2>01. f \in Event /\ f.to = DisplayID /\ f.op = "error"
    <3>1. Len(s) \in Nat /\ DOMAIN s = 1..Len(s)
      OBVIOUS
    <3>2. 1 \in 1..Len(s)
      BY <2>0, <3>1
    <3>3. s[1] \in Event
      BY <3>2, EventAt
    <3>. QED BY <2>0, <3>3
  <2>1. display'.incoming = q \o s /\ q \o s \in Seq(Event)
    BY <1>13, JoinIndices
  <2>2. QueueOK(q \o s)'
    <3>1. EventOK(f)' /\ Found(f)'
      BY <1>4, <2>01 DEF EventOK, ClientEventOK, ManagerEventOK, OutputEventOK, Found, KindOf
    <3>2. \A j \in DOMAIN q : PairOK(q[j], f)
      BY <1>0, <1>6, <2>01, FixedNotDropped DEF PairOK, DisplayID
    <3>3. \A k \in DOMAIN s : s[k] = f /\ \A j \in 1..(k - 1) : FALSE
      BY <2>0
    <3>4. \A k \in DOMAIN s :
            /\ EventOK(s[k])' /\ Found(s[k])' /\ s[k].op # "global"
            /\ \A j \in DOMAIN q : PairOK(q[j], s[k])
            /\ \A j \in 1..(k - 1) : PairOK(s[j], s[k])
      BY <2>01, <3>1, <3>2, <3>3
    <3>. QED BY <1>6, <3>4, QueueGrows
  <2>3. QueueOK(display.incoming)'
    BY <2>1, <2>2
  <2>4. BoundOK'
    BY <1>13 DEF BoundOK
  <2>5. NoneDone(display.incoming)'
    <3>. DEFINE r == q \o s
    <3>1. /\ DOMAIN q = 1..Len(q) /\ DOMAIN s = 1..Len(s) /\ DOMAIN r = 1..(Len(q) + Len(s))
          /\ Len(q) \in Nat /\ Len(s) \in Nat
          /\ \A i \in 1..Len(q) : r[i] = q[i]
          /\ \A i \in 1..Len(s) : r[Len(q) + i] = s[i]
      BY JoinIndices
    <3>2. display'.incoming = r
      BY <2>1
    <3>. HIDE DEF r
    <3>3. ASSUME NEW i \in DOMAIN r PROVE r[i].op # "manager_done"
      <4>1. CASE i \in 1..Len(q)
        BY <1>6, <3>1, <4>1
      <4>2. CASE i \notin 1..Len(q)
        <5>1. Len(s) = 1
          BY <2>0, <3>1
        <5>2. i = Len(q) + 1
          BY <3>1, <4>2, <5>1
        <5>. QED BY <2>0, <3>1, <5>1, <5>2
      <4>. QED BY <4>1, <4>2
    <3>. QED BY <3>2, <3>3 DEF NoneDone
  <2>6. InitialOK'
    BY <1>1, <1>13, <2>5 DEF InitialOK
  <2>7. ShapesOK'
    BY <1>11, <2>1
  <2>. QED BY <1>7, <1>8, <1>9, <1>10, <2>3, <2>4, <2>6, <2>7 DEF OMInv
<1>. QED BY <1>12, <1>13 DEF BindAnswered

LEMMA BindManagerKeeps ==
  ASSUME OMInv, BindManager
  PROVE  OMInv'
<1>1. CASE CanWrite(display)
  BY <1>1, BindMeans, BindsKeeps
<1>2. CASE ~ CanWrite(display)
  BY <1>2, BindFailsKeeps
<1>. QED BY <1>1, <1>2

-----------------------------------------------------------------------------
(* Every step.                                                             *)

LEMMA InitKeeps ==
  ASSUME Init
  PROVE  OMInv
<1>. DEFINE no == FALSE
            none == <<>>
            d == Connect(none)
            q == display.incoming
<1>0. none \in Seq({"wl_seat"}) /\ Len(none) = 0
  OBVIOUS
<1>1. /\ Shaped(d) /\ d.nextID = 3 /\ ~ d.gone /\ DOMAIN d.globals = {}
      /\ d.incoming = [i \in 1..Len(none) |-> GlobalEvent(i, none[i])]
      /\ \A i : KindAt(d, i) = IF i = DisplayID THEN "display"
                               ELSE IF i = RegistryID THEN "registry" ELSE "none"
  BY FreshObjects
<1>2. DOMAIN d.incoming = {} /\ d.incoming = <<>>
  BY <1>0, <1>1
<1>3. display = [d EXCEPT !.open = no]
  BY DEF Init
<1>4. outputManager = 0 /\ pc = "start" /\ pump = "off"
  BY DEF Init
<1>5. /\ rt.phase = "idle" /\ rt.id = 0
      /\ rt = [phase |-> rt.phase, id |-> rt.id, done |-> rt.done, count |-> rt.count]
  BY DEF Init, Idle
<1>6. om = [heads |-> none, hasSerial |-> no, serial |-> 0, signal |-> no, manager |-> 0]
  BY DEF Init
<1>7. /\ monitors.plugged = Plugged /\ monitors.used = Plugged /\ monitors.bound = 0
      /\ monitors.serial = 0
      /\ monitors = [plugged |-> monitors.plugged, used |-> monitors.used,
                     bound |-> monitors.bound, serial |-> monitors.serial]
  BY DEF Init
<1>. HIDE DEF d, no
<1>8. display = [open |-> no, accepted |-> d.accepted, nextID |-> d.nextID,
                 objects |-> d.objects, proxies |-> d.proxies, listeners |-> d.listeners,
                 globals |-> d.globals, incoming |-> d.incoming, gone |-> d.gone,
                 expected |-> d.expected, live |-> d.live]
  BY <1>1, <1>3 DEF Shaped
<1>9. Shaped(display)
  BY <1>8 DEF Shaped
<1>10. /\ display.nextID = 3 /\ ~ display.gone /\ DOMAIN display.globals = {}
       /\ display.incoming = <<>>
  BY <1>1, <1>2, <1>8
<1>11. \A i : KindAt(display, i) = IF i = DisplayID THEN "display"
                                   ELSE IF i = RegistryID THEN "registry" ELSE "none"
  <2>1. \A i : KindAt(display, i) = KindAt(d, i)
    BY <1>8 DEF KindAt
  <2>. QED BY <1>1, <2>1
<1>. HIDE DEF none
<1>12. /\ om.heads = none /\ om.hasSerial = no /\ om.signal = no /\ om.manager = 0
       /\ om = [heads |-> om.heads, hasSerial |-> om.hasSerial, serial |-> om.serial,
                signal |-> om.signal, manager |-> om.manager]
  BY <1>6
<1>13. DOMAIN om.heads = {} /\ ~ om.hasSerial /\ ~ om.signal
  BY <1>12 DEF none, no
<1>14. Seen = 0
  BY <1>10, NoGlobals DEF Seen
<1>15. ShapesOK
  BY <1>5, <1>7, <1>9, <1>10, <1>12, <1>13 DEF ShapesOK
<1>16. ControlOK
  BY <1>4, <1>5, <1>7, <1>12, <1>13 DEF ControlOK
<1>17. IdsOK
  BY <1>4, <1>5, <1>7, <1>10, <1>12, <1>14, ServerIDs DEF IdsOK
<1>18. MonitorsOK
  BY <1>4, <1>7, <1>13, OutputsAssumption DEF MonitorsOK
<1>19. ObjectsOK
  <2>1. \A m \in Outputs : /\ HeadID(m) # DisplayID /\ HeadID(m) # RegistryID
                           /\ ModeID(m) # DisplayID /\ ModeID(m) # RegistryID
    BY ServerIDs DEF DisplayID, RegistryID
  <2>2. \A i \in 3..(FirstServerID - 1) : i # DisplayID /\ i # RegistryID
    BY DEF DisplayID, RegistryID
  <2>3. DisplayID # RegistryID
    BY DEF DisplayID, RegistryID
  <2>. QED BY <1>5, <1>10, <1>11, <2>1, <2>2, <2>3 DEF ObjectsOK
<1>20. BoundOK
  BY <1>7 DEF BoundOK
<1>21. QueueOK(display.incoming)
  <2>1. DOMAIN display.incoming = {}
    BY <1>10
  <2>. QED BY <2>1 DEF QueueOK
<1>22. InitialOK
  BY <1>4 DEF InitialOK
<1>. QED BY <1>15, <1>16, <1>17, <1>18, <1>19, <1>20, <1>21, <1>22 DEF OMInv

LEMMA StutterKeeps ==
  ASSUME OMInv, UNCHANGED vars
  PROVE  OMInv'
<1>1. UNCHANGED <<display, pc, rt, pump, om, monitors>> /\ OMInv /\ IdsOK /\ ControlOK
  BY DEF vars, OMInv
<1>2. UNCHANGED <<display, rt, pump, monitors>> /\ om'.signal = om.signal
  BY <1>1
<1>3. om' = [heads |-> om.heads, hasSerial |-> om.hasSerial, serial |-> om.serial,
             signal |-> om'.signal, manager |-> om.manager]
  BY <1>1, SameOm
<1>4. rt' = [phase |-> rt'.phase, id |-> rt'.id, done |-> rt'.done, count |-> rt'.count]
  BY <1>1, SameRt
<1>5. IdsOK' /\ ControlOK'
  BY <1>1 DEF IdsOK, ControlOK, Seen, Allocated
<1>6. Ending => Ending'
  BY <1>1 DEF Ending
<1>. QED BY <1>1, <1>3, <1>4, <1>5, <1>6, QuietKeeps

LEMMA NextKeeps ==
  ASSUME OMInv, [Next]_vars, guess' = "right"
  PROVE  OMInv'
<1>1. CASE Roundtrip
  BY <1>1, RoundtripAllocatesKeeps, RoundtripRequestsKeeps, RoundtripStoresKeeps,
     RoundtripDispatchesKeeps, RoundtripReadFailsKeeps, RoundtripChecksKeeps DEF Roundtrip
<1>2. CASE Caller
  BY <1>2, NewClientKeeps, NewClientFailsKeeps, CancelledKeeps, NotAvailableKeeps,
     BindManagerKeeps, InitialConfigurationKeeps, InitialTimeoutKeeps, GetHeadsKeeps,
     CloseCalledKeeps, CloseStopsKeeps, CloseDestroysKeeps, CloseDisconnectsKeeps DEF Caller
<1>3. CASE Pump
  BY <1>3, PumpDispatchesKeeps, PumpEndsKeeps DEF Pump
<1>4. CASE Compositor
  BY <1>4, AnnounceSeatKeeps, HangUpKeeps, PlugInKeeps, UnplugKeeps DEF Compositor
<1>5. CASE UNCHANGED vars
  BY <1>5, StutterKeeps
<1>. QED BY <1>1, <1>2, <1>3, <1>4, <1>5 DEF Next

\* The event at the head of the queue has nobody before it to bring its object.
LEMMA NextIsFound ==
  ASSUME guess = "right" => OMInv
  PROVE  EventsReachTheirObject
<1>. SUFFICES ASSUME CanRead, OMInv PROVE EventsReachTheirObject
  BY DEF EventsReachTheirObject
<1>. PICK q \in Seq(Event) : q = display.incoming
  BY DEF OMInv, ShapesOK
<1>1. q # <<>> /\ display.open
  BY DEF CanRead
<1>2. 1 \in DOMAIN q /\ NextEvent = q[1]
  BY <1>1 DEF NextEvent
<1>3. Reached(q, 1)
  BY <1>2 DEF OMInv, QueueOK
<1>4. Found(q[1])
  BY <1>3 DEF Reached
<1>5. pc # "closed"
  BY <1>1 DEF OMInv, ControlOK
<1>. QED BY <1>2, <1>4, <1>5 DEF EventsReachTheirObject, Found, MayMiss, Ending

LEMMA ReturnedKnows ==
  ASSUME OMInv
  PROVE  InitialHeadsKnown
<1>. SUFFICES ASSUME pc \in {"returned", "reading"} PROVE InitialHeadsKnown
  BY DEF InitialHeadsKnown
<1>1. pump # "off" /\ om.hasSerial /\ ~ Ending
  BY DEF OMInv, ControlOK, Ending
<1>. QED BY <1>1 DEF InitialHeadsKnown, OMInv, InitialOK, Known

\* What the guess has done is not undone.
LEMMA GuessStays ==
  ASSUME [Next]_vars, guess' = "right"
  PROVE  guess = "right"
<1>1. CASE Roundtrip
  BY <1>1 DEF Roundtrip, RoundtripAllocates, RoundtripRequests, RoundtripStores,
     RoundtripDispatches, RoundtripReadFails, RoundtripChecks, Dispatch
<1>2. CASE Caller
  BY <1>2 DEF Caller, NewClient, NewClientFails, Cancelled, NotAvailable, BindManager,
     InitialConfiguration, InitialTimeout, GetHeads, CloseCalled, CloseStops, CloseDestroys,
     CloseDisconnects
<1>3. CASE Pump
  BY <1>3 DEF Pump, PumpDispatches, PumpEnds, Dispatch
<1>4. CASE Compositor
  BY <1>4 DEF Compositor, AnnounceSeat, HangUp, PlugIn, Unplug, Told
<1>. QED BY <1>1, <1>2, <1>3, <1>4 DEF Next, vars

-----------------------------------------------------------------------------
(* Theorems.                                                               *)

UntilMisled == guess = "right" => OMInv

\* Until the guess about object 5 has put a head over an object of the client's, or where
\* one will be, what OMInv says of the ids, the objects, the events on the way and the
\* three readers holds, whoever reads (Dispatch and handleServerObject in wlturbo).
THEOREM OMInvariant ==
  Spec => []UntilMisled
<1>1. Init => UntilMisled
  BY InitKeeps DEF UntilMisled
<1>2. UntilMisled /\ [Next]_vars => UntilMisled'
  BY NextKeeps, GuessStays DEF UntilMisled
<1>. QED BY <1>1, <1>2, PTL DEF Spec

\* Whoever reads the next event, the object it is for is the one that Dispatch finds
\* under its id: ids are not used twice, an event that takes an object away is behind
\* those for it, and one that brings an object is before them.  Nothing but the guess
\* about object 5 can break this, whatever seats report and callbacks tell.
THEOREM EventsFindTheirObject ==
  Spec => []EventsReachTheirObject
<1>1. UntilMisled => EventsReachTheirObject
  BY NextIsFound DEF UntilMisled
<1>. QED BY <1>1, OMInvariant, PTL

\* When NewOutputManager returns, and until Close, the manager has the head and the
\* properties of every output there was at the start and still is: the first "done"
\* comes behind them, whichever goroutine handled them.  It is proved until the guess
\* has hit an object.
THEOREM ReturnedManagerKnowsHeads ==
  Spec => [](guess = "right" => InitialHeadsKnown)
<1>1. UntilMisled => (guess = "right" => InitialHeadsKnown)
  BY ReturnedKnows DEF UntilMisled
<1>. QED BY <1>1, OMInvariant, PTL
=============================================================================
