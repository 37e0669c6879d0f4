------------------------- MODULE VirtualDevicesProofs ------------------------
(* What holds of the client's virtual devices for any number of Starts.    *)
EXTENDS VirtualDevices, TLAPS

\* The backend and the library are records of the parts the actions name.
ShapesOK ==
  /\ w = [capturing |-> w.capturing, managers |-> w.managers, devices |-> w.devices]
  /\ library = [managers |-> library.managers, devices |-> library.devices]
  /\ w.devices \in [Devices -> Nat]
  /\ starts \in Nat /\ woken \in Nat

NothingHeld == w.devices = NoDevice

HeldOK ==
  /\ library.devices = Held /\ library.managers = w.managers
  /\ ~w.capturing => NothingHeld

\* Only a Stop wakes a goroutine, and from then on the backend has nothing to make
\* devices with.
WakingOK ==
  /\ woken > 0 => NothingHeld /\ w.managers = {}
  /\ connect = "new" => woken = 0 /\ ~w.capturing

Inv == ShapesOK /\ HeldOK /\ WakingOK

LEMMA NoDeviceFacts ==
  /\ NoDevice \in [Devices -> Nat]
  /\ \A d \in Devices : NoDevice[d] = 0
BY DEF NoDevice

LEMMA NothingHeldMeans ==
  ASSUME NothingHeld
  PROVE  Held = {}
BY NoDeviceFacts DEF NothingHeld, Held

LEMMA InitInv == Init => Inv
<1>. SUFFICES ASSUME Init PROVE Inv
  OBVIOUS
<1>. DEFINE no == FALSE
<1>0. w = [capturing |-> no, managers |-> {}, devices |-> NoDevice]
  BY DEF Init
<1>. HIDE DEF no
<1>1. w.capturing = no /\ w.managers = {} /\ w.devices = NoDevice
  BY <1>0
<1>2. library = [managers |-> {}, devices |-> {}]
  BY DEF Init
<1>3. library.managers = {} /\ library.devices = {}
  BY <1>2
<1>4. starts \in Nat /\ woken \in Nat /\ ~ woken > 0 /\ woken = 0
  BY DEF Init
<1>5. ShapesOK
  BY <1>0, <1>1, <1>2, <1>3, <1>4, NoDeviceFacts DEF ShapesOK
<1>6. Held = {} /\ NothingHeld
  BY <1>1, NothingHeldMeans DEF NothingHeld
<1>7. ~w.capturing
  BY <1>1 DEF no
<1>. QED BY <1>1, <1>3, <1>4, <1>5, <1>6, <1>7 DEF Inv, HeldOK, WakingOK

\* A step that leaves the backend alone, and begins nothing new.
LEMMA BackendSame ==
  ASSUME Inv, UNCHANGED <<w, library, woken>>, starts' \in Nat, connect' = "new" => connect = "new"
  PROVE  Inv'
BY DEF Inv, ShapesOK, HeldOK, WakingOK, NothingHeld, Held

LEMMA StopKeeps ==
  ASSUME Inv, NEW callers \in {0, 1}, callers <= woken, Stop(callers), starts' = starts,
         connect' # "new"
  PROVE  Inv'
<1>1. CASE ~ w.capturing
  <2>1. w' = w /\ library' = library /\ woken' = woken - callers
    BY <1>1 DEF Stop, Inv, ShapesOK
  <2>2. woken' \in Nat /\ (woken' > 0 => woken > 0)
    BY <2>1 DEF Inv, ShapesOK
  <2>. QED BY <2>1, <2>2 DEF Inv, ShapesOK, HeldOK, WakingOK, NothingHeld, Held
<1>2. CASE w.capturing
  <2>. DEFINE no == FALSE
              m == w.managers \ GivenUp
              lm == library.managers \ GivenUp
              ld == library.devices \ Held
  <2>1. /\ w' = [capturing |-> no, managers |-> m, devices |-> NoDevice]
        /\ library' = [managers |-> lm, devices |-> ld]
        /\ woken' = woken - callers + 1
    BY <1>2 DEF Stop, Stopped, Closed
  <2>2. m = {} /\ lm = {} /\ ld = {}
    BY DEF GivenUp, Inv, HeldOK
  <2>. HIDE DEF no, m, lm, ld
  <2>3. w'.capturing = no /\ w'.managers = {} /\ w'.devices = NoDevice
    BY <2>1, <2>2
  <2>4. library'.managers = {} /\ library'.devices = {}
    BY <2>1, <2>2
  <2>5. woken' \in Nat
    BY <2>1 DEF Inv, ShapesOK
  <2>6. ShapesOK'
    BY <2>1, <2>3, <2>4, <2>5, NoDeviceFacts DEF ShapesOK, Inv
  <2>7. NothingHeld' /\ Held' = {}
    BY <2>3, NoDeviceFacts DEF NothingHeld, Held
  <2>. QED BY <2>3, <2>4, <2>6, <2>7 DEF Inv, HeldOK, WakingOK
<1>. QED BY <1>1, <1>2

LEMMA NewKeeps ==
  ASSUME Inv, NewWaylandVirtualInput
  PROVE  Inv'
<1>0. ShapesOK /\ HeldOK /\ WakingOK /\ connect = "new" /\ UNCHANGED <<starts, woken>>
  BY DEF Inv, NewWaylandVirtualInput
<1>1. PICK granted \in SUBSET Managers :
        IF "pointer" \in granted
        THEN /\ w' = [w EXCEPT !.managers = granted]
             /\ library' = [library EXCEPT !.managers = granted]
             /\ connect' = "try"
        ELSE connect' = "failed" /\ UNCHANGED <<w, library>>
  BY DEF NewWaylandVirtualInput
<1>2. CASE "pointer" \notin granted
  BY <1>0, <1>1, <1>2, BackendSame DEF Inv, ShapesOK
<1>3. CASE "pointer" \in granted
  <2>1. /\ w' = [capturing |-> w.capturing, managers |-> granted, devices |-> w.devices]
        /\ library' = [managers |-> granted, devices |-> library.devices]
    BY <1>0, <1>1, <1>3 DEF ShapesOK
  <2>2. w'.capturing = w.capturing /\ w'.managers = granted /\ w'.devices = w.devices
    BY <2>1
  <2>3. library'.managers = granted /\ library'.devices = library.devices
    BY <2>1
  <2>4. Held' = Held /\ NothingHeld' = NothingHeld
    BY <2>2 DEF Held, NothingHeld
  <2>5. woken = 0 /\ connect' # "new"
    BY <1>0, <1>1, <1>3 DEF WakingOK
  <2>6. ShapesOK'
    BY <1>0, <2>1, <2>2, <2>3 DEF ShapesOK
  <2>. QED BY <1>0, <2>2, <2>3, <2>4, <2>5, <2>6 DEF Inv, HeldOK, WakingOK
<1>. QED BY <1>2, <1>3

\* Start adds what it makes to both sides, and makes nothing without managers.
LEMMA StartKeeps ==
  ASSUME Inv, ~w.capturing, NEW given \in SUBSET (Devices \cap w.managers), Start(given),
         UNCHANGED woken, connect' # "new"
  PROVE  Inv'
<1>0. ShapesOK /\ HeldOK /\ WakingOK /\ NothingHeld
  BY DEF Inv, HeldOK
<1>. DEFINE yes == TRUE
            n == starts + 1
            dev == [d \in Devices |-> IF d \in given THEN n ELSE w.devices[d]]
            made == {<<d, n>> : d \in given}
<1>1. /\ w' = [capturing |-> yes, managers |-> w.managers, devices |-> dev]
      /\ library' = [managers |-> library.managers, devices |-> library.devices \cup made]
      /\ starts' = n
  BY <1>0 DEF Start, ShapesOK
<1>2. n \in Nat /\ n # 0
  BY <1>0 DEF ShapesOK
<1>. HIDE DEF yes, n
<1>3. dev \in [Devices -> Nat] /\ \A d \in Devices : dev[d] = IF d \in given THEN n ELSE 0
  BY <1>0, <1>2, NoDeviceFacts DEF NothingHeld
<1>. HIDE DEF dev
<1>4. w'.capturing = yes /\ w'.managers = w.managers /\ w'.devices = dev
  BY <1>1
<1>5. library'.managers = library.managers /\ library'.devices = library.devices \cup made
  BY <1>1
<1>6. library.devices = {}
  BY <1>0, NothingHeldMeans DEF HeldOK
<1>7. Held' = made
  <2>1. Held' = {<<d, dev[d]>> : d \in {x \in Devices : dev[x] # 0}}
    BY <1>4 DEF Held
  <2>2. {x \in Devices : dev[x] # 0} = given
    BY <1>2, <1>3
  <2>3. \A d \in given : <<d, dev[d]>> = <<d, n>>
    BY <1>3
  <2>. QED BY <2>1, <2>2, <2>3
<1>8. ShapesOK'
  BY <1>0, <1>1, <1>2, <1>3, <1>4, <1>5 DEF ShapesOK
<1>9. w'.capturing
  BY <1>4 DEF yes
<1>10. woken' > 0 => NothingHeld' /\ w'.managers = {}
  <2>. SUFFICES ASSUME woken > 0 PROVE NothingHeld' /\ w'.managers = {}
    OBVIOUS
  <2>1. w.managers = {} /\ given = {}
    BY <1>0 DEF WakingOK
  <2>2. dev = NoDevice
    BY <1>3, <2>1, NoDeviceFacts
  <2>. QED BY <1>4, <2>1, <2>2 DEF NothingHeld
<1>. QED BY <1>0, <1>4, <1>5, <1>6, <1>7, <1>8, <1>9, <1>10 DEF Inv, HeldOK, WakingOK

LEMMA StepInv == Inv /\ [Next]_vars => Inv'
<1>. SUFFICES ASSUME Inv, [Next]_vars PROVE Inv'
  OBVIOUS
<1>0. starts \in Nat /\ woken \in Nat
  BY DEF Inv, ShapesOK
<1>1. CASE NewWaylandVirtualInput
  BY <1>1, NewKeeps
<1>2. CASE WaiterStops
  <2>1. Stop(1) /\ 1 <= woken /\ starts' = starts /\ connect' = connect /\ connect # "new"
    BY <1>0, <1>2 DEF WaiterStops, Inv, WakingOK
  <2>. QED BY <2>1, StopKeeps
<1>3. CASE ConnectBegins
  <2>1. CASE connected \/ w.capturing
    BY <1>0, <1>3, <2>1, BackendSame DEF ConnectBegins
  <2>2. CASE ~(connected \/ w.capturing)
    BY <1>3, <2>2, StartKeeps DEF ConnectBegins
  <2>. QED BY <2>1, <2>2
<1>4. CASE ConnectStops
  <2>1. Stop(0) /\ 0 <= woken /\ starts' = starts /\ connect' # "new"
    BY <1>0, <1>4 DEF ConnectStops
  <2>. QED BY <2>1, StopKeeps
<1>5. CASE Disconnect
  <2>1. starts' = starts /\ connect' = connect /\ connect # "new"
    BY <1>5 DEF Disconnect
  <2>2. CASE connected
    BY <1>0, <1>5, <2>1, <2>2, StopKeeps DEF Disconnect
  <2>3. CASE ~connected
    BY <1>0, <1>5, <2>1, <2>3, BackendSame DEF Disconnect, backendVars
  <2>. QED BY <2>2, <2>3
<1>6. CASE DialFails \/ DialSucceeds \/ Backoff
  BY <1>0, <1>6, BackendSame DEF DialFails, DialSucceeds, Backoff, backendVars
<1>7. CASE ProcessInputEvent \/ ShutdownReceived \/ \E d \in Devices : Inject(d)
  BY <1>0, <1>7, BackendSame DEF ProcessInputEvent, ShutdownReceived, Inject, backendVars
<1>8. CASE UNCHANGED vars
  BY <1>0, <1>8, BackendSame DEF vars
<1>. QED BY <1>1, <1>2, <1>3, <1>4, <1>5, <1>6, <1>7, <1>8 DEF Next

\* The backend and the library agree on what is open, and a goroutine is woken only
\* once the backend has given up its managers, for any number of Starts.
THEOREM DevicesAgree == Spec => []Inv
<1>1. Init => Inv
  BY InitInv
<1>2. Inv /\ [Next]_vars => Inv'
  BY StepInv
<1>. QED BY <1>1, <1>2, PTL DEF Spec

\* What is open in the library is what the backend holds, whoever stops it: no device
\* or manager is left behind by a failed attempt to connect.
THEOREM NoDeviceLeftBehind == Spec => []DevicesAsHeld
<1>1. Inv => DevicesAsHeld
  <2>. SUFFICES ASSUME Inv PROVE DevicesAsHeld
    OBVIOUS
  <2>1. HeldOK
    BY DEF Inv
  <2>2. ~w.capturing => library.devices = {}
    BY <2>1, NothingHeldMeans DEF HeldOK
  <2>. QED BY <2>1, <2>2 DEF DevicesAsHeld, HeldOK
<1>. QED BY <1>1, DevicesAgree, PTL

\* An injection is refused or goes to an open device.
THEOREM NoInjectionAfterClose == Spec => InjectsIntoOpenDevices
<1>. DEFINE A == pending /\ ~pending' => injected'[1] = "refused" \/ injected' \in library.devices
<1>1. Inv /\ [Next]_vars => A
  <2>. SUFFICES ASSUME Inv, [Next]_vars, pending, ~pending'
       PROVE  injected'[1] = "refused" \/ injected' \in library.devices
    OBVIOUS
  <2>1. PICK d \in Devices : Inject(d)
    BY DEF Next, vars, NewWaylandVirtualInput, WaiterStops, ConnectBegins, DialFails,
           ConnectStops, DialSucceeds, Backoff, ProcessInputEvent, ShutdownReceived, Disconnect,
           eventVars
  <2>2. CASE w.capturing /\ w.devices[d] # 0
    <3>1. <<d, w.devices[d]>> \in Held
      BY <2>2 DEF Held
    <3>2. injected' = <<d, w.devices[d]>>
      BY <2>1, <2>2 DEF Inject
    <3>. QED BY <3>1, <3>2 DEF Inv, HeldOK
  <2>3. CASE ~(w.capturing /\ w.devices[d] # 0)
    BY <2>1, <2>3 DEF Inject
  <2>. QED BY <2>2, <2>3
<1>. QED BY <1>1, DevicesAgree, PTL DEF Spec, InjectsIntoOpenDevices

\* The goroutine of a Start that has been undone closes no device of a later one, which
\* has none: the managers went with the first Stop.
THEOREM StaleStopsAreHarmless == Spec => StaleStopClosesNothing
<1>. DEFINE A == WaiterStops => library'.devices = library.devices
<1>1. Inv => A
  <2>. SUFFICES ASSUME Inv, WaiterStops PROVE library'.devices = library.devices
    OBVIOUS
  <2>1. HeldOK /\ NothingHeld
    BY DEF Inv, ShapesOK, WakingOK, WaiterStops
  <2>2. Held = {} /\ library.devices = {}
    BY <2>1, NothingHeldMeans DEF HeldOK
  <2>3. library' = library \/ library' = Closed
    BY DEF WaiterStops, Stop
  <2>4. Closed.devices = library.devices
    BY <2>2 DEF Closed
  <2>. QED BY <2>3, <2>4
<1>. QED BY <1>1, DevicesAgree, PTL DEF Spec, StaleStopClosesNothing
=============================================================================
