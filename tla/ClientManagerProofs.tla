------------------------ MODULE ClientManagerProofs -------------------------
(***************************************************************************)
(* Theorems about the input backend, and about the server's control of     *)
(* keyboard and mouse that is built on it, for every set of clients,       *)
(* devices and timers, every timeout and every limit on the number of      *)
(* sessions.                                                               *)
(***************************************************************************)
EXTENDS ClientManager, TLAPS

-----------------------------------------------------------------------------
(* The input backend on its own, for every caller of SetTarget: types.     *)

\* The parts of SetTarget keep the variables in their types.
LEMMA ClearTargetTypeOK ==
  ASSUME CaptureTypeOK, ClearTarget, chord' \in {"none", "pressed", "cleared"}
  PROVE  CaptureTypeOK'
BY TimeoutAssumption
DEF CaptureTypeOK, ClearTarget, StillGrabbed, StopTimer, hotplugVars, grabVars, Off

LEMMA GrabAllTypeOK ==
  ASSUME CaptureTypeOK, NEW id \in Ids, GrabAll(id), UNCHANGED chord
  PROVE  CaptureTypeOK'
BY TimeoutAssumption
DEF CaptureTypeOK, GrabAll, ArmTimer, Fresh, hotplugVars, Off

LEMMA GrabFailsTypeOK ==
  ASSUME CaptureTypeOK, NEW id \in Ids, GrabFails(id), UNCHANGED chord
  PROVE  CaptureTypeOK'
BY DEF CaptureTypeOK, GrabFails, RevertTarget, hotplugVars, grabVars, timerVars, Off

\* So do the steps the backend takes by itself.
LEMMA OwnStepTypeOK ==
  ASSUME CaptureTypeOK, OwnStep
  PROVE  CaptureTypeOK'
<1>1. CASE ChordClears
  BY <1>1, ClearTargetTypeOK DEF ChordClears
<1>2. CASE \E t \in Timers : Fire(t)
  BY <1>2, TimeoutAssumption DEF CaptureTypeOK, Fire, hotplugVars, grabVars, Off
<1>3. CASE \E t \in Timers : TimerCallback(t)
  BY <1>3 DEF CaptureTypeOK, TimerCallback, hotplugVars, Off
<1>4. CASE \E d \in Devices : PressChord(d)
  BY <1>4 DEF CaptureTypeOK, PressChord, hotplugVars, grabVars, timerVars, Off
<1>5. CASE \E d \in Devices : Unplug(d) \/ Plug(d)
  BY <1>5 DEF CaptureTypeOK, Unplug, Plug, grabVars, timerVars, Off
<1>6. CASE \E d \in Devices : Scan(d)
  BY <1>6 DEF CaptureTypeOK, Scan, ScanAdds, ScanRemoves, Unknown, timerVars, Off
<1>7. QED
  BY <1>1, <1>2, <1>3, <1>4, <1>5, <1>6 DEF OwnStep

LEMMA DeviceInputTypeOK ==
  ASSUME CaptureTypeOK, NEW d \in Devices, DeviceInput(d)
  PROVE  CaptureTypeOK'
BY TimeoutAssumption
DEF CaptureTypeOK, DeviceInput, ResetTimer, hotplugVars, grabVars, Off

LEMMA TickTypeOK == CaptureTypeOK /\ Tick => CaptureTypeOK'
BY TimeoutAssumption DEF CaptureTypeOK, Tick, AgeTimers, hotplugVars, grabVars, Off

LEMMA CaptureInitTypeOK == CaptureInit => CaptureTypeOK
BY TimeoutAssumption DEF CaptureInit, CaptureTypeOK, Off

LEMMA CaptureNextTypeOK == CaptureTypeOK /\ [CaptureNext]_captureVars => CaptureTypeOK'
<1> SUFFICES ASSUME CaptureTypeOK, [CaptureNext]_captureVars PROVE CaptureTypeOK'
  OBVIOUS
<1>1. CASE SetTarget
  <2>1. UNCHANGED chord
    BY <1>1 DEF SetTarget
  <2>2. CASE ClearTarget
    BY <2>1, <2>2, ClearTargetTypeOK DEF CaptureTypeOK
  <2>3. CASE \E id \in Ids : GrabAll(id) \/ GrabFails(id)
    BY <2>1, <2>3, GrabAllTypeOK, GrabFailsTypeOK
  <2>4. QED
    BY <1>1, <2>2, <2>3 DEF SetTarget
<1>2. CASE ChordEnds
  BY <1>2 DEF ChordEnds, CaptureTypeOK, hotplugVars, grabVars, timerVars, Off
<1>3. CASE UNCHANGED captureVars
  BY <1>3 DEF captureVars, CaptureTypeOK, hotplugVars, grabVars, timerVars, Off
<1>4. QED
  BY <1>1, <1>2, <1>3, TickTypeOK, DeviceInputTypeOK, OwnStepTypeOK DEF CaptureNext

\* Every variable of the backend keeps its type.
THEOREM CaptureTypeCorrect == CaptureSpec => []CaptureTypeOK
BY CaptureInitTypeOK, CaptureNextTypeOK, PTL DEF CaptureSpec

-----------------------------------------------------------------------------
(* The input backend: the safety timer.                                    *)

\* A step that leaves the timers and the target alone, or clears the target,
\* cannot leave a target without a timer.
LEMMA TimerFrame ==
  ASSUME TargetHasTimer,
         \/ UNCHANGED <<target, timerVars>>
         \/ target' = NoClient
  PROVE  TargetHasTimer'
BY DEF TargetHasTimer, timerVars, Armed, Off

LEMMA GrabAllTimer ==
  ASSUME CaptureTypeOK, NEW id \in Ids, GrabAll(id)
  PROVE  TargetHasTimer'
BY TimersAssumption, TimeoutAssumption
DEF CaptureTypeOK, GrabAll, ArmTimer, Fresh, TargetHasTimer, Armed, Off

LEMMA DeviceInputTimer ==
  ASSUME CaptureTypeOK, TargetHasTimer, NEW d \in Devices, DeviceInput(d)
  PROVE  TargetHasTimer'
BY TimeoutAssumption
DEF CaptureTypeOK, DeviceInput, ResetTimer, TargetHasTimer, Armed, Off

LEMMA TickTimer == CaptureTypeOK /\ TargetHasTimer /\ Tick => TargetHasTimer'
BY TimeoutAssumption
DEF CaptureTypeOK, Tick, AgeTimers, TargetHasTimer, Armed, Off

LEMMA OwnStepTimer ==
  ASSUME CaptureTypeOK, TargetHasTimer, OwnStep
  PROVE  TargetHasTimer'
<1>1. CASE ChordClears
  BY <1>1, TimerFrame DEF ChordClears, ClearTarget
<1>2. ASSUME NEW t \in Timers, Fire(t) PROVE TargetHasTimer'
  <2>1. CASE t = grabTimer
    BY <1>2, <2>1 DEF Fire, TargetHasTimer, Armed, Off
  <2>2. CASE t # grabTimer
    BY <1>2, <2>2 DEF CaptureTypeOK, Fire, TargetHasTimer, Armed, Off
  <2>3. QED
    BY <2>1, <2>2
<1>3. ASSUME NEW t \in Timers, TimerCallback(t) PROVE TargetHasTimer'
  BY <1>3 DEF TimerCallback, TargetHasTimer
<1>4. CASE \E d \in Devices : PressChord(d) \/ Unplug(d) \/ Plug(d) \/ Scan(d)
  BY <1>4, TimerFrame DEF PressChord, Unplug, Plug, Scan, ScanAdds, ScanRemoves
<1>5. QED
  BY <1>1, <1>2, <1>3, <1>4 DEF OwnStep

LEMMA CaptureNextTimer ==
  CaptureTypeOK /\ TargetHasTimer /\ [CaptureNext]_captureVars => TargetHasTimer'
<1> SUFFICES ASSUME CaptureTypeOK, TargetHasTimer, [CaptureNext]_captureVars
             PROVE  TargetHasTimer'
  OBVIOUS
<1>1. CASE SetTarget
  BY <1>1, GrabAllTimer, TimerFrame
  DEF SetTarget, ClearTarget, GrabFails, RevertTarget
<1>2. CASE ChordEnds \/ UNCHANGED captureVars
  BY <1>2, TimerFrame DEF ChordEnds, captureVars
<1>3. QED
  BY <1>1, <1>2, TickTimer, DeviceInputTimer, OwnStepTimer DEF CaptureNext

\* However SetTarget is called, a client is never the target without a safety
\* timer that is running or about to end the grab.
THEOREM SafetyTimerGuardsTarget == CaptureSpec => []TargetHasTimer
<1>1. CaptureInit => TargetHasTimer
  BY DEF CaptureInit, TargetHasTimer
<1>2. QED
  BY <1>1, CaptureTypeCorrect, CaptureNextTimer, PTL DEF CaptureSpec

-----------------------------------------------------------------------------
(* The input backend: which devices are grabbed.                           *)

\* Both halves at once: a grab that ends is followed by local control and a
\* grab that begins ends it, so neither half is inductive without the types
\* the other needs.
DevicesRight == LocalHoldsOnlyLeftovers /\ TargetHoldsDevices

\* SetTarget, with every outcome it can have.
LEMMA SetTargetDevices ==
  ASSUME CaptureTypeOK, DevicesRight,
         ClearTarget \/ \E id \in Ids : GrabAll(id) \/ GrabFails(id)
  PROVE  DevicesRight'
<1>1. CASE ClearTarget
  BY <1>1
  DEF ClearTarget, StillGrabbed, hotplugVars, DevicesRight, LocalHoldsOnlyLeftovers,
      TargetHoldsDevices
<1>2. ASSUME NEW id \in Ids, GrabAll(id) PROVE DevicesRight'
  BY <1>2, IdsAssumption
  DEF GrabAll, hotplugVars, DevicesRight, LocalHoldsOnlyLeftovers, TargetHoldsDevices
<1>3. ASSUME NEW id \in Ids, GrabFails(id) PROVE DevicesRight'
  <2>1. UNCHANGED <<devices, dead, late, target>>
    BY <1>3 DEF GrabFails, RevertTarget, hotplugVars
  <2>2. grabbed \subseteq grabbed'
    BY <1>3 DEF GrabFails, CaptureTypeOK
  <2>3. target = NoClient => grabbed' \subseteq grabbed \cup leftover' /\ leftover \subseteq leftover'
    BY <1>3 DEF GrabFails
  <2>4. QED
    BY <2>1, <2>2, <2>3 DEF DevicesRight, LocalHoldsOnlyLeftovers, TargetHoldsDevices
<1>4. QED
  BY <1>1, <1>2, <1>3

\* A step that leaves the handlers, the grabs and the target alone.
LEMMA DevicesFrame ==
  ASSUME DevicesRight, UNCHANGED <<devices, dead, grabVars, target>>
  PROVE  DevicesRight'
BY DEF DevicesRight, LocalHoldsOnlyLeftovers, TargetHoldsDevices, grabVars

LEMMA OwnStepDevices ==
  ASSUME CaptureTypeOK, DevicesRight, OwnStep
  PROVE  DevicesRight'
<1>1. CASE ChordClears
  BY <1>1, SetTargetDevices DEF ChordClears
<1>2. CASE \E t \in Timers : Fire(t)
  BY <1>2, DevicesFrame DEF Fire, hotplugVars
<1>3. CASE \E t \in Timers : TimerCallback(t)
  BY <1>3
  DEF TimerCallback, hotplugVars, DevicesRight, LocalHoldsOnlyLeftovers, TargetHoldsDevices
<1>4. CASE \E d \in Devices : PressChord(d)
  BY <1>4, DevicesFrame DEF PressChord, hotplugVars
<1>5. CASE \E d \in Devices : Unplug(d) \/ Plug(d)
  BY <1>5
  DEF Unplug, Plug, grabVars, DevicesRight, LocalHoldsOnlyLeftovers, TargetHoldsDevices
<1>6. CASE \E d \in Devices : Scan(d)
  BY <1>6
  DEF Scan, ScanAdds, ScanRemoves, DevicesRight, LocalHoldsOnlyLeftovers, TargetHoldsDevices
<1>7. QED
  BY <1>1, <1>2, <1>3, <1>4, <1>5, <1>6 DEF OwnStep

LEMMA CaptureNextDevices ==
  CaptureTypeOK /\ DevicesRight /\ [CaptureNext]_captureVars => DevicesRight'
<1> SUFFICES ASSUME CaptureTypeOK, DevicesRight, [CaptureNext]_captureVars
             PROVE  DevicesRight'
  OBVIOUS
<1>1. CASE SetTarget
  BY <1>1, SetTargetDevices DEF SetTarget
<1>2. CASE Tick \/ ChordEnds \/ \E d \in Devices : DeviceInput(d)
  BY <1>2, DevicesFrame DEF Tick, ChordEnds, DeviceInput, hotplugVars
<1>3. CASE UNCHANGED captureVars
  BY <1>3, DevicesFrame DEF captureVars, hotplugVars
<1>4. QED
  BY <1>1, <1>2, <1>3, OwnStepDevices DEF CaptureNext

LEMMA DevicesInit == CaptureInit => DevicesRight
BY DEF CaptureInit, DevicesRight, LocalHoldsOnlyLeftovers, TargetHoldsDevices

\* However SetTarget is called and however its grabs fail, under local control the only
\* working devices kept from the desktop are those a failed grab left behind.
THEOREM LocalHasItsDevices == CaptureSpec => []LocalHoldsOnlyLeftovers
<1>1. DevicesRight => LocalHoldsOnlyLeftovers
  BY DEF DevicesRight
<1>2. QED
  BY <1>1, DevicesInit, CaptureNextDevices, CaptureTypeCorrect, PTL DEF CaptureSpec

\* While a client is the target every handler is grabbed but those the scan opened since
\* the grab.
THEOREM TargetHasItsDevices == CaptureSpec => []TargetHoldsDevices
<1>1. DevicesRight => TargetHoldsDevices
  BY DEF DevicesRight
<1>2. QED
  BY <1>1, DevicesInit, CaptureNextDevices, CaptureTypeCorrect, PTL DEF CaptureSpec

-----------------------------------------------------------------------------
(* The server: types.                                                      *)

\* SwitchToLocal, in whichever command it is called.
LEMMA SwitchToLocalTypeOK ==
  ASSUME TypeOK, SwitchToLocal, chord' \in {"none", "pressed", "cleared"}
  PROVE  CaptureTypeOK' /\ status' \in [Ids -> {"idle", "controlled"}]
                        /\ active' \in Ids \cup {NoClient} /\ local' \in BOOLEAN
<1>1. CASE local /\ UNCHANGED <<hotplugVars, grabVars, target, timerVars, status, active, local>>
  BY <1>1 DEF TypeOK, CaptureTypeOK, hotplugVars, grabVars, timerVars, Off
<1>2. CASE ~local /\ GoLocal
  BY <1>2, ClearTargetTypeOK DEF TypeOK, GoLocal, OwnerIsLocal, Demoted
<1>3. QED
  BY <1>1, <1>2 DEF SwitchToLocal

LEMMA QuietInRange == 0 \in 0..Saturated
BY TimeoutAssumption DEF Saturated

LEMMA CommandTypeOK == TypeOK /\ Command => TypeOK'
<1> SUFFICES ASSUME TypeOK, Command PROVE TypeOK'
  OBVIOUS
<1> USE DEF TypeOK
<1>1. CASE Release
  BY <1>1, SwitchToLocalTypeOK DEF Release, CaptureTypeOK
<1>2. ASSUME NEW to, Rotate(to), to \in Ids \cup {NoClient}
      PROVE  TypeOK'
  <2>1. CASE to = NoClient /\ GoLocal /\ UNCHANGED chosen
    BY <1>2, <2>1, ClearTargetTypeOK
    DEF Rotate, GoLocal, OwnerIsLocal, Demoted, CaptureTypeOK
  <2>2. CASE /\ to # NoClient
             /\ UNCHANGED <<hotplugVars, grabVars, target, timerVars, status, active, local>>
    BY <1>2, <2>2 DEF Rotate, CaptureTypeOK, hotplugVars, grabVars, timerVars, Off
  <2>3. QED
    BY <1>2, <2>1, <2>2 DEF Rotate
<1>3. CASE IpcNext \/ IpcPrevious
  BY <1>2, <1>3 DEF IpcNext, IpcPrevious
<1>4. ASSUME NEW c \in Ids, Select(c) PROVE TypeOK'
  BY <1>4 DEF Select, captureVars, CaptureTypeOK, hotplugVars, grabVars, timerVars, Off
<1>5. ASSUME NEW c \in Ids, SwitchToClient(c) PROVE TypeOK'
  <2>1. CASE UNCHANGED <<captureVars, status, active, local>>
    BY <1>5, <2>1
    DEF SwitchToClient, captureVars, CaptureTypeOK, hotplugVars, grabVars, timerVars, Off
  <2>2. CASE GrantTo(c) /\ UNCHANGED chord
    <3>1. CaptureTypeOK'
      BY <2>2, GrabAllTypeOK DEF GrantTo
    <3>2. Demoted \in [Ids -> {"idle", "controlled"}]
      BY DEF Demoted
    <3>3. status' \in [Ids -> {"idle", "controlled"}]
      BY <2>2, <3>2 DEF GrantTo
    <3>4. QED
      BY <1>5, <2>2, <3>1, <3>3, QuietInRange DEF SwitchToClient, GrantTo
  <2>3. CASE GrantFails(c) /\ UNCHANGED chord
    BY <1>5, <2>3, GrabFailsTypeOK DEF SwitchToClient, GrantFails, Demoted
  <2>4. QED
    BY <1>5, <2>1, <2>2, <2>3 DEF SwitchToClient
<1>6. QED
  BY <1>1, <1>3, <1>4, <1>5 DEF Command

LEMMA SessionTypeOK ==
  ASSUME TypeOK, NEW c \in Ids, Session(c)
  PROVE  TypeOK'
<1> USE DEF TypeOK
<1>1. CASE OpenSession(c) \/ RegisterClient(c) \/ CloseSession(c)
  BY <1>1
  DEF OpenSession, RegisterClient, CloseSession,
      captureVars, CaptureTypeOK, hotplugVars, grabVars, timerVars, Off
<1>2. CASE UnregisterClient(c)
  <2>1. CASE active = c
    BY <1>2, <2>1, ClearTargetTypeOK
    DEF UnregisterClient, Forgets, ReturnsControl, OwnerIsLocal, CaptureTypeOK
  <2>2. CASE active # c
    BY <1>2, <2>2
    DEF UnregisterClient, Forgets, ReturnsControl, CaptureTypeOK, hotplugVars, grabVars, timerVars, Off
  <2>3. QED
    BY <2>1, <2>2
<1>3. CASE ClientReleases(c)
  BY <1>3, SwitchToLocalTypeOK DEF ClientReleases, CaptureTypeOK
<1>4. QED
  BY <1>1, <1>2, <1>3 DEF Session

LEMMA EmergencyTypeOK == TypeOK /\ Emergency => TypeOK'
<1> SUFFICES ASSUME TypeOK, Emergency PROVE TypeOK'
  OBVIOUS
<1> USE DEF TypeOK
<1>1. CASE SignalRelease \/ MonitorReleases
  <2>1. chord' = chord
    BY <1>1 DEF SignalRelease, MonitorReleases, TriggerRelease
  <2>2. SwitchToLocal /\ chord' \in {"none", "pressed", "cleared"}
    BY <1>1, <2>1 DEF SignalRelease, MonitorReleases, TriggerRelease, CaptureTypeOK
  <2>3. tripped' \in BOOLEAN
    BY <1>1 DEF SignalRelease, MonitorReleases
  <2>4. QED
    BY <1>1, <2>2, <2>3, SwitchToLocalTypeOK, QuietInRange
    DEF SignalRelease, MonitorReleases, TriggerRelease
<1>2. CASE MonitorTrips
  BY <1>2 DEF MonitorTrips, captureVars, CaptureTypeOK, hotplugVars, grabVars, timerVars, Off
<1>3. CASE ChordNotifies
  BY <1>3, SwitchToLocalTypeOK DEF ChordNotifies
<1>4. QED
  BY <1>1, <1>2, <1>3 DEF Emergency

LEMMA InputTypeOK ==
  ASSUME TypeOK, NEW d \in Devices, InputEvent(d)
  PROVE  TypeOK'
BY DeviceInputTypeOK, QuietInRange DEF TypeOK, InputEvent, CountActivity

LEMMA PassTypeOK == TypeOK /\ Pass => TypeOK'
BY TickTypeOK, TimeoutAssumption DEF TypeOK, Pass, OneLater, Saturated

LEMMA NextTypeOK == TypeOK /\ [Next]_vars => TypeOK'
<1> SUFFICES ASSUME TypeOK, [Next]_vars PROVE TypeOK'
  OBVIOUS
<1>1. CASE BackendStep
  BY <1>1, OwnStepTypeOK DEF TypeOK, BackendStep, managerVars
<1>2. CASE UNCHANGED vars
  BY <1>2
  DEF TypeOK, vars, managerVars, captureVars, CaptureTypeOK, hotplugVars, grabVars, timerVars, Off
<1>3. QED
  BY <1>1, <1>2, CommandTypeOK, SessionTypeOK, EmergencyTypeOK, InputTypeOK, PassTypeOK
  DEF Next

LEMMA TypeInit == Init => TypeOK
<1>1. CaptureInit => CaptureTypeOK
  BY TimeoutAssumption DEF CaptureInit, CaptureTypeOK, Off
<1>2. QED
  BY <1>1, QuietInRange DEF Init, TypeOK

\* Every variable of the server, its devices and its timers keeps its type.
THEOREM TypeCorrect == Spec => []TypeOK
BY TypeInit, NextTypeOK, PTL DEF Spec

-----------------------------------------------------------------------------
(* Control.  The three invariants are not inductive one by one: that input *)
(* goes only to the owner needs an owner that is gone to have lost its     *)
(* target, and the marks of the registry need the owner to be registered.  *)

Control == OwnerConsistent /\ InputOnlyToOwner /\ OnlyOwnerMarkedControlled
IInv == TypeOK /\ Control

\* Going local restores the invariant whatever the owner was.
LEMMA GoLocalControl ==
  ASSUME IInv, GoLocal, UNCHANGED clients
  PROVE  Control'
<1>1. active' = NoClient /\ local' = TRUE /\ target' = NoClient
  BY DEF GoLocal, OwnerIsLocal, ClearTarget
<1>2. ASSUME NEW c \in clients PROVE status'[c] # "controlled"
  BY <1>2 DEF IInv, TypeOK, Control, OnlyOwnerMarkedControlled, GoLocal, Demoted
<1>3. QED
  BY <1>1, <1>2
  DEF Control, OwnerConsistent, InputOnlyToOwner, OnlyOwnerMarkedControlled

\* A step that leaves owner and marks alone, does not take the owner out of
\* the registry and at most clears the target, keeps the invariant.
LEMMA FrameControl ==
  ASSUME Control, UNCHANGED <<active, local, status, clients>>,
         target' \in {target, NoClient}
  PROVE  Control'
BY DEF Control, OwnerConsistent, InputOnlyToOwner, OnlyOwnerMarkedControlled

LEMMA SwitchToLocalControl ==
  ASSUME IInv, SwitchToLocal, UNCHANGED clients
  PROVE  Control'
BY GoLocalControl, FrameControl DEF SwitchToLocal, IInv

LEMMA CommandControl == IInv /\ Command => Control'
<1> SUFFICES ASSUME IInv, Command PROVE Control'
  OBVIOUS
<1>1. CASE Release
  BY <1>1, SwitchToLocalControl DEF Release
<1>2. ASSUME NEW to, Rotate(to) PROVE Control'
  BY <1>2, GoLocalControl, FrameControl DEF Rotate, IInv
<1>3. ASSUME NEW c \in Ids, Select(c) PROVE Control'
  BY <1>3, FrameControl DEF Select, captureVars, IInv
<1>4. ASSUME NEW c \in Ids, SwitchToClient(c) PROVE Control'
  <2>1. CASE UNCHANGED <<captureVars, status, active, local>>
    BY <1>4, <2>1, FrameControl DEF SwitchToClient, captureVars, IInv
  <2>2. CASE GrantTo(c) /\ ~Forgotten(c)
    <3>1. active' = c /\ local' = FALSE /\ target' = c /\ c \in clients'
      BY <1>4, <2>2 DEF SwitchToClient, GrantTo, GrabAll, Forgotten
    <3>2. c # NoClient
      BY IdsAssumption
    <3>3. ASSUME NEW d \in clients, d # c PROVE status'[d] # "controlled"
      <4>1. Demoted[d] # "controlled"
        BY <3>3 DEF IInv, TypeOK, Control, OnlyOwnerMarkedControlled, Demoted
      <4>2. status'[d] = Demoted[d]
        BY <2>2, <3>3 DEF GrantTo, Demoted, IInv, TypeOK
      <4>3. QED
        BY <4>1, <4>2
    <3>4. QED
      BY <1>4, <3>1, <3>2, <3>3
      DEF SwitchToClient, Control, OwnerConsistent, InputOnlyToOwner,
          OnlyOwnerMarkedControlled
  <2>3. CASE GrantFails(c)
    <3>1. UNCHANGED <<active, local, target, clients>>
      BY <1>4, <2>3 DEF SwitchToClient, GrantFails, GrabFails, RevertTarget
    <3>2. ASSUME NEW d \in clients PROVE status'[d] # "controlled"
      BY <2>3, <3>2
      DEF IInv, TypeOK, Control, OnlyOwnerMarkedControlled, GrantFails, Demoted
    <3>3. QED
      BY <3>1, <3>2
      DEF IInv, Control, OwnerConsistent, InputOnlyToOwner, OnlyOwnerMarkedControlled
  <2>4. QED
    BY <1>4, <2>1, <2>2, <2>3 DEF SwitchToClient
<1>5. QED
  BY <1>1, <1>2, <1>3, <1>4 DEF Command, IpcNext, IpcPrevious

LEMMA SessionControl ==
  ASSUME IInv, NEW c \in Ids, Session(c)
  PROVE  Control'
<1>1. CASE OpenSession(c) \/ CloseSession(c)
  BY <1>1, FrameControl DEF OpenSession, CloseSession, captureVars, IInv
<1>2. CASE RegisterClient(c)
  <2>1. UNCHANGED <<active, local, target>> /\ clients \subseteq clients'
    BY <1>2 DEF RegisterClient, captureVars
  <2>2. ASSUME NEW d \in clients', status'[d] = "controlled" PROVE d = active
    BY <1>2, <2>2
    DEF RegisterClient, IInv, TypeOK, Control, OnlyOwnerMarkedControlled
  <2>3. QED
    BY <2>1, <2>2
    DEF IInv, Control, OwnerConsistent, InputOnlyToOwner, OnlyOwnerMarkedControlled
<1>3. CASE UnregisterClient(c)
  <2>1. CASE active = c
    <3>1. active' = NoClient /\ local' = TRUE /\ target' = NoClient
      BY <1>3, <2>1 DEF UnregisterClient, Forgets, ReturnsControl, ClearTarget, OwnerIsLocal
    <3>2. clients' = clients \ {c} /\ UNCHANGED status
      BY <1>3 DEF UnregisterClient, Forgets
    <3>3. QED
      BY <2>1, <3>1, <3>2
      DEF IInv, Control, OwnerConsistent, InputOnlyToOwner, OnlyOwnerMarkedControlled
  <2>2. CASE active # c
    <3>1. clients' = clients \ {c} /\ UNCHANGED <<status, active, local, target>>
      BY <1>3, <2>2 DEF UnregisterClient, Forgets, ReturnsControl
    <3>2. QED
      BY <2>2, <3>1
      DEF IInv, Control, OwnerConsistent, InputOnlyToOwner, OnlyOwnerMarkedControlled
  <2>3. QED
    BY <2>1, <2>2
<1>4. CASE ClientReleases(c)
  BY <1>4, SwitchToLocalControl DEF ClientReleases
<1>5. QED
  BY <1>1, <1>2, <1>3, <1>4 DEF Session

LEMMA EmergencyControl == IInv /\ Emergency => Control'
BY SwitchToLocalControl, FrameControl
DEF Emergency, SignalRelease, MonitorReleases, TriggerRelease, MonitorTrips,
    ChordNotifies, captureVars, IInv

LEMMA BackendControl ==
  ASSUME IInv, BackendStep \/ Pass \/ \E d \in Devices : InputEvent(d)
  PROVE  Control'
<1>1. UNCHANGED <<active, local, status, clients>>
  BY DEF BackendStep, managerVars, Pass, InputEvent
<1>2. target' \in {target, NoClient}
  BY DEF BackendStep, OwnStep, Pass, InputEvent, Tick, DeviceInput, ChordClears, ClearTarget,
         Fire, TimerCallback, PressChord, Unplug, Plug, Scan, ScanAdds, ScanRemoves
<1>3. QED
  BY <1>1, <1>2, FrameControl DEF IInv

LEMMA NextControl == IInv /\ [Next]_vars => Control'
<1> SUFFICES ASSUME IInv, [Next]_vars PROVE Control'
  OBVIOUS
<1>1. CASE UNCHANGED vars
  BY <1>1, FrameControl DEF vars, managerVars, captureVars, IInv
<1>2. CASE Next
  BY <1>2, CommandControl, SessionControl, EmergencyControl, BackendControl DEF Next
<1>3. QED
  BY <1>1, <1>2

\* In every reachable state the server is in one of its two modes with an
\* owner that is registered, input goes to the owner or to nobody, and no
\* other client is marked as controlled.
THEOREM ControlInvariant == Spec => []IInv
<1>1. Init => IInv
  <2>1. Init => TypeOK
    BY TypeInit
  <2>2. Init => Control
    BY DEF Init, CaptureInit, Control, OwnerConsistent, InputOnlyToOwner,
           OnlyOwnerMarkedControlled
  <2>3. QED
    BY <2>1, <2>2 DEF IInv
<1>2. IInv /\ [Next]_vars => IInv'
  BY NextTypeOK, NextControl DEF IInv
<1>3. QED
  BY <1>1, <1>2, PTL DEF Spec

\* The active client is registered, and there is one exactly when the server
\* does not control the local system.
THEOREM OwnerIsConsistent == Spec => []OwnerConsistent
<1>1. IInv => OwnerConsistent
  BY DEF IInv, Control
<1>2. QED
  BY <1>1, ControlInvariant, PTL

\* Input is never captured for a client that is not the active one.
THEOREM InputGoesToOwner == Spec => []InputOnlyToOwner
<1>1. IInv => InputOnlyToOwner
  BY DEF IInv, Control
<1>2. QED
  BY <1>1, ControlInvariant, PTL

\* No other client is marked as controlled.
THEOREM OnlyOwnerIsMarked == Spec => []OnlyOwnerMarkedControlled
<1>1. IInv => OnlyOwnerMarkedControlled
  BY DEF IInv, Control
<1>2. QED
  BY <1>1, ControlInvariant, PTL

-----------------------------------------------------------------------------
(* The server implements ControlOwner.  Giving control back maps to        *)
(* TakeBack when the manager does it and to Withdraw when the timer or the *)
(* Ctrl+ESC goroutine does it alone.                                       *)

LEMMA GoLocalTakesBack ==
  ASSUME GoLocal, UNCHANGED clients
  PROVE  Owner!TakeBack
BY DEF GoLocal, OwnerIsLocal, ClearTarget, Owner!TakeBack, Owner!NoClient, NoClient

LEMMA SwitchToLocalRefines ==
  ASSUME SwitchToLocal, UNCHANGED clients
  PROVE  [Owner!OwnerNext]_Owner!ownerVars
BY GoLocalTakesBack DEF SwitchToLocal, Owner!OwnerNext, Owner!ownerVars

LEMMA CommandRefines == Command => [Owner!OwnerNext]_Owner!ownerVars
<1> SUFFICES ASSUME Command PROVE [Owner!OwnerNext]_Owner!ownerVars
  OBVIOUS
<1>1. CASE Release
  BY <1>1, SwitchToLocalRefines DEF Release
<1>2. ASSUME NEW to, Rotate(to) PROVE [Owner!OwnerNext]_Owner!ownerVars
  BY <1>2, GoLocalTakesBack DEF Rotate, Owner!OwnerNext, Owner!ownerVars
<1>3. CASE \E c \in Ids : Select(c)
  BY <1>3 DEF Select, captureVars, Owner!ownerVars
<1>4. ASSUME NEW c \in Ids, SwitchToClient(c) PROVE [Owner!OwnerNext]_Owner!ownerVars
  <2>1. CASE GrantTo(c) /\ ~Forgotten(c)
    <3>1. Owner!Grant(c)
      BY <1>4, <2>1 DEF SwitchToClient, GrantTo, GrabAll, Forgotten, Owner!Grant
    <3>2. QED
      BY <3>1 DEF Owner!OwnerNext
  <2>2. CASE GrantFails(c)
    BY <1>4, <2>2 DEF SwitchToClient, GrantFails, GrabFails, RevertTarget, Owner!ownerVars
  <2>3. CASE UNCHANGED <<captureVars, status, active, local>>
    BY <1>4, <2>3 DEF SwitchToClient, captureVars, Owner!ownerVars
  <2>4. QED
    BY <1>4, <2>1, <2>2, <2>3 DEF SwitchToClient
<1>5. QED
  BY <1>1, <1>2, <1>3, <1>4 DEF Command, IpcNext, IpcPrevious

\* A client joins when it is registered and leaves when it is unregistered;
\* the input it leaves behind returns to the desktop because it had gone to
\* nobody but the active client.
LEMMA SessionRefines ==
  ASSUME IInv, NEW c \in Ids, Session(c)
  PROVE  [Owner!OwnerNext]_Owner!ownerVars
<1>1. CASE OpenSession(c) \/ CloseSession(c)
  BY <1>1 DEF OpenSession, CloseSession, captureVars, Owner!ownerVars
<1>2. CASE RegisterClient(c)
  <2>1. CASE c \in clients
    BY <1>2, <2>1 DEF RegisterClient, captureVars, Owner!ownerVars
  <2>2. CASE c \notin clients
    <3>1. Owner!Connect(c)
      BY <1>2, <2>2 DEF RegisterClient, captureVars, Owner!Connect
    <3>2. QED
      BY <3>1 DEF Owner!OwnerNext
  <2>3. QED
    BY <2>1, <2>2
<1>3. CASE UnregisterClient(c)
  <2>1. CASE c \in clients
    <3>1. Owner!Disconnect(c)
      BY <1>3, <2>1
      DEF UnregisterClient, Forgets, ReturnsControl, ClearTarget, OwnerIsLocal,
          Owner!Disconnect, Owner!NoClient, NoClient
    <3>2. QED
      BY <3>1 DEF Owner!OwnerNext
  <2>2. CASE c \notin clients
    <3>1. active # c
      BY <2>2, IdsAssumption DEF IInv, Control, OwnerConsistent
    <3>2. QED
      BY <1>3, <2>2, <3>1 DEF UnregisterClient, Forgets, ReturnsControl, Owner!ownerVars
  <2>3. QED
    BY <2>1, <2>2
<1>4. CASE ClientReleases(c)
  BY <1>4, SwitchToLocalRefines DEF ClientReleases
<1>5. QED
  BY <1>1, <1>2, <1>3, <1>4 DEF Session

LEMMA EmergencyRefines == Emergency => [Owner!OwnerNext]_Owner!ownerVars
BY SwitchToLocalRefines
DEF Emergency, SignalRelease, MonitorReleases, TriggerRelease, MonitorTrips,
    ChordNotifies, captureVars, Owner!ownerVars

LEMMA BackendRefines ==
  ASSUME BackendStep \/ Pass \/ \E d \in Devices : InputEvent(d)
  PROVE  [Owner!OwnerNext]_Owner!ownerVars
<1>1. UNCHANGED <<active, clients>>
  BY DEF BackendStep, managerVars, Pass, InputEvent
<1>2. target' \in {target, NoClient}
  BY DEF BackendStep, OwnStep, Pass, InputEvent, Tick, DeviceInput, ChordClears, ClearTarget,
         Fire, TimerCallback, PressChord, Unplug, Plug, Scan, ScanAdds, ScanRemoves
<1>3. CASE target' = target
  BY <1>1, <1>3 DEF Owner!ownerVars
<1>4. CASE target' = NoClient
  BY <1>1, <1>4 DEF Owner!OwnerNext, Owner!Withdraw, Owner!NoClient, NoClient
<1>5. QED
  BY <1>2, <1>3, <1>4

\* Whatever the server does with sessions, devices, timers and late commands,
\* an observer of the registry, the owner and the target sees ControlOwner.
THEOREM ServerImplementsControlOwner == Spec => ImplementsControlOwner
<1>1. Init => Owner!OwnerInit
  BY DEF Init, CaptureInit, Owner!OwnerInit, Owner!NoClient, NoClient
<1>2. IInv /\ [Next]_vars => [Owner!OwnerNext]_Owner!ownerVars
  <2>1. CASE UNCHANGED vars
    BY <2>1 DEF vars, managerVars, captureVars, Owner!ownerVars
  <2>2. CASE Next
    BY <2>2, CommandRefines, SessionRefines, EmergencyRefines, BackendRefines DEF Next
  <2>3. QED
    BY <2>1, <2>2
<1>3. QED
  BY <1>1, <1>2, ControlInvariant, PTL DEF Spec, ImplementsControlOwner, Owner!OwnerSpec

-----------------------------------------------------------------------------
(* The rotation.                                                           *)

\* NEXT and PREVIOUS are inverse to each other on every finite or infinite
\* registry: a registry is a set of numbers, and a client follows another one
\* exactly when that one precedes it.
THEOREM RotationReverses == Spec => []RotationIsReversible
<1>1. TypeOK => RotationIsReversible
  <2> SUFFICES ASSUME TypeOK, NEW o \in clients \cup {NoClient},
                      NEW p \in clients \cup {NoClient}, clients # {}
               PROVE  Follows(p, o) <=> Precedes(o, p)
    BY DEF RotationIsReversible
  <2>1. clients \subseteq Nat /\ NoClient \notin clients
    BY IdsAssumption DEF TypeOK
  <2>2. CASE o = NoClient /\ p = NoClient
    BY <2>1, <2>2 DEF Follows, Precedes, IsLeast, IsGreatest
  <2>3. CASE o = NoClient /\ p # NoClient
    <3>1. Before(p) = {} <=> IsLeast(p, clients)
      <4>1. p \in clients /\ \A e \in clients : ~(e < p) <=> p <= e
        BY <2>1, <2>3
      <4>2. QED
        BY <4>1, Zenon DEF Before, IsLeast
    <3>2. ~IsGreatest(o, Before(p))
      BY <2>1, <2>3 DEF Before, IsGreatest
    <3>3. QED
      BY <2>3, <3>1, <3>2 DEF Follows, Precedes
  <2>4. CASE o # NoClient /\ p = NoClient
    <3>1. After(o) = {} <=> IsGreatest(o, clients)
      <4>1. o \in clients /\ \A e \in clients : ~(e > o) <=> e <= o
        BY <2>1, <2>4
      <4>2. QED
        BY <4>1, Zenon DEF After, IsGreatest
    <3>2. ~IsLeast(p, After(o))
      BY <2>1, <2>4 DEF After, IsLeast
    <3>3. QED
      BY <2>4, <3>1, <3>2 DEF Follows, Precedes
  <2>5. CASE o # NoClient /\ p # NoClient
    BY <2>1, <2>5 DEF Follows, Precedes, IsLeast, IsGreatest, After, Before
  <2>6. QED
    BY <2>2, <2>3, <2>4, <2>5
<1>2. QED
  BY <1>1, TypeCorrect, PTL

-----------------------------------------------------------------------------
(* The backend inside the server.  The manager does to it what its unknown *)
(* caller does in CaptureSpec, except that the Ctrl+ESC goroutine ends in  *)
(* the same step as the SwitchToLocal it calls; so what holds of the       *)
(* backend on its own, whatever chord is, holds here.                      *)

DevicesVars == <<hotplugVars, grabVars, target, timerVars>>

BackendMove ==
  \/ ClearTarget
  \/ \E id \in Ids : GrabAll(id) \/ GrabFails(id)
  \/ Tick
  \/ \E d \in Devices : DeviceInput(d)
  \/ OwnStep
  \/ UNCHANGED DevicesVars

LEMMA SwitchToLocalMoves == SwitchToLocal => BackendMove
BY DEF SwitchToLocal, GoLocal, BackendMove, DevicesVars

LEMMA ServerMovesBackend == [Next]_vars => BackendMove
<1> SUFFICES ASSUME [Next]_vars PROVE BackendMove
  OBVIOUS
<1>1. CASE Command
  <2>1. CASE Release
    BY <2>1, SwitchToLocalMoves DEF Release
  <2>2. CASE IpcNext \/ IpcPrevious
    BY <2>2 DEF IpcNext, IpcPrevious, Rotate, GoLocal, BackendMove, DevicesVars
  <2>3. ASSUME NEW c \in Ids, Select(c) \/ SwitchToClient(c) PROVE BackendMove
    BY <2>3
    DEF Select, SwitchToClient, GrantTo, GrantFails, BackendMove, DevicesVars, captureVars
  <2>4. QED
    BY <1>1, <2>1, <2>2, <2>3 DEF Command
<1>2. ASSUME NEW c \in Ids, Session(c) PROVE BackendMove
  <2>1. CASE OpenSession(c) \/ RegisterClient(c) \/ CloseSession(c)
    BY <2>1 DEF OpenSession, RegisterClient, CloseSession, BackendMove, DevicesVars, captureVars
  <2>2. CASE UnregisterClient(c)
    BY <2>2 DEF UnregisterClient, Forgets, ReturnsControl, BackendMove, DevicesVars
  <2>3. CASE ClientReleases(c)
    BY <2>3, SwitchToLocalMoves DEF ClientReleases
  <2>4. QED
    BY <1>2, <2>1, <2>2, <2>3 DEF Session
<1>3. CASE Emergency
  <2>1. CASE SignalRelease \/ MonitorReleases \/ ChordNotifies
    BY <2>1, SwitchToLocalMoves
    DEF SignalRelease, MonitorReleases, TriggerRelease, ChordNotifies
  <2>2. CASE MonitorTrips
    BY <2>2 DEF MonitorTrips, BackendMove, DevicesVars, captureVars
  <2>3. QED
    BY <1>3, <2>1, <2>2 DEF Emergency
<1>4. CASE \/ \E d \in Devices : InputEvent(d)
           \/ Pass \/ BackendStep
  BY <1>4 DEF InputEvent, Pass, BackendStep, BackendMove
<1>5. CASE UNCHANGED vars
  BY <1>5 DEF vars, captureVars, BackendMove, DevicesVars
<1>6. QED
  BY <1>1, <1>2, <1>3, <1>4, <1>5 DEF Next

\* In the server too a client is never the target without a safety timer that is armed or
\* about to end the grab, whatever commands, sessions and releases do in between.
THEOREM ServerKeepsSafetyTimer == Spec => []TargetHasTimer
<1>1. Init => TargetHasTimer
  BY DEF Init, CaptureInit, TargetHasTimer
<1>2. TypeOK /\ TargetHasTimer /\ [Next]_vars => TargetHasTimer'
  <2> SUFFICES ASSUME TypeOK, TargetHasTimer, BackendMove PROVE TargetHasTimer'
    BY ServerMovesBackend
  <2>1. CaptureTypeOK
    BY DEF TypeOK
  <2>2. CASE ClearTarget \/ \E id \in Ids : GrabFails(id)
    BY <2>2, TimerFrame DEF ClearTarget, GrabFails, RevertTarget
  <2>3. CASE \E id \in Ids : GrabAll(id)
    BY <2>1, <2>3, GrabAllTimer
  <2>4. CASE UNCHANGED DevicesVars
    BY <2>4, TimerFrame DEF DevicesVars
  <2>5. QED
    BY <2>1, <2>2, <2>3, <2>4, TickTimer, DeviceInputTimer, OwnStepTimer DEF BackendMove
<1>3. QED
  BY <1>1, <1>2, TypeCorrect, PTL DEF Spec

LEMMA ServerDevices == TypeOK /\ DevicesRight /\ [Next]_vars => DevicesRight'
<1> SUFFICES ASSUME TypeOK, DevicesRight, BackendMove PROVE DevicesRight'
  BY ServerMovesBackend
<1>1. CaptureTypeOK
  BY DEF TypeOK
<1>2. CASE Tick \/ \E d \in Devices : DeviceInput(d)
  BY <1>2, DevicesFrame DEF Tick, DeviceInput, hotplugVars
<1>3. CASE UNCHANGED DevicesVars
  BY <1>3, DevicesFrame DEF DevicesVars, hotplugVars
<1>4. QED
  BY <1>1, <1>2, <1>3, SetTargetDevices, OwnStepDevices DEF BackendMove

LEMMA ServerDevicesInvariant == Spec => []DevicesRight
<1>1. Init => DevicesRight
  BY DevicesInit DEF Init
<1>2. QED
  BY <1>1, ServerDevices, TypeCorrect, PTL DEF Spec

\* In the server too, whatever commands, sessions, emergencies and timers do, only a failed
\* grab leaves a working device grabbed under local control.
THEOREM ServerLocalHasItsDevices == Spec => []LocalHoldsOnlyLeftovers
<1>1. DevicesRight => LocalHoldsOnlyLeftovers
  BY DEF DevicesRight
<1>2. QED
  BY <1>1, ServerDevicesInvariant, PTL

\* In the server too a client that has the input has every device but those opened since.
THEOREM ServerTargetHasItsDevices == Spec => []TargetHoldsDevices
<1>1. DevicesRight => TargetHoldsDevices
  BY DEF DevicesRight
<1>2. QED
  BY <1>1, ServerDevicesInvariant, PTL
=============================================================================
