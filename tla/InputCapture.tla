---------------------------- MODULE InputCapture ----------------------------
(***************************************************************************)
(* The server's input backend, AllDevicesCapture                           *)
(* (internal/input/all_devices_capture.go): the table of open              *)
(* /dev/input/event* handlers, the exclusive grab on them while a client   *)
(* is the target, and the safety timer that ends a grab nobody uses.       *)
(*                                                                         *)
(* SetTarget is called by the ClientManager (module ClientManager), by the *)
(* Ctrl+ESC goroutine and by nobody else; this module leaves the caller    *)
(* open, module ClientManager closes it.  Every action is one critical     *)
(* section of AllDevicesCapture.mu.  Time advances in ticks.               *)
(*                                                                         *)
(* noGrab is never set by the program, so the exclusive-grab branch is the *)
(* only one modelled.                                                      *)
(***************************************************************************)
EXTENDS Naturals

CONSTANTS
  Ids,      \* ids of clients, as the manager passes them to SetTarget
  Devices,  \* paths under /dev/input
  Timers,   \* time.Timer objects that can be alive at once
  NoTimer,  \* grabTimer == nil
  Timeout   \* grabTimeout, in ticks

NoClient == 0  \* the empty target "": control is local

ASSUME IdsAssumption == Ids \subseteq Nat \ {NoClient}
ASSUME TimersAssumption == NoTimer \notin Timers
ASSUME TimeoutAssumption == Timeout \in Nat \ {0}

VARIABLES
  plugged,   \* event nodes that exist right now
  devices,   \* keys of the devices map: paths with a handler
  dead,      \* handlers whose file descriptor lost its device
  ignored,   \* ignoredDevices
  grabbed,   \* handlers whose grabbed flag is set
  target,    \* currentTarget
  grabTimer, \* the timer the struct still points to
  age,       \* ticks since each timer was armed, or Off
  firing,    \* expired timers whose callback has not got the mutex yet
  chord,     \* the goroutine of a Ctrl+ESC press: none, pressed, cleared
  late,      \* history: handlers the scan opened since the last full grab
  leftover   \* history: handlers a failed grab took under local control

hotplugVars == <<plugged, devices, dead, ignored>>
grabVars == <<grabbed, late, leftover>>
timerVars == <<grabTimer, age, firing>>
captureVars == <<hotplugVars, grabVars, target, timerVars, chord>>

Off == Timeout + 1
Armed(t) == age[t] # Off
Fresh == {t \in Timers : ~Armed(t) /\ t \notin firing}
Live == devices \ dead

CaptureTypeOK ==
  /\ plugged \subseteq Devices
  /\ devices \subseteq Devices
  /\ dead \subseteq devices
  /\ ignored \subseteq Devices \ devices
  /\ grabbed \subseteq devices
  /\ target \in Ids \cup {NoClient}
  /\ grabTimer \in Timers \cup {NoTimer}
  /\ age \in [Timers -> 0..Off]
  /\ firing \subseteq Timers
  /\ chord \in {"none", "pressed", "cleared"}
  /\ late \subseteq devices
  /\ leftover \subseteq grabbed

CaptureInit ==
  /\ plugged = Devices
  /\ devices = Devices
  /\ dead = {}
  /\ ignored = {}
  /\ grabbed = {}
  /\ target = NoClient
  /\ grabTimer = NoTimer
  /\ age = [t \in Timers |-> Off]
  /\ firing = {}
  /\ chord = "none"
  /\ late = {}
  /\ leftover = {}

-----------------------------------------------------------------------------
(* SetTarget.                                                              *)

\* SetTarget("") releases every grabbed handler: the ioctl fails on a
\* descriptor whose device is gone, and the flag of that handler stays.
ReleaseNothing == grabbed
StillGrabbed == grabbed \cap dead

\* SetTarget(""): stop and forget the current timer, release the devices.
StopTimer ==
  /\ grabTimer' = NoTimer
  /\ age' = [t \in Timers |-> IF t = grabTimer THEN Off ELSE age[t]]
  /\ UNCHANGED firing

ClearTarget ==
  /\ target' = NoClient
  /\ grabbed' = StillGrabbed
  /\ leftover' = {}
  /\ StopTimer
  /\ UNCHANGED <<hotplugVars, late>>

\* SetTarget(id) when every handler can be grabbed: a new safety timer is
\* started and the previous one, if any, is neither stopped nor referenced.
NoNewTimer == UNCHANGED timerVars
ArmTimer ==
  /\ \E t \in Fresh :
       /\ grabTimer' = t
       /\ age' = [age EXCEPT ![t] = 0]
  /\ UNCHANGED firing

GrabAll(id) ==
  /\ dead \subseteq grabbed
  /\ grabbed' = devices
  /\ late' = {}
  /\ leftover' = {}
  /\ target' = id
  /\ ArmTimer
  /\ UNCHANGED hotplugVars

\* SetTarget(id) when some Grab fails (the descriptor is dead, or another
\* process holds the device): the target is put back, the handlers that
\* were grabbed in the loop stay grabbed and no timer is started.
KeepsNewTarget(id) == target' = id
RevertTarget(id) == UNCHANGED target

GrabFails(id) ==
  /\ \E failed \in SUBSET (devices \ grabbed) :
       /\ failed # {}
       /\ dead \ grabbed \subseteq failed
       /\ grabbed' = devices \ failed
  /\ leftover' = IF target = NoClient THEN leftover \cup (grabbed' \ grabbed) ELSE leftover
  /\ RevertTarget(id)
  /\ UNCHANGED <<hotplugVars, late, timerVars>>

-----------------------------------------------------------------------------
(* The safety timer.                                                       *)

AgeTimers ==
  age' = [t \in Timers |-> IF age[t] < Timeout THEN age[t] + 1 ELSE age[t]]

\* The runtime starts the callback of an expired timer.
Fire(t) ==
  /\ age[t] = Timeout
  /\ age' = [age EXCEPT ![t] = Off]
  /\ firing' = firing \cup {t}
  /\ UNCHANGED <<hotplugVars, grabVars, target, grabTimer, chord>>

\* The callback gets the mutex.  It does not look at which target it was
\* started for, it tells nobody, and unlike SetTarget("") it clears the flag
\* of every handler, also where the release fails.
TimerCallback(t) ==
  /\ t \in firing
  /\ firing' = firing \ {t}
  /\ IF target # NoClient
     THEN target' = NoClient /\ grabbed' = {} /\ leftover' = {}
     ELSE UNCHANGED <<target, grabbed, leftover>>
  /\ UNCHANGED <<hotplugVars, late, grabTimer, age, chord>>

\* sendEvent: activity on a device restarts the timer the struct points to.
ResetTimer ==
  age' = [t \in Timers |->
            IF target # NoClient /\ t = grabTimer THEN 0 ELSE age[t]]

DeviceInput(d) ==
  /\ d \in Live
  /\ ResetTimer
  /\ UNCHANGED <<hotplugVars, grabVars, target, grabTimer, firing, chord>>

-----------------------------------------------------------------------------
(* Ctrl+ESC: the capture loop starts a goroutine that clears the target    *)
(* and then calls the emergency handler.                                   *)

PressChord(d) ==
  /\ d \in Live
  /\ target # NoClient
  /\ chord = "none"
  /\ chord' = "pressed"
  /\ UNCHANGED <<hotplugVars, grabVars, target, timerVars>>

ChordClears ==
  /\ chord = "pressed"
  /\ chord' = "cleared"
  /\ ClearTarget

-----------------------------------------------------------------------------
(* Hot-plugging and the 2-second scan of /dev/input.                       *)

\* The kernel removes the event node; an open descriptor goes dead.
Unplug(d) ==
  /\ d \in plugged
  /\ plugged' = plugged \ {d}
  /\ dead' = dead \cup ({d} \cap devices)
  /\ UNCHANGED <<devices, ignored, grabVars, target, timerVars, chord>>

\* A device appears under a free path; a handler that is still in the map
\* for that path keeps its dead descriptor.
Plug(d) ==
  /\ d \notin plugged
  /\ plugged' = plugged \cup {d}
  /\ UNCHANGED <<devices, dead, ignored, grabVars, target, timerVars, chord>>

\* The scan opens paths it knows neither as a handler nor as a device that
\* cannot be used.  A new handler is not grabbed, whoever has control.
NotOpen == plugged \ devices
Unknown == plugged \ (devices \cup ignored)

ScanAdds(d) ==
  /\ d \in Unknown
  /\ \/ devices' = devices \cup {d} /\ late' = late \cup {d} /\ UNCHANGED ignored
     \/ ignored' = ignored \cup {d} /\ UNCHANGED <<devices, late>>
  /\ UNCHANGED <<plugged, dead, grabbed, leftover, target, timerVars, chord>>

ScanRemoves(d) ==
  /\ d \in (devices \cup ignored) \ plugged
  /\ devices' = devices \ {d}
  /\ dead' = dead \ {d}
  /\ grabbed' = grabbed \ {d}
  /\ late' = late \ {d}
  /\ leftover' = leftover \ {d}
  /\ ignored' = ignored \ {d}
  /\ UNCHANGED <<plugged, target, timerVars, chord>>

Scan(d) == ScanAdds(d) \/ ScanRemoves(d)

\* What the backend, the runtime and the user's cables do by themselves.
OwnStep ==
  \/ ChordClears
  \/ \E t \in Timers : Fire(t) \/ TimerCallback(t)
  \/ \E d \in Devices : PressChord(d) \/ Unplug(d) \/ Plug(d) \/ Scan(d)

-----------------------------------------------------------------------------
(* The backend on its own, with an unknown caller of SetTarget.            *)

SetTarget ==
  /\ \/ ClearTarget
     \/ \E id \in Ids : GrabAll(id) \/ GrabFails(id)
  /\ UNCHANGED chord

\* The emergency handler's work is the manager's; here the goroutine ends.
ChordEnds ==
  /\ chord = "cleared"
  /\ chord' = "none"
  /\ UNCHANGED <<hotplugVars, grabVars, target, timerVars>>

Tick ==
  /\ AgeTimers
  /\ UNCHANGED <<hotplugVars, grabVars, target, grabTimer, firing, chord>>

Activity == SetTarget \/ \E d \in Devices : DeviceInput(d)

CaptureNext ==
  \/ SetTarget
  \/ Tick
  \/ ChordEnds
  \/ \E d \in Devices : DeviceInput(d)
  \/ OwnStep

\* Time passes, the runtime runs expired timers and started goroutines, and
\* the scan's ticker keeps ticking.  Users and cables owe nothing.
CaptureFairness ==
  /\ WF_captureVars(Tick)
  /\ \A t \in Timers : WF_captureVars(Fire(t)) /\ WF_captureVars(TimerCallback(t))
  /\ WF_captureVars(ChordClears)
  /\ WF_captureVars(ChordEnds)
  /\ \A d \in Devices : WF_captureVars(Scan(d))

CaptureSpec ==
  CaptureInit /\ [][CaptureNext]_captureVars /\ CaptureFairness

-----------------------------------------------------------------------------
(* Properties.                                                             *)

\* While a client is the target there is a safety timer that will end the
\* grab: the one grabTimer points to is armed or its callback is on its way.
\* (SetTarget, sendEvent and the callback run on three goroutines.)
TargetHasTimer ==
  target # NoClient =>
    /\ grabTimer # NoTimer
    /\ Armed(grabTimer) \/ grabTimer \in firing

\* Under local control the desktop has its devices, except those a failed
\* grab took before it met the handler it could not grab: SetTarget puts the
\* target back and leaves them grabbed.  Nothing else, neither a release, the
\* timer, a chord that comes late nor a device replaced while it was grabbed,
\* leaves a working device grabbed for nobody.
LocalHoldsOnlyLeftovers == target = NoClient => grabbed \subseteq dead \cup leftover

\* While a client has the input, the only devices whose events also reach the
\* desktop are those the scan opened since the grab.  Neither a hand-over
\* that fails half-way nor a release that another SetTarget overtakes leaves
\* a client with part of the other devices.
TargetHoldsDevices == target # NoClient => devices \ grabbed \subseteq late

\* Without further activity a grab does not last: the target is cleared
\* again and again, or devices and callers are active for ever.
IdleGrabEnds ==
  []<>(target = NoClient) \/ []<><<Activity>>_captureVars
=============================================================================
