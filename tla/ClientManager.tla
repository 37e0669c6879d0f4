--------------------------- MODULE ClientManager ----------------------------
(***************************************************************************)
(* The server: who controls what.  ClientManager                           *)
(* (internal/server/manager.go) keeps the registry of clients and the      *)
(* owner of keyboard and mouse, the SSH server                             *)
(* (internal/network/ssh_server.go) opens and ends the sessions behind the *)
(* registry, EmergencyRelease (internal/server/emergency.go) takes control *)
(* back, and AllDevicesCapture (module InputCapture) holds the devices.    *)
(*                                                                         *)
(* An action is one critical section of ClientManager.mu or of             *)
(* AllDevicesCapture.mu.  SetTarget is called inside the manager's section *)
(* and is part of the same action: what another goroutine can do to the    *)
(* backend in between reads nothing the rest of the section writes.        *)
(*                                                                         *)
(* Client ids are the addresses the SSH server reports; the order of       *)
(* natural numbers stands for the order of sort.Strings on them.           *)
(***************************************************************************)
EXTENDS InputCapture, FiniteSets

CONSTANT
  MaxClients  \* server.max_clients; 0 is no limit

ASSUME MaxClientsAssumption == MaxClients \in Nat

VARIABLES
  phase,    \* where the session handler of each address is
  clients,  \* keys of ClientManager.clients
  status,   \* ConnectedClient.Status
  active,   \* activeClientID
  local,    \* controllingLocal
  chosen,   \* clients a caller decided to switch to and has not switched to yet
  idle,     \* ticks since EmergencyRelease.lastActivity, saturating
  tripped   \* monitorActivity has found the server idle and not released yet

managerVars == <<phase, clients, status, active, local, chosen, idle, tripped>>
vars == <<captureVars, managerVars>>

Saturated == Timeout + 1

TypeOK ==
  /\ CaptureTypeOK
  /\ phase \in [Ids -> {"absent", "open", "serving", "closing"}]
  /\ clients = {c \in Ids : phase[c] \in {"serving", "closing"}}
  /\ status \in [Ids -> {"idle", "controlled"}]
  /\ active \in Ids \cup {NoClient}
  /\ local \in BOOLEAN
  /\ chosen \subseteq Ids
  /\ idle \in 0..Saturated
  /\ tripped \in BOOLEAN

Init ==
  /\ CaptureInit
  /\ phase = [c \in Ids |-> "absent"]
  /\ clients = {}
  /\ status = [c \in Ids |-> "idle"]
  /\ active = NoClient
  /\ local = TRUE
  /\ chosen = {}
  /\ idle = 0
  /\ tripped = FALSE

-----------------------------------------------------------------------------
(* Switching, with ClientManager.mu held.                                  *)

\* The client that loses control is marked idle.
KeepStatus == status
Demoted == [c \in Ids |-> IF c = active /\ c \in clients THEN "idle" ELSE status[c]]

\* The part SwitchToLocal and switchToLocalInternal share.
OwnerIsLocal == active' = NoClient /\ local' = TRUE

GoLocal ==
  /\ status' = Demoted
  /\ ClearTarget
  /\ OwnerIsLocal

\* SwitchToLocal returns at once when control is local already.
SwitchToLocal ==
  \/ local /\ UNCHANGED <<hotplugVars, grabVars, target, timerVars, status, active, local>>
  \/ ~local /\ GoLocal

\* SwitchToClient after its checks, when the backend grabs every device.
GrantTo(id) ==
  /\ GrabAll(id)
  /\ active' = id
  /\ local' = FALSE
  /\ status' = [Demoted EXCEPT ![id] = "controlled"]

\* ... and when it cannot: the previous client has been marked idle already.
GrantFails(id) ==
  /\ GrabFails(id)
  /\ status' = Demoted
  /\ UNCHANGED <<active, local>>

AlreadyControlled(id) == active = id /\ ~local
NeverForgotten(id) == FALSE
Forgotten(id) == id \notin clients

SwitchToClient(id) ==
  /\ id \in chosen
  /\ chosen' = chosen \ {id}
  /\ \/ /\ AlreadyControlled(id) \/ Forgotten(id)
        /\ UNCHANGED <<captureVars, status, active, local>>
     \/ /\ ~AlreadyControlled(id) /\ ~Forgotten(id)
        /\ GrantTo(id) \/ GrantFails(id)
        /\ UNCHANGED chord
  /\ UNCHANGED <<phase, clients, idle, tripped>>

-----------------------------------------------------------------------------
(* Commands.  A command that ends in SwitchToClient decides on the client  *)
(* first and takes the lock for the switch later.                          *)

\* The TUI's 1-5 and Tab keys and the IPC command ENABLE take a client from a
\* copy of the registry, in map order.
Select(c) ==
  /\ c \in clients
  /\ chosen' = chosen \cup {c}
  /\ UNCHANGED <<captureVars, phase, clients, status, active, local, idle, tripped>>

\* The TUI's 0 and ESC keys, the R key, the IPC command DISABLE.
Release ==
  /\ SwitchToLocal
  /\ UNCHANGED <<chord, phase, clients, chosen, idle, tripped>>

After(c) == {d \in clients : d > c}
Before(c) == {d \in clients : d < c}
IsLeast(d, S) == d \in S /\ \A e \in S : d <= e
IsGreatest(d, S) == d \in S /\ \A e \in S : e <= d

\* The rotation of switchToNextClientOrLocal and switchToPreviousClientOrLocal:
\* local, the clients in order, local again; NoClient stands for local.
Follows(to, o) ==
  \/ o = NoClient /\ IsLeast(to, clients)
  \/ o # NoClient /\ IsLeast(to, After(o))
  \/ o # NoClient /\ After(o) = {} /\ to = NoClient

PrecedesNeverLocal(to, o) ==
  \/ o = NoClient /\ IsGreatest(to, clients)
  \/ o # NoClient /\ IsGreatest(to, Before(o))
  \/ o # NoClient /\ Before(o) = {} /\ IsGreatest(to, clients)

Precedes(to, o) ==
  \/ o = NoClient /\ IsGreatest(to, clients)
  \/ o # NoClient /\ IsGreatest(to, Before(o))
  \/ o # NoClient /\ Before(o) = {} /\ to = NoClient

\* Without clients, or with an active client that is not in the registry,
\* both commands go to local.
CanRotate == clients # {} /\ (local \/ active \in clients)
Rotating == IF local THEN NoClient ELSE active

Rotate(to) ==
  /\ \/ to = NoClient /\ GoLocal /\ UNCHANGED chosen
     \/ /\ to # NoClient
        /\ chosen' = chosen \cup {to}
        /\ UNCHANGED <<hotplugVars, grabVars, target, timerVars, status, active, local>>
  /\ UNCHANGED <<chord, phase, clients, idle, tripped>>

IpcNext ==
  \E to \in Ids \cup {NoClient} :
    /\ IF CanRotate THEN Follows(to, Rotating) ELSE to = NoClient
    /\ Rotate(to)

IpcPrevious ==
  \E to \in Ids \cup {NoClient} :
    /\ IF CanRotate THEN Precedes(to, Rotating) ELSE to = NoClient
    /\ Rotate(to)

-----------------------------------------------------------------------------
(* Sessions and the registry.                                              *)

NoSpace ==
  MaxClients > 0 /\ Cardinality({c \in Ids : phase[c] \in {"open", "serving"}}) >= MaxClients

\* The session handler enters the session in SSHServer.clients.  An address
\* is not reused while a command for its last owner is being carried out.
OpenSession(id) ==
  /\ phase[id] = "absent"
  /\ id \notin chosen
  /\ ~NoSpace
  /\ phase' = [phase EXCEPT ![id] = "open"]
  /\ UNCHANGED <<captureVars, clients, status, active, local, chosen, idle, tripped>>

RegisterClient(id) ==
  /\ phase[id] = "open"
  /\ phase' = [phase EXCEPT ![id] = "serving"]
  /\ clients' = clients \cup {id}
  /\ status' = [status EXCEPT ![id] = "idle"]
  /\ UNCHANGED <<captureVars, active, local, chosen, idle, tripped>>

\* The connection is gone: the handler leaves SSHServer.clients ...
CloseSession(id) ==
  /\ phase[id] = "serving"
  /\ phase' = [phase EXCEPT ![id] = "closing"]
  /\ UNCHANGED <<captureVars, clients, status, active, local, chosen, idle, tripped>>

\* ... and then tells the manager.
TakesControlAlong(id) ==
  UNCHANGED <<hotplugVars, grabVars, target, timerVars, active, local>>
ReturnsControl(id) ==
  IF active = id
  THEN ClearTarget /\ OwnerIsLocal
  ELSE UNCHANGED <<hotplugVars, grabVars, target, timerVars, active, local>>

ForgetsUnlessActive(id) == clients' = IF active = id THEN clients ELSE clients \ {id}
Forgets(id) == clients' = clients \ {id}

UnregisterClient(id) ==
  /\ phase[id] = "closing"
  /\ phase' = [phase EXCEPT ![id] = "absent"]
  /\ ReturnsControl(id)
  /\ Forgets(id)
  /\ UNCHANGED <<chord, status, chosen, idle, tripped>>

\* A client's RELEASE_CONTROL, whichever client has control.
ClientReleases(id) ==
  /\ phase[id] = "serving"
  /\ SwitchToLocal
  /\ UNCHANGED <<chord, phase, clients, chosen, idle, tripped>>

-----------------------------------------------------------------------------
(* Emergency release.                                                      *)

\* triggerRelease: SIGUSR1 and the trigger file.
TriggerRelease ==
  /\ SwitchToLocal
  /\ idle' = 0
  /\ UNCHANGED <<chord, phase, clients, chosen>>

SignalRelease == TriggerRelease /\ UNCHANGED tripped

\* monitorActivity looks at the owner and at the clock and releases later.
MonitorTrips ==
  /\ ~tripped
  /\ ~local
  /\ idle > Timeout
  /\ tripped' = TRUE
  /\ UNCHANGED <<captureVars, phase, clients, status, active, local, chosen, idle>>

MonitorReleases ==
  /\ tripped
  /\ tripped' = FALSE
  /\ TriggerRelease

\* The second half of the Ctrl+ESC goroutine, the handler set by initInput.
ChordNotifies ==
  /\ chord = "cleared"
  /\ chord' = "none"
  /\ SwitchToLocal
  /\ UNCHANGED <<phase, clients, chosen, idle, tripped>>

-----------------------------------------------------------------------------
(* The backend's own steps.                                                *)

\* An input event reaches the callback set by initInput while a client is the
\* target: that is the activity monitorActivity waits for.
AlwaysActivity == idle' = 0
CountActivity == idle' = IF target # NoClient THEN 0 ELSE idle

InputEvent(d) ==
  /\ DeviceInput(d)
  /\ CountActivity
  /\ UNCHANGED <<phase, clients, status, active, local, chosen, tripped>>

OneLater(n) == IF n < Saturated THEN n + 1 ELSE n

Pass ==
  /\ Tick
  /\ idle' = OneLater(idle)
  /\ UNCHANGED <<phase, clients, status, active, local, chosen, tripped>>

BackendStep == OwnStep /\ UNCHANGED managerVars

Command ==
  \/ Release
  \/ IpcNext
  \/ IpcPrevious
  \/ \E c \in Ids : Select(c) \/ SwitchToClient(c)

Session(c) ==
  \/ OpenSession(c)
  \/ RegisterClient(c)
  \/ CloseSession(c)
  \/ UnregisterClient(c)
  \/ ClientReleases(c)

Emergency ==
  \/ SignalRelease
  \/ MonitorTrips
  \/ MonitorReleases
  \/ ChordNotifies

Next ==
  \/ Command
  \/ \E c \in Ids : Session(c)
  \/ Emergency
  \/ \E d \in Devices : InputEvent(d)
  \/ Pass
  \/ BackendStep

\* Goroutines that have work get to do it and time passes; users, clients,
\* cables and signals owe nothing.
Fairness ==
  /\ WF_vars(Pass)
  /\ WF_vars(MonitorTrips)
  /\ WF_vars(MonitorReleases)
  /\ WF_vars(ChordNotifies)
  /\ WF_vars(ChordClears /\ UNCHANGED managerVars)
  /\ \A t \in Timers :
       /\ WF_vars(Fire(t) /\ UNCHANGED managerVars)
       /\ WF_vars(TimerCallback(t) /\ UNCHANGED managerVars)
  /\ \A c \in Ids :
       /\ WF_vars(RegisterClient(c))
       /\ WF_vars(UnregisterClient(c))
       /\ WF_vars(SwitchToClient(c))

Spec == Init /\ [][Next]_vars
FairSpec == Spec /\ Fairness

-----------------------------------------------------------------------------
(* Safety.                                                                 *)

\* Exactly one of two things holds whenever the manager's lock is free: the
\* desktop is in control and no client is active, or the active client is one
\* of the registered ones.  Sessions end, commands arrive late and emergency
\* releases come from four goroutines; none leaves an owner that is gone.
OwnerConsistent ==
  /\ local <=> active = NoClient
  /\ ~local => active \in clients

\* Captured input goes to the owner or to nobody: the backend's target, which
\* the timer and Ctrl+ESC change behind the manager's back, never names a
\* client other than the active one.
InputOnlyToOwner == target # NoClient => target = active

\* At most one registered client is marked BEING_CONTROLLED, the active one,
\* also after a switch that failed half-way or a session that ended.
OnlyOwnerMarkedControlled ==
  \A c \in clients : status[c] = "controlled" => c = active

\* NEXT and PREVIOUS undo each other wherever control is and whichever clients
\* come and go: neither skips a client nor leaves local out of the rotation.
RotationIsReversible ==
  \A o, p \in clients \cup {NoClient} :
    clients # {} => (Follows(p, o) <=> Precedes(o, p))

\* The manager's promise as an abstract specification of its own.
Owner == INSTANCE ControlOwner WITH connected <- clients, owner <- active, focus <- target
ImplementsControlOwner == Owner!OwnerSpec

-----------------------------------------------------------------------------
(* Liveness.                                                               *)

\* "Automatic release when client disconnects": when the active client's
\* session has ended, control leaves that client.
DisconnectReleases ==
  \A c \in Ids : (active = c /\ phase[c] = "closing") ~> (active # c)

\* When the safety timer or Ctrl+ESC has taken the devices back behind the
\* manager's back, the manager's idea of the owner does not stay wrong.
DesyncHeals ==
  (~local /\ target = NoClient) ~> (local \/ target # NoClient)
=============================================================================
