------------------------------ MODULE ServerLife -----------------------------
(***************************************************************************)
(* The server's process from its start to its end: cmd/server.go's         *)
(* runServer and initializeServer, server.Server, the start and stop of    *)
(* the SSH server and its sessions, the terminal interface's runner, and   *)
(* the IPC socket (module SwitchSocket).                                   *)
(*                                                                         *)
(* Without the interface one goroutine starts everything and then waits    *)
(* for a signal.  With it the interface runs at once, the server is made   *)
(* by a goroutine of its own, and three parties may end it: a key, which   *)
(* ends the interface and stops the server before the context is           *)
(* cancelled, a signal, and the failure of nothing else.                   *)
(*                                                                         *)
(* The SSH server is started by a goroutine that start-up does not wait    *)
(* for: a stop may come before it has a listener, or before it is there.   *)
(*                                                                         *)
(* The manager is what the start and the end need of it: its registry, who *)
(* has control, and its lock, which a stop needs too.  Its operations are  *)
(* ClientManager's; here one of them leaves control anywhere, at once or   *)
(* after it has waited with the lock for a client that does not read, or   *)
(* hangs with the lock in the interface (ServerLocks).                     *)
(***************************************************************************)
EXTENDS SwitchSocket

CONSTANTS
  MaxClients,  \* the SSH server's limit
  Users        \* what may happen: which clients and commands there are, what they and
               \* the user do, and how many lives the server has (the bound on processes)

ASSUME MaxClientsAssumption == MaxClients \in Nat \ {0}
Deeds == {"interface", "signal", "kill", "stall", "operate"}
ASSUME UsersAssumption ==
  Users \subseteq [clients : SUBSET Clients, commands : SUBSET Commands, lives : Nat,
                  do : SUBSET Deeds]

VARIABLES
  proc,      \* the process: with the interface or not, main, the start-up, the context
  parts,     \* the backend, the manager, the emergency release and their connections
  ssh,       \* the SSH server: how far Start is, and ListenAndServe's goroutine
  ui,        \* the interface's runner
  stop,      \* Server.Stop: phase, and whether the start-up was still going on
  sshStop,   \* SSHServer.Stop
  session,   \* each client's SSH session
  table,     \* SSHServer.clients
  registered, \* ClientManager.clients
  notice,    \* NotifyShutdown: whom it has still to tell, whom it told, who was there
  stalled,   \* clients that do not read
  lock,      \* ClientManager.mu, as the manager's other operations hold it
  users,     \* which of Users there are
  launches   \* processes so far

lifeVars == <<proc, parts, ssh, ui, stop, sshStop, session, table, registered, notice,
              stalled, lock, users, launches>>
vars == <<socketVars, lifeVars>>

NoParts ==
  [backend |-> "none", manager |-> FALSE, emergency |-> "none",
   callbacks |-> FALSE, linked |-> FALSE, attached |-> FALSE]
NoSsh == [start |-> "none", listen |-> "no"]
NoNotice == [todo |-> {}, told |-> {}, owed |-> {}, left |-> {}]
NoStop == [phase |-> "no", early |-> FALSE]

Init ==
  /\ SocketInit
  /\ proc = [tui |-> FALSE, main |-> "exited", init |-> "none", cancelled |-> FALSE,
             signal |-> FALSE]
  /\ parts = NoParts /\ ssh = NoSsh /\ ui = "off"
  /\ stop = NoStop /\ sshStop = "no"
  /\ session = [c \in Clients |-> "out"]
  /\ table = {} /\ registered = {}
  /\ notice = NoNotice /\ stalled = {} /\ lock = "free"
  /\ users \in Users /\ launches = 0

Alive == proc.main /= "exited"

\* runServer up to the start of the server; without the interface server.New follows.
Launch ==
  /\ ~Alive /\ launches < users.lives
  /\ launches' = launches + 1
  /\ \E tui \in BOOLEAN :
       /\ tui => "interface" \in users.do
       /\ ui' = IF tui THEN "running" ELSE "off"
       /\ proc' = [tui |-> tui, main |-> IF tui THEN "waiting" ELSE "starting",
                   init |-> IF tui THEN "delay" ELSE "input", cancelled |-> FALSE, signal |-> FALSE]
  /\ UNCHANGED <<socketVars, parts, ssh, stop, sshStop, session, table, registered, notice,
                 stalled, lock, users>>

\* The process is gone, and with it every connection.
Dies ==
  /\ proc' = [proc EXCEPT !.main = "exited", !.init = "none"]
  /\ ui' = "off"
  /\ session' = [c \in Clients |-> "out"]
  /\ table' = {} /\ registered' = {} /\ stalled' = {}
  /\ parts' = NoParts /\ ssh' = NoSsh /\ stop' = NoStop /\ sshStop' = "no"
  /\ notice' = NoNotice /\ lock' = "free"
  /\ SocketDies
  /\ UNCHANGED <<command, carried, reported, seen, users, launches>>

Kill == "kill" \in users.do /\ Alive /\ Dies

-----------------------------------------------------------------------------
(* Start-up: Server.Start and initializeServer.                            *)

StartRest == <<socketVars, ui, stop, sshStop, session, table, registered, notice,
               stalled, lock, users, launches>>

Passes(from, to) ==
  /\ Alive /\ proc.init = from
  /\ proc' = [proc EXCEPT !.init = to]
  /\ UNCHANGED StartRest
Starts(from, to, change) == Passes(from, to) /\ parts' = change /\ UNCHANGED ssh
StartsSsh(from, to, change) == Passes(from, to) /\ ssh' = change /\ UNCHANGED parts

\* Half a second for the interface, then server.New.
Delay == Starts("delay", "input", parts)
InitInput == Starts("input", "manager", [parts EXCEPT !.backend = "made"])
InitClientManager == Starts("manager", "network", [parts EXCEPT !.manager = TRUE])
ServesAtOnce == StartsSsh("network", "backend", [start |-> "returned", listen |-> "serving"])
InitNetwork == StartsSsh("network", "backend", [ssh EXCEPT !.start = "new"])
StartBackend == Starts("backend", "emergency", [parts EXCEPT !.backend = "capturing"])
StartEmergency == Starts("emergency", "callbacks", [parts EXCEPT !.emergency = "on"])
SetCallbacks == Starts("callbacks", "connect", [parts EXCEPT !.callbacks = TRUE])
\* SetClientManager, SetServer and SetOnActivity, and SetSSHServer.
ConnectParts ==
  Starts("connect", "networking", [parts EXCEPT !.attached = proc.tui, !.linked = TRUE])

\* runNetworkServer is a goroutine that nobody waits for before the stop.
StartNetworking == StartsSsh("networking", "ipc", [ssh EXCEPT !.start = "begun"])

\* The IPC socket, whose failure is only logged too.
StartIpc ==
  /\ Alive /\ proc.init = "ipc"
  /\ proc' = [proc EXCEPT !.init = "done", !.main = IF proc.tui THEN @ ELSE "waiting"]
  /\ SocketStarts \/ UNCHANGED sock
  /\ UNCHANGED <<command, conn, managed, parts, ssh, ui, stop, sshStop, session, table,
                 registered, notice, stalled, lock, users, launches>>

\* With the interface a failure leaves it running; without, runServer returns.
StartupFails ==
  /\ Alive /\ proc.init \in {"input", "network", "backend"}
  /\ proc' = [proc EXCEPT !.init = "failed", !.main = IF proc.tui THEN @ ELSE "lingering"]
  /\ UNCHANGED <<StartRest, parts, ssh>>

Startup ==
  \/ Delay \/ InitInput \/ InitClientManager \/ InitNetwork \/ StartBackend
  \/ StartEmergency \/ SetCallbacks \/ ConnectParts \/ StartNetworking \/ StartIpc
  \/ StartupFails

-----------------------------------------------------------------------------
(* SSHServer.Start, in its goroutine, and the goroutine it starts.          *)

SshRest == <<StartRest, proc, parts>>

NewServer ==
  /\ ssh.start = "begun"
  /\ \E made \in {"server", "failed"} : ssh' = [ssh EXCEPT !.start = made]

\* The wait group is told, and the goroutines for the listener and for the context run.
Listens ==
  /\ ssh.start = "server"
  /\ ssh' = [start |-> "listening", listen |-> "starting"]

StoresContext ==
  /\ ssh.start = "listening"
  /\ ssh' = [ssh EXCEPT !.start = "returned"]

\* The address may be in use.  The library forgets a Shutdown that came before.
ListenAndServe ==
  /\ ssh.listen = "starting"
  /\ \E l \in {"serving", "ended"} : ssh' = [ssh EXCEPT !.listen = l]

SshStarts ==
  /\ Alive /\ UNCHANGED SshRest
  /\ NewServer \/ Listens \/ StoresContext \/ ListenAndServe

-----------------------------------------------------------------------------
(* SSH sessions.                                                           *)

\* NotifyShutdown reads under the manager's lock; sessions and switches write.
ManagerFree == stop.phase /= "notifying" /\ lock = "free"

\* SendEventToClient holds SSHServer.mu for reading, and a write to a client that does
\* not read takes as long as that lasts: closing the session does not end it.
WriteBlocked == stop.phase = "notifying" /\ notice.todo \cap table \cap stalled /= {}

SessionStep(c, state) ==
  /\ session' = [session EXCEPT ![c] = state]
  /\ UNCHANGED <<sock, command, conn, carried, reported, proc, parts, ssh, ui, stop, sshStop,
                 lock, users, launches>>
KeepsControl == UNCHANGED <<control, seen>>

\* publicKeyAuth: without the handler a key that is not in the whitelist is denied; the
\* handler approves every key.
Approves(key) == key = "listed" \/ parts.callbacks

\* sessionHandler counts the sessions and enters the client, or exits.
Connects(c) ==
  /\ \E key \in {"listed", "new"} : Approves(key)
  /\ c \in users.clients
  /\ Alive /\ ssh.listen = "serving" /\ session[c] = "out" /\ ~WriteBlocked
  /\ Cardinality(table) < MaxClients
  /\ SessionStep(c, "admitted") /\ KeepsControl
  /\ table' = table \cup {c}
  /\ UNCHANGED <<registered, notice, stalled>>

OnClientConnected(c) ==
  /\ session[c] = "admitted" /\ ManagerFree /\ ssh.start = "returned"
  /\ SessionStep(c, "served") /\ KeepsControl
  /\ registered' = IF parts.callbacks THEN registered \cup {c} ELSE registered
  /\ UNCHANGED <<table, notice, stalled>>

\* Before Start has stored the context, the session finds none and the process dies.
NilContext(c) ==
  /\ session[c] = "admitted" /\ ManagerFree /\ ssh.start /= "returned"
  /\ Dies

\* handleMouseEvents: the context or the stop channel closes the session.
SessionCloses(c) ==
  /\ session[c] = "served" /\ (proc.cancelled \/ sshStop /= "no")
  /\ SessionStep(c, "closed") /\ KeepsControl
  /\ UNCHANGED <<table, registered, notice, stalled>>

Leaves(c) ==
  /\ session[c] = "served"
  /\ SessionStep(c, "closed") /\ KeepsControl
  /\ notice' = IF stop.phase /= "notifying" THEN notice ELSE [notice EXCEPT !.left = @ \cup {c}]
  /\ stalled' = stalled \ {c}
  /\ UNCHANGED <<table, registered>>

LeavesTable(c) ==
  /\ session[c] = "closed" /\ ~WriteBlocked
  /\ SessionStep(c, "ending") /\ KeepsControl
  /\ table' = table \ {c}
  /\ UNCHANGED <<registered, notice, stalled>>

OnClientDisconnected(c) ==
  /\ session[c] = "ending" /\ ManagerFree
  /\ SessionStep(c, "out")
  /\ registered' = registered \ {c}
  /\ IF control = c THEN Gives("local", Asking) ELSE KeepsControl
  /\ stalled' = stalled \ {c}
  /\ UNCHANGED <<table, notice>>

\* The client does not read, and reads again or its connection is given up.
Stalls(c) ==
  /\ "stall" \in users.do
  /\ session[c] = "served" /\ c \notin stalled
  /\ SessionStep(c, "served") /\ KeepsControl
  /\ stalled' = stalled \cup {c}
  /\ UNCHANGED <<table, registered, notice>>

Recovers(c) ==
  /\ c \in stalled
  /\ SessionStep(c, session[c]) /\ KeepsControl
  /\ stalled' = stalled \ {c}
  /\ UNCHANGED <<table, registered, notice>>

SessionEnds(c) == SessionCloses(c) \/ LeavesTable(c) \/ OnClientDisconnected(c)
Session(c) ==
  Connects(c) \/ OnClientConnected(c) \/ NilContext(c) \/ Leaves(c) \/ SessionEnds(c)
  \/ Stalls(c) \/ Recovers(c)

-----------------------------------------------------------------------------
(* The manager's other operations.                                         *)

OthersRest == <<sock, command, conn, carried, reported, proc, parts, ssh, ui, stop, sshStop,
                session, table, registered, notice, stalled, users, launches>>

MovesControl == (\E p \in {"local"} \cup registered : Gives(p, Asking)) /\ UNCHANGED OthersRest

Operation == "operate" \in users.do /\ Alive /\ parts.manager /\ ManagerFree

\* A device's event, the emergency release, a timer, or the interface's Tab.
Operates == Operation /\ MovesControl /\ UNCHANGED lock

WaitsForClient ==
  /\ Operation /\ stalled /= {}
  /\ lock' = "held"
  /\ KeepsControl /\ UNCHANGED OthersRest

LetsGo == lock = "held" /\ lock' = "free" /\ MovesControl

\* The activity line of a switch waits for the interface, which waits for the switch or
\* for the lock.
Hangs ==
  /\ Operation /\ parts.attached /\ ui = "running"
  /\ lock' = "hung"
  /\ KeepsControl /\ UNCHANGED OthersRest

Others == Operates \/ WaitsForClient \/ LetsGo \/ Hangs

-----------------------------------------------------------------------------
(* Server.Stop, whoever calls it first, and SSHServer.Stop.                *)

Stops(from, to) == stop.phase = from /\ stop' = [stop EXCEPT !.phase = to]
StopRest == <<socketVars, proc, ui, session, registered, stalled, lock, users, launches>>

\* The start-up is over, and SSHServer.Start far enough for a stop to find its listener.
Started == proc.init = "done" /\ ssh.start \in {"listening", "returned", "failed"}

\* stopOnce.
StopBegins == IF stop.phase = "no"
              THEN stop' = [phase |-> "emergency", early |-> ~Started]
              ELSE UNCHANGED stop

StopEmergency ==
  /\ Stops("emergency", "notify")
  /\ parts' = [parts EXCEPT !.emergency = IF @ = "on" THEN "off" ELSE @]
  /\ UNCHANGED <<StopRest, ssh, sshStop, table, notice>>

SkipsNotice ==
  /\ Stops("notify", "ssh")
  /\ notice' = [notice EXCEPT !.owed = {c \in registered : session[c] = "served"}]
  /\ UNCHANGED <<StopRest, parts, ssh, sshStop, table>>

\* NotifyShutdown takes the manager's lock for all of it, with a second's sleep.
NotifyBegins ==
  /\ parts.manager => lock = "free"
  /\ Stops("notify", IF parts.manager /\ parts.linked THEN "notifying" ELSE "ssh")
  /\ notice' = [notice EXCEPT !.todo = registered, !.left = {},
                              !.owed = {c \in registered : session[c] = "served"}]
  /\ UNCHANGED <<StopRest, parts, ssh, sshStop, table>>

Told(c) == c \in table /\ session[c] = "served"

NotifyOne(c) ==
  /\ stop.phase = "notifying" /\ c \in notice.todo
  /\ c \notin table \cap stalled
  /\ notice' = [notice EXCEPT !.todo = @ \ {c}, !.told = IF Told(c) THEN @ \cup {c} ELSE @]
  /\ UNCHANGED <<StopRest, stop, parts, ssh, sshStop, table>>

NotifyAwaitsLeave ==
  /\ notice.todo = {} /\ registered = {} /\ Stops("notifying", "ssh")
  /\ UNCHANGED <<StopRest, parts, ssh, sshStop, table, notice>>
NotifyEnds ==
  /\ notice.todo = {} /\ Stops("notifying", "ssh")
  /\ UNCHANGED <<StopRest, parts, ssh, sshStop, table, notice>>

\* SSHServer.Stop from here or from the goroutine that waits for the context: Shutdown
\* ends the listener there is.
SshStopBegins ==
  /\ sshStop = "no"
  /\ \/ stop.phase = "ssh" /\ ssh.start /= "none"
     \/ proc.cancelled /\ ssh.start \in {"listening", "returned"}
  /\ Alive
  /\ sshStop' = "shutdown"
  /\ ssh' = [ssh EXCEPT !.listen = IF @ = "serving" THEN "ended" ELSE @]
  /\ UNCHANGED <<StopRest, stop, parts, table, notice>>

\* Shutdown has returned, after five seconds at most: the sessions are closed.
ClosesSessions ==
  /\ sshStop = "shutdown" /\ ~WriteBlocked
  /\ sshStop' = "wait"
  /\ table' = {}
  /\ UNCHANGED <<StopRest, stop, parts, ssh, notice>>

\* The SSH server's wait group: the listener's goroutine.
SshStopEnds ==
  /\ sshStop = "wait" /\ ssh.listen \notin {"starting", "serving"}
  /\ sshStop' = "done"
  /\ UNCHANGED <<StopRest, stop, parts, ssh, table, notice>>

StopSsh ==
  /\ Stops("ssh", "backend")
  /\ sshStop = "done" \/ ssh.start = "none"
  /\ UNCHANGED <<StopRest, parts, ssh, sshStop, table, notice>>

ForgetsBackend ==
  /\ Stops("backend", "wait")
  /\ UNCHANGED <<StopRest, parts, ssh, sshStop, table, notice>>

StopBackend ==
  /\ Stops("backend", "wait")
  /\ parts' = [parts EXCEPT !.backend = IF @ = "capturing" THEN "stopped" ELSE @]
  /\ UNCHANGED <<StopRest, ssh, sshStop, table, notice>>

\* The server's wait group: the goroutine of SSHServer.Start.
StopJoins ==
  /\ Stops("wait", "done")
  /\ ssh.start \notin {"begun", "server", "listening"}
  /\ UNCHANGED <<StopRest, parts, ssh, sshStop, table, notice>>

Stopping ==
  \/ StopEmergency \/ NotifyBegins \/ (\E c \in Clients : NotifyOne(c)) \/ NotifyEnds
  \/ SshStopBegins \/ ClosesSessions \/ SshStopEnds \/ StopSsh \/ StopBackend
  \/ StopJoins

-----------------------------------------------------------------------------
(* main and the interface.                                                 *)

MainRest == <<socketVars, parts, ssh, sshStop, session, table, registered, notice,
              stalled, lock, users, launches>>

\* Before main waits for it, a signal ends the process as it does by default.
Signal ==
  /\ "signal" \in users.do /\ Alive /\ ~proc.signal
  /\ IF proc.main = "starting" THEN Dies
     ELSE /\ proc' = [proc EXCEPT !.signal = TRUE]
          /\ UNCHANGED <<MainRest, ui, stop>>

\* A key, a signal or the end of the context ends the Bubble Tea program.
\* An interface that hangs hears none of them.
UiHears == ui = "running" /\ lock /= "hung"
PressQuit == UiHears /\ ui' = "over" /\ UNCHANGED <<MainRest, proc, stop>>
UiEnds ==
  /\ UiHears /\ (proc.signal \/ proc.cancelled)
  /\ ui' = "over"
  /\ UNCHANGED <<MainRest, proc, stop>>

\* ProgramRunner.Run: OnShutdown, with 30 seconds for it.
OnShutdown ==
  /\ ui = "over"
  /\ IF parts.attached THEN StopBegins /\ ui' = "stopping" ELSE UNCHANGED stop /\ ui' = "done"
  /\ UNCHANGED <<MainRest, proc>>

ShutdownReturns == stop.phase = "done"
\* The listener came after the Shutdown that was to end it.
Stranded == sshStop = "wait" /\ ssh.listen = "serving"
GracePeriod == WriteBlocked \/ Stranded \/ lock /= "free"

RunnerDone ==
  /\ ui = "stopping" /\ (ShutdownReturns \/ GracePeriod)
  /\ ui' = "done"
  /\ UNCHANGED <<MainRest, proc, stop>>

\* main cancels the context, and only then stops the server.
MainCancels ==
  /\ proc.main = "waiting" /\ (ui = "done" \/ proc.signal)
  /\ proc' = [proc EXCEPT !.main = "stopping", !.cancelled = TRUE]
  /\ UNCHANGED <<MainRest, ui, stop>>

MainStops ==
  /\ proc.main = "stopping"
  /\ IF proc.init \in {"none", "delay"} THEN UNCHANGED stop ELSE StopBegins
  /\ proc' = [proc EXCEPT !.main = IF proc.init = "delay" THEN "lingering" ELSE "joining"]
  /\ UNCHANGED <<MainRest, ui>>

MainJoins ==
  /\ proc.main = "joining" /\ stop.phase = "done"
  /\ proc' = [proc EXCEPT !.main = "lingering"]
  /\ UNCHANGED <<MainRest, ui, stop>>

MainExits == proc.main = "lingering" /\ Dies

Main == MainCancels \/ MainStops \/ MainJoins \/ MainExits
Ui == UiEnds \/ OnShutdown \/ RunnerDone

-----------------------------------------------------------------------------
(* The socket in this process.                                             *)

Socket ==
  /\ Alive
  /\ UNCHANGED lifeVars
  /\ \/ Serves
     \/ ManagerFree /\ \E c \in Commands : Switch(c, {"local"} \cup registered)
     \/ lock = "free" /\ \E c \in Commands : Query(c)
     \/ proc.cancelled /\ StopCancels

Switching == UNCHANGED lifeVars /\ \E c \in Commands \cap users.commands : Command(c)

Next ==
  \/ Launch \/ Kill \/ Startup \/ SshStarts \/ Signal \/ PressQuit
  \/ \E c \in Clients : Session(c)
  \/ Others
  \/ Stopping \/ Main \/ Ui \/ Socket \/ Switching

Spec == Init /\ [][Next]_vars

\* Goroutines run, and what waits for a time comes to it; who has the manager's lock lets
\* it go once no client makes it wait.  Nobody must connect, read, leave or ask for
\* anything.
Fairness ==
  /\ WF_vars(Startup) /\ WF_vars(SshStarts) /\ WF_vars(Stopping)
  /\ WF_vars(stalled = {} /\ LetsGo)
  /\ WF_vars(Main) /\ WF_vars(Ui)

FairSpec == Spec /\ Fairness

-----------------------------------------------------------------------------
(* Properties.                                                             *)

\* No client and no command comes before what it needs: the callbacks of the SSH server,
\* the manager, and the SSH server the manager is to write to.
ReadyBeforeUse ==
  /\ (\E c \in Clients : session[c] /= "out") => parts.callbacks /\ parts.linked
  /\ sock.phase /= "off" => parts.manager /\ parts.linked

\* A server that is quit from its interface has told every client that was there, and
\* did not leave by itself, before it closes their sessions.
ToldBeforeClosed ==
  stop.phase \in {"ssh", "backend", "wait", "done"} /\ ~proc.cancelled =>
    notice.owed \subseteq notice.told \cup notice.left

\* Server.Stop, once it has returned, has left nothing: no capture, no listener and no
\* emergency release, provided that it found the start-up over and SSHServer.Start far
\* enough to have told its wait group.  A stop that comes before that finds nothing to
\* shut down, and what it missed starts after it.
StopLeavesNothing ==
  stop.phase = "done" /\ ~stop.early =>
    /\ parts.backend = "stopped" /\ parts.emergency = "off"
    /\ ssh.listen \notin {"starting", "serving"}

Asked == proc.signal \/ ui \in {"over", "stopping", "done"}

\* Once it is asked to, by the key or by a signal, the process ends, even if the start-up
\* is not over or both callers stop it at once.  Only three things keep it: a client that
\* again and again does not read, an operation that hangs in the interface with the
\* manager's lock, and a listener that began after the Shutdown that was to end it.
ShutdownEnds == Asked ~> (~Alive \/ stalled /= {} \/ lock = "hung" \/ Stranded)
=============================================================================
