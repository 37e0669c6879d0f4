----------------------------- MODULE SwitchSocket ----------------------------
(***************************************************************************)
(* The IPC socket: ipc.SocketServer inside the server and the command      *)
(* "waymon switch" (ipc.Client) outside.  A command connects once to see   *)
(* whether the server's socket is there and connects again for its         *)
(* message.  The server gives each connection a goroutine, which waits for *)
(* messages and answers them; the first connection never sends any and     *)
(* only occupies its goroutine until the command exits, so it is left out. *)
(*                                                                         *)
(* The handler (the ClientManager) takes its lock once to switch and once  *)
(* more to look at the state it reports: other commands, devices and       *)
(* sessions may move control in between.  Which target a switch takes, and *)
(* what it does to the devices, is ClientManager's.                        *)
(***************************************************************************)
EXTENDS Naturals, FiniteSets

CONSTANTS
  Commands,  \* the processes "waymon switch" and "waymon switch --prev"
  Clients    \* client machines

VARIABLES
  sock,     \* the server's side: phase, and what is at the socket's path
  command,  \* how far each command is, and what it reports
  conn,     \* the connection of each command, as the server's goroutine sees it
  carried,  \* how often the manager has carried out each command
  control,  \* ClientManager.activeClientID and controllingLocal: who has control
  reported, \* the state the manager has answered to each command
  seen      \* who has had control since each command's switch, until it was answered (history)

managed == <<carried, control, reported, seen>>
socketVars == <<sock, command, conn, managed>>

Places == {"local"} \cup Clients

NoLink == [server |-> "none", sent |-> FALSE, answer |-> "none", hungUp |-> FALSE]
Queued == [NoLink EXCEPT !.server = "backlog"]

SocketInit ==
  /\ sock = [phase |-> "off", path |-> "nothing"]
  /\ command = [c \in Commands |-> [pc |-> "new", result |-> "none"]]
  /\ conn = [c \in Commands |-> NoLink]
  /\ carried = [c \in Commands |-> 0]
  /\ control = "local"
  /\ reported = [c \in Commands |-> "none"]
  /\ seen = [c \in Commands |-> {}]

Listening == sock.phase \in {"on", "cancelled"} /\ sock.path = "socket"

-----------------------------------------------------------------------------
(* waymon switch.                                                          *)

\* The process exits: its connections are closed.
Reports(c, result) ==
  /\ command' = [command EXCEPT ![c] = [pc |-> "exited", result |-> result]]
  /\ conn' = [conn EXCEPT ![c].hungUp = TRUE]

\* ipc.NewClient: without the server's socket it will try the user's, where nobody listens.
ClientProbes(c) ==
  /\ command[c].pc = "new"
  /\ command' = [command EXCEPT ![c].pc = IF Listening THEN "dial" ELSE "dial_user"]
  /\ UNCHANGED <<sock, conn, managed>>

\* Client.sendMessage, the connection.
ClientDials(c) ==
  /\ command[c].pc \in {"dial", "dial_user"}
  /\ IF command[c].pc = "dial" /\ Listening
     THEN /\ command' = [command EXCEPT ![c].pc = "send"]
          /\ conn' = [conn EXCEPT ![c] = Queued]
     ELSE Reports(c, "not_running")
  /\ UNCHANGED <<sock, managed>>

ClientSends(c) ==
  /\ command[c].pc = "send"
  /\ IF conn[c].server = "closed" THEN Reports(c, "failed")
     ELSE /\ command' = [command EXCEPT ![c].pc = "read"]
          /\ conn' = [conn EXCEPT ![c].sent = TRUE]
  /\ UNCHANGED <<sock, managed>>

\* SendSwitch: the status or the error the server answered, or the end of the stream.
ClientReads(c) ==
  /\ command[c].pc = "read"
  /\ \/ /\ conn[c].answer \in {"status", "error"}
        /\ Reports(c, conn[c].answer)
     \/ /\ conn[c].answer = "none" /\ conn[c].server = "closed"
        /\ Reports(c, "failed")
  /\ UNCHANGED <<sock, managed>>

\* The deadline of five seconds.
ClientTimesOut(c) ==
  /\ command[c].pc = "read"
  /\ Reports(c, "failed")
  /\ UNCHANGED <<sock, managed>>

-----------------------------------------------------------------------------
(* The server's goroutines.                                                *)

\* SocketServer.Start: what an earlier server left at the path is removed first.
SocketStarts == sock' = [phase |-> "on", path |-> "socket"]

SetServer(c, state) == conn' = [conn EXCEPT ![c].server = state]

\* acceptConnections; after the cancellation a connection may still come through.
Accept(c) ==
  /\ Listening
  /\ conn[c].server = "backlog"
  /\ SetServer(c, "check")
  /\ UNCHANGED <<sock, command, managed>>

\* handleConnection looks at its context only between two messages.
ChecksContext(c) ==
  /\ conn[c].server = "check"
  /\ SetServer(c, IF sock.phase = "on" THEN "read" ELSE "closed")
  /\ UNCHANGED <<sock, command, managed>>

ReadsMessage(c) ==
  /\ conn[c].server = "read"
  /\ \/ conn[c].sent /\ conn' = [conn EXCEPT ![c].server = "handle", ![c].sent = FALSE]
     \/ conn[c].hungUp /\ ~conn[c].sent /\ SetServer(c, "closed")
  /\ UNCHANGED <<sock, command, managed>>

Asking == {d \in Commands : conn[d].server = "query"}

\* Control is with p now, and those in asking will have had their switch by then.
Gives(p, asking) ==
  /\ control' = p
  /\ seen' = [d \in Commands |-> IF d \in asking THEN seen[d] \cup {p} ELSE seen[d]]

ReportsFirst(c, places) ==
  /\ conn[c].server = "handle"
  /\ \/ /\ carried' = [carried EXCEPT ![c] = @ + 1]
        /\ SetServer(c, "write_status")
        /\ reported' = [reported EXCEPT ![c] = control]
        /\ \E p \in places : Gives(p, Asking \cup {c})
     \/ SetServer(c, "write_error") /\ UNCHANGED managed
  /\ UNCHANGED <<sock, command>>
\* HandleSwitchCommand: control is moved, or was where it is to be and the command still
\* succeeds; a switch that fails (no such client, no target) leaves control as it was.
Switch(c, places) ==
  /\ conn[c].server = "handle"
  /\ \/ /\ carried' = [carried EXCEPT ![c] = @ + 1]
        /\ SetServer(c, "query")
        /\ \E p \in places : Gives(p, Asking \cup {c})
        /\ UNCHANGED reported
     \/ SetServer(c, "write_error") /\ UNCHANGED managed
  /\ UNCHANGED <<sock, command>>

\* HandleStatusQuery, under the lock again: the answer is the state as it is by now.
Query(c) ==
  /\ conn[c].server = "query"
  /\ SetServer(c, "write_status")
  /\ reported' = [reported EXCEPT ![c] = control]
  /\ UNCHANGED <<sock, command, carried, control, seen>>

Answer(c) == IF conn[c].server = "write_status" THEN "status" ELSE "error"

\* writeMessage: the command may have given up.
WritesAnswer(c) ==
  /\ conn[c].server \in {"write_status", "write_error"}
  /\ conn' = [conn EXCEPT ![c].server = IF conn[c].hungUp THEN "closed" ELSE "check",
                          ![c].answer = IF conn[c].hungUp THEN "none" ELSE Answer(c)]
  /\ UNCHANGED <<sock, command, managed>>

\* SocketServer.Stop: the context, then the listener and whoever waits in it.
StopCancels ==
  /\ sock.phase = "on"
  /\ sock' = [sock EXCEPT !.phase = "cancelled"]
  /\ UNCHANGED <<command, conn, managed>>

StopCloses ==
  /\ sock.phase = "cancelled"
  /\ sock' = [phase |-> "closing", path |-> "nothing"]
  /\ conn' = [c \in Commands |->
               IF conn[c].server = "backlog" THEN [conn[c] EXCEPT !.server = "closed"] ELSE conn[c]]
  /\ UNCHANGED <<command, managed>>

\* It waits for every connection's goroutine.
StopEnds ==
  /\ sock.phase = "closing"
  /\ \A c \in Commands : conn[c].server \in {"none", "closed"}
  /\ sock' = [sock EXCEPT !.phase = "stopped"]
  /\ UNCHANGED <<command, conn, managed>>

\* The server's process is gone; a socket that was not closed stays in the directory.
SocketDies ==
  /\ control' = "local"
  /\ sock' = [phase |-> "off", path |-> IF sock.path = "socket" THEN "stale" ELSE sock.path]
  /\ conn' = [c \in Commands |->
               IF conn[c].server = "none" THEN conn[c] ELSE [conn[c] EXCEPT !.server = "closed"]]

Command(c) ==
  ClientProbes(c) \/ ClientDials(c) \/ ClientSends(c) \/ ClientReads(c) \/ ClientTimesOut(c)

\* What the server does on its own, without the handler.
Serves ==
  \/ \E c \in Commands : Accept(c) \/ ChecksContext(c) \/ ReadsMessage(c) \/ WritesAnswer(c)
  \/ StopCloses \/ StopEnds

-----------------------------------------------------------------------------
(* Properties.                                                             *)

\* A command's report is true: "status" means that its switch was carried out exactly
\* once and that whoever it names had control at a moment after that, if not by the
\* command's doing; an error or "not_running" means that nothing was done; only a command
\* that gave up may or may not have been carried out, and none ever is twice.
ReportsAreTrue ==
  \A c \in Commands :
    /\ carried[c] <= 1
    /\ command[c].result = "status" => carried[c] = 1 /\ reported[c] \in seen[c]
    /\ command[c].result \in {"error", "not_running"} => carried[c] = 0
=============================================================================
