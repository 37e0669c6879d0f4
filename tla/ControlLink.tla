----------------------------- MODULE ControlLink -----------------------------
(***************************************************************************)
(* Server and clients over their SSH channels: who the server believes to  *)
(* control, and what each client believes (InputReceiver, SSHClient).      *)
(*                                                                         *)
(* Each direction of a channel is a FIFO.  On the client three goroutines  *)
(* share InputReceiver: the one that connects and later quits, the one     *)
(* that receives, and the one that asks for release for the user.  The     *)
(* status is shown by the interface, told by a goroutine per change.       *)
(*                                                                         *)
(* The server is reduced to its owner and its sessions (ClientManager      *)
(* treats it in full); input is one kind of message.  An address names one *)
(* session: a client that starts again does so once the old one is gone.   *)
(***************************************************************************)
EXTENDS Naturals, Sequences

CONSTANTS
  Clients,     \* the client machines
  Nobody,      \* the owner when control is local
  MaxInFlight, \* bound on the messages under way in each direction
  MaxNotices   \* bound on the equal status notices under way to an interface

ASSUME NobodyAssumption == Nobody \notin Clients
ASSUME BoundsAssumption == MaxInFlight \in Nat /\ MaxNotices \in Nat

VARIABLES
  owner,       \* activeClientID; Nobody when controllingLocal
  session,     \* state of each client's session on the server
  down,        \* messages from the server to each client
  up,          \* messages from each client to the server
  link,        \* state of each client's SSHClient
  lock,        \* who holds InputReceiver.mu for good or while connecting
  connected,   \* InputReceiver.connected
  beingControlled,
  injecting,   \* an event has passed the check and is about to be injected
  pressed,     \* progress of RequestControlRelease
  quitting,    \* the user quits
  notices,     \* goroutines that are to tell the interface a status
  shown,       \* the status the interface shows
  late         \* events injected since the client gave up control itself

serverVars == <<owner, session>>
statusVars == <<beingControlled, notices, shown, late>>
clientVars == <<link, lock, connected, injecting, pressed, quitting, statusVars>>
vars == <<serverVars, down, up, clientVars>>

NoNotices == [b \in BOOLEAN |-> 0]

Init ==
  /\ owner = Nobody
  /\ session = [c \in Clients |-> "none"]
  /\ down = [c \in Clients |-> <<>>]
  /\ up = [c \in Clients |-> <<>>]
  /\ link = [c \in Clients |-> "down"]
  /\ lock = [c \in Clients |-> "free"]
  /\ connected = [c \in Clients |-> FALSE]
  /\ beingControlled = [c \in Clients |-> FALSE]
  /\ injecting = [c \in Clients |-> FALSE]
  /\ pressed = [c \in Clients |-> "no"]
  /\ quitting = [c \in Clients |-> FALSE]
  /\ notices = [c \in Clients |-> NoNotices]
  /\ shown = [c \in Clients |-> FALSE]
  /\ late = [c \in Clients |-> 0]

Put(f, c, x) == [f EXCEPT ![c] = x]
Fits(channel, messages) == Len(channel) + Len(messages) <= MaxInFlight

\* What the server sends leaves room for the release that must still follow.
LeavesRoom(channel, messages) == Fits(channel, messages \o <<"RELEASE_CONTROL">>)

\* A write to a client that is gone fails, which is logged and no more.
Send(messages, c) ==
  down' = IF link[c] = "down" THEN down ELSE [down EXCEPT ![c] = @ \o messages]

-----------------------------------------------------------------------------
(* The server.                                                             *)

\* The session handler starts, and the client is registered.
Accept(c) ==
  /\ session[c] = "none"
  /\ link[c] \in {"opening", "open"}
  /\ session' = Put(session, c, "live")
  /\ UNCHANGED <<owner, down, up, clientVars>>

\* A client with known monitors also gets a cursor position.
SwitchToClient(c) ==
  /\ session[c] = "live"
  /\ owner # c
  /\ owner' = c
  /\ \E position \in {<<>>, <<"INPUT">>} :
       LET messages == <<"REQUEST_CONTROL">> \o position IN
         LeavesRoom(down[c], messages) /\ Send(messages, c)
  /\ UNCHANGED <<session, up, clientVars>>

ReleaseOwnerKeeps ==
  /\ UNCHANGED owner
  /\ IF owner = Nobody THEN UNCHANGED down ELSE Send(<<"RELEASE_CONTROL">>, owner)
ReleaseOwner ==
  /\ owner' = Nobody
  /\ IF owner = Nobody THEN UNCHANGED down ELSE Send(<<"RELEASE_CONTROL">>, owner)

SwitchToLocal ==
  /\ owner # Nobody
  /\ ReleaseOwner
  /\ UNCHANGED <<session, up, clientVars>>

Forward ==
  /\ owner # Nobody
  /\ LeavesRoom(down[owner], <<"INPUT">>)
  /\ Send(<<"INPUT">>, owner)
  /\ UNCHANGED <<serverVars, up, clientVars>>

\* Asked by any client, the server releases whoever has control.  The source
\* of the event is a host name, which is nobody's id in the registry.
HearsKnownSources(c) == UNCHANGED <<owner, down>>
HearRelease(c) == ReleaseOwner

Hear(c) ==
  /\ session[c] = "live"
  /\ up[c] # <<>>
  /\ up' = [up EXCEPT ![c] = Tail(@)]
  /\ IF Head(up[c]) = "RELEASE_CONTROL" THEN HearRelease(c) ELSE UNCHANGED <<owner, down>>
  /\ UNCHANGED <<session, clientVars>>

\* The client is gone and its messages are read: the session handler returns.
EndSession(c) ==
  /\ session[c] = "live"
  /\ link[c] = "down"
  /\ up[c] = <<>>
  /\ session' = Put(session, c, "none")
  /\ owner' = IF owner = c THEN Nobody ELSE owner
  /\ UNCHANGED <<down, up, clientVars>>

\* The context is cancelled before NotifyShutdown runs: some sessions may
\* already be gone when it does.  The server starts again with a clean state.
Shutdown ==
  /\ \E told \in SUBSET {c \in Clients : session[c] = "live" /\ link[c] # "down"} :
       /\ \A c \in told : Fits(down[c], <<"SERVER_SHUTDOWN">>)
       /\ down' = [c \in Clients |->
                    IF c \in told THEN Append(down[c], "SERVER_SHUTDOWN") ELSE down[c]]
  /\ session' = [c \in Clients |->
                   IF link[c] = "down" THEN "none"
                   ELSE IF session[c] = "live" THEN "closed" ELSE session[c]]
  /\ up' = [c \in Clients |-> <<>>]
  /\ owner' = Nobody
  /\ UNCHANGED clientVars

-----------------------------------------------------------------------------
(* The client.                                                             *)

Notify(c, status) ==
  /\ notices[c][status] < MaxNotices
  /\ notices' = [notices EXCEPT ![c][status] = @ + 1]

\* InputReceiver.Connect takes the lock; SSHClient.Connect starts to receive.
Connect(c) ==
  /\ link[c] = "down"
  /\ session[c] = "none"
  /\ link' = Put(link, c, "opening")
  /\ lock' = Put(lock, c, "connect")
  /\ UNCHANGED <<serverVars, down, up, connected, injecting, pressed, quitting, statusVars>>

\* The callback is set, the configuration sent and the lock given up.
FinishConnect(c) ==
  /\ link[c] = "opening"
  /\ Fits(up[c], <<"CLIENT_CONFIG">>)
  /\ link' = Put(link, c, "open")
  /\ lock' = Put(lock, c, "free")
  /\ connected' = Put(connected, c, TRUE)
  /\ up' = [up EXCEPT ![c] = Append(@, "CLIENT_CONFIG")]
  /\ UNCHANGED <<serverVars, down, injecting, pressed, quitting, statusVars>>

\* Received before the callback is set: dropped with a warning.
ReceiveTooEarly(c) ==
  /\ link[c] = "opening"
  /\ down[c] # <<>>
  /\ down' = [down EXCEPT ![c] = Tail(@)]
  /\ UNCHANGED <<serverVars, up, clientVars>>

CanReceive(c, message) ==
  /\ link[c] = "open"
  /\ lock[c] = "free"
  /\ ~injecting[c]
  /\ down[c] # <<>>
  /\ Head(down[c]) = message
  /\ down' = [down EXCEPT ![c] = Tail(@)]

ReceiveRequest(c) ==
  /\ CanReceive(c, "REQUEST_CONTROL")
  /\ beingControlled' = Put(beingControlled, c, TRUE)
  /\ late' = Put(late, c, 0)
  /\ Notify(c, TRUE)
  /\ UNCHANGED <<serverVars, up, link, lock, connected, injecting, pressed, quitting, shown>>

KeepsControl(c) == UNCHANGED beingControlled
GivesUpControl(c) == beingControlled' = Put(beingControlled, c, FALSE)

ReceiveRelease(c) ==
  /\ CanReceive(c, "RELEASE_CONTROL")
  /\ GivesUpControl(c)
  /\ late' = Put(late, c, 0)
  /\ Notify(c, FALSE)
  /\ UNCHANGED <<serverVars, up, link, lock, connected, injecting, pressed, quitting, shown>>

\* notifyReconnectStatus asks for a read lock on the mutex its caller holds
\* for writing: the goroutine never comes back and the lock stays taken.
ReceiveShutdown(c) ==
  /\ CanReceive(c, "SERVER_SHUTDOWN")
  /\ connected' = Put(connected, c, FALSE)
  /\ beingControlled' = Put(beingControlled, c, FALSE)
  /\ link' = Put(link, c, "lost")
  /\ lock' = Put(lock, c, "stuck")
  /\ UNCHANGED <<serverVars, up, injecting, pressed, quitting, notices, shown, late>>

PassesAll(c) == TRUE
Passes(c) == beingControlled[c]

ReceiveInput(c) ==
  /\ CanReceive(c, "INPUT")
  /\ injecting' = Put(injecting, c, Passes(c))
  /\ UNCHANGED <<serverVars, up, link, lock, connected, pressed, quitting, statusVars>>

\* The control status is not looked at again.
Inject(c) ==
  /\ injecting[c]
  /\ injecting' = Put(injecting, c, FALSE)
  /\ late' = Put(late, c, IF beingControlled[c] THEN 0 ELSE IF late[c] < 2 THEN late[c] + 1 ELSE 2)
  /\ UNCHANGED <<serverVars, down, up, link, lock, connected, pressed, quitting,
                 beingControlled, notices, shown>>

\* The server closed the session: receiveInputEvents returns and tells nobody.
Eof(c) ==
  /\ link[c] = "open"
  /\ session[c] = "closed"
  /\ down[c] = <<>>
  /\ ~injecting[c]
  /\ link' = Put(link, c, "lost")
  /\ UNCHANGED <<serverVars, down, up, lock, connected, injecting, pressed, quitting, statusVars>>

\* monitorConnection: a lost connection would make it take the lock and ask
\* for it again in notifyReconnectStatus, before any attempt is started.
MonitorTick(c) ==
  /\ lock[c] = "free"
  /\ link[c] \in {"open", "lost"}
  /\ lock' = Put(lock, c, IF connected[c] THEN "free" ELSE "stuck")
  /\ UNCHANGED <<serverVars, down, up, link, connected, injecting, pressed, quitting, statusVars>>

\* The user presses r: the request is sent, then the own status changed, then
\* the status read once more for the interface.
RequestControlRelease(c) ==
  /\ shown[c]
  /\ pressed[c] = "no"
  /\ lock[c] = "free"
  /\ link[c] = "open"
  /\ Fits(up[c], <<"RELEASE_CONTROL">>)
  /\ up' = [up EXCEPT ![c] = Append(@, "RELEASE_CONTROL")]
  /\ pressed' = Put(pressed, c, "sent")
  /\ UNCHANGED <<serverVars, down, link, lock, connected, injecting, quitting, statusVars>>

ReleaseLocally(c) ==
  /\ pressed[c] = "sent"
  /\ lock[c] = "free"
  /\ pressed' = Put(pressed, c, "cleared")
  /\ beingControlled' = Put(beingControlled, c, FALSE)
  /\ late' = Put(late, c, 0)
  /\ UNCHANGED <<serverVars, down, up, link, lock, connected, injecting, quitting, notices, shown>>

TellReleased(c) ==
  /\ pressed[c] = "cleared"
  /\ pressed' = Put(pressed, c, "no")
  /\ Notify(c, beingControlled[c])
  /\ UNCHANGED <<serverVars, down, up, link, lock, connected, injecting, quitting,
                 beingControlled, shown, late>>

Show(c, status) ==
  /\ notices[c][status] > 0
  /\ notices' = [notices EXCEPT ![c][status] = @ - 1]
  /\ shown' = Put(shown, c, status)
  /\ UNCHANGED <<serverVars, down, up, link, lock, connected, injecting, pressed, quitting,
                 beingControlled, late>>

Quit(c) ==
  /\ link[c] \in {"open", "lost"}
  /\ ~quitting[c]
  /\ quitting' = Put(quitting, c, TRUE)
  /\ UNCHANGED <<serverVars, down, up, link, lock, connected, injecting, pressed, statusVars>>

\* The process ends; what it sent is still delivered.
Stopped(c) ==
  /\ link' = Put(link, c, "down")
  /\ lock' = Put(lock, c, "free")
  /\ connected' = Put(connected, c, FALSE)
  /\ beingControlled' = Put(beingControlled, c, FALSE)
  /\ injecting' = Put(injecting, c, FALSE)
  /\ pressed' = Put(pressed, c, "no")
  /\ quitting' = Put(quitting, c, FALSE)
  /\ notices' = Put(notices, c, NoNotices)
  /\ shown' = Put(shown, c, FALSE)
  /\ late' = Put(late, c, 0)
  /\ session' = Put(session, c, IF session[c] = "live" THEN "live" ELSE "none")
  /\ down' = Put(down, c, <<>>)
  /\ up' = Put(up, c, IF session[c] = "live" THEN up[c] ELSE <<>>)
  /\ UNCHANGED owner

\* InputReceiver.Disconnect, which needs the lock, and the end of runClient.
Disconnect(c) ==
  /\ quitting[c]
  /\ lock[c] = "free"
  /\ Stopped(c)

Crash(c) ==
  /\ link[c] # "down"
  /\ Stopped(c)

-----------------------------------------------------------------------------
ServerStep(c) == Accept(c) \/ Hear(c) \/ EndSession(c)
Receive(c) ==
  \/ ReceiveTooEarly(c) \/ ReceiveRequest(c) \/ ReceiveRelease(c)
  \/ ReceiveShutdown(c) \/ ReceiveInput(c) \/ Inject(c) \/ Eof(c)
ReleaseStep(c) == ReleaseLocally(c) \/ TellReleased(c)
Told(c) == \E status \in BOOLEAN : Show(c, status)

Next ==
  \/ SwitchToLocal \/ Forward \/ Shutdown
  \/ \E c \in Clients :
       \/ ServerStep(c) \/ SwitchToClient(c)
       \/ Connect(c) \/ FinishConnect(c) \/ Receive(c) \/ MonitorTick(c)
       \/ RequestControlRelease(c) \/ ReleaseStep(c) \/ Told(c)
       \/ Quit(c) \/ Disconnect(c) \/ Crash(c)

\* Goroutines run and messages arrive; nobody has to press, switch or quit.
Fairness ==
  \A c \in Clients :
    /\ WF_vars(ServerStep(c))
    /\ WF_vars(FinishConnect(c))
    /\ WF_vars(Receive(c))
    /\ WF_vars(MonitorTick(c))
    /\ WF_vars(ReleaseStep(c))
    /\ WF_vars(Told(c))
    /\ WF_vars(Disconnect(c))

Spec == Init /\ [][Next]_vars
FairSpec == Spec /\ Fairness

-----------------------------------------------------------------------------
Under(c, message) == \E i \in 1..Len(down[c]) : down[c][i] = message
InControl(c) == link[c] = "open" /\ session[c] = "live" /\ beingControlled[c]

\* Between a release and the next request the server sends no input: what is
\* behind a RELEASE_CONTROL on the way starts with REQUEST_CONTROL, if it is
\* not the end.
InputFollowsRequest ==
  \A c \in Clients : \A i \in 1..Len(down[c]) :
    /\ down[c][i] = "RELEASE_CONTROL"
    /\ i < Len(down[c])
    => down[c][i + 1] \in {"REQUEST_CONTROL", "SERVER_SHUTDOWN"}

\* After the user took control back, at most the one event that had passed
\* the check before is still injected.
AtMostOneLate == \A c \in Clients : late[c] <= 1

\* A client that thinks it is controlled is, or will be told otherwise: the
\* server never forgets to send RELEASE_CONTROL when control comes back, by
\* whatever way.  (With two clients it does when control goes from one to the other.)
ReleaseIsSent ==
  \A c \in Clients :
    InControl(c) => owner = c \/ Under(c, "RELEASE_CONTROL")

\* While a release the user asked for is on its way, control comes back: the
\* server hears it whatever else is under way and whether or not the client
\* lives to see it.
Asked(c) == \E i \in 1..Len(up[c]) : up[c][i] = "RELEASE_CONTROL"
ReleaseIsHeard ==
  \A c \in Clients : Asked(c) ~> owner # c
=============================================================================
