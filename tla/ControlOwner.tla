---------------------------- MODULE ControlOwner ----------------------------
(***************************************************************************)
(* What the server promises about control, without devices, timers,        *)
(* sessions or pending commands: keyboard and mouse belong to the desktop  *)
(* or to one connected client, and they go nowhere but to their owner.     *)
(* Module ClientManager implements this specification.                     *)
(***************************************************************************)
EXTENDS Naturals

CONSTANT Ids  \* ids of clients

NoClient == 0  \* no client: the desktop

VARIABLES
  connected,  \* clients that may be given control
  owner,      \* the client in control, or NoClient for the desktop
  focus       \* where input goes now: the owner, or NoClient for the desktop

ownerVars == <<connected, owner, focus>>

OwnerInit ==
  /\ connected = {}
  /\ owner = NoClient
  /\ focus = NoClient

Connect(c) ==
  /\ c \notin connected
  /\ connected' = connected \cup {c}
  /\ UNCHANGED <<owner, focus>>

\* A client that leaves takes neither the control nor the input with it.
Disconnect(c) ==
  /\ c \in connected
  /\ connected' = connected \ {c}
  /\ owner' = IF owner = c THEN NoClient ELSE owner
  /\ focus' = IF owner = c THEN NoClient ELSE focus

Grant(c) ==
  /\ c \in connected
  /\ owner' = c
  /\ focus' = c
  /\ UNCHANGED connected

TakeBack ==
  /\ owner' = NoClient
  /\ focus' = NoClient
  /\ UNCHANGED connected

\* Input may return to the desktop before control does, never the reverse.
Withdraw ==
  /\ focus' = NoClient
  /\ UNCHANGED <<connected, owner>>

OwnerNext ==
  \/ \E c \in Ids : Connect(c) \/ Disconnect(c) \/ Grant(c)
  \/ TakeBack
  \/ Withdraw

OwnerSpec == OwnerInit /\ [][OwnerNext]_ownerVars
=============================================================================
