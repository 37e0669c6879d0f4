-------------------------- MODULE ControlLinkProofs -------------------------
(***************************************************************************)
(* Theorems about the SSH channels between the server and any number of    *)
(* clients: the order of what is under way to a client, what a client      *)
(* still injects after its user took control back, and that a client that  *)
(* loses control is told.                                                  *)
(***************************************************************************)
EXTENDS ControlLink, TLAPS

Message == {"REQUEST_CONTROL", "RELEASE_CONTROL", "INPUT", "SERVER_SHUTDOWN"}
AfterRelease == {"REQUEST_CONTROL", "SERVER_SHUTDOWN"}

\* A list in which a release is followed by what may follow it.
Ordered(s) ==
  \A i \in 1..Len(s) :
    s[i] = "RELEASE_CONTROL" /\ i < Len(s) => s[i + 1] \in AfterRelease
EndsReleased(s) == s # <<>> /\ s[Len(s)] = "RELEASE_CONTROL"

LinkTypeOK ==
  /\ owner \in Clients \cup {Nobody}
  /\ down \in [Clients -> Seq(Message)]
  /\ link \in [Clients -> {"down", "opening", "open", "lost"}]
  /\ beingControlled \in [Clients -> BOOLEAN]
  /\ injecting \in [Clients -> BOOLEAN]
  /\ late \in [Clients -> 0..2]

\* What is under way to the owner does not end with a release, and nothing is under way
\* to a client that is down.
ChannelOK(c) ==
  /\ Ordered(down[c])
  /\ EndsReleased(down[c]) => owner # c
  /\ link[c] = "down" => down[c] = <<>>

\* A client in control, and one that is about to inject, has not injected late.
LateOK(c) ==
  /\ late[c] <= 1
  /\ beingControlled[c] \/ injecting[c] => late[c] = 0

IInv ==
  /\ LinkTypeOK
  /\ \A c \in Clients : ChannelOK(c)
  /\ \A c \in Clients : LateOK(c)

USE NobodyAssumption

-----------------------------------------------------------------------------
(* Lists of messages.                                                      *)

LEMMA AppendOrdered ==
  ASSUME NEW s \in Seq(Message), NEW m \in Message, Ordered(s),
         EndsReleased(s) => m \in AfterRelease
  PROVE  /\ Append(s, m) \in Seq(Message)
         /\ Ordered(Append(s, m))
         /\ EndsReleased(Append(s, m)) <=> m = "RELEASE_CONTROL"
<1>. DEFINE t == Append(s, m)
<1>1. /\ t \in Seq(Message) /\ Len(t) = Len(s) + 1 /\ t[Len(t)] = m
      /\ \A i \in 1..Len(s) : t[i] = s[i]
  OBVIOUS
<1>2. ASSUME NEW i \in 1..Len(t), t[i] = "RELEASE_CONTROL", i < Len(t)
      PROVE  t[i + 1] \in AfterRelease
  <2>1. CASE i = Len(s)
    <3>1. EndsReleased(s)
      BY <1>1, <1>2, <2>1 DEF EndsReleased
    <3>2. QED
      BY <1>1, <2>1, <3>1
  <2>2. CASE i < Len(s)
    BY <1>1, <1>2, <2>2 DEF Ordered
  <2>3. QED
    BY <1>1, <1>2, <2>1, <2>2
<1>3. t # <<>>
  BY <1>1
<1>4. QED
  BY <1>1, <1>2, <1>3 DEF Ordered, EndsReleased

LEMMA TailOrdered ==
  ASSUME NEW s \in Seq(Message), s # <<>>, Ordered(s)
  PROVE  /\ Tail(s) \in Seq(Message)
         /\ Ordered(Tail(s))
         /\ EndsReleased(Tail(s)) => EndsReleased(s)
<1>1. /\ Tail(s) \in Seq(Message) /\ Len(Tail(s)) = Len(s) - 1
      /\ \A i \in 1..Len(Tail(s)) : Tail(s)[i] = s[i + 1]
  OBVIOUS
<1>2. QED
  BY <1>1 DEF Ordered, EndsReleased

LEMMA ConcatAppends ==
  ASSUME NEW s \in Seq(Message), NEW m \in Message, NEW n \in Message
  PROVE  /\ s \o <<m>> = Append(s, m)
         /\ s \o (<<m>> \o <<>>) = Append(s, m)
         /\ s \o (<<m>> \o <<n>>) = Append(Append(s, m), n)
OBVIOUS

-----------------------------------------------------------------------------
(* The server's steps.                                                     *)

\* A step that leaves a client's channel and status alone.
LEMMA ClientKeeps ==
  ASSUME NEW c \in Clients, ChannelOK(c), LateOK(c),
         down'[c] = down[c], link'[c] = link[c], owner' = c => owner = c,
         beingControlled'[c] = beingControlled[c], injecting'[c] = injecting[c],
         late'[c] = late[c]
  PROVE  ChannelOK(c)' /\ LateOK(c)'
BY DEF ChannelOK, LateOK

\* A step of the server that appends to what is under way to one client.
LEMMA ServerSends ==
  ASSUME IInv, NEW c \in Clients, NEW s \in Seq(Message),
         owner' \in Clients \cup {Nobody}, \A d \in Clients \ {c} : owner' # d,
         down' = [down EXCEPT ![c] = s],
         Ordered(s), EndsReleased(s) => owner' # c, link[c] = "down" => s = <<>>,
         UNCHANGED clientVars
  PROVE  IInv'
<1>1. LinkTypeOK'
  BY DEF IInv, LinkTypeOK, clientVars, statusVars
<1>2. ASSUME NEW d \in Clients PROVE ChannelOK(d)' /\ LateOK(d)'
  <2>1. CASE d = c
    BY <2>1 DEF IInv, LinkTypeOK, ChannelOK, LateOK, clientVars, statusVars
  <2>2. CASE d # c
    BY <2>2, ClientKeeps DEF IInv, LinkTypeOK, clientVars, statusVars
  <2>3. QED
    BY <2>1, <2>2
<1>3. QED
  BY <1>1, <1>2 DEF IInv

\* A step of the server that sends nothing and gives control to nobody else.
LEMMA ServerIdle ==
  ASSUME IInv, owner' \in {owner, Nobody}, UNCHANGED <<down, clientVars>>
  PROVE  IInv'
<1>1. LinkTypeOK'
  BY DEF IInv, LinkTypeOK, clientVars, statusVars
<1>2. ASSUME NEW d \in Clients PROVE ChannelOK(d)' /\ LateOK(d)'
  BY ClientKeeps DEF IInv, LinkTypeOK, clientVars, statusVars
<1>3. QED
  BY <1>1, <1>2 DEF IInv

LEMMA ReleaseKeeps ==
  ASSUME IInv, ReleaseOwner, UNCHANGED clientVars
  PROVE  IInv'
<1>1. owner' = Nobody
  BY DEF ReleaseOwner
<1>2. CASE owner = Nobody \/ down' = down
  BY <1>1, <1>2, ServerIdle DEF ReleaseOwner
<1>3. CASE owner # Nobody /\ down' # down
  <2>1. owner \in Clients /\ link[owner] # "down"
    BY <1>3 DEF ReleaseOwner, Send, IInv, LinkTypeOK
  <2>2. down[owner] \in Seq(Message) /\ Ordered(down[owner]) /\ ~ EndsReleased(down[owner])
    BY <2>1 DEF IInv, LinkTypeOK, ChannelOK
  <2>. DEFINE s == Append(down[owner], "RELEASE_CONTROL")
  <2>3. down' = [down EXCEPT ![owner] = s]
    BY <1>3, <2>1, <2>2, ConcatAppends DEF ReleaseOwner, Send, Message
  <2>4. s \in Seq(Message) /\ Ordered(s)
    BY <2>2, AppendOrdered DEF Message
  <2>. HIDE DEF s
  <2>5. QED
    BY <1>1, <2>1, <2>3, <2>4, ServerSends
<1>4. QED
  BY <1>2, <1>3

LEMMA SwitchKeeps ==
  ASSUME IInv, NEW c \in Clients, SwitchToClient(c)
  PROVE  IInv'
<1>1. owner' = c /\ UNCHANGED clientVars
  BY DEF SwitchToClient
<1>2. PICK position \in {<<>>, <<"INPUT">>} : Send(<<"REQUEST_CONTROL">> \o position, c)
  BY DEF SwitchToClient
<1>3. down[c] \in Seq(Message) /\ Ordered(down[c])
  BY DEF IInv, LinkTypeOK, ChannelOK
<1>4. CASE link[c] = "down"
  <2>1. down[c] = <<>> /\ down' = down
    BY <1>2, <1>4 DEF IInv, ChannelOK, Send
  <2>2. down' = [down EXCEPT ![c] = down[c]]
    BY <2>1 DEF IInv, LinkTypeOK
  <2>3. ~ EndsReleased(down[c])
    BY <2>1 DEF EndsReleased
  <2>4. QED
    BY <1>1, <1>3, <2>1, <2>2, <2>3, ServerSends
<1>5. CASE link[c] # "down"
  <2>. DEFINE r == Append(down[c], "REQUEST_CONTROL")
              t == Append(r, "INPUT")
  <2>1. r \in Seq(Message) /\ Ordered(r) /\ ~ EndsReleased(r)
    BY <1>3, AppendOrdered DEF Message, AfterRelease
  <2>2. t \in Seq(Message) /\ Ordered(t) /\ ~ EndsReleased(t)
    <3>. HIDE DEF r
    <3>1. QED
      BY <2>1, AppendOrdered DEF Message
  <2>3. down' = [down EXCEPT ![c] = r] \/ down' = [down EXCEPT ![c] = t]
    BY <1>2, <1>3, <1>5, ConcatAppends, ZenonT(40) DEF Send, Message
  <2>. HIDE DEF r, t
  <2>4. QED
    BY <1>1, <1>5, <2>1, <2>2, <2>3, ServerSends
<1>6. QED
  BY <1>4, <1>5

LEMMA ForwardKeeps ==
  ASSUME IInv, Forward
  PROVE  IInv'
<1>1. owner' = owner /\ owner \in Clients /\ Send(<<"INPUT">>, owner) /\ UNCHANGED clientVars
  BY DEF Forward, serverVars, IInv, LinkTypeOK
<1>2. CASE link[owner] = "down"
  BY <1>1, <1>2, ServerIdle DEF Send
<1>3. CASE link[owner] # "down"
  <2>1. down[owner] \in Seq(Message) /\ Ordered(down[owner]) /\ ~ EndsReleased(down[owner])
    BY <1>1 DEF IInv, LinkTypeOK, ChannelOK
  <2>. DEFINE s == Append(down[owner], "INPUT")
  <2>2. down' = [down EXCEPT ![owner] = s]
    BY <1>1, <1>3, <2>1, ConcatAppends DEF Send, Message
  <2>3. s \in Seq(Message) /\ Ordered(s) /\ ~ EndsReleased(s)
    BY <2>1, AppendOrdered DEF Message
  <2>. HIDE DEF s
  <2>4. QED
    BY <1>1, <1>3, <2>2, <2>3, ServerSends
<1>4. QED
  BY <1>2, <1>3

LEMMA ShutdownKeeps ==
  ASSUME IInv, Shutdown
  PROVE  IInv'
<1>1. owner' = Nobody /\ UNCHANGED clientVars
  BY DEF Shutdown
<1>2. PICK told \in SUBSET {c \in Clients : session[c] = "live" /\ link[c] # "down"} :
        down' = [c \in Clients |->
                  IF c \in told THEN Append(down[c], "SERVER_SHUTDOWN") ELSE down[c]]
  BY DEF Shutdown
<1>3. ASSUME NEW c \in Clients
      PROVE  /\ down'[c] \in Seq(Message)
             /\ ChannelOK(c)'
  <2>1. down[c] \in Seq(Message) /\ Ordered(down[c]) /\ (link[c] = "down" => down[c] = <<>>)
    BY DEF IInv, LinkTypeOK, ChannelOK
  <2>2. CASE c \in told
    <3>1. down'[c] = Append(down[c], "SERVER_SHUTDOWN") /\ link[c] # "down"
      BY <1>2, <2>2
    <3>2. Append(down[c], "SERVER_SHUTDOWN") \in Seq(Message)
          /\ Ordered(Append(down[c], "SERVER_SHUTDOWN"))
      BY <2>1, AppendOrdered DEF Message, AfterRelease
    <3>3. QED
      BY <1>1, <3>1, <3>2 DEF ChannelOK, clientVars
  <2>3. CASE c \notin told
    BY <1>1, <1>2, <2>1, <2>3 DEF ChannelOK, clientVars
  <2>4. QED
    BY <2>2, <2>3
<1>4. LinkTypeOK'
  <2>1. down' \in [Clients -> Seq(Message)]
    BY <1>2, <1>3
  <2>2. QED
    BY <1>1, <2>1 DEF IInv, LinkTypeOK, clientVars, statusVars
<1>5. \A c \in Clients : LateOK(c)'
  BY <1>1 DEF IInv, LateOK, clientVars, statusVars
<1>6. QED
  BY <1>3, <1>4, <1>5 DEF IInv

-----------------------------------------------------------------------------
(* The client's steps.                                                     *)

\* A step of one client: it may read one message, and change its own status.
LEMMA ClientStep ==
  ASSUME IInv, NEW c \in Clients, owner' = owner,
         NEW s \in Seq(Message), down' = [down EXCEPT ![c] = s],
         Ordered(s), EndsReleased(s) => EndsReleased(down[c]),
         link' \in [Clients -> {"down", "opening", "open", "lost"}],
         \A d \in Clients \ {c} : link'[d] = link[d],
         link'[c] = "down" => s = <<>>,
         NEW b \in BOOLEAN, beingControlled' = [beingControlled EXCEPT ![c] = b],
         NEW j \in BOOLEAN, injecting' = [injecting EXCEPT ![c] = j],
         NEW l \in 0..1, late' = [late EXCEPT ![c] = l],
         b \/ j => l = 0
  PROVE  IInv'
<1>1. LinkTypeOK'
  BY DEF IInv, LinkTypeOK
<1>2. ASSUME NEW d \in Clients PROVE ChannelOK(d)' /\ LateOK(d)'
  <2>1. CASE d = c
    BY <2>1 DEF IInv, LinkTypeOK, ChannelOK, LateOK
  <2>2. CASE d # c
    BY <2>2, ClientKeeps DEF IInv, LinkTypeOK
  <2>3. QED
    BY <2>1, <2>2
<1>3. QED
  BY <1>1, <1>2 DEF IInv

\* The same for a step that reads nothing, or one message.
LEMMA ClientReads ==
  ASSUME IInv, NEW c \in Clients, down[c] # <<>>
  PROVE  /\ Tail(down[c]) \in Seq(Message)
         /\ Ordered(Tail(down[c]))
         /\ EndsReleased(Tail(down[c])) => EndsReleased(down[c])
BY TailOrdered DEF IInv, LinkTypeOK, ChannelOK

LEMMA ClientSame ==
  ASSUME IInv, NEW c \in Clients
  PROVE  /\ down[c] \in Seq(Message) /\ Ordered(down[c])
         /\ link[c] = "down" => down[c] = <<>>
         /\ down = [down EXCEPT ![c] = down[c]]
         /\ beingControlled = [beingControlled EXCEPT ![c] = beingControlled[c]]
         /\ injecting = [injecting EXCEPT ![c] = injecting[c]]
         /\ late = [late EXCEPT ![c] = late[c]]
         /\ beingControlled[c] \in BOOLEAN /\ injecting[c] \in BOOLEAN /\ late[c] \in 0..1
         /\ beingControlled[c] \/ injecting[c] => late[c] = 0
BY DEF IInv, LinkTypeOK, ChannelOK, LateOK

LEMMA UnreadKeeps ==
  ASSUME IInv, NEW c \in Clients,
         Connect(c) \/ FinishConnect(c) \/ Eof(c) \/ MonitorTick(c)
           \/ RequestControlRelease(c) \/ TellReleased(c) \/ Told(c) \/ Quit(c)
  PROVE  IInv'
<1>1. /\ UNCHANGED <<owner, down, beingControlled, injecting, late>>
      /\ \/ link' = link
         \/ link' = Put(link, c, "opening")
         \/ link' = Put(link, c, "open")
         \/ link' = Put(link, c, "lost")
  BY DEF Connect, FinishConnect, Eof, MonitorTick, RequestControlRelease, TellReleased, Told,
         Show, Quit, serverVars, statusVars
<1>2. /\ link' \in [Clients -> {"down", "opening", "open", "lost"}]
      /\ \A d \in Clients \ {c} : link'[d] = link[d]
      /\ link'[c] = "down" => link[c] = "down"
  BY <1>1 DEF Put, IInv, LinkTypeOK
<1>3. QED
  BY <1>1, <1>2, ClientSame, ClientStep

LEMMA ReadKeeps ==
  ASSUME IInv, NEW c \in Clients,
         ReceiveTooEarly(c) \/ ReceiveRequest(c) \/ ReceiveRelease(c)
           \/ ReceiveShutdown(c) \/ ReceiveInput(c)
  PROVE  IInv'
<1>1. /\ owner' = owner
      /\ down[c] # <<>>
      /\ down' = [down EXCEPT ![c] = Tail(@)]
      /\ link[c] # "down"
      /\ link' = link \/ link' = Put(link, c, "lost")
  BY DEF ReceiveTooEarly, ReceiveRequest, ReceiveRelease, ReceiveShutdown, ReceiveInput,
         CanReceive, serverVars, clientVars
<1>2. /\ link' \in [Clients -> {"down", "opening", "open", "lost"}]
      /\ \A d \in Clients \ {c} : link'[d] = link[d]
      /\ link'[c] # "down"
  BY <1>1 DEF Put, IInv, LinkTypeOK
<1>3. down' = [down EXCEPT ![c] = Tail(down[c])]
  BY <1>1
<1>4. \E b \in BOOLEAN, j \in BOOLEAN, l \in 0..1 :
        /\ beingControlled' = [beingControlled EXCEPT ![c] = b]
        /\ injecting' = [injecting EXCEPT ![c] = j]
        /\ late' = [late EXCEPT ![c] = l]
        /\ b \/ j => l = 0
  <2>1. CASE ReceiveTooEarly(c)
    BY <2>1, ClientSame DEF ReceiveTooEarly, clientVars, statusVars
  <2>2. CASE ReceiveRequest(c)
    <3>1. /\ beingControlled' = [beingControlled EXCEPT ![c] = TRUE]
          /\ injecting' = [injecting EXCEPT ![c] = injecting[c]]
          /\ late' = [late EXCEPT ![c] = 0]
      BY <2>2, ClientSame DEF ReceiveRequest, Put
    <3>2. injecting[c] \in BOOLEAN
      BY ClientSame
    <3>3. WITNESS TRUE \in BOOLEAN, injecting[c] \in BOOLEAN, 0 \in 0..1
    <3>4. QED
      BY <3>1, Zenon
  <2>3. CASE ReceiveRelease(c)
    <3>1. /\ beingControlled' = [beingControlled EXCEPT ![c] = FALSE]
          /\ injecting' = [injecting EXCEPT ![c] = injecting[c]]
          /\ late' = [late EXCEPT ![c] = 0]
      BY <2>3, ClientSame DEF ReceiveRelease, GivesUpControl, Put
    <3>2. injecting[c] \in BOOLEAN
      BY ClientSame
    <3>3. WITNESS FALSE \in BOOLEAN, injecting[c] \in BOOLEAN, 0 \in 0..1
    <3>4. QED
      BY <3>1, Zenon
  <2>4. CASE ReceiveShutdown(c)
    <3>1. /\ beingControlled' = [beingControlled EXCEPT ![c] = FALSE]
          /\ injecting' = [injecting EXCEPT ![c] = injecting[c]]
          /\ late' = [late EXCEPT ![c] = late[c]]
          /\ injecting[c] = FALSE
      BY <2>4, ClientSame DEF ReceiveShutdown, CanReceive, Put
    <3>2. QED
      BY <3>1, ClientSame
  <2>5. CASE ReceiveInput(c)
    <3>1. /\ beingControlled' = [beingControlled EXCEPT ![c] = beingControlled[c]]
          /\ injecting' = [injecting EXCEPT ![c] = beingControlled[c]]
          /\ late' = [late EXCEPT ![c] = late[c]]
      BY <2>5, ClientSame DEF ReceiveInput, Passes, statusVars, Put
    <3>2. QED
      BY <3>1, ClientSame
  <2>6. QED
    BY <2>1, <2>2, <2>3, <2>4, <2>5
<1>5. QED
  BY <1>1, <1>2, <1>3, <1>4, ClientReads, ClientStep

\* The event was let in while the client was controlled: it had injected none late.
LEMMA InjectKeeps ==
  ASSUME IInv, NEW c \in Clients, Inject(c)
  PROVE  IInv'
<1>1. late[c] = 0
  BY ClientSame DEF Inject
<1>2. PICK l \in 0..1 : late' = [late EXCEPT ![c] = l] /\ (beingControlled[c] => l = 0)
  <2>1. CASE beingControlled[c]
    <3>1. late' = [late EXCEPT ![c] = 0]
      BY <2>1 DEF Inject, Put
    <3>2. QED
      BY <3>1
  <2>2. CASE ~ beingControlled[c]
    <3>1. late' = [late EXCEPT ![c] = 1]
      BY <1>1, <2>2 DEF Inject, Put
    <3>2. QED
      BY <2>2, <3>1
  <2>3. QED
    BY <2>1, <2>2
<1>3. /\ UNCHANGED <<owner, down, link, beingControlled>>
      /\ injecting' = [injecting EXCEPT ![c] = FALSE]
  BY DEF Inject, serverVars, Put
<1>4. link' \in [Clients -> {"down", "opening", "open", "lost"}]
  BY <1>3 DEF IInv, LinkTypeOK
<1>5. QED
  BY <1>2, <1>3, <1>4, ClientSame, ClientStep

LEMMA ReleaseLocallyKeeps ==
  ASSUME IInv, NEW c \in Clients, ReleaseLocally(c)
  PROVE  IInv'
<1>1. /\ UNCHANGED <<owner, down, link, injecting>>
      /\ beingControlled' = [beingControlled EXCEPT ![c] = FALSE]
      /\ late' = [late EXCEPT ![c] = 0]
  BY DEF ReleaseLocally, serverVars, Put
<1>2. link' \in [Clients -> {"down", "opening", "open", "lost"}]
  BY <1>1 DEF IInv, LinkTypeOK
<1>3. /\ down' = [down EXCEPT ![c] = down[c]]
      /\ injecting' = [injecting EXCEPT ![c] = injecting[c]]
      /\ injecting[c] \in BOOLEAN /\ FALSE \in BOOLEAN /\ 0 \in 0..1
  BY <1>1, ClientSame
<1>4. QED
  BY <1>1, <1>2, <1>3, ClientSame, ClientStep

LEMMA StoppedKeeps ==
  ASSUME IInv, NEW c \in Clients, Stopped(c)
  PROVE  IInv'
<1>1. /\ owner' = owner
      /\ down' = [down EXCEPT ![c] = <<>>]
      /\ link' = [link EXCEPT ![c] = "down"]
      /\ beingControlled' = [beingControlled EXCEPT ![c] = FALSE]
      /\ injecting' = [injecting EXCEPT ![c] = FALSE]
      /\ late' = [late EXCEPT ![c] = 0]
  BY DEF Stopped, Put
<1>2. /\ link' \in [Clients -> {"down", "opening", "open", "lost"}]
      /\ \A d \in Clients \ {c} : link'[d] = link[d]
  BY <1>1 DEF IInv, LinkTypeOK
<1>3. /\ <<>> \in Seq(Message) /\ Ordered(<<>>) /\ ~ EndsReleased(<<>>)
      /\ FALSE \in BOOLEAN /\ 0 \in 0..1
  BY DEF Ordered, EndsReleased
<1>4. QED
  BY <1>1, <1>2, <1>3, ClientStep

-----------------------------------------------------------------------------

LEMMA IInvInit == Init => IInv
<1>. SUFFICES ASSUME Init PROVE IInv
  OBVIOUS
<1>1. Ordered(<<>>) /\ ~ EndsReleased(<<>>)
  BY DEF Ordered, EndsReleased
<1>2. LinkTypeOK
  BY DEF Init, LinkTypeOK
<1>3. QED
  BY <1>1, <1>2 DEF Init, IInv, ChannelOK, LateOK

LEMMA IInvNext == IInv /\ [Next]_vars => IInv'
<1>. SUFFICES ASSUME IInv, [Next]_vars PROVE IInv'
  OBVIOUS
<1>1. CASE SwitchToLocal
  BY <1>1, ReleaseKeeps DEF SwitchToLocal
<1>2. CASE Forward
  BY <1>2, ForwardKeeps
<1>3. CASE Shutdown
  BY <1>3, ShutdownKeeps
<1>4. ASSUME NEW c \in Clients, ServerStep(c) PROVE IInv'
  <2>1. CASE Accept(c)
    BY <2>1, ServerIdle DEF Accept
  <2>2. CASE Hear(c)
    BY <2>2, ServerIdle, ReleaseKeeps DEF Hear, HearRelease
  <2>3. CASE EndSession(c)
    BY <2>3, ServerIdle DEF EndSession
  <2>4. QED
    BY <1>4, <2>1, <2>2, <2>3 DEF ServerStep
<1>5. ASSUME NEW c \in Clients, SwitchToClient(c) PROVE IInv'
  BY <1>5, SwitchKeeps
<1>6. ASSUME NEW c \in Clients, Receive(c) PROVE IInv'
  BY <1>6, ReadKeeps, InjectKeeps, UnreadKeeps DEF Receive
<1>7. ASSUME NEW c \in Clients,
             Connect(c) \/ FinishConnect(c) \/ MonitorTick(c) \/ RequestControlRelease(c)
               \/ Told(c) \/ Quit(c)
      PROVE  IInv'
  BY <1>7, UnreadKeeps
<1>8. ASSUME NEW c \in Clients, ReleaseStep(c) PROVE IInv'
  BY <1>8, ReleaseLocallyKeeps, UnreadKeeps DEF ReleaseStep
<1>9. ASSUME NEW c \in Clients, Disconnect(c) \/ Crash(c) PROVE IInv'
  BY <1>9, StoppedKeeps DEF Disconnect, Crash
<1>10. CASE UNCHANGED vars
  BY <1>10, ServerIdle DEF vars, serverVars
<1>11. QED
  BY <1>1, <1>2, <1>3, <1>4, <1>5, <1>6, <1>7, <1>8, <1>9, <1>10 DEF Next

\* The inductive invariant: types, the order of what is under way to each client, and
\* what each client has injected late.
THEOREM LinkInvariant == Spec => []IInv
<1>1. QED
  BY IInvInit, IInvNext, PTL DEF Spec

\* SwitchToClient, SwitchToLocal and HandleInputEvent on the server: a client that has been
\* told of its release gets no input before the next request, for any number of clients
\* and messages under way.
THEOREM NoInputAfterRelease == Spec => []InputFollowsRequest
<1>1. IInv => InputFollowsRequest
  BY DEF IInv, ChannelOK, Ordered, AfterRelease, InputFollowsRequest
<1>2. QED
  BY <1>1, LinkInvariant, PTL

\* RequestControlRelease on the client: after the user took control back at most the one
\* event is injected that had passed the check before.
THEOREM OneLateEvent == Spec => []AtMostOneLate
<1>1. IInv => AtMostOneLate
  BY DEF IInv, LateOK, LinkTypeOK, AtMostOneLate
<1>2. QED
  BY <1>1, LinkInvariant, PTL

-----------------------------------------------------------------------------
(* A release is always sent, as long as control never goes from one client *)
(* straight to another.  With a single client it cannot.                   *)

\* What a client with status b will believe once it has read s.
WillBelieve(s, b) ==
  \/ b /\ \A i \in 1..Len(s) : s[i] # "RELEASE_CONTROL"
  \/ \E i \in 1..Len(s) :
       s[i] = "REQUEST_CONTROL" /\ \A j \in (i + 1)..Len(s) : s[j] # "RELEASE_CONTROL"

\* A session starts with nothing under way and a client that is not controlled; while it
\* lives, a client that will believe to be in control is.
BeliefOK(c) ==
  /\ link[c] \in {"down", "opening"} => ~ beingControlled[c]
  /\ session[c] = "none" /\ link[c] # "down" => down[c] = <<>> /\ ~ beingControlled[c]
  /\ owner = c => session[c] = "live"
  /\ /\ session[c] = "live" /\ link[c] \in {"opening", "open"}
     /\ WillBelieve(down[c], beingControlled[c])
     => owner = c

BInv ==
  /\ session \in [Clients -> {"none", "live", "closed"}]
  /\ \A c \in Clients : BeliefOK(c)

NoHandOver == owner' = owner \/ owner = Nobody \/ owner' = Nobody

LEMMA NothingToBelieve == ~ WillBelieve(<<>>, FALSE)
BY DEF WillBelieve

LEMMA ReleaseEndsBelief ==
  ASSUME NEW s \in Seq(Message), NEW b \in BOOLEAN
  PROVE  ~ WillBelieve(Append(s, "RELEASE_CONTROL"), b)
<1>. DEFINE t == Append(s, "RELEASE_CONTROL")
<1>1. /\ Len(t) = Len(s) + 1 /\ t[Len(s) + 1] = "RELEASE_CONTROL" /\ Len(s) \in Nat
      /\ \A i \in 1..Len(s) : t[i] = s[i]
  OBVIOUS
<1>. HIDE DEF t
<1>2. Len(s) + 1 \in 1..Len(t)
  BY <1>1
<1>3. ASSUME NEW i \in 1..Len(t), t[i] = "REQUEST_CONTROL"
      PROVE  Len(s) + 1 \in (i + 1)..Len(t)
  BY <1>1, <1>3
<1>4. ~ WillBelieve(t, b)
  BY <1>1, <1>2, <1>3 DEF WillBelieve
<1>5. QED
  BY <1>4 DEF t

\* Reading the first message makes no client believe what it would not have believed.
LEMMA ReadingKeepsBelief ==
  ASSUME NEW s \in Seq(Message), s # <<>>, NEW b \in BOOLEAN, NEW n \in BOOLEAN,
         WillBelieve(Tail(s), n),
         n => \/ Head(s) = "REQUEST_CONTROL"
              \/ b /\ Head(s) # "RELEASE_CONTROL"
  PROVE  WillBelieve(s, b)
<1>. DEFINE t == Tail(s)
<1>1. /\ Len(s) \in Nat /\ Len(s) > 0 /\ Len(t) = Len(s) - 1 /\ s[1] = Head(s)
      /\ \A i \in 1..Len(t) : t[i] = s[i + 1]
  OBVIOUS
<1>. HIDE DEF t
<1>2. \A j \in 2..Len(s) : j - 1 \in 1..Len(t) /\ t[j - 1] = s[j]
  BY <1>1
<1>3. ASSUME n, \A i \in 1..Len(t) : t[i] # "RELEASE_CONTROL"
      PROVE  WillBelieve(s, b)
  <2>1. \A j \in 2..Len(s) : s[j] # "RELEASE_CONTROL"
    BY <1>2, <1>3
  <2>2. CASE s[1] = "REQUEST_CONTROL"
    BY <1>1, <2>1, <2>2 DEF WillBelieve
  <2>3. CASE b /\ s[1] # "RELEASE_CONTROL"
    <3>1. \A i \in 1..Len(s) : i = 1 \/ i \in 2..Len(s)
      BY <1>1
    <3>2. QED
      BY <2>1, <2>3, <3>1 DEF WillBelieve
  <2>4. QED
    BY <1>1, <1>3, <2>2, <2>3
<1>4. ASSUME NEW i \in 1..Len(t), t[i] = "REQUEST_CONTROL",
             \A j \in (i + 1)..Len(t) : t[j] # "RELEASE_CONTROL"
      PROVE  WillBelieve(s, b)
  <2>1. i + 1 \in 1..Len(s) /\ s[i + 1] = "REQUEST_CONTROL"
    BY <1>1, <1>4
  <2>2. ASSUME NEW j \in (i + 1 + 1)..Len(s) PROVE s[j] # "RELEASE_CONTROL"
    <3>1. j \in 2..Len(s) /\ j - 1 \in (i + 1)..Len(t)
      BY <1>1
    <3>2. QED
      BY <1>2, <1>4, <3>1
  <2>3. QED
    BY <2>1, <2>2 DEF WillBelieve
<1>5. WillBelieve(t, n)
  BY DEF t
<1>6. QED
  BY <1>3, <1>4, <1>5 DEF WillBelieve

\* A step that does not concern a client.
LEMMA BeliefFrame ==
  ASSUME NEW c \in Clients, BeliefOK(c), owner' = c <=> owner = c,
         session'[c] = session[c], down'[c] = down[c], link'[c] = link[c],
         beingControlled'[c] = beingControlled[c]
  PROVE  BeliefOK(c)'
BY DEF BeliefOK

\* A step after which the client is the owner.
LEMMA BeliefOwner ==
  ASSUME NEW c \in Clients, BeliefOK(c), session'[c] = "live", owner' = c,
         link'[c] = link[c], beingControlled'[c] = beingControlled[c]
  PROVE  BeliefOK(c)'
BY DEF BeliefOK

-----------------------------------------------------------------------------
(* The server's steps.                                                     *)

LEMMA AcceptBelief ==
  ASSUME IInv, BInv, NEW c \in Clients, Accept(c)
  PROVE  BInv'
<1>1. session' \in [Clients -> {"none", "live", "closed"}]
  BY DEF Accept, BInv, Put
<1>2. ASSUME NEW d \in Clients PROVE BeliefOK(d)'
  <2>1. CASE d = c
    <3>1. down[c] = <<>> /\ beingControlled[c] = FALSE
      BY DEF Accept, BInv, BeliefOK, IInv, LinkTypeOK
    <3>2. ~ WillBelieve(down[c], beingControlled[c])
      BY <3>1, NothingToBelieve
    <3>3. /\ UNCHANGED <<owner, down, link, beingControlled>>
          /\ session'[c] = "live" /\ link[c] \in {"opening", "open"} /\ BeliefOK(c)
      BY DEF Accept, BInv, Put, clientVars, statusVars
    <3>4. QED
      BY <2>1, <3>1, <3>2, <3>3 DEF BeliefOK
  <2>2. CASE d # c
    BY <2>2, BeliefFrame DEF Accept, BInv, Put, clientVars, statusVars
  <2>3. QED
    BY <2>1, <2>2
<1>3. QED
  BY <1>1, <1>2 DEF BInv

LEMMA SwitchBelief ==
  ASSUME IInv, BInv, NEW c \in Clients, SwitchToClient(c), NoHandOver
  PROVE  BInv'
<1>1. /\ owner' = c /\ owner = Nobody
      /\ UNCHANGED <<session, link, beingControlled>>
      /\ session[c] = "live"
      /\ \A d \in Clients \ {c} : down'[d] = down[d]
  BY DEF SwitchToClient, NoHandOver, Send, IInv, LinkTypeOK, clientVars, statusVars
<1>2. ASSUME NEW d \in Clients PROVE BeliefOK(d)'
  <2>1. CASE d = c
    BY <1>1, <2>1, BeliefOwner DEF BInv
  <2>2. CASE d # c
    BY <1>1, <2>2, BeliefFrame DEF BInv
  <2>3. QED
    BY <2>1, <2>2
<1>3. QED
  BY <1>1, <1>2 DEF BInv

LEMMA ReleaseBelief ==
  ASSUME IInv, BInv, ReleaseOwner, UNCHANGED <<session, clientVars>>
  PROVE  BInv'
<1>1. owner' = Nobody /\ UNCHANGED <<session, link, beingControlled>>
  BY DEF ReleaseOwner, clientVars, statusVars
<1>2. ASSUME NEW d \in Clients PROVE BeliefOK(d)'
  <2>1. CASE d = owner /\ link[d] = "down"
    BY <1>1, <2>1 DEF BInv, BeliefOK
  <2>2. CASE d = owner /\ link[d] # "down"
    <3>1. down[d] \in Seq(Message) /\ beingControlled[d] \in BOOLEAN
      BY DEF IInv, LinkTypeOK
    <3>2. down'[d] = Append(down[d], "RELEASE_CONTROL")
      BY <2>2, <3>1, ConcatAppends DEF ReleaseOwner, Send, IInv, LinkTypeOK, Message
    <3>3. ~ WillBelieve(down'[d], beingControlled[d])
      BY <3>1, <3>2, ReleaseEndsBelief
    <3>4. session[d] = "live" /\ BeliefOK(d)
      BY <2>2 DEF BInv, BeliefOK
    <3>5. QED
      BY <1>1, <3>3, <3>4 DEF BeliefOK
  <2>3. CASE d # owner
    <3>1. down'[d] = down[d]
      BY <2>3 DEF ReleaseOwner, Send, IInv, LinkTypeOK
    <3>2. QED
      BY <1>1, <2>3, <3>1, BeliefFrame DEF BInv
  <2>4. QED
    BY <2>1, <2>2, <2>3
<1>3. QED
  BY <1>1, <1>2 DEF BInv

LEMMA ForwardBelief ==
  ASSUME IInv, BInv, Forward
  PROVE  BInv'
<1>1. /\ owner' = owner /\ owner \in Clients
      /\ UNCHANGED <<session, link, beingControlled>>
      /\ \A d \in Clients \ {owner} : down'[d] = down[d]
  BY DEF Forward, Send, serverVars, clientVars, statusVars, IInv, LinkTypeOK
<1>2. session[owner] = "live"
  BY <1>1 DEF BInv, BeliefOK
<1>3. ASSUME NEW d \in Clients PROVE BeliefOK(d)'
  <2>1. CASE d = owner
    BY <1>1, <1>2, <2>1, BeliefOwner DEF BInv
  <2>2. CASE d # owner
    BY <1>1, <2>2, BeliefFrame DEF BInv
  <2>3. QED
    BY <2>1, <2>2
<1>4. QED
  BY <1>1, <1>3 DEF BInv

LEMMA EndSessionBelief ==
  ASSUME IInv, BInv, NEW c \in Clients, EndSession(c)
  PROVE  BInv'
<1>1. /\ UNCHANGED <<down, link, beingControlled>>
      /\ session' = [session EXCEPT ![c] = "none"]
      /\ link[c] = "down"
      /\ owner' = IF owner = c THEN Nobody ELSE owner
  BY DEF EndSession, Put, clientVars, statusVars
<1>2. session' \in [Clients -> {"none", "live", "closed"}]
  BY <1>1 DEF BInv
<1>3. ASSUME NEW d \in Clients PROVE BeliefOK(d)'
  <2>1. CASE d = c
    BY <1>1, <2>1 DEF BInv, BeliefOK
  <2>2. CASE d # c
    BY <1>1, <2>2, BeliefFrame DEF BInv
  <2>3. QED
    BY <2>1, <2>2
<1>4. QED
  BY <1>2, <1>3 DEF BInv

LEMMA ShutdownBelief ==
  ASSUME IInv, BInv, Shutdown
  PROVE  BInv'
<1>1. /\ owner' = Nobody /\ UNCHANGED <<link, beingControlled>>
      /\ session' = [c \in Clients |->
                      IF link[c] = "down" THEN "none"
                      ELSE IF session[c] = "live" THEN "closed" ELSE session[c]]
  BY DEF Shutdown, clientVars, statusVars
<1>2. \A c \in Clients : session[c] # "live" => down'[c] = down[c]
  BY DEF Shutdown
<1>3. session' \in [Clients -> {"none", "live", "closed"}]
  BY <1>1 DEF BInv
<1>4. ASSUME NEW d \in Clients PROVE BeliefOK(d)'
  <2>1. BeliefOK(d) /\ session[d] \in {"none", "live", "closed"}
    BY DEF BInv
  <2>2. /\ session'[d] # "live"
        /\ session'[d] = "none" /\ link[d] # "down" => session[d] = "none"
    BY <1>1
  <2>3. QED
    BY <1>1, <1>2, <2>1, <2>2 DEF BeliefOK
<1>5. QED
  BY <1>3, <1>4 DEF BInv

-----------------------------------------------------------------------------
(* The client's steps.                                                     *)

\* A step of one client is judged by that client alone.
LEMMA BeliefStep ==
  ASSUME IInv, BInv, NEW c \in Clients, UNCHANGED <<owner, session>>,
         \A d \in Clients \ {c} : /\ down'[d] = down[d]
                                  /\ link'[d] = link[d]
                                  /\ beingControlled'[d] = beingControlled[d],
         BeliefOK(c)'
  PROVE  BInv'
<1>1. ASSUME NEW d \in Clients, d # c PROVE BeliefOK(d)'
  BY <1>1, BeliefFrame DEF BInv
<1>2. QED
  BY <1>1 DEF BInv

LEMMA UnreadBelief ==
  ASSUME IInv, BInv, NEW c \in Clients,
         Connect(c) \/ FinishConnect(c) \/ Eof(c) \/ MonitorTick(c) \/ Inject(c)
           \/ RequestControlRelease(c) \/ TellReleased(c) \/ Told(c) \/ Quit(c)
           \/ ReleaseLocally(c)
  PROVE  BInv'
<1>1. /\ UNCHANGED <<owner, session, down>>
      /\ \/ link' = link
         \/ link' = Put(link, c, "opening") /\ link[c] = "down"
         \/ link' = Put(link, c, "open") /\ link[c] = "opening"
         \/ link' = Put(link, c, "lost") /\ link[c] = "open"
      /\ \/ beingControlled' = beingControlled
         \/ beingControlled' = Put(beingControlled, c, FALSE) /\ link' = link
  BY DEF Connect, FinishConnect, Eof, MonitorTick, Inject, RequestControlRelease, TellReleased,
         Told, Show, Quit, ReleaseLocally, serverVars, statusVars
<1>2. \A d \in Clients \ {c} : /\ link'[d] = link[d]
                               /\ beingControlled'[d] = beingControlled[d]
  BY <1>1 DEF Put, IInv, LinkTypeOK
<1>3. /\ \/ link'[c] = link[c]
         \/ link[c] = "down" /\ link'[c] = "opening" /\ session[c] = "none"
         \/ link[c] = "opening" /\ link'[c] = "open"
         \/ link[c] = "open" /\ link'[c] = "lost"
      /\ beingControlled'[c] = beingControlled[c] \/ beingControlled'[c] = FALSE
  <2>1. Connect(c) => session[c] = "none"
    BY DEF Connect
  <2>2. link'[c] = "opening" /\ link[c] = "down" => Connect(c)
    BY DEF Connect, FinishConnect, Eof, MonitorTick, Inject, RequestControlRelease,
           TellReleased, Told, Show, Quit, ReleaseLocally, IInv, LinkTypeOK, Put
  <2>3. QED
    BY <1>1, <2>1, <2>2 DEF Put, IInv, LinkTypeOK
<1>4. WillBelieve(down[c], beingControlled'[c]) => WillBelieve(down[c], beingControlled[c])
  BY <1>3 DEF WillBelieve
<1>5. BeliefOK(c) /\ (link[c] = "down" => down[c] = <<>>)
  BY DEF BInv, IInv, ChannelOK
<1>6. beingControlled'[c] => beingControlled[c]
  BY <1>3
<1>7. BeliefOK(c)'
  BY <1>1, <1>3, <1>4, <1>5, <1>6 DEF BeliefOK
<1>8. QED
  BY <1>1, <1>2, <1>7, BeliefStep

LEMMA ReadBelief ==
  ASSUME IInv, BInv, NEW c \in Clients,
         ReceiveTooEarly(c) \/ ReceiveRequest(c) \/ ReceiveRelease(c)
           \/ ReceiveShutdown(c) \/ ReceiveInput(c)
  PROVE  BInv'
<1>. DEFINE b == beingControlled[c]
            n == beingControlled'[c]
<1>1. /\ UNCHANGED <<owner, session>>
      /\ down[c] # <<>> /\ down' = [down EXCEPT ![c] = Tail(@)]
      /\ link[c] \in {"opening", "open"}
      /\ link' = link \/ link' = Put(link, c, "lost")
  BY DEF ReceiveTooEarly, ReceiveRequest, ReceiveRelease, ReceiveShutdown, ReceiveInput,
         CanReceive, serverVars, clientVars
<1>2. \A d \in Clients \ {c} : /\ down'[d] = down[d]
                               /\ link'[d] = link[d]
                               /\ beingControlled'[d] = beingControlled[d]
  <2>1. \A d \in Clients \ {c} : down'[d] = down[d] /\ link'[d] = link[d]
    BY <1>1 DEF Put, IInv, LinkTypeOK
  <2>2. \/ beingControlled' = beingControlled
        \/ beingControlled' = Put(beingControlled, c, TRUE)
        \/ beingControlled' = Put(beingControlled, c, FALSE)
    BY DEF ReceiveTooEarly, ReceiveRequest, ReceiveRelease, ReceiveShutdown, ReceiveInput,
           GivesUpControl, clientVars, statusVars
  <2>3. QED
    BY <2>1, <2>2 DEF Put, IInv, LinkTypeOK
<1>3. /\ down'[c] = Tail(down[c]) /\ down[c] \in Seq(Message)
      /\ b \in BOOLEAN
      /\ link'[c] = link[c] \/ link'[c] = "lost"
      /\ BeliefOK(c)
  BY <1>1 DEF Put, IInv, LinkTypeOK, BInv
<1>4. /\ n \in BOOLEAN
      /\ n => \/ Head(down[c]) = "REQUEST_CONTROL"
              \/ b /\ Head(down[c]) # "RELEASE_CONTROL"
      /\ link[c] = "opening" => n = b
  <2>1. CASE ReceiveTooEarly(c)
    <3>1. n = b /\ ~ b
      BY <1>3, <2>1 DEF ReceiveTooEarly, clientVars, statusVars, BeliefOK
    <3>2. QED
      BY <1>3, <3>1
  <2>2. CASE ReceiveRequest(c)
    BY <2>2 DEF ReceiveRequest, CanReceive, Put, IInv, LinkTypeOK
  <2>3. CASE ReceiveRelease(c)
    BY <2>3 DEF ReceiveRelease, CanReceive, GivesUpControl, Put, IInv, LinkTypeOK
  <2>4. CASE ReceiveShutdown(c)
    BY <2>4 DEF ReceiveShutdown, CanReceive, Put, IInv, LinkTypeOK
  <2>5. CASE ReceiveInput(c)
    BY <1>3, <2>5 DEF ReceiveInput, CanReceive, statusVars
  <2>6. QED
    BY <2>1, <2>2, <2>3, <2>4, <2>5
<1>5. WillBelieve(down'[c], n) => WillBelieve(down[c], b)
  BY <1>1, <1>3, <1>4, ReadingKeepsBelief
<1>6. session[c] # "none"
  BY <1>1, <1>3 DEF BeliefOK
<1>7. BeliefOK(c)'
  <2>1. link'[c] \in {"down", "opening"} => ~ n
    BY <1>1, <1>3, <1>4 DEF BeliefOK
  <2>2. /\ session'[c] = "live" /\ link'[c] \in {"opening", "open"} /\ WillBelieve(down'[c], n)
        => owner' = c
    BY <1>1, <1>3, <1>5 DEF BeliefOK
  <2>3. QED
    BY <1>1, <1>3, <1>6, <2>1, <2>2 DEF BeliefOK
<1>8. QED
  BY <1>1, <1>2, <1>7, BeliefStep

LEMMA StoppedBelief ==
  ASSUME IInv, BInv, NEW c \in Clients, Stopped(c)
  PROVE  BInv'
<1>1. /\ owner' = owner
      /\ down' = [down EXCEPT ![c] = <<>>]
      /\ link' = [link EXCEPT ![c] = "down"]
      /\ beingControlled' = [beingControlled EXCEPT ![c] = FALSE]
      /\ session' = [session EXCEPT ![c] = IF session[c] = "live" THEN "live" ELSE "none"]
  BY DEF Stopped, Put
<1>2. session' \in [Clients -> {"none", "live", "closed"}]
  BY <1>1 DEF BInv
<1>3. ASSUME NEW d \in Clients PROVE BeliefOK(d)'
  <2>1. CASE d = c
    BY <1>1, <2>1 DEF BInv, BeliefOK, IInv, LinkTypeOK
  <2>2. CASE d # c
    BY <1>1, <2>2, BeliefFrame DEF BInv, IInv, LinkTypeOK
  <2>3. QED
    BY <2>1, <2>2
<1>4. QED
  BY <1>2, <1>3 DEF BInv

-----------------------------------------------------------------------------

LEMMA BInvInit == Init => BInv
<1>. SUFFICES ASSUME Init PROVE BInv
  OBVIOUS
<1>1. ASSUME NEW c \in Clients PROVE BeliefOK(c)
  <2>1. /\ owner # c /\ session[c] = "none" /\ link[c] = "down" /\ beingControlled[c] = FALSE
    BY DEF Init
  <2>2. QED
    BY <2>1 DEF BeliefOK
<1>2. QED
  BY <1>1 DEF Init, BInv

LEMMA BInvNext == IInv /\ BInv /\ [Next]_vars /\ [NoHandOver]_vars => BInv'
<1>. SUFFICES ASSUME IInv, BInv, [Next]_vars, [NoHandOver]_vars PROVE BInv'
  OBVIOUS
<1>1. CASE SwitchToLocal
  BY <1>1, ReleaseBelief DEF SwitchToLocal
<1>2. CASE Forward
  BY <1>2, ForwardBelief
<1>3. CASE Shutdown
  BY <1>3, ShutdownBelief
<1>4. CASE UNCHANGED vars
  <2>1. ASSUME NEW c \in Clients PROVE BeliefOK(c)'
    BY <1>4, BeliefFrame DEF BInv, vars, serverVars, clientVars, statusVars
  <2>2. QED
    BY <1>4, <2>1 DEF BInv, vars, serverVars
<1>5. ASSUME NEW c \in Clients, ServerStep(c) PROVE BInv'
  <2>1. CASE Accept(c)
    BY <2>1, AcceptBelief
  <2>2. CASE Hear(c)
    <3>1. CASE ReleaseOwner
      BY <2>2, <3>1, ReleaseBelief DEF Hear
    <3>2. CASE UNCHANGED <<owner, down>>
      <4>1. ASSUME NEW d \in Clients PROVE BeliefOK(d)'
        BY <2>2, <3>2, BeliefFrame DEF BInv, Hear, clientVars, statusVars
      <4>2. QED
        BY <2>2, <4>1 DEF BInv, Hear
    <3>3. QED
      BY <2>2, <3>1, <3>2 DEF Hear, HearRelease
  <2>3. CASE EndSession(c)
    BY <2>3, EndSessionBelief
  <2>4. QED
    BY <1>5, <2>1, <2>2, <2>3 DEF ServerStep
<1>6. ASSUME NEW c \in Clients, SwitchToClient(c) PROVE BInv'
  BY <1>4, <1>6, SwitchBelief
<1>7. ASSUME NEW c \in Clients, Receive(c) PROVE BInv'
  BY <1>7, ReadBelief, UnreadBelief DEF Receive
<1>8. ASSUME NEW c \in Clients,
             Connect(c) \/ FinishConnect(c) \/ MonitorTick(c) \/ RequestControlRelease(c)
               \/ ReleaseStep(c) \/ Told(c) \/ Quit(c)
      PROVE  BInv'
  BY <1>8, UnreadBelief DEF ReleaseStep
<1>9. ASSUME NEW c \in Clients, Disconnect(c) \/ Crash(c) PROVE BInv'
  BY <1>9, StoppedBelief DEF Disconnect, Crash
<1>10. QED
  BY <1>1, <1>2, <1>3, <1>4, <1>5, <1>6, <1>7, <1>8, <1>9 DEF Next

LEMMA BelieverIsToldOrOwner == BInv => ReleaseIsSent
<1>. SUFFICES ASSUME BInv, NEW c \in Clients, InControl(c), owner # c
              PROVE  Under(c, "RELEASE_CONTROL")
  BY DEF ReleaseIsSent
<1>1. ~ WillBelieve(down[c], beingControlled[c]) /\ beingControlled[c]
  BY DEF BInv, BeliefOK, InControl
<1>2. QED
  BY <1>1 DEF WillBelieve, Under

\* switchToNextClientOrLocal and SwitchToLocal: for any number of clients, as long as control
\* never goes from one client straight to another, a client that believes to be controlled
\* is, or has a release on its way to it.  (SwitchToClient sends none to the client that
\* loses control.)
THEOREM ReleaseSentByWayOfLocal == Spec /\ [][NoHandOver]_vars => []ReleaseIsSent
<1>1. QED
  BY BInvInit, BInvNext, LinkInvariant, BelieverIsToldOrOwner, PTL DEF Spec

\* Server and client, by themselves: however control comes back, the client is told, through
\* restarts and crashes on both sides and with any number of messages under way.
THEOREM OneClientIsToldOfRelease ==
  ASSUME NEW only, Clients = {only}
  PROVE  Spec => []ReleaseIsSent
<1>1. IInv /\ IInv' => NoHandOver
  BY DEF IInv, LinkTypeOK, NoHandOver
<1>2. QED
  BY <1>1, LinkInvariant, ReleaseSentByWayOfLocal, PTL
=============================================================================
