-------------------------- MODULE ServerLifeProofs --------------------------
(***************************************************************************)
(* Theorems about the life of the server, for every number of clients,     *)
(* commands and launches: what the start-up has passed is there, what the  *)
(* stop has passed is gone, and who is owed a notice gets it.              *)
(***************************************************************************)
EXTENDS ServerLife, TLAPS

-----------------------------------------------------------------------------
(* One command and its connection: what a "waymon switch" reports is true.  *)

PCs == {"new", "dial", "dial_user", "send", "read", "exited"}
Results == {"none", "status", "error", "failed", "not_running"}
Ends == {"none", "backlog", "check", "read", "handle", "query", "write_status", "write_error",
         "closed"}
Links == [server : Ends, sent : BOOLEAN, answer : {"none", "status", "error"}, hungUp : BOOLEAN]

SocketTypeOK ==
  /\ sock \in [phase : {"off", "on", "cancelled", "closing", "stopped"},
               path : {"nothing", "socket", "stale"}]
  /\ command \in [Commands -> [pc : PCs, result : Results]]
  /\ conn \in [Commands -> Links]
  /\ carried \in [Commands -> Nat]
  /\ seen \in [Commands -> SUBSET Places]
  /\ reported \in [Commands -> Places \cup {"none"}]
  /\ control \in Places

\* The message of a command is in one place: not sent, on the way, with the handler, or
\* answered.  The manager has carried it out only if it has been with the handler, and
\* the answer says whether and who had control then.
OneMessage(c) ==
  /\ carried[c] <= 1
  /\ conn[c].sent => carried[c] = 0 /\ conn[c].answer = "none"
                     /\ conn[c].server \in {"backlog", "check", "read", "closed"}
  /\ conn[c].server \in {"none", "backlog", "handle", "write_error"} =>
       carried[c] = 0 /\ conn[c].answer = "none"
  /\ conn[c].server \in {"check", "read"} /\ conn[c].answer = "none" => carried[c] = 0
  /\ conn[c].server = "query" =>
       carried[c] = 1 /\ conn[c].answer = "none" /\ control \in seen[c]
  /\ conn[c].server = "write_status" =>
       carried[c] = 1 /\ conn[c].answer = "none" /\ reported[c] \in seen[c]
  /\ conn[c].answer = "status" => carried[c] = 1 /\ reported[c] \in seen[c]
  /\ conn[c].answer = "error" => carried[c] = 0

\* How far the command is agrees with its connection.
InStep(c) ==
  /\ command[c].pc \in {"new", "dial", "dial_user"} => conn[c] = NoLink
  /\ command[c].pc = "send" =>
       /\ conn[c].server \in {"backlog", "check", "read", "closed"}
       /\ ~conn[c].sent /\ conn[c].answer = "none" /\ carried[c] = 0
  /\ command[c].pc # "exited" => command[c].result = "none"
  /\ command[c].result \in {"status", "error"} => conn[c].answer = command[c].result
  /\ command[c].result = "not_running" => conn[c].server = "none"

SocketInv == SocketTypeOK /\ \A c \in Commands : OneMessage(c) /\ InStep(c)

LEMMA SocketInvInit == SocketInit => SocketInv
BY DEF SocketInit, SocketInv, SocketTypeOK, OneMessage, InStep, NoLink, Links, Ends, PCs,
       Results, Places

-----------------------------------------------------------------------------
(* The steps.                                                              *)

CommandOK(c) == OneMessage(c) /\ InStep(c)

\* A step for one command leaves the others as they are, if control stays where it is.
LEMMA OthersKeep ==
  ASSUME SocketInv, SocketTypeOK', NEW c \in Commands, CommandOK(c)',
         UNCHANGED control,
         \A d \in Commands \ {c} : /\ command'[d] = command[d]
                                   /\ conn'[d] = conn[d]
                                   /\ carried'[d] = carried[d]
                                   /\ reported'[d] = reported[d]
                                   /\ seen'[d] = seen[d]
  PROVE  SocketInv'
BY DEF SocketInv, CommandOK, OneMessage, InStep

LEMMA ReportsTypes ==
  ASSUME SocketTypeOK, NEW c \in Commands, NEW r \in Results, Reports(c, r),
         UNCHANGED <<sock, managed>>
  PROVE  SocketTypeOK'
BY DEF SocketTypeOK, Reports, Links, PCs, managed

LEMMA CommandTypes ==
  ASSUME SocketTypeOK, NEW c \in Commands, Command(c)
  PROVE  SocketTypeOK'
<1>1. CASE ClientProbes(c)
  BY <1>1 DEF ClientProbes, SocketTypeOK, PCs, managed
<1>2. CASE ClientDials(c)
  <2>1. CASE command[c].pc = "dial" /\ Listening
    <3>1. command' \in [Commands -> [pc : PCs, result : Results]]
      BY <1>2, <2>1 DEF ClientDials, SocketTypeOK, PCs
    <3>2. Queued \in Links
      BY DEF Queued, NoLink, Links, Ends
    <3>3. conn' \in [Commands -> Links]
      BY <1>2, <2>1, <3>2 DEF ClientDials, SocketTypeOK
    <3>4. QED
      BY <1>2, <3>1, <3>3 DEF ClientDials, SocketTypeOK, managed
  <2>2. CASE ~(command[c].pc = "dial" /\ Listening)
    BY <1>2, <2>2, ReportsTypes DEF ClientDials, Results
  <2>3. QED
    BY <2>1, <2>2
<1>3. CASE ClientSends(c)
  <2>1. CASE conn[c].server = "closed"
    BY <1>3, <2>1, ReportsTypes DEF ClientSends, Results
  <2>2. CASE conn[c].server # "closed"
    <3>1. command' \in [Commands -> [pc : PCs, result : Results]]
      BY <1>3, <2>2 DEF ClientSends, SocketTypeOK, PCs
    <3>2. conn' \in [Commands -> Links]
      <4>1. \A l \in Links : [l EXCEPT !.sent = TRUE] \in Links
        BY DEF Links
      <4>2. QED
        BY <1>3, <2>2, <4>1 DEF ClientSends, SocketTypeOK
    <3>3. QED
      BY <1>3, <3>1, <3>2 DEF ClientSends, SocketTypeOK, managed
  <2>3. QED
    BY <2>1, <2>2
<1>4. CASE ClientReads(c)
  BY <1>4, ReportsTypes DEF ClientReads, Results
<1>5. CASE ClientTimesOut(c)
  BY <1>5, ReportsTypes DEF ClientTimesOut, Results
<1>6. QED
  BY <1>1, <1>2, <1>3, <1>4, <1>5 DEF Command

\* A command may report that it failed, the answer, or that it found no server.
LEMMA ReportsKeeps ==
  ASSUME SocketInv, NEW c \in Commands, NEW r \in Results, Reports(c, r), UNCHANGED managed,
         \/ r = "failed"
         \/ r \in {"status", "error"} /\ conn[c].answer = r
         \/ r = "not_running" /\ conn[c].server = "none"
  PROVE  CommandOK(c)'
<1>1. command'[c] = [pc |-> "exited", result |-> r]
  BY DEF SocketInv, SocketTypeOK, Reports
<1>2. /\ conn'[c].server = conn[c].server
      /\ conn'[c].sent = conn[c].sent
      /\ conn'[c].answer = conn[c].answer
  BY DEF SocketInv, SocketTypeOK, Reports, Links
<1>3. OneMessage(c)'
  BY <1>2 DEF SocketInv, OneMessage, managed
<1>4. InStep(c)'
  BY <1>1, <1>2 DEF InStep, managed
<1>5. QED
  BY <1>3, <1>4 DEF CommandOK

LEMMA CommandKeeps ==
  ASSUME SocketInv, NEW c \in Commands, Command(c)
  PROVE  SocketInv'
<1>1. SocketTypeOK'
  BY CommandTypes DEF SocketInv
<1>2. UNCHANGED managed
  BY DEF Command, ClientProbes, ClientDials, ClientSends, ClientReads, ClientTimesOut
<1>2a. \A d \in Commands \ {c} : command'[d] = command[d] /\ conn'[d] = conn[d]
  BY DEF SocketInv, SocketTypeOK, Command, ClientProbes, ClientDials, ClientSends, ClientReads,
         ClientTimesOut, Reports
<1>3. SUFFICES CommandOK(c)'
  BY <1>1, <1>2, <1>2a, OthersKeep DEF managed
<1>4. CASE ClientProbes(c)
  BY <1>4 DEF ClientProbes, SocketInv, SocketTypeOK, CommandOK, OneMessage, InStep, PCs,
              managed
<1>5. CASE ClientDials(c)
  <2>1. CASE command[c].pc = "dial" /\ Listening
    <3>1. conn'[c] = Queued /\ carried' = carried
      BY <1>5, <2>1 DEF ClientDials, SocketInv, SocketTypeOK, managed
    <3>2. command'[c].pc = "send" /\ command'[c].result = "none"
      BY <1>5, <2>1 DEF ClientDials, SocketInv, SocketTypeOK, InStep
    <3>3. conn[c].server = "none" /\ carried[c] = 0
      BY <2>1 DEF SocketInv, InStep, OneMessage, NoLink
    <3>4. QED
      BY <3>1, <3>2, <3>3 DEF CommandOK, OneMessage, InStep, Queued, NoLink
  <2>2. CASE ~(command[c].pc = "dial" /\ Listening)
    <3>1. conn[c].server = "none"
      BY <1>5 DEF ClientDials, SocketInv, InStep, NoLink
    <3>2. QED
      BY <1>5, <2>2, <3>1, ReportsKeeps DEF ClientDials, Results
  <2>3. QED
    BY <2>1, <2>2
<1>6. CASE ClientSends(c)
  <2>1. CASE conn[c].server = "closed"
    BY <1>6, <2>1, ReportsKeeps DEF ClientSends, Results
  <2>2. CASE conn[c].server # "closed"
    BY <1>6, <2>2 DEF ClientSends, SocketInv, SocketTypeOK, CommandOK, OneMessage, InStep,
                      PCs, Links, managed
  <2>3. QED
    BY <2>1, <2>2
<1>7. CASE ClientReads(c)
  BY <1>7, ReportsKeeps DEF ClientReads, Results
<1>8. CASE ClientTimesOut(c)
  BY <1>8, ReportsKeeps DEF ClientTimesOut, Results
<1>9. QED
  BY <1>4, <1>5, <1>6, <1>7, <1>8 DEF Command

\* Links stay links.
LEMMA LinkParts ==
  ASSUME NEW l \in Links, NEW e \in Ends
  PROVE  /\ [l EXCEPT !.server = e] \in Links
         /\ [l EXCEPT !.server = e, !.sent = FALSE] \in Links
         /\ \A a \in {"none", "status", "error"} : [l EXCEPT !.server = e, !.answer = a] \in Links
BY DEF Links

LEMMA SetServerTypes ==
  ASSUME SocketTypeOK, NEW c \in Commands, NEW e \in Ends, SetServer(c, e)
  PROVE  conn' \in [Commands -> Links]
<1>1. [conn[c] EXCEPT !.server = e] \in Links
  BY LinkParts DEF SocketTypeOK
<1>2. QED
  BY <1>1 DEF SocketTypeOK, SetServer

\* Connections that are closed.
LEMMA ClosedTypes ==
  ASSUME SocketTypeOK, NEW those,
         conn' = [c \in Commands |-> IF conn[c].server \in those
                                     THEN [conn[c] EXCEPT !.server = "closed"] ELSE conn[c]]
  PROVE  conn' \in [Commands -> Links]
<1>1. \A c \in Commands : conn[c] \in Links
  BY DEF SocketTypeOK
<1>2. "closed" \in Ends
  BY DEF Ends
<1>3. \A c \in Commands : [conn[c] EXCEPT !.server = "closed"] \in Links
  BY <1>1, <1>2, LinkParts
<1>4. QED
  BY <1>1, <1>3

LEMMA StopClosesTypes ==
  ASSUME SocketTypeOK, StopCloses
  PROVE  SocketTypeOK'
<1>1. conn' = [c \in Commands |-> IF conn[c].server \in {"backlog"}
                                  THEN [conn[c] EXCEPT !.server = "closed"] ELSE conn[c]]
  BY DEF StopCloses
<1>2. conn' \in [Commands -> Links]
  BY <1>1, ClosedTypes
<1>3. QED
  BY <1>2 DEF StopCloses, SocketTypeOK, managed

LEMMA SocketDiesTypes ==
  ASSUME SocketTypeOK, SocketDies, UNCHANGED <<command, carried, reported, seen>>
  PROVE  SocketTypeOK'
<1>1. \A c \in Commands : conn[c] \in Links /\ conn[c].server \in Ends
  BY DEF SocketTypeOK, Links
<1>2. conn' = [c \in Commands |-> IF conn[c].server \in Ends \ {"none"}
                                  THEN [conn[c] EXCEPT !.server = "closed"] ELSE conn[c]]
  BY <1>1 DEF SocketDies
<1>3. conn' \in [Commands -> Links]
  BY <1>2, ClosedTypes
<1>4. QED
  BY <1>3 DEF SocketDies, SocketTypeOK, Places

LEMMA ServesTypes ==
  ASSUME SocketTypeOK, NEW c \in Commands,
         Accept(c) \/ ChecksContext(c) \/ ReadsMessage(c) \/ WritesAnswer(c)
  PROVE  SocketTypeOK'
<1>1. CASE Accept(c)
  BY <1>1, SetServerTypes DEF Accept, SocketTypeOK, Ends, managed
<1>2. CASE ChecksContext(c)
  BY <1>2, SetServerTypes DEF ChecksContext, SocketTypeOK, Ends, managed
<1>3. CASE ReadsMessage(c)
  <2>1. [conn[c] EXCEPT !.server = "handle", !.sent = FALSE] \in Links
    BY LinkParts DEF SocketTypeOK, Ends
  <2>2. CASE conn' = [conn EXCEPT ![c].server = "handle", ![c].sent = FALSE]
    BY <1>3, <2>1, <2>2 DEF ReadsMessage, SocketTypeOK, managed
  <2>3. CASE SetServer(c, "closed")
    BY <1>3, <2>3, SetServerTypes DEF ReadsMessage, SocketTypeOK, Ends, managed
  <2>4. QED
    BY <1>3, <2>2, <2>3 DEF ReadsMessage
<1>4. CASE WritesAnswer(c)
  <2>1. PICK e \in Ends, a \in {"none", "status", "error"} :
          conn' = [conn EXCEPT ![c].server = e, ![c].answer = a]
    BY <1>4 DEF WritesAnswer, Answer, Ends
  <2>2. [conn[c] EXCEPT !.server = e, !.answer = a] \in Links
    BY LinkParts DEF SocketTypeOK
  <2>3. conn' \in [Commands -> Links]
    BY <2>1, <2>2 DEF SocketTypeOK
  <2>4. QED
    BY <1>4, <2>3 DEF WritesAnswer, SocketTypeOK, managed
<1>5. QED
  BY <1>1, <1>2, <1>3, <1>4

\* The server's own steps.
LEMMA ServesKeeps ==
  ASSUME SocketInv, Serves
  PROVE  SocketInv'
<1>. USE DEF SocketInv, SocketTypeOK, Links, Ends, managed
<1>1. ASSUME NEW c \in Commands, Accept(c) \/ ChecksContext(c) \/ ReadsMessage(c) \/ WritesAnswer(c)
      PROVE  SocketInv'
  <2>1. SocketTypeOK'
    BY <1>1, ServesTypes
  <2>2. \A d \in Commands \ {c} : conn'[d] = conn[d]
    BY <1>1 DEF Accept, ChecksContext, ReadsMessage, WritesAnswer, SetServer
  <2>3. UNCHANGED <<command, managed>>
    BY <1>1 DEF Accept, ChecksContext, ReadsMessage, WritesAnswer
  <2>4. OneMessage(c)'
    BY <1>1, <2>3
    DEF Accept, ChecksContext, ReadsMessage, WritesAnswer, SetServer, Answer, OneMessage
  <2>5. InStep(c)'
    BY <1>1, <2>3
    DEF Accept, ChecksContext, ReadsMessage, WritesAnswer, SetServer, Answer, OneMessage,
        InStep, NoLink
  <2>6. QED
    BY <2>1, <2>2, <2>3, <2>4, <2>5, OthersKeep DEF CommandOK
<1>2. CASE StopCloses
  <2>1. SocketTypeOK'
    BY <1>2, StopClosesTypes
  <2>2. ASSUME NEW c \in Commands PROVE CommandOK(c)'
    <3>1. CASE conn[c].server = "backlog"
      BY <1>2, <3>1 DEF StopCloses, CommandOK, OneMessage, InStep, NoLink
    <3>2. CASE conn[c].server # "backlog"
      BY <1>2, <3>2 DEF StopCloses, CommandOK, OneMessage, InStep
    <3>3. QED
      BY <3>1, <3>2
  <2>3. QED
    BY <2>1, <2>2 DEF CommandOK
<1>3. CASE StopEnds
  BY <1>3 DEF StopEnds, OneMessage, InStep
<1>4. QED
  BY <1>1, <1>2, <1>3 DEF Serves

\* Whoever waits for its state counts who has control now, and nobody else does.
LEMMA GivesSeen ==
  ASSUME SocketTypeOK, NEW p \in Places, NEW A \in SUBSET Commands, Gives(p, A)
  PROVE  /\ control' = p /\ seen' \in [Commands -> SUBSET Places]
         /\ \A d \in Commands : seen[d] \subseteq seen'[d]
         /\ \A d \in A : p \in seen'[d]
BY DEF Gives, SocketTypeOK

\* Control is moved for no command.
LEMMA GivesKeeps ==
  ASSUME SocketInv, NEW p \in Places, Gives(p, Asking),
         UNCHANGED <<sock, command, conn, carried, reported>>
  PROVE  SocketInv'
<1>1. Asking \in SUBSET Commands /\ SocketTypeOK
  BY DEF Asking, SocketInv
<1>2. /\ control' = p /\ seen' \in [Commands -> SUBSET Places]
      /\ \A d \in Commands : seen[d] \subseteq seen'[d]
      /\ \A d \in Asking : p \in seen'[d]
  BY <1>1, GivesSeen
<1>3. SocketTypeOK'
  BY <1>2 DEF SocketInv, SocketTypeOK
<1>4. ASSUME NEW d \in Commands PROVE OneMessage(d)' /\ InStep(d)'
  BY <1>2 DEF SocketInv, OneMessage, InStep, Asking
<1>5. QED
  BY <1>3, <1>4 DEF SocketInv

\* It is moved for a command.
LEMMA SwitchKeeps ==
  ASSUME SocketInv, NEW c \in Commands, NEW places \in SUBSET Places, Switch(c, places)
  PROVE  SocketInv'
<1>1. conn' \in [Commands -> Links] /\ \A d \in Commands \ {c} : conn'[d] = conn[d]
  BY SetServerTypes DEF Switch, SetServer, SocketInv, SocketTypeOK, Ends
<1>2. UNCHANGED <<sock, command, reported>>
  BY DEF Switch, managed
<1>3. CASE SetServer(c, "write_error") /\ UNCHANGED managed
  <2>1. SocketTypeOK'
    BY <1>1, <1>2, <1>3 DEF SocketInv, SocketTypeOK, managed
  <2>2. CommandOK(c)'
    <3>1. /\ conn'[c].server = "write_error" /\ conn'[c].sent = conn[c].sent
          /\ conn'[c].answer = conn[c].answer /\ conn[c].server = "handle"
      BY <1>3 DEF Switch, SetServer, SocketInv, SocketTypeOK, Links
    <3>2. OneMessage(c) /\ InStep(c) /\ UNCHANGED <<command, carried, control, reported, seen>>
      BY <1>2, <1>3 DEF SocketInv, managed
    <3>3. OneMessage(c)'
      BY <3>1, <3>2 DEF OneMessage
    <3>4. command[c].pc \notin {"new", "dial", "dial_user"}
      BY <3>1, <3>2 DEF InStep, NoLink
    <3>5. InStep(c)'
      BY <3>1, <3>2, <3>4 DEF InStep
    <3>6. QED
      BY <3>3, <3>5 DEF CommandOK
  <2>3. QED
    BY <1>1, <1>2, <1>3, <2>1, <2>2, OthersKeep DEF managed
<1>4. ASSUME carried' = [carried EXCEPT ![c] = @ + 1], SetServer(c, "query"),
             NEW p \in places, Gives(p, Asking \cup {c})
      PROVE  SocketInv'
  <2>0. Asking \cup {c} \in SUBSET Commands /\ p \in Places /\ SocketTypeOK
    BY DEF Asking, SocketInv
  <2>1. /\ control' = p /\ seen' \in [Commands -> SUBSET Places]
        /\ \A d \in Commands : seen[d] \subseteq seen'[d]
        /\ \A d \in Asking \cup {c} : p \in seen'[d]
    BY <1>4, <2>0, GivesSeen
  <2>2. carried' \in [Commands -> Nat] /\ \A d \in Commands \ {c} : carried'[d] = carried[d]
    BY <1>4 DEF SocketInv, SocketTypeOK
  <2>3. SocketTypeOK'
    BY <1>1, <1>2, <2>0, <2>1, <2>2 DEF SocketInv, SocketTypeOK
  <2>4. CommandOK(c)'
    <3>1. /\ conn[c].server = "handle" /\ conn'[c] = [conn[c] EXCEPT !.server = "query"]
          /\ carried'[c] = carried[c] + 1
      BY <1>4 DEF Switch, SetServer, SocketInv, SocketTypeOK
    <3>2. /\ carried[c] = 0 /\ conn[c].answer = "none" /\ ~conn[c].sent
          /\ InStep(c) /\ conn[c] \in Links
      BY <3>1 DEF SocketInv, SocketTypeOK, OneMessage
    <3>3. /\ conn'[c].server = "query" /\ conn'[c].answer = "none" /\ ~conn'[c].sent
          /\ carried'[c] = 1 /\ control' \in seen'[c]
      BY <2>1, <3>1, <3>2 DEF Links
    <3>4. QED
      BY <1>2, <3>1, <3>2, <3>3 DEF CommandOK, OneMessage, InStep, NoLink
  <2>5. ASSUME NEW d \in Commands \ {c} PROVE CommandOK(d)'
    BY <1>1, <1>2, <2>1, <2>2, <2>5 DEF SocketInv, CommandOK, OneMessage, InStep, Asking
  <2>6. QED
    BY <2>3, <2>4, <2>5 DEF SocketInv, CommandOK
<1>5. QED
  BY <1>3, <1>4 DEF Switch

LEMMA QueryKeeps ==
  ASSUME SocketInv, NEW c \in Commands, Query(c)
  PROVE  SocketInv'
<1>1. conn' \in [Commands -> Links]
  BY SetServerTypes DEF Query, SetServer, SocketInv, Ends
<1>2. SocketTypeOK'
  BY <1>1 DEF Query, SocketInv, SocketTypeOK
<1>3. CommandOK(c)'
  BY DEF Query, SetServer, SocketInv, SocketTypeOK, Links, CommandOK, OneMessage, InStep, NoLink
<1>4. \A d \in Commands \ {c} : conn'[d] = conn[d] /\ reported'[d] = reported[d]
  BY DEF Query, SetServer, SocketInv, SocketTypeOK
<1>5. QED
  BY <1>2, <1>3, <1>4, OthersKeep DEF Query

LEMMA SocketStartsKeeps ==
  SocketInv /\ SocketStarts /\ UNCHANGED <<command, conn, managed>> => SocketInv'
BY DEF SocketStarts, SocketInv, SocketTypeOK, OneMessage, InStep, managed

LEMMA StopCancelsKeeps == SocketInv /\ StopCancels => SocketInv'
BY DEF StopCancels, SocketInv, SocketTypeOK, OneMessage, InStep, managed

LEMMA SocketDiesKeeps ==
  ASSUME SocketInv, SocketDies, UNCHANGED <<command, carried, reported, seen>>
  PROVE  SocketInv'
<1>1. SocketTypeOK'
  BY SocketDiesTypes DEF SocketInv
<1>2. ASSUME NEW c \in Commands PROVE CommandOK(c)'
  <2>1. CASE conn[c].server = "none"
    BY <2>1 DEF SocketDies, SocketInv, CommandOK, OneMessage, InStep
  <2>2. CASE conn[c].server # "none"
    <3>1. /\ conn \in [Commands -> Links] /\ OneMessage(c) /\ InStep(c)
          /\ conn' = [d \in Commands |-> IF conn[d].server = "none" THEN conn[d]
                                       ELSE [conn[d] EXCEPT !.server = "closed"]]
      BY DEF SocketInv, SocketTypeOK, SocketDies
    <3>2. /\ conn'[c].server = "closed" /\ conn'[c].sent = conn[c].sent
          /\ conn'[c].answer = conn[c].answer
      BY <2>2, <3>1 DEF Links
    <3>3. OneMessage(c)'
      BY <3>1, <3>2 DEF OneMessage
    <3>4. command[c].pc \notin {"new", "dial", "dial_user"}
      BY <2>2, <3>1 DEF InStep, NoLink
    <3>5. InStep(c)'
      BY <2>2, <3>1, <3>2, <3>4 DEF InStep
    <3>6. QED
      BY <3>3, <3>5 DEF CommandOK
  <2>3. QED
    BY <2>1, <2>2
<1>3. QED
  BY <1>1, <1>2 DEF SocketInv, CommandOK

LEMMA SocketFrame == SocketInv /\ UNCHANGED socketVars => SocketInv'
BY DEF socketVars, managed, SocketInv, SocketTypeOK, OneMessage, InStep

LEMMA SocketInvReports == SocketInv => ReportsAreTrue
BY DEF SocketInv, SocketTypeOK, OneMessage, InStep, ReportsAreTrue

-----------------------------------------------------------------------------
(* The life of the server.                                                 *)

Mains == {"exited", "starting", "waiting", "stopping", "joining", "lingering"}
Inits == {"none", "delay", "input", "manager", "network", "backend", "emergency", "callbacks",
          "connect", "networking", "ipc", "done", "failed"}
Phases == {"no", "emergency", "notify", "notifying", "ssh", "backend", "wait", "done"}

ProcType == [tui : BOOLEAN, main : Mains, init : Inits, cancelled : BOOLEAN, signal : BOOLEAN]
PartsType ==
  [backend : {"none", "made", "capturing", "stopped"}, manager : BOOLEAN,
   emergency : {"none", "on", "off"}, callbacks : BOOLEAN, linked : BOOLEAN,
   attached : BOOLEAN]
SshType ==
  [start : {"none", "new", "begun", "server", "listening", "returned", "failed"},
   listen : {"no", "starting", "serving", "ended"}]
StopType == [phase : Phases, early : BOOLEAN]
NoticeType ==
  [todo : SUBSET Clients, told : SUBSET Clients, owed : SUBSET Clients, left : SUBSET Clients]
SockType ==
  [phase : {"off", "on", "cancelled", "closing", "stopped"}, path : {"nothing", "socket", "stale"}]

LifeTypeOK ==
  /\ proc \in ProcType
  /\ parts \in PartsType
  /\ ssh \in SshType
  /\ stop \in StopType
  /\ notice \in NoticeType
  /\ session \in [Clients -> {"out", "admitted", "served", "closed", "ending"}]
  /\ registered \subseteq Clients
  /\ sock \in SockType

\* A process that has ended has nothing.
NothingLeft ==
  ~Alive => /\ proc.init = "none" /\ parts = NoParts /\ ssh = NoSsh /\ ui = "off"
            /\ stop.phase = "no" /\ sshStop = "no" /\ sock.phase = "off"

\* What the start-up has passed is there.
StartOrder ==
  /\ proc.init \in {"network", "backend", "emergency", "callbacks", "connect", "networking",
                    "ipc", "done"} => parts.manager
  /\ proc.init \in {"emergency", "callbacks", "connect", "networking", "ipc", "done"} =>
       parts.backend \in {"capturing", "stopped"}
  /\ proc.init \in {"callbacks", "connect", "networking", "ipc", "done"} =>
       parts.emergency \in {"on", "off"}
  /\ proc.init \in {"connect", "networking", "ipc", "done"} => parts.callbacks
  /\ proc.init \in {"networking", "ipc", "done"} => parts.linked
  /\ parts.callbacks => parts.manager
  /\ parts.linked => parts.callbacks
  /\ sock.phase # "off" => parts.linked

\* SSHServer.Start comes after the link to the manager, and the listener's goroutine
\* after the wait group has been told of it.
SshOrder ==
  /\ ssh.start \notin {"none", "new"} => parts.linked /\ proc.init \in {"ipc", "done"}
  /\ ssh.listen # "no" => ssh.start \in {"listening", "returned"}

\* Sessions come after the link to the manager; a live one is in the table.
SessionOrder ==
  /\ \A c \in Clients : session[c] # "out" => parts.linked
  /\ \A c \in registered : session[c] # "out"
  /\ \A c \in Clients :
       session[c] \in {"admitted", "served"} => c \in table \/ sshStop \in {"wait", "done"}

\* What the stop has passed is gone, unless the start-up was still going on.
Early == stop.phase # "no" /\ stop.early
StopOrder ==
  /\ stop.phase # "no" /\ ~stop.early =>
       proc.init = "done" /\ ssh.start \in {"listening", "returned", "failed"}
  /\ stop.phase \in {"notify", "notifying", "ssh", "backend", "wait", "done"} /\ ~stop.early =>
       parts.emergency = "off"
  /\ stop.phase \in {"backend", "wait", "done"} /\ ~stop.early => sshStop = "done"
  /\ stop.phase \in {"wait", "done"} /\ ~stop.early => parts.backend = "stopped"
  /\ sshStop # "no" => ssh.start \in {"listening", "returned", "failed"} \/ Early
  /\ sshStop = "done" => ssh.listen \notin {"starting", "serving"} \/ Early

\* Whom NotifyShutdown owes a notice it has told, or it will find, or the client has left.
NoticeOrder ==
  /\ sshStop # "no" => proc.cancelled \/ stop.phase \in {"ssh", "backend", "wait", "done"}
  /\ stop.phase = "notifying" /\ ~proc.cancelled =>
       \A c \in notice.owed : c \in notice.told \cup notice.left
                              \/ (c \in notice.todo /\ session[c] = "served")
  /\ stop.phase \in {"ssh", "backend", "wait", "done"} /\ ~proc.cancelled =>
       notice.owed \subseteq notice.told \cup notice.left

LifeInv ==
  /\ LifeTypeOK /\ NothingLeft /\ StartOrder /\ SshOrder /\ SessionOrder /\ StopOrder
  /\ NoticeOrder

-----------------------------------------------------------------------------
(* Types, where a step needs more than its definition.                      *)

LEMMA DiesTypes == ASSUME LifeTypeOK, Dies PROVE LifeTypeOK'
<1>1. proc' \in ProcType
  BY DEF Dies, LifeTypeOK, ProcType, Mains, Inits
<1>2. /\ NoParts \in PartsType /\ NoSsh \in SshType /\ NoStop \in StopType
      /\ NoNotice \in NoticeType
  BY DEF NoParts, PartsType, NoSsh, SshType, NoStop, StopType, Phases, NoNotice, NoticeType
<1>3. session' \in [Clients -> {"out", "admitted", "served", "closed", "ending"}]
  BY DEF Dies
<1>4. sock' \in SockType
  BY DEF Dies, SocketDies, LifeTypeOK, SockType
<1>5. QED
  BY <1>1, <1>2, <1>3, <1>4 DEF Dies, LifeTypeOK, ProcType, PartsType, SshType, StopType,
                                NoticeType, SockType

LEMMA StartIpcTypes == ASSUME LifeTypeOK, StartIpc PROVE LifeTypeOK'
<1>1. proc' \in ProcType
  <2>1. CASE proc.tui
    BY <2>1 DEF StartIpc, LifeTypeOK, ProcType, Mains, Inits
  <2>2. CASE ~proc.tui
    BY <2>2 DEF StartIpc, LifeTypeOK, ProcType, Mains, Inits
  <2>3. QED
    BY <2>1, <2>2
<1>2. parts' \in PartsType
  BY DEF StartIpc, LifeTypeOK, PartsType
<1>3. sock' \in SockType
  BY DEF StartIpc, SocketStarts, LifeTypeOK, SockType
<1>4. QED
  BY <1>1, <1>2, <1>3 DEF StartIpc, LifeTypeOK, ProcType, PartsType, SockType

LEMMA StopBeginsType == ASSUME LifeTypeOK, StopBegins PROVE stop' \in StopType
<1>1. CASE stop.phase = "no"
  <2>1. CASE Started
    <3>1. stop' = [phase |-> "emergency", early |-> FALSE]
      BY <1>1, <2>1 DEF StopBegins
    <3>2. QED
      BY <3>1 DEF StopType, Phases
  <2>2. CASE ~Started
    <3>1. stop' = [phase |-> "emergency", early |-> TRUE]
      BY <1>1, <2>2 DEF StopBegins
    <3>2. QED
      BY <3>1 DEF StopType, Phases
  <2>3. QED
    BY <2>1, <2>2
<1>2. CASE stop.phase # "no"
  BY <1>2 DEF StopBegins, LifeTypeOK, StopType
<1>3. QED
  BY <1>1, <1>2

\* What a stop finds when it begins.
LEMMA BeginsOrder ==
  ASSUME StopOrder, stop.phase = "no", UNCHANGED <<ssh, parts, sshStop>>,
         proc'.init = proc.init, stop' = [phase |-> "emergency", early |-> ~Started]
  PROVE  StopOrder'
<1>1. stop'.phase = "emergency" /\ (stop'.early <=> ~Started)
  OBVIOUS
<1>2. ~stop'.early => proc'.init = "done" /\ ssh'.start \in {"listening", "returned", "failed"}
  BY <1>1 DEF Started
<1>3. ~Early
  BY DEF Early
<1>4. QED
  BY <1>1, <1>2, <1>3 DEF StopOrder

LEMMA NotifyBeginsTypes == ASSUME LifeTypeOK, NotifyBegins PROVE LifeTypeOK'
<1>1. stop' \in StopType
  BY DEF NotifyBegins, Stops, LifeTypeOK, StopType, Phases
<1>2. notice' \in NoticeType
  BY DEF NotifyBegins, LifeTypeOK, NoticeType
<1>3. UNCHANGED <<proc, parts, ssh, session, registered, sock>>
  BY DEF NotifyBegins, StopRest, socketVars
<1>4. QED
  BY <1>1, <1>2, <1>3 DEF LifeTypeOK, StopType, NoticeType

LEMMA OnShutdownTypes == ASSUME LifeTypeOK, OnShutdown PROVE LifeTypeOK'
<1>1. stop' \in StopType
  BY StopBeginsType DEF OnShutdown, LifeTypeOK, StopType
<1>3. QED
  BY <1>1 DEF OnShutdown, MainRest, socketVars, LifeTypeOK, StopType

LEMMA MainStopsTypes == ASSUME LifeTypeOK, MainStops PROVE LifeTypeOK'
<1>1. stop' \in StopType
  BY StopBeginsType DEF MainStops, LifeTypeOK, StopType
<1>2. proc' \in ProcType
  BY DEF MainStops, LifeTypeOK, ProcType, Mains, Inits
<1>3. QED
  BY <1>1, <1>2 DEF MainStops, MainRest, socketVars, LifeTypeOK, StopType, ProcType

LEMMA NotifyOneTypes == ASSUME LifeTypeOK, NEW c \in Clients, NotifyOne(c) PROVE LifeTypeOK'
<1>2. notice' \in NoticeType
  <2>1. CASE Told(c)
    BY <2>1 DEF NotifyOne, LifeTypeOK, NoticeType
  <2>2. CASE ~Told(c)
    BY <2>2 DEF NotifyOne, LifeTypeOK, NoticeType
  <2>3. QED
    BY <2>1, <2>2
<1>3. QED
  BY <1>2 DEF NotifyOne, StopRest, socketVars, LifeTypeOK, NoticeType

LEMMA StartupFailsTypes == ASSUME LifeTypeOK, StartupFails PROVE LifeTypeOK'
<1>1. proc' \in ProcType
  <2>1. CASE proc.tui
    BY <2>1 DEF StartupFails, LifeTypeOK, ProcType, Mains, Inits
  <2>2. CASE ~proc.tui
    BY <2>2 DEF StartupFails, LifeTypeOK, ProcType, Mains, Inits
  <2>3. QED
    BY <2>1, <2>2
<1>2. QED
  BY <1>1 DEF StartupFails, StartRest, socketVars, LifeTypeOK, ProcType

LEMMA MainCancelsTypes == ASSUME LifeTypeOK, MainCancels PROVE LifeTypeOK'
<1>1. proc' \in ProcType
  BY DEF MainCancels, LifeTypeOK, ProcType, Mains, Inits
<1>2. QED
  BY <1>1 DEF MainCancels, MainRest, socketVars, LifeTypeOK, ProcType

-----------------------------------------------------------------------------
(* Each step keeps the invariant.                                           *)

\* The start-up, one part after the other.
LEMMA StartupKeeps == LifeInv /\ Startup => LifeInv'
<1>. SUFFICES ASSUME LifeInv, Startup PROVE LifeInv'
  OBVIOUS
<1>. USE DEF LifeTypeOK, ProcType, PartsType, SshType, StopType, NoticeType, SockType, Mains, Inits,
        Phases, NothingLeft, StartOrder, SshOrder, SessionOrder, StopOrder, Early, NoticeOrder,
        LifeInv, Alive, NoParts, NoSsh
<1>1. CASE Delay
  BY <1>1 DEF Delay, Starts, StartsSsh, Passes, StartRest, socketVars
<1>2. CASE InitInput
  BY <1>2 DEF InitInput, Starts, StartsSsh, Passes, StartRest, socketVars
<1>3. CASE InitClientManager
  <2>1. LifeTypeOK'
    BY <1>3, ZenonT(40) DEF InitClientManager, Starts, StartsSsh, Passes, StartRest, socketVars
  <2>2. NothingLeft'
    BY <1>3 DEF InitClientManager, Starts, StartsSsh, Passes, StartRest, socketVars
  <2>3. StartOrder'
    BY <1>3 DEF InitClientManager, Starts, StartsSsh, Passes, StartRest, socketVars
  <2>4. SessionOrder'
    BY <1>3 DEF InitClientManager, Starts, StartsSsh, Passes, StartRest, socketVars
  <2>5. SshOrder'
    BY <1>3 DEF InitClientManager, Starts, StartsSsh, Passes, StartRest, socketVars
  <2>6. StopOrder'
    BY <1>3 DEF InitClientManager, Starts, StartsSsh, Passes, StartRest, socketVars
  <2>7. NoticeOrder'
    BY <1>3 DEF InitClientManager, Starts, StartsSsh, Passes, StartRest, socketVars
  <2>8. QED
    BY <2>1, <2>2, <2>3, <2>4, <2>5, <2>6, <2>7
<1>4. CASE InitNetwork
  BY <1>4 DEF InitNetwork, Starts, StartsSsh, Passes, StartRest, socketVars
<1>5. CASE StartBackend
  BY <1>5 DEF StartBackend, Starts, StartsSsh, Passes, StartRest, socketVars
<1>6. CASE StartEmergency
  BY <1>6 DEF StartEmergency, Starts, StartsSsh, Passes, StartRest, socketVars
<1>7. CASE SetCallbacks
  <2>1. LifeTypeOK'
    BY <1>7, ZenonT(40) DEF SetCallbacks, Starts, StartsSsh, Passes, StartRest, socketVars
  <2>2. NothingLeft'
    BY <1>7 DEF SetCallbacks, Starts, StartsSsh, Passes, StartRest, socketVars
  <2>3. StartOrder'
    BY <1>7 DEF SetCallbacks, Starts, StartsSsh, Passes, StartRest, socketVars
  <2>4. SessionOrder'
    BY <1>7 DEF SetCallbacks, Starts, StartsSsh, Passes, StartRest, socketVars
  <2>5. SshOrder'
    BY <1>7 DEF SetCallbacks, Starts, StartsSsh, Passes, StartRest, socketVars
  <2>6. StopOrder'
    BY <1>7 DEF SetCallbacks, Starts, StartsSsh, Passes, StartRest, socketVars
  <2>7. NoticeOrder'
    BY <1>7 DEF SetCallbacks, Starts, StartsSsh, Passes, StartRest, socketVars
  <2>8. QED
    BY <2>1, <2>2, <2>3, <2>4, <2>5, <2>6, <2>7
<1>8. CASE ConnectParts
  <2>1. LifeTypeOK'
    BY <1>8, ZenonT(40) DEF ConnectParts, Starts, StartsSsh, Passes, StartRest, socketVars
  <2>2. NothingLeft'
    BY <1>8 DEF ConnectParts, Starts, StartsSsh, Passes, StartRest, socketVars
  <2>3. StartOrder'
    BY <1>8 DEF ConnectParts, Starts, StartsSsh, Passes, StartRest, socketVars
  <2>4. SessionOrder'
    BY <1>8 DEF ConnectParts, Starts, StartsSsh, Passes, StartRest, socketVars
  <2>5. SshOrder'
    BY <1>8 DEF ConnectParts, Starts, StartsSsh, Passes, StartRest, socketVars
  <2>6. StopOrder'
    BY <1>8 DEF ConnectParts, Starts, StartsSsh, Passes, StartRest, socketVars
  <2>7. NoticeOrder'
    BY <1>8 DEF ConnectParts, Starts, StartsSsh, Passes, StartRest, socketVars
  <2>8. QED
    BY <2>1, <2>2, <2>3, <2>4, <2>5, <2>6, <2>7
<1>9. CASE StartNetworking
  BY <1>9 DEF StartNetworking, Starts, StartsSsh, Passes, StartRest, socketVars
<1>10. CASE StartIpc
  <2>1. LifeTypeOK'
    BY <1>10, StartIpcTypes
  <2>2. NothingLeft'
    BY <1>10 DEF StartIpc, Starts, StartsSsh, Passes, StartRest, socketVars, SocketStarts
  <2>3. StartOrder'
    BY <1>10 DEF StartIpc, Starts, StartsSsh, Passes, StartRest, socketVars, SocketStarts
  <2>4. SessionOrder'
    BY <1>10 DEF StartIpc, Starts, StartsSsh, Passes, StartRest, socketVars, SocketStarts
  <2>5. SshOrder'
    BY <1>10 DEF StartIpc, Starts, StartsSsh, Passes, StartRest, socketVars, SocketStarts
  <2>6. StopOrder'
    BY <1>10 DEF StartIpc, Starts, StartsSsh, Passes, StartRest, socketVars, SocketStarts
  <2>7. NoticeOrder'
    BY <1>10 DEF StartIpc, Starts, StartsSsh, Passes, StartRest, socketVars, SocketStarts
  <2>8. QED
    BY <2>1, <2>2, <2>3, <2>4, <2>5, <2>6, <2>7
<1>11. CASE StartupFails
  <2>1. LifeTypeOK'
    BY <1>11, StartupFailsTypes
  <2>2. NothingLeft'
    BY <1>11 DEF StartupFails, Starts, StartsSsh, Passes, StartRest, socketVars
  <2>3. StartOrder'
    BY <1>11 DEF StartupFails, Starts, StartsSsh, Passes, StartRest, socketVars
  <2>4. SessionOrder'
    BY <1>11 DEF StartupFails, Starts, StartsSsh, Passes, StartRest, socketVars
  <2>5. SshOrder'
    BY <1>11 DEF StartupFails, Starts, StartsSsh, Passes, StartRest, socketVars
  <2>6. StopOrder'
    BY <1>11 DEF StartupFails, Starts, StartsSsh, Passes, StartRest, socketVars
  <2>7. NoticeOrder'
    BY <1>11 DEF StartupFails, Starts, StartsSsh, Passes, StartRest, socketVars
  <2>8. QED
    BY <2>1, <2>2, <2>3, <2>4, <2>5, <2>6, <2>7
<1>12. QED
  BY <1>1, <1>2, <1>3, <1>4, <1>5, <1>6, <1>7, <1>8, <1>9, <1>10, <1>11 DEF Startup

\* The end of the process.
LEMMA DiesKeeps == LifeInv /\ Dies => LifeInv'
<1>. SUFFICES ASSUME LifeInv, Dies PROVE LifeInv'
  OBVIOUS
<1>. USE DEF LifeTypeOK, ProcType, PartsType, SshType, StopType, NoticeType, SockType, Mains, Inits,
        Phases, NothingLeft, StartOrder, SshOrder, SessionOrder, StopOrder, Early, NoticeOrder,
        LifeInv, Alive, NoParts, NoSsh
<1>1. CASE Dies
  <2>1. LifeTypeOK'
    BY <1>1, DiesTypes
  <2>2. NothingLeft'
    BY <1>1 DEF Dies, SocketDies, NoStop, NoNotice
  <2>3. StartOrder'
    BY <1>1 DEF Dies, SocketDies, NoStop, NoNotice
  <2>4. SessionOrder'
    BY <1>1 DEF Dies, SocketDies, NoStop, NoNotice
  <2>5. SshOrder'
    BY <1>1 DEF Dies, SocketDies, NoStop, NoNotice
  <2>6. StopOrder'
    BY <1>1 DEF Dies, SocketDies, NoStop, NoNotice
  <2>7. NoticeOrder'
    BY <1>1 DEF Dies, SocketDies, NoStop, NoNotice
  <2>8. QED
    BY <2>1, <2>2, <2>3, <2>4, <2>5, <2>6, <2>7
<1>2. QED
  BY <1>1

\* The sessions of one client.
LEMMA SessionKeeps ==
  ASSUME LifeInv, NEW c \in Clients, Session(c)
  PROVE  LifeInv'
<1>. USE DEF LifeTypeOK, ProcType, PartsType, SshType, StopType, NoticeType, SockType, Mains, Inits,
        Phases, NothingLeft, StartOrder, SshOrder, SessionOrder, StopOrder, Early, NoticeOrder,
        LifeInv, Alive, NoParts, NoSsh
<1>1. CASE Connects(c)
  BY <1>1 DEF Connects, SessionStep
<1>2. CASE OnClientConnected(c)
  BY <1>2 DEF OnClientConnected, SessionStep
<1>3. CASE SessionCloses(c)
  BY <1>3 DEF SessionCloses, SessionStep
<1>4. CASE Leaves(c)
  <2>1. LifeTypeOK'
    BY <1>4 DEF Leaves, SessionStep, ManagerFree
  <2>2. NothingLeft'
    BY <1>4 DEF Leaves, SessionStep, ManagerFree
  <2>3. StartOrder'
    BY <1>4 DEF Leaves, SessionStep, ManagerFree
  <2>4. SessionOrder'
    BY <1>4 DEF Leaves, SessionStep, ManagerFree
  <2>5. SshOrder'
    BY <1>4 DEF Leaves, SessionStep, ManagerFree
  <2>6. StopOrder'
    BY <1>4 DEF Leaves, SessionStep, ManagerFree
  <2>7. NoticeOrder'
    BY <1>4 DEF Leaves, SessionStep, ManagerFree
  <2>8. QED
    BY <2>1, <2>2, <2>3, <2>4, <2>5, <2>6, <2>7
<1>5. CASE LeavesTable(c)
  BY <1>5 DEF LeavesTable, SessionStep, ManagerFree
<1>6. CASE OnClientDisconnected(c)
  BY <1>6 DEF OnClientDisconnected, SessionStep, ManagerFree
<1>7. CASE Stalls(c)
  BY <1>7 DEF Stalls, SessionStep, ManagerFree
<1>8. CASE Recovers(c)
  BY <1>8 DEF Recovers, SessionStep, ManagerFree
<1>9. CASE NilContext(c)
  BY <1>9, DiesKeeps DEF NilContext
<1>10. QED
  BY <1>1, <1>2, <1>3, <1>4, <1>5, <1>6, <1>7, <1>8, <1>9 DEF Session, SessionEnds

\* SSHServer.Start and the listener's goroutine.
LEMMA SshStartsKeeps == LifeInv /\ SshStarts => LifeInv'
<1>. SUFFICES ASSUME LifeInv, SshStarts PROVE LifeInv'
  OBVIOUS
<1>. USE DEF LifeTypeOK, ProcType, PartsType, SshType, StopType, NoticeType, SockType, Mains, Inits,
             Phases, NothingLeft, StartOrder, SshOrder, SessionOrder, StopOrder, Early, NoticeOrder,
             LifeInv, Alive, NoParts, NoSsh
<1>0. UNCHANGED <<proc, parts, sock, ui, stop, sshStop, session, table, registered, notice>>
  BY DEF SshStarts, SshRest, StartRest, socketVars
<1>1. CASE NewServer
  BY <1>0, <1>1 DEF NewServer
<1>2. CASE Listens
  BY <1>0, <1>2 DEF Listens
<1>3. CASE StoresContext
  BY <1>0, <1>3 DEF StoresContext
<1>4. CASE ListenAndServe
  BY <1>0, <1>4 DEF ListenAndServe
<1>5. QED
  BY <1>1, <1>2, <1>3, <1>4 DEF SshStarts

\* The manager's other operations only move control.
LEMMA ManagerKeeps == LifeInv /\ SocketInv /\ Others => LifeInv' /\ SocketInv'
<1>. SUFFICES ASSUME LifeInv, SocketInv, Others PROVE LifeInv' /\ SocketInv'
  OBVIOUS
<1>1. UNCHANGED OthersRest
  BY DEF Others, Operates, WaitsForClient, LetsGo, Hangs, MovesControl
<1>2. LifeInv'
  BY <1>1 DEF OthersRest, LifeTypeOK, ProcType, PartsType, SshType, StopType, NoticeType, SockType, Mains, Inits,
            Phases, NothingLeft, StartOrder, SshOrder, SessionOrder, StopOrder, Early, NoticeOrder,
            LifeInv, Alive, NoParts, NoSsh
<1>3. CASE MovesControl
  <2>1. PICK p \in {"local"} \cup registered : Gives(p, Asking)
    BY <1>3 DEF MovesControl
  <2>2. p \in Places
    BY DEF LifeInv, LifeTypeOK, Places
  <2>3. SocketInv'
    BY <1>1, <2>1, <2>2, GivesKeeps DEF OthersRest
  <2>4. QED
    BY <1>2, <2>3
<1>4. CASE KeepsControl
  BY <1>1, <1>2, <1>4, SocketFrame DEF KeepsControl, OthersRest, socketVars, managed
<1>5. QED
  BY <1>3, <1>4 DEF Others, Operates, WaitsForClient, LetsGo, Hangs

\* Server.Stop and SSHServer.Stop.
LEMMA StoppingKeeps == LifeInv /\ Stopping => LifeInv'
<1>. SUFFICES ASSUME LifeInv, Stopping PROVE LifeInv'
  OBVIOUS
<1>. USE DEF LifeTypeOK, ProcType, PartsType, SshType, StopType, NoticeType, SockType, Mains, Inits,
        Phases, NothingLeft, StartOrder, SshOrder, SessionOrder, StopOrder, Early, NoticeOrder,
        LifeInv, Alive, NoParts, NoSsh
<1>1. CASE StopEmergency
  BY <1>1 DEF StopEmergency, Stops, StopRest, socketVars
<1>2. CASE NotifyBegins
  <2>1. LifeTypeOK'
    BY <1>2, NotifyBeginsTypes
  <2>2. NothingLeft'
    BY <1>2 DEF NotifyBegins, Stops, StopRest, socketVars
  <2>3. StartOrder'
    BY <1>2 DEF NotifyBegins, Stops, StopRest, socketVars
  <2>4. SessionOrder'
    BY <1>2 DEF NotifyBegins, Stops, StopRest, socketVars
  <2>5. SshOrder'
    BY <1>2 DEF NotifyBegins, Stops, StopRest, socketVars
  <2>6. StopOrder'
    BY <1>2 DEF NotifyBegins, Stops, StopRest, socketVars
  <2>7. NoticeOrder'
    BY <1>2 DEF NotifyBegins, Stops, StopRest, socketVars
  <2>8. QED
    BY <2>1, <2>2, <2>3, <2>4, <2>5, <2>6, <2>7
<1>3. ASSUME NEW c \in Clients, NotifyOne(c) PROVE LifeInv'
  <2>1. LifeTypeOK'
    BY <1>3, NotifyOneTypes
  <2>2. NothingLeft'
    BY <1>3 DEF NotifyOne, Stops, StopRest, socketVars, Told
  <2>3. StartOrder'
    BY <1>3 DEF NotifyOne, Stops, StopRest, socketVars, Told
  <2>4. SessionOrder'
    BY <1>3 DEF NotifyOne, Stops, StopRest, socketVars, Told
  <2>5. SshOrder'
    BY <1>3 DEF NotifyOne, Stops, StopRest, socketVars, Told
  <2>6. StopOrder'
    BY <1>3 DEF NotifyOne, Stops, StopRest, socketVars, Told
  <2>7. NoticeOrder'
    BY <1>3 DEF NotifyOne, Stops, StopRest, socketVars, Told
  <2>8. QED
    BY <2>1, <2>2, <2>3, <2>4, <2>5, <2>6, <2>7
<1>4. CASE NotifyEnds
  BY <1>4 DEF NotifyEnds, Stops, StopRest, socketVars
<1>5. CASE SshStopBegins
  BY <1>5 DEF SshStopBegins, Stops, StopRest, socketVars
<1>6. CASE ClosesSessions \/ SshStopEnds
  BY <1>6 DEF ClosesSessions, SshStopEnds, Stops, StopRest, socketVars
<1>7. CASE StopSsh
  BY <1>7 DEF StopSsh, Stops, StopRest, socketVars
<1>8. CASE StopBackend
  BY <1>8 DEF StopBackend, Stops, StopRest, socketVars
<1>9. CASE StopJoins
  BY <1>9 DEF StopJoins, Stops, StopRest, socketVars
<1>10. QED
  BY <1>1, <1>2, <1>3, <1>4, <1>5, <1>6, <1>7, <1>8, <1>9 DEF Stopping

\* main.
LEMMA MainKeeps == LifeInv /\ (MainCancels \/ MainStops \/ MainJoins) => LifeInv'
<1>. SUFFICES ASSUME LifeInv, (MainCancels \/ MainStops \/ MainJoins) PROVE LifeInv'
  OBVIOUS
<1>. USE DEF LifeTypeOK, ProcType, PartsType, SshType, StopType, NoticeType, SockType, Mains, Inits,
        Phases, NothingLeft, StartOrder, SshOrder, SessionOrder, StopOrder, Early, NoticeOrder,
        LifeInv, Alive, NoParts, NoSsh
<1>1. CASE MainCancels
  <2>1. LifeTypeOK'
    BY <1>1, MainCancelsTypes
  <2>2. NothingLeft'
    BY <1>1 DEF MainCancels, MainRest, socketVars
  <2>3. StartOrder'
    BY <1>1 DEF MainCancels, MainRest, socketVars
  <2>4. SessionOrder'
    BY <1>1 DEF MainCancels, MainRest, socketVars
  <2>5. SshOrder'
    BY <1>1 DEF MainCancels, MainRest, socketVars
  <2>6. StopOrder'
    BY <1>1 DEF MainCancels, MainRest, socketVars
  <2>7. NoticeOrder'
    BY <1>1 DEF MainCancels, MainRest, socketVars
  <2>8. QED
    BY <2>1, <2>2, <2>3, <2>4, <2>5, <2>6, <2>7
<1>2. CASE MainStops
  <2>1. LifeTypeOK'
    BY <1>2, MainStopsTypes
  <2>2. NothingLeft'
    BY <1>2 DEF MainStops, MainRest, socketVars, StopBegins
  <2>3. StartOrder'
    BY <1>2 DEF MainStops, MainRest, socketVars, StopBegins
  <2>4. SessionOrder'
    BY <1>2 DEF MainStops, MainRest, socketVars, StopBegins
  <2>5. SshOrder'
    BY <1>2 DEF MainStops, MainRest, socketVars, StopBegins
  <2>6. StopOrder'
    <3>1. CASE UNCHANGED stop
      BY <1>2, <3>1 DEF MainStops, MainRest
    <3>2. CASE stop.phase = "no" /\ stop' = [phase |-> "emergency", early |-> ~Started]
      BY <1>2, <3>2, BeginsOrder DEF MainStops, MainRest
    <3>3. QED
      BY <1>2, <3>1, <3>2 DEF MainStops, StopBegins
  <2>7. NoticeOrder'
    BY <1>2 DEF MainStops, MainRest, socketVars, StopBegins
  <2>8. QED
    BY <2>1, <2>2, <2>3, <2>4, <2>5, <2>6, <2>7
<1>3. CASE MainJoins
  BY <1>3 DEF MainJoins, MainRest, socketVars
<1>4. QED
  BY <1>1, <1>2, <1>3

\* The interface.
LEMMA UiKeeps == LifeInv /\ (PressQuit \/ Ui) => LifeInv'
<1>. SUFFICES ASSUME LifeInv, (PressQuit \/ Ui) PROVE LifeInv'
  OBVIOUS
<1>. USE DEF LifeTypeOK, ProcType, PartsType, SshType, StopType, NoticeType, SockType, Mains, Inits,
        Phases, NothingLeft, StartOrder, SshOrder, SessionOrder, StopOrder, Early, NoticeOrder,
        LifeInv, Alive, NoParts, NoSsh
<1>1. CASE PressQuit
  BY <1>1 DEF PressQuit, UiHears, MainRest, socketVars
<1>2. CASE UiEnds
  BY <1>2 DEF UiEnds, UiHears, MainRest, socketVars
<1>3. CASE OnShutdown
  <2>1. LifeTypeOK'
    BY <1>3, OnShutdownTypes
  <2>2. NothingLeft'
    BY <1>3 DEF OnShutdown, MainRest, socketVars, StopBegins
  <2>3. StartOrder'
    BY <1>3 DEF OnShutdown, MainRest, socketVars, StopBegins
  <2>4. SessionOrder'
    BY <1>3 DEF OnShutdown, MainRest, socketVars, StopBegins
  <2>5. SshOrder'
    BY <1>3 DEF OnShutdown, MainRest, socketVars, StopBegins
  <2>6. StopOrder'
    <3>1. CASE UNCHANGED stop
      BY <1>3, <3>1 DEF OnShutdown, MainRest
    <3>2. CASE stop.phase = "no" /\ stop' = [phase |-> "emergency", early |-> ~Started]
      BY <1>3, <3>2, BeginsOrder DEF OnShutdown, MainRest
    <3>3. QED
      BY <1>3, <3>1, <3>2 DEF OnShutdown, StopBegins
  <2>7. NoticeOrder'
    BY <1>3 DEF OnShutdown, MainRest, socketVars, StopBegins
  <2>8. QED
    BY <2>1, <2>2, <2>3, <2>4, <2>5, <2>6, <2>7
<1>4. CASE RunnerDone
  BY <1>4 DEF RunnerDone, MainRest, socketVars
<1>5. QED
  BY <1>1, <1>2, <1>3, <1>4 DEF Ui

LEMMA LaunchKeeps == LifeInv /\ Launch => LifeInv'
BY DEF Launch, socketVars, LifeTypeOK, ProcType, PartsType, SshType, StopType, NoticeType, SockType, Mains, Inits,
       Phases, NothingLeft, StartOrder, SshOrder, SessionOrder, StopOrder, Early, NoticeOrder,
       LifeInv, Alive, NoParts, NoSsh

\* The socket is the rest.
LEMMA SocketKeeps == LifeInv /\ SocketInv /\ (Socket \/ Switching) => LifeInv' /\ SocketInv'
<1>. SUFFICES ASSUME LifeInv, SocketInv, Socket \/ Switching PROVE LifeInv' /\ SocketInv'
  OBVIOUS
<1>1. SocketInv'
  <2>1. {"local"} \cup registered \subseteq Places
    BY DEF LifeInv, LifeTypeOK, Places
  <2>2. QED
    BY <2>1, ServesKeeps, SwitchKeeps, QueryKeeps, StopCancelsKeeps, CommandKeeps
    DEF Socket, Switching
<1>2. sock' \in SockType /\ (sock.phase = "off" <=> sock'.phase = "off")
  <2>1. CASE Serves
    <3>1. UNCHANGED sock \/ StopCloses \/ StopEnds
      BY <2>1 DEF Serves, Accept, ChecksContext, ReadsMessage, WritesAnswer
    <3>2. QED
      BY <3>1 DEF StopCloses, StopEnds, LifeInv, LifeTypeOK, SockType
  <2>2. CASE StopCancels
    BY <2>2 DEF StopCancels, LifeInv, LifeTypeOK, SockType
  <2>3. CASE UNCHANGED sock
    BY <2>3 DEF LifeInv, LifeTypeOK
  <2>4. QED
    BY <2>1, <2>2, <2>3 DEF Socket, Switching, Switch, Query, Command, ClientProbes,
                            ClientDials, ClientSends, ClientReads, ClientTimesOut
<1>3. UNCHANGED lifeVars
  BY DEF Socket, Switching
<1>4. QED
  BY <1>1, <1>2, <1>3 DEF lifeVars, LifeTypeOK, ProcType, PartsType, SshType, StopType, NoticeType, SockType, Mains, Inits,
         Phases, NothingLeft, StartOrder, SshOrder, SessionOrder, StopOrder, Early, NoticeOrder,
         LifeInv, Alive, NoParts, NoSsh

-----------------------------------------------------------------------------
(* The theorems.                                                            *)

IInv == LifeInv /\ SocketInv

LEMMA IInvInit == Init => IInv
BY SocketInvInit DEF IInv, Init, SocketInit, NoNotice, NoStop, LifeTypeOK, ProcType, PartsType, SshType, StopType, NoticeType, SockType, Mains, Inits,
       Phases, NothingLeft, StartOrder, SshOrder, SessionOrder, StopOrder, Early, NoticeOrder,
       LifeInv, Alive, NoParts, NoSsh

LEMMA IInvNext == IInv /\ [Next]_vars => IInv'
<1>. SUFFICES ASSUME IInv, [Next]_vars PROVE IInv'
  OBVIOUS
<1>. USE DEF IInv
<1>1. CASE Launch
  BY <1>1, LaunchKeeps, SocketFrame DEF Launch
<1>2. CASE Kill \/ MainExits
  <2>1. SocketInv'
    BY <1>2, SocketDiesKeeps DEF Kill, MainExits, Dies
  <2>2. QED
    BY <1>2, <2>1, DiesKeeps DEF Kill, MainExits
<1>3. CASE Startup
  <2>1. CASE StartIpc
    BY <1>3, <2>1, StartupKeeps, SocketStartsKeeps, SocketFrame DEF StartIpc, socketVars
  <2>2. CASE ~StartIpc
    BY <1>3, <2>2, StartupKeeps, SocketFrame
    DEF Startup, Starts, StartsSsh, Passes, StartRest, StartupFails, Delay, InitInput, InitClientManager, InitNetwork,
        StartBackend, StartEmergency, SetCallbacks, ConnectParts, StartNetworking
  <2>3. QED
    BY <2>1, <2>2
<1>4. CASE Signal
  <2>1. CASE proc.main = "starting"
    BY <1>4, <2>1, DiesKeeps, SocketDiesKeeps DEF Signal, Dies
  <2>2. CASE proc.main # "starting"
    <3>1. proc' \in ProcType /\ proc'.main = proc.main /\ proc'.init = proc.init
          /\ proc'.cancelled = proc.cancelled
      BY <1>4, <2>2, ZenonT(40) DEF Signal, LifeInv, LifeTypeOK, ProcType
    <3>2. QED
      BY <1>4, <2>2, <3>1, SocketFrame
      DEF Signal, MainRest, socketVars, LifeTypeOK, ProcType, PartsType, SshType, StopType, NoticeType, SockType, Mains, Inits,
           Phases, NothingLeft, StartOrder, SshOrder, SessionOrder, StopOrder, Early, NoticeOrder,
           LifeInv, Alive, NoParts, NoSsh
  <2>3. QED
    BY <2>1, <2>2
<1>5. CASE PressQuit \/ Ui
  BY <1>5, UiKeeps, SocketFrame DEF PressQuit, Ui, UiEnds, OnShutdown, RunnerDone, MainRest
<1>6. ASSUME NEW c \in Clients, Session(c) PROVE IInv'
  <2>1. CASE NilContext(c)
    BY <1>6, <2>1, SessionKeeps, SocketDiesKeeps DEF NilContext, Dies
  <2>2. CASE UNCHANGED <<sock, command, conn, carried, reported>> /\ KeepsControl
    BY <1>6, <2>2, SessionKeeps, SocketFrame DEF KeepsControl, socketVars, managed
  <2>3. CASE UNCHANGED <<sock, command, conn, carried, reported>> /\ Gives("local", Asking)
    BY <1>6, <2>3, SessionKeeps, GivesKeeps DEF Places
  <2>4. QED
    BY <1>6, <2>1, <2>2, <2>3
    DEF Session, SessionEnds, Connects, OnClientConnected, SessionCloses, Leaves, LeavesTable,
        OnClientDisconnected, Stalls, Recovers, SessionStep
<1>6a. CASE SshStarts
  BY <1>6a, SshStartsKeeps, SocketFrame DEF SshStarts, SshRest, StartRest
<1>6b. CASE Others
  BY <1>6b, ManagerKeeps
<1>7. CASE Stopping
  BY <1>7, StoppingKeeps, SocketFrame
  DEF Stopping, StopEmergency, NotifyBegins, NotifyOne, NotifyEnds, SshStopBegins, ClosesSessions,
      SshStopEnds, StopSsh, StopBackend, StopJoins, StopRest
<1>8. CASE MainCancels \/ MainStops \/ MainJoins
  BY <1>8, MainKeeps, SocketFrame DEF MainCancels, MainStops, MainJoins, MainRest
<1>9. CASE Socket \/ Switching
  BY <1>9, SocketKeeps
<1>10. CASE UNCHANGED vars
  BY <1>10, SocketFrame DEF vars, lifeVars, socketVars, LifeTypeOK, ProcType, PartsType, SshType, StopType, NoticeType, SockType, Mains, Inits,
         Phases, NothingLeft, StartOrder, SshOrder, SessionOrder, StopOrder, Early, NoticeOrder,
         LifeInv, Alive, NoParts, NoSsh
<1>11. QED
  BY <1>1, <1>2, <1>3, <1>4, <1>5, <1>6, <1>6a, <1>6b, <1>7, <1>8, <1>9,
     <1>10 DEF Next, Main

\* The inductive invariant.
THEOREM LifeInvariant == Spec => []IInv
<1>1. QED
  BY IInvInit, IInvNext, PTL DEF Spec

\* SocketServer.handleConnection, ClientManager.HandleSwitchCommand and ipc.Client: a "waymon
\* switch" that reports a state was carried out once, and that was the state after its own
\* switch, though others may have moved control between the manager's two locks; one that
\* reports an error has changed nothing.
THEOREM SwitchReportsTruth == Spec => []ReportsAreTrue
<1>1. IInv => ReportsAreTrue
  BY SocketInvReports DEF IInv
<1>2. QED
  BY <1>1, LifeInvariant, PTL

\* initializeServer: no client is served and no command is answered before the parts that
\* serve it are there, in whatever order the main goroutine and the others run.
THEOREM ServerReadyBeforeUse == Spec => []ReadyBeforeUse
<1>1. IInv => ReadyBeforeUse
  BY DEF IInv, LifeInv, StartOrder, SessionOrder, ReadyBeforeUse
<1>2. QED
  BY <1>1, LifeInvariant, PTL

\* Server.Stop after a quit from the interface: NotifyShutdown has gone to the clients that
\* are connected before SSHServer.Stop closes their sessions.
THEOREM QuitTellsClients == Spec => []ToldBeforeClosed
<1>1. IInv => ToldBeforeClosed
  BY DEF IInv, LifeInv, NoticeOrder, ToldBeforeClosed
<1>2. QED
  BY <1>1, LifeInvariant, PTL

\* Server.Stop: once it has returned, and was not called before the start-up was over and
\* SSHServer.Start had told its wait group of the listener, the backend captures nothing,
\* nobody listens or is about to, and the emergency release is off.
THEOREM StopIsComplete == Spec => []StopLeavesNothing
<1>1. IInv => StopLeavesNothing
  BY DEF IInv, LifeInv, StopOrder, Early, StopLeavesNothing
<1>2. QED
  BY <1>1, LifeInvariant, PTL

=============================================================================
