----------------------------- MODULE ServerLocks -----------------------------
(***************************************************************************)
(* The server's goroutines, their locks and the two places where they wait *)
(* for somebody else: a write to the client's SSH channel, which blocks    *)
(* while the client does not read, and a log line, which in the terminal   *)
(* interface is handed to the Bubble Tea loop by a rendezvous              *)
(* (logger.notifyUI, ServerModel.AddLogEntry, tea.Program.Send).           *)
(*                                                                         *)
(* The locks are ClientManager.mu (cm), SSHServer.mu (ssh) and             *)
(* AllDevicesCapture.mu (a), all sync.RWMutex: a writer that waits keeps   *)
(* new readers out.  A goroutine is what it still has to do: a sequence of *)
(* lock operations, log lines and steps, in the order of the code.         *)
(*                                                                         *)
(* One client, one device; module ClientManager treats several of each,    *)
(* with the manager's critical sections as single steps.                   *)
(* Log lines below INFO are not sent to the interface and left out.        *)
(***************************************************************************)
EXTENDS Naturals, Sequences

CONSTANTS
  Settings,  \* how the server may be run: with the interface or not, and what happens
  Routines,  \* the goroutines that take part
  QueueSize  \* capacity of eventChan

Locks == {"cm", "ssh", "a"}
Nobody == "nobody"
AllRoutines == {"ui", "key", "ipc", "device", "pump", "escape", "timer", "signal", "session"}

ASSUME RoutinesAssumption == Routines \subseteq AllRoutines
AllStimuli ==
  {"tab", "digit", "zero", "tick", "command", "event", "chord", "expiry", "signal",
   "arrive", "leave", "release", "stall"}
ASSUME SettingsAssumption == Settings \subseteq [tui : BOOLEAN, stimuli : SUBSET AllStimuli]
ASSUME QueueAssumption == QueueSize \in Nat \ {0}

VARIABLES
  todo,        \* what each goroutine has to do before it is idle again
  writer,      \* the goroutine that has, or is next to have, each lock for writing
  readers,     \* the goroutines that hold each lock for reading
  pending,     \* the readers that wait for the writer to leave
  registered,  \* the client is in the manager's registry
  local,       \* controllingLocal
  target,      \* the backend's target is the client, whose devices are grabbed
  leftover,    \* a failed grab left devices grabbed that no target has
  armed,       \* the safety timer runs
  queue,       \* number of events in eventChan
  stalled,     \* the client does not read
  setting      \* how this server is run, from its start to its end

lockVars == <<writer, readers, pending>>
controlVars == <<registered, local, target, leftover, armed>>
vars == <<todo, lockVars, controlVars, queue, stalled, setting>>

TUI == setting.tui          \* no --no-tui
Stimuli == setting.stimuli

-----------------------------------------------------------------------------
(* What the operations do, in order.                                       *)

Lock(l) == <<"lock", l>>
Unlock(l) == <<"unlock", l>>
RLock(l) == <<"rlock", l>>
RUnlock(l) == <<"runlock", l>>
Do(step) == <<"do", step>>
Line == <<"log", "line">>
RefreshMessage == <<"log", "refresh">>

\* A line goes to a file unless the interface runs: then it waits for the loop.
Log == IF TUI THEN <<Line>> ELSE <<>>
Refresh == IF TUI THEN <<RefreshMessage>> ELSE <<>>

Section(l, body) == <<Lock(l)>> \o body \o <<Unlock(l)>>
ReadSection(l, body) == <<RLock(l)>> \o body \o <<RUnlock(l)>>

SendEventToClient == ReadSection("ssh", <<Do("write")>>)
ClearTarget == Section("a", <<Do("free")>> \o Log)
SetTarget == Section("a", <<Do("grab")>> \o Log \o <<Do("arm")>> \o Log)
SetTargetFails == Section("a", <<Do("partial")>> \o Log)

\* The bodies of ClientManager's operations, cm being held.
Relinquish == ClearTarget \o <<Do("goLocal")>> \o Log
GiveBack == SendEventToClient \o Relinquish
Grant ==
  SetTarget \o <<Do("goRemote")>> \o Log \o SendEventToClient \o Log
            \o SendEventToClient \o Log
GrantFails == SetTargetFails \o Log

LeavesGrab == Log \o <<Do("goLocal")>> \o Log
ReturnsControl == Log \o Relinquish

SwitchToLocal == Section("cm", <<Do("release")>>)
SwitchToClient == Section("cm", <<Do("grant")>>)
MarkEmergencyRelease == Section("cm", Log)
SwitchNext == Section("cm", <<Do("rotate")>>) \o <<Do("answer")>>

RoutesUnlocked == <<RLock("cm"), Do("route"), RUnlock("cm")>> \o SendEventToClient
Input == ReadSection("cm", <<Do("route")>>)

RegisterClient ==
  Section("ssh", <<>>) \o Section("cm", <<Do("register")>> \o Log \o Refresh) \o Log
UnregisterClient ==
  Section("ssh", <<>>) \o Section("cm", <<Do("unregister")>> \o Log \o Refresh) \o Log

\* The Ctrl+ESC goroutine: "Use goroutine to avoid deadlock".
EscapeInside ==
  Section("a", <<Do("free")>> \o Log \o MarkEmergencyRelease \o SwitchToLocal)
EscapeViaManager == Log \o MarkEmergencyRelease \o SwitchToLocal
Escape == ClearTarget \o Log \o MarkEmergencyRelease \o SwitchToLocal
TimerFires == Log \o Section("a", <<Do("expire")>>)
TriggerRelease == Log \o MarkEmergencyRelease \o SwitchToLocal

RefreshClientList == ReadSection("cm", <<>>) \o ReadSection("cm", <<>>)
Tab == <<RLock("cm"), Do("next")>>

\* A full event channel drops the event and says so.
AlwaysRoom == TRUE
Room == queue < QueueSize

\* What a step continues with, as the state is when it is taken.  Whether all devices
\* can be grabbed is not known before; a switch that failed is not answered by a status.
Continuations(step) ==
  CASE step = "release" -> IF local THEN {<<>>} ELSE {GiveBack}
    [] step = "grant" -> IF ~registered THEN {Log}
                         ELSE IF local THEN {Grant, GrantFails} ELSE {<<>>}
    [] step = "rotate" -> IF ~registered THEN {Relinquish}
                          ELSE IF ~local THEN {GiveBack}
                          ELSE {<<Unlock("cm")>> \o SwitchToClient \o <<Lock("cm")>>}
    [] step = "answer" -> {ReadSection("cm", <<>>), <<>>}
    [] step = "next" -> {<<RUnlock("cm")>>
                          \o (IF registered THEN SwitchToClient ELSE SwitchToLocal)
                          \o RefreshClientList}
    [] step = "route" -> IF local THEN {<<>>}
                         ELSE {SendEventToClient, SendEventToClient \o Log}
    [] step = "peek" -> {<<RUnlock("a")>> \o (IF target THEN Input ELSE <<>>)}
    [] step = "chord" -> {<<RUnlock("a")>> \o (IF target THEN Log \o <<Do("spawn")>> ELSE <<>>)}
    [] step = "enqueue" -> IF Room THEN {<<>>} ELSE {Log}
    [] step = "unregister" -> IF local THEN {<<>>} ELSE {ReturnsControl}
    [] OTHER -> {<<>>}

-----------------------------------------------------------------------------
(* Goroutines taking their next step.                                      *)

Idle(g) == todo[g] = <<>>
Current(g) == IF Idle(g) THEN <<"idle", "idle">> ELSE Head(todo[g])
Rest(g) == Tail(todo[g])
Advance(g) == todo' = [todo EXCEPT ![g] = Rest(g)]

\* One writer at a time announces itself, which keeps new readers out, and
\* waits for the readers inside; its Unlock lets the readers in that came since.
Announce(g, l) ==
  /\ Current(g) = Lock(l)
  /\ writer[l] = Nobody
  /\ writer' = [writer EXCEPT ![l] = g]
  /\ UNCHANGED <<todo, readers, pending, controlVars, queue, stalled>>

Acquire(g, l) ==
  /\ Current(g) = Lock(l)
  /\ writer[l] = g
  /\ readers[l] = {}
  /\ Advance(g)
  /\ UNCHANGED <<lockVars, controlVars, queue, stalled>>

WaitToRead(g, l) ==
  /\ Current(g) = RLock(l)
  /\ writer[l] # Nobody
  /\ g \notin pending[l] \cup readers[l]
  /\ pending' = [pending EXCEPT ![l] = @ \cup {g}]
  /\ UNCHANGED <<todo, writer, readers, controlVars, queue, stalled>>

ReadAcquire(g, l) ==
  /\ Current(g) = RLock(l)
  /\ writer[l] = Nobody \/ g \in readers[l]
  /\ readers' = [readers EXCEPT ![l] = @ \cup {g}]
  /\ Advance(g)
  /\ UNCHANGED <<writer, pending, controlVars, queue, stalled>>

ReleaseLock(g, l) ==
  /\ Current(g) = Unlock(l)
  /\ writer' = [writer EXCEPT ![l] = Nobody]
  /\ readers' = [readers EXCEPT ![l] = pending[l]]
  /\ pending' = [pending EXCEPT ![l] = {}]
  /\ Advance(g)
  /\ UNCHANGED <<controlVars, queue, stalled>>

ReadRelease(g, l) ==
  /\ Current(g) = RUnlock(l)
  /\ readers' = [readers EXCEPT ![l] = @ \ {g}]
  /\ Advance(g)
  /\ UNCHANGED <<writer, pending, controlVars, queue, stalled>>

\* The line is handed over when the loop receives: never while it logs itself.
WriteLog(g) ==
  /\ g # "ui" /\ Idle("ui")
  /\ \/ Current(g) = Line /\ Advance(g)
     \/ /\ Current(g) = RefreshMessage
        /\ todo' = [todo EXCEPT ![g] = Rest(g), !["ui"] = RefreshClientList]
  /\ UNCHANGED <<lockVars, controlVars, queue, stalled>>

\* A write that fails is logged before the lock is given up.
WriteToClient(g) ==
  /\ Current(g) = Do("write")
  /\ ~stalled
  /\ Advance(g) \/ todo' = [todo EXCEPT ![g] = Log \o Rest(g)]
  /\ UNCHANGED <<lockVars, controlVars, queue, stalled>>

Effect(step) ==
  /\ registered' = IF step = "register" THEN TRUE
                   ELSE IF step = "unregister" THEN FALSE ELSE registered
  /\ local' = IF step = "goLocal" THEN TRUE ELSE IF step = "goRemote" THEN FALSE ELSE local
  /\ target' = IF step = "grab" THEN TRUE
               ELSE IF step \in {"free", "expire"} THEN FALSE ELSE target
  /\ IF step = "partial" THEN leftover' \in {leftover, TRUE}
     ELSE leftover' = (leftover /\ step \notin {"free", "grab"}
                                /\ ~(step = "expire" /\ target))
  /\ armed' = IF step = "arm" \/ (step = "reset" /\ target) THEN TRUE
              ELSE IF step = "free" THEN FALSE ELSE armed
  /\ queue' = IF step = "enqueue" /\ Room THEN queue + 1 ELSE queue

Step(g) ==
  /\ \E step \in {Current(g)[2]} :
       /\ Current(g) = Do(step)
       /\ step \notin {"write", "spawn"}
       /\ Effect(step)
       /\ \E more \in Continuations(step) :
            todo' = [todo EXCEPT ![g] = more \o Rest(g)]
  /\ UNCHANGED <<lockVars, stalled>>

SpawnEscape(g) ==
  /\ Current(g) = Do("spawn")
  /\ todo' = [todo EXCEPT ![g] = Rest(g), !["escape"] = Escape]
  /\ UNCHANGED <<lockVars, controlVars, queue, stalled>>

Proceed(g) ==
  \/ \E l \in Locks : Announce(g, l) \/ Acquire(g, l) \/ ReleaseLock(g, l)
  \/ \E l \in Locks : WaitToRead(g, l) \/ ReadAcquire(g, l) \/ ReadRelease(g, l)
  \/ WriteLog(g)
  \/ WriteToClient(g)
  \/ Step(g)
  \/ SpawnEscape(g)

-----------------------------------------------------------------------------
(* What starts them.                                                       *)

Begin(stimulus, g, script) ==
  /\ stimulus \in Stimuli
  /\ Idle(g)
  /\ todo' = [todo EXCEPT ![g] = script]
  /\ armed' = (armed /\ g # "timer")
  /\ UNCHANGED <<lockVars, registered, local, target, leftover>>

\* The interface's loop handles Tab itself and starts a goroutine for the
\* other keys, followed by a refresh 200 ms later.
PressTab == Begin("tab", "ui", Tab) /\ UNCHANGED <<queue, stalled>>
PressDigit == Idle("ui") /\ Begin("digit", "key", SwitchToClient) /\ UNCHANGED <<queue, stalled>>
PressZero == Idle("ui") /\ Begin("zero", "key", SwitchToLocal) /\ UNCHANGED <<queue, stalled>>
RefreshTick == Begin("tick", "ui", RefreshClientList) /\ UNCHANGED <<queue, stalled>>

IpcCommand == Begin("command", "ipc", SwitchNext) /\ UNCHANGED <<queue, stalled>>
DeviceEvent ==
  /\ Begin("event", "device", Section("a", <<Do("reset")>>) \o <<Do("enqueue")>>)
  /\ UNCHANGED <<queue, stalled>>
PressChord ==
  /\ Idle("escape")
  /\ Begin("chord", "device", <<RLock("a"), Do("chord")>>)
  /\ UNCHANGED <<queue, stalled>>
TakeEvent ==
  /\ queue > 0
  /\ Begin("event", "pump", <<RLock("a"), Do("peek")>>)
  /\ queue' = queue - 1
  /\ UNCHANGED stalled
TimerExpires == armed /\ Begin("expiry", "timer", TimerFires) /\ UNCHANGED <<queue, stalled>>
Signal == Begin("signal", "signal", TriggerRelease) /\ UNCHANGED <<queue, stalled>>
ClientArrives ==
  /\ ~registered
  /\ Begin("arrive", "session", RegisterClient)
  /\ UNCHANGED <<queue, stalled>>
\* The channel is closed: a write that waited fails.
ClientLeaves ==
  /\ registered
  /\ Begin("leave", "session", UnregisterClient)
  /\ stalled' = FALSE
  /\ UNCHANGED queue
ClientReleases ==
  /\ registered
  /\ Begin("release", "session", Log \o SwitchToLocal)
  /\ UNCHANGED <<queue, stalled>>

\* A client that reads again later is a write that takes its time.
ClientStalls ==
  /\ "stall" \in Stimuli
  /\ ~stalled
  /\ stalled' = TRUE
  /\ UNCHANGED <<todo, lockVars, controlVars, queue>>

Init ==
  /\ todo = [g \in AllRoutines |-> <<>>]
  /\ writer = [l \in Locks |-> Nobody]
  /\ readers = [l \in Locks |-> {}]
  /\ pending = [l \in Locks |-> {}]
  /\ registered = FALSE
  /\ local = TRUE
  /\ target = FALSE
  /\ leftover = FALSE
  /\ armed = FALSE
  /\ queue = 0
  /\ stalled = FALSE
  /\ setting \in Settings

Start ==
  \/ PressTab \/ PressDigit \/ PressZero \/ RefreshTick
  \/ IpcCommand
  \/ DeviceEvent \/ PressChord \/ TakeEvent
  \/ TimerExpires \/ Signal
  \/ ClientArrives \/ ClientLeaves \/ ClientReleases

Next ==
  /\ \/ \E g \in Routines : Proceed(g)
     \/ Start
     \/ ClientStalls
  /\ UNCHANGED setting

\* A goroutine that can go on goes on.  Writers compete for a lock; none is
\* passed over for ever (sync.Mutex has a starvation mode), which weak fairness
\* would not give.
Fairness ==
  /\ WF_vars(TakeEvent /\ UNCHANGED setting)
  /\ \A g \in Routines :
       /\ WF_vars(Proceed(g) /\ UNCHANGED setting)
       /\ SF_vars((\E l \in Locks : Announce(g, l)) /\ UNCHANGED setting)

Spec == Init /\ [][Next]_vars
FairSpec == Spec /\ Fairness

-----------------------------------------------------------------------------
(* Safety.                                                                 *)

Steps == {"write", "free", "grab", "partial", "arm", "expire", "reset", "goLocal", "goRemote",
          "release", "grant", "rotate", "answer", "route", "register", "unregister", "next",
          "peek", "chord", "spawn", "enqueue"}
Instructions ==
  ({"lock", "unlock", "rlock", "runlock"} \X Locks) \cup ({"do"} \X Steps)
    \cup {Line, RefreshMessage}

TypeOK ==
  /\ todo \in [AllRoutines -> Seq(Instructions)]
  /\ writer \in [Locks -> Routines \cup {Nobody}]
  /\ readers \in [Locks -> SUBSET Routines]
  /\ pending \in [Locks -> SUBSET Routines]
  /\ \A b \in {registered, local, target, leftover, armed, stalled} : b \in BOOLEAN
  /\ queue \in 0..QueueSize
  /\ setting \in Settings

Writes(g, l) == writer[l] = g /\ Current(g) # Lock(l)
Reads(g, l) == g \in readers[l] /\ Current(g) # RLock(l)
Held(g) == {l \in Locks : Writes(g, l) \/ Reads(g, l)}

\* The locks are ordered: whoever asks for cm holds no lock, whoever asks for
\* ssh or a holds at most cm.  Five kinds of callers reach the backend through
\* the manager and two go the other way, from the backend to the manager.
LockOrder ==
  \A g \in Routines, l \in Locks :
    Current(g) \in {Lock(l), RLock(l)} =>
      Held(g) \subseteq IF l = "cm" THEN {} ELSE {"cm"}

\* No captured input is written to the client once the manager has gone
\* local: the event was routed under cm and is written under cm.
NoInputAfterRelease == Current("pump") = Do("write") => ~local

\* The backend's target has an owner: while no operation is under way in the manager, a
\* target means that a client has control, whatever order Ctrl+ESC, the safety timer,
\* failed grabs and the manager's own releases came in.
TargetHasOwner == target /\ local => \E g \in Routines : Writes(g, "cm")

-----------------------------------------------------------------------------
(* Liveness.                                                               *)

\* Without the interface, every operation any goroutine begins is carried to
\* its end, or the client stops reading: no deadlock, no starved caller.
OperationsEnd == \A g \in Routines : ~Idle(g) ~> Idle(g) \/ stalled

\* Ctrl+ESC and, while there is a target, the safety timer free the devices, those of an
\* earlier failed grab included, even when the client has stopped reading and a blocked
\* write holds the manager's lock for ever.
Freed == ~target /\ ~leftover
DeviceReleaseFrees ==
  /\ todo["escape"] = Escape ~> Freed
  /\ target /\ todo["timer"] = TimerFires ~> Freed

-----------------------------------------------------------------------------
(* What the documentation says and the code does not do.                   *)

\* "Tab: Cycle through connected clients": the interface survives the key.
TabReturns == Current("ui") = Do("next") ~> Idle("ui")
=============================================================================
