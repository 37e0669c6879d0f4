------------------------------ MODULE Detection -----------------------------
(***************************************************************************)
(* display.New: which backend is chosen, and what each makes of the        *)
(* outputs of the machine.  A backend is chosen by whether it can be       *)
(* constructed; when its GetMonitors fails afterwards, no other is tried.  *)
(*                                                                         *)
(* A machine is a record:                                                  *)
(*   sudo     SUDO_USER is set          root     the effective user is 0   *)
(*   cgo      built with cgo            tools    programs in the path      *)
(*   wayland  a compositor answers      manager  it has the output manager *)
(*   json     wlr-randr knows --json    helper   sudo's helper can be run  *)
(*   outputs  the outputs, in the order in which every tool lists them     *)
(* An output has a place in the compositor's layout, the size of its mode, *)
(* the size it has in the layout (the mode's, turned by the transform and  *)
(* divided by the scale), a mark as primary where the tool knows one, and  *)
(* may be disabled: it then has no mode, hence no size, and no place.  No  *)
(* backend looks at transform or scale: all take the size of the mode.     *)
(***************************************************************************)
EXTENDS Monitors, SequencesExt

CONSTANT MaxOutputs  \* outputs the C code has room for (32)

ASSUME MaxOutputsAssumption == MaxOutputs \in Nat

Output == [at : Point, size : Size, shown : Size, enabled : BOOLEAN, primary : BOOLEAN]
OutputsOK(machine) ==
  /\ machine.outputs \in Seq(Output)
  /\ \A k \in DOMAIN machine.outputs : LET output == machine.outputs[k]
       IN /\ output.enabled <=> \A i \in Axes : output.size[i] > 0
          /\ output.enabled <=> \A i \in Axes : output.shown[i] > 0

\* No output is scaled or turned.
Plain(machine) == \A k \in DOMAIN machine.outputs : machine.outputs[k].shown = machine.outputs[k].size

Machine(outputs) ==
  [sudo |-> FALSE, root |-> FALSE, cgo |-> TRUE, tools |-> {}, wayland |-> TRUE,
   manager |-> TRUE, json |-> TRUE, helper |-> FALSE, outputs |-> outputs]

EnabledAs(at, size, shown) ==
  [at |-> at, size |-> size, shown |-> shown, enabled |-> TRUE, primary |-> FALSE]
Enabled(at, size) == EnabledAs(at, size, size)
Disabled == [EnabledAs(Origin, Origin, Origin) EXCEPT !.enabled = FALSE]

\* An answer is {monitors}, an error {}.
Error == {}
NonEmpty(monitors) == IF monitors = <<>> THEN Error ELSE {monitors}

IsOn(output) == output.enabled
HasSize(m) == \A i \in Axes : m.size[i] > 0

AsMonitor(output) == [at |-> output.at, size |-> output.size, primary |-> output.primary]
AsMonitors(outputs) == [i \in DOMAIN outputs |-> AsMonitor(outputs[i])]

\* Mark, but leave what is marked as it is.
Marked(monitors, i) == [monitors EXCEPT ![i].primary = TRUE]

-----------------------------------------------------------------------------
(* The backends.  The connection to the compositor holds while one asks.   *)

Heads(outputs) == IF Len(outputs) > MaxOutputs THEN SubSeq(outputs, 1, MaxOutputs) ELSE outputs

KeepsDisabled(outputs) == outputs
EnabledOnly(outputs) == Only(outputs, IsOn)

\* An enabled head without a current mode would keep the size 0.
WlrOutputManagement(machine) ==
  IF ~machine.wayland \/ ~machine.manager \/ machine.outputs = <<>> THEN Error
  ELSE {DeterminePrimaryMonitor(AsMonitors(EnabledOnly(Heads(machine.outputs))))}

\* The first output is marked, and every one at the origin.
WlrCgo(machine) ==
  LET outputs == Heads(machine.outputs)
      found == [i \in DOMAIN outputs |->
                 [AsMonitor(outputs[i]) EXCEPT !.primary = i = 1 \/ outputs[i].at = Origin]]
  IN IF machine.wayland THEN NonEmpty(Only(found, HasSize)) ELSE Error

\* The search for a monitor at the origin does not note that it found one, so
\* that the first monitor is marked as well.
MarkForJson(monitors) ==
  IF MarkedPrimary(monitors) # {} THEN monitors
  ELSE Marked(IF AtOrigin(monitors) # {} THEN Marked(monitors, Min(AtOrigin(monitors)))
              ELSE monitors, 1)

MarkForText(monitors) ==
  IF MarkedPrimary(monitors) # {} THEN monitors
  ELSE Marked(monitors, FirstOf(AtOrigin(monitors), {}))

WlrRandrJson(machine) ==
  {MarkForJson(monitors) :
     monitors \in NonEmpty(Only(AsMonitors(EnabledOnly(machine.outputs)), HasSize))}

\* What wlr-randr prints, as far as the parser looks: a line with the name,
\* whether the output is enabled, then the current mode and the position.
TextLines(machine) ==
  LET Lines(o) == <<[kind |-> "name"], [kind |-> "enabled", yes |-> o.enabled]>>
                  \o IF o.enabled THEN <<[kind |-> "mode", size |-> o.size],
                                         [kind |-> "position", at |-> o.at]>>
                     ELSE <<>>
  IN FlattenSeq([i \in DOMAIN machine.outputs |-> Lines(machine.outputs[i])])

\* Lines are trimmed before the parser looks for those without leading blanks:
\* every line starts a monitor of its own.
ParseLine(state, line) ==
  LET fresh == [at |-> IF line.kind = "position" THEN line.at ELSE Origin,
                size |-> IF line.kind = "mode" THEN line.size ELSE Origin,
                primary |-> FALSE]
  IN [done |-> state.done \o state.current,
      current |-> IF line.kind = "enabled" /\ ~line.yes THEN <<>> ELSE <<fresh>>]

WlrRandrText(machine) ==
  LET state == FoldLeft(ParseLine, [done |-> <<>>, current |-> <<>>], TextLines(machine))
      last == Only(state.current, LAMBDA m : m.size[1] > 0)
  IN {MarkForText(monitors) : monitors \in NonEmpty(state.done \o last)}

WlrRandr(machine) ==
  IF ~machine.wayland THEN Error
  ELSE IF machine.json THEN WlrRandrJson(machine) ELSE WlrRandrText(machine)

\* Every connected output, disabled ones with size 0, marked as xrandr says.
XRandr(machine) ==
  IF "xrandr" \in machine.tools THEN NonEmpty(AsMonitors(machine.outputs)) ELSE Error

\* The helper prints the outputs; those without a size are left out.
Sudo(machine) ==
  IF machine.helper THEN NonEmpty(Only(AsMonitors(machine.outputs), HasSize)) ELSE Error

-----------------------------------------------------------------------------

\* Whether newXBackend succeeds.  newRandrBackend is the portal's again.
CanBeMade(backend, machine) ==
  CASE backend = "sudo" -> machine.sudo /\ machine.root
    [] backend \in {"wlrOutputManagement", "wlrCgo"} -> machine.cgo /\ ~machine.sudo
    [] backend = "wlrRandr" -> "wlr-randr" \in machine.tools
    [] backend \in {"portal", "randr"} -> "gdbus" \in machine.tools

Preference == <<"sudo", "wlrOutputManagement", "wlrCgo", "wlrRandr", "portal", "randr">>

Chosen(machine) ==
  LET able == {i \in DOMAIN Preference : CanBeMade(Preference[i], machine)}
  IN IF able = {} THEN "none" ELSE Preference[Min(able)]

GetMonitors(backend, machine) ==
  CASE backend = "sudo" -> Sudo(machine)
    [] backend = "wlrOutputManagement" -> WlrOutputManagement(machine)
    [] backend = "wlrCgo" -> WlrCgo(machine)
    [] backend = "wlrRandr" -> WlrRandr(machine)
    [] backend \in {"portal", "randr"} -> XRandr(machine)

Detect(machine) ==
  IF Chosen(machine) = "none" THEN Error ELSE GetMonitors(Chosen(machine), machine)

=============================================================================
