---------------------------- MODULE MCServerLocks ----------------------------
(* The server without its interface, with it, and the parts of both that the *)
(* liveness runs look at.                                                    *)
EXTENDS ServerLocks
Setting(tui, stimuli) == [tui |-> tui, stimuli |-> stimuli]
\* Clients come and the command gives control to them; any two of the rest together.
Headless ==
  {Setting(FALSE, {"arrive", "command"} \cup others) :
     others \in {{"event", "chord", "expiry"}, {"event", "leave", "release"},
                 {"event", "expiry", "release"}, {"chord", "expiry", "release"},
                 {"chord", "expiry", "leave"}}}
Interface ==
  Setting(TRUE, {"tab", "digit", "zero", "tick", "chord", "arrive", "leave", "signal"})
MCSettings == Headless \cup {Interface}
MCStalling ==
  {Setting(FALSE, {"command", "chord", "expiry", "arrive", "stall"}),
   Setting(FALSE, {"command", "chord", "arrive", "leave", "stall"})}
MCTab == {Setting(TRUE, {"tab", "arrive", "leave"})}
=============================================================================
