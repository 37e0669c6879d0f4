----------------------------- MODULE MCScreens ------------------------------
(* Screens of two pixels by one stand for 1920 by 1080: large enough to     *)
(* have a centre, a last pixel and a far edge.  One host goes through every *)
(* backend, the other has one screen.                                       *)
EXTENDS Screens, TLC

CONSTANTS h1, h2

MCExtent == <<2, 1>>
MCMoves == {<<1, -1>>, <<-2, 1>>}
MCOwnMoves == {<<1, 0>>}

Single == Machine(<<Enabled(<<0, 0>>, <<2, 1>>)>>)
\* The first is off, the second left of the origin, the third at it.
Docked == Machine(<<Disabled, Enabled(<<-1, 0>>, <<1, 1>>), Enabled(<<0, 0>>, <<2, 1>>)>>)
Dark == Machine(<<Disabled>>)
\* Turned on its side: the centre of the mode is beside the screen.
Turned == Machine(<<EnabledAs(<<0, 0>>, <<2, 1>>, <<1, 2>>)>>)

NoCgo == [cgo |-> FALSE, tools |-> {"wlr-randr"}] @@ Docked
OldTool == [json |-> FALSE] @@ NoCgo
UnderX == [tools |-> {"gdbus", "xrandr"}] @@ NoCgo
UnderSudo == [sudo |-> TRUE, root |-> TRUE, helper |-> TRUE] @@ Docked
NoScreens == [tools |-> {}] @@ NoCgo

MCMachines ==
  (h1 :> {Single, Docked, Dark, Turned, NoCgo, OldTool, UnderX, UnderSudo, NoScreens})
  @@ (h2 :> {Single})
MCHosts == {h1, h2}

\* ScreensProofs assumes it of a machine whose screens are read from wlr-randr's text, and
\* proves it of the others.
ASSUME MCSoleScreen ==
  \A h \in MCHosts : \A m \in MCMachines[h] : SoleScreenIsAll(m)

Symmetry == Permutations(Addresses)
=============================================================================
