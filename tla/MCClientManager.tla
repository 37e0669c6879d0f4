--------------------------- MODULE MCClientManager --------------------------
(* Two clients: every order of a hand-over, a disconnect and a command.    *)
EXTENDS ClientManager
MCIds == 1..2
=============================================================================
