---------------------------- MODULE MCServerLife -----------------------------
(* A client and everything that may happen; two clients for one place and a  *)
(* user who quits; a command and a signal; a client and two commands in two  *)
(* lives, the first killed.                                                  *)
EXTENDS ServerLife
CONSTANTS c1, c2, k1, k2
MCUsers ==
  {[clients |-> {c1}, commands |-> {}, lives |-> 1, do |-> Deeds],
   [clients |-> {c1, c2}, commands |-> {}, lives |-> 1, do |-> {"interface", "operate"}],
   [clients |-> {}, commands |-> {k1}, lives |-> 1, do |-> {"signal", "operate"}],
   [clients |-> {c1}, commands |-> {k1, k2}, lives |-> 2, do |-> {"kill", "operate"}]}
=============================================================================
