----------------------------- MODULE MCKeyPath ------------------------------
(* Model values for TLC: the clients are interchangeable.                   *)
EXTENDS KeyPath, TLC

Symmetry == Permutations(Clients)

=============================================================================
