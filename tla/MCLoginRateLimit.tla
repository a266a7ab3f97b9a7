-------------------------- MODULE MCLoginRateLimit --------------------------
(* Finite instances of LoginRateLimit for TLC.                              *)
EXTENDS LoginRateLimit, TLC

(* Attempts are interchangeable, and so are client addresses.               *)
Symmetry == Permutations(Attempt) \cup Permutations(Client)
=============================================================================
