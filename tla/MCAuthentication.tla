-------------------------- MODULE MCAuthentication --------------------------
(* Finite instances of Authentication for TLC.                              *)
EXTENDS Authentication, TLC

(* Logins are interchangeable, and so are refresh requests.                 *)
Symmetry == Permutations(Request) \cup Permutations(Session)
=============================================================================
