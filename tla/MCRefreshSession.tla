-------------------------- MODULE MCRefreshSession --------------------------
(* Finite instances of RefreshSession for TLC.                              *)
EXTENDS RefreshSession, TLC

(* Requests are interchangeable.                                            *)
Symmetry == Permutations(Request)
=============================================================================
