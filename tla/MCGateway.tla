------------------------------- MODULE MCGateway -------------------------------
(* Requests of one browser that are alike, and commands that are alike.         *)
EXTENDS Gateway, TLC

CONSTANTS r1, r2, a1, a2

MCSymmetry == Permutations(Calls) \cup Permutations(Admins)
================================================================================
