-------------------------- MODULE MCRequestLogging --------------------------
(* Instances of RequestLogging for TLC. *)
EXTENDS RequestLogging, MCCapServer

CONSTANTS id1, id2

LoggedSymmetry == Permutations(Callers) \cup Permutations(RequestIds)
=============================================================================
