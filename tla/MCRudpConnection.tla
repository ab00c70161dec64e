-------------------------- MODULE MCRudpConnection --------------------------
(* RudpConnection on small instances: the callers are interchangeable. *)
EXTENDS RudpConnection, TLC

CallerSymmetry == Permutations(Callers)
=============================================================================
