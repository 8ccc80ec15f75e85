-------------------------- MODULE MCNodeSessions --------------------------
(* NodeSessions on small instances.                                        *)
EXTENDS NodeSessions, TLC

CONSTANTS a, b, p1, p2

OwnNames  == p1 :> a @@ p2 :> b
=============================================================================
