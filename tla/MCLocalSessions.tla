-------------------------- MODULE MCLocalSessions --------------------------
(* LocalSessions on small instances.                                       *)
EXTENDS LocalSessions
=============================================================================
