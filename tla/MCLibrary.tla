----------------------------- MODULE MCLibrary -----------------------------
(* Library on small instances.                                             *)
EXTENDS Library

CONSTANTS a, b

OneList   == {<<a, b>>}
ShortOnes == {<<>>, <<b>>}
=============================================================================
