--------------------------- MODULE MCProjection ---------------------------
(* Projection on small instances: two tracks, queues of up to three.       *)
EXTENDS Projection, TLC

CONSTANTS t1, t2

OneQueue   == {<<t1, t2>>}
LongQueue  == {<<t1, t2, t1>>}

ListOps    == {"play_index", "add", "clear", "set_queue", "select"}
EditOps    == {"remove", "move", "clear", "set_queue", "next", "previous", "play",
               "set_repeat"}
ClearOps   == {"select", "clear"}
RemoveOps  == {"play", "remove"}

\* The clients of the runs without liveness are interchangeable.
Symmetry == Permutations(Clients)
=============================================================================
