------------------------------ MODULE MCMedia ------------------------------
(* Media on small instances, with the program's intervals in units of five *)
(* minutes: a key is rotated after two and overlaps for one, URLs live for *)
(* three, keys are dropped after four.                                     *)
EXTENDS Media

CONSTANTS u1, u2, f1, f2, a, b

SomePaths == [route : {"tracks", "art", "hls", "file"}, item : {a}]
                \cup {[route |-> "tracks", item |-> b], [route |-> "other", item |-> a]}
SomeFiles == [i \in {a} |-> [length |-> 3, art |-> 0, picture |-> 2]]
SomeRanges == {[kind |-> "none"], [kind |-> "bad"]}
                 \cup [kind : {"suffix"}, n : {0, 2, 5}]
                 \cup [kind : {"from"}, first : {0, 2, 3}]
                 \cup [kind : {"to"}, first : 1..3, last : {0, 1, 2, 9}]

\* A node: two faults, or two refused requests, and what they cost in connections.
NodeLife   == {[ticks |-> 5, conns |-> 1 + f + r, faults |-> f, fetches |-> r,
                opens |-> 0, signs |-> 0, gets |-> 0] : f \in 0..1, r \in 1..2}
ClientLife == {[ticks |-> 7, conns |-> 0, faults |-> 0, fetches |-> 0,
                opens |-> 1, signs |-> 2, gets |-> 1]}

Both == NodeLife \cup ClientLife
=============================================================================
