------------------------------ MODULE QueueOps ------------------------------
(***************************************************************************)
(* The queue arithmetic of kanade-core's controller: how the index of the  *)
(* current track moves with next and previous, how it follows a removal or *)
(* a move, and which part of a queue is projected onto the output.         *)
(*                                                                         *)
(* Positions are 0-based, as in the code (TLA+ sequences are 1-based: the  *)
(* track at position i of q is q[i + 1]).  None stands for Option::None.   *)
(***************************************************************************)
EXTENDS Integers, Sequences

None == -1

RepeatModes == {"off", "one", "all"}

\* The positions of a queue.
Positions(q) == 0 .. Len(q) - 1

\* An index the rest of the code can use: no track, or a track of the queue.
ValidIndex(i, q) == i = None \/ i \in Positions(q)

TrackAt(q, i) == q[i + 1]

\* Mutant: the subtraction of usize without saturation.
WrongSaturatingSub(a, b) == a - b

\* usize::saturating_sub
SaturatingSub(a, b) == IF a >= b THEN a - b ELSE 0

(***************************************************************************)
(* next and previous: the index they move to, or None where they return    *)
(* QueueEmpty without changing anything.                                   *)
(***************************************************************************)
NextIndex(i, len, repeat) ==
    IF len = 0 THEN None
    ELSE IF i = None THEN 0
    ELSE CASE repeat = "off" -> IF i + 1 < len THEN i + 1 ELSE None
           [] repeat = "one" -> i
           [] repeat = "all" -> (i + 1) % len

PrevIndex(i, len, repeat) ==
    IF len = 0 THEN None
    ELSE IF i \in {None, 0}
         THEN CASE repeat = "off" -> None
                [] repeat = "one" -> 0
                [] repeat = "all" -> len - 1
         ELSE i - 1

(***************************************************************************)
(* remove_from_queue and move_in_queue on one node's queue.                *)
(***************************************************************************)
Removed(q, i) == SubSeq(q, 1, i) \o SubSeq(q, i + 2, Len(q))

Inserted(q, i, t) == SubSeq(q, 1, i) \o <<t>> \o SubSeq(q, i + 1, Len(q))

IndexAfterRemove(cur, i, q) ==
    IF cur = None \/ cur < i THEN cur
    ELSE IF cur > i THEN cur - 1
    ELSE IF Len(q) = 1 THEN None
    ELSE IF cur <= Len(q) - 2 THEN cur ELSE Len(q) - 2

Moved(q, from, to) == Inserted(Removed(q, from), to, TrackAt(q, from))

\* Mutant: a track moved onto the current position does not push it back.
WrongIndexAfterMove(cur, from, to) ==
    IF cur = None THEN None
    ELSE IF cur = from THEN to
    ELSE IF from < cur /\ cur <= to THEN cur - 1
    ELSE IF to < cur /\ cur < from THEN cur + 1
    ELSE cur

IndexAfterMove(cur, from, to) ==
    IF cur = None THEN None
    ELSE IF cur = from THEN to
    ELSE IF from < cur /\ cur <= to THEN cur - 1
    ELSE IF to <= cur /\ cur < from THEN cur + 1
    ELSE cur

\* The position these two send to the output for position i of the queue.
OutputPosition(i, cur) == IF cur = None THEN i ELSE SaturatingSub(i, cur)

(***************************************************************************)
(* The projection: the tracks from the current one to the end of the queue *)
(* (build_queue_file_paths), the whole queue when there is no current one. *)
(***************************************************************************)
Suffix(q, cur) == SubSeq(q, (IF cur = None THEN 0 ELSE cur) + 1, Len(q))
=============================================================================
