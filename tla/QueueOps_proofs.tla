--------------------------- MODULE QueueOps_proofs ---------------------------
(***************************************************************************)
(* What the queue arithmetic of QueueOps does to any queue: the facts the  *)
(* theorems about Projection rest on.                                      *)
(***************************************************************************)
EXTENDS QueueOps, SequenceTheorems, TLAPS

(***************************************************************************)
(* remove_from_queue: the other tracks keep their order.                   *)
(***************************************************************************)
LEMMA RemovedProperties ==
  ASSUME NEW S, NEW q \in Seq(S), NEW i \in Positions(q)
  PROVE  /\ Removed(q, i) \in Seq(S)
         /\ Len(Removed(q, i)) = Len(q) - 1
         /\ \A j \in 0 .. Len(q) - 2 :
               TrackAt(Removed(q, i), j) = IF j < i THEN TrackAt(q, j) ELSE TrackAt(q, j + 1)
<1> DEFINE left  == SubSeq(q, 1, i)
           right == SubSeq(q, i + 2, Len(q))
<1>1. Len(q) \in Nat /\ i \in Int /\ 0 <= i /\ i < Len(q)
  BY DEF Positions
<1>2. \A j \in 1 .. Len(q) : q[j] \in S
  BY ElementOfSeq
<1>3. /\ left \in Seq(S)
      /\ Len(left) = i
      /\ \A j \in 1 .. i : left[j] = q[j]
  BY <1>1, <1>2, SubSeqProperties
<1>4. /\ right \in Seq(S)
      /\ Len(right) = Len(q) - i - 1
      /\ \A j \in 1 .. Len(q) - i - 1 : right[j] = q[i + 1 + j]
  BY <1>1, <1>2, SubSeqProperties
<1>5. Removed(q, i) = left \o right
  BY DEF Removed
<1> HIDE DEF left, right
<1>6. /\ left \o right \in Seq(S)
      /\ Len(left \o right) = i + (Len(q) - i - 1)
      /\ \A j \in 1 .. i + (Len(q) - i - 1) :
            (left \o right)[j] = IF j <= i THEN left[j] ELSE right[j - i]
  BY <1>3, <1>4, ConcatProperties
<1> QED
  BY <1>1, <1>3, <1>4, <1>5, <1>6 DEF TrackAt

(***************************************************************************)
(* Vec::insert at a position of the queue or at its end.                   *)
(***************************************************************************)
LEMMA InsertedProperties ==
  ASSUME NEW S, NEW q \in Seq(S), NEW t \in S, NEW i \in 0 .. Len(q)
  PROVE  /\ Inserted(q, i, t) \in Seq(S)
         /\ Len(Inserted(q, i, t)) = Len(q) + 1
         /\ \A j \in 0 .. Len(q) :
               TrackAt(Inserted(q, i, t), j) = IF j < i THEN TrackAt(q, j)
                                               ELSE IF j = i THEN t ELSE TrackAt(q, j - 1)
<1> DEFINE left  == SubSeq(q, 1, i)
           right == SubSeq(q, i + 1, Len(q))
           front == left \o <<t>>
<1>1. Len(q) \in Nat /\ i \in Nat /\ i <= Len(q)
  OBVIOUS
<1>2. \A j \in 1 .. Len(q) : q[j] \in S
  BY ElementOfSeq
<1>3. /\ left \in Seq(S)
      /\ Len(left) = i
      /\ \A j \in 1 .. i : left[j] = q[j]
  BY <1>1, <1>2, SubSeqProperties
<1>4. /\ right \in Seq(S)
      /\ Len(right) = Len(q) - i
      /\ \A j \in 1 .. Len(q) - i : right[j] = q[i + j]
  BY <1>1, <1>2, SubSeqProperties
<1>5. /\ <<t>> \in Seq(S)
      /\ Len(<<t>>) = 1
      /\ <<t>>[1] = t
  OBVIOUS
<1>6. Inserted(q, i, t) = front \o right
  BY DEF Inserted
<1> HIDE DEF left, right
<1>7. /\ front \in Seq(S)
      /\ Len(front) = i + 1
      /\ \A j \in 1 .. i + 1 : front[j] = IF j <= i THEN left[j] ELSE t
  <2>1. /\ front \in Seq(S)
        /\ Len(front) = i + 1
        /\ \A j \in 1 .. i + 1 : front[j] = IF j <= i THEN left[j] ELSE <<t>>[j - i]
    BY <1>1, <1>3, <1>5, ConcatProperties
  <2> QED
    BY <1>1, <1>5, <2>1
<1> HIDE DEF front
<1>8. /\ front \o right \in Seq(S)
      /\ Len(front \o right) = Len(q) + 1
      /\ \A j \in 1 .. Len(q) + 1 :
            (front \o right)[j] = IF j <= i + 1 THEN front[j] ELSE right[j - (i + 1)]
  <2>1. /\ front \o right \in Seq(S)
        /\ Len(front \o right) = Len(front) + Len(right)
        /\ \A j \in 1 .. Len(front) + Len(right) :
              (front \o right)[j] = IF j <= Len(front) THEN front[j] ELSE right[j - Len(front)]
    BY <1>4, <1>7, ConcatProperties
  <2>2. Len(front) + Len(right) = Len(q) + 1 /\ Len(front) = i + 1
    BY <1>1, <1>4, <1>7
  <2> QED
    BY <2>1, <2>2
<1>9. ASSUME NEW j \in 0 .. Len(q)
      PROVE  (front \o right)[j + 1] = IF j < i THEN q[j + 1] ELSE IF j = i THEN t ELSE q[j]
  <2>1. j \in Nat /\ j + 1 \in 1 .. Len(q) + 1
    BY <1>1
  <2>2. (front \o right)[j + 1]
           = IF j + 1 <= i + 1 THEN front[j + 1] ELSE right[(j + 1) - (i + 1)]
    BY <1>8, <2>1
  <2>3. CASE j < i
    BY <1>1, <1>3, <1>7, <2>1, <2>2, <2>3
  <2>4. CASE j = i
    BY <1>1, <1>7, <2>1, <2>2, <2>4
  <2>5. CASE j > i
    <3>1. (front \o right)[j + 1] = right[j - i]
      BY <1>1, <2>1, <2>2, <2>5
    <3>2. j - i \in 1 .. Len(q) - i /\ i + (j - i) = j
      BY <1>1, <2>1, <2>5
    <3>3. right[j - i] = q[j]
      BY <1>4, <3>2
    <3> QED
      BY <1>1, <2>1, <2>5, <3>1, <3>3
  <2>6. j < i \/ j = i \/ j > i
    BY <1>1, <2>1
  <2> QED
    BY <2>3, <2>4, <2>5, <2>6, Zenon
<1>10. \A j \in 0 .. Len(q) : TrackAt(q, j - 1) = q[j]
  BY <1>1 DEF TrackAt
<1>11. ASSUME NEW j \in 0 .. Len(q)
       PROVE  TrackAt(Inserted(q, i, t), j)
                 = IF j < i THEN TrackAt(q, j) ELSE IF j = i THEN t ELSE TrackAt(q, j - 1)
  <2>1. TrackAt(Inserted(q, i, t), j) = (front \o right)[j + 1] /\ TrackAt(q, j) = q[j + 1]
    BY <1>6, Zenon DEF TrackAt
  <2>2. (front \o right)[j + 1] = IF j < i THEN q[j + 1] ELSE IF j = i THEN t ELSE q[j]
    BY <1>9
  <2> QED
    BY <1>10, <2>1, <2>2
<1> QED
  BY <1>6, <1>8, <1>11

(***************************************************************************)
(* move_in_queue permutes the queue, and IndexAfterMove says where each    *)
(* track has gone.                                                         *)
(***************************************************************************)
LEMMA MovedProperties ==
  ASSUME NEW S, NEW q \in Seq(S), NEW from \in Positions(q), NEW to \in Positions(q)
  PROVE  /\ Moved(q, from, to) \in Seq(S)
         /\ Len(Moved(q, from, to)) = Len(q)
         /\ \A cur \in Positions(q) :
               /\ IndexAfterMove(cur, from, to) \in Positions(q)
               /\ TrackAt(Moved(q, from, to), IndexAfterMove(cur, from, to)) = TrackAt(q, cur)
<1>1. /\ Len(q) \in Nat
      /\ from \in Nat /\ from < Len(q)
      /\ to \in Nat /\ to < Len(q)
  BY DEF Positions
<1>2. PICK t \in S : t = TrackAt(q, from)
  BY <1>1, ElementOfSeq DEF TrackAt
<1>3. PICK r \in Seq(S) :
         /\ r = Removed(q, from)
         /\ Len(r) = Len(q) - 1
         /\ \A j \in 0 .. Len(q) - 2 :
               TrackAt(r, j) = IF j < from THEN TrackAt(q, j) ELSE TrackAt(q, j + 1)
  BY RemovedProperties
<1>4. to \in 0 .. Len(r)
  BY <1>1, <1>3
<1>5. /\ Inserted(r, to, t) \in Seq(S)
      /\ Len(Inserted(r, to, t)) = Len(q)
      /\ \A j \in 0 .. Len(q) - 1 :
            TrackAt(Inserted(r, to, t), j) = IF j < to THEN TrackAt(r, j)
                                             ELSE IF j = to THEN t ELSE TrackAt(r, j - 1)
  <2>1. /\ Inserted(r, to, t) \in Seq(S)
        /\ Len(Inserted(r, to, t)) = Len(r) + 1
        /\ \A j \in 0 .. Len(r) :
              TrackAt(Inserted(r, to, t), j) = IF j < to THEN TrackAt(r, j)
                                               ELSE IF j = to THEN t ELSE TrackAt(r, j - 1)
    BY <1>4, InsertedProperties
  <2>2. Len(r) + 1 = Len(q)
    BY <1>1, <1>3
  <2> QED
    BY <1>3, <2>1, <2>2
<1>6. Moved(q, from, to) = Inserted(r, to, t)
  BY <1>2, <1>3 DEF Moved
<1>7. ASSUME NEW cur \in Positions(q)
      PROVE  /\ IndexAfterMove(cur, from, to) \in Positions(q)
             /\ TrackAt(Inserted(r, to, t), IndexAfterMove(cur, from, to)) = TrackAt(q, cur)
  <2>1. cur \in Nat /\ cur < Len(q) /\ cur # None
    BY <1>1 DEF Positions, None
  <2>2. IndexAfterMove(cur, from, to) \in Positions(q)
    BY <1>1, <2>1 DEF IndexAfterMove, Positions
  <2>3. CASE cur = from
    BY <1>1, <1>2, <1>5, <2>1, <2>2, <2>3 DEF IndexAfterMove
  <2>4. CASE cur # from
    <3> DEFINE new == IndexAfterMove(cur, from, to)
               low == IF cur < from THEN cur ELSE cur - 1
    <3>1. low \in 0 .. Len(q) - 2 /\ TrackAt(r, low) = TrackAt(q, cur)
      BY <1>1, <1>3, <2>1, <2>4
    <3>2. new = IF low < to THEN low ELSE low + 1
      BY <1>1, <2>1, <2>4 DEF IndexAfterMove
    <3>3. new \in 0 .. Len(q) - 1
      BY <2>2 DEF Positions
    <3> HIDE DEF new, low
    <3>4. TrackAt(Inserted(r, to, t), new) = TrackAt(r, low)
      BY <1>1, <1>5, <3>1, <3>2, <3>3
    <3> QED
      BY <2>2, <3>1, <3>4 DEF new
  <2> QED
    BY <2>2, <2>3, <2>4
<1> QED
  BY <1>5, <1>6, <1>7

(***************************************************************************)
(* remove_from_queue: the index of the current track stays in the queue,   *)
(* and stays on its track unless that is the one removed.                  *)
(***************************************************************************)
LEMMA IndexAfterRemoveProperties ==
  ASSUME NEW S, NEW q \in Seq(S), NEW i \in Positions(q), NEW cur, ValidIndex(cur, q)
  PROVE  /\ ValidIndex(IndexAfterRemove(cur, i, q), Removed(q, i))
         /\ cur # None /\ cur # i =>
               TrackAt(Removed(q, i), IndexAfterRemove(cur, i, q)) = TrackAt(q, cur)
<1>1. Len(q) \in Nat /\ i \in Nat /\ i < Len(q)
  BY DEF Positions
<1>2. /\ Len(Removed(q, i)) = Len(q) - 1
      /\ \A j \in 0 .. Len(q) - 2 :
            TrackAt(Removed(q, i), j) = IF j < i THEN TrackAt(q, j) ELSE TrackAt(q, j + 1)
  BY RemovedProperties
<1>3. CASE cur = None
  BY <1>3 DEF IndexAfterRemove, ValidIndex
<1>4. CASE cur # None
  <2>1. cur \in Nat /\ cur < Len(q)
    BY <1>1, <1>4 DEF ValidIndex, Positions
  <2>2. ValidIndex(IndexAfterRemove(cur, i, q), Removed(q, i))
    BY <1>1, <1>2, <1>4, <2>1 DEF IndexAfterRemove, ValidIndex, Positions, None
  <2>3. ASSUME cur # i
        PROVE  TrackAt(Removed(q, i), IndexAfterRemove(cur, i, q)) = TrackAt(q, cur)
    <3>1. CASE cur < i
      BY <1>1, <1>2, <2>1, <3>1 DEF IndexAfterRemove
    <3>2. CASE cur > i
      <4>1. IndexAfterRemove(cur, i, q) = cur - 1
        BY <1>1, <1>4, <2>1, <3>2 DEF IndexAfterRemove
      <4> QED
        BY <1>1, <1>2, <2>1, <3>2, <4>1
    <3> QED
      BY <1>1, <2>1, <2>3, <3>1, <3>2
  <2> QED
    BY <2>2, <2>3
<1> QED
  BY <1>3, <1>4

\* next and previous lead to no index or, from none or a position, to a position.
LEMMA NextPrevProperties ==
  ASSUME NEW len \in Nat, NEW i \in Nat \cup {None}, NEW repeat \in RepeatModes
  PROVE  /\ {NextIndex(i, len, repeat), PrevIndex(i, len, repeat)} \subseteq Nat \cup {None}
         /\ (i = None \/ i < len) =>
               {NextIndex(i, len, repeat), PrevIndex(i, len, repeat)}
                  \subseteq 0 .. len - 1 \cup {None}
<1>1. CASE len = 0
  <2>1. NextIndex(i, len, repeat) = None /\ PrevIndex(i, len, repeat) = None
    BY <1>1 DEF NextIndex, PrevIndex
  <2> QED
    BY <2>1
<1>2. CASE len # 0
  <2>1. (i + 1) % len \in 0 .. len - 1
    BY <1>2 DEF None
  <2>2. CASE repeat = "off"
    <3>1. /\ NextIndex(i, len, repeat) = IF i = None THEN 0 ELSE IF i + 1 < len THEN i + 1 ELSE None
          /\ PrevIndex(i, len, repeat) = IF i \in {None, 0} THEN None ELSE i - 1
      BY <1>2, <2>2, Zenon DEF NextIndex, PrevIndex
    <3> QED
      BY <1>2, <3>1 DEF None
  <2>3. CASE repeat = "one"
    <3>1. /\ NextIndex(i, len, repeat) = IF i = None THEN 0 ELSE i
          /\ PrevIndex(i, len, repeat) = IF i \in {None, 0} THEN 0 ELSE i - 1
      BY <1>2, <2>3, Zenon DEF NextIndex, PrevIndex
    <3> QED
      BY <1>2, <3>1 DEF None
  <2>4. CASE repeat = "all"
    <3>1. /\ NextIndex(i, len, repeat) = IF i = None THEN 0 ELSE (i + 1) % len
          /\ PrevIndex(i, len, repeat) = IF i \in {None, 0} THEN len - 1 ELSE i - 1
      BY <1>2, <2>4, Zenon DEF NextIndex, PrevIndex
    <3> QED
      BY <1>2, <2>1, <3>1 DEF None
  <2> QED
    BY <2>2, <2>3, <2>4 DEF RepeatModes
<1> QED
  BY <1>1, <1>2
=============================================================================
